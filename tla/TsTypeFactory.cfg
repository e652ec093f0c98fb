CONSTANTS
  Bound = {n1}
  Pattern = {re, undefinedText}
  Undefined = undefined
  UndefinedText = undefinedText
  OtherKinds = {"ObjectType"}
  MaxObjects = 5
SPECIFICATION Spec
INVARIANTS CachedRefsFaithful EqualTypesShared
PROPERTY ImplementsTable
