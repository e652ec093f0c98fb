CONSTANTS
  Kind = {"ObjectType"}
  Malformed = malformed
  NullEntry = nullEntry
  InputTexts <- MCInputTexts
  MaxRefs = 1
  MaxNew = 2
  MaxObjects = 4
  MaxFactories = 3
  MaxIndex = 1
  MaxArray = 2
  MaxWrites = 1
SPECIFICATION Spec
CHECK_DEADLOCK FALSE
INVARIANTS LookupInverse ReadsWhatWasWritten WritesWhatWasRead
PROPERTY FactoriesGrow
