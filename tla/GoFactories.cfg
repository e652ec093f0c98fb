CONSTANTS
  Factory = {f1, f2}
  Ptr = {p1, p2}
  Sealed = {p1}
  ZeroSize = {any}
  Sized = sized
  Free = free
  MaxRefs = 1
  MaxResets = 1
  MaxLiterals = 2
  MaxSnapshots = 2
SPECIFICATION Spec
INVARIANTS TypeOK ListMapInverse IssuedRefsResolve SnapshotsArePrefixes RefsPointBackwards
SYMMETRY Symmetry
PROPERTY EachFactoryIsATable
