CONSTANTS
  Ptr = {p1, p2, p3, p4}
  Nil = nil
  MaxResets = 1
  MaxSnapshots = 2
SPECIFICATION Spec
INVARIANT SnapshotsNeverChange
PROPERTY ImplementsTable
SYMMETRY Symmetry
