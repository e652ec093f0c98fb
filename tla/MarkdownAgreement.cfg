CONSTANTS
  Inputs <- MCInputs
  MaxDepth = 12
SPECIFICATION Spec
INVARIANTS PagesAgree PagesAreClosed
PROPERTY WritersTerminate
CHECK_DEADLOCK FALSE
