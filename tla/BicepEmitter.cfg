CONSTANTS
  None = None
  Ambiguous = Ambiguous
  Token <- Tokens
  Lower <- MCLower
  At = "@"
  Colon = ":"
  Path <- MCPaths
  PathRank <- MCRank
  Programs <- MCPrograms
  MaxCompilations = 2
SPECIFICATION Spec
INVARIANTS TablesPointBackwards IndexedAsWritten NothingLost OverflowsOnCycles
CHECK_DEADLOCK FALSE
