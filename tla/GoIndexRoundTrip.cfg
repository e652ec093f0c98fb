CONSTANTS
  Token = {"x", "X", "v", "f", "F"}
  Lower <- MCLower
  At = "@"
  Colon = ":"
  Path <- MCPaths
  PathRank <- MCRank
  Inputs <- MCPlainFile
SPECIFICATION Spec
INVARIANT IndexRoundTrips
CHECK_DEADLOCK FALSE
