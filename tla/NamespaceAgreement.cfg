CONSTANTS
  Token = {"x", "X", "v", "f", "F"}
  Lower <- MCLower
  At = "@"
  Colon = ":"
  Path <- MCPaths
  PathRank <- MCRank
  Inputs <- MCInputs
SPECIFICATION Spec
INVARIANT NamespaceFunctionsAgree
CHECK_DEADLOCK FALSE
