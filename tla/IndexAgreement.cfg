CONSTANTS
  Token = {"x", "X", "v", "f", "F"}
  Lower <- MCLower
  At = "@"
  Colon = ":"
  Path <- MCPaths
  PathRank <- MCRank
  Inputs <- MCInputs
SPECIFICATION Spec
INVARIANTS ResourcesIndexed ResourceFunctionsIndexed EachResourceOnce PlainIndexRoundTrips FirstNamesIndexed FunctionGroupsComplete ResourcesAgree FunctionsAgree GoReadsTsIndex CsLoadsIndexes 
CHECK_DEADLOCK FALSE
