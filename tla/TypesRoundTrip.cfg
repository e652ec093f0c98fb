CONSTANTS
  Mantissa = 2
  Width = 4
  Garbled = Garbled
  Path = {"types.json", "other.json"}
  First = "types.json"
  GoTypes <- MCGoTypes
  TsTypes = {}
  Texts = {}
SPECIFICATION Spec
INVARIANT TypesRoundTrip
CHECK_DEADLOCK FALSE
