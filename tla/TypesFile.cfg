CONSTANTS
  Mantissa = 2
  Width = 4
  Garbled = Garbled
  Path = {"types.json", "other.json"}
  First = "types.json"
  GoTypes <- MCGoTypes
  TsTypes <- MCTsTypes
  Texts <- MCTexts
SPECIFICATION Spec
INVARIANTS GoReadsWhatWasWritten TsReadsWhatWasWritten ToolFilesCanonical NeverLost
PROPERTY ConversionPreserves
CHECK_DEADLOCK FALSE
