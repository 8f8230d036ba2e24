CONSTANTS
  NoRegion = NoRegion
  NoDefine = NoDefine
  Unset = Unset
  NoText = NoText
  NoType = NoType
  Broken = Broken
  NoPath = NoPath
  Bad = Bad
  Parent <- MCParent
  Needs <- MCNeeds
  CondIf <- MCCondIf
  Catalog <- MCCatalog
  HrdFiles <- MCHrdFiles
  Paths <- MCPaths
  Unreadable = {"default"}
  Schemeless = {"txt"}
  Grammar <- MCGrammar
  Lines <- MCLines
  Names <- MCNames
  MaxInputs = 3
SPECIFICATION Spec
INVARIANTS LinePainted TokensReported ParamsReported
CHECK_DEADLOCK FALSE
