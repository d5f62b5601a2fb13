SPECIFICATION FlowSpec
CONSTANTS
  OperatorLists <- Lists
  ProductLists <- OneProduct
  MaxOperators = 2
  MaxProducts = 2
  MaxTypes = 2
  MaxConfigs = 3
  People = {1, 2, 3}
  Grid <- TwoButtons
  Texts = {"t"}
  NoText = ""
  OfflineStart = FALSE
  MaxParts = 1
  None = None
PROPERTY EmptyMeansPassed
CHECK_DEADLOCK FALSE
