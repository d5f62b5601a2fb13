SPECIFICATION FlowSpec
CONSTANTS
  OperatorLists <- Lists
  ProductLists <- Products
  MaxOperators = 2
  MaxProducts = 2
  MaxTypes = 2
  MaxConfigs = 3
  People = {1, 2, 3}
  Grid <- TwoButtons
  Texts = {"t"}
  NoText = ""
  OfflineStart = TRUE
  MaxParts = 2
  None = None
INVARIANT FlowTypeOK
INVARIANT TypesWhole
INVARIANT HalfInspected
PROPERTY Attributed
PROPERTY NoteOfThisPart
