SPECIFICATION Spec
CONSTANTS
  NoRegion = NoRegion
  Null = Null
  Texts <- LongText
  MaxLines = 7
  MaxDepth = 2
  Heights = {2, 3}
  StartSize = 2
  BackParses = {0}
  Budgets = {7}
  MaxEdits = 0
  MaxViews = 2
CHECK_DEADLOCK FALSE
INVARIANT CoverPainted
