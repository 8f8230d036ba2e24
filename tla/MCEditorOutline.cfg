SPECIFICATION Spec
CONSTANTS
  NoRegion = NoRegion
  Null = Null
  Texts <- EvenText
  MaxLines = 5
  MaxDepth = 1
  Heights = {3}
  StartSize = 3
  BackParses = {0}
  Budgets = {5}
  MaxEdits = 3
  MaxViews = 1
CHECK_DEADLOCK FALSE
INVARIANT OutlineMaintained
