SPECIFICATION Spec
CONSTANTS
  NoRegion = NoRegion
  Null = Null
  Texts <- MCTexts
  MaxLines = 4
  MaxDepth = 2
  Heights <- MCHeights
  StartSize = 1
  BackParses = {0, 1}
  Budgets = {1}
  MaxEdits = 1
  MaxViews = 2
CHECK_DEADLOCK FALSE
INVARIANTS CacheKnown ShownFresh LocalPairRight OutlineComplete
PROPERTY Settles
