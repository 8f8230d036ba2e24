SPECIFICATION SpecParse
CONSTANTS
  Alphabet <- MCAlphabet
  Ascii <- MCAlphabet
  Letters = {"a", "b"}
  Breaks = {}
  Lower <- MCSame
  Upper <- MCSame
  Classes <- MCClasses
  Patterns <- MCPatterns
  Flags <- MCFlags
  Lines <- MCLines
  Traces <- MCTraces
  Shrink = 0
  MaxGroups = 3
  MaxRequired = 2
  StepLimit = 80
INVARIANT MarkersKept
CHECK_DEADLOCK FALSE
