CONSTANTS
  Symbols <- MCSymbols
  Blocks <- MCBlocks
  Regexps <- MCRegexps
  Base = "base"
  Content <- MCContent
  Starts <- MCStarts
  Ends <- MCEnds
  BackTraced <- MCBackTraced
  LowPriority = {"low"}
  Lines <- NestLines
  LineCount = 2
  Unavailable <- OneMissing
  Breaking = FALSE
  Modes = {"read", "update"}
  MaxRecursion = 100
  NoSym = NoSym
SPECIFICATION Spec
VIEW View
INVARIANT LeavesMatch
