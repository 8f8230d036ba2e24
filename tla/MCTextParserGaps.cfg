CONSTANTS
  Symbols <- MCSymbols
  Blocks <- MCBlocks
  Regexps <- MCRegexps
  Base = "base"
  Content <- MCContent
  Starts <- MCStarts
  Ends <- MCEnds
  BackTraced <- MCBackTraced
  LowPriority = {"low"}
  Lines <- QuoteLines
  LineCount = 2
  Unavailable <- OneMissing
  Breaking = TRUE
  Modes = {"read", "update"}
  MaxRecursion = 100
  NoSym = NoSym
SPECIFICATION Spec
VIEW View
INVARIANTS CacheCorrect HandlerAgrees
PROPERTY ParseReturns
