CONSTANTS
  Symbols <- MCSymbols
  Blocks <- MCBlocks
  Regexps <- MCRegexps
  Base = "base"
  Content <- MCContent
  Starts <- MCStarts
  Ends <- MCEnds
  BackTraced <- MCBackTraced
  LowPriority = {"low"}
  Lines <- NestLines
  LineCount = 3
  Unavailable = {{}}
  Breaking = FALSE
  Modes = {"update"}
  MaxRecursion = 100
  NoSym = NoSym
SPECIFICATION Spec
VIEW View
INVARIANTS TypeOK CacheCorrect SiblingsOrdered CursorLive NothingLeaked LeavesMatch HandlerAgrees BackTraceOwn TryExact
