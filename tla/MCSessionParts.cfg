SPECIFICATION SpecParts
CONSTANTS
  Methods <- MCMethods
  Strings <- MCStrings
  Calls <- MCCalls
  UserLoads = 2
  Messages = {"throw", "abort"}
  Silence = Silence
  Symbols <- MCSymbols
  Blocks = {"H"}
  Regexps = {}
  Base = "base"
  Content <- MCContent
  Starts <- MCStarts
  Ends <- MCEnds
  BackTraced = {"H"}
  LowPriority = {}
  Lines <- MCLines
  LineCount = 3
  MaxRecursion = 100
  NoSym = NoSym
  TypeNames = {"t1", "t2"}
  NoType = NoType
  Word = 16
  ForgetArgs <- MCForgetArgs
  None = None
  Bad = Bad
  Missing = Missing
  Types <- MCTypes
  Names <- MCNames
  Wanted <- MCWanted
  Libraries <- MCLibraries
  Sessions = {s1, s2}
  MaxParses = 1
  MaxOpens = 2
INVARIANTS TypeOK FailureIsFinal HeapBalanced ReasonOfFailingCall
           NeverAsksForDropped LinksResolved ContextRestored
PROPERTIES FirstFailureKept ColoursAsIfKept ForgetsBelow CallsReturn
