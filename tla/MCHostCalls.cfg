CONSTANTS
  Methods <- MCMethods
  Strings <- MCStrings
  Calls <- MCCalls
  UserLoads = 2
  Messages = {"throw", "abort"}
  Silence = Silence
SPECIFICATION SpecCalls
INVARIANT FailureKnown
CHECK_DEADLOCK FALSE
