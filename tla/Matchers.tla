------------------------------ MODULE Matchers ------------------------------
(***************************************************************************)
(* What the parser tries at a place of a line: an expression (RegExp), a   *)
(* keyword list (Keywords), and the schemes that lead to them              *)
(* (VirtualSchemes).  They share nothing but the place; a behaviour of     *)
(* this module is one of any.                                              *)
(***************************************************************************)
EXTENDS RegExp, Keywords, VirtualSchemes

matcherVars == <<regexpVars, kwVars, vsVars>>

(* No expression is tried.                                                 *)
NoExpression ==
  /\ tree = <<>> /\ flags = {} /\ groups = 0
  /\ line = <<>> /\ eol = 0 /\ start = 0 /\ schemeStart = 0 /\ trace = <<>> /\ moves = FALSE
  /\ pc = "idle" /\ fast = FALSE /\ pos = 0 /\ plain = Stopped /\ steps = 0
  /\ re = <<>> /\ toParse = 0 /\ leftenter = TRUE /\ action = "None" /\ stack = <<>> /\ counters = <<>>
  /\ s = <<>> /\ e = <<>> /\ startChange = FALSE /\ endChange = FALSE

InitMatchers ==
  \/ InitParse /\ NoSearch /\ NoNesting
  \/ NoExpression /\ InitSearch /\ NoNesting
  \/ NoExpression /\ NoSearch /\ InitNesting

NextMatchers ==
  \/ NextParse /\ UNCHANGED <<kwVars, vsVars>>
  \/ NextSearch /\ UNCHANGED <<regexpVars, vsVars>>
  \/ NextNesting /\ UNCHANGED <<regexpVars, kwVars>>

SpecMatchers == InitMatchers /\ [][NextMatchers]_matcherVars
=============================================================================
