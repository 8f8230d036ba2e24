-------------------------- MODULE HostCalls_proofs --------------------------
(***************************************************************************)
(* Proofs about HostCalls: for any methods, any number of string arguments *)
(* and calls, and any number of user files.                                *)
(***************************************************************************)
EXTENDS HostCalls, TLAPS

(* How many blocks NewSession owes is read off the calls it has left.      *)
SetupShape ==
  stage = "setup" =>
    /\ fatal = NoError
    /\ noticed => error # NoError /\ todo = <<>>
    /\ \/ todo = <<"work", "work">> /\ owed = 0
       \/ todo = <<"work">> /\ owed = 0
       \/ todo = <<"alloc", "work", "release">> /\ owed = 0
       \/ todo = <<"work", "release">> /\ owed = 1
       \/ todo = <<"release">> /\ owed = 1
       \/ todo = <<>> /\ (error = NoError => owed = 0)

OpenShape ==
  stage = "open" =>
    /\ todo \in Seq({"alloc", "work"})
    /\ method = "none" => owed = 0 /\ todo = <<>>

BlocksOwed ==
  /\ stage # "closed" => heap >= owed /\ (~dead => heap = owed)
  /\ stage = "closed" => method = "none"
  /\ noticed => dead

Inv ==
  /\ TypeOK /\ SetupShape /\ OpenShape /\ BlocksOwed /\ FailureIsFinal
  /\ ReasonOfFailingCall

(* The invariant holds when NewSession starts.                             *)
LEMMA InitInv == InitCalls => Inv
  <1> SUFFICES ASSUME InitCalls PROVE Inv
    OBVIOUS
  <1>1. todo \in Seq({"alloc", "work", "release"})
    <2>1. <<"work">> \in Seq({"alloc", "work", "release"})
      OBVIOUS
    <2>2. <<"work", "work">> \in Seq({"alloc", "work", "release"})
      OBVIOUS
    <2> QED
      BY <2>1, <2>2 DEF InitCalls
  <1>2. loads \in Nat
    BY HostAssumption DEF HostAssumption, InitCalls
  <1>3. TypeOK
    BY <1>1, <1>2 DEF InitCalls, TypeOK, NoError, Errors, Said
  <1> QED
    BY <1>3 DEF InitCalls, Inv, SetupShape, OpenShape, BlocksOwed, FailureIsFinal,
       ReasonOfFailingCall

(* A method's plan has no release in it.                                   *)
LEMMA PlanType ==
  ASSUME NEW m \in Methods PROVE Plan(m) \in Seq({"alloc", "work"})
  <1> DEFINE n == Strings[m] + Calls[m]
  <1>1. n \in Nat
    BY HostAssumption DEF HostAssumption
  <1>2. \A i \in 1..n : (IF i <= Strings[m] THEN "alloc" ELSE "work") \in {"alloc", "work"}
    OBVIOUS
  <1> QED
    BY <1>1, <1>2 DEF Plan

(* A call is made only while no failure was noticed.                       *)
LEMMA RefusesIffNoticed ==
  ASSUME Inv, stage # "closed", stage = "setup" => error = NoError
  PROVE  Refuses <=> noticed
  BY DEF Inv, TypeOK, SetupShape, FailureIsFinal, Refuses

(* What a call that returns leaves behind.                                 *)
LEMMA ReturnsEffect ==
  ASSUME Inv, NEW said \in Said, Returns(said), ~noticed
  PROVE  /\ ranDead' = FALSE /\ reason' \in Said /\ written' \in Said
         /\ fatal' = fatal /\ fatal' \in Errors /\ dead' = dead /\ noticed' = FALSE
  BY DEF Inv, TypeOK, FailureIsFinal, Returns, EnterModule, ReasonAfter

(* A call that traps: the failure is recorded with what it reported.       *)
LEMMA TrapsEffect ==
  ASSUME Inv, NEW said \in Said, Traps(said), ~noticed
  PROVE  /\ ranDead' = FALSE /\ reason' \in Said /\ written' \in Said
         /\ dead' = TRUE /\ noticed' = TRUE
         /\ fatal' = IF stage = "open" THEN FatalError(written') ELSE fatal
         /\ reason' = written'
         /\ FatalError(written') \in Errors /\ FatalError(written') # NoError
         /\ FatalError(written').reason = written'
  BY DEF Inv, TypeOK, FailureIsFinal, Traps, EnterModule, ReasonAfter, FatalError,
     Errors, NoError

(* Taking the next call off a plan.                                        *)
LEMMA TailType ==
  ASSUME NEW S, NEW s \in Seq(S), s # <<>>
  PROVE  Tail(s) \in Seq(S) /\ Head(s) \in S
  OBVIOUS

(* What is left of a plan has the same kinds of calls in it.               *)
LEMMA TodoTail ==
  ASSUME TypeOK, OpenShape, todo # <<>>
  PROVE  /\ Tail(todo) \in Seq({"alloc", "work", "release"})
         /\ stage = "open" => /\ Tail(todo) \in Seq({"alloc", "work"})
                              /\ Head(todo) # "release"
  <1>1. todo \in Seq({"alloc", "work", "release"})
    BY DEF TypeOK
  <1>2. stage = "open" => todo \in Seq({"alloc", "work"})
    BY DEF OpenShape
  <1> QED
    BY <1>1, <1>2, TailType

(* The shapes NewSession leaves behind, one call at a time.                *)
LEMMA SetupTails ==
  /\ Tail(<<"work", "work">>) = <<"work">> /\ Tail(<<"work">>) = <<>>
  /\ Tail(<<"alloc", "work", "release">>) = <<"work", "release">>
  /\ Tail(<<"work", "release">>) = <<"release">> /\ Tail(<<"release">>) = <<>>
  /\ Head(<<"work", "work">>) = "work" /\ Head(<<"work">>) = "work"
  /\ Head(<<"alloc", "work", "release">>) = "alloc"
  /\ Head(<<"work", "release">>) = "work" /\ Head(<<"release">>) = "release"
  OBVIOUS

(* Where NewSession is when it has a call left to make.                    *)
LEMMA SetupTail ==
  ASSUME SetupShape, stage = "setup", todo # <<>>
  PROVE  /\ fatal = NoError /\ ~noticed
         /\ \/ Head(todo) = "work" /\ Tail(todo) = <<"work">> /\ owed = 0
            \/ Head(todo) = "work" /\ Tail(todo) = <<>> /\ owed = 0
            \/ Head(todo) = "alloc" /\ Tail(todo) = <<"work", "release">> /\ owed = 0
            \/ Head(todo) = "work" /\ Tail(todo) = <<"release">> /\ owed = 1
            \/ Head(todo) = "release" /\ Tail(todo) = <<>> /\ owed = 1
  BY SetupTails DEF SetupShape

(* No call left is a plan as well.                                         *)
LEMMA EmptyPlan ==
  <<>> \in Seq({"alloc", "work"}) /\ <<>> \in Seq({"alloc", "work", "release"})
  OBVIOUS

(* A method's plan is a plan of NewSession's kinds of calls.               *)
LEMMA SubPlan == Seq({"alloc", "work"}) \subseteq Seq({"alloc", "work", "release"})
  OBVIOUS

(* The errors of the methods' own making.                                  *)
LEMMA ErrorTypes ==
  NoError \in Errors /\ Failed \in Errors
  BY DEF NoError, Failed, Errors, Said

(* Every step keeps the invariant.                                         *)
LEMMA StepInv == Inv /\ [NextCalls]_callVars => Inv'
  <1> SUFFICES ASSUME Inv, [NextCalls]_callVars PROVE Inv'
    OBVIOUS
  <1> TypeOK /\ SetupShape /\ OpenShape /\ BlocksOwed /\ FailureIsFinal /\ ReasonOfFailingCall
    BY DEF Inv
  <1> SUFFICES TypeOK' /\ SetupShape' /\ OpenShape' /\ BlocksOwed' /\ FailureIsFinal'
               /\ ReasonOfFailingCall'
    BY DEF Inv
  <1>1. ASSUME NEW m \in Methods, Start(m)
        PROVE TypeOK' /\ SetupShape' /\ OpenShape' /\ BlocksOwed' /\ FailureIsFinal'
              /\ ReasonOfFailingCall'
    <2>1. todo' \in Seq({"alloc", "work"}) /\ todo' \in Seq({"alloc", "work", "release"})
      BY <1>1, PlanType, SubPlan DEF Start
    <2>2. TypeOK'
      BY <1>1, <2>1, ErrorTypes DEF Start, TypeOK
    <2>3. method' # "none"
      BY <1>1, HostAssumption DEF Start, HostAssumption
    <2> QED
      BY <1>1, <2>1, <2>2, <2>3 DEF Start, SetupShape, OpenShape, BlocksOwed,
         FailureIsFinal, ReasonOfFailingCall
  <1>2. CASE Alloc
    <2>1. PICK said \in Said : Returns(said)
      BY <1>2 DEF Alloc
    <2>2. stage # "closed"
      BY <1>2 DEF Alloc, InMethod, BlocksOwed
    <2>3. ~noticed
      BY <1>2, <2>2, RefusesIffNoticed DEF Alloc, InMethod
    <2>4. /\ ranDead' = FALSE /\ reason' \in Said /\ written' \in Said
        /\ fatal' = fatal /\ fatal' \in Errors /\ dead' = dead /\ noticed' = FALSE
      BY <2>1, <2>3, ReturnsEffect
    <2>5. TypeOK'
      <3>1. todo' \in Seq({"alloc", "work", "release"})
        BY <1>2, TodoTail DEF Alloc
      <3>2. owed' \in Nat /\ heap' \in Nat /\ loads' \in Nat /\ error' \in Errors
        BY <1>2 DEF Alloc, TypeOK
      <3> QED
        BY <1>2, <2>4, <3>1, <3>2 DEF Alloc, TypeOK
    <2>6. SetupShape'
      BY <1>2, <2>4, SetupTail DEF Alloc, SetupShape, InMethod
    <2>7. OpenShape'
      BY <1>2, TodoTail DEF Alloc, OpenShape, InMethod
    <2>8. fatal = NoError
      BY <1>2 DEF Alloc, Refuses
    <2> QED
      BY <1>2, <2>2, <2>3, <2>4, <2>5, <2>6, <2>7, <2>8 DEF Alloc, BlocksOwed, FailureIsFinal,
         ReasonOfFailingCall, TypeOK
  <1>3. CASE Work
    <2>1. PICK said \in Said : Returns(said)
      BY <1>3 DEF Work
    <2>2. stage # "closed"
      BY <1>3 DEF Work, InMethod, BlocksOwed
    <2>3. ~noticed
      BY <1>3, <2>2, RefusesIffNoticed DEF Work, InMethod
    <2>4. /\ ranDead' = FALSE /\ reason' \in Said /\ written' \in Said
        /\ fatal' = fatal /\ fatal' \in Errors /\ dead' = dead /\ noticed' = FALSE
      BY <2>1, <2>3, ReturnsEffect
    <2>5. TypeOK'
      <3>1. todo' \in Seq({"alloc", "work", "release"})
        BY <1>3, TodoTail, EmptyPlan DEF Work
      <3>2. owed' \in Nat /\ heap' \in Nat /\ loads' \in Nat /\ error' \in Errors
        BY <1>3, ErrorTypes DEF Work, TypeOK
      <3> QED
        BY <1>3, <2>4, <3>1, <3>2 DEF Work, TypeOK
    <2>6. SetupShape'
      BY <1>3, <2>4, SetupTail DEF Work, SetupShape, InMethod
    <2>7. OpenShape'
      <3>1. stage' = "open" => todo' \in Seq({"alloc", "work"})
        BY <1>3, TodoTail, EmptyPlan DEF Work
      <3> QED
        BY <1>3, <3>1 DEF Work, OpenShape, InMethod
    <2>8. fatal = NoError
      BY <1>3 DEF Work, Refuses
    <2> QED
      BY <1>3, <2>2, <2>3, <2>4, <2>5, <2>6, <2>7, <2>8 DEF Work, BlocksOwed, FailureIsFinal,
         ReasonOfFailingCall
  <1>4. CASE Release
    <2>1. stage = "setup"
      BY <1>4, TodoTail DEF Release, InMethod, BlocksOwed, TypeOK
    <2>2. /\ ~noticed /\ fatal = NoError /\ owed = 1 /\ todo' = <<>> /\ owed' = 0
          /\ heap \in Nat /\ heap >= 1 /\ (~dead => heap = 1)
      BY <1>4, <2>1, SetupTail DEF Release, BlocksOwed, TypeOK
    <2>3. /\ ranDead' = FALSE /\ reason' \in Said /\ written' \in Said
          /\ fatal' = fatal /\ noticed' = FALSE
          /\ \/ dead' = dead /\ heap' = heap - 1
             \/ dead' = TRUE /\ heap' = heap
      <3>1. CASE heap' = heap - 1 /\ \E said \in Said : Returns(said)
        BY <2>2, <3>1, ReturnsEffect
      <3>2. CASE UNCHANGED heap /\ \E said \in Said : TrapsUnnoticed(said)
        <4>1. PICK said \in Said : TrapsUnnoticed(said)
          BY <3>2
        <4>2. ranDead' = FALSE /\ noticed' = FALSE
          BY <2>2, <4>1 DEF TrapsUnnoticed, EnterModule, FailureIsFinal, TypeOK
        <4> QED
          BY <3>2, <4>1, <4>2 DEF TrapsUnnoticed, EnterModule, ReasonAfter
      <3> QED
        BY <1>4, <3>1, <3>2 DEF Release
    <2>4. dead' \in BOOLEAN /\ heap' \in Nat /\ heap' >= 0 /\ (~dead' => heap' = 0)
      <3>1. CASE dead' = dead /\ heap' = heap - 1
        BY <2>2, <3>1 DEF TypeOK
      <3>2. CASE dead' = TRUE /\ heap' = heap
        BY <2>2, <3>2
      <3> QED
        BY <2>3, <3>1, <3>2
    <2>5. TypeOK'
      <3>1. todo' \in Seq({"alloc", "work", "release"})
        BY <2>2, EmptyPlan
      <3>2. /\ loads' \in Nat /\ error' \in Errors /\ fatal' \in Errors
            /\ stage' = stage /\ method' = method
        BY <1>4, <2>3, ErrorTypes DEF Release, TypeOK
      <3>3. /\ ranDead' \in BOOLEAN /\ reason' \in Said /\ written' \in Said
            /\ noticed' \in BOOLEAN /\ owed' \in Nat
        BY <2>2, <2>3
      <3> QED
        BY <2>4, <3>1, <3>2, <3>3 DEF TypeOK
    <2> QED
      BY <1>4, <2>1, <2>2, <2>3, <2>4, <2>5 DEF Release, SetupShape, OpenShape, BlocksOwed,
         FailureIsFinal, ReasonOfFailingCall
  <1>5. CASE Fail
    <2>1. stage # "closed" /\ stage \in {"setup", "open"} /\ error = NoError
      BY <1>5 DEF Fail, InMethod, BlocksOwed, TypeOK
    <2>2. CASE Refused
      <3>1. error' \in Errors /\ todo' \in Seq({"alloc", "work"})
             /\ todo' \in Seq({"alloc", "work", "release"}) /\ stage = "open"
        BY <1>5, <2>1, <2>2, SetupTail DEF Fail, Refused, Refuses, TypeOK
      <3> QED
        BY <1>5, <2>1, <2>2, <3>1 DEF Fail, Refused, Refuses, TypeOK, SetupShape, OpenShape,
           BlocksOwed, FailureIsFinal, ReasonOfFailingCall, InMethod
    <2>3. CASE ~Refuses
      <3>1. PICK said \in Said : Traps(said)
        BY <1>5, <2>3 DEF Fail, Refused
      <3>2. ~noticed
        BY <2>1, <2>3, RefusesIffNoticed
      <3>3. error' = FatalError(reason')
        BY <1>5, <2>3 DEF Fail, Refused
      <3>4. /\ ranDead' = FALSE /\ reason' \in Said /\ written' \in Said
            /\ dead' = TRUE /\ noticed' = TRUE
            /\ fatal' = IF stage = "open" THEN FatalError(written') ELSE fatal
            /\ reason' = written'
            /\ FatalError(written') \in Errors /\ FatalError(written') # NoError
            /\ FatalError(written').reason = written'
        BY <3>1, <3>2, TrapsEffect
      <3>5. todo' \in Seq({"alloc", "work"}) /\ todo' \in Seq({"alloc", "work", "release"})
            /\ todo' = <<>>
        BY <1>5 DEF Fail
      <3>6. TypeOK'
        BY <1>5, <3>3, <3>4, <3>5 DEF Fail, TypeOK
      <3>7. stage = "setup" => fatal = NoError
        BY DEF SetupShape
      <3> QED
        BY <1>5, <2>1, <3>3, <3>4, <3>5, <3>6, <3>7 DEF Fail, SetupShape, OpenShape,
           BlocksOwed, FailureIsFinal, ReasonOfFailingCall, InMethod
    <2> QED
      BY <1>5, <2>2, <2>3 DEF Fail
  <1>6. CASE FreeDeferred
    <2>1. stage = "open" /\ method # "none" /\ owed \in Nat /\ owed > 0
      BY <1>6 DEF FreeDeferred, TypeOK
    <2>2. CASE Refused
      BY <1>6, <2>1, <2>2 DEF FreeDeferred, Refused, Refuses, TypeOK, SetupShape, OpenShape,
         BlocksOwed, FailureIsFinal, ReasonOfFailingCall
    <2>3. CASE ~Refuses
      <3>1. ~noticed /\ fatal = NoError /\ heap >= owed /\ (~dead => heap = owed) /\ heap \in Nat
        BY <2>1, <2>3, RefusesIffNoticed DEF Refuses, BlocksOwed, TypeOK
      <3>2. CASE heap' = heap - 1 /\ \E said \in Said : Returns(said)
        <4>1. PICK said \in Said : Returns(said)
          BY <3>2
        <4>2. /\ ranDead' = FALSE /\ reason' \in Said /\ written' \in Said
        /\ fatal' = fatal /\ fatal' \in Errors /\ dead' = dead /\ noticed' = FALSE
          BY <3>1, <4>1, ReturnsEffect
        <4>3. todo' = todo /\ owed' \in Nat /\ heap' \in Nat
          BY <1>6, <2>1, <3>1, <3>2 DEF FreeDeferred, TypeOK
        <4>4. TypeOK'
          BY <1>6, <2>1, <4>2, <4>3 DEF FreeDeferred, TypeOK
        <4> QED
          BY <1>6, <2>1, <3>1, <3>2, <4>2, <4>4 DEF FreeDeferred, SetupShape, OpenShape,
             BlocksOwed, FailureIsFinal, ReasonOfFailingCall
      <3>3. CASE UNCHANGED heap /\ \E said \in Said : Traps(said)
        <4>1. PICK said \in Said : Traps(said)
          BY <3>3
        <4>2. /\ ranDead' = FALSE /\ reason' \in Said /\ written' \in Said
              /\ dead' = TRUE /\ noticed' = TRUE
              /\ fatal' = FatalError(written')
              /\ FatalError(written') \in Errors /\ FatalError(written') # NoError
              /\ FatalError(written').reason = written'
          BY <2>1, <3>1, <4>1, TrapsEffect
        <4>3. todo' = todo /\ owed' \in Nat /\ heap' \in Nat
          BY <1>6, <2>1, <3>1, <3>3 DEF FreeDeferred, TypeOK
        <4>4. TypeOK'
          BY <1>6, <2>1, <4>2, <4>3 DEF FreeDeferred, TypeOK
        <4> QED
          BY <1>6, <2>1, <3>1, <3>3, <4>2, <4>4 DEF FreeDeferred, SetupShape, OpenShape,
             BlocksOwed, FailureIsFinal, ReasonOfFailingCall
      <3> QED
        BY <1>6, <2>3, <3>2, <3>3 DEF FreeDeferred, Refused
    <2> QED
      BY <1>6, <2>2, <2>3 DEF FreeDeferred
  <1>7. CASE ReturnFromMethod
    BY <1>7 DEF ReturnFromMethod, AllFreed, TypeOK, SetupShape, OpenShape, BlocksOwed,
       FailureIsFinal, ReasonOfFailingCall
  <1>8. CASE NextPath
    <2>1. todo' \in Seq({"alloc", "work", "release"})
      BY <1>8 DEF NextPath, LoadPath
    <2> QED
      BY <1>8, <2>1 DEF NextPath, InMethod, LoadPath, TypeOK, SetupShape, OpenShape, BlocksOwed,
       FailureIsFinal, ReasonOfFailingCall
  <1>9. CASE Opened
    <2>1. todo' \in Seq({"alloc", "work"})
      BY <1>9 DEF Opened
    <2> QED
      BY <1>9, <2>1 DEF Opened, TypeOK, SetupShape, OpenShape, BlocksOwed,
       FailureIsFinal, ReasonOfFailingCall
  <1>10. CASE Close
    <2>1. CASE Refused
      BY <1>10, <2>1 DEF Close, Refused, TypeOK, SetupShape, OpenShape, BlocksOwed,
         FailureIsFinal, ReasonOfFailingCall
    <2>2. CASE ~Refuses
      <3>1. ~noticed /\ stage = "open"
        BY <1>10, <2>2, RefusesIffNoticed DEF Close
      <3>2. PICK said \in Said : Returns(said) \/ Traps(said)
        BY <1>10, <2>2 DEF Close, Refused
      <3>3. /\ ranDead' = FALSE /\ reason' \in Said /\ written' \in Said
            /\ dead' \in BOOLEAN /\ noticed' \in BOOLEAN /\ fatal' \in Errors
            /\ (noticed' => dead')
            /\ fatal' # NoError => fatal'.reason = written'
        BY <2>2, <3>1, <3>2, ReturnsEffect, TrapsEffect DEF TypeOK, Refuses
      <3> QED
        BY <1>10, <3>1, <3>3 DEF Close, TypeOK, SetupShape, OpenShape, BlocksOwed,
           FailureIsFinal, ReasonOfFailingCall
    <2> QED
      BY <1>10, <2>1, <2>2 DEF Close
  <1>11. CASE UNCHANGED callVars
    BY <1>11 DEF callVars, TypeOK, SetupShape, OpenShape, BlocksOwed,
       FailureIsFinal, ReasonOfFailingCall
  <1> QED
    BY <1>1, <1>2, <1>3, <1>4, <1>5, <1>6, <1>7, <1>8, <1>9, <1>10, <1>11 DEF NextCalls

-----------------------------------------------------------------------------
(* The whole invariant holds in every state.                               *)
THEOREM Invariance == SpecCalls => []Inv
  BY InitInv, StepInv, PTL DEF SpecCalls

(* Type correctness.                                                       *)
THEOREM TypeCorrect == SpecCalls => []TypeOK
  <1>1. Inv => TypeOK
    BY DEF Inv
  <1> QED
    BY <1>1, Invariance, PTL

(* A failure that a caller is told of is final: the session knows it and   *)
(* the module is not entered again.  (Of a trap whose error NewSession     *)
(* throws away nobody is told; FailureKnown is not a theorem.)             *)
THEOREM FailuresAreFinal == SpecCalls => []FailureIsFinal
  <1>1. Inv => FailureIsFinal
    BY DEF Inv
  <1> QED
    BY <1>1, Invariance, PTL

(* No method leaves a block behind in a working module.                    *)
THEOREM HeapIsBalanced == SpecCalls => []HeapBalanced
  <1>1. Inv => HeapBalanced
    BY DEF Inv, OpenShape, BlocksOwed, HeapBalanced
  <1> QED
    BY <1>1, Invariance, PTL

(* The reason of a failure was reported by the call that failed.           *)
THEOREM ReasonsAreOwn == SpecCalls => []ReasonOfFailingCall
  <1>1. Inv => ReasonOfFailingCall
    BY DEF Inv
  <1> QED
    BY <1>1, Invariance, PTL

(* The first failure is the one the session answers with ever after.       *)
THEOREM FirstFailureStays == SpecCalls => FirstFailureKept
  <1>1. Inv /\ [NextCalls]_callVars => [fatal # NoError => fatal' = fatal]_callVars
    <2> SUFFICES ASSUME Inv, NextCalls, fatal # NoError PROVE fatal' = fatal
      OBVIOUS
    <2>1. Refuses /\ stage # "setup"
      BY DEF Inv, SetupShape, Refuses
    <2> QED
      BY <2>1 DEF NextCalls, Start, Alloc, Work, Release, Fail, FreeDeferred, ReturnFromMethod, NextPath,
         Opened, Close, Refused, Returns, TrapsUnnoticed
  <1> QED
    BY <1>1, Invariance, PTL DEF SpecCalls, FirstFailureKept
=============================================================================
