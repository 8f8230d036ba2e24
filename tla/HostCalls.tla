----------------------------- MODULE HostCalls -----------------------------
(***************************************************************************)
(* The Go side of a session (colorer.go): every method is a sequence of    *)
(* calls into the WebAssembly module.  It copies its string arguments into *)
(* blocks the module allocates, calls one or more exported functions, and  *)
(* frees the blocks when it returns, by whichever path.  A call that traps *)
(* leaves the module in an unknown state: the session remembers the first  *)
(* such failure and refuses every later call.                              *)
(*                                                                         *)
(* NewSession makes the same kinds of calls before there is a session to   *)
(* remember anything, and closes the runtime on the first failure it looks *)
(* at.  It does not look at what colorer_free returns.                     *)
(***************************************************************************)
EXTENDS Integers, Sequences

CONSTANTS
  Methods,     \* the methods of Session
  Strings,      \* method -> how many blocks it allocates before its calls
  Calls,       \* method -> the most calls it makes then
  UserLoads,   \* how many user files NewSession hands to the module
  Messages,    \* what the module may write to stderr, or throw
  Silence      \* nothing written

ASSUME HostAssumption ==
  /\ Strings \in [Methods -> Nat] /\ Calls \in [Methods -> Nat \ {0}]
  /\ UserLoads \in Nat
  /\ Silence \notin Messages
  /\ {"New", "none"} \cap Methods = {}

Said == Messages \cup {Silence}

(* What a method returns: nil, an error of its own, or a *FatalError.       *)
Errors == [kind : {"none", "failed", "fatal"}, reason : Said]
NoError == [kind |-> "none", reason |-> Silence]
Failed == [kind |-> "failed", reason |-> Silence]
FatalError(said) == [kind |-> "fatal", reason |-> said]

VARIABLES
  stage,       \* "setup" (in NewSession), "open" or "closed"
  method,      \* the running method, "New", or "none"
  todo,        \* the calls it is still to make: kinds of call, in order
  loads,       \* the paths NewSession is still to load
  owed,        \* how many blocks its deferred calls are to free
  error,       \* what it returns
  fatal,       \* Session.fatal, or NoError
  heap,        \* host blocks alive in the module
  dead,        \* history: a call into the module trapped,
  noticed,     \*   one whose failure the code looks at,
  ranDead,     \*   and the module was entered again after that
  reason,      \* hostState: fatalReason, or else lastStderr
  written      \* what the module reported in the call it made last

callVars == <<stage, method, todo, loads, owed, error, fatal, heap, dead,
              noticed, ranDead, reason, written>>

(* Mutant: a path is freed twice.                                          *)
LoadFreeingTwice == <<"alloc", "work", "release", "release">>

(* What NewSession does with the catalog path, and loadUserPath with each  *)
(* user file.                                                              *)
LoadPath == <<"alloc", "work", "release">>

(* A method copies its strings, then makes its calls.                      *)
Plan(m) == [i \in 1 .. Strings[m] + Calls[m] |->
              IF i <= Strings[m] THEN "alloc" ELSE "work"]

InitCalls ==
  /\ stage = "setup" /\ method = "New"
  /\ todo \in {<<"work">>, <<"work", "work">>}
                 \* _initialize, and colorer_set_log_level with a handler
  /\ loads = 1 + UserLoads /\ owed = 0
  /\ error = NoError /\ fatal = NoError
  /\ heap = 0 /\ dead = FALSE /\ noticed = FALSE /\ ranDead = FALSE
  /\ reason = Silence /\ written = Silence

-----------------------------------------------------------------------------
(* callFn: beginCall, and the call itself.                                 *)

(* Mutant: what an earlier call wrote is kept.                             *)
ReasonKept(said) == IF said = Silence THEN reason ELSE said

(* The reason after a call that wrote said: beginCall forgot the one       *)
(* before.  (streamWriter keeps an unfinished line for the next call; the  *)
(* module leaves one only in the call it aborts.)                          *)
ReasonAfter(said) == said

EnterModule(said) ==
  /\ ranDead' = (ranDead \/ noticed)
  /\ reason' = ReasonAfter(said) /\ written' = said

Returns(said) == EnterModule(said) /\ UNCHANGED <<fatal, dead, noticed>>

(* Session.call remembers the failure, callFn alone only returns it.       *)
Traps(said) ==
  /\ EnterModule(said)
  /\ dead' = TRUE /\ noticed' = TRUE
  /\ fatal' = IF stage = "open" THEN FatalError(reason') ELSE fatal

(* Mutant: a failed session still calls the module.                        *)
NeverRefuses == FALSE

(* Session.call refuses once a call has failed.                            *)
Refuses == fatal # NoError

Refused == Refuses /\ UNCHANGED <<fatal, dead, noticed, ranDead, reason,
                                 written>>

-----------------------------------------------------------------------------
InMethod == method # "none" /\ error = NoError

Start(m) ==
  /\ stage = "open" /\ method = "none"
  /\ method' = m /\ todo' = Plan(m) /\ owed' = 0 /\ error' = NoError
  /\ UNCHANGED <<stage, loads, fatal, heap, dead, noticed, ranDead,
                 reason, written>>

(* colorer_alloc: a method defers the matching free at once.               *)
Alloc ==
  /\ InMethod /\ todo # <<>> /\ Head(todo) = "alloc" /\ ~Refuses
  /\ \E said \in Said : Returns(said)
  /\ todo' = Tail(todo) /\ owed' = owed + 1 /\ heap' = heap + 1
  /\ UNCHANGED <<stage, method, loads, error>>

(* Any other exported function.  Its answer may make the method return     *)
(* early, with an error or without (a line with no regions).               *)
Work ==
  /\ InMethod /\ todo # <<>> /\ Head(todo) = "work" /\ ~Refuses
  /\ \E said \in Said : Returns(said)
  /\ \/ todo' = Tail(todo) /\ UNCHANGED error
     \/ stage = "open" /\ todo' = <<>> /\ error' \in {NoError, Failed}
  /\ UNCHANGED <<stage, method, loads, owed, heap>>

(* A colorer_free whose error is thrown away.                              *)
TrapsUnnoticed(said) ==
  /\ EnterModule(said)
  /\ dead' = TRUE /\ UNCHANGED <<fatal, noticed>>

(* NewSession gives a block back as soon as it was used, and goes on when  *)
(* that call trapped.  Only then does it look at the answer of the call    *)
(* the block was for.                                                      *)
Release ==
  /\ InMethod /\ todo # <<>> /\ Head(todo) = "release"
  /\ \/ heap' = heap - 1 /\ \E said \in Said : Returns(said)
     \/ UNCHANGED heap /\ \E said \in Said : TrapsUnnoticed(said)
  /\ todo' = Tail(todo) /\ owed' = owed - 1
  /\ error' \in {NoError, Failed}
  /\ UNCHANGED <<stage, method, loads>>

(* A call fails, or is refused: the method returns that error.             *)
Fail ==
  /\ InMethod /\ todo # <<>> /\ Head(todo) # "release"
  /\ \/ Refused /\ error' = fatal
     \/ /\ ~Refuses /\ \E said \in Said : Traps(said)
        /\ error' = FatalError(reason')
  /\ todo' = <<>>
  /\ UNCHANGED <<stage, method, loads, owed, heap>>

(* A deferred colorer_free; what it returns is ignored.                    *)
FreeDeferred ==
  /\ stage = "open" /\ method # "none" /\ todo = <<>> /\ owed > 0
  /\ owed' = owed - 1
  /\ \/ Refused /\ UNCHANGED heap
     \/ ~Refuses /\ heap' = heap - 1 /\ \E said \in Said : Returns(said)
     \/ ~Refuses /\ UNCHANGED heap /\ \E said \in Said : Traps(said)
  /\ UNCHANGED <<stage, method, todo, loads, error>>

(* Mutant: a method that fails returns without its deferred calls.         *)
ReturnsEarly == error # NoError \/ owed = 0

AllFreed == owed = 0

ReturnFromMethod ==
  /\ stage = "open" /\ method # "none" /\ todo = <<>> /\ AllFreed
  /\ method' = "none" /\ owed' = 0
  /\ UNCHANGED <<stage, todo, loads, error, fatal, heap, dead, noticed, ranDead,
                 reason, written>>

NextPath ==
  /\ stage = "setup" /\ InMethod /\ todo = <<>> /\ loads > 0
  /\ todo' = LoadPath /\ loads' = loads - 1
  /\ UNCHANGED <<stage, method, owed, error, fatal, heap, dead, noticed,
                 ranDead, reason, written>>

(* NewSession: the session is handed out, or the runtime closed.           *)
Opened ==
  /\ stage = "setup" /\ todo = <<>> /\ (error = NoError => loads = 0)
  /\ stage' = IF error = NoError THEN "open" ELSE "closed"
  /\ method' = "none"
  /\ UNCHANGED <<todo, loads, owed, error, fatal, heap, dead, noticed,
                 ranDead, reason, written>>

(* Close: colorer_destroy unless the module has failed; then the runtime.  *)
Close ==
  /\ stage = "open" /\ method = "none"
  /\ stage' = "closed"
  /\ \/ Refused
     \/ ~Refuses /\ \E said \in Said : Returns(said) \/ Traps(said)
  /\ UNCHANGED <<method, todo, loads, owed, error, heap>>

NextCalls ==
  \/ \E m \in Methods : Start(m)
  \/ Alloc \/ Work \/ Release \/ Fail \/ FreeDeferred \/ ReturnFromMethod
  \/ NextPath \/ Opened \/ Close

SpecCalls == InitCalls /\ [][NextCalls]_callVars

-----------------------------------------------------------------------------
(* Properties. *)

TypeOK ==
  /\ stage \in {"setup", "open", "closed"}
  /\ method \in Methods \cup {"New", "none"}
  /\ todo \in Seq({"alloc", "work", "release"})
  /\ loads \in Nat /\ owed \in Nat /\ heap \in Nat
  /\ error \in Errors /\ fatal \in Errors
  /\ dead \in BOOLEAN /\ noticed \in BOOLEAN /\ ranDead \in BOOLEAN
  /\ reason \in Said /\ written \in Said

(* A failure a caller is told of is final: the session knows it, and the   *)
(* module is never run into again, not for a deferred free, not by a later *)
(* method and not to close; NewSession hands no session out.               *)
FailureIsFinal ==
  /\ ~ranDead
  /\ stage = "open" => (noticed <=> fatal # NoError)

(* "The session refuses every later call" after one "that did not return"  *)
(* (colorer.go:475): a session that was handed out knows of every call     *)
(* that trapped.  It does not: NewSession throws the error of colorer_free *)
(* away (colorer.go:794, :833).                                            *)
FailureKnown == stage = "open" /\ dead => fatal # NoError

(* "returning this same error": the first failure is never replaced.       *)
FirstFailureKept == [][fatal # NoError => fatal' = fatal]_callVars

(* Between two calls of its methods a session whose module works has no    *)
(* block of its host's left in the module's heap, whatever the methods     *)
(* returned.                                                               *)
HeapBalanced == stage = "open" /\ method = "none" /\ ~dead => heap = 0

(* The reason of the failure is what the module reported in the very call  *)
(* that failed, and empty when it reported nothing then.                   *)
ReasonOfFailingCall == fatal # NoError => fatal.reason = written
=============================================================================
