---------------------------- MODULE SessionParts ----------------------------
(***************************************************************************)
(* What a session stands on: its methods, which call into the module       *)
(* (HostCalls); the incremental parsing of the lines they bring (Session); *)
(* and the library of file types that all parsing shares (HrcLibrary).     *)
(* Side by side: none of the three reads the state of another, so a        *)
(* behaviour of this module is one of any.                                 *)
(***************************************************************************)
EXTENDS HostCalls, Session, HrcLibrary

VARIABLE part   \* "calls", "lines" or "library"

partVars == <<part, callVars, sessionVars, vars>>

(* The parts that do not run stay at one of their starts.                  *)
InitParts ==
  /\ part \in {"calls", "lines", "library"}
  /\ InitCalls /\ (part # "calls" => Len(todo) = 1)
  /\ InitSession
  /\ Init /\ (part # "library" => lib = CHOOSE l \in Libraries : TRUE)

(* Only a closed session, and a library nobody asks anything, may rest.    *)
Rest ==
  /\ \/ part = "calls" /\ stage = "closed"
     \/ part = "library" /\ stack = <<>> /\ writer = None
  /\ UNCHANGED partVars

NextParts ==
  \/ part = "calls" /\ NextCalls /\ UNCHANGED <<part, sessionVars, vars>>
  \/ part = "lines" /\ NextSession /\ UNCHANGED <<part, callVars, vars>>
  \/ part = "library" /\ Next /\ UNCHANGED <<part, callVars, sessionVars>>
  \/ Rest

SpecParts == InitParts /\ [][NextParts]_partVars /\ Fairness
=============================================================================
