------------------------------ MODULE Colouring ------------------------------
(***************************************************************************)
(* What a session promises its caller: it colours a stream of lines as if  *)
(* it had kept them all.  The colours of a line depend on the blocks open  *)
(* at its start; those on every line since the last restart, and not on    *)
(* what was dropped from memory in the meantime.                           *)
(***************************************************************************)
EXTENDS Scheme

CONSTANTS Lines, TypeNames, NoType

VARIABLES
  type,    \* the file type selected
  next,    \* NextLine: the number the next line will get
  open     \* the blocks open at its start

Init == type = NoType /\ next = 0 /\ open = <<>>

(* A line is coloured.  Without a file type it is only counted.            *)
Line(line) ==
  /\ next' = next + 1
  /\ open' = IF type # NoType THEN OpenAfter(open, line) ELSE open
  /\ UNCHANGED type

(* A file type is selected: lines go on, in a language of their own.       *)
SelectType(t) == type' = t /\ open' = <<>> /\ UNCHANGED next

Reset == next' = 0 /\ open' = <<>> /\ UNCHANGED type

Next == (\E line \in Lines : Line(line)) \/ (\E t \in TypeNames : SelectType(t)) \/ Reset

Spec == Init /\ [][Next]_<<type, next, open>>
=============================================================================
