---------------------------- MODULE LineRegions ----------------------------
(***************************************************************************)
(* LineRegionsSupport: the handler that turns the parser's callbacks into  *)
(* the list of regions of each line.  Pure operators: the state the        *)
(* handler keeps while a parse runs is a record                            *)
(*   [stack, line, flow]: the open schemes, the regions of the line being  *)
(*   parsed in the order they are linked, and the index of flowBackground. *)
(* An entry of the stack is [region, scheme]; a region of a line has       *)
(* start, end (-1: to the end of the line), region, scheme and special.    *)
(* Lines are kept in a ring of size slots, indexed modulo size.            *)
(***************************************************************************)
EXTENDS Integers, Sequences, SequencesExt

CONSTANTS
  NoRegion,  \* a null Region*: a transparent scheme
  Null       \* an empty slot of the ring, or a line out of its window

Background == [region |-> NoRegion, scheme |-> 0]

(* allocRegion(src): what runs from position s to the end of the line.     *)
Flow(entry, s) ==
  [start |-> s, end |-> -1, region |-> entry.region, scheme |-> entry.scheme,
   special |-> FALSE]

StartParsing == [stack |-> <<Background>>, line |-> <<>>, flow |-> 0]

ClearLine(h) == [h EXCEPT !.line = <<Flow(Last(h.stack), 0)>>, !.flow = 1]

AddRegion(h, s, e, region, special) ==
  [h EXCEPT !.line = Append(@, [start |-> s, end |-> e, region |-> region,
                                scheme |-> Last(h.stack).scheme, special |-> special])]

(* The running background ends at s, and that of entry begins.             *)
Switch(h, entry, s) ==
  [h EXCEPT !.line = Append([@ EXCEPT ![h.flow].end = s], Flow(entry, s)),
            !.flow = Len(h.line) + 1]

EnterScheme(h, s, region, scheme) ==
  LET entry == [region |-> region, scheme |-> scheme]
      opened == [h EXCEPT !.stack = Append(@, entry)]
  IN  IF region = NoRegion THEN opened ELSE Switch(opened, entry, s)

LeaveScheme(h, e) ==
  LET closed == [h EXCEPT !.stack = Front(@)]
  IN  IF Last(h.stack).region = NoRegion THEN closed
      ELSE Switch(closed, Last(closed.stack), e)

-----------------------------------------------------------------------------
(* The ring. *)

(* Mutant: the window of the ring is not looked at.                        *)
AnyLine(first, size, lno) == TRUE

CheckLine(first, size, lno) == first <= lno /\ lno < first + size

LineIndex(first, size, lno) == ((first % size) + lno - first) % size

EmptyRing(size) == [i \in 0 .. size - 1 |-> Null]

GetLineRegions(slots, first, size, lno) ==
  IF CheckLine(first, size, lno) THEN slots[LineIndex(first, size, lno)] ELSE Null

(* The ring after the lines of the function lines were parsed.             *)
Store(slots, first, size, lines) ==
  [i \in DOMAIN slots |->
     LET here == {l \in DOMAIN lines : CheckLine(first, size, l)
                                       /\ LineIndex(first, size, l) = i}
     IN  IF here = {} THEN slots[i] ELSE lines[CHOOSE l \in here : TRUE]]

-----------------------------------------------------------------------------
(* The elements of s that are in S, in their order.                        *)
Only(s, S) ==
  LET f[i \in 0 .. Len(s)] ==
        IF i = 0 THEN <<>> ELSE IF s[i] \in S THEN Append(f[i - 1], s[i]) ELSE f[i - 1]
  IN  f[Len(s)]

(* What is drawn of a line: special regions and empty ones are skipped.    *)
Drawn(line) == Only(line, {r \in ToSet(line) : ~r.special /\ r.start # r.end})
=============================================================================
