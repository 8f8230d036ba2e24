------------------------------- MODULE Scheme -------------------------------
(***************************************************************************)
(* What the parser knows of a language: schemes with an ordered list of    *)
(* nodes, abstracted to what the block structure of a text depends on.     *)
(*                                                                         *)
(* A line is a sequence of symbols.  The start expression of a node        *)
(* matches one symbol; a regexp node matches that symbol and the one after *)
(* it (an escape); the end expression of a block matches one symbol, and   *)
(* which ones may depend on the text of the start match (a back trace).    *)
(***************************************************************************)
EXTENDS Integers, Sequences, SequencesExt

CONSTANTS
  Symbols,      \* what a line is made of
  Blocks,       \* SchemeNodeBlock
  Regexps,      \* SchemeNodeRegexp
  Base,         \* the base scheme of the file type
  Content,      \* scheme -> the nodes searchMatch tries, in order
  Starts,       \* node -> symbols its start expression matches
  Ends,         \* block -> (start symbol -> symbols its end matches)
  BackTraced,   \* blocks whose end expression refers to the start match
  LowPriority   \* nodes that must not run over the end of their parent

Nodes == Blocks \cup Regexps
Schemes == Blocks \cup {Base}

ASSUME SchemeAssumption ==
  /\ Base \notin Nodes /\ Blocks \cap Regexps = {}
  /\ Content \in [Schemes -> Seq(Nodes)]
  /\ Starts \in [Nodes -> SUBSET Symbols]
  /\ Ends \in [Blocks -> [Symbols -> SUBSET Symbols]]
  /\ BackTraced \subseteq Blocks /\ LowPriority \subseteq Nodes
  /\ \A b \in Blocks \ BackTraced : \A s, u \in Symbols : Ends[b][s] = Ends[b][u]

(* Mutant: a regexp may match nothing.                                     *)
WidthOrNone(n) == IF n \in Regexps THEN 0 ELSE 1

(* The length of a start match; searchRE rejects a match of length zero.   *)
Width(n) == IF n \in Regexps THEN 2 ELSE 1

(* Whether the start of node n matches at position gx (from 0) of a line   *)
(* when the parent's end was found at stop: a low priority node has to fit *)
(* before it.                                                              *)
Matches(n, line, gx, stop) ==
  /\ gx < Len(line) /\ line[gx + 1] \in Starts[n]
  /\ gx + Width(n) <= IF n \in LowPriority THEN stop ELSE Len(line)

NodeAt(scheme, line, gx, stop) ==
  {i \in DOMAIN Content[scheme] : Matches(Content[scheme][i], line, gx, stop)}

(* First matching node at gx wins.                                         *)
SearchMatch(scheme, line, gx, stop) ==
  LET hits == NodeAt(scheme, line, gx, stop)
  IN  Content[scheme][CHOOSE i \in hits : \A j \in hits : i <= j]

(* Where the end of a block that was started by sym matches, from gx on.   *)
EndsFrom(block, sym, line, gx) ==
  {i \in gx .. Len(line) - 1 : line[i + 1] \in Ends[block][sym]}

-----------------------------------------------------------------------------
(***************************************************************************)
(* Reference: the blocks open at the start of every line, computed without *)
(* a cache and without looking for the end first, one symbol at a time by  *)
(* a push-down automaton.  An open block is [block, sym, pos].             *)
(***************************************************************************)
Feed(st, line, gx) ==
  LET top == IF st.open = <<>> THEN Base ELSE Last(st.open).block
      ends(i) == /\ st.open # <<>>
                 /\ i \in EndsFrom(top, Last(st.open).sym, line, i)
      stop == IF ends(gx) THEN gx
              ELSE IF ends(gx + 1) THEN gx + 1 ELSE Len(line)
  IN  IF gx < st.skip THEN st
      ELSE IF NodeAt(top, line, gx, stop) # {}
      THEN LET n == SearchMatch(top, line, gx, stop)
           IN  IF n \in Blocks
               THEN [st EXCEPT !.open = Append(@, [block |-> n, sym |-> line[gx + 1],
                                                   pos |-> gx])]
               ELSE [st EXCEPT !.skip = gx + 2]
      ELSE IF ends(gx) THEN [st EXCEPT !.open = Front(@)]
      ELSE st

OpenAfter(open, line) ==
  LET f[i \in 0..Len(line)] == IF i = 0 THEN [open |-> open, skip |-> 0]
                               ELSE Feed(f[i - 1], line, i - 1)
  IN  f[Len(line)].open

(* text is a function on 0 .. n-1; the result is one on 0 .. n.            *)
OpenAt(text, n) ==
  LET f[l \in 0..n] == IF l = 0 THEN <<>> ELSE OpenAfter(f[l - 1], text[l - 1])
  IN  f
=============================================================================
