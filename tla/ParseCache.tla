----------------------------- MODULE ParseCache -----------------------------
(***************************************************************************)
(* The line cache of the text parser (TextParserHelpers.cpp, class         *)
(* ParseCache): a tree with one node for each block that spans more than   *)
(* one line.                                                               *)
(*                                                                         *)
(* A node is named by its path: the root is the empty sequence and         *)
(* Append(p, k) is the k-th child of p.  The code links siblings in a list *)
(* to which nodes are only appended and from which only suffixes are       *)
(* deleted, so the number of a child never changes while it lives; next,   *)
(* prev and parent are the neighbouring paths and a null pointer among     *)
(* siblings is the number 0.  A tree is a function from live paths to      *)
(*   sline, eline   first line that starts inside the block, last such     *)
(*   block          the block node that was entered (clender and scheme)   *)
(*   sym, pos       the start match: its text (backLine) and its position  *)
(*   cursor         search_child, the child searchLine visited last        *)
(***************************************************************************)
EXTENDS Integers, Sequences, FiniteSets, SequencesExt

Root == <<>>

KidCount(t, p) == Cardinality({q \in DOMAIN t : q # Root /\ Front(q) = p})

(* The children of p numbered above k, with everything below them.         *)
KidsAfter(t, p, k) ==
  {q \in DOMAIN t : /\ Len(q) > Len(p)
                    /\ SubSeq(q, 1, Len(p)) = p
                    /\ q[Len(p) + 1] > k}

(* Mutant: the destructor does not take the cursor back to the previous    *)
(* sibling.                                                                *)
DropKidsKeepingCursor(t, p, k) == Restrict(t, DOMAIN t \ KidsAfter(t, p, k))

(* Mutant: the destructor deletes a node without its children.             *)
DropKidsShallow(t, p, k) ==
  [q \in DOMAIN t \ {r \in KidsAfter(t, p, k) : Len(r) = Len(p) + 1} |->
     IF q = p /\ t[q].cursor > k THEN [t[q] EXCEPT !.cursor = k] ELSE t[q]]

(* Deleting a sibling suffix: each destructor, from the tail to the first  *)
(* deleted one, takes the parent's cursor back to its predecessor when the *)
(* cursor points at it.                                                    *)
DropKidsAfter(t, p, k) ==
  [q \in DOMAIN t \ KidsAfter(t, p, k) |->
     IF q = p /\ t[q].cursor > k THEN [t[q] EXCEPT !.cursor = k] ELSE t[q]]

DropChildren(t, p) == DropKidsAfter(t, p, 0)

DropNext(t, p) == DropKidsAfter(t, Front(p), Last(p))

(* Hanging a new node behind the k-th child of p.  The code overwrites the *)
(* next (or children) pointer: whatever hung there is no longer reachable. *)
Link(t, p, k, node) ==
  LET new == Append(p, k + 1)
  IN  [q \in (DOMAIN t \ KidsAfter(t, p, k)) \cup {new} |->
         IF q = new THEN node ELSE t[q]]

-----------------------------------------------------------------------------
Sline(t, p, k) == t[Append(p, k)].sline

(* Follow next while the next sibling still starts at or before ln.        *)
RightmostAtOrBefore(t, p, i, ln) ==
  CHOOSE j \in i..KidCount(t, p) :
    /\ \A m \in i + 1 .. j : Sline(t, p, m) <= ln
    /\ j = KidCount(t, p) \/ Sline(t, p, j + 1) > ln

(* The child of p that searchLine settles on, whose number it leaves in    *)
(* the cursor: onwards from the cursor, one sibling back, or from the head.*)
Pick(t, p, ln) ==
  LET at == IF t[p].cursor # 0 THEN t[p].cursor ELSE 1
  IN  IF Sline(t, p, at) <= ln THEN RightmostAtOrBefore(t, p, at, ln)
      ELSE IF at > 1 /\ Sline(t, p, at - 1) <= ln THEN at - 1
      ELSE RightmostAtOrBefore(t, p, 1, ln)

Covers(t, p, ln) == t[p].sline <= ln /\ ln <= t[p].eline

(* searchLine descends while the picked child covers ln and returns the    *)
(* last node that did.                                                     *)
SearchLine(t, ln) ==
  LET descends(q) ==
        \A k \in 1..Len(q) : /\ q[k] = Pick(t, SubSeq(q, 1, k - 1), ln)
                             /\ Covers(t, SubSeq(q, 1, k), ln)
  IN  CHOOSE q \in DOMAIN t :
        /\ descends(q)
        /\ \A r \in DOMAIN t : descends(r) => Len(r) <= Len(q)

(* Its second result: the last child of the found node before ln, or 0.    *)
ForwardOf(t, p, ln) ==
  IF KidCount(t, p) = 0 THEN 0
  ELSE LET k == Pick(t, p, ln) IN IF Sline(t, p, k) > ln THEN 0 ELSE k

(* Its side effect: the cursor of every node whose children it looked at.  *)
Searched(t, ln) ==
  LET found == SearchLine(t, ln)
  IN  [q \in DOMAIN t |->
         IF IsPrefix(q, found) /\ KidCount(t, q) > 0
         THEN [t[q] EXCEPT !.cursor = Pick(t, q, ln)]
         ELSE t[q]]
=============================================================================
