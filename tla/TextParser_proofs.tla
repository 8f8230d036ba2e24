------------------------- MODULE TextParser_proofs -------------------------
(***************************************************************************)
(* Proofs about the parser, its line cache and what its handlers see: for  *)
(* every language, text and recursion limit, and every history of parses,  *)
(* edits and breaks.                                                       *)
(***************************************************************************)
EXTENDS TextParser, TLAPS, SequenceTheorems, FiniteSetTheorems

-----------------------------------------------------------------------------
(* The line cache: what a well-formed tree is, and that searching,         *)
(* deleting and linking keep it one, for trees of any size.                *)

(* Where nodes can be: sequences of child numbers.                         *)
Path == Seq(Nat \ {0})

NodesOf(B, Y) == [sline : Nat, eline : Nat, block : B, sym : Y, pos : Nat,
                  cursor : Nat]

(* With a node its ancestors are live.                                     *)
Rooted(t) ==
  /\ Root \in DOMAIN t /\ DOMAIN t \subseteq Path
  /\ \A p \in DOMAIN t : \A k \in 0..Len(p) : SubSeq(p, 1, k) \in DOMAIN t

(* The children of a node are numbered from 1 without a gap.               *)
HasKids(t, p, n) ==
  \A k \in Nat \ {0} : Append(p, k) \in DOMAIN t <=> k <= n

Numbered(t) == \A p \in DOMAIN t : \E n \in Nat : HasKids(t, p, n)

Shallow(t) == \E d \in Nat : \A p \in DOMAIN t : Len(p) <= d

CursorsLive(t) ==
  \A p \in DOMAIN t : t[p].cursor # 0 => Append(p, t[p].cursor) \in DOMAIN t

(* A well-formed tree of nodes for the blocks B with start texts Y.        *)
IsTree(t, B, Y) ==
  /\ t \in [DOMAIN t -> NodesOf(B, Y)]
  /\ Rooted(t) /\ Numbered(t) /\ Shallow(t) /\ CursorsLive(t)

(* Behind the k-th child of p: no child, or one that is live.              *)
At(t, p, k) == k \in Nat /\ (k # 0 => Append(p, k) \in DOMAIN t)

-----------------------------------------------------------------------------
(* A non-empty set of naturals has a least element.                        *)
LEMMA Least ==
  ASSUME NEW S \in SUBSET Nat, S # {}
  PROVE  \E x \in S : \A y \in S : x <= y
  <1>1. PICK x \in S : \A y \in S : ~ (<<y, x>> \in OpToRel(<, Nat))
    BY WFMin, NatLessThanWellFounded, Zenon
  <1>2. \A y \in S : <<y, x>> \in OpToRel(<, Nat) <=> y < x
    BY DEF OpToRel
  <1>3. \A y \in S : ~ (y < x)
    BY <1>1, <1>2, Zenon
  <1> QED
    BY <1>3

(* A bounded one has a greatest.                                           *)
LEMMA Greatest ==
  ASSUME NEW S \in SUBSET Nat, S # {}, NEW d \in Nat, \A x \in S : x <= d
  PROVE  \E x \in S : \A y \in S : y <= x
  <1> DEFINE T == {d - x : x \in S}
  <1>1. \A x \in S : d - x \in Nat
    OBVIOUS
  <1>2. T \in SUBSET Nat /\ T # {}
    BY <1>1, Zenon
  <1>3. PICK m \in T : \A y \in T : m <= y
    BY <1>2, Least, Zenon
  <1>4. PICK x \in S : m = d - x
    BY <1>3, Zenon
  <1>5. \A y \in S : d - x <= d - y
    BY <1>3, <1>4, Zenon
  <1> QED
    BY <1>5

(* Paths: appending, taking the front and the last.                        *)
LEMMA FrontOfAppend ==
  ASSUME NEW p \in Path, NEW k \in Nat \ {0}
  PROVE  /\ Append(p, k) \in Path /\ Append(p, k) # Root
         /\ Front(Append(p, k)) = p /\ Last(Append(p, k)) = k
         /\ Len(Append(p, k)) = Len(p) + 1
  <1> USE DEF Path
  <1>1. Append(p, k) \in Path /\ Append(p, k) # Root /\ Len(Append(p, k)) = Len(p) + 1
    BY AppendProperties DEF Root
  <1>2. Last(Append(p, k)) = k
    BY AppendProperties DEF Last
  <1>3. Front(Append(p, k)) = p
    BY DEF Front
  <1> QED
    BY <1>1, <1>2, <1>3

(* A path other than the root is its front with its last appended.          *)
LEMMA AppendOfFront ==
  ASSUME NEW p \in Path, p # Root
  PROVE  /\ Front(p) \in Path /\ Last(p) \in Nat \ {0}
         /\ p = Append(Front(p), Last(p)) /\ Len(Front(p)) = Len(p) - 1
  <1>1. PICK q \in Path, k \in Nat \ {0} : p = Append(q, k)
    BY SequenceEmptyOrAppend DEF Path, Root
  <1> QED
    BY <1>1, FrontOfAppend DEF Path

(* Paths: their beginnings.                                                *)
LEMMA Beginning ==
  ASSUME NEW p \in Path, NEW k \in 0..Len(p)
  PROVE  /\ SubSeq(p, 1, k) \in Path /\ Len(SubSeq(p, 1, k)) = k
         /\ \A i \in 1..k : SubSeq(p, 1, k)[i] = p[i]
         /\ k = Len(p) => SubSeq(p, 1, k) = p
         /\ k = 0 => SubSeq(p, 1, k) = Root
  <1> USE DEF Path
  <1>1. p \in Seq(Nat \ {0}) /\ Len(p) \in Nat /\ \A i \in 1..k : p[i] \in Nat \ {0}
    BY ElementOfSeq
  <1>2. /\ SubSeq(p, 1, k) \in Path /\ Len(SubSeq(p, 1, k)) = k
        /\ \A i \in 1..k : SubSeq(p, 1, k)[i] = p[i]
    BY <1>1, SubSeqProperties
  <1>3. k = Len(p) => SubSeq(p, 1, k) = p
    BY SubSeqFull
  <1>4. k = 0 => SubSeq(p, 1, k) = Root
    BY SubSeqEmpty DEF Root
  <1> QED
    BY <1>2, <1>3, <1>4

(* A beginning of a beginning of a path is one of the path.                 *)
LEMMA BeginningOfBeginning ==
  ASSUME NEW p \in Path, NEW k \in 0..Len(p), NEW j \in 0..k
  PROVE  SubSeq(SubSeq(p, 1, k), 1, j) = SubSeq(p, 1, j)
  <1> DEFINE q == SubSeq(p, 1, k)
  <1>1. Len(p) \in Nat /\ j \in 0..Len(p)
    BY DEF Path
  <1>2. q \in Path /\ Len(q) = k /\ \A i \in 1..k : q[i] = p[i]
    BY Beginning
  <1>3. /\ SubSeq(q, 1, j) \in Path /\ Len(SubSeq(q, 1, j)) = j
        /\ \A i \in 1..j : SubSeq(q, 1, j)[i] = q[i]
    BY <1>2, Beginning
  <1>4. /\ SubSeq(p, 1, j) \in Path /\ Len(SubSeq(p, 1, j)) = j
        /\ \A i \in 1..j : SubSeq(p, 1, j)[i] = p[i]
    BY <1>1, Beginning
  <1> HIDE DEF q
  <1> QED
    BY <1>2, <1>3, <1>4, SeqEqual DEF Path

(* Appending does not change the beginnings a path had.                     *)
LEMMA BeginningOfAppend ==
  ASSUME NEW p \in Path, NEW e \in Nat \ {0}, NEW k \in 0..Len(p)
  PROVE  SubSeq(Append(p, e), 1, k) = SubSeq(p, 1, k)
  <1> DEFINE q == Append(p, e)
  <1>1. /\ Len(p) \in Nat /\ q \in Path /\ Len(q) = Len(p) + 1
        /\ k \in 0..Len(q) /\ \A i \in 1..Len(p) : q[i] = p[i]
    BY AppendProperties DEF Path
  <1>2. /\ SubSeq(q, 1, k) \in Path /\ Len(SubSeq(q, 1, k)) = k
        /\ \A i \in 1..k : SubSeq(q, 1, k)[i] = q[i]
    BY <1>1, Beginning
  <1>3. /\ SubSeq(p, 1, k) \in Path /\ Len(SubSeq(p, 1, k)) = k
        /\ \A i \in 1..k : SubSeq(p, 1, k)[i] = p[i]
    BY Beginning
  <1> HIDE DEF q
  <1> QED
    BY <1>1, <1>2, <1>3, SeqEqual DEF Path

-----------------------------------------------------------------------------
(* KidCount counts the children.                                           *)
LEMMA KidCountIs ==
  ASSUME NEW t, Rooted(t), NEW p \in DOMAIN t, NEW n \in Nat, HasKids(t, p, n)
  PROVE  KidCount(t, p) = n
  <1> DEFINE kids == {q \in DOMAIN t : q # Root /\ Front(q) = p}
             f == [k \in 1..n |-> Append(p, k)]
  <1>1. p \in Path
    BY DEF Rooted
  <1>2. \A k \in 1..n : Append(p, k) \in kids
    BY <1>1, FrontOfAppend DEF HasKids
  <1>3. ASSUME NEW q \in kids PROVE \E k \in 1..n : q = Append(p, k)
    <2>1. q \in Path /\ q # Root /\ Front(q) = p
      BY DEF Rooted
    <2>2. q = Append(p, Last(q)) /\ Last(q) \in Nat \ {0}
      BY <2>1, AppendOfFront
    <2>3. Append(p, Last(q)) \in DOMAIN t
      BY <2>2
    <2>4. Last(q) \in 1..n
      BY <2>2, <2>3 DEF HasKids
    <2> QED
      BY <2>2, <2>4
  <1>4. \A j, k \in 1..n : Append(p, j) = Append(p, k) => j = k
    BY <1>1, AppendInjective DEF Path
  <1>5. f \in Bijection(1..n, kids)
    <2>1. f \in [1..n -> kids]
      BY <1>2
    <2> QED
      BY <2>1, <1>3, <1>4 DEF Bijection, Injection, Surjection, IsInjective
  <1>6. Cardinality(kids) = n
    BY <1>5, FS_CountingElements DEF ExistsBijection
  <1> QED
    BY <1>6 DEF KidCount

(* KidCount is the number of the last child.                                *)
LEMMA KidCountType ==
  ASSUME NEW t, Rooted(t), Numbered(t), NEW p \in DOMAIN t
  PROVE  KidCount(t, p) \in Nat /\ HasKids(t, p, KidCount(t, p))
  <1>1. PICK n \in Nat : HasKids(t, p, n)
    BY DEF Numbered
  <1>2. KidCount(t, p) = n
    BY <1>1, KidCountIs
  <1> QED
    BY <1>1, <1>2

(* The walk to the right from child i ends at a child that starts at or    *)
(* before ln, unless it is i, and whose next sibling does not.             *)
LEMMA RightmostType ==
  ASSUME NEW B, NEW Y, NEW t, IsTree(t, B, Y), NEW p \in DOMAIN t, NEW ln \in Nat,
         NEW i \in 1..KidCount(t, p)
  PROVE  LET j == RightmostAtOrBefore(t, p, i, ln)
         IN  /\ j \in i..KidCount(t, p)
             /\ \A m \in i + 1 .. j : Sline(t, p, m) <= ln
             /\ j = KidCount(t, p) \/ Sline(t, p, j + 1) > ln
  <1> DEFINE n == KidCount(t, p)
             S == {j \in i..n : j = n \/ Sline(t, p, j + 1) > ln}
  <1>1. n \in Nat /\ HasKids(t, p, n)
    BY KidCountType DEF IsTree
  <1>2. \A m \in 1..n : Sline(t, p, m) \in Nat
    <2> TAKE m \in 1..n
    <2>1. Append(p, m) \in DOMAIN t
      BY <1>1 DEF HasKids
    <2>2. t[Append(p, m)] \in NodesOf(B, Y)
      BY <2>1 DEF IsTree
    <2> QED
      BY <2>2 DEF Sline, NodesOf
  <1> HIDE DEF n
  <1>3. S \in SUBSET Nat /\ n \in S
    BY <1>1, i \in 1..n DEF n
  <1>4. PICK j \in S : \A m \in S : j <= m
    BY <1>3, Least
  <1>5. \A m \in i + 1 .. j : Sline(t, p, m) <= ln
    <2> TAKE m \in i + 1 .. j
    <2>1. m - 1 \in i..n /\ m - 1 # n /\ m - 1 \notin S /\ m \in 1..n
      BY <1>1, <1>4, i \in 1..n DEF n
    <2>2. ~ (Sline(t, p, m) > ln)
      BY <2>1
    <2> QED
      BY <1>2, <2>1, <2>2
  <1>6. \E x \in i..n : /\ \A m \in i + 1 .. x : Sline(t, p, m) <= ln
                        /\ x = n \/ Sline(t, p, x + 1) > ln
    BY <1>4, <1>5
  <1> QED
    BY <1>6 DEF RightmostAtOrBefore, n

(* searchLine settles on a living child.                                   *)
LEMMA PickType ==
  ASSUME NEW B, NEW Y, NEW t, IsTree(t, B, Y), NEW p \in DOMAIN t, NEW ln \in Nat,
         KidCount(t, p) # 0
  PROVE  Pick(t, p, ln) \in 1..KidCount(t, p)
  <1> DEFINE n == KidCount(t, p)
             at == IF t[p].cursor # 0 THEN t[p].cursor ELSE 1
  <1>1. n \in Nat \ {0} /\ HasKids(t, p, n)
    BY KidCountType DEF IsTree
  <1>2. at \in 1..n
    <2>1. t[p].cursor \in Nat
      BY DEF IsTree, NodesOf
    <2>2. t[p].cursor # 0 => t[p].cursor <= n
      BY <1>1, <2>1 DEF IsTree, CursorsLive, HasKids
    <2> QED
      BY <1>1, <2>1, <2>2
  <1>3. RightmostAtOrBefore(t, p, at, ln) \in at..n
    BY <1>2, RightmostType
  <1>4. 1 \in 1..n /\ RightmostAtOrBefore(t, p, 1, ln) \in 1..n
    BY <1>1, RightmostType
  <1> QED
    BY <1>1, <1>2, <1>3, <1>4 DEF Pick

(* searchLine's second result is null or a living child.                    *)
LEMMA ForwardIsAt ==
  ASSUME NEW B, NEW Y, NEW t, IsTree(t, B, Y), NEW p \in DOMAIN t, NEW ln \in Nat
  PROVE  At(t, p, ForwardOf(t, p, ln))
  <1>1. CASE KidCount(t, p) = 0
    BY <1>1 DEF ForwardOf, At
  <1>2. CASE KidCount(t, p) # 0
    <2>1. KidCount(t, p) \in Nat /\ HasKids(t, p, KidCount(t, p))
      BY KidCountType DEF IsTree
    <2>2. Pick(t, p, ln) \in 1..KidCount(t, p)
      BY <1>2, PickType
    <2>3. At(t, p, Pick(t, p, ln)) /\ At(t, p, 0)
      BY <2>1, <2>2 DEF At, HasKids
    <2> QED
      BY <1>2, <2>3 DEF ForwardOf
  <1> QED
    BY <1>1, <1>2

(* searchLine returns a living node.                                       *)
LEMMA SearchLineType ==
  ASSUME NEW B, NEW Y, NEW t, IsTree(t, B, Y), NEW ln \in Nat
  PROVE  SearchLine(t, ln) \in DOMAIN t
  <1> DEFINE descends(q) ==
               \A k \in 1..Len(q) : /\ q[k] = Pick(t, SubSeq(q, 1, k - 1), ln)
                                    /\ Covers(t, SubSeq(q, 1, k), ln)
             S == {Len(q) : q \in {r \in DOMAIN t : descends(r)}}
  <1>1. PICK d \in Nat : \A p \in DOMAIN t : Len(p) <= d
    BY DEF IsTree, Shallow
  <1>2. Root \in DOMAIN t /\ descends(Root)
    BY DEF IsTree, Rooted, Root
  <1>3. \A p \in DOMAIN t : Len(p) \in Nat
    BY DEF IsTree, Rooted, Path
  <1> HIDE DEF descends
  <1>4. S \in SUBSET Nat /\ S # {} /\ \A x \in S : x <= d
    BY <1>1, <1>2, <1>3
  <1>5. PICK x \in S : \A y \in S : y <= x
    BY <1>4, Greatest
  <1>6. \E q \in DOMAIN t : /\ descends(q)
                            /\ \A r \in DOMAIN t : descends(r) => Len(r) <= Len(q)
    BY <1>5
  <1> QED
    BY <1>6 DEF SearchLine, descends

-----------------------------------------------------------------------------
(* Changing fields of nodes keeps the tree, if cursors stay alive.         *)
LEMMA Relabelled ==
  ASSUME NEW B, NEW Y, NEW t, IsTree(t, B, Y),
         NEW u \in [DOMAIN t -> NodesOf(B, Y)],
         \A q \in DOMAIN t : At(t, q, u[q].cursor)
  PROVE  IsTree(u, B, Y) /\ DOMAIN u = DOMAIN t
  <1>1. DOMAIN u = DOMAIN t
    OBVIOUS
  <1>2. Rooted(u)
    BY <1>1 DEF IsTree, Rooted
  <1>3. Numbered(u)
    BY <1>1 DEF IsTree, Numbered, HasKids
  <1>4. Shallow(u)
    BY <1>1 DEF IsTree, Shallow
  <1>5. CursorsLive(u)
    BY <1>1 DEF CursorsLive, At
  <1> QED
    BY <1>1, <1>2, <1>3, <1>4, <1>5 DEF IsTree

(* The cursor of a node is null or a living child.                          *)
LEMMA CursorIsAt ==
  ASSUME NEW B, NEW Y, NEW t, IsTree(t, B, Y), NEW p \in DOMAIN t
  PROVE  At(t, p, t[p].cursor)
  <1>1. t[p].cursor \in Nat
    BY DEF IsTree, NodesOf
  <1> QED
    BY <1>1 DEF At, IsTree, CursorsLive

(* Searching moves cursors only.                                           *)
LEMMA SearchedIsTree ==
  ASSUME NEW B, NEW Y, NEW t, IsTree(t, B, Y), NEW ln \in Nat
  PROVE  /\ IsTree(Searched(t, ln), B, Y) /\ DOMAIN Searched(t, ln) = DOMAIN t
         /\ \A p \in DOMAIN t : Searched(t, ln)[p].block = t[p].block
  <1> DEFINE u == Searched(t, ln)
  <1>1. ASSUME NEW q \in DOMAIN t
        PROVE  u[q] \in NodesOf(B, Y) /\ At(t, q, u[q].cursor) /\ u[q].block = t[q].block
    <2>1. t[q] \in NodesOf(B, Y) /\ At(t, q, t[q].cursor)
      BY CursorIsAt DEF IsTree
    <2>2. CASE u[q] = t[q]
      BY <2>1, <2>2
    <2>3. CASE KidCount(t, q) > 0 /\ u[q] = [t[q] EXCEPT !.cursor = Pick(t, q, ln)]
      <3>1. KidCount(t, q) \in Nat /\ HasKids(t, q, KidCount(t, q))
        BY KidCountType DEF IsTree
      <3>2. Pick(t, q, ln) \in 1..KidCount(t, q)
        BY <2>3, <3>1, PickType
      <3>3. At(t, q, Pick(t, q, ln))
        BY <3>1, <3>2 DEF At, HasKids
      <3> QED
        BY <2>1, <2>3, <3>3 DEF NodesOf, At
    <2> QED
      BY <2>2, <2>3 DEF Searched
  <1>2. u \in [DOMAIN t -> NodesOf(B, Y)]
    BY <1>1 DEF Searched
  <1> QED
    BY <1>1, <1>2, Relabelled

(* Which children go when the children of p above k do.                    *)
LEMMA ChildDropped ==
  ASSUME NEW t, Rooted(t), NEW p \in DOMAIN t, NEW k \in Nat,
         NEW q \in DOMAIN t, q \notin KidsAfter(t, p, k),
         NEW j \in Nat \ {0}, Append(q, j) \in DOMAIN t
  PROVE  Append(q, j) \in KidsAfter(t, p, k) <=> q = p /\ j > k
  <1> DEFINE a == Append(q, j)
  <1>1. p \in Path /\ q \in Path /\ Len(p) \in Nat /\ Len(q) \in Nat
    BY DEF Rooted, Path
  <1>2. /\ a \in Path /\ Len(a) = Len(q) + 1 /\ a[Len(q) + 1] = j
        /\ \A i \in 1..Len(q) : a[i] = q[i]
    BY <1>1, AppendProperties DEF Path
  <1>3. SubSeq(a, 1, Len(q)) = q /\ SubSeq(q, 1, Len(q)) = q
    BY <1>1, BeginningOfAppend, Beginning
  <1>4. ASSUME Len(q) > Len(p) PROVE SubSeq(a, 1, Len(p)) = SubSeq(q, 1, Len(p))
    BY <1>1, <1>4, BeginningOfAppend
  <1>5. a \in DOMAIN t
    OBVIOUS
  <1> HIDE DEF a
  <1>6. ASSUME Len(q) > Len(p) PROVE a \notin KidsAfter(t, p, k) /\ q # p
    <2>1. q[Len(p) + 1] = a[Len(p) + 1]
      BY <1>1, <1>2, <1>6
    <2>2. SubSeq(q, 1, Len(p)) = p => ~ (q[Len(p) + 1] > k)
      BY <1>6 DEF KidsAfter
    <2> QED
      BY <1>4, <1>6, <2>1, <2>2 DEF KidsAfter
  <1>7. ASSUME Len(q) = Len(p) PROVE a \in KidsAfter(t, p, k) <=> q = p /\ j > k
    BY <1>1, <1>2, <1>3, <1>5, <1>7 DEF KidsAfter
  <1>8. ASSUME Len(q) < Len(p) PROVE a \notin KidsAfter(t, p, k) /\ q # p
    BY <1>1, <1>2, <1>8 DEF KidsAfter
  <1>9. a \in KidsAfter(t, p, k) <=> q = p /\ j > k
    BY <1>1, <1>6, <1>7, <1>8
  <1> QED
    BY <1>9 DEF a

(* Deleting the children above k keeps the tree and leaves none there.     *)
LEMMA DropIsTree ==
  ASSUME NEW B, NEW Y, NEW t, IsTree(t, B, Y), NEW p \in DOMAIN t, NEW k \in Nat,
         NEW u, u = DropKidsAfter(t, p, k)
  PROVE  /\ IsTree(u, B, Y) /\ DOMAIN u = DOMAIN t \ KidsAfter(t, p, k)
         /\ p \in DOMAIN u /\ KidsAfter(u, p, k) = {}
         /\ \A q \in DOMAIN u : u[q].block = t[q].block
         /\ At(t, p, k) => At(u, p, k)
  <1> DEFINE gone == KidsAfter(t, p, k)
  <1>1. DOMAIN u = DOMAIN t \ gone
    BY DEF DropKidsAfter
  <1>2. p \in Path /\ Len(p) \in Nat /\ p \in DOMAIN u /\ Root \in DOMAIN u
    BY <1>1 DEF KidsAfter, IsTree, Rooted, Path, Root
  <1>3. KidsAfter(u, p, k) = {}
    BY <1>1 DEF KidsAfter
  <1>4. \A q \in DOMAIN u, j \in Nat \ {0} :
          Append(q, j) \in DOMAIN u <=> Append(q, j) \in DOMAIN t /\ (q = p => j <= k)
    BY <1>1, ChildDropped DEF IsTree
  <1>5. ASSUME NEW q \in DOMAIN u
        PROVE  /\ u[q] \in NodesOf(B, Y) /\ u[q].block = t[q].block
               /\ u[q].cursor # 0 => Append(q, u[q].cursor) \in DOMAIN u
    <2>1. t[q] \in NodesOf(B, Y) /\ At(t, q, t[q].cursor) /\ t[q].cursor \in Nat
      BY <1>1, CursorIsAt DEF IsTree, At
    <2>2. CASE q = p /\ t[q].cursor > k
      <3>1. u[q] = [t[q] EXCEPT !.cursor = k]
        BY <1>1, <2>2 DEF DropKidsAfter
      <3>2. k # 0 => Append(p, k) \in DOMAIN t
        BY <2>1, <2>2 DEF IsTree, Numbered, HasKids, At
      <3> QED
        BY <1>4, <2>1, <2>2, <3>1, <3>2 DEF NodesOf
    <2>3. CASE ~ (q = p /\ t[q].cursor > k)
      <3>1. u[q] = t[q]
        BY <1>1, <2>3 DEF DropKidsAfter
      <3> QED
        BY <1>4, <2>1, <2>3, <3>1 DEF At
    <2> QED
      BY <2>2, <2>3
  <1>6. Rooted(u)
    <2>1. ASSUME NEW q \in DOMAIN u, NEW j \in 0..Len(q) PROVE SubSeq(q, 1, j) \in DOMAIN u
      <3> DEFINE r == SubSeq(q, 1, j)
      <3>1. q \in Path /\ Len(q) \in Nat /\ r \in DOMAIN t /\ q \notin gone
        BY <1>1, <2>1 DEF IsTree, Rooted, Path
      <3>2. Len(r) = j /\ \A i \in 1..j : r[i] = q[i]
        BY <3>1, Beginning
      <3>3. \A i \in 0..j : SubSeq(r, 1, i) = SubSeq(q, 1, i)
        BY <3>1, BeginningOfBeginning
      <3> HIDE DEF r
      <3>4. r \notin gone
        BY <1>1, <1>2, <3>1, <3>2, <3>3 DEF KidsAfter
      <3> QED
        BY <1>1, <3>1, <3>4 DEF r
    <2> QED
      BY <1>1, <1>2, <2>1 DEF Rooted, IsTree
  <1>7. Numbered(u)
    <2> SUFFICES ASSUME NEW q \in DOMAIN u PROVE \E n \in Nat : HasKids(u, q, n)
      BY DEF Numbered
    <2>1. PICK n \in Nat : HasKids(t, q, n)
      BY <1>1 DEF IsTree, Numbered
    <2>2. CASE q # p
      BY <1>4, <2>1, <2>2 DEF HasKids
    <2>3. CASE q = p
      <3> DEFINE m == IF n <= k THEN n ELSE k
      <3>1. \A j \in Nat \ {0} : j <= m <=> j <= n /\ j <= k
        OBVIOUS
      <3>2. m \in Nat /\ HasKids(u, q, m)
        BY <1>4, <2>1, <2>3, <3>1 DEF HasKids
      <3> QED
        BY <3>2
    <2> QED
      BY <2>2, <2>3
  <1>8. Shallow(u)
    BY <1>1 DEF IsTree, Shallow
  <1>9. At(t, p, k) => At(u, p, k)
    BY <1>2, <1>4 DEF At
  <1>10. u \in [DOMAIN u -> NodesOf(B, Y)]
    BY <1>5 DEF DropKidsAfter
  <1> QED
    BY <1>1, <1>2, <1>3, <1>5, <1>6, <1>7, <1>8, <1>9, <1>10 DEF IsTree, CursorsLive

(* What u, with node linked behind the k-th child of p, has to do with t:  *)
(* no child is to the right of the new one, or newly to the right of a     *)
(* place that p is reached by.                                             *)
GraftedAt(u, t, p, new, k, node) ==
  /\ DOMAIN u = DOMAIN t \cup {new} /\ new # Root
  /\ \A q \in DOMAIN u : u[q].block = IF q = new THEN node.block ELSE t[q].block
  /\ KidsAfter(u, new, 0) = {} /\ KidsAfter(u, p, k + 1) = {}
  /\ \A i \in 1..Len(p) :
       KidsAfter(t, SubSeq(p, 1, i - 1), p[i]) = {}
         => KidsAfter(u, SubSeq(p, 1, i - 1), p[i]) = {}

Grafted(u, t, p, k, node) == GraftedAt(u, t, p, Append(p, k + 1), k, node)

(* Linking a node behind the last child of p keeps the tree; the new node  *)
(* is the last child of p, has no children, and is to the right of no      *)
(* place p is reached by.                                                  *)
LEMMA LinkIsTree ==
  ASSUME NEW B, NEW Y, NEW t, IsTree(t, B, Y), NEW p \in DOMAIN t, NEW k, At(t, p, k),
         KidsAfter(t, p, k) = {},
         NEW node \in NodesOf(B, Y), node.cursor = 0,
         NEW u, u = Link(t, p, k, node)
  PROVE  IsTree(u, B, Y) /\ Grafted(u, t, p, k, node)
  <1> DEFINE new == Append(p, k + 1)
  <1>1. k \in Nat /\ k + 1 \in Nat \ {0} /\ p \in Path /\ Len(p) \in Nat
    BY DEF At, IsTree, Rooted, Path
  <1>2. /\ new \in Path /\ new # Root /\ Len(new) = Len(p) + 1 /\ new[Len(p) + 1] = k + 1
        /\ \A i \in 1..Len(p) : new[i] = p[i]
    BY <1>1, AppendProperties DEF Path, Root
  <1>3. \A i \in 0..Len(p) : SubSeq(new, 1, i) = SubSeq(p, 1, i)
    BY <1>1, BeginningOfAppend
  <1>4. SubSeq(new, 1, Len(p)) = p /\ SubSeq(new, 1, Len(new)) = new
    BY <1>1, <1>2, <1>3, Beginning
  <1>5. \A q \in Path, j \in Nat \ {0} : Append(q, j) = new <=> q = p /\ j = k + 1
    BY <1>1, AppendInjective DEF Path
  <1>6. DOMAIN t \subseteq Path
    BY DEF IsTree, Rooted
  <1>7. new \notin DOMAIN t
    <2>1. ASSUME new \in DOMAIN t PROVE new \in KidsAfter(t, p, k)
      <3> HIDE DEF new
      <3> QED
        BY <1>1, <1>2, <1>4, <2>1 DEF KidsAfter
    <2> QED
      BY <2>1
  <1>8. \A q \in DOMAIN t : \A i \in 0..Len(q) : SubSeq(q, 1, i) # new
    BY <1>7 DEF IsTree, Rooted
  <1>9. \A j \in Nat \ {0} : Append(new, j) \notin DOMAIN t
    <2> TAKE j \in Nat \ {0}
    <2>1. Append(new, j) \in Path /\ Len(Append(new, j)) = Len(new) + 1
      BY <1>2, FrontOfAppend
    <2>2. SubSeq(Append(new, j), 1, Len(new)) = new /\ Len(new) \in 0..Len(Append(new, j))
      BY <1>1, <1>2, <1>4, <2>1, BeginningOfAppend
    <2> QED
      BY <1>8, <2>2
  <1>10. k # 0 => Append(p, k) \in DOMAIN t
    BY DEF At
  <1> HIDE DEF new
  <1>11. DOMAIN u = DOMAIN t \cup {new} /\ u[new] = node
    BY DEF Link, new
  <1>12. \A q \in DOMAIN t : u[q] = t[q]
    BY <1>7 DEF Link, new
  <1>13. Rooted(u)
    <2>1. ASSUME NEW i \in 0..Len(new) PROVE SubSeq(new, 1, i) \in DOMAIN u
      <3>1. CASE i \in 0..Len(p)
        BY <1>3, <1>11, <3>1 DEF IsTree, Rooted
      <3>2. CASE i = Len(new)
        BY <1>4, <1>11, <3>2
      <3> QED
        BY <1>1, <1>2, <3>1, <3>2
    <2> QED
      BY <1>2, <1>11, <2>1 DEF IsTree, Rooted
  <1>14. Numbered(u)
    <2> SUFFICES ASSUME NEW q \in DOMAIN u PROVE \E n \in Nat : HasKids(u, q, n)
      BY DEF Numbered
    <2>1. CASE q = new
      <3>1. \A j \in Nat \ {0} : Append(new, j) \notin DOMAIN u
        BY <1>1, <1>2, <1>5, <1>9, <1>11
      <3>2. HasKids(u, q, 0)
        BY <2>1, <3>1 DEF HasKids
      <3> QED
        BY <3>2
    <2>2. CASE q = p
      <3>1. PICK n \in Nat : HasKids(t, p, n)
        BY DEF IsTree, Numbered
      <3>2. n = k
        BY <1>1, <1>7, <1>10, <3>1 DEF HasKids, new
      <3>3. \A j \in Nat \ {0} : Append(p, j) \in DOMAIN u <=> j <= k \/ j = k + 1
        BY <1>1, <1>5, <1>11, <3>1, <3>2 DEF HasKids
      <3>4. HasKids(u, q, k + 1)
        BY <1>1, <2>2, <3>3 DEF HasKids
      <3> QED
        BY <1>1, <3>4
    <2>3. CASE q # new /\ q # p
      <3>1. q \in DOMAIN t /\ q \in Path
        BY <1>6, <1>11, <2>3
      <3>2. PICK n \in Nat : HasKids(t, q, n)
        BY <3>1 DEF IsTree, Numbered
      <3>3. HasKids(u, q, n)
        BY <1>5, <1>11, <2>3, <3>1, <3>2 DEF HasKids
      <3> QED
        BY <3>3
    <2> QED
      BY <2>1, <2>2, <2>3
  <1>15. Shallow(u)
    <2>1. PICK d \in Nat : \A q \in DOMAIN t : Len(q) <= d
      BY DEF IsTree, Shallow
    <2>2. Len(p) <= d
      BY <2>1
    <2>3. \A q \in DOMAIN u : Len(q) <= d + 1
      BY <1>1, <1>2, <1>6, <1>11, <2>1, <2>2 DEF Path
    <2> QED
      BY <2>3 DEF Shallow
  <1>16. CursorsLive(u)
    BY <1>11, <1>12 DEF IsTree, CursorsLive
  <1>17. u \in [DOMAIN u -> NodesOf(B, Y)]
    <2>1. \A q \in DOMAIN u : u[q] \in NodesOf(B, Y)
      BY <1>11, <1>12 DEF IsTree
    <2> QED
      BY <2>1 DEF Link
  <1>18. KidsAfter(u, new, 0) = {}
    BY <1>2, <1>4, <1>8, <1>11 DEF KidsAfter
  <1>19. KidsAfter(u, p, k + 1) = {}
    <2>1. \A q \in DOMAIN t : Len(q) > Len(p) /\ SubSeq(q, 1, Len(p)) = p
                                => q[Len(p) + 1] \in Nat \ {0} /\ ~ (q[Len(p) + 1] > k)
      BY <1>1, <1>6 DEF KidsAfter, Path
    <2> QED
      BY <1>1, <1>2, <1>11, <2>1 DEF KidsAfter
  <1>20. ASSUME NEW i \in 1..Len(p), KidsAfter(t, SubSeq(p, 1, i - 1), p[i]) = {}
         PROVE  KidsAfter(u, SubSeq(p, 1, i - 1), p[i]) = {}
    <2>1. Len(SubSeq(p, 1, i - 1)) = i - 1 /\ p[i] \in Nat
      BY <1>1, Beginning DEF Path
    <2>2. new[(i - 1) + 1] = p[i]
      BY <1>1, <1>2
    <2> QED
      BY <1>11, <1>20, <2>1, <2>2 DEF KidsAfter
  <1> QED
    BY <1>2, <1>11, <1>12, <1>13, <1>14, <1>15, <1>16, <1>17, <1>18, <1>19, <1>20
       DEF IsTree, Grafted, GraftedAt, new

-----------------------------------------------------------------------------
(* Node q of tree t is in tree u, and only its cursor may have moved.      *)
Keeps(t, u, q) ==
  /\ q \in DOMAIN t /\ q \in DOMAIN u
  /\ u[q].sline = t[q].sline /\ u[q].eline = t[q].eline /\ u[q].block = t[q].block
  /\ u[q].sym = t[q].sym /\ u[q].pos = t[q].pos

(* Siblings are hung in the order of the lines they start on ...            *)
InOrder(t) ==
  \A p \in DOMAIN t : \A j, k \in Nat \ {0} :
    j < k /\ Append(p, k) \in DOMAIN t
      => t[Append(p, j)].sline < t[Append(p, k)].sline

(* ... and those that start up to line ln, after their older ones ended.    *)
ApartUpTo(t, ln) ==
  \A p \in DOMAIN t : \A j, k \in Nat \ {0} :
    j < k /\ Append(p, k) \in DOMAIN t /\ t[Append(p, k)].sline <= ln
      => t[Append(p, j)].eline < t[Append(p, k)].sline

(* The innermost node around line ln.                                      *)
Found(t, q, ln) ==
  /\ q \in DOMAIN t
  /\ \A k \in 1..Len(q) : Covers(t, SubSeq(q, 1, k), ln)
  /\ \A j \in Nat \ {0} : Append(q, j) \in DOMAIN t => ~ Covers(t, Append(q, j), ln)

(* The condition of searchLine's descent.                                  *)
Descends(t, q, ln) ==
  \A k \in 1..Len(q) : /\ q[k] = Pick(t, SubSeq(q, 1, k - 1), ln)
                       /\ Covers(t, SubSeq(q, 1, k), ln)

-----------------------------------------------------------------------------
(* Where siblings are in order, searchLine settles on the last child that  *)
(* starts at or before ln, whatever the cursor was; or on the first, when  *)
(* none does.                                                              *)
LEMMA PickIs ==
  ASSUME NEW B, NEW Y, NEW t, IsTree(t, B, Y), InOrder(t), NEW p \in DOMAIN t,
         NEW ln \in Nat, KidCount(t, p) # 0
  PROVE  LET k == Pick(t, p, ln)
         IN  /\ Append(p, k) \in DOMAIN t /\ k \in Nat \ {0}
             /\ \A m \in Nat \ {0} : m > k /\ Append(p, m) \in DOMAIN t => Sline(t, p, m) > ln
             /\ Sline(t, p, k) > ln => k = 1
  <1> DEFINE n == KidCount(t, p)
             at == IF t[p].cursor # 0 THEN t[p].cursor ELSE 1
             s(m) == Sline(t, p, m)
             k == Pick(t, p, ln)
  <1>1. n \in Nat \ {0} /\ HasKids(t, p, n)
    BY KidCountType DEF IsTree
  <1>2. at \in 1..n
    <2>1. t[p].cursor \in Nat
      BY DEF IsTree, NodesOf
    <2>2. t[p].cursor # 0 => t[p].cursor <= n
      BY <1>1, <2>1 DEF IsTree, CursorsLive, HasKids
    <2> QED
      BY <1>1, <2>1, <2>2
  <1>3. k \in 1..n
    BY <1>1, PickType
  <1>4. \A m \in 1..n : s(m) \in Nat
    <2> TAKE m \in 1..n
    <2>1. t[Append(p, m)] \in NodesOf(B, Y)
      BY <1>1 DEF HasKids, IsTree
    <2> QED
      BY <2>1 DEF Sline, NodesOf
  <1>5. \A i, m \in 1..n : i < m => s(i) < s(m)
    BY <1>1 DEF InOrder, HasKids, Sline
  <1>6. \A m \in Nat \ {0} : Append(p, m) \in DOMAIN t <=> m \in 1..n
    BY <1>1 DEF HasKids
  <1>7. ASSUME NEW i \in 1..n, NEW j, j = RightmostAtOrBefore(t, p, i, ln)
        PROVE  /\ j \in i..n /\ \A m \in i + 1 .. j : s(m) <= ln
               /\ j = n \/ s(j + 1) > ln
    BY <1>7, RightmostType
  <1>8. k = IF s(at) <= ln THEN RightmostAtOrBefore(t, p, at, ln)
            ELSE IF at > 1 /\ s(at - 1) <= ln THEN at - 1
            ELSE RightmostAtOrBefore(t, p, 1, ln)
    BY DEF Pick
  <1> HIDE DEF n, at, k, s
  <1>9. (\A m \in 1..n : m > k => s(m) > ln) /\ (s(k) > ln => k = 1)
    <2>1. CASE s(at) <= ln
      <3>1. k \in at..n /\ (\A m \in at + 1 .. k : s(m) <= ln) /\ (k = n \/ s(k + 1) > ln)
        BY <1>2, <1>7, <1>8, <2>1
      <3>2. s(k) <= ln
        BY <1>1, <1>2, <2>1, <3>1
      <3>3. ASSUME NEW m \in 1..n, m > k PROVE s(m) > ln
        <4>1. k + 1 \in 1..n /\ s(k + 1) > ln
          BY <1>1, <1>3, <3>1, <3>3
        <4>2. m = k + 1 \/ s(k + 1) < s(m)
          BY <1>3, <1>5, <3>3, <4>1
        <4> QED
          BY <1>4, <4>1, <4>2
      <3> QED
        BY <1>3, <1>4, <3>2, <3>3
    <2>2. CASE ~ (s(at) <= ln) /\ at > 1 /\ s(at - 1) <= ln
      <3>1. k = at - 1
        BY <1>8, <2>2
      <3>2. ASSUME NEW m \in 1..n, m > k PROVE s(m) > ln
        <4>1. m = at \/ s(at) < s(m)
          BY <1>2, <1>5, <3>1, <3>2
        <4> QED
          BY <1>2, <1>4, <2>2, <4>1
      <3> QED
        BY <1>2, <1>3, <1>4, <2>2, <3>1, <3>2
    <2>3. CASE ~ (s(at) <= ln) /\ ~ (at > 1 /\ s(at - 1) <= ln)
      <3>1. 1 \in 1..n
        BY <1>1
      <3>2. k \in 1..n /\ (\A m \in 2 .. k : s(m) <= ln) /\ (k = n \/ s(k + 1) > ln)
        BY <1>7, <1>8, <2>3, <3>1
      <3>3. ASSUME NEW m \in 1..n, m > k PROVE s(m) > ln
        <4>1. k + 1 \in 1..n /\ s(k + 1) > ln
          BY <1>1, <1>3, <3>2, <3>3
        <4>2. m = k + 1 \/ s(k + 1) < s(m)
          BY <1>3, <1>5, <3>3, <4>1
        <4> QED
          BY <1>4, <4>1, <4>2
      <3>4. s(k) > ln => k = 1
        <4>1. k # 1 => k \in 2..k
          BY <1>3
        <4> QED
          BY <1>3, <1>4, <3>2, <4>1
      <3> QED
        BY <3>3, <3>4
    <2> QED
      BY <2>1, <2>2, <2>3
  <1>10. k \in Nat \ {0} /\ Append(p, k) \in DOMAIN t
    BY <1>1, <1>3, <1>6
  <1> QED
    BY <1>6, <1>9, <1>10 DEF s, k

(* So a child around ln is the one it settles on.                          *)
LEMMA CoveringIsPicked ==
  ASSUME NEW B, NEW Y, NEW t, IsTree(t, B, Y), InOrder(t), NEW ln \in Nat, ApartUpTo(t, ln),
         NEW p \in DOMAIN t, NEW j \in Nat \ {0}, Append(p, j) \in DOMAIN t,
         Covers(t, Append(p, j), ln)
  PROVE  /\ j = Pick(t, p, ln)
         /\ \A m \in Nat \ {0} : m > j /\ Append(p, m) \in DOMAIN t => Sline(t, p, m) > ln
  <1> DEFINE k == Pick(t, p, ln)
  <1>1. KidCount(t, p) # 0
    <2>1. KidCount(t, p) \in Nat /\ HasKids(t, p, KidCount(t, p))
      BY KidCountType DEF IsTree
    <2> QED
      BY <2>1 DEF HasKids
  <1>2. /\ Append(p, k) \in DOMAIN t /\ k \in Nat \ {0}
        /\ \A m \in Nat \ {0} : m > k /\ Append(p, m) \in DOMAIN t => Sline(t, p, m) > ln
        /\ Sline(t, p, k) > ln => k = 1
    BY <1>1, PickIs
  <1> HIDE DEF k
  <1>3. /\ t[Append(p, j)].sline \in Nat /\ t[Append(p, j)].eline \in Nat
        /\ t[Append(p, k)].sline \in Nat
    BY <1>2 DEF IsTree, NodesOf
  <1>4. t[Append(p, j)].sline <= ln /\ ln <= t[Append(p, j)].eline
    BY DEF Covers
  <1>5. ~ (j > k)
    BY <1>2, <1>3, <1>4 DEF Sline
  <1>6. ~ (j < k)
    <2> SUFFICES ASSUME j < k PROVE FALSE
      OBVIOUS
    <2>1. k # 1
      OBVIOUS
    <2>2. t[Append(p, k)].sline <= ln
      BY <1>2, <1>3, <2>1 DEF Sline
    <2>3. t[Append(p, j)].eline < t[Append(p, k)].sline
      BY <1>2, <2>2 DEF ApartUpTo
    <2> QED
      BY <1>3, <1>4, <2>2, <2>3
  <1>7. j = k
    BY <1>2, <1>5, <1>6
  <1> QED
    BY <1>2, <1>7 DEF k

(* A path is reached child by child.                                       *)
LEMMA PathStep ==
  ASSUME NEW t, Rooted(t), NEW x \in DOMAIN t, NEW k \in 1..Len(x)
  PROVE  /\ SubSeq(x, 1, k) = Append(SubSeq(x, 1, k - 1), x[k])
         /\ x[k] \in Nat \ {0} /\ SubSeq(x, 1, k) \in DOMAIN t
         /\ SubSeq(x, 1, k - 1) \in DOMAIN t /\ Len(x) \in Nat
  <1>1. /\ x \in Path /\ Len(x) \in Nat /\ x[k] \in Nat \ {0}
        /\ k - 1 \in 0..Len(x) /\ k \in 0..Len(x)
    BY DEF Path, Rooted
  <1> DEFINE a == SubSeq(x, 1, k)
             b == SubSeq(x, 1, k - 1)
  <1>2. /\ a \in Path /\ Len(a) = k /\ \A i \in 1..k : a[i] = x[i]
        /\ b \in Path /\ Len(b) = k - 1 /\ \A i \in 1..k - 1 : b[i] = x[i]
        /\ a \in DOMAIN t /\ b \in DOMAIN t
    BY <1>1, Beginning DEF Rooted
  <1> HIDE DEF a, b
  <1>3. /\ Append(b, x[k]) \in Seq(Nat \ {0}) /\ Len(Append(b, x[k])) = k
        /\ \A i \in 1..k : Append(b, x[k])[i] = x[i]
    <2> DEFINE y == Append(b, x[k])
    <2>1. /\ b \in Seq(Nat \ {0}) /\ x[k] \in Nat \ {0} /\ k \in Nat
          /\ Len(b) = k - 1 /\ \A i \in 1..k - 1 : b[i] = x[i]
      BY <1>1, <1>2 DEF Path
    <2>2. /\ y \in Seq(Nat \ {0}) /\ Len(y) = Len(b) + 1
          /\ \A i \in 1..Len(b) : y[i] = b[i]
          /\ y[Len(b) + 1] = x[k]
      BY <2>1, AppendProperties
    <2> HIDE DEF y
    <2> QED
      BY <2>1, <2>2 DEF y
  <1>4. a = Append(b, x[k])
    <2>1. /\ a \in Seq(Nat \ {0}) /\ Append(b, x[k]) \in Seq(Nat \ {0})
          /\ Len(a) = Len(Append(b, x[k]))
      BY <1>2, <1>3 DEF Path
    <2>2. \A i \in 1..Len(a) : a[i] = Append(b, x[k])[i]
      BY <1>2, <1>3
    <2> QED
      BY <2>1, <2>2, SeqEqual
  <1> QED
    BY <1>1, <1>2, <1>4 DEF a, b

(* searchLine takes a longest descent.                                     *)
LEMMA SearchLineIs ==
  ASSUME NEW B, NEW Y, NEW t, IsTree(t, B, Y), NEW ln \in Nat
  PROVE  LET q == SearchLine(t, ln)
         IN  /\ q \in DOMAIN t /\ Descends(t, q, ln)
             /\ \A r \in DOMAIN t : Descends(t, r, ln) => Len(r) <= Len(q)
  <1> DEFINE S == {Len(q) : q \in {r \in DOMAIN t : Descends(t, r, ln)}}
  <1>1. PICK d \in Nat : \A p \in DOMAIN t : Len(p) <= d
    BY DEF IsTree, Shallow
  <1>2. Root \in DOMAIN t /\ Descends(t, Root, ln)
    BY DEF IsTree, Rooted, Root, Descends
  <1>3. \A p \in DOMAIN t : Len(p) \in Nat
    BY DEF IsTree, Rooted, Path
  <1>4. S \in SUBSET Nat /\ S # {} /\ \A x \in S : x <= d
    BY <1>1, <1>2, <1>3
  <1>5. PICK x \in S : \A y \in S : y <= x
    BY <1>4, Greatest
  <1>6. \E q \in DOMAIN t : /\ Descends(t, q, ln)
                            /\ \A r \in DOMAIN t : Descends(t, r, ln) => Len(r) <= Len(q)
    BY <1>5
  <1>7. SearchLine(t, ln) = CHOOSE q \in DOMAIN t :
          /\ Descends(t, q, ln)
          /\ \A r \in DOMAIN t : Descends(t, r, ln) => Len(r) <= Len(q)
    BY DEF SearchLine, Descends
  <1> QED
    BY <1>6, <1>7

(* It returns the innermost node around ln ...                             *)
LEMMA SearchFinds ==
  ASSUME NEW B, NEW Y, NEW t, IsTree(t, B, Y), InOrder(t), NEW ln \in Nat, ApartUpTo(t, ln)
  PROVE  Found(t, SearchLine(t, ln), ln)
  <1> DEFINE q == SearchLine(t, ln)
  <1>1. /\ q \in DOMAIN t /\ Descends(t, q, ln)
        /\ \A r \in DOMAIN t : Descends(t, r, ln) => Len(r) <= Len(q)
    BY SearchLineIs
  <1> HIDE DEF q
  <1>2. q \in Path /\ Len(q) \in Nat
    BY <1>1 DEF IsTree, Rooted, Path
  <1>3. ASSUME NEW j \in Nat \ {0}, Append(q, j) \in DOMAIN t, Covers(t, Append(q, j), ln)
        PROVE  FALSE
    <2> DEFINE r == Append(q, j)
    <2>1. /\ Len(r) = Len(q) + 1 /\ r[Len(q) + 1] = j
          /\ \A i \in 1..Len(q) : r[i] = q[i]
      BY <1>2, AppendProperties DEF Path
    <2>2. \A i \in 0..Len(q) : SubSeq(r, 1, i) = SubSeq(q, 1, i)
      BY <1>2, BeginningOfAppend
    <2>3. SubSeq(r, 1, Len(r)) = r /\ SubSeq(q, 1, Len(q)) = q
      BY <1>2, <1>3, FrontOfAppend, Beginning
    <2>4. j = Pick(t, q, ln)
      BY <1>1, <1>3, CoveringIsPicked
    <2>5. Covers(t, r, ln) /\ r \in DOMAIN t
      BY <1>3
    <2> HIDE DEF r
    <2>6. ASSUME NEW k \in 1..Len(r)
          PROVE  r[k] = Pick(t, SubSeq(r, 1, k - 1), ln) /\ Covers(t, SubSeq(r, 1, k), ln)
      <3>1. CASE k \in 1..Len(q)
        <4>1. k - 1 \in 0..Len(q) /\ k \in 0..Len(q)
          BY <1>2, <3>1
        <4>2. /\ SubSeq(r, 1, k - 1) = SubSeq(q, 1, k - 1)
              /\ SubSeq(r, 1, k) = SubSeq(q, 1, k) /\ r[k] = q[k]
          BY <2>1, <2>2, <3>1, <4>1
        <4> QED
          BY <1>1, <3>1, <4>2 DEF Descends
      <3>2. CASE k = Len(q) + 1
        <4>1. k - 1 = Len(q) /\ Len(q) \in 0..Len(q)
          BY <1>2, <3>2
        <4> QED
          BY <2>1, <2>2, <2>3, <2>4, <2>5, <3>2, <4>1
      <3> QED
        BY <1>2, <2>1, <3>1, <3>2
    <2>7. Descends(t, r, ln)
      BY <2>6 DEF Descends
    <2>8. Len(r) <= Len(q)
      BY <1>1, <2>5, <2>7
    <2> QED
      BY <1>2, <2>1, <2>8
  <1> QED
    BY <1>1, <1>3 DEF Found, Descends, q

(* ... and there is no other.                                              *)
LEMMA FoundIsUnique ==
  ASSUME NEW B, NEW Y, NEW t, IsTree(t, B, Y), InOrder(t), NEW ln \in Nat, ApartUpTo(t, ln),
         NEW q, Found(t, q, ln)
  PROVE  q = SearchLine(t, ln)
  <1> DEFINE r == SearchLine(t, ln)
  <1>1. r \in DOMAIN t /\ Descends(t, r, ln) /\ Found(t, r, ln)
        /\ \A x \in DOMAIN t : Descends(t, x, ln) => Len(x) <= Len(r)
    BY SearchLineIs, SearchFinds
  <1> HIDE DEF r
  <1>2. q \in DOMAIN t /\ q \in Path /\ r \in Path /\ Len(q) \in Nat /\ Len(r) \in Nat
    BY <1>1 DEF Found, IsTree, Rooted, Path
  <1>3. ASSUME NEW x \in DOMAIN t, NEW k \in 1..Len(x)
        PROVE  /\ SubSeq(x, 1, k) = Append(SubSeq(x, 1, k - 1), x[k])
               /\ x[k] \in Nat \ {0} /\ SubSeq(x, 1, k) \in DOMAIN t
               /\ SubSeq(x, 1, k - 1) \in DOMAIN t
    BY PathStep DEF IsTree
  <1>4. Descends(t, q, ln)
    <2> SUFFICES ASSUME NEW k \in 1..Len(q)
                 PROVE  q[k] = Pick(t, SubSeq(q, 1, k - 1), ln) /\ Covers(t, SubSeq(q, 1, k), ln)
      BY DEF Descends
    <2>1. Covers(t, SubSeq(q, 1, k), ln)
      BY DEF Found
    <2> DEFINE b == SubSeq(q, 1, k - 1)
    <2>2. /\ SubSeq(q, 1, k) = Append(b, q[k]) /\ q[k] \in Nat \ {0}
          /\ SubSeq(q, 1, k) \in DOMAIN t /\ b \in DOMAIN t
      BY <1>2, <1>3
    <2> HIDE DEF b
    <2>3. q[k] = Pick(t, b, ln)
      BY <2>1, <2>2, CoveringIsPicked
    <2> QED
      BY <2>1, <2>3 DEF b
  <1>5. Len(q) <= Len(r)
    BY <1>1, <1>2, <1>4
  <1>6. \A k \in 1..Len(q) : q[k] = r[k]
    <2> DEFINE S == {k \in 1..Len(q) : q[k] # r[k]}
    <2> SUFFICES ASSUME S # {} PROVE FALSE
      OBVIOUS
    <2>1. S \in SUBSET Nat
      BY <1>2
    <2>2. PICK k \in S : \A y \in S : k <= y
      BY <2>1, Least
    <2>3. k \in 1..Len(q) /\ k \in 1..Len(r) /\ q[k] # r[k]
      BY <1>2, <1>5
    <2>4. \A i \in 1..k - 1 : q[i] = r[i]
      BY <1>2, <2>2, <2>3
    <2>5. k - 1 \in 0..Len(q) /\ k - 1 \in 0..Len(r)
      BY <1>2, <2>3
    <2>6. SubSeq(q, 1, k - 1) = SubSeq(r, 1, k - 1)
      <3> DEFINE a == SubSeq(q, 1, k - 1)
                 b == SubSeq(r, 1, k - 1)
      <3>1. /\ a \in Path /\ Len(a) = k - 1 /\ \A i \in 1..k - 1 : a[i] = q[i]
            /\ b \in Path /\ Len(b) = k - 1 /\ \A i \in 1..k - 1 : b[i] = r[i]
        BY <1>2, <2>5, Beginning
      <3> HIDE DEF a, b
      <3>2. a = b
        BY <2>4, <3>1, SeqEqual DEF Path
      <3> QED
        BY <3>2 DEF a, b
    <2> QED
      BY <1>1, <1>4, <2>3, <2>6 DEF Descends
  <1>7. Len(q) = Len(r)
    <2> SUFFICES ASSUME Len(q) < Len(r) PROVE FALSE
      BY <1>2, <1>5
    <2>1. PICK k \in 1..Len(r) : k = Len(q) + 1 /\ k - 1 = Len(q) /\ k - 1 \in 0..Len(r)
      BY <1>2
    <2>2. SubSeq(r, 1, k - 1) = q
      <3> DEFINE b == SubSeq(r, 1, k - 1)
      <3>1. b \in Path /\ Len(b) = k - 1 /\ \A i \in 1..k - 1 : b[i] = r[i]
        BY <1>2, <2>1, Beginning
      <3> HIDE DEF b
      <3>2. b = q
        BY <1>2, <1>6, <2>1, <3>1, SeqEqual DEF Path
      <3> QED
        BY <3>2 DEF b
    <2>3. /\ SubSeq(r, 1, k) = Append(q, r[k]) /\ r[k] \in Nat \ {0}
          /\ SubSeq(r, 1, k) \in DOMAIN t /\ Covers(t, SubSeq(r, 1, k), ln)
      BY <1>1, <1>2, <1>3, <2>1, <2>2 DEF Descends
    <2> QED
      BY <2>3 DEF Found
  <1>8. q = r
    BY <1>2, <1>6, <1>7, SeqEqual DEF Path
  <1> QED
    BY <1>8 DEF r

(* Behind the path to the node found, siblings start after the line.       *)
LEMMA LaterSiblings ==
  ASSUME NEW B, NEW Y, NEW t, IsTree(t, B, Y), InOrder(t), NEW ln \in Nat, ApartUpTo(t, ln),
         NEW q, Found(t, q, ln), NEW j \in 1..Len(q), NEW c \in Nat \ {0}, c > q[j],
         Append(SubSeq(q, 1, j - 1), c) \in DOMAIN t
  PROVE  t[Append(SubSeq(q, 1, j - 1), c)].sline > ln
  <1> DEFINE b == SubSeq(q, 1, j - 1)
  <1>1. /\ SubSeq(q, 1, j) = Append(b, q[j]) /\ q[j] \in Nat \ {0}
        /\ SubSeq(q, 1, j) \in DOMAIN t /\ b \in DOMAIN t
    BY PathStep DEF Found, IsTree
  <1>2. Append(b, c) \in DOMAIN t
    OBVIOUS
  <1> HIDE DEF b
  <1>3. Covers(t, Append(b, q[j]), ln)
    BY <1>1 DEF Found
  <1>4. \A m \in Nat \ {0} : m > q[j] /\ Append(b, m) \in DOMAIN t => Sline(t, b, m) > ln
    BY <1>1, <1>3, CoveringIsPicked
  <1>5. t[Append(b, c)].sline > ln
    BY <1>2, <1>4 DEF Sline
  <1> QED
    BY <1>5 DEF b

(* searchLine's second result is the last child that starts at or before   *)
(* the line, or 0.                                                         *)
LEMMA ForwardIs ==
  ASSUME NEW B, NEW Y, NEW t, IsTree(t, B, Y), InOrder(t), NEW p \in DOMAIN t, NEW ln \in Nat
  PROVE  LET f == ForwardOf(t, p, ln)
         IN  /\ f \in Nat
             /\ f # 0 => Append(p, f) \in DOMAIN t /\ t[Append(p, f)].sline <= ln
             /\ \A c \in Nat \ {0} : c > f /\ Append(p, c) \in DOMAIN t
                                       => t[Append(p, c)].sline > ln
  <1>1. KidCount(t, p) \in Nat /\ HasKids(t, p, KidCount(t, p))
    BY KidCountType DEF IsTree
  <1>2. \A c \in Nat \ {0} : Append(p, c) \in DOMAIN t => t[Append(p, c)].sline \in Nat
    BY DEF IsTree, NodesOf
  <1>3. CASE KidCount(t, p) = 0
    BY <1>1, <1>3 DEF ForwardOf, HasKids
  <1>4. CASE KidCount(t, p) # 0
    <2> DEFINE k == Pick(t, p, ln)
    <2>1. /\ Append(p, k) \in DOMAIN t /\ k \in Nat \ {0}
          /\ \A m \in Nat \ {0} : m > k /\ Append(p, m) \in DOMAIN t => Sline(t, p, m) > ln
          /\ Sline(t, p, k) > ln => k = 1
      BY <1>4, PickIs
    <2>2. ForwardOf(t, p, ln) = IF Sline(t, p, k) > ln THEN 0 ELSE k
      BY <1>4 DEF ForwardOf
    <2> HIDE DEF k
    <2>3. CASE Sline(t, p, k) > ln
      <3>1. ForwardOf(t, p, ln) = 0 /\ k = 1
        BY <2>1, <2>2, <2>3
      <3>2. \A c \in Nat \ {0} : c = 1 \/ c > 1
        OBVIOUS
      <3> QED
        BY <2>1, <2>3, <3>1, <3>2 DEF Sline
    <2>4. CASE ~ (Sline(t, p, k) > ln)
      BY <1>2, <2>1, <2>2, <2>4 DEF Sline
    <2> QED
      BY <2>3, <2>4
  <1> QED
    BY <1>3, <1>4

(* Searching keeps all nodes, ...                                          *)
LEMMA SearchedKeeps ==
  ASSUME NEW B, NEW Y, NEW t, IsTree(t, B, Y), NEW ln \in Nat
  PROVE  \A q \in DOMAIN t : Keeps(t, Searched(t, ln), q)
  <1>1. \A q \in DOMAIN t : t[q] \in NodesOf(B, Y)
    BY DEF IsTree
  <1> QED
    BY <1>1 DEF Searched, NodesOf, Keeps

(* ... and what nodes are around a line does not depend on cursors.        *)
LEMMA KeptOrder ==
  ASSUME NEW t, NEW u, DOMAIN u = DOMAIN t, Rooted(t), \A q \in DOMAIN t : Keeps(t, u, q),
         Numbered(t)
  PROVE  /\ InOrder(t) => InOrder(u)
         /\ \A ln : ApartUpTo(t, ln) => ApartUpTo(u, ln)
         /\ \A q, ln : Found(t, q, ln) => Found(u, q, ln)
  <1>1. ASSUME NEW p \in DOMAIN t, NEW j \in Nat \ {0}, NEW k \in Nat \ {0}, j < k,
               Append(p, k) \in DOMAIN t
        PROVE  Append(p, j) \in DOMAIN t
    <2>1. PICK n \in Nat : HasKids(t, p, n)
      BY DEF Numbered
    <2> QED
      BY <1>1, <2>1 DEF HasKids
  <1>2. InOrder(t) => InOrder(u)
    BY <1>1 DEF InOrder, Keeps
  <1>3. \A ln : ApartUpTo(t, ln) => ApartUpTo(u, ln)
    BY <1>1 DEF ApartUpTo, Keeps
  <1>4. ASSUME NEW q, NEW ln, Found(t, q, ln) PROVE Found(u, q, ln)
    <2>1. q \in DOMAIN t /\ \A k \in 1..Len(q) : SubSeq(q, 1, k) \in DOMAIN t
      BY <1>4 DEF Found, Rooted, Path
    <2> QED
      BY <1>4, <2>1 DEF Found, Covers, Keeps
  <1> QED
    BY <1>2, <1>3, <1>4

-----------------------------------------------------------------------------
(* The parser. *)

Syms == Symbols \cup {NoSym}

(* The cache is a tree of block nodes under the one node of the base       *)
(* scheme.                                                                 *)
IsCache(t) ==
  /\ IsTree(t, Schemes, Syms)
  /\ \A p \in DOMAIN t : t[p].block = Base <=> p = Root

Place == parent \in DOMAIN cache /\ forward \in Nat

Positions ==
  /\ phase \in {"idle", "level"} => frames = <<>>
  /\ phase = "idle" => parent = Root /\ baseScheme = Base
  /\ phase = "scan" => cur < endl
  /\ clear # NoLine => endLine = clear
  /\ \A i \in 1..Len(frames) : frames[i].line < endl

(* How many levels of parse() are left, and the scheme that the blocks     *)
(* entered by searchBL will restore: no level, the base scheme.            *)
Depth == IF mode = "update" THEN Len(parent) - Len(frames) ELSE Len(parent)
Outer == IF frames = <<>> THEN baseScheme ELSE frames[1].scheme
OuterRestored ==
  phase \in {"line", "scan", "return"} => (Outer = Base <=> Depth = 0)

(* In update mode new nodes go behind the last child of parent.            *)
Grafting ==
  mode = "update" /\ phase # "idle" =>
    /\ At(cache, parent, forward)
    /\ phase # "level" => KidsAfter(cache, parent, forward) = {}

(* Each pending block has its node on the path to parent, the last child   *)
(* of its own parent and behind the forward that searchBL has saved.       *)
Awaits(t, p, k, f) ==
  /\ p[k] = f.forward + 1
  /\ KidsAfter(t, SubSeq(p, 1, k - 1), p[k]) = {}

Pending ==
  mode = "update" =>
    /\ Len(frames) <= Len(parent)
    /\ \A i \in 1..Len(frames) :
         Awaits(cache, parent, Len(parent) - Len(frames) + i, frames[i])

Inv ==
  /\ ClientTypes /\ RunTypes /\ IsCache(cache) /\ Place /\ Positions
  /\ OuterRestored /\ Grafting /\ Pending

-----------------------------------------------------------------------------
(* Types of what the parser computes from a line.                          *)

(* What Front and Last are for a non-empty sequence.                        *)
LEMMA FrontAndLast ==
  ASSUME NEW S, NEW s \in Seq(S), s # <<>>
  PROVE  /\ Front(s) \in Seq(S) /\ Len(Front(s)) = Len(s) - 1 /\ Len(s) \in Nat \ {0}
         /\ \A i \in 1..Len(s) - 1 : Front(s)[i] = s[i]
         /\ Last(s) \in S /\ Last(s) = s[Len(s)]
  <1>1. Len(s) \in Nat \ {0}
    BY EmptySeq
  <1>2. \A i \in 1..Len(s) : s[i] \in S
    BY ElementOfSeq
  <1> DEFINE n == Len(s) - 1
  <1>3. n \in Nat /\ \A i \in 1..n : s[i] \in S
    BY <1>1, <1>2
  <1> HIDE DEF n
  <1>4. /\ SubSeq(s, 1, n) \in Seq(S) /\ Len(SubSeq(s, 1, n)) = n
        /\ \A i \in 1..n : SubSeq(s, 1, n)[i] = s[i]
    BY <1>3, SubSeqProperties
  <1> QED
    BY <1>1, <1>2, <1>4 DEF Front, Last, n

(* First takes a member of the set.                                         *)
LEMMA FirstType ==
  ASSUME NEW S \in SUBSET Nat, S # {}
  PROVE  First(S) \in S
  <1>1. \E i \in S : \A j \in S : i <= j
    BY Least
  <1> QED
    BY <1>1 DEF First

(* Every line of the text is a sequence of symbols.                         *)
LEMMA LineType ==
  ASSUME ClientTypes, NEW l \in LineNos
  PROVE  text[l] \in Seq(Symbols) /\ Len(text[l]) \in Nat
  BY TextAssumption DEF ClientTypes, TextAssumption

(* searchMatch returns a node whose start does match.                      *)
LEMMA HitType ==
  ASSUME NEW scheme \in Schemes, NEW line, NEW at, NEW stop,
         NodeAt(scheme, line, at, stop) # {}
  PROVE  /\ SearchMatch(scheme, line, at, stop) \in Nodes
         /\ Matches(SearchMatch(scheme, line, at, stop), line, at, stop)
  <1> DEFINE hits == NodeAt(scheme, line, at, stop)
  <1>1. Content[scheme] \in Seq(Nodes)
    BY SchemeAssumption DEF SchemeAssumption
  <1>2. hits \in SUBSET Nat /\ hits \subseteq DOMAIN Content[scheme]
    BY <1>1 DEF NodeAt
  <1>3. \E i \in hits : \A j \in hits : i <= j
    BY <1>2, Least
  <1>4. PICK i \in hits : SearchMatch(scheme, line, at, stop) = Content[scheme][i]
    BY <1>3 DEF SearchMatch
  <1>5. Content[scheme][i] \in Nodes
    BY <1>1, <1>2, <1>4, ElementOfSeq, LenProperties
  <1>6. Matches(Content[scheme][i], line, at, stop)
    BY <1>4 DEF NodeAt
  <1> QED
    BY <1>4, <1>5, <1>6

(* A cache and a place in it have the types of TypeOK.                     *)
LEMMA TypesOfCache ==
  ASSUME IsCache(cache), Place
  PROVE  CacheTypes
  <1>1. DOMAIN cache \subseteq Path
    BY DEF IsCache, IsTree, Rooted
  <1>2. ASSUME NEW p \in DOMAIN cache, p # Root PROVE Front(p) \in DOMAIN cache
    <2>1. Len(p) - 1 \in 0..Len(p)
      BY <1>1, <1>2, EmptySeq DEF Path, Root
    <2> QED
      BY <2>1 DEF IsCache, IsTree, Rooted, Front
  <1>3. \A p \in DOMAIN cache : cache[p] \in NodesOf(Schemes, Syms)
    BY DEF IsCache, IsTree
  <1> QED
    BY <1>1, <1>2, <1>3 DEF CacheTypes, Place, IsCache, Path, NodesOf, Syms

-----------------------------------------------------------------------------
(* The cache of a fresh parser, and the initial states.                    *)
LEMMA EmptyIsCache == IsCache(EmptyCache)
  <1>1. Root \in Path /\ Len(Root) = 0 /\ SubSeq(Root, 1, 0) = Root
    BY EmptySeq, SubSeqEmpty DEF Path, Root
  <1>2. DOMAIN EmptyCache = {Root}
    BY DEF EmptyCache
  <1>3. Rooted(EmptyCache)
    BY <1>1, <1>2 DEF Rooted
  <1>4. HasKids(EmptyCache, Root, 0)
    BY <1>1, <1>2, FrontOfAppend DEF HasKids
  <1>5. Numbered(EmptyCache) /\ Shallow(EmptyCache)
    BY <1>1, <1>2, <1>4 DEF Numbered, Shallow
  <1>6. EmptyCache[Root] \in NodesOf(Schemes, Syms)
    BY DEF EmptyCache, NodesOf, Schemes, Syms, MaxLine
  <1>7. EmptyCache[Root].block = Base /\ EmptyCache[Root].cursor = 0
    BY DEF EmptyCache
  <1>8. EmptyCache \in [DOMAIN EmptyCache -> NodesOf(Schemes, Syms)]
    BY <1>6 DEF EmptyCache
  <1> QED
    BY <1>2, <1>3, <1>5, <1>7, <1>8 DEF IsCache, IsTree, CursorsLive

(* The record outside a tryParseLine has its type.                          *)
LEMMA NoTryType ==
  NoTry \in [on : BOOLEAN, mismatch : BOOLEAN, stack : Seq(OpenFieldTypes),
             expected : Seq(OpenFieldTypes), result : {"none", "kept", "lost"},
             sure : BOOLEAN]
  BY EmptySeq DEF NoTry

(* The invariant holds initially.                                           *)
LEMMA InitInv == Init => Inv
  <1> SUFFICES ASSUME Init PROVE Inv
    OBVIOUS
  <1> USE DEF Init
  <1>1. IsCache(cache) /\ Place
    BY EmptyIsCache DEF EmptyCache, Place
  <1>2. ClientTypes
    BY NoTryType, TextAssumption DEF ClientTypes, TextAssumption
  <1>3. handler \in Seq(Schemes) /\ frames \in Seq(FrameTypes)
    <2>1. Base \in Schemes
      BY DEF Schemes
    <2> QED
      BY <2>1, EmptySeq
  <1>4. /\ trace \in [Blocks -> Symbols \cup {NoSym}]
        /\ matchend \in [s : Nat, e : Nat] /\ baseScheme \in Schemes
    BY DEF Schemes
  <1>5. RunTypes
    <2>1. /\ endl \in 0..LineCount /\ endLine \in LineNos
          /\ clear \in LineNos \cup {NoLine}
      BY TextAssumption DEF TextAssumption, LineNos
    <2>2. /\ phase \in {"idle", "level", "line", "scan", "return"}
          /\ mode \in {"off", "read", "update"} /\ found \in BOOLEAN
          /\ filled \in BOOLEAN /\ breaking \in BOOLEAN /\ cur \in Nat /\ gx \in Nat
      OBVIOUS
    <2> QED
      BY <1>3, <1>4, <2>1, <2>2 DEF RunTypes
  <1> QED
    BY <1>1, <1>2, <1>5, EmptySeq DEF Inv, Positions, OuterRestored, Grafting, Pending

(* A step that leaves the tree, the pending blocks and the scheme alone    *)
(* keeps what relates them.                                                *)
LEMMA SameTree ==
  ASSUME Inv, UNCHANGED <<tree, mode, frames, baseScheme>>,
         \/ phase' = phase
         \/ {phase, phase'} \subseteq {"line", "scan", "return"}
  PROVE  IsCache(cache)' /\ Place' /\ OuterRestored' /\ Grafting' /\ Pending'
  <1>1. UNCHANGED <<cache, parent, forward, mode, frames, baseScheme>>
    BY DEF tree
  <1>2. IsCache(cache)' /\ Place'
    BY <1>1 DEF Inv, Place
  <1>3. OuterRestored'
    BY <1>1 DEF Inv, OuterRestored, Outer, Depth
  <1>4. Grafting' /\ Pending'
    BY <1>1 DEF Inv, Grafting, Pending
  <1> QED
    BY <1>2, <1>3, <1>4

(* LinesExhausted keeps the invariant.                                      *)
LEMMA LinesExhaustedInv == ASSUME Inv, LinesExhausted PROVE Inv'
  <1> USE DEF LinesExhausted
  <1>1. UNCHANGED <<env, client, mode, where, tree, matching, frames, filled,
                    breaking, handler, try>>
    OBVIOUS
  <1>2. IsCache(cache)' /\ Place' /\ OuterRestored' /\ Grafting' /\ Pending'
    BY <1>1, SameTree DEF matching
  <1>3. ClientTypes' /\ RunTypes' /\ Positions'
    BY DEF Inv, ClientTypes, RunTypes, Positions, env, client, where, matching
  <1> QED
    BY <1>2, <1>3 DEF Inv

(* LineMissing keeps the invariant: the line given up on is one of the text.*)
LEMMA LineMissingInv == ASSUME Inv, LineMissing PROVE Inv'
  <1> USE DEF LineMissing
  <1>1. IsCache(cache)' /\ Place' /\ OuterRestored' /\ Grafting' /\ Pending'
    BY SameTree DEF matching
  <1>2. cur \in LineNos
    BY TextAssumption DEF Inv, RunTypes, LineNos, TextAssumption
  <1>3. ClientTypes' /\ RunTypes' /\ Positions'
    BY <1>2 DEF Inv, ClientTypes, RunTypes, Positions, env, client, matching
  <1> QED
    BY <1>1, <1>3 DEF Inv

(* The line about to be searched, and what is found on it.                 *)
LEMMA CurrentLine ==
  ASSUME Inv, cur < endl
  PROVE  cur \in LineNos /\ text[cur] \in Seq(Symbols) /\ Len(text[cur]) \in Nat
  <1>1. cur \in LineNos
    BY TextAssumption DEF Inv, RunTypes, LineNos, TextAssumption
  <1> QED
    BY <1>1, LineType DEF Inv

(* The end expression in use is that of a block, or the base scheme's.      *)
LEMMA EndBlockType == ASSUME Inv PROVE EndBlock \in Schemes
  <1>1. CASE frames = <<>>
    BY <1>1 DEF EndBlock, Inv, IsCache, IsTree, NodesOf, Place
  <1>2. CASE frames # <<>>
    <2>1. Last(frames) \in FrameTypes
      BY <1>2, FrontAndLast DEF Inv, RunTypes
    <2> QED
      BY <1>2, <2>1 DEF EndBlock, FrameTypes, Schemes
  <1> QED
    BY <1>1, <1>2

(* The path from the root to a live node, read off the tree.               *)
LEMMA InvisibleType == ASSUME Inv PROVE Invisible \in Seq(Schemes)
  <1>1. parent \in Path /\ Len(parent) \in Nat
    BY DEF Inv, IsCache, IsTree, Rooted, Place, Path
  <1>2. \A k \in 1..Len(parent) : SubSeq(parent, 1, k) \in DOMAIN cache
    BY <1>1 DEF Inv, IsCache, IsTree, Rooted, Place
  <1>3. \A k \in 1..Len(parent) : cache[SubSeq(parent, 1, k)].block \in Schemes
    BY <1>2 DEF Inv, IsCache, IsTree, NodesOf
  <1> QED
    BY <1>1, <1>3 DEF Invisible

(* LineBegin keeps the invariant.                                           *)
LEMMA LineBeginInv == ASSUME Inv, LineBegin PROVE Inv'
  <1> USE DEF LineBegin
  <1>1. IsCache(cache)' /\ Place' /\ OuterRestored' /\ Grafting' /\ Pending'
    BY SameTree
  <1>2. cur \in LineNos /\ Len(text[cur]) \in Nat
    BY CurrentLine
  <1>3. handler' \in Seq(Schemes)
    BY InvisibleType, ConcatProperties DEF Inv, RunTypes
  <1>4. EndsAhead \in SUBSET Nat
    BY <1>2 DEF EndsAhead, EndsFrom, Inv, RunTypes
  <1>5. matchend' \in [s : Nat, e : Nat] /\ found' \in BOOLEAN
    <2>1. CASE EndsAhead # {}
      <3>1. First(EndsAhead) \in Nat
        BY <1>4, <2>1, FirstType
      <3>2. matchend' = [s |-> First(EndsAhead), e |-> First(EndsAhead) + 1]
        BY <2>1
      <3> QED
        BY <3>1, <3>2
    <2>2. CASE EndsAhead = {}
      BY <1>2, <2>2
    <2> QED
      BY <2>1, <2>2
  <1>6. ClientTypes' /\ RunTypes' /\ Positions'
    BY <1>2, <1>3, <1>5, TextAssumption
       DEF Inv, ClientTypes, RunTypes, Positions, env, client, LineNos, TextAssumption
  <1> QED
    BY <1>1, <1>6 DEF Inv

(* ScanNothing keeps the invariant.                                         *)
LEMMA ScanNothingInv == ASSUME Inv, ScanNothing PROVE Inv'
  <1> USE DEF ScanNothing, Scanning
  <1>1. IsCache(cache)' /\ Place' /\ OuterRestored' /\ Grafting' /\ Pending'
    BY SameTree DEF matching
  <1>2. ClientTypes' /\ RunTypes' /\ Positions'
    BY DEF Inv, ClientTypes, RunTypes, Positions, env, client, matching
  <1> QED
    BY <1>1, <1>2 DEF Inv

(* ScanRegexp keeps the invariant.                                          *)
LEMMA ScanRegexpInv == ASSUME Inv, ScanRegexp PROVE Inv'
  <1> USE DEF ScanRegexp, Scanning
  <1>1. Width(Hit) \in Nat
    BY DEF Width
  <1>2. phase' \in {"line", "scan"}
    BY DEF PhaseAt
  <1>3. IsCache(cache)' /\ Place' /\ OuterRestored' /\ Grafting' /\ Pending'
    BY <1>2, SameTree DEF matching
  <1>4. ClientTypes' /\ RunTypes' /\ Positions'
    BY <1>1, <1>2 DEF Inv, ClientTypes, RunTypes, Positions, env, client, matching
  <1> QED
    BY <1>3, <1>4 DEF Inv

(* EndOfBlock keeps the invariant.                                          *)
LEMMA EndOfBlockInv == ASSUME Inv, EndOfBlock PROVE Inv'
  <1> USE DEF EndOfBlock
  <1>1. IsCache(cache)' /\ Place' /\ OuterRestored' /\ Grafting' /\ Pending'
    BY SameTree DEF matching
  <1>2. try.stack # <<>> => Front(try.stack) \in Seq(OpenFieldTypes)
    BY FrontAndLast DEF Inv, ClientTypes
  <1>3. ClientTypes'
    BY <1>2 DEF Inv, ClientTypes, env, client
  <1>4. cur' \in Nat
    BY TextAssumption DEF Inv, RunTypes, TextAssumption
  <1>5. RunTypes' /\ Positions'
    BY <1>4 DEF Inv, RunTypes, Positions, matching
  <1> QED
    BY <1>1, <1>3, <1>5 DEF Inv

(* NextLine keeps the invariant.                                            *)
LEMMA NextLineInv == ASSUME Inv, NextLine PROVE Inv'
  <1> USE DEF NextLine
  <1>1. IsCache(cache)' /\ Place' /\ OuterRestored' /\ Grafting' /\ Pending'
    BY SameTree DEF matching
  <1>2. cur' \in Nat
    BY TextAssumption DEF Inv, RunTypes, TextAssumption
  <1>3. ClientTypes' /\ RunTypes' /\ Positions'
    BY <1>2 DEF Inv, ClientTypes, RunTypes, Positions, env, client, matching
  <1> QED
    BY <1>1, <1>3 DEF Inv

(* BreakParse keeps the invariant: it raises a flag and nothing else.       *)
LEMMA BreakParseInv == ASSUME Inv, BreakParse PROVE Inv'
  <1> USE DEF BreakParse
  <1>1. IsCache(cache)' /\ Place' /\ OuterRestored' /\ Grafting' /\ Pending'
    BY SameTree DEF matching
  <1>2. ClientTypes'
    BY DEF Inv, ClientTypes, env, client
  <1>3. RunTypes'
    BY DEF Inv, RunTypes, where, matching
  <1>4. Positions'
    BY DEF Inv, Positions, where, tree, matching
  <1> QED
    BY <1>1, <1>2, <1>3, <1>4 DEF Inv

-----------------------------------------------------------------------------
(* searchBL enters a block: its start match, its node, its frame.          *)
LEMMA EnterBlockTypes ==
  ASSUME Inv, EnterBlock, NEW sym, sym = text[cur][gx + 1]
  PROVE  /\ sym \in Symbols /\ Hit \in Blocks
         /\ NewNode(Hit, sym, gx, cur) \in NodesOf(Schemes, Syms)
         /\ Level(NewNode(Hit, sym, gx, cur)) \in OpenFieldTypes
         /\ FrameOf(Hit, sym) \in FrameTypes
  <1> USE DEF EnterBlock, Scanning
  <1>1. cur < endl /\ gx \in Nat /\ cur \in Nat /\ baseScheme \in Schemes
    BY DEF Inv, Positions, RunTypes
  <1>2. text[cur] \in Seq(Symbols) /\ Len(text[cur]) \in Nat
    BY <1>1, CurrentLine
  <1>3. Matches(Hit, text[cur], gx, matchend.s)
    BY <1>1, HitType DEF Hits, Hit
  <1>4. sym \in Symbols
    BY <1>1, <1>2, <1>3, ElementOfSeq DEF Matches
  <1>5. Hit \in Blocks /\ Hit \in Schemes /\ sym \in Syms
    BY <1>4 DEF Schemes, Syms
  <1> HIDE DEF EnterBlock, Scanning
  <1>6. NewNode(Hit, sym, gx, cur) \in NodesOf(Schemes, Syms)
    BY <1>1, <1>5 DEF NewNode, NodesOf, Unclosed
  <1>7. Level(NewNode(Hit, sym, gx, cur)) \in OpenFieldTypes
    BY <1>1, <1>5 DEF NewNode, Level, OpenFieldTypes, Syms
  <1>8. /\ trace[Hit] \in Symbols \cup {NoSym} /\ matchend \in [s : Nat, e : Nat]
        /\ found \in BOOLEAN /\ forward \in Nat
    BY <1>5 DEF Inv, RunTypes, Place
  <1> QED
    BY <1>1, <1>4, <1>5, <1>6, <1>7, <1>8 DEF FrameTypes, FrameOf

(* EnterBlock: everything but the cache.                                    *)
LEMMA EnterBlockRun == ASSUME Inv, EnterBlock PROVE ClientTypes' /\ RunTypes' /\ Positions'
  <1> DEFINE sym == text[cur][gx + 1]
             node == NewNode(Hit, sym, gx, cur)
             f == FrameOf(Hit, sym)
  <1>1. /\ sym \in Symbols /\ Hit \in Blocks /\ Level(node) \in OpenFieldTypes
        /\ f \in FrameTypes /\ f.line = cur
    BY EnterBlockTypes DEF FrameOf
  <1>2. /\ frames' = Append(frames, f) /\ trace' = [trace EXCEPT ![Hit] = sym]
        /\ baseScheme' = Hit /\ handler' = Append(handler, Hit) /\ gx' = gx + 1
        /\ try' = IF try.on THEN [try EXCEPT !.stack = Append(@, Level(node))] ELSE try
        /\ phase' = IF Len(frames) + 1 > MaxRecursion THEN "return" ELSE "line"
        /\ phase = "scan"
        /\ UNCHANGED <<env, client, mode, cur, endl, clear, endLine, matchend, found,
                       filled, breaking>>
    BY DEF EnterBlock, Scanning
  <1> HIDE DEF sym, node, f
  <1>3. Append(try.stack, Level(node)) \in Seq(OpenFieldTypes)
    BY <1>1, AppendProperties DEF Inv, ClientTypes
  <1>4. ClientTypes'
    BY <1>2, <1>3 DEF Inv, ClientTypes, env, client
  <1>5. /\ frames' \in Seq(FrameTypes) /\ Len(frames') = Len(frames) + 1
        /\ \A i \in 1..Len(frames) : frames'[i] = frames[i]
        /\ frames'[Len(frames) + 1] = f /\ Len(frames) \in Nat
    BY <1>1, <1>2, AppendProperties, LenProperties DEF Inv, RunTypes
  <1>6. handler' \in Seq(Schemes)
    BY <1>1, <1>2, AppendProperties DEF Inv, RunTypes, Schemes
  <1>7. RunTypes'
    BY <1>1, <1>2, <1>5, <1>6 DEF Inv, RunTypes, Schemes
  <1>8. Positions'
    BY <1>1, <1>2, <1>5 DEF Inv, Positions
  <1> QED
    BY <1>4, <1>7, <1>8

(* In update mode the node of the block is hung behind forward.            *)
LEMMA EnterBlockUpdate ==
  ASSUME Inv, EnterBlock, mode = "update"
  PROVE  IsCache(cache)' /\ Place' /\ OuterRestored' /\ Grafting' /\ Pending'
  <1> DEFINE sym == text[cur][gx + 1]
             node == NewNode(Hit, sym, gx, cur)
             new == Append(parent, forward + 1)
             f == FrameOf(Hit, sym)
  <1>1. /\ node \in NodesOf(Schemes, Syms) /\ Hit \in Blocks
        /\ f.scheme = baseScheme /\ f.forward = forward
        /\ node.cursor = 0 /\ node.block = Hit
    BY EnterBlockTypes DEF NewNode, FrameOf
  <1>2. /\ cache' = Link(cache, parent, forward, node) /\ parent' = new /\ forward' = 0
        /\ frames' = Append(frames, f) /\ phase = "scan" /\ mode' = "update"
        /\ phase' \in {"line", "return"} /\ baseScheme' = Hit
    BY DEF EnterBlock, Scanning
  <1> HIDE DEF sym, node, f
  <1>3. /\ IsTree(cache, Schemes, Syms) /\ parent \in DOMAIN cache
        /\ At(cache, parent, forward) /\ KidsAfter(cache, parent, forward) = {}
    BY <1>2 DEF Inv, IsCache, Place, Grafting
  <1>4. /\ IsTree(cache', Schemes, Syms)
        /\ GraftedAt(cache', cache, parent, new, forward, node)
    BY <1>1, <1>2, <1>3, LinkIsTree DEF Grafted
  <1> HIDE DEF new
  <1>5. IsCache(cache)'
    BY <1>1, <1>4, SchemeAssumption DEF GraftedAt, IsCache, Inv, SchemeAssumption, Nodes
  <1>6. Place' /\ Grafting'
    BY <1>2, <1>4 DEF GraftedAt, Place, Grafting, At
  <1>7. /\ Len(frames') = Len(frames) + 1 /\ Len(frames) \in Nat
        /\ \A i \in 1..Len(frames) : frames'[i] = frames[i]
        /\ frames'[Len(frames) + 1] = f
        /\ frames = <<>> <=> Len(frames) = 0
    BY <1>2, AppendProperties, LenProperties, EmptySeq, EnterBlockTypes
       DEF Inv, RunTypes, f, sym
  <1>8. /\ parent \in Path /\ Len(parent) \in Nat /\ forward + 1 \in Nat \ {0}
        /\ Len(new) = Len(parent) + 1 /\ new[Len(parent) + 1] = forward + 1
        /\ \A i \in 1..Len(parent) : new[i] = parent[i]
        /\ \A i \in 0..Len(parent) : SubSeq(new, 1, i) = SubSeq(parent, 1, i)
        /\ SubSeq(parent, 1, Len(parent)) = parent
    <2>1. parent \in Path /\ Len(parent) \in Nat /\ forward + 1 \in Nat \ {0}
      BY <1>3 DEF IsTree, Rooted, Path, At
    <2> QED
      BY <2>1, AppendProperties, BeginningOfAppend, Beginning DEF Path, new
  <1>9. Pending'
    <2> DEFINE n == Len(frames)
               d == Len(parent) - n
    <2>1. n <= Len(parent) /\ \A i \in 1..n : Awaits(cache, parent, d + i, frames[i])
      BY <1>2 DEF Inv, Pending, EnterBlock
    <2>2. ASSUME NEW i \in 1..n PROVE Awaits(cache', parent', d + i, frames'[i])
      <3>1. PICK j \in 1..Len(parent) : j = d + i /\ j - 1 \in 0..Len(parent)
        BY <1>7, <1>8, <2>1
      <3>2. Awaits(cache, parent, j, frames[i])
        BY <2>1, <3>1
      <3>3. /\ new[j] = parent[j] /\ frames'[i] = frames[i]
            /\ SubSeq(new, 1, j - 1) = SubSeq(parent, 1, j - 1)
        BY <1>7, <1>8, <3>1
      <3>4. KidsAfter(cache, SubSeq(parent, 1, j - 1), parent[j]) = {}
              => KidsAfter(cache', SubSeq(parent, 1, j - 1), parent[j]) = {}
        BY <1>4 DEF GraftedAt
      <3>5. Awaits(cache', parent', j, frames'[i])
        BY <1>2, <3>2, <3>3, <3>4 DEF Awaits
      <3> QED
        BY <3>1, <3>5
    <2>3. Awaits(cache', parent', d + (n + 1), frames'[n + 1])
      <3>1. PICK j \in Nat : j = d + (n + 1) /\ j = Len(parent) + 1 /\ j - 1 = Len(parent)
        BY <1>7, <1>8
      <3>2. new[j] = forward + 1 /\ SubSeq(new, 1, j - 1) = parent
        BY <1>8, <3>1
      <3>3. Awaits(cache', parent', j, f)
        BY <1>1, <1>2, <1>4, <3>2 DEF Awaits, GraftedAt
      <3> QED
        BY <1>7, <3>1, <3>3
    <2>4. Len(frames') <= Len(parent') /\ Len(parent') - Len(frames') = d
      BY <1>2, <1>7, <1>8, <2>1
    <2>5. \A i \in 1..Len(frames') : i \in 1..n \/ i = n + 1
      BY <1>7
    <2> QED
      BY <2>2, <2>3, <2>4, <2>5 DEF Pending
  <1>10. OuterRestored'
    <2>1. Outer' = Outer
      BY <1>1, <1>2, <1>7, EmptySeq DEF Outer
    <2>2. Depth' = Depth
      BY <1>2, <1>7, <1>8 DEF Depth, EnterBlock
    <2> QED
      BY <1>2, <2>1, <2>2 DEF Inv, OuterRestored
  <1> QED
    BY <1>5, <1>6, <1>9, <1>10

(* Outside update mode the cache is left alone.                             *)
LEMMA EnterBlockRead ==
  ASSUME Inv, EnterBlock, mode # "update"
  PROVE  IsCache(cache)' /\ Place' /\ OuterRestored' /\ Grafting' /\ Pending'
  <1> DEFINE f == FrameOf(Hit, text[cur][gx + 1])
  <1>1. /\ UNCHANGED <<cache, parent, forward, mode>> /\ phase = "scan"
        /\ frames' = Append(frames, f) /\ phase' \in {"line", "return"}
        /\ f.scheme = baseScheme
    BY DEF EnterBlock, Scanning, tree, FrameOf
  <1>2. IsCache(cache)' /\ Place' /\ Grafting' /\ Pending'
    BY <1>1 DEF Inv, Place, Grafting, Pending
  <1>3. f \in FrameTypes
    BY EnterBlockTypes
  <1> HIDE DEF f
  <1>4. /\ frames' # <<>> /\ frames # <<>> => frames'[1] = frames[1]
        /\ frames = <<>> => frames'[1] = f
    BY <1>1, <1>3, AppendProperties, LenProperties, EmptySeq DEF Inv, RunTypes
  <1>5. Outer' = Outer /\ Depth' = Depth
    BY <1>1, <1>4 DEF Outer, Depth
  <1> QED
    BY <1>1, <1>2, <1>5 DEF Inv, OuterRestored

(* EnterBlock keeps the invariant.                                          *)
LEMMA EnterBlockInv == ASSUME Inv, EnterBlock PROVE Inv'
  BY EnterBlockRun, EnterBlockUpdate, EnterBlockRead DEF Inv

-----------------------------------------------------------------------------
(* The other ways the cache changes: ending a block, deleting children.    *)
LEMMA EndedIsCache ==
  ASSUME NEW t, IsCache(t), NEW p \in DOMAIN t, NEW n \in Nat,
         NEW u, u = [t EXCEPT ![p].eline = n]
  PROVE  IsCache(u) /\ DOMAIN u = DOMAIN t
  <1>1. \A q \in DOMAIN t : t[q] \in NodesOf(Schemes, Syms)
    BY DEF IsCache, IsTree
  <1>2. \A q \in DOMAIN t : /\ u[q] \in NodesOf(Schemes, Syms)
                            /\ u[q].block = t[q].block /\ u[q].cursor = t[q].cursor
    BY <1>1 DEF NodesOf
  <1>3. u \in [DOMAIN t -> NodesOf(Schemes, Syms)]
    BY <1>2
  <1>4. \A q \in DOMAIN t : At(t, q, u[q].cursor)
    BY <1>2, CursorIsAt DEF IsCache
  <1>5. IsTree(u, Schemes, Syms) /\ DOMAIN u = DOMAIN t
    BY <1>3, <1>4, Relabelled DEF IsCache
  <1> QED
    BY <1>2, <1>5 DEF IsCache

(* Deleting the children of p above k keeps the cache well-formed.          *)
LEMMA DroppedIsCache ==
  ASSUME NEW t, IsCache(t), NEW p \in DOMAIN t, NEW k \in Nat,
         NEW u, u = DropKidsAfter(t, p, k)
  PROVE  /\ IsCache(u) /\ DOMAIN u \subseteq DOMAIN t
         /\ p \in DOMAIN u /\ KidsAfter(u, p, k) = {}
         /\ At(t, p, k) => At(u, p, k)
  <1>1. /\ IsTree(u, Schemes, Syms) /\ DOMAIN u = DOMAIN t \ KidsAfter(t, p, k)
        /\ p \in DOMAIN u /\ KidsAfter(u, p, k) = {}
        /\ \A q \in DOMAIN u : u[q].block = t[q].block
        /\ At(t, p, k) => At(u, p, k)
    BY DropIsTree DEF IsCache
  <1> QED
    BY <1>1 DEF IsCache

(* Neither changes the block of a node that stays.                         *)
LEMMA EndedBlocks ==
  ASSUME NEW t, IsCache(t), NEW p \in DOMAIN t, NEW n \in Nat,
         NEW u, u = [t EXCEPT ![p].eline = n]
  PROVE  \A q \in DOMAIN u : u[q].block = t[q].block
  <1>1. \A q \in DOMAIN t : t[q] \in NodesOf(Schemes, Syms)
    BY DEF IsCache, IsTree
  <1> QED
    BY <1>1 DEF NodesOf

(* Nor does deleting children.                                              *)
LEMMA DroppedBlocks ==
  ASSUME NEW t, IsCache(t), NEW p \in DOMAIN t, NEW k \in Nat,
         NEW u, u = DropKidsAfter(t, p, k)
  PROVE  \A q \in DOMAIN u : u[q].block = t[q].block
  <1>1. \A q \in DOMAIN t : t[q] \in NodesOf(Schemes, Syms)
    BY DEF IsCache, IsTree
  <1> QED
    BY <1>1 DEF DropKidsAfter, NodesOf

(* Children that are not there do not appear when nodes go.                 *)
LEMMA FewerKids ==
  ASSUME NEW t, NEW u, DOMAIN u \subseteq DOMAIN t, NEW p, NEW k, KidsAfter(t, p, k) = {}
  PROVE  KidsAfter(u, p, k) = {}
  BY DEF KidsAfter

(* The parent of a live node is live, and so is the sibling before it.     *)
LEMMA ParentOf ==
  ASSUME NEW t, IsCache(t), NEW p \in DOMAIN t, p # Root
  PROVE  /\ Front(p) \in DOMAIN t /\ Last(p) \in Nat \ {0}
         /\ p = Append(Front(p), Last(p)) /\ p \in Path
         /\ At(t, Front(p), Last(p)) /\ At(t, Front(p), Last(p) - 1)
  <1>1. p \in Path /\ Len(p) \in Nat /\ Len(p) - 1 \in 0..Len(p)
    BY EmptySeq DEF IsCache, IsTree, Rooted, Path, Root
  <1>2. Last(p) \in Nat \ {0} /\ p = Append(Front(p), Last(p))
    BY <1>1, AppendOfFront
  <1>3. Front(p) \in DOMAIN t
    BY <1>1 DEF IsCache, IsTree, Rooted, Front
  <1>4. PICK n \in Nat : HasKids(t, Front(p), n)
    BY <1>3 DEF IsCache, IsTree, Numbered
  <1>5. Last(p) <= n
    BY <1>2, <1>4 DEF HasKids
  <1>6. At(t, Front(p), Last(p)) /\ At(t, Front(p), Last(p) - 1)
    BY <1>2, <1>4, <1>5 DEF At, HasKids
  <1> QED
    BY <1>1, <1>2, <1>3, <1>6

(* The frame that searchBL takes off the stack.                            *)
LEMMA Innermost ==
  ASSUME Inv, LeaveBlock
  PROVE  /\ Last(frames) \in FrameTypes /\ Last(frames) = frames[Len(frames)]
         /\ Len(frames) \in Nat \ {0} /\ Last(frames).line < endl
         /\ frames' \in Seq(FrameTypes) /\ Len(frames') = Len(frames) - 1
         /\ \A i \in 1..Len(frames') : frames'[i] = frames[i]
  <1>1. frames # <<>> /\ frames' = Front(frames) /\ frames \in Seq(FrameTypes)
    BY DEF LeaveBlock, Inv, RunTypes
  <1>2. /\ Last(frames) \in FrameTypes /\ Last(frames) = frames[Len(frames)]
        /\ Len(frames) \in Nat \ {0}
        /\ frames' \in Seq(FrameTypes) /\ Len(frames') = Len(frames) - 1
        /\ \A i \in 1..Len(frames) - 1 : frames'[i] = frames[i]
    BY <1>1, FrontAndLast
  <1>3. Last(frames).line < endl
    BY <1>2 DEF Inv, Positions
  <1> QED
    BY <1>2, <1>3

(* LeaveBlock: everything but the cache.                                    *)
LEMMA LeaveBlockRun == ASSUME Inv, LeaveBlock PROVE ClientTypes' /\ RunTypes' /\ Positions'
  <1> DEFINE f == Last(frames)
  <1>1. /\ f \in FrameTypes /\ frames' \in Seq(FrameTypes) /\ Len(frames) \in Nat \ {0}
        /\ Len(frames') = Len(frames) - 1 /\ f.line < endl
        /\ \A i \in 1..Len(frames') : frames'[i] = frames[i]
    BY Innermost
  <1>2. /\ try' = IF try.on /\ f.line = cur /\ try.stack # <<>>
                  THEN [try EXCEPT !.stack = Front(@)] ELSE try
        /\ handler' = Left(handler) /\ gx' = matchend.e /\ trace' = Restored(f)
        /\ matchend' = f.matchend /\ found' = f.found /\ baseScheme' = f.scheme
        /\ phase' = IF f.line # cur THEN "line" ELSE PhaseAt(matchend.e, f.matchend.s)
        /\ UNCHANGED <<env, client, mode, cur, endl, clear, endLine, filled, breaking>>
    BY DEF LeaveBlock
  <1> HIDE DEF f
  <1>3. try.stack # <<>> => Front(try.stack) \in Seq(OpenFieldTypes)
    BY FrontAndLast DEF Inv, ClientTypes
  <1>4. ClientTypes'
    BY <1>2, <1>3 DEF Inv, ClientTypes, env, client
  <1>5. handler' \in Seq(Schemes)
    BY <1>2, FrontAndLast DEF Inv, RunTypes, Left
  <1>6. trace' \in [Blocks -> Symbols \cup {NoSym}]
    BY <1>1, <1>2 DEF Inv, RunTypes, Restored, FrameTypes
  <1>7. phase' \in {"line", "scan"} /\ (phase' = "scan" => f.line = cur)
    BY <1>2 DEF PhaseAt
  <1>8. RunTypes'
    BY <1>1, <1>2, <1>5, <1>6, <1>7 DEF Inv, RunTypes, FrameTypes
  <1>9. Positions'
    BY <1>1, <1>2, <1>7 DEF Inv, Positions
  <1> QED
    BY <1>4, <1>8, <1>9

(* In update mode the node of the block is the one parent points at: it is *)
(* deleted when the block ended on its first line, and ended otherwise.    *)
LEMMA LeaveBlockUpdate ==
  ASSUME Inv, LeaveBlock, mode = "update"
  PROVE  IsCache(cache)' /\ Place' /\ OuterRestored' /\ Grafting' /\ Pending'
  <1> DEFINE f == Last(frames)
             n == Len(frames)
             d == Len(parent) - n
             p == Front(parent)
  <1>1. /\ f \in FrameTypes /\ f = frames[n] /\ n \in Nat \ {0}
        /\ Len(frames') = n - 1 /\ frames' \in Seq(FrameTypes)
        /\ \A i \in 1..n - 1 : frames'[i] = frames[i]
    BY Innermost
  <1>2. /\ cache' = Settle(cache, parent, f.forward, f.line) /\ parent' = p
        /\ forward' = IF f.line = cur THEN f.forward ELSE Last(parent)
        /\ baseScheme' = f.scheme /\ phase = "return" /\ phase' \in {"line", "scan"}
        /\ mode' = "update"
    BY DEF LeaveBlock, PhaseAt
  <1>3. n <= Len(parent) /\ \A i \in 1..n : Awaits(cache, parent, d + i, frames[i])
    BY DEF Inv, Pending
  <1>4. /\ IsCache(cache) /\ parent \in DOMAIN cache /\ parent \in Path
        /\ Len(parent) \in Nat \ {0} /\ cur \in Nat /\ f.forward \in Nat
    <2>1. IsCache(cache) /\ parent \in DOMAIN cache /\ cur \in Nat
      BY DEF Inv, Place, RunTypes
    <2>2. parent \in Path /\ Len(parent) \in Nat
      BY <2>1 DEF IsCache, IsTree, Rooted, Path
    <2> QED
      BY <1>1, <1>3, <2>1, <2>2 DEF FrameTypes
  <1>5. /\ p \in DOMAIN cache /\ Last(parent) \in Nat \ {0}
        /\ At(cache, p, Last(parent)) /\ At(cache, p, Last(parent) - 1)
    BY <1>4, ParentOf, EmptySeq DEF Root
  <1>6. /\ p \in Path /\ Len(p) = Len(parent) - 1 /\ p = SubSeq(parent, 1, Len(parent) - 1)
        /\ \A i \in 1..Len(parent) - 1 : p[i] = parent[i]
    BY <1>4, FrontAndLast, EmptySeq DEF Path, Front
  <1>7. Last(parent) = f.forward + 1 /\ KidsAfter(cache, p, f.forward + 1) = {}
    <2>1. Awaits(cache, parent, Len(parent), f)
      BY <1>1, <1>3, <1>4
    <2> QED
      BY <1>6, <2>1 DEF Awaits, Last
  <1>8. At(cache, p, f.forward)
    BY <1>4, <1>5, <1>7
  <1> HIDE DEF f, p
  <1>9. /\ IsCache(cache') /\ DOMAIN cache' \subseteq DOMAIN cache /\ p \in DOMAIN cache'
        /\ At(cache', p, forward') /\ KidsAfter(cache', p, forward') = {}
    <2>1. CASE f.line = cur
      <3>1. cache' = DropKidsAfter(cache, p, f.forward) /\ forward' = f.forward
        BY <1>2, <2>1 DEF Settle, p
      <3>2. /\ IsCache(cache') /\ DOMAIN cache' \subseteq DOMAIN cache
            /\ p \in DOMAIN cache' /\ KidsAfter(cache', p, f.forward) = {}
            /\ At(cache, p, f.forward) => At(cache', p, f.forward)
        BY <1>4, <1>5, <3>1, DroppedIsCache
      <3> QED
        BY <1>8, <3>1, <3>2
    <2>2. CASE f.line # cur
      <3>1. cache' = [cache EXCEPT ![parent].eline = cur] /\ forward' = f.forward + 1
        BY <1>2, <1>7, <2>2 DEF Settle
      <3>2. IsCache(cache') /\ DOMAIN cache' = DOMAIN cache
        BY <1>4, <3>1, EndedIsCache
      <3>3. KidsAfter(cache', p, f.forward + 1) = {}
        BY <1>7, <3>2, FewerKids
      <3> QED
        BY <1>5, <1>7, <3>1, <3>2, <3>3 DEF At
    <2> QED
      BY <2>1, <2>2
  <1>10. Place' /\ Grafting'
    BY <1>2, <1>9 DEF Place, Grafting, At
  <1>11. Pending'
    <2>1. ASSUME NEW i \in 1..n - 1 PROVE Awaits(cache', parent', d + i, frames'[i])
      <3> HIDE DEF n
      <3>0. n \in Nat \ {0} /\ Len(parent) \in Nat \ {0} /\ n <= Len(parent)
        BY <1>1, <1>3, <1>4
      <3>1. PICK j \in 1..Len(parent) - 1 : j = d + i /\ j - 1 \in 0..Len(parent) - 1
        BY <3>0
      <3>2. Awaits(cache, parent, j, frames[i])
        BY <1>1, <1>3, <3>1
      <3>3. p[j] = parent[j] /\ SubSeq(p, 1, j - 1) = SubSeq(parent, 1, j - 1)
        BY <1>4, <1>6, <3>1, BeginningOfBeginning
      <3>4. KidsAfter(cache', SubSeq(parent, 1, j - 1), parent[j]) = {}
        BY <1>9, <3>2, FewerKids DEF Awaits
      <3>5. Awaits(cache', p, j, frames[i])
        BY <3>2, <3>3, <3>4 DEF Awaits
      <3> QED
        BY <1>1, <1>2, <3>1, <3>5
    <2>2. Len(frames') <= Len(parent') /\ Len(parent') - Len(frames') = d
      BY <1>1, <1>2, <1>3, <1>4, <1>6
    <2> QED
      BY <1>1, <2>1, <2>2 DEF Pending
  <1>12. OuterRestored'
    <2>1. Outer' = Outer
      BY <1>1, <1>2, EmptySeq DEF Outer, LeaveBlock
    <2>2. Depth' = Depth
      BY <1>1, <1>2, <1>4, <1>6 DEF Depth
    <2> QED
      BY <1>2, <2>1, <2>2 DEF Inv, OuterRestored
  <1> QED
    BY <1>2, <1>9, <1>10, <1>11, <1>12

(* Outside update mode the cache is left alone.                             *)
LEMMA LeaveBlockRead ==
  ASSUME Inv, LeaveBlock, mode # "update"
  PROVE  IsCache(cache)' /\ Place' /\ OuterRestored' /\ Grafting' /\ Pending'
  <1>1. /\ UNCHANGED <<cache, parent, forward, mode>> /\ phase = "return"
        /\ phase' \in {"line", "scan"} /\ baseScheme' = Last(frames).scheme
    BY DEF LeaveBlock, tree, PhaseAt
  <1>2. IsCache(cache)' /\ Place' /\ Grafting' /\ Pending'
    BY <1>1 DEF Inv, Place, Grafting, Pending
  <1>3. /\ frames # <<>> /\ Last(frames) = frames[Len(frames)]
        /\ Len(frames) \in Nat \ {0} /\ frames' \in Seq(FrameTypes)
        /\ Len(frames') = Len(frames) - 1
        /\ \A i \in 1..Len(frames') : frames'[i] = frames[i]
    BY Innermost DEF LeaveBlock
  <1>4. Outer' = Outer
    BY <1>1, <1>3, EmptySeq DEF Outer
  <1>5. Depth' = Depth
    BY <1>1 DEF Depth
  <1> QED
    BY <1>1, <1>2, <1>4, <1>5 DEF Inv, OuterRestored

(* LeaveBlock keeps the invariant.                                          *)
LEMMA LeaveBlockInv == ASSUME Inv, LeaveBlock PROVE Inv'
  BY LeaveBlockRun, LeaveBlockUpdate, LeaveBlockRead DEF Inv

-----------------------------------------------------------------------------
(* The levels of parse().                                                  *)
LEMMA StartLevelInv == ASSUME Inv, StartLevel PROVE Inv'
  <1> USE DEF StartLevel
  <1>1. /\ IsCache(cache) /\ parent \in DOMAIN cache /\ forward \in Nat
        /\ parent \in Path /\ frames = <<>>
    BY DEF Inv, Place, Positions, IsCache, IsTree, Rooted
  <1>2. cache[parent] \in NodesOf(Schemes, Syms) /\ (cache[parent].block = Base <=> parent = Root)
    BY <1>1 DEF IsCache, IsTree
  <1>3. ASSUME mode = "update" PROVE IsCache(cache)' /\ Place' /\ Grafting'
    <2>1. At(cache, parent, forward)
      BY <1>3 DEF Inv, Grafting
    <2>2. cache' = DropKidsAfter(cache, parent, forward)
      <3>1. CASE forward = 0
        BY <1>3, <3>1 DEF DropStale, DropChildren
      <3>2. CASE forward # 0
        BY <1>1, <1>3, <3>2, FrontOfAppend DEF DropStale, DropNext
      <3> QED
        BY <3>1, <3>2
    <2>3. /\ IsCache(cache') /\ parent \in DOMAIN cache'
          /\ KidsAfter(cache', parent, forward) = {} /\ At(cache', parent, forward)
      BY <1>1, <2>1, <2>2, DroppedIsCache
    <2> QED
      BY <1>1, <2>3 DEF Place, Grafting
  <1>4. ASSUME mode # "update" PROVE IsCache(cache)' /\ Place' /\ Grafting'
    BY <1>1, <1>4 DEF Place, Grafting
  <1>5. OuterRestored' /\ Pending'
    <2>1. Len(parent) \in Nat /\ (Len(parent) = 0 <=> parent = Root) /\ Len(frames) = 0
      BY <1>1, EmptySeq DEF Path, Root
    <2>2. Outer' = cache[parent].block /\ Depth' = Len(parent)
      BY <1>1, <2>1 DEF Outer, Depth
    <2>3. OuterRestored'
      BY <1>2, <2>1, <2>2 DEF OuterRestored
    <2>4. Pending'
      BY <1>1, <2>1 DEF Pending
    <2> QED
      BY <2>3, <2>4
  <1>6. trace' \in [Blocks -> Symbols \cup {NoSym}] /\ baseScheme' \in Schemes
    BY <1>2 DEF Inv, RunTypes, NodesOf, Syms, Schemes
  <1>7. ClientTypes' /\ RunTypes' /\ Positions'
    BY <1>6 DEF Inv, ClientTypes, RunTypes, Positions, env, client, where
  <1> QED
    BY <1>3, <1>4, <1>5, <1>7 DEF Inv

(* LeaveLevel keeps the invariant: the parent of a live node is live.       *)
LEMMA LeaveLevelInv == ASSUME Inv, LeaveLevel PROVE Inv'
  <1> USE DEF LeaveLevel
  <1>1. IsCache(cache) /\ parent \in DOMAIN cache /\ cur \in Nat /\ frames = <<>>
    BY DEF Inv, Place, RunTypes
  <1>2. /\ Front(parent) \in DOMAIN cache /\ Last(parent) \in Nat \ {0}
        /\ At(cache, Front(parent), Last(parent))
    BY <1>1, ParentOf
  <1>3. IsCache(cache') /\ DOMAIN cache' = DOMAIN cache
    BY <1>1, EndedIsCache DEF Closed
  <1>4. Place' /\ Grafting'
    BY <1>2, <1>3 DEF Place, Grafting, At
  <1>5. OuterRestored'
    BY DEF OuterRestored
  <1>6. Pending'
    <2>1. Len(parent') \in Nat /\ Len(frames') = 0
      BY <1>1, <1>2, EmptySeq DEF IsCache, IsTree, Rooted, Path, matching
    <2> QED
      BY <2>1 DEF Pending
  <1>7. handler' \in Seq(Schemes)
    BY FrontAndLast DEF Inv, RunTypes, Left
  <1>8. gx' \in Nat
    BY DEF Inv, RunTypes
  <1>9. ClientTypes' /\ RunTypes' /\ Positions'
    BY <1>7, <1>8 DEF Inv, ClientTypes, RunTypes, Positions, env, client, matching
  <1> QED
    BY <1>3, <1>4, <1>5, <1>6, <1>9 DEF Inv

(* Finish keeps the invariant: the base scheme is restored when all levels  *)
(* are done, and what the client learns lies within the text.               *)
LEMMA FinishInv == ASSUME Inv, Finish PROVE Inv'
  <1> USE DEF Finish
  <1>1. /\ UNCHANGED <<cache, parent, forward, mode, frames, baseScheme>>
        /\ phase' = "idle"
    BY DEF tree, matching
  <1>2. IsCache(cache)' /\ Place' /\ Grafting' /\ OuterRestored' /\ Pending'
    <2> HIDE DEF Finish
    <2>1. IsCache(cache)' /\ Place'
      BY <1>1 DEF Inv, Place
    <2>2. Grafting' /\ OuterRestored'
      BY <1>1 DEF Grafting, OuterRestored
    <2>3. Pending'
      BY <1>1 DEF Inv, Pending
    <2> QED
      BY <2>1, <2>2, <2>3
  <1>3. endLine + 1 \in 0..LineCount
    BY TextAssumption DEF Inv, RunTypes, LineNos, TextAssumption
  <1>4. ClientTypes'
    <2>1. /\ endLine \in 0..LineCount /\ invalidLine \in 0..LineCount
          /\ valid \in 0..LineCount
      BY TextAssumption DEF Inv, ClientTypes, RunTypes, LineNos, TextAssumption
    <2>2. invalidLine' \in 0..LineCount /\ valid' \in 0..LineCount
      BY <1>3, <2>1 DEF NextInvalid, Reached
    <2>3. try' \in [on : BOOLEAN, mismatch : BOOLEAN, stack : Seq(OpenFieldTypes),
                    expected : Seq(OpenFieldTypes), result : {"none", "kept", "lost"},
                    sure : BOOLEAN]
      BY NoTryType DEF Inv, ClientTypes, Verdict, Torn
    <2> QED
      BY <2>2, <2>3 DEF Inv, ClientTypes, env
  <1>5. RunTypes'
    BY DEF Inv, RunTypes, matching
  <1>6. baseScheme = Base
    <2> HIDE DEF Finish
    <2>1. frames = <<>> /\ phase = "return"
      BY DEF Finish
    <2>2. Len(frames) = 0 /\ Len(parent) = 0
      BY EmptySeq DEF Root, Finish
    <2>3. Outer = baseScheme
      BY <2>1 DEF Outer
    <2>4. Depth = 0
      BY <2>2 DEF Depth
    <2> QED
      BY <2>1, <2>3, <2>4 DEF Inv, OuterRestored
  <1>7. Positions'
    BY <1>1, <1>6 DEF Inv, Positions
  <1> QED
    BY <1>2, <1>4, <1>5, <1>7 DEF Inv

-----------------------------------------------------------------------------
(* The client's calls.                                                     *)

(* Resetting the root's scheme to the base scheme changes nothing.         *)
LEMMA RootReset ==
  ASSUME NEW t, IsCache(t)
  PROVE  [t EXCEPT ![Root].block = Base] = t
  <1>1. Root \in DOMAIN t /\ t[Root] \in NodesOf(Schemes, Syms) /\ t[Root].block = Base
    BY DEF IsCache, IsTree, Rooted
  <1>2. [t[Root] EXCEPT !.block = Base] = t[Root]
    BY <1>1 DEF NodesOf
  <1> QED
    BY <1>1, <1>2 DEF IsCache, IsTree

(* collectOpenLevels reads live nodes only.                                 *)
LEMMA OpenLevelsType ==
  ASSUME NEW t, IsCache(t), NEW p \in DOMAIN t
  PROVE  OpenLevels(t, p) \in Seq(OpenFieldTypes)
  <1>1. p \in Path /\ Len(p) \in Nat
    BY DEF IsCache, IsTree, Rooted, Path
  <1>2. \A k \in 1..Len(p) : SubSeq(p, 1, k) \in DOMAIN t
    BY <1>1 DEF IsCache, IsTree, Rooted
  <1>3. \A q \in DOMAIN t : t[q] \in NodesOf(Schemes, Syms)
    BY DEF IsCache, IsTree
  <1>4. \A k \in 1..Len(p) : Level(t[SubSeq(p, 1, k)]) \in OpenFieldTypes
    BY <1>2, <1>3 DEF Level, NodesOf, OpenFieldTypes, Syms
  <1> QED
    BY <1>1, <1>4 DEF OpenLevels

(* searchLine returns a live node and keeps the cache well-formed.          *)
LEMMA SearchedIsCache ==
  ASSUME NEW t, IsCache(t), NEW ln \in Nat
  PROVE  IsCache(Searched(t, ln)) /\ DOMAIN Searched(t, ln) = DOMAIN t
         /\ SearchLine(t, ln) \in DOMAIN t
  BY SearchedIsTree, SearchLineType DEF IsCache

(* The two results of searchLine are a place to go on from.                 *)
LEMMA SearchedAt ==
  ASSUME NEW t, IsCache(t), NEW p \in DOMAIN t, NEW ln \in Nat
  PROVE  At(Searched(t, ln), p, ForwardOf(t, p, ln))
  <1>1. At(t, p, ForwardOf(t, p, ln))
    BY ForwardIsAt DEF IsCache
  <1> QED
    BY <1>1, SearchedIsCache DEF At

(* A parse starts at a live node, with nothing pending.                     *)
LEMMA StartParseInv ==
  ASSUME Inv, phase = "idle", NEW t, IsCache(t), NEW from \in Nat, NEW num \in Nat,
         from + num <= LineCount, NEW m \in {"off", "read", "update"},
         StartParse(t, from, num, m)
  PROVE  RunTypes' /\ IsCache(cache)' /\ Place' /\ Positions' /\ OuterRestored'
         /\ Grafting' /\ Pending'
  <1>1. baseScheme = Base /\ frames = <<>>
    BY DEF Inv, Positions
  <1>2. [t EXCEPT ![Root].block = baseScheme] = t
    BY <1>1, RootReset
  <1>3. /\ phase' = "level" /\ mode' = m /\ cur' = from /\ endl' = from + num
        /\ gx' = 0 /\ clear' = NoLine /\ filled' = FALSE /\ breaking' = FALSE
        /\ handler' = <<Base>>
        /\ UNCHANGED <<endLine, matchend, found, trace, baseScheme, frames>>
        /\ cache' = IF m = "off" THEN t ELSE Searched(t, from)
        /\ parent' = IF m = "off" THEN Root ELSE SearchLine(t, from)
        /\ forward' = IF m = "off" THEN 0 ELSE ForwardOf(t, parent', from)
    BY <1>2 DEF StartParse, matching
  <1>4. RunTypes'
    <2>1. endl' \in 0..LineCount
      BY <1>3, TextAssumption DEF TextAssumption
    <2>2. handler' \in Seq(Schemes)
      BY <1>3 DEF Schemes
    <2> QED
      BY <1>3, <2>1, <2>2 DEF Inv, RunTypes
  <1>5. IsCache(cache') /\ parent' \in DOMAIN cache' /\ At(cache', parent', forward')
    <2>1. CASE m = "off"
      BY <1>3, <2>1 DEF IsCache, IsTree, Rooted, At
    <2>2. CASE m # "off"
      BY <1>3, <2>2, SearchedIsCache, SearchedAt
    <2> QED
      BY <2>1, <2>2
  <1>6. Place' /\ Grafting' /\ OuterRestored'
    BY <1>3, <1>5 DEF Place, Grafting, OuterRestored, At
  <1>7. Positions' /\ Pending'
    <2>1. Len(frames') = 0 /\ Len(parent') \in Nat
      BY <1>1, <1>3, <1>5, EmptySeq DEF IsCache, IsTree, Rooted, Path
    <2> QED
      BY <1>1, <1>3, <2>1 DEF Positions, Pending
  <1> QED
    BY <1>4, <1>5, <1>6, <1>7

(* Parse keeps the invariant.                                               *)
LEMMA ParseInv ==
  ASSUME Inv, NEW from \in 0..LineCount, NEW num \in 0..LineCount, NEW m \in Modes,
         Parse(from, num, m)
  PROVE  Inv'
  <1>1. /\ phase = "idle" /\ from + num <= LineCount
        /\ UNCHANGED <<env, invalidLine, try>> /\ first' = from
        /\ valid' = (IF m = "update" /\ from <= valid THEN from ELSE valid)
        /\ StartParse(cache, from, num, m)
    BY DEF Parse, StartParse
  <1>2. from \in Nat /\ num \in Nat /\ m \in {"off", "read", "update"} /\ IsCache(cache)
    BY TextAssumption DEF TextAssumption, Inv
  <1>3. /\ RunTypes' /\ IsCache(cache)' /\ Place' /\ Positions' /\ OuterRestored'
        /\ Grafting' /\ Pending'
    BY <1>1, <1>2, StartParseInv
  <1>4. ClientTypes'
    BY <1>1 DEF Inv, ClientTypes, env, client
  <1> QED
    BY <1>3, <1>4 DEF Inv

(* TryParseLine keeps the invariant.                                        *)
LEMMA TryParseLineInv ==
  ASSUME Inv, NEW l \in LineNos, NEW line \in Lines, TryParseLine(l, line)
  PROVE  Inv'
  <1> DEFINE after == SearchLine(cache, l + 1)
             once == Searched(cache, l + 1)
             before == SearchLine(once, l)
  <1>1. /\ phase = "idle" /\ text' = [text EXCEPT ![l] = line]
        /\ try' = [on |-> TRUE, mismatch |-> FALSE, stack |-> OpenLevels(once, before),
                   expected |-> OpenLevels(cache, after), result |-> "none",
                   sure |-> l < valid]
        /\ StartParse(Searched(once, l), l, 1, "read")
        /\ UNCHANGED <<missing, invalidLine, valid>> /\ first' = l
    BY DEF TryParseLine, StartParse
  <1>2. l \in Nat /\ l + 1 \in Nat /\ l + 1 <= LineCount
    BY TextAssumption DEF TextAssumption, LineNos
  <1>3. IsCache(cache) /\ IsCache(once) /\ IsCache(Searched(once, l))
    BY <1>2, SearchedIsCache DEF Inv
  <1>4. after \in DOMAIN cache /\ before \in DOMAIN once
    BY <1>2, <1>3, SearchedIsCache
  <1>5. /\ RunTypes' /\ IsCache(cache)' /\ Place' /\ Positions' /\ OuterRestored'
        /\ Grafting' /\ Pending'
    BY <1>1, <1>2, <1>3, StartParseInv
  <1>6. /\ OpenLevels(once, before) \in Seq(OpenFieldTypes)
        /\ OpenLevels(cache, after) \in Seq(OpenFieldTypes)
    BY <1>3, <1>4, OpenLevelsType
  <1> HIDE DEF after, once, before
  <1>7. ClientTypes'
    <2>1. (l < valid) \in BOOLEAN /\ first' \in 0..LineCount
      BY <1>1, <1>2, TextAssumption DEF TextAssumption
    <2>2. try' \in [on : BOOLEAN, mismatch : BOOLEAN, stack : Seq(OpenFieldTypes),
                    expected : Seq(OpenFieldTypes), result : {"none", "kept", "lost"},
                    sure : BOOLEAN]
      BY <1>1, <1>6, <2>1
    <2> QED
      BY <1>1, <2>1, <2>2 DEF Inv, ClientTypes
  <1> QED
    BY <1>5, <1>7 DEF Inv

(* SetFileType keeps the invariant: parent is the root when it frees the    *)
(* tree.                                                                    *)
LEMMA SetFileTypeInv == ASSUME Inv, SetFileType PROVE Inv'
  <1> USE DEF SetFileType, ClearCache
  <1>1. frames = <<>> /\ parent = Root
    BY DEF Inv, Positions
  <1>2. IsCache(cache)' /\ Place'
    BY <1>1, EmptyIsCache DEF EmptyCache, Inv, Place
  <1>3. ClientTypes'
    BY NoTryType, TextAssumption DEF Inv, ClientTypes, env, client, TextAssumption
  <1>4. RunTypes' /\ Positions'
    BY DEF Inv, RunTypes, Positions, where, Schemes
  <1>5. OuterRestored' /\ Grafting' /\ Pending'
    BY <1>1, EmptySeq DEF Inv, OuterRestored, Grafting, Pending, where
  <1> QED
    BY <1>2, <1>3, <1>4, <1>5 DEF Inv

(* Edit keeps the invariant.                                                *)
LEMMA EditInv ==
  ASSUME Inv, NEW l \in LineNos, NEW line \in Lines, NEW gone \in Unavailable,
         Edit(l, line, gone)
  PROVE  Inv'
  <1> USE DEF Edit
  <1>1. IsCache(cache)' /\ Place' /\ OuterRestored' /\ Grafting' /\ Pending'
    BY SameTree DEF matching
  <1>2. ClientTypes'
    BY NoTryType, TextAssumption DEF Inv, ClientTypes, LineNos, TextAssumption
  <1>3. /\ UNCHANGED <<phase, mode, cur, endl, gx, clear, endLine, parent, matchend>>
        /\ UNCHANGED <<found, trace, baseScheme, frames, filled, breaking, handler>>
    BY DEF where, matching, tree
  <1> HIDE DEF Edit
  <1>4. RunTypes'
    BY <1>3 DEF Inv, RunTypes
  <1>5. Positions'
    BY <1>3 DEF Inv, Positions
  <1> QED
    BY <1>1, <1>2, <1>4, <1>5 DEF Inv

-----------------------------------------------------------------------------
(* The cached levels are known by the beginnings of parent.                *)
LEMMA CachedLevels ==
  ASSUME Inv
  PROVE  /\ Depth \in 0..Len(parent) /\ Len(parent) \in Nat /\ parent \in Path
         /\ \A k \in 0..Len(parent) : SubSeq(parent, 1, k) \in DOMAIN cache
         /\ Len(frames) \in Nat /\ Len(handler) \in Nat
         /\ mode = "update" => Len(parent) = Depth + Len(frames)
  <1>1. parent \in Path /\ Len(parent) \in Nat
    BY DEF Inv, IsCache, IsTree, Rooted, Place, Path
  <1>2. \A k \in 0..Len(parent) : SubSeq(parent, 1, k) \in DOMAIN cache
    BY DEF Inv, IsCache, IsTree, Rooted, Place
  <1>3. Len(frames) \in Nat /\ Len(handler) \in Nat
    BY DEF Inv, RunTypes
  <1>4. mode = "update" => Len(frames) <= Len(parent)
    BY DEF Inv, Pending
  <1>5. Depth \in 0..Len(parent) /\ (mode = "update" => Len(parent) = Depth + Len(frames))
    BY <1>1, <1>3, <1>4 DEF Depth
  <1> QED
    BY <1>1, <1>2, <1>3, <1>5

(* The first n nodes on the way to parent are where they were.              *)
KeepsPath(n) ==
  \A k \in 0..n : /\ SubSeq(parent', 1, k) = SubSeq(parent, 1, k)
                  /\ Keeps(cache, cache', SubSeq(parent, 1, k))

(* Deleting children keeps the other nodes.                                *)
LEMMA DroppedKeeps ==
  ASSUME NEW t, IsCache(t), NEW p \in DOMAIN t, NEW k \in Nat,
         NEW u, u = DropKidsAfter(t, p, k)
  PROVE  \A q \in DOMAIN u : Keeps(t, u, q)
  <1>1. \A q \in DOMAIN t : t[q] \in NodesOf(Schemes, Syms)
    BY DEF IsCache, IsTree
  <1> QED
    BY <1>1 DEF DropKidsAfter, NodesOf, Keeps

(* Ending a block keeps the others.                                        *)
LEMMA EndedKeeps ==
  ASSUME NEW t, IsCache(t), NEW p \in DOMAIN t, NEW n \in Nat,
         NEW u, u = [t EXCEPT ![p].eline = n]
  PROVE  /\ DOMAIN u = DOMAIN t
         /\ \A q \in DOMAIN t \ {p} : Keeps(t, u, q)
         /\ u[p].sline = t[p].sline /\ u[p].eline = n /\ u[p].block = t[p].block
         /\ u[p].sym = t[p].sym /\ u[p].pos = t[p].pos
  <1>1. \A q \in DOMAIN t : t[q] \in NodesOf(Schemes, Syms)
    BY DEF IsCache, IsTree
  <1> QED
    BY <1>1 DEF NodesOf, Keeps

(* A new node behind the last child of parent keeps them all.               *)
LEMMA LinkedKeeps ==
  ASSUME NEW t, IsCache(t), NEW p \in DOMAIN t, NEW k \in Nat, KidsAfter(t, p, k) = {},
         NEW node, NEW u, u = Link(t, p, k, node)
  PROVE  /\ Append(p, k + 1) \notin DOMAIN t
         /\ DOMAIN u = DOMAIN t \cup {Append(p, k + 1)}
         /\ u[Append(p, k + 1)] = node
         /\ \A q \in DOMAIN t : u[q] = t[q] /\ Keeps(t, u, q)
  <1> DEFINE new == Append(p, k + 1)
  <1>1. p \in Path /\ Len(p) \in Nat
    BY DEF IsCache, IsTree, Rooted, Path
  <1>2. Len(new) = Len(p) + 1 /\ new[Len(p) + 1] = k + 1
    BY <1>1, AppendProperties DEF Path
  <1>3. SubSeq(new, 1, Len(p)) = p
    BY <1>1, BeginningOfAppend, Beginning
  <1>4. new \notin DOMAIN t
    <2> HIDE DEF new
    <2> QED
      BY <1>1, <1>2, <1>3 DEF KidsAfter
  <1> QED
    BY <1>4 DEF Link, Keeps

(* searchBL adds a node below the ones parent is reached by.                *)
LEMMA EnterBlockPath == ASSUME Inv, EnterBlock PROVE KeepsPath(Len(parent)) /\ Depth' = Depth
  <1>1. /\ Depth \in 0..Len(parent) /\ Len(parent) \in Nat /\ parent \in Path
        /\ \A k \in 0..Len(parent) : SubSeq(parent, 1, k) \in DOMAIN cache
    BY CachedLevels
  <1>2. CASE mode = "update"
    <2> DEFINE node == NewNode(Hit, text[cur][gx + 1], gx, cur)
    <2>1. /\ cache' = Link(cache, parent, forward, node)
          /\ parent' = Append(parent, forward + 1) /\ phase = "scan" /\ mode' = mode
          /\ \E f : frames' = Append(frames, f) /\ f \in FrameTypes
      BY <1>2, EnterBlockTypes DEF EnterBlock, Scanning
    <2> HIDE DEF node
    <2>2. /\ IsCache(cache) /\ parent \in DOMAIN cache /\ forward \in Nat
          /\ KidsAfter(cache, parent, forward) = {}
      BY <1>2, <2>1 DEF Inv, Place, Grafting
    <2>3. \A q \in DOMAIN cache : Keeps(cache, cache', q)
      BY <2>1, <2>2, LinkedKeeps
    <2>4. \A k \in 0..Len(parent) : SubSeq(parent', 1, k) = SubSeq(parent, 1, k)
      BY <1>1, <2>1, <2>2, BeginningOfAppend
    <2>5. Len(parent') = Len(parent) + 1 /\ Len(frames') = Len(frames) + 1
          /\ Len(frames) \in Nat
      BY <1>1, <2>1, <2>2, AppendProperties, LenProperties DEF Path, Inv, RunTypes
    <2>6. Depth' = Depth
      <3>1. Depth = Len(parent) - Len(frames) /\ Depth' = Len(parent') - Len(frames')
        BY <1>2, <2>1 DEF Depth
      <3> QED
        BY <1>1, <2>5, <3>1
    <2> QED
      BY <1>1, <2>3, <2>4, <2>6 DEF KeepsPath
  <1>3. CASE mode # "update"
    <2>1. UNCHANGED <<cache, parent, mode>>
      BY <1>3 DEF EnterBlock, tree
    <2> QED
      BY <1>1, <1>3, <2>1 DEF KeepsPath, Keeps, Depth
  <1> QED
    BY <1>2, <1>3

(* It ends or deletes that node again.                                     *)
LEMMA LeaveBlockPath ==
  ASSUME Inv, LeaveBlock
  PROVE  /\ Depth' = Depth
         /\ mode = "update" => Len(parent) - 1 \in Nat /\ KeepsPath(Len(parent) - 1)
         /\ mode # "update" => UNCHANGED <<cache, parent>>
         /\ Depth < Len(parent) \/ mode # "update"
  <1>1. /\ Depth \in 0..Len(parent) /\ Len(parent) \in Nat /\ parent \in Path
        /\ \A k \in 0..Len(parent) : SubSeq(parent, 1, k) \in DOMAIN cache
        /\ mode = "update" => Len(parent) = Depth + Len(frames)
    BY CachedLevels
  <1>2. CASE mode = "update"
    <2> DEFINE f == Last(frames)
    <2>1. /\ cache' = Settle(cache, parent, f.forward, f.line)
          /\ parent' = Front(parent) /\ mode' = mode
      BY <1>2 DEF LeaveBlock
    <2>2. f.forward \in Nat /\ f.line \in Nat /\ Len(frames) \in Nat \ {0}
          /\ Len(frames') = Len(frames) - 1
      BY Innermost DEF FrameTypes
    <2> HIDE DEF f
    <2>3. /\ IsCache(cache) /\ parent \in DOMAIN cache /\ parent # Root /\ cur \in Nat
      BY <1>1, <1>2, <2>2, EmptySeq DEF Inv, Place, RunTypes, Root
    <2>4. /\ Front(parent) \in DOMAIN cache /\ Len(Front(parent)) = Len(parent) - 1
          /\ Front(parent) = SubSeq(parent, 1, Len(parent) - 1)
      BY <2>3, ParentOf, AppendOfFront DEF Front
    <2>5. Depth' = Depth /\ Len(parent) - 1 \in Nat /\ Depth < Len(parent)
      BY <1>1, <1>2, <2>1, <2>2, <2>4 DEF Depth
    <2>6. ASSUME NEW k \in 0..Len(parent) - 1
          PROVE  /\ SubSeq(parent', 1, k) = SubSeq(parent, 1, k)
                 /\ Keeps(cache, cache', SubSeq(parent, 1, k))
      <3>1. SubSeq(parent', 1, k) = SubSeq(parent, 1, k) /\ k \in 0..Len(parent)
        BY <1>1, <2>1, <2>4, <2>5, BeginningOfBeginning
      <3>2. CASE f.line = cur
        <4>1. cache' = DropKidsAfter(cache, Front(parent), f.forward)
          BY <2>1, <3>2 DEF Settle
        <4>2. IsCache(cache') /\ Front(parent) \in DOMAIN cache'
          <5>1. PICK p \in DOMAIN cache, n \in Nat : p = Front(parent) /\ n = f.forward
            BY <2>2, <2>4
          <5>2. cache' = DropKidsAfter(cache, p, n)
            BY <4>1, <5>1
          <5> QED
            BY <2>3, <5>1, <5>2, DroppedIsCache
        <4>3. SubSeq(Front(parent), 1, k) \in DOMAIN cache'
          BY <2>4, <2>5, <4>2 DEF IsCache, IsTree, Rooted
        <4>4. Keeps(cache, cache', SubSeq(Front(parent), 1, k))
          BY <2>2, <2>3, <2>4, <4>1, <4>3, DroppedKeeps
        <4> QED
          BY <2>1, <3>1, <4>4
      <3>3. CASE f.line # cur
        <4>1. cache' = [cache EXCEPT ![parent].eline = cur]
          BY <2>1, <3>3 DEF Settle
        <4>2. Len(SubSeq(parent, 1, k)) = k
          BY <1>1, <3>1, Beginning
        <4>3. SubSeq(parent, 1, k) # parent /\ SubSeq(parent, 1, k) \in DOMAIN cache
          BY <1>1, <3>1, <4>2
        <4>4. \A q \in DOMAIN cache \ {parent} : Keeps(cache, cache', q)
          <5>1. PICK p \in DOMAIN cache, n \in Nat : p = parent /\ n = cur
            BY <2>3
          <5>2. cache' = [cache EXCEPT ![p].eline = n]
            BY <4>1, <5>1
          <5>3. \A q \in DOMAIN cache \ {p} : Keeps(cache, cache', q)
            BY <2>3, <5>2, EndedKeeps
          <5> QED
            BY <5>1, <5>3
        <4> QED
          BY <3>1, <4>3, <4>4
      <3> QED
        BY <3>2, <3>3
    <2> QED
      BY <1>2, <2>5, <2>6 DEF KeepsPath
  <1>3. CASE mode # "update"
    <2>1. UNCHANGED <<cache, parent, mode>>
      BY <1>3 DEF LeaveBlock, tree
    <2> QED
      BY <1>3, <2>1 DEF Depth
  <1> QED
    BY <1>2, <1>3

(* Deleting what is stale keeps what parent is reached by.                  *)
LEMMA StartLevelPath ==
  ASSUME Inv, StartLevel
  PROVE  /\ KeepsPath(Len(parent)) /\ Depth = Len(parent) /\ Depth' = Depth
         /\ frames = <<>> /\ Len(frames) = 0
         /\ mode = "update" => cache' = DropKidsAfter(cache, parent, forward)
         /\ mode # "update" => cache' = cache
  <1>1. /\ phase = "level" /\ phase' = "line" /\ frames = <<>>
        /\ UNCHANGED <<parent, mode, frames>>
        /\ cache' = IF mode = "update" THEN DropStale(cache, parent, forward) ELSE cache
    BY DEF StartLevel, where, Inv, Positions
  <1>2. /\ Depth \in 0..Len(parent) /\ Len(parent) \in Nat /\ parent \in Path
        /\ \A k \in 0..Len(parent) : SubSeq(parent, 1, k) \in DOMAIN cache
    BY CachedLevels
  <1>3. IsCache(cache) /\ parent \in DOMAIN cache /\ forward \in Nat
    BY DEF Inv, Place
  <1>4. mode = "update" => cache' = DropKidsAfter(cache, parent, forward)
    BY <1>1, <1>2, <1>3, FrontOfAppend DEF DropStale, DropChildren, DropNext
  <1>5. KeepsPath(Len(parent))
    <2>1. CASE mode = "update"
      <3>1. IsCache(cache') /\ parent \in DOMAIN cache'
        BY <1>3, <1>4, <2>1, DroppedIsCache
      <3>2. \A q \in DOMAIN cache' : Keeps(cache, cache', q)
        BY <1>3, <1>4, <2>1, DroppedKeeps
      <3>3. \A k \in 0..Len(parent) : SubSeq(parent, 1, k) \in DOMAIN cache'
        BY <3>1 DEF IsCache, IsTree, Rooted
      <3> QED
        BY <1>1, <3>2, <3>3 DEF KeepsPath
    <2>2. CASE mode # "update"
      BY <1>1, <1>2, <2>2 DEF KeepsPath, Keeps
    <2> QED
      BY <2>1, <2>2
  <1>6. Len(frames) = 0
    BY <1>1, EmptySeq
  <1>7. Depth = Len(parent) /\ Depth' = Depth
    BY <1>1, <1>2, <1>6 DEF Depth
  <1> QED
    BY <1>1, <1>4, <1>5, <1>6, <1>7

-----------------------------------------------------------------------------
(* The invariant holds in every reachable state.                           *)
LEMMA NextInv == Inv /\ [Next]_vars => Inv'
  <1> SUFFICES ASSUME Inv, [Next]_vars PROVE Inv'
    OBVIOUS
  <1>1. CASE Step
    BY <1>1, StartLevelInv, LinesExhaustedInv, LineMissingInv, LineBeginInv,
       ScanNothingInv, ScanRegexpInv, EnterBlockInv, EndOfBlockInv, NextLineInv,
       LeaveBlockInv, LeaveLevelInv, FinishInv DEF Step
  <1>2. CASE Client
    BY <1>2, ParseInv, SetFileTypeInv, EditInv, TryParseLineInv, BreakParseInv
       DEF Client
  <1>3. CASE UNCHANGED vars
    <2>1. IsCache(cache)' /\ Place' /\ OuterRestored' /\ Grafting' /\ Pending'
      BY <1>3, SameTree DEF vars, matching
    <2>2. /\ UNCHANGED <<text, missing, client, try, phase, mode, cur, endl, gx, clear>>
          /\ UNCHANGED <<endLine, parent, matchend, found, trace, baseScheme, frames>>
          /\ UNCHANGED <<filled, breaking, handler>>
      BY <1>3 DEF vars, env, client, where, matching, tree
    <2>3. ClientTypes'
      BY <2>2 DEF Inv, ClientTypes, client
    <2>4. RunTypes'
      BY <2>2 DEF Inv, RunTypes
    <2>5. Positions'
      BY <2>2 DEF Inv, Positions
    <2> QED
      BY <2>1, <2>3, <2>4, <2>5 DEF Inv
  <1> QED
    BY <1>1, <1>2, <1>3 DEF Next

(* Inv is an invariant of the parser.                                      *)
THEOREM Invariance == Spec => []Inv
  BY InitInv, NextInv, PTL DEF Spec

(* Every variable keeps its type; the tree stays closed under parents, and *)
(* parent points at a live node of it (the deletions of searchBL and       *)
(* parse() never free the block they are in).                              *)
THEOREM TypeCorrect == Spec => []TypeOK
  <1>1. Inv => TypeOK
    BY TypesOfCache DEF Inv, TypeOK
  <1> QED
    BY <1>1, Invariance, PTL

(* search_child of a node is always null or one of its live children, so   *)
(* searchLine never follows a pointer to a deleted node.                   *)
THEOREM CursorsStayLive == Spec => []CursorLive
  <1>1. Inv => CursorLive
    BY DEF Inv, IsCache, IsTree, CursorsLive, CursorLive
  <1> QED
    BY <1>1, Invariance, PTL

(* Whenever update mode may hang a new node behind forward, nothing hangs  *)
(* there that the code would lose.                                         *)
THEOREM NothingIsLeaked == Spec => []NothingLeaked
  <1>1. Inv => NothingLeaked
    BY DEF Inv, Grafting, NothingLeaked
  <1> QED
    BY <1>1, Invariance, PTL

-----------------------------------------------------------------------------
(* Children start within their parent, which is the whole text at last.     *)
Within(t) ==
  /\ t[Root].sline = 0
  /\ \A p \in DOMAIN t : \A k \in Nat \ {0} :
       Append(p, k) \in DOMAIN t => t[p].sline <= t[Append(p, k)].sline

(* Siblings do not overlap, but for the f-th child of p when open is set.  *)
Apart(t, p, f, open) ==
  \A q \in DOMAIN t : \A j, k \in Nat \ {0} :
    j < k /\ Append(q, k) \in DOMAIN t
      => \/ t[Append(q, j)].eline < t[Append(q, k)].sline
         \/ open /\ q = p /\ j = f

Updating == mode = "update" /\ phase # "idle"

(* The children of p behind the k-th start after line v.                    *)
Behind(t, p, k, v) ==
  \A c \in Nat \ {0} :
    c > k /\ Append(p, c) \in DOMAIN t => t[Append(p, c)].sline > v

(* The d levels that are still to be resumed are around line v, and their  *)
(* later siblings behind it.                                                *)
Surrounds(t, p, d, v) ==
  \A j \in 1..d : /\ Covers(t, SubSeq(p, 1, j), v)
                  /\ Behind(t, SubSeq(p, 1, j - 1), p[j], v)

(* What new nodes are hung behind was over by line c.                      *)
Over(t, p, f, c) ==
  f # 0 => t[Append(p, f)].sline <= c /\ t[Append(p, f)].eline <= c

LevelOf(f) == [block |-> f.block, sym |-> f.sym, pos |-> f.pos]

(* The pending blocks below the d-th level have the nodes searchBL made    *)
(* for them, on lines up to c.                                              *)
Begun(t, p, d, fs, c) ==
  \A i \in 1..Len(fs) :
    /\ fs[i].line <= c
    /\ t[SubSeq(p, 1, d + i)].sline = fs[i].line + 1
    /\ Level(t[SubSeq(p, 1, d + i)]) = LevelOf(fs[i])

Around ==
  /\ first <= cur
  /\ Surrounds(cache, parent, Depth, first)
  /\ Over(cache, parent, forward, cur)
  /\ phase = "level" => Behind(cache, parent, forward, first)
  /\ Begun(cache, parent, Depth, frames, cur)

OrderInv ==
  /\ InOrder(cache) /\ Within(cache)
  /\ Apart(cache, parent, forward, Updating /\ phase = "level")
  /\ Updating => Around

-----------------------------------------------------------------------------
(* With a child its older siblings are live.                                *)
LEMMA OlderSibling ==
  ASSUME NEW t, IsCache(t), NEW p \in DOMAIN t, NEW j \in Nat \ {0}, NEW k \in Nat \ {0},
         j < k, Append(p, k) \in DOMAIN t
  PROVE  Append(p, j) \in DOMAIN t
  <1>1. PICK n \in Nat : HasKids(t, p, n)
    BY DEF IsCache, IsTree, Numbered
  <1> QED
    BY <1>1 DEF HasKids

(* Lines and sequence numbers of nodes are numbers.                        *)
LEMMA NodeLines ==
  ASSUME NEW t, IsCache(t), NEW p \in DOMAIN t
  PROVE  t[p].sline \in Nat /\ t[p].eline \in Nat
  BY DEF IsCache, IsTree, NodesOf

(* Where no children are left behind the k-th, none is.                    *)
LEMMA NoKid ==
  ASSUME NEW u, NEW p \in Path, NEW k, KidsAfter(u, p, k) = {}, NEW j \in Nat \ {0}, j > k
  PROVE  Append(p, j) \notin DOMAIN u
  <1> DEFINE a == Append(p, j)
  <1>1. Len(p) \in Nat /\ Len(a) = Len(p) + 1 /\ a[Len(p) + 1] = j
    BY AppendProperties DEF Path
  <1>2. SubSeq(a, 1, Len(p)) = p
    BY <1>1, BeginningOfAppend, Beginning
  <1> HIDE DEF a
  <1>3. a \notin DOMAIN u
    BY <1>1, <1>2 DEF KidsAfter
  <1> QED
    BY <1>3 DEF a

(* Deleting children of p keeps the order, and ends the exception made for *)
(* the last that stays.                                                    *)
LEMMA DroppedOrder ==
  ASSUME NEW t, IsCache(t), InOrder(t), Within(t), NEW p \in DOMAIN t, NEW k \in Nat,
         NEW open \in BOOLEAN, Apart(t, p, k, open), NEW u, u = DropKidsAfter(t, p, k)
  PROVE  InOrder(u) /\ Within(u) /\ Apart(u, p, k, FALSE)
  <1>1. /\ IsCache(u) /\ DOMAIN u \subseteq DOMAIN t /\ p \in DOMAIN u
        /\ KidsAfter(u, p, k) = {}
    BY DroppedIsCache
  <1>2. \A q \in DOMAIN u : Keeps(t, u, q)
    BY DroppedKeeps
  <1>3. \A q \in DOMAIN u : \A i, j \in Nat \ {0} :
          i < j /\ Append(q, j) \in DOMAIN u => Append(q, i) \in DOMAIN u
    BY <1>1, OlderSibling
  <1>4. \A j \in Nat \ {0} : j > k => Append(p, j) \notin DOMAIN u
    BY <1>1, NoKid DEF IsCache, IsTree, Rooted
  <1>5. InOrder(u)
    BY <1>1, <1>2, <1>3 DEF InOrder, Keeps
  <1>6. Within(u)
    BY <1>1, <1>2 DEF Within, Keeps, IsCache, IsTree, Rooted
  <1>7. Apart(u, p, k, FALSE)
    <2> SUFFICES ASSUME NEW q \in DOMAIN u, NEW i \in Nat \ {0}, NEW j \in Nat \ {0},
                        i < j, Append(q, j) \in DOMAIN u
                 PROVE  u[Append(q, i)].eline < u[Append(q, j)].sline
      BY DEF Apart
    <2>1. Append(q, i) \in DOMAIN u /\ q \in DOMAIN t /\ Append(q, j) \in DOMAIN t
      BY <1>1, <1>3
    <2>2. ~ (q = p /\ i = k)
      BY <1>4
    <2>3. t[Append(q, i)].eline < t[Append(q, j)].sline
      BY <2>1, <2>2 DEF Apart
    <2> QED
      BY <1>2, <2>1, <2>3 DEF Keeps
  <1> QED
    BY <1>5, <1>6, <1>7

(* Hanging a node that starts later than the last child ended keeps it.     *)
LEMMA LinkedOrder ==
  ASSUME NEW t, IsCache(t), InOrder(t), Within(t), NEW p \in DOMAIN t, NEW k \in Nat, At(t, p, k),
         KidsAfter(t, p, k) = {}, Apart(t, p, k, FALSE),
         NEW node \in NodesOf(Schemes, Syms), node.cursor = 0, t[p].sline <= node.sline,
         k # 0 => /\ t[Append(p, k)].sline < node.sline
                  /\ t[Append(p, k)].eline < node.sline,
         NEW u, u = Link(t, p, k, node)
  PROVE  InOrder(u) /\ Within(u) /\ Apart(u, p, k, FALSE)
  <1> DEFINE new == Append(p, k + 1)
  <1>1. k \in Nat /\ k + 1 \in Nat \ {0} /\ p \in Path
    BY DEF At, IsCache, IsTree, Rooted
  <1>2. /\ new \notin DOMAIN t /\ DOMAIN u = DOMAIN t \cup {new} /\ u[new] = node
        /\ \A q \in DOMAIN t : u[q] = t[q]
    <2>1. new \notin DOMAIN t
      BY <1>1, NoKid
    <2> HIDE DEF new
    <2>2. u = [q \in DOMAIN t \cup {new} |-> IF q = new THEN node ELSE t[q]]
      BY DEF Link, new
    <2> QED
      BY <2>1, <2>2
  <1>3. IsTree(u, Schemes, Syms) /\ GraftedAt(u, t, p, new, k, node)
    BY LinkIsTree DEF Grafted, IsCache
  <1>4. \A q \in DOMAIN t : q \in Path
    BY DEF IsCache, IsTree, Rooted
  <1>5. \A q \in Path, j \in Nat \ {0} : Append(q, j) = new <=> q = p /\ j = k + 1
    BY <1>1, AppendInjective DEF Path
  <1>6. \A j \in Nat \ {0} : Append(new, j) \notin DOMAIN u
    <2>1. new \in Path /\ KidsAfter(u, new, 0) = {}
      BY <1>1, <1>3, FrontOfAppend DEF GraftedAt
    <2> HIDE DEF new
    <2> QED
      BY <2>1, NoKid
  <1> HIDE DEF new
  <1>7. ASSUME NEW q \in DOMAIN u, NEW i \in Nat \ {0}, NEW j \in Nat \ {0},
               i < j, Append(q, j) \in DOMAIN u
        PROVE  /\ u[Append(q, i)].sline < u[Append(q, j)].sline
               /\ u[Append(q, i)].eline < u[Append(q, j)].sline
    <2>1. q \in DOMAIN t /\ q \in Path
      BY <1>2, <1>4, <1>6, <1>7
    <2>2. CASE Append(q, j) \in DOMAIN t
      <3>1. Append(q, i) \in DOMAIN t
        BY <1>7, <2>1, <2>2, OlderSibling
      <3>2. /\ t[Append(q, i)].sline < t[Append(q, j)].sline
            /\ t[Append(q, i)].eline < t[Append(q, j)].sline
        BY <1>7, <2>1, <2>2 DEF InOrder, Apart
      <3> QED
        BY <1>2, <2>2, <3>1, <3>2
    <2>3. CASE Append(q, j) = new
      <3>1. q = p /\ j = k + 1 /\ i <= k /\ k # 0
        BY <1>1, <1>5, <1>7, <2>1, <2>3
      <3>2. Append(p, k) \in DOMAIN t /\ k \in Nat \ {0}
        BY <1>1, <3>1 DEF At
      <3>3. Append(p, i) \in DOMAIN t
        <4>1. i = k \/ i < k
          BY <1>1, <3>1
        <4> QED
          BY <3>2, <4>1, OlderSibling
      <3>4. t[Append(p, i)].sline < node.sline /\ t[Append(p, i)].eline < node.sline
        <4>1. CASE i = k
          BY <3>1, <4>1
        <4>2. CASE i < k
          <5>1. /\ t[Append(p, i)].sline < t[Append(p, k)].sline
                /\ t[Append(p, i)].eline < t[Append(p, k)].sline
            BY <3>2, <4>2 DEF InOrder, Apart
          <5>2. /\ t[Append(p, i)].sline \in Nat /\ t[Append(p, i)].eline \in Nat
                /\ t[Append(p, k)].sline \in Nat /\ node.sline \in Nat
            BY <3>2, <3>3, NodeLines DEF NodesOf
          <5> QED
            BY <3>1, <5>1, <5>2
        <4> QED
          BY <1>1, <3>1, <4>1, <4>2
      <3> QED
        BY <1>2, <2>3, <3>1, <3>3, <3>4
    <2> QED
      BY <1>2, <1>7, <2>2, <2>3
  <1>8. ASSUME NEW q \in DOMAIN u, NEW j \in Nat \ {0}, Append(q, j) \in DOMAIN u
        PROVE  u[q].sline <= u[Append(q, j)].sline
    <2>1. q \in DOMAIN t /\ q \in Path
      BY <1>2, <1>4, <1>6, <1>8
    <2>2. CASE Append(q, j) \in DOMAIN t
      BY <1>2, <2>1, <2>2 DEF Within
    <2>3. CASE Append(q, j) = new
      BY <1>2, <1>5, <2>1, <2>3
    <2> QED
      BY <1>2, <1>8, <2>2, <2>3
  <1>9. u[Root].sline = 0
    BY <1>2 DEF Within, IsCache, IsTree, Rooted
  <1> QED
    BY <1>7, <1>8, <1>9 DEF InOrder, Within, Apart

(* Ending a node keeps it, but for what hangs behind the node.              *)
LEMMA EndedOrder ==
  ASSUME NEW t, IsCache(t), InOrder(t), Within(t), NEW p \in DOMAIN t, p # Root,
         NEW q, NEW k, Apart(t, q, k, FALSE), NEW n \in Nat,
         NEW u, u = [t EXCEPT ![p].eline = n]
  PROVE  InOrder(u) /\ Within(u) /\ Apart(u, Front(p), Last(p), TRUE)
  <1>1. /\ DOMAIN u = DOMAIN t
        /\ \A r \in DOMAIN t : u[r].sline = t[r].sline
        /\ \A r \in DOMAIN t : r # p => u[r].eline = t[r].eline
    BY EndedKeeps DEF Keeps
  <1>2. \A r \in DOMAIN t : \A i, j \in Nat \ {0} :
          i < j /\ Append(r, j) \in DOMAIN t => Append(r, i) \in DOMAIN t
    BY OlderSibling
  <1>3. \A r \in DOMAIN t : \A i \in Nat \ {0} :
          Append(r, i) = p => r = Front(p) /\ i = Last(p)
    <2>1. \A r \in DOMAIN t : r \in Path
      BY DEF IsCache, IsTree, Rooted
    <2> QED
      BY <2>1, FrontOfAppend
  <1>4. InOrder(u)
    BY <1>1, <1>2 DEF InOrder
  <1>6. Root \in DOMAIN t
    BY DEF IsCache, IsTree, Rooted
  <1>7. Within(u)
    BY <1>1, <1>6 DEF Within
  <1>5. Apart(u, Front(p), Last(p), TRUE)
    <2> SUFFICES ASSUME NEW r \in DOMAIN t, NEW i \in Nat \ {0}, NEW j \in Nat \ {0},
                        i < j, Append(r, j) \in DOMAIN t
                 PROVE  \/ u[Append(r, i)].eline < u[Append(r, j)].sline
                        \/ r = Front(p) /\ i = Last(p)
      BY <1>1 DEF Apart
    <2>1. Append(r, i) \in DOMAIN t
      BY <1>2
    <2>2. t[Append(r, i)].eline < t[Append(r, j)].sline
      BY DEF Apart
    <2> QED
      BY <1>1, <1>3, <2>1, <2>2
  <1> QED
    BY <1>4, <1>5, <1>7

(* Nothing hangs behind a node that awaits its end.                         *)
LEMMA ApartClosed ==
  ASSUME NEW t, IsCache(t), NEW p \in DOMAIN t, NEW k \in Nat, KidsAfter(t, p, k) = {},
         Apart(t, p, k, TRUE)
  PROVE  \A q, f : Apart(t, q, f, FALSE)
  <1>1. \A j \in Nat \ {0} : j > k => Append(p, j) \notin DOMAIN t
    BY NoKid DEF IsCache, IsTree, Rooted
  <1> QED
    BY <1>1 DEF Apart

(* Deeper nodes do not matter to the levels around a line.                 *)
LEMMA SurroundsKept ==
  ASSUME NEW t, IsCache(t), NEW u, IsCache(u), NEW p \in DOMAIN t, NEW r \in DOMAIN u,
         NEW d \in Nat, d <= Len(p), d <= Len(r), SubSeq(r, 1, d) = SubSeq(p, 1, d),
         \A q \in DOMAIN u : Len(q) <= d => Keeps(t, u, q),
         NEW v, Surrounds(t, p, d, v)
  PROVE  Surrounds(u, r, d, v)
  <1>1. /\ Rooted(t) /\ Rooted(u) /\ p \in Path /\ r \in Path
        /\ Len(p) \in Nat /\ Len(r) \in Nat /\ d \in 0..Len(p) /\ d \in 0..Len(r)
    BY DEF IsCache, IsTree, Rooted, Path
  <1> SUFFICES ASSUME NEW j \in 1..d
               PROVE  /\ Covers(u, SubSeq(r, 1, j), v)
                      /\ Behind(u, SubSeq(r, 1, j - 1), r[j], v)
    BY DEF Surrounds
  <1>2. /\ j \in 1..Len(p) /\ j \in 1..Len(r) /\ j \in 0..d /\ j - 1 \in 0..d
        /\ j <= d /\ (j - 1) + 1 <= d
    BY <1>1
  <1> DEFINE a == SubSeq(r, 1, j)
             b == SubSeq(r, 1, j - 1)
  <1>3. a = SubSeq(p, 1, j) /\ b = SubSeq(p, 1, j - 1)
    BY <1>1, <1>2, BeginningOfBeginning
  <1>4. r[j] = p[j]
    BY <1>1, <1>2, Beginning
  <1>5. /\ a \in DOMAIN u /\ Len(a) = j /\ b \in Path /\ Len(b) = j - 1
    BY <1>1, <1>2, PathStep, Beginning
  <1>6. Covers(t, a, v) /\ Behind(t, b, r[j], v)
    <2>1. Covers(t, SubSeq(p, 1, j), v) /\ Behind(t, SubSeq(p, 1, j - 1), p[j], v)
      BY DEF Surrounds
    <2> QED
      BY <1>3, <1>4, <2>1
  <1> HIDE DEF a, b
  <1>7. Covers(u, a, v)
    <2>1. a \in DOMAIN u /\ Len(a) <= d
      BY <1>2, <1>5
    <2>2. Keeps(t, u, a)
      BY <2>1
    <2> QED
      BY <1>6, <2>2 DEF Covers, Keeps
  <1>8. b \in Path /\ Len(b) + 1 <= d /\ Behind(t, b, r[j], v)
    BY <1>2, <1>5, <1>6
  <1>9. ASSUME NEW c \in Nat \ {0}, Append(b, c) \in DOMAIN u
        PROVE  Keeps(t, u, Append(b, c))
    <2>1. Len(Append(b, c)) <= d
      BY <1>8, FrontOfAppend
    <2> QED
      BY <1>9, <2>1
  <1>11. Behind(u, b, r[j], v)
    BY <1>8, <1>9 DEF Behind, Keeps
  <1> QED
    BY <1>7, <1>11 DEF a, b

(* A step within the line loop that leaves the tree alone.                 *)
LEMMA SameOrder ==
  ASSUME Inv, OrderInv, UNCHANGED <<cache, parent, forward, mode, frames, first>>,
         cur <= cur', cur' \in Nat, phase # "idle",
         (phase # "level" /\ phase' # "level") \/ phase' = phase
  PROVE  OrderInv'
  <1>1. Updating' => Updating
    BY DEF Updating
  <1>2. InOrder(cache)' /\ Within(cache)'
    BY DEF OrderInv
  <1>3. Apart(cache, parent, forward, Updating /\ phase = "level")'
    BY <1>1 DEF OrderInv, Apart, Updating
  <1>4. ASSUME Updating' PROVE Around'
    <2>1. Around /\ Depth' = Depth
      BY <1>1, <1>4 DEF OrderInv, Depth
    <2>2. first <= cur'
      BY <2>1 DEF Around, Inv, ClientTypes, RunTypes
    <2>3. Surrounds(cache, parent, Depth, first)'
      BY <2>1 DEF Around, Surrounds, Behind
    <2>4. Over(cache, parent, forward, cur)'
      <3>1. forward # 0 => Append(parent, forward) \in DOMAIN cache
        BY <1>1, <1>4 DEF Inv, Grafting, At, Updating
      <3> QED
        BY <2>1, <3>1, NodeLines DEF Around, Over, Inv, RunTypes
    <2>5. phase' = "level" => Behind(cache, parent, forward, first)'
      BY <2>1 DEF Around, Behind
    <2>6. Begun(cache, parent, Depth, frames, cur)'
      <3>1. \A i \in 1..Len(frames) : frames[i] \in FrameTypes
        BY ElementOfSeq DEF Inv, RunTypes
      <3>2. \A i \in 1..Len(frames) : frames[i].line \in Nat
        BY <3>1 DEF FrameTypes
      <3> QED
        BY <2>1, <3>2 DEF Around, Begun, Inv, RunTypes
    <2> QED
      BY <2>2, <2>3, <2>4, <2>5, <2>6 DEF Around
  <1> QED
    BY <1>2, <1>3, <1>4 DEF OrderInv

(* parse() deletes what it will read anew.                                 *)
LEMMA StartLevelOrder == ASSUME Inv, OrderInv, StartLevel PROVE OrderInv'
  <1>1. /\ phase = "level" /\ phase' = "line"
        /\ UNCHANGED <<parent, forward, mode, frames, first, cur>>
    BY DEF StartLevel, client, where
  <1>2. /\ KeepsPath(Len(parent)) /\ Depth = Len(parent) /\ Depth' = Depth /\ Len(frames) = 0
        /\ mode = "update" => cache' = DropKidsAfter(cache, parent, forward)
        /\ mode # "update" => cache' = cache
    BY StartLevelPath
  <1>3. /\ IsCache(cache) /\ parent \in DOMAIN cache /\ forward \in Nat
        /\ parent \in Path /\ Len(parent) \in Nat
    BY CachedLevels DEF Inv, Place
  <1>4. CASE mode = "update"
    <2>1. /\ InOrder(cache) /\ Within(cache) /\ Around
          /\ Apart(cache, parent, forward, TRUE) /\ At(cache, parent, forward)
      BY <1>1, <1>4 DEF OrderInv, Updating, Inv, Grafting
    <2>2. InOrder(cache') /\ Within(cache') /\ Apart(cache', parent, forward, FALSE)
      BY <1>2, <1>3, <1>4, <2>1, DroppedOrder
    <2>3. IsCache(cache') /\ parent \in DOMAIN cache' /\ At(cache', parent, forward)
      BY <1>2, <1>3, <1>4, <2>1, DroppedIsCache
    <2>4. \A q \in DOMAIN cache' : Keeps(cache, cache', q)
      BY <1>2, <1>3, <1>4, DroppedKeeps
    <2>5. Surrounds(cache', parent, Depth, first)
      BY <1>2, <1>3, <2>1, <2>3, <2>4, SurroundsKept DEF Around
    <2>6. Over(cache', parent, forward, cur)
      BY <2>1, <2>3, <2>4 DEF Around, Over, At, Keeps
    <2>7. Begun(cache', parent, Depth, frames, cur)
      BY <1>2 DEF Begun
    <2>8. Around'
      BY <1>1, <1>2, <2>1, <2>5, <2>6, <2>7 DEF Around
    <2> QED
      BY <1>1, <2>2, <2>8 DEF OrderInv, Apart, Updating
  <1>5. CASE mode # "update"
    BY <1>1, <1>2, <1>5 DEF OrderInv, Apart, Updating
  <1> QED
    BY <1>4, <1>5

(* The path to a child.                                                    *)
LEMMA Longer ==
  ASSUME NEW p \in Path, NEW k \in Nat \ {0}, NEW r \in Path, r = Append(p, k)
  PROVE  /\ r \in Path /\ Len(r) = Len(p) + 1 /\ Front(r) = p /\ Last(r) = k
         /\ \A i \in 0..Len(p) : SubSeq(r, 1, i) = SubSeq(p, 1, i)
         /\ SubSeq(r, 1, Len(p) + 1) = r
  <1>1. r \in Path /\ Len(r) = Len(p) + 1 /\ Front(r) = p /\ Last(r) = k /\ Len(p) \in Nat
    BY FrontOfAppend DEF Path
  <1>2. \A i \in 0..Len(p) : SubSeq(r, 1, i) = SubSeq(p, 1, i)
    BY BeginningOfAppend
  <1>3. Len(p) + 1 \in 0..Len(r)
    BY <1>1
  <1>4. SubSeq(r, 1, Len(p) + 1) = r
    BY <1>1, <1>3, Beginning
  <1> QED
    BY <1>1, <1>2, <1>4

(* searchBL hangs a node behind what is over.                              *)
LEMMA EnterBlockOrder == ASSUME Inv, OrderInv, EnterBlock PROVE OrderInv'
  <1>1. /\ phase = "scan" /\ phase' \in {"return", "line"} /\ frames \in Seq(FrameTypes)
        /\ UNCHANGED <<mode, first, cur>>
    BY DEF EnterBlock, Scanning, client, Inv, RunTypes
  <1>2. CASE mode = "update"
    <2> DEFINE sym == text[cur][gx + 1]
               node == NewNode(Hit, sym, gx, cur)
               f == FrameOf(Hit, sym)
    <2>1. /\ cache' = Link(cache, parent, forward, node)
          /\ parent' = Append(parent, forward + 1) /\ forward' = 0
          /\ frames' = Append(frames, f)
      BY <1>2 DEF EnterBlock
    <2>2. /\ node \in NodesOf(Schemes, Syms) /\ f \in FrameTypes
          /\ node.sline = cur + 1 /\ node.cursor = 0 /\ f.line = cur
          /\ Level(node) = LevelOf(f)
      BY EnterBlockTypes DEF NewNode, FrameOf, Level, LevelOf
    <2> HIDE DEF sym, node, f
    <2>3. /\ IsCache(cache) /\ parent \in DOMAIN cache /\ forward \in Nat
          /\ KidsAfter(cache, parent, forward) = {} /\ At(cache, parent, forward)
          /\ IsCache(cache') /\ parent' \in DOMAIN cache'
      BY <1>1, <1>2, EnterBlockInv DEF Inv, Place, Grafting
    <2>4. /\ InOrder(cache) /\ Within(cache) /\ Apart(cache, parent, forward, FALSE)
          /\ Around
      BY <1>1, <1>2 DEF OrderInv, Updating
    <2>5. /\ KeepsPath(Len(parent)) /\ Depth' = Depth /\ Depth \in 0..Len(parent)
          /\ Len(parent) \in Nat /\ parent \in Path /\ Len(frames) \in Nat
          /\ Len(parent) = Depth + Len(frames)
      BY <1>2, EnterBlockPath, CachedLevels
    <2>6. /\ parent' \in Path /\ Len(parent') = Len(parent) + 1
          /\ \A i \in 1..Len(parent) : SubSeq(parent', 1, i) = SubSeq(parent, 1, i)
          /\ SubSeq(parent', 1, Len(parent) + 1) = parent'
          /\ SubSeq(parent', 1, Depth) = SubSeq(parent, 1, Depth)
      <3>1. PICK k \in Nat \ {0} : k = forward + 1
        BY <2>3
      <3>2. /\ parent' \in Path /\ Len(parent') = Len(parent) + 1
            /\ \A i \in 0..Len(parent) : SubSeq(parent', 1, i) = SubSeq(parent, 1, i)
            /\ SubSeq(parent', 1, Len(parent) + 1) = parent'
        <4>1. parent' = Append(parent, k) /\ parent' \in Path
          BY <2>1, <2>5, <3>1, FrontOfAppend
        <4> QED
          BY <2>5, <4>1, Longer
      <3> QED
        BY <2>5, <3>2
    <2>7. /\ parent' \notin DOMAIN cache /\ DOMAIN cache' = DOMAIN cache \cup {parent'}
          /\ cache'[parent'] = node /\ \A q \in DOMAIN cache : cache'[q] = cache[q]
      <3> DEFINE new == Append(parent, forward + 1)
      <3>1. forward + 1 \in Nat \ {0} /\ forward + 1 > forward
        BY <2>3
      <3>2. new \notin DOMAIN cache
        BY <2>3, <2>5, <3>1, NoKid
      <3> HIDE DEF new
      <3>3. cache' = [q \in DOMAIN cache \cup {new} |-> IF q = new THEN node ELSE cache[q]]
        BY <2>1, <2>3 DEF Link, new
      <3> QED
        BY <2>1, <3>2, <3>3 DEF new
    <2>8. ASSUME NEW i \in 1..Len(frames)
          PROVE  cache[SubSeq(parent, 1, Depth + i)].sline = frames[i].line + 1
      BY <2>4 DEF Around, Begun
    <2>9. cache[parent].sline <= cur + 1
      <3>1. first \in Nat /\ cur \in Nat /\ first <= cur
        BY <2>4 DEF Around, Inv, ClientTypes, RunTypes
      <3>2. CASE Len(frames) = 0
        <4>1. CASE Len(parent) = 0
          <5>1. parent = Root
            BY <2>5, <4>1, EmptySeq DEF Path, Root
          <5> QED
            BY <2>4, <3>1, <5>1 DEF Within
        <4>2. CASE Len(parent) # 0
          <5>1. Len(parent) \in 1..Depth
            BY <2>5, <3>2, <4>2
          <5>2. SubSeq(parent, 1, Len(parent)) = parent
            BY <2>5, Beginning
          <5>3. Covers(cache, parent, first)
            BY <2>4, <5>1, <5>2 DEF Around, Surrounds
          <5> QED
            BY <2>3, <3>1, <5>3, NodeLines DEF Covers
        <4> QED
          BY <4>1, <4>2
      <3>3. CASE Len(frames) # 0
        <4>1. Len(frames) \in 1..Len(frames)
          BY <2>5, <3>3
        <4>2. SubSeq(parent, 1, Depth + Len(frames)) = parent
          BY <2>5, Beginning
        <4>3. cache[parent].sline = frames[Len(frames)].line + 1
          BY <2>8, <4>1, <4>2
        <4>4. frames[Len(frames)].line <= cur /\ frames[Len(frames)] \in FrameTypes
          BY <1>1, <2>4, <4>1, ElementOfSeq DEF Around, Begun
        <4> QED
          BY <3>1, <4>3, <4>4 DEF FrameTypes
      <3> QED
        BY <3>2, <3>3
    <2>10. forward # 0 => /\ cache[Append(parent, forward)].sline < node.sline
                          /\ cache[Append(parent, forward)].eline < node.sline
      <3>1. forward # 0 => Append(parent, forward) \in DOMAIN cache
        BY <2>3 DEF At
      <3>2. cur \in Nat
        BY DEF Inv, RunTypes
      <3>3. forward # 0 => /\ cache[Append(parent, forward)].sline <= cur
                           /\ cache[Append(parent, forward)].eline <= cur
        BY <2>4 DEF Around, Over
      <3>4. forward # 0 => /\ cache[Append(parent, forward)].sline \in Nat
                           /\ cache[Append(parent, forward)].eline \in Nat
        BY <2>3, <3>1, NodeLines
      <3> QED
        BY <2>2, <3>2, <3>3, <3>4
    <2>11. InOrder(cache') /\ Within(cache') /\ Apart(cache', parent, forward, FALSE)
      BY <2>1, <2>2, <2>3, <2>4, <2>9, <2>10, LinkedOrder
    <2>12. Surrounds(cache', parent', Depth, first)
      <3>1. \A q \in DOMAIN cache' : Len(q) <= Depth => Keeps(cache, cache', q)
        BY <2>5, <2>6, <2>7 DEF Keeps
      <3>2. Depth \in Nat /\ Depth <= Len(parent) /\ Depth <= Len(parent')
        BY <2>5, <2>6
      <3> QED
        BY <2>3, <2>4, <2>6, <3>1, <3>2, SurroundsKept DEF Around
    <2>13. Begun(cache', parent', Depth, frames', cur)
      <3>1. /\ Len(frames') = Len(frames) + 1 /\ frames'[Len(frames) + 1] = f
            /\ \A i \in 1..Len(frames) : frames'[i] = frames[i]
        BY <1>1, <2>1, <2>2, AppendProperties
      <3>2. ASSUME NEW i \in 1..Len(frames)
            PROVE  /\ frames'[i].line <= cur
                   /\ cache'[SubSeq(parent', 1, Depth + i)].sline = frames'[i].line + 1
                   /\ Level(cache'[SubSeq(parent', 1, Depth + i)]) = LevelOf(frames'[i])
        <4>1. Depth + i \in 1..Len(parent) /\ Depth + i \in 0..Len(parent)
          BY <2>5
        <4>2. /\ SubSeq(parent', 1, Depth + i) = SubSeq(parent, 1, Depth + i)
              /\ SubSeq(parent, 1, Depth + i) \in DOMAIN cache
          BY <2>6, <4>1, CachedLevels
        <4> QED
          BY <2>4, <2>7, <3>1, <4>2 DEF Around, Begun
      <3>3. /\ f.line <= cur
            /\ cache'[SubSeq(parent', 1, Depth + (Len(frames) + 1))].sline = f.line + 1
            /\ Level(cache'[SubSeq(parent', 1, Depth + (Len(frames) + 1))]) = LevelOf(f)
        <4>1. Depth + (Len(frames) + 1) = Len(parent) + 1 /\ cur \in Nat
          BY <2>5 DEF Inv, RunTypes
        <4>2. SubSeq(parent', 1, Depth + (Len(frames) + 1)) = parent'
          BY <2>6, <4>1
        <4>3. f.line <= cur
          BY <2>2, <4>1
        <4> QED
          BY <2>2, <2>7, <4>2, <4>3
      <3>4. \A i \in 1..Len(frames') : i \in 1..Len(frames) \/ i = Len(frames) + 1
        BY <2>5, <3>1
      <3> QED
        BY <3>1, <3>2, <3>3, <3>4 DEF Begun
    <2>14. Around'
      <3>1. phase' # "level" /\ first' <= cur' /\ Over(cache, parent, forward, cur)'
        BY <1>1, <2>1, <2>4 DEF Around, Over
      <3> QED
        BY <1>1, <2>5, <2>12, <2>13, <3>1 DEF Around
    <2> QED
      BY <1>1, <2>11, <2>14 DEF OrderInv, Apart
  <1>3. CASE mode # "update"
    <2>1. UNCHANGED <<cache, parent, forward>>
      BY <1>3 DEF EnterBlock, tree
    <2> QED
      BY <1>1, <1>3, <2>1 DEF OrderInv, Apart, Updating
  <1> QED
    BY <1>2, <1>3

(* searchBL ends the node again, or deletes it.                            *)
LEMMA LeaveBlockOrder == ASSUME Inv, OrderInv, LeaveBlock PROVE OrderInv'
  <1>1. /\ phase = "return" /\ phase' # "level" /\ phase' # "idle"
        /\ UNCHANGED <<mode, first, cur>>
    BY DEF LeaveBlock, PhaseAt, client
  <1>2. CASE mode = "update"
    <2> DEFINE f == Last(frames)
    <2>1. /\ cache' = Settle(cache, parent, f.forward, f.line) /\ parent' = Front(parent)
          /\ forward' = IF f.line = cur THEN f.forward ELSE Last(parent)
      BY <1>2 DEF LeaveBlock
    <2>2. /\ f \in FrameTypes /\ f = frames[Len(frames)] /\ Len(frames) \in Nat \ {0}
          /\ Len(frames') = Len(frames) - 1
          /\ \A i \in 1..Len(frames') : frames'[i] = frames[i]
      BY Innermost
    <2> HIDE DEF f
    <2>3. f.forward \in Nat /\ f.line \in Nat /\ cur \in Nat
      BY <2>2 DEF FrameTypes, Inv, RunTypes
    <2>4. /\ InOrder(cache) /\ Within(cache) /\ Apart(cache, parent, forward, FALSE)
          /\ Around
      BY <1>1, <1>2 DEF OrderInv, Updating
    <2>5. /\ Depth' = Depth /\ Depth \in 0..Len(parent) /\ Len(parent) - 1 \in Nat
          /\ Len(parent) \in Nat /\ parent \in Path /\ Len(parent) = Depth + Len(frames)
          /\ \A i \in 0..Len(parent) - 1 :
               /\ SubSeq(parent', 1, i) = SubSeq(parent, 1, i)
               /\ Keeps(cache, cache', SubSeq(parent, 1, i))
          /\ Depth < Len(parent)
      BY <1>2, LeaveBlockPath, CachedLevels DEF KeepsPath
    <2>6. parent # Root
      BY <2>5, EmptySeq DEF Root
    <2>7. /\ IsCache(cache) /\ parent \in DOMAIN cache
          /\ IsCache(cache') /\ parent' \in DOMAIN cache' /\ parent' \in DOMAIN cache
          /\ Len(parent') = Len(parent) - 1
          /\ Last(parent) \in Nat \ {0} /\ parent = Append(parent', Last(parent))
          /\ SubSeq(parent, 1, Len(parent) - 1) = parent'
          /\ parent[Len(parent)] = Last(parent)
      BY <2>1, <2>5, <2>6, LeaveBlockInv, ParentOf, AppendOfFront
         DEF Inv, Place, Front, Last
    <2>8. /\ f.line <= cur /\ cache[parent].sline = f.line + 1
          /\ Last(parent) = f.forward + 1
          /\ KidsAfter(cache, parent', Last(parent)) = {}
      <3>1. Len(frames) \in 1..Len(frames) /\ SubSeq(parent, 1, Depth + Len(frames)) = parent
        BY <2>2, <2>5, Beginning
      <3>2. f.line <= cur /\ cache[parent].sline = f.line + 1
        BY <2>2, <2>4, <3>1 DEF Around, Begun
      <3>3. Awaits(cache, parent, Len(parent) - Len(frames) + Len(frames), frames[Len(frames)])
        BY <1>2, <3>1 DEF Inv, Pending
      <3>4. Len(parent) - Len(frames) + Len(frames) = Len(parent)
        BY <2>2, <2>5
      <3>5. Awaits(cache, parent, Len(parent), f)
        BY <2>2, <3>3, <3>4
      <3> QED
        BY <2>7, <3>2, <3>5 DEF Awaits
    <2>9. ASSUME f.line = cur
          PROVE   /\ InOrder(cache') /\ Within(cache') /\ Apart(cache', parent', forward', FALSE)
                  /\ Over(cache', parent', forward', cur)
                  /\ \A q \in DOMAIN cache' : Len(q) <= Depth => Keeps(cache, cache', q)
      <3>1. cache' = DropKidsAfter(cache, parent', f.forward) /\ forward' = f.forward
        BY <2>1, <2>9 DEF Settle
      <3>2. f.forward # 0 => /\ Append(parent', f.forward) \in DOMAIN cache
                             /\ cache[Append(parent', f.forward)].sline < cur + 1
                             /\ cache[Append(parent', f.forward)].eline < cur + 1
        <4>1. SUFFICES ASSUME f.forward # 0
              PROVE /\ Append(parent', f.forward) \in DOMAIN cache
                    /\ cache[Append(parent', f.forward)].sline < cur + 1
                    /\ cache[Append(parent', f.forward)].eline < cur + 1
          OBVIOUS
        <4>2. f.forward \in Nat \ {0} /\ f.forward < Last(parent)
          BY <2>3, <2>8, <4>1
        <4>3. Append(parent', Last(parent)) \in DOMAIN cache
          BY <2>7
        <4>4. Append(parent', f.forward) \in DOMAIN cache
          BY <2>7, <4>2, <4>3, OlderSibling
        <4>5. /\ cache[Append(parent', f.forward)].sline < cache[Append(parent', Last(parent))].sline
              /\ cache[Append(parent', f.forward)].eline < cache[Append(parent', Last(parent))].sline
          BY <2>4, <2>7, <4>2, <4>3 DEF InOrder, Apart
        <4> QED
          BY <2>7, <2>8, <2>9, <4>4, <4>5
      <3>3. Apart(cache, parent', f.forward, FALSE)
        BY <2>4 DEF Apart
      <3>4. InOrder(cache') /\ Within(cache') /\ Apart(cache', parent', f.forward, FALSE)
        BY <2>3, <2>4, <2>7, <3>1, <3>3, DroppedOrder
      <3>5. \A q \in DOMAIN cache' : Keeps(cache, cache', q)
        BY <2>3, <2>7, <3>1, DroppedKeeps
      <3>6. Over(cache', parent', forward', cur)
        <4>1. f.forward # 0 => Append(parent', f.forward) \in DOMAIN cache'
          BY <3>1, LeaveBlockInv, <1>1, <1>2 DEF Inv, Grafting, At
        <4>2. f.forward # 0 => /\ cache[Append(parent', f.forward)].sline \in Nat
                               /\ cache[Append(parent', f.forward)].eline \in Nat
          BY <2>7, <3>2, NodeLines
        <4>3. f.forward # 0 => /\ cache[Append(parent', f.forward)].sline <= cur
                               /\ cache[Append(parent', f.forward)].eline <= cur
          BY <2>3, <3>2, <4>2
        <4> QED
          BY <3>1, <3>5, <4>1, <4>3 DEF Over, Keeps
      <3>7. \A q \in DOMAIN cache' : Len(q) <= Depth => Keeps(cache, cache', q)
        BY <3>5
      <3> QED
        BY <3>1, <3>4, <3>6, <3>7
    <2>10. ASSUME f.line # cur
           PROVE  /\ InOrder(cache') /\ Within(cache') /\ Apart(cache', parent', forward', FALSE)
                  /\ Over(cache', parent', forward', cur)
                  /\ \A q \in DOMAIN cache' : Len(q) <= Depth => Keeps(cache, cache', q)
      <3>1. cache' = [cache EXCEPT ![parent].eline = cur] /\ forward' = Last(parent)
        BY <2>1, <2>10 DEF Settle
      <3>2. /\ DOMAIN cache' = DOMAIN cache
            /\ \A q \in DOMAIN cache \ {parent} : Keeps(cache, cache', q)
            /\ cache'[parent].sline = cache[parent].sline /\ cache'[parent].eline = cur
        <4>1. \A q \in DOMAIN cache \ {parent} : Keeps(cache, cache', q)
          BY <2>3, <2>7, <3>1, EndedKeeps
        <4>2. cache[parent] \in NodesOf(Schemes, Syms)
          BY <2>7 DEF IsCache, IsTree
        <4> QED
          BY <2>7, <3>1, <4>1, <4>2 DEF NodesOf
      <3>3. InOrder(cache') /\ Within(cache') /\ Apart(cache', parent', Last(parent), TRUE)
        <4>1. /\ InOrder(cache') /\ Within(cache')
              /\ Apart(cache', Front(parent), Last(parent), TRUE)
          BY <2>3, <2>4, <2>6, <2>7, <3>1, EndedOrder
        <4> QED
          BY <2>1, <4>1
      <3>4. KidsAfter(cache', parent', Last(parent)) = {}
        BY <2>8, <3>2, FewerKids
      <3>5. Apart(cache', parent', Last(parent), FALSE)
        BY <2>7, <3>3, <3>4, ApartClosed
      <3>6. Over(cache', parent', forward', cur)
        <4>1. f.line + 1 <= cur
          BY <2>3, <2>8, <2>10
        <4>2. Append(parent', forward') = parent
          BY <2>7, <3>1
        <4>3. cache'[parent].sline <= cur /\ cache'[parent].eline <= cur
          BY <2>3, <2>8, <3>2, <4>1
        <4> QED
          BY <4>2, <4>3 DEF Over
      <3>7. \A q \in DOMAIN cache' : Len(q) <= Depth => Keeps(cache, cache', q)
        BY <2>5, <3>2
      <3> QED
        BY <3>1, <3>3, <3>5, <3>6, <3>7
    <2>11. /\ InOrder(cache') /\ Within(cache') /\ Apart(cache', parent', forward', FALSE)
           /\ Over(cache', parent', forward', cur)
           /\ \A q \in DOMAIN cache' : Len(q) <= Depth => Keeps(cache, cache', q)
      BY <2>9, <2>10
    <2>12. Surrounds(cache', parent', Depth, first)
      <3>1. Depth \in Nat /\ Depth <= Len(parent) /\ Depth <= Len(parent')
            /\ Depth \in 0..Len(parent) - 1
        BY <2>5, <2>7
      <3>2. SubSeq(parent', 1, Depth) = SubSeq(parent, 1, Depth)
        BY <2>5, <3>1
      <3> QED
        BY <2>4, <2>7, <2>11, <3>1, <3>2, SurroundsKept DEF Around
    <2>13. Begun(cache', parent', Depth, frames', cur)
      <3> SUFFICES ASSUME NEW i \in 1..Len(frames')
                   PROVE  /\ frames'[i].line <= cur
                          /\ cache'[SubSeq(parent', 1, Depth + i)].sline = frames'[i].line + 1
                          /\ Level(cache'[SubSeq(parent', 1, Depth + i)]) = LevelOf(frames'[i])
        BY DEF Begun
      <3>1. i \in 1..Len(frames) /\ Depth + i \in 0..Len(parent) - 1
        BY <2>2, <2>5
      <3>2. frames'[i] = frames[i]
        BY <2>2
      <3>3. /\ SubSeq(parent', 1, Depth + i) = SubSeq(parent, 1, Depth + i)
            /\ Keeps(cache, cache', SubSeq(parent, 1, Depth + i))
        BY <2>5, <3>1
      <3>4. /\ frames[i].line <= cur
            /\ cache[SubSeq(parent, 1, Depth + i)].sline = frames[i].line + 1
            /\ Level(cache[SubSeq(parent, 1, Depth + i)]) = LevelOf(frames[i])
        BY <2>4, <3>1 DEF Around, Begun
      <3> QED
        BY <3>2, <3>3, <3>4 DEF Keeps, Level
    <2>14. Around'
      BY <1>1, <2>4, <2>5, <2>11, <2>12, <2>13 DEF Around
    <2> QED
      BY <1>1, <2>11, <2>14 DEF OrderInv, Apart
  <1>3. CASE mode # "update"
    <2>1. UNCHANGED <<cache, parent, forward>>
      BY <1>3 DEF LeaveBlock, tree
    <2> QED
      BY <1>1, <1>3, <2>1 DEF OrderInv, Apart, Updating
  <1> QED
    BY <1>2, <1>3

(* parse() ends a level and goes on behind it.                             *)
LEMMA LeaveLevelOrder == ASSUME Inv, OrderInv, LeaveLevel PROVE OrderInv'
  <1>1. /\ phase = "return" /\ phase' = "level" /\ frames = <<>> /\ frames' = <<>>
        /\ parent # Root /\ forward' = Last(parent) /\ parent' = Front(parent)
        /\ cache' = IF mode = "update" THEN Closed(cache, parent) ELSE cache
        /\ UNCHANGED <<mode, first, cur>>
    BY DEF LeaveLevel, client
  <1>2. CASE mode = "update"
    <2>1. cache' = [cache EXCEPT ![parent].eline = cur]
      BY <1>1, <1>2 DEF Closed
    <2>2. /\ IsCache(cache) /\ parent \in DOMAIN cache
          /\ IsCache(cache') /\ parent' \in DOMAIN cache' /\ parent' \in DOMAIN cache
          /\ Len(parent') = Len(parent) - 1
          /\ Last(parent) \in Nat \ {0} /\ parent = Append(parent', Last(parent))
          /\ SubSeq(parent, 1, Len(parent) - 1) = parent'
          /\ parent[Len(parent)] = Last(parent)
          /\ cur \in Nat /\ first \in Nat
      <3>1. IsCache(cache) /\ parent \in DOMAIN cache /\ cur \in Nat /\ first \in Nat
        BY DEF Inv, Place, RunTypes, ClientTypes
      <3>2. IsCache(cache') /\ parent' \in DOMAIN cache'
        BY LeaveLevelInv DEF Inv, Place
      <3>3. /\ parent' \in DOMAIN cache /\ Last(parent) \in Nat \ {0}
            /\ parent = Append(parent', Last(parent)) /\ Len(parent') = Len(parent) - 1
        BY <1>1, <3>1, ParentOf, AppendOfFront
      <3> QED
        BY <1>1, <3>1, <3>2, <3>3 DEF Front, Last
    <2>3. /\ Depth \in 0..Len(parent) /\ Len(parent) \in Nat /\ parent \in Path
          /\ Len(parent) = Depth + Len(frames) /\ Len(frames) = 0 /\ Len(frames') = 0
      BY <1>1, <1>2, CachedLevels, EmptySeq
    <2>4. Depth = Len(parent) /\ Depth' = Len(parent) - 1 /\ Len(parent) \in 1..Depth
      <3>1. Depth' = Len(parent') - Len(frames') /\ Len(parent) # 0
        BY <1>1, <1>2, <2>3, EmptySeq DEF Depth, Root, Path
      <3> QED
        BY <2>2, <2>3, <3>1
    <2>5. /\ InOrder(cache) /\ Within(cache) /\ Apart(cache, parent, forward, FALSE)
          /\ Around
      BY <1>1, <1>2 DEF OrderInv, Updating
    <2>6. /\ DOMAIN cache' = DOMAIN cache
          /\ \A q \in DOMAIN cache \ {parent} : Keeps(cache, cache', q)
          /\ cache'[parent].sline = cache[parent].sline /\ cache'[parent].eline = cur
      <3>1. \A q \in DOMAIN cache \ {parent} : Keeps(cache, cache', q)
        BY <2>1, <2>2, EndedKeeps
      <3>2. cache[parent] \in NodesOf(Schemes, Syms)
        BY <2>2 DEF IsCache, IsTree
      <3> QED
        BY <2>1, <2>2, <3>1, <3>2 DEF NodesOf
    <2>7. InOrder(cache') /\ Within(cache') /\ Apart(cache', parent', Last(parent), TRUE)
      <3>1. /\ InOrder(cache') /\ Within(cache')
            /\ Apart(cache', Front(parent), Last(parent), TRUE)
        BY <1>1, <2>1, <2>2, <2>5, EndedOrder
      <3> QED
        BY <1>1, <3>1
    <2>8. /\ Covers(cache, parent, first) /\ Behind(cache, parent', Last(parent), first)
      <3>1. SubSeq(parent, 1, Len(parent)) = parent
        BY <2>3, Beginning
      <3> QED
        BY <2>2, <2>4, <2>5, <3>1 DEF Around, Surrounds
    <2>9. Over(cache', parent', forward', cur)
      <3>1. Append(parent', forward') = parent
        BY <1>1, <2>2
      <3>2. cache[parent].sline \in Nat /\ first <= cur
        BY <2>2, <2>5, NodeLines DEF Around
      <3>3. cache'[parent].sline <= cur /\ cache'[parent].eline <= cur
        BY <2>2, <2>6, <2>8, <3>2 DEF Covers
      <3> QED
        BY <3>1, <3>3 DEF Over
    <2>10. Behind(cache', parent', Last(parent), first)
      <3>1. \A c \in Nat \ {0} : c > Last(parent) => Append(parent', c) # parent
        <4>1. parent' \in Path
          BY <2>2 DEF IsCache, IsTree, Rooted
        <4> QED
          BY <2>2, <4>1, FrontOfAppend
      <3> QED
        BY <2>6, <2>8, <3>1 DEF Behind, Keeps
    <2>11. Surrounds(cache', parent', Depth', first)
      <3>1. \A q \in DOMAIN cache' : Len(q) <= Len(parent) - 1 => Keeps(cache, cache', q)
        BY <2>3, <2>6
      <3>2. /\ Len(parent) - 1 \in Nat /\ Len(parent) - 1 <= Len(parent)
            /\ Len(parent) - 1 <= Len(parent') /\ Len(parent) - 1 \in 0..Len(parent')
        BY <2>2, <2>3, <2>4
      <3>3. SubSeq(parent', 1, Len(parent) - 1) = SubSeq(parent, 1, Len(parent) - 1)
        <4>1. parent' \in Path
          BY <2>2 DEF IsCache, IsTree, Rooted
        <4>2. SubSeq(parent', 1, Len(parent')) = parent'
          BY <3>2, <2>2, <4>1, Beginning
        <4> QED
          BY <2>2, <4>2
      <3>4. Surrounds(cache, parent, Len(parent) - 1, first)
        BY <2>4, <2>5 DEF Around, Surrounds
      <3>5. Surrounds(cache', parent', Len(parent) - 1, first)
        <4>1. PICK d \in Nat : d = Len(parent) - 1
          BY <3>2
        <4>2. /\ d <= Len(parent) /\ d <= Len(parent')
              /\ SubSeq(parent', 1, d) = SubSeq(parent, 1, d)
              /\ \A q \in DOMAIN cache' : Len(q) <= d => Keeps(cache, cache', q)
              /\ Surrounds(cache, parent, d, first)
          BY <3>1, <3>2, <3>3, <3>4, <4>1
        <4>3. Surrounds(cache', parent', d, first)
          BY <2>2, <4>2, SurroundsKept
        <4> QED
          BY <4>1, <4>3
      <3> QED
        BY <2>4, <3>5
    <2>12. Around'
      BY <1>1, <2>3, <2>5, <2>9, <2>10, <2>11 DEF Around, Begun
    <2> QED
      BY <1>1, <1>2, <2>7, <2>12 DEF OrderInv, Apart, Updating
  <1>3. CASE mode # "update"
    BY <1>1, <1>3 DEF OrderInv, Apart, Updating
  <1> QED
    BY <1>2, <1>3

(* What is apart where nothing is open is so up to any line.               *)
LEMMA ApartAnywhere ==
  ASSUME NEW t, NEW p, NEW k, Apart(t, p, k, FALSE), NEW ln
  PROVE  ApartUpTo(t, ln)
  BY DEF Apart, ApartUpTo

(* Moving cursors does not disturb the order.                              *)
LEMMA KeptApart ==
  ASSUME NEW t, IsCache(t), NEW u \in [DOMAIN t -> NodesOf(Schemes, Syms)],
         \A q \in DOMAIN t : Keeps(t, u, q)
  PROVE  /\ InOrder(t) => InOrder(u)
         /\ Within(t) => Within(u)
         /\ \A p, k : Apart(t, p, k, FALSE) => Apart(u, p, k, FALSE)
  <1>1. DOMAIN u = DOMAIN t /\ Root \in DOMAIN t
    BY DEF IsCache, IsTree, Rooted
  <1>2. \A r \in DOMAIN t : \A i, j \in Nat \ {0} :
          i < j /\ Append(r, j) \in DOMAIN t => Append(r, i) \in DOMAIN t
    BY OlderSibling
  <1> QED
    BY <1>1, <1>2 DEF InOrder, Within, Apart, Keeps

(* parse() starts at what searchLine has found.                            *)
LEMMA StartParseOrder ==
  ASSUME Inv, phase = "idle", NEW t, IsCache(t), InOrder(t), Within(t),
         Apart(t, parent, forward, FALSE), NEW from \in Nat, NEW num \in Nat,
         NEW m \in {"off", "read", "update"},
         StartParse(t, from, num, m)
  PROVE  OrderInv'
  <1>1. baseScheme = Base /\ frames = <<>>
    BY DEF Inv, Positions
  <1>2. [t EXCEPT ![Root].block = baseScheme] = t
    BY <1>1, RootReset
  <1>3. /\ phase' = "level" /\ mode' = m /\ first' = from /\ cur' = from /\ frames' = <<>>
        /\ cache' = IF m = "off" THEN t ELSE Searched(t, from)
        /\ parent' = IF m = "off" THEN Root ELSE SearchLine(t, from)
        /\ forward' = IF m = "off" THEN 0 ELSE ForwardOf(t, parent', from)
    BY <1>1, <1>2 DEF StartParse
  <1>4. /\ IsCache(Searched(t, from)) /\ DOMAIN Searched(t, from) = DOMAIN t
        /\ \A q \in DOMAIN t : Keeps(t, Searched(t, from), q)
    BY SearchedIsCache, SearchedKeeps DEF IsCache
  <1>5. IsCache(cache') /\ DOMAIN cache' = DOMAIN t /\ \A q \in DOMAIN t : Keeps(t, cache', q)
    BY <1>3, <1>4 DEF Keeps
  <1>6. /\ InOrder(cache') /\ Within(cache')
        /\ \A p, k : Apart(t, p, k, FALSE) => Apart(cache', p, k, FALSE)
    <2>1. cache' \in [DOMAIN t -> NodesOf(Schemes, Syms)]
      BY <1>5 DEF IsCache, IsTree
    <2> QED
      BY <1>5, <2>1, KeptApart
  <1>7. Apart(cache', parent', forward', Updating' /\ phase' = "level")
    BY <1>6 DEF Apart
  <1>8. ASSUME m = "update" PROVE Around'
    <2> DEFINE q == SearchLine(t, from)
               f == ForwardOf(t, q, from)
    <2>1. ApartUpTo(t, from)
      BY ApartAnywhere
    <2>2. Found(t, q, from) /\ q \in DOMAIN t /\ q \in Path /\ Len(q) \in Nat
      BY <2>1, SearchFinds DEF Found, IsCache, IsTree, Rooted, Path
    <2>3. /\ parent' = q /\ forward' = f /\ cur' = from /\ first' = from /\ Len(frames') = 0
      BY <1>3, <1>8, EmptySeq
    <2>4. \A j \in 1..Len(q) : \A c \in Nat \ {0} :
            c > q[j] /\ Append(SubSeq(q, 1, j - 1), c) \in DOMAIN t
              => t[Append(SubSeq(q, 1, j - 1), c)].sline > from
      BY <2>1, <2>2, LaterSiblings DEF IsCache
    <2>5. /\ f \in Nat
          /\ f # 0 => Append(q, f) \in DOMAIN t /\ t[Append(q, f)].sline <= from
          /\ \A c \in Nat \ {0} : c > f /\ Append(q, c) \in DOMAIN t
                                    => t[Append(q, c)].sline > from
      BY <2>2, ForwardIs DEF IsCache
    <2>6. f # 0 => t[Append(q, f)].eline <= from
      <3>1. f # 0 => ~ Covers(t, Append(q, f), from)
        BY <2>2, <2>5 DEF Found
      <3>2. f # 0 => t[Append(q, f)].sline \in Nat /\ t[Append(q, f)].eline \in Nat
        BY <2>5, NodeLines
      <3> QED
        BY <2>5, <3>1, <3>2 DEF Covers
    <2>7. \A j \in 1..Len(q) : Covers(t, SubSeq(q, 1, j), from)
      BY <2>2 DEF Found
    <2>8. \A j \in 1..Len(q) : SubSeq(q, 1, j) \in DOMAIN t
      BY <2>2, PathStep DEF IsCache, IsTree
    <2> HIDE DEF q, f
    <2>9. Depth' = Len(q)
      BY <1>3, <1>8, <2>2, <2>3 DEF Depth
    <2>10. Surrounds(cache', q, Len(q), from)
      <3>1. ASSUME NEW j \in 1..Len(q)
            PROVE  Covers(cache', SubSeq(q, 1, j), from)
        BY <1>5, <2>7, <2>8 DEF Covers, Keeps
      <3>2. ASSUME NEW j \in 1..Len(q)
            PROVE  Behind(cache', SubSeq(q, 1, j - 1), q[j], from)
        BY <1>5, <2>4 DEF Behind, Keeps
      <3> QED
        BY <3>1, <3>2 DEF Surrounds
    <2>11. Behind(cache', q, f, from)
      BY <1>5, <2>5 DEF Behind, Keeps
    <2>12. Over(cache', q, f, from)
      BY <1>5, <2>5, <2>6 DEF Over, Keeps
    <2> QED
      BY <2>3, <2>9, <2>10, <2>11, <2>12 DEF Around, Begun
  <1> QED
    BY <1>3, <1>6, <1>7, <1>8 DEF OrderInv, Updating

(* A tree of the root alone is in order.                                    *)
LEMMA EmptyOrder ==
  InOrder(EmptyCache) /\ Within(EmptyCache) /\ \A p, k : Apart(EmptyCache, p, k, FALSE)
  <1>1. DOMAIN EmptyCache = {Root} /\ EmptyCache[Root].sline = 0 /\ Root \in Path
    BY EmptyIsCache DEF EmptyCache, IsCache, IsTree, Rooted
  <1>2. \A q \in DOMAIN EmptyCache : \A j \in Nat \ {0} : Append(q, j) \notin DOMAIN EmptyCache
    BY <1>1, FrontOfAppend
  <1> HIDE DEF EmptyCache
  <1> QED
    BY <1>1, <1>2 DEF InOrder, Within, Apart

(* The client's calls keep the order.                                      *)
LEMMA ClientOrder == ASSUME Inv, OrderInv, Client PROVE OrderInv'
  <1>1. phase = "idle" => Apart(cache, parent, forward, FALSE)
    BY DEF OrderInv, Updating
  <1>2. IsCache(cache) /\ InOrder(cache) /\ Within(cache)
    BY DEF Inv, OrderInv
  <1>3. ASSUME NEW from \in 0..LineCount, NEW num \in 0..LineCount, NEW m \in Modes,
               Parse(from, num, m)
        PROVE  OrderInv'
    <2>1. phase = "idle" /\ StartParse(cache, from, num, m)
      BY <1>3 DEF Parse
    <2>2. from \in Nat /\ num \in Nat /\ m \in {"off", "read", "update"}
      BY TextAssumption DEF TextAssumption
    <2> QED
      BY <1>1, <1>2, <2>1, <2>2, StartParseOrder
  <1>4. ASSUME SetFileType PROVE OrderInv'
    <2>1. phase' = "idle" /\ cache' = EmptyCache
      BY <1>4 DEF SetFileType, ClearCache
    <2> QED
      BY <2>1, EmptyOrder DEF OrderInv, Updating, Apart
  <1>5. ASSUME NEW l \in LineNos, NEW line \in Lines, NEW gone \in Unavailable,
               Edit(l, line, gone)
        PROVE  OrderInv'
    <2>1. phase' = "idle" /\ phase = "idle" /\ cache' = cache
      BY <1>5 DEF Edit, tree
    <2> QED
      BY <1>1, <1>2, <2>1 DEF OrderInv, Updating, Apart
  <1>6. ASSUME NEW l \in LineNos, NEW line \in Lines, TryParseLine(l, line)
        PROVE  OrderInv'
    <2> DEFINE once == Searched(cache, l + 1)
               twice == Searched(once, l)
    <2>1. phase = "idle" /\ StartParse(twice, l, 1, "read")
      BY <1>6 DEF TryParseLine
    <2>2. l \in Nat /\ l + 1 \in Nat
      BY TextAssumption DEF TextAssumption, LineNos
    <2>3. IsCache(once) /\ DOMAIN once = DOMAIN cache
      BY <1>2, <2>2, SearchedIsCache
    <2>4. InOrder(once) /\ Within(once) /\ Apart(once, parent, forward, FALSE)
      <3>1. once \in [DOMAIN cache -> NodesOf(Schemes, Syms)]
        BY <2>3 DEF IsCache, IsTree
      <3>2. \A q \in DOMAIN cache : Keeps(cache, once, q)
        BY <1>2, <2>2, SearchedKeeps DEF IsCache
      <3> QED
        BY <1>1, <1>2, <2>1, <3>1, <3>2, KeptApart
    <2> HIDE DEF once
    <2>5. IsCache(twice) /\ DOMAIN twice = DOMAIN once
      BY <2>2, <2>3, SearchedIsCache
    <2>6. InOrder(twice) /\ Within(twice) /\ Apart(twice, parent, forward, FALSE)
      <3>1. twice \in [DOMAIN once -> NodesOf(Schemes, Syms)]
        BY <2>5 DEF IsCache, IsTree
      <3>2. \A q \in DOMAIN once : Keeps(once, twice, q)
        BY <2>2, <2>3, SearchedKeeps DEF IsCache
      <3> QED
        BY <2>3, <2>4, <3>1, <3>2, KeptApart
    <2> HIDE DEF twice
    <2> QED
      BY <2>1, <2>2, <2>5, <2>6, StartParseOrder
  <1>7. ASSUME BreakParse PROVE OrderInv'
    <2>1. /\ UNCHANGED <<cache, parent, forward, mode, frames, first, cur, phase>>
          /\ cur \in Nat
      BY <1>7 DEF BreakParse, client, tree, where, Inv, RunTypes
    <2>2. cur <= cur' /\ cur' \in Nat
      BY <2>1
    <2>3. CASE phase # "idle"
      BY <2>1, <2>2, <2>3, SameOrder
    <2>4. CASE phase = "idle"
      BY <2>1, <2>4 DEF OrderInv, Updating, Apart
    <2> QED
      BY <2>3, <2>4
  <1> QED
    BY <1>3, <1>4, <1>5, <1>6, <1>7 DEF Client

(* The order of the cache is kept by every step.                           *)
LEMMA OrderNext == Inv /\ OrderInv /\ [Next]_vars => OrderInv'
  <1> SUFFICES ASSUME Inv, OrderInv, [Next]_vars PROVE OrderInv'
    OBVIOUS
  <1>1. cur \in Nat /\ endl \in Nat /\ (phase = "scan" => cur < endl)
    BY TextAssumption DEF Inv, RunTypes, Positions, TextAssumption
  <1>2. CASE LinesExhausted \/ LineMissing \/ LineBegin
    <2>1. /\ UNCHANGED <<cache, parent, forward, mode, frames, first, cur>>
          /\ phase = "line" /\ phase' # "level"
      BY <1>2 DEF LinesExhausted, LineMissing, LineBegin, client, tree, where
    <2>2. cur <= cur' /\ cur' \in Nat
      BY <1>1, <2>1
    <2> QED
      BY <2>1, <2>2, SameOrder
  <1>3. CASE ScanNothing \/ ScanRegexp \/ EndOfBlock \/ NextLine
    <2>1. /\ UNCHANGED <<cache, parent, forward, mode, frames, first>>
          /\ phase = "scan" /\ phase' # "level"
          /\ cur' = cur \/ cur' = endl \/ cur' = cur + 1 \/ cur' = endl + 1
      BY <1>3 DEF ScanNothing, ScanRegexp, EndOfBlock, NextLine, Scanning, PhaseAt, client, tree
    <2>2. cur <= cur' /\ cur' \in Nat
      BY <1>1, <2>1
    <2> QED
      BY <2>1, <2>2, SameOrder
  <1>4. CASE StartLevel
    BY <1>4, StartLevelOrder
  <1>5. CASE EnterBlock
    BY <1>5, EnterBlockOrder
  <1>6. CASE LeaveBlock
    BY <1>6, LeaveBlockOrder
  <1>7. CASE LeaveLevel
    BY <1>7, LeaveLevelOrder
  <1>8. CASE Finish
    <2>1. phase = "return" /\ phase' = "idle" /\ UNCHANGED <<cache, parent, forward>>
      BY <1>8 DEF Finish, tree
    <2> QED
      BY <2>1 DEF OrderInv, Updating, Apart
  <1>9. CASE Client
    BY <1>9, ClientOrder
  <1>10. CASE UNCHANGED vars
    <2>1. UNCHANGED <<cache, parent, forward, mode, frames, first, cur, phase>>
      BY <1>10 DEF vars, client, tree, where
    <2>2. cur <= cur' /\ cur' \in Nat
      BY <1>1, <2>1
    <2>3. CASE phase # "idle"
      BY <2>1, <2>2, <2>3, SameOrder
    <2>4. CASE phase = "idle"
      BY <2>1, <2>4 DEF OrderInv, Updating, Apart
    <2> QED
      BY <2>3, <2>4
  <1> QED
    BY <1>2, <1>3, <1>4, <1>5, <1>6, <1>7, <1>8, <1>9, <1>10 DEF Next, Step

(* The fresh cache is in order.                                            *)
LEMMA InitOrder == Init => OrderInv
  <1> SUFFICES ASSUME Init PROVE OrderInv
    OBVIOUS
  <1>1. cache = EmptyCache /\ phase = "idle"
    BY DEF Init
  <1> QED
    BY <1>1, EmptyOrder DEF OrderInv, Updating, Apart

(* The sibling before a node.                                              *)
LEMMA SiblingBefore ==
  ASSUME NEW p \in Path, p # Root, Last(p) > 1
  PROVE  [p EXCEPT ![Len(p)] = @ - 1] = Append(Front(p), Last(p) - 1)
  <1>1. /\ Front(p) \in Path /\ Last(p) \in Nat \ {0} /\ p = Append(Front(p), Last(p))
        /\ Len(Front(p)) = Len(p) - 1 /\ Len(p) \in Nat \ {0}
    BY AppendOfFront, EmptySeq DEF Path, Root
  <1> DEFINE n == Len(p)
             a == [p EXCEPT ![n] = @ - 1]
             b == Append(Front(p), Last(p) - 1)
  <1>2. p[n] = Last(p) /\ n \in 1..n /\ DOMAIN p = 1..n
    BY <1>1, LenProperties DEF Last, Path
  <1>3. \A i \in 1..n - 1 : Front(p)[i] = p[i]
    BY <1>1, Beginning DEF Front
  <1>4. Last(p) - 1 \in Nat \ {0}
    BY <1>1
  <1>5. /\ b \in Path /\ Len(b) = n /\ b[n] = Last(p) - 1
        /\ \A i \in 1..n - 1 : b[i] = p[i]
    <2>1. /\ Len(b) = Len(Front(p)) + 1 /\ b[Len(Front(p)) + 1] = Last(p) - 1
          /\ \A i \in 1..Len(Front(p)) : b[i] = Front(p)[i]
      BY <1>1, <1>4, AppendProperties DEF Path
    <2>2. b \in Path
      BY <1>1, <1>4, FrontOfAppend
    <2> QED
      BY <1>1, <1>3, <2>1, <2>2
  <1>6. a \in Path /\ Len(a) = n /\ a[n] = Last(p) - 1 /\ \A i \in 1..n - 1 : a[i] = p[i]
    <2>1. a \in [1..n -> Nat \ {0}]
      BY <1>2, <1>4, LenProperties DEF Path
    <2>2. a \in Path /\ Len(a) = n
      BY <1>1, <2>1, SeqDef, LenProperties DEF Path
    <2>3. a[n] = Last(p) - 1 /\ \A i \in 1..n - 1 : a[i] = p[i]
      BY <1>1, <1>2
    <2> QED
      BY <2>2, <2>3
  <1> HIDE DEF a, b, n
  <1>7. n \in Nat /\ \A i \in 1..n : a[i] = b[i]
    BY <1>1, <1>5, <1>6 DEF n
  <1> QED
    BY <1>5, <1>6, <1>7, SeqEqual DEF Path, a, b, n

(* Siblings are ordered by sline and do not overlap, and children start    *)
(* within their parent, whatever the history of parses and re-parses: what *)
(* searchLine's walk from the cursor presumes.                             *)
THEOREM SiblingsAreOrdered == Spec => []SiblingsOrdered
  <1>1. Inv /\ OrderInv => SiblingsOrdered
    <2> SUFFICES ASSUME Inv, OrderInv, phase # "level", NEW p \in DOMAIN cache, p # Root
                 PROVE  /\ cache[p].sline >= cache[Front(p)].sline
                        /\ Last(p) > 1 =>
                             LET q == [p EXCEPT ![Len(p)] = @ - 1]
                             IN  q \in DOMAIN cache /\ cache[q].eline < cache[p].sline
      BY DEF SiblingsOrdered
    <2> DEFINE f == Front(p)
               k == Last(p)
    <2>1. /\ f \in DOMAIN cache /\ k \in Nat \ {0} /\ p = Append(f, k) /\ p \in Path
      BY ParentOf DEF Inv
    <2>2. Within(cache) /\ Apart(cache, parent, forward, FALSE) /\ IsCache(cache)
      BY DEF OrderInv, Inv
    <2>3. k > 1 => [p EXCEPT ![Len(p)] = @ - 1] = Append(f, k - 1)
      BY <2>1, SiblingBefore
    <2> HIDE DEF f, k
    <2>4. cache[f].sline <= cache[p].sline /\ cache[f].sline \in Nat /\ cache[p].sline \in Nat
      BY <2>1, <2>2, NodeLines DEF Within
    <2>5. k > 1 => k - 1 \in Nat \ {0} /\ k - 1 < k
      BY <2>1
    <2>6. k > 1 => /\ Append(f, k - 1) \in DOMAIN cache
                   /\ cache[Append(f, k - 1)].eline < cache[Append(f, k)].sline
      BY <2>1, <2>2, <2>5, OlderSibling DEF Apart
    <2>7. cache[p].sline >= cache[f].sline
      BY <2>4
    <2> QED
      BY <2>1, <2>3, <2>6, <2>7 DEF f, k
  <1> QED
    BY <1>1, Invariance, InitOrder, OrderNext, PTL DEF Spec

-----------------------------------------------------------------------------
(* What a region handler is told.  It sees properly nested schemes when    *)
(* getLine returns every line.  (Without that assumption it does not: see  *)
(* the run parser_unpaired.)  And, with no such assumption, the groups an  *)
(* end pattern takes from its start are those of the match that opened the *)
(* block.                                                                  *)

(* What a handler with the stack h has been told of: the background, d     *)
(* blocks of the cache down to node p, and the pending blocks fs.          *)
Told(h, t, p, d, fs) ==
  /\ Len(h) = 1 + d + Len(fs)
  /\ \A k \in 1..d : h[1 + k] = t[SubSeq(p, 1, k)].block
  /\ \A i \in 1..Len(fs) : h[1 + d + i] = fs[i].block

HandlerInv ==
  phase # "idle" =>
    /\ ~ filled => frames = <<>> /\ handler = <<Base>>
    /\ phase = "scan" \/ (phase = "return" /\ cur < endl) => filled
    /\ filled /\ cur < endl => Told(handler, cache, parent, Depth, frames)

-----------------------------------------------------------------------------
(* A step inside colorize() that tells the handler nothing.                *)
LEMMA Silent ==
  ASSUME HandlerInv, phase # "idle",
         UNCHANGED <<cache, parent, mode, frames, filled, handler>>,
         cur' < endl' => cur < endl,
         phase' = "scan" \/ (phase' = "return" /\ cur' < endl') => filled
  PROVE  HandlerInv'
  <1>1. Depth' = Depth
    BY DEF Depth
  <1> QED
    BY <1>1 DEF HandlerInv

(* The first line of a parse tells the handler of the cached blocks.        *)
LEMMA LineBeginTold == ASSUME Inv, HandlerInv, LineBegin PROVE HandlerInv'
  <1> DEFINE n == Len(parent)
  <1>1. /\ phase = "line" /\ cur < endl /\ filled' = TRUE
        /\ handler' = (IF filled THEN handler ELSE handler \o Invisible)
        /\ UNCHANGED <<cache, parent, mode, frames, cur, endl>>
    BY DEF LineBegin, tree
  <1>2. n \in Nat /\ Len(frames) \in Nat /\ Depth' = Depth
    BY <1>1, CachedLevels DEF Depth
  <1>3. Told(handler', cache', parent', Depth', frames')
    <2>1. CASE filled
      BY <1>1, <1>2, <2>1 DEF HandlerInv
    <2>2. CASE ~ filled
      <3>1. frames = <<>> /\ handler = <<Base>> /\ Len(frames) = 0
        BY <1>1, <2>2, EmptySeq DEF HandlerInv
      <3>2. Depth = n
        BY <1>2, <3>1 DEF Depth
      <3>3. /\ Invisible \in Seq(Schemes) /\ Len(Invisible) = n
            /\ \A k \in 1..n : Invisible[k] = cache[SubSeq(parent, 1, k)].block
        BY <1>2, InvisibleType DEF Invisible
      <3>4. handler \in Seq(Schemes) /\ Len(handler) = 1
        BY <3>1 DEF Inv, RunTypes
      <3>5. /\ Len(handler') = 1 + n
            /\ \A k \in 1..n : handler'[1 + k] = Invisible[k]
        <4>1. handler' = handler \o Invisible
          BY <1>1, <2>2
        <4>2. /\ Len(handler \o Invisible) = 1 + n
              /\ \A i \in 1..1 + n : (handler \o Invisible)[i]
                   = IF i <= 1 THEN handler[i] ELSE Invisible[i - 1]
          <5> DEFINE h == handler
                     v == Invisible
          <5>1. h \in Seq(Schemes) /\ v \in Seq(Schemes) /\ Len(h) = 1 /\ Len(v) = n
            BY <3>3, <3>4
          <5> HIDE DEF h, v, n
          <5>2. /\ Len(h \o v) = Len(h) + Len(v)
                /\ \A i \in 1..Len(h) + Len(v) : (h \o v)[i]
                     = IF i <= Len(h) THEN h[i] ELSE v[i - Len(h)]
            BY <5>1, ConcatProperties
          <5>3. /\ Len(h \o v) = 1 + n
                /\ \A i \in 1..1 + n : (h \o v)[i] = IF i <= 1 THEN h[i] ELSE v[i - 1]
            BY <5>1, <5>2
          <5> QED
            BY <5>3 DEF h, v, n
        <4>3. \A k \in 1..n : 1 + k \in 1..1 + n /\ ~ (1 + k <= 1) /\ (1 + k) - 1 = k
          BY <1>2
        <4> QED
          BY <4>1, <4>2, <4>3
      <3> QED
        BY <1>1, <1>2, <3>1, <3>2, <3>3, <3>5 DEF Told
    <2> QED
      BY <2>1, <2>2
  <1> QED
    BY <1>1, <1>3 DEF HandlerInv

(* A block that searchBL enters is told and pending at once.                *)
LEMMA EnterBlockTold == ASSUME Inv, HandlerInv, EnterBlock PROVE HandlerInv'
  <1> DEFINE sym == text[cur][gx + 1]
             node == NewNode(Hit, sym, gx, cur)
             new == Append(parent, forward + 1)
             f == FrameOf(Hit, sym)
  <1>1. /\ node \in NodesOf(Schemes, Syms) /\ Hit \in Blocks /\ node.cursor = 0
        /\ f \in FrameTypes /\ f.block = Hit
    BY EnterBlockTypes DEF NewNode, FrameOf
  <1>2. /\ phase = "scan" /\ phase' # "scan" /\ handler' = Append(handler, Hit)
        /\ frames' = Append(frames, f)
        /\ UNCHANGED <<mode, cur, endl, filled>>
        /\ IF mode = "update" THEN cache' = Link(cache, parent, forward, node) /\ parent' = new
           ELSE UNCHANGED <<cache, parent>>
    BY DEF EnterBlock, Scanning, tree
  <1>3. filled /\ cur < endl /\ Told(handler, cache, parent, Depth, frames)
    BY <1>2 DEF HandlerInv, Inv, Positions
  <1>4. /\ Depth \in 0..Len(parent) /\ Len(parent) \in Nat /\ parent \in Path
        /\ \A k \in 0..Len(parent) : SubSeq(parent, 1, k) \in DOMAIN cache
        /\ Len(frames) \in Nat /\ Len(handler) \in Nat
    BY CachedLevels
  <1> HIDE DEF sym, node, f
  <1>5. /\ Depth' = Depth
        /\ \A k \in 1..Depth : cache'[SubSeq(parent', 1, k)].block
                                 = cache[SubSeq(parent, 1, k)].block
    <2>1. CASE mode = "update"
      <3>1. /\ IsTree(cache, Schemes, Syms) /\ parent \in DOMAIN cache
            /\ At(cache, parent, forward) /\ KidsAfter(cache, parent, forward) = {}
        BY <1>2, <2>1 DEF Inv, IsCache, Place, Grafting
      <3>2. /\ IsTree(cache', Schemes, Syms)
            /\ GraftedAt(cache', cache, parent, new, forward, node)
        BY <1>1, <1>2, <2>1, <3>1, LinkIsTree DEF Grafted
      <3>3. forward + 1 \in Nat \ {0} /\ Len(new) = Len(parent) + 1 /\ new \in Path
        BY <1>4, <3>1, FrontOfAppend DEF At
      <3>4. \A k \in 0..Len(parent) : SubSeq(new, 1, k) = SubSeq(parent, 1, k)
        BY <1>4, <3>3, BeginningOfAppend
      <3>5. \A k \in 0..Len(parent) : Len(SubSeq(parent, 1, k)) = k
        BY <1>4, Beginning
      <3> HIDE DEF new
      <3>6. \A k \in 0..Len(parent) : SubSeq(parent, 1, k) # new
        BY <1>4, <3>3, <3>5
      <3>7. Len(frames') = Len(frames) + 1
        BY <1>1, <1>2, AppendProperties DEF Inv, RunTypes
      <3>8. Depth' = Depth
        BY <1>2, <1>4, <2>1, <3>3, <3>7 DEF Depth
      <3>9. \A k \in 0..Len(parent) : cache'[SubSeq(parent, 1, k)].block
                                        = cache[SubSeq(parent, 1, k)].block
        BY <1>4, <3>2, <3>6 DEF GraftedAt
      <3>10. parent' = new /\ \A k \in 1..Depth : k \in 0..Len(parent)
        BY <1>2, <1>4, <2>1
      <3> QED
        BY <3>4, <3>8, <3>9, <3>10
    <2>2. CASE mode # "update"
      BY <1>2, <2>2 DEF Depth
    <2> QED
      BY <2>1, <2>2
  <1>6. /\ Len(frames') = Len(frames) + 1 /\ frames'[Len(frames) + 1] = f
        /\ \A i \in 1..Len(frames) : frames'[i] = frames[i]
    BY <1>1, <1>2, AppendProperties DEF Inv, RunTypes
  <1>7. /\ Len(handler') = Len(handler) + 1 /\ handler'[Len(handler) + 1] = Hit
        /\ \A i \in 1..Len(handler) : handler'[i] = handler[i]
    BY <1>1, <1>2, AppendProperties DEF Inv, RunTypes, Schemes
  <1>8. Told(handler', cache', parent', Depth', frames')
    <2> DEFINE d == Depth
               n == Len(frames)
    <2>1. /\ Len(handler) = 1 + d + n /\ d \in Nat /\ n \in Nat
          /\ \A k \in 1..d : handler[1 + k] = cache[SubSeq(parent, 1, k)].block
          /\ \A i \in 1..n : handler[1 + d + i] = frames[i].block
      BY <1>3, <1>4 DEF Told
    <2>2. \A k \in 1..d : handler'[1 + k] = cache'[SubSeq(parent', 1, k)].block
      BY <1>5, <1>7, <2>1
    <2>3. ASSUME NEW i \in 1..n + 1 PROVE handler'[1 + d + i] = frames'[i].block
      <3>1. CASE i \in 1..n
        <4>1. 1 + d + i \in 1..Len(handler)
          BY <2>1, <3>1
        <4> QED
          BY <1>6, <1>7, <2>1, <3>1, <4>1
      <3>2. CASE i = n + 1
        <4>1. 1 + d + i = Len(handler) + 1
          BY <2>1, <3>2
        <4> QED
          BY <1>1, <1>6, <1>7, <3>2, <4>1
      <3> QED
        BY <2>1, <3>1, <3>2
    <2> QED
      BY <1>5, <1>6, <1>7, <2>1, <2>2, <2>3 DEF Told
  <1> QED
    BY <1>2, <1>3, <1>8 DEF HandlerInv

(* Telling the handler that the innermost block was left.                  *)
LEMMA LeftShorter ==
  ASSUME Inv, cur < endl, NEW n \in Nat, Len(handler) = n + 2
  PROVE  /\ Len(Left(handler)) = n + 1
         /\ \A i \in 1..n + 1 : Left(handler)[i] = handler[i]
  <1>1. handler # <<>> /\ handler \in Seq(Schemes)
    BY EmptySeq DEF Inv, RunTypes
  <1> QED
    BY <1>1, FrontAndLast DEF Left

(* A block that searchBL leaves is the last one told and pending.           *)
LEMMA LeaveBlockTold == ASSUME Inv, HandlerInv, LeaveBlock PROVE HandlerInv'
  <1> DEFINE f == Last(frames)
             n == Len(frames)
             d == Depth
  <1>1. /\ f = frames[n] /\ n \in Nat \ {0} /\ Len(frames') = n - 1
        /\ \A i \in 1..n - 1 : frames'[i] = frames[i]
    BY Innermost
  <1>2. /\ phase = "return" /\ frames # <<>> /\ handler' = Left(handler)
        /\ phase' \in {"line", "scan"}
        /\ UNCHANGED <<mode, cur, endl, filled>>
        /\ IF mode = "update" THEN /\ cache' = Settle(cache, parent, f.forward, f.line)
                                   /\ parent' = Front(parent)
           ELSE UNCHANGED <<cache, parent>>
    BY DEF LeaveBlock, tree, PhaseAt
  <1>3. filled
    BY <1>2 DEF HandlerInv
  <1>4. /\ d \in 0..Len(parent) /\ Len(parent) \in Nat /\ parent \in Path
        /\ \A k \in 0..Len(parent) : SubSeq(parent, 1, k) \in DOMAIN cache
        /\ mode = "update" => Len(parent) = d + n
    BY CachedLevels
  <1> HIDE DEF f
  <1>5. /\ Depth' = d
        /\ \A k \in 1..d : cache'[SubSeq(parent', 1, k)].block
                             = cache[SubSeq(parent, 1, k)].block
    <2>1. CASE mode = "update"
      <3>1. /\ IsCache(cache) /\ parent \in DOMAIN cache /\ parent # Root /\ cur \in Nat
            /\ f.forward \in Nat
        <4>1. f \in FrameTypes
          BY Innermost DEF f
        <4>2. parent # Root
          <5>1. Len(parent) # 0
            BY <1>1, <1>4, <2>1
          <5> QED
            BY <5>1, EmptySeq DEF Root
        <4> QED
          BY <1>1, <1>4, <2>1, <4>1, <4>2, EmptySeq DEF Inv, Place, RunTypes, FrameTypes
      <3>2. /\ Front(parent) \in DOMAIN cache /\ Len(Front(parent)) = Len(parent) - 1
            /\ Front(parent) = SubSeq(parent, 1, Len(parent) - 1)
        BY <1>4, <3>1, ParentOf, AppendOfFront DEF Front
      <3>3. Depth' = d
        <4>1. Depth' = Len(parent') - Len(frames')
          BY <1>2, <2>1 DEF Depth
        <4> HIDE DEF d
        <4> QED
          BY <1>1, <1>2, <1>4, <2>1, <3>2, <4>1
      <3>4. \A k \in 0..Len(parent) - 1 : SubSeq(parent', 1, k) = SubSeq(parent, 1, k)
        BY <1>2, <1>4, <2>1, <3>2, BeginningOfBeginning
      <3>5. IsCache(cache') /\ parent' \in DOMAIN cache'
            /\ \A q \in DOMAIN cache' : cache'[q].block = cache[q].block
        <4>1. CASE f.line = cur
          <5>1. cache' = DropKidsAfter(cache, Front(parent), f.forward)
            BY <1>2, <2>1, <4>1 DEF Settle
          <5>2. IsCache(cache') /\ Front(parent) \in DOMAIN cache'
            BY <3>1, <3>2, <5>1, DroppedIsCache
          <5>3. \A q \in DOMAIN cache' : cache'[q].block = cache[q].block
            BY <3>1, <3>2, <5>1, DroppedBlocks
          <5> QED
            BY <1>2, <2>1, <5>2, <5>3
        <4>2. CASE f.line # cur
          <5>1. cache' = [cache EXCEPT ![parent].eline = cur]
            BY <1>2, <2>1, <4>2 DEF Settle
          <5>2. IsCache(cache') /\ DOMAIN cache' = DOMAIN cache
            BY <3>1, <5>1, EndedIsCache
          <5>3. \A q \in DOMAIN cache' : cache'[q].block = cache[q].block
            BY <3>1, <5>1, EndedBlocks
          <5> QED
            BY <1>2, <2>1, <3>2, <5>2, <5>3
        <4> QED
          BY <4>1, <4>2
      <3>6. \A k \in 0..Len(parent) - 1 : SubSeq(parent', 1, k) \in DOMAIN cache'
        BY <1>2, <1>4, <2>1, <3>2, <3>5 DEF IsCache, IsTree, Rooted
      <3>7. d <= Len(parent) - 1
        BY <1>1, <1>4, <2>1
      <3>8. \A k \in 1..d : k \in 0..Len(parent) - 1
        BY <1>4, <3>7
      <3> QED
        BY <3>3, <3>4, <3>5, <3>6, <3>8
    <2>2. CASE mode # "update"
      BY <1>2, <2>2 DEF Depth
    <2> QED
      BY <2>1, <2>2
  <1>6. ASSUME cur < endl PROVE Told(handler', cache', parent', Depth', frames')
    <2>1. /\ Len(handler) = 1 + d + n /\ d \in Nat
          /\ \A k \in 1..d : handler[1 + k] = cache[SubSeq(parent, 1, k)].block
          /\ \A i \in 1..n : handler[1 + d + i] = frames[i].block
      BY <1>2, <1>3, <1>4, <1>6 DEF HandlerInv, Told
    <2>2. PICK m \in Nat : n = m + 1
      BY <1>1
    <2>3. /\ Len(handler') = 1 + d + m
          /\ \A i \in 1..1 + d + m : handler'[i] = handler[i]
      <3>1. PICK l \in Nat : l = d + m
        BY <2>1
      <3>2. Len(handler) = l + 2
        BY <2>1, <2>2, <3>1
      <3>3. Len(handler') = l + 1 /\ \A i \in 1..l + 1 : handler'[i] = handler[i]
        BY <1>2, <1>6, <3>2, LeftShorter
      <3> QED
        BY <2>1, <3>1, <3>3
    <2>4. \A k \in 1..d : handler'[1 + k] = cache'[SubSeq(parent', 1, k)].block
      BY <1>5, <2>1, <2>2, <2>3
    <2>5. \A i \in 1..m : handler'[1 + d + i] = frames'[i].block
      BY <1>1, <2>1, <2>2, <2>3
    <2> QED
      BY <1>1, <1>5, <2>2, <2>3, <2>4, <2>5 DEF Told
  <1> QED
    BY <1>2, <1>3, <1>6 DEF HandlerInv

(* Forgetting stale children keeps the blocks above them.                   *)
LEMMA StartLevelTold == ASSUME Inv, HandlerInv, StartLevel PROVE HandlerInv'
  <1>1. /\ phase = "level" /\ phase' = "line" /\ frames = <<>>
        /\ UNCHANGED <<parent, mode, frames, cur, endl, filled, handler>>
        /\ cache' = IF mode = "update" THEN DropStale(cache, parent, forward) ELSE cache
    BY DEF StartLevel, where, Inv, Positions
  <1>2. /\ Depth \in 0..Len(parent) /\ Len(parent) \in Nat /\ parent \in Path
        /\ \A k \in 0..Len(parent) : SubSeq(parent, 1, k) \in DOMAIN cache
    BY CachedLevels
  <1>3. \A k \in 1..Depth : cache'[SubSeq(parent, 1, k)].block
                              = cache[SubSeq(parent, 1, k)].block
    <2>1. CASE mode = "update"
      <3>1. IsCache(cache) /\ parent \in DOMAIN cache /\ forward \in Nat
        BY DEF Inv, Place
      <3>2. cache' = DropKidsAfter(cache, parent, forward)
        BY <1>1, <1>2, <2>1, <3>1, FrontOfAppend DEF DropStale, DropChildren, DropNext
      <3>3. IsCache(cache') /\ parent \in DOMAIN cache'
        BY <3>1, <3>2, DroppedIsCache
      <3>4. \A q \in DOMAIN cache' : cache'[q].block = cache[q].block
        BY <3>1, <3>2, DroppedBlocks
      <3>5. \A k \in 0..Len(parent) : SubSeq(parent, 1, k) \in DOMAIN cache'
        BY <3>3 DEF IsCache, IsTree, Rooted
      <3> QED
        BY <1>2, <3>4, <3>5
    <2>2. CASE mode # "update"
      BY <1>1, <2>2
    <2> QED
      BY <2>1, <2>2
  <1>4. Depth' = Depth
    BY <1>1 DEF Depth
  <1> QED
    BY <1>1, <1>3, <1>4 DEF HandlerInv, Told

(* Leaving a level leaves its cached block.                                 *)
LEMMA LeaveLevelTold == ASSUME Inv, HandlerInv, LeaveLevel PROVE HandlerInv'
  <1> DEFINE n == Len(parent)
  <1>1. /\ phase = "return" /\ phase' = "level" /\ frames = <<>> /\ parent # Root
        /\ UNCHANGED <<mode, frames, cur, endl, filled>>
        /\ handler' = Left(handler) /\ parent' = Front(parent)
        /\ cache' = IF mode = "update" THEN Closed(cache, parent) ELSE cache
    BY DEF LeaveLevel, matching
  <1>2. /\ n \in Nat /\ parent \in Path
        /\ \A k \in 0..n : SubSeq(parent, 1, k) \in DOMAIN cache
    BY CachedLevels
  <1>3. IsCache(cache) /\ parent \in DOMAIN cache /\ cur \in Nat
    BY DEF Inv, Place, RunTypes
  <1>4. DOMAIN cache' = DOMAIN cache /\ \A q \in DOMAIN cache' : cache'[q].block = cache[q].block
    <2>1. CASE mode = "update"
      <3>1. cache' = [cache EXCEPT ![parent].eline = cur]
        BY <1>1, <2>1 DEF Closed
      <3> QED
        BY <1>3, <3>1, EndedIsCache, EndedBlocks
    <2>2. CASE mode # "update"
      BY <1>1, <2>2
    <2> QED
      BY <2>1, <2>2
  <1>5. n \in Nat \ {0} /\ Len(parent') = n - 1 /\ parent' = SubSeq(parent, 1, n - 1)
    BY <1>1, <1>2, AppendOfFront, EmptySeq DEF Path, Root, Front
  <1>6. Len(frames) = 0 /\ Depth = n /\ Depth' = n - 1
    BY <1>1, <1>2, <1>5, EmptySeq DEF Depth
  <1>7. ASSUME ~ filled PROVE handler' = <<Base>>
    BY <1>1, <1>7 DEF HandlerInv, Left
  <1>8. ASSUME filled, cur < endl PROVE Told(handler', cache', parent', Depth', frames')
    <2>1. PICK m \in Nat : n = m + 1
      BY <1>5
    <2>2. /\ Len(handler) = m + 2
          /\ \A k \in 1..n : handler[1 + k] = cache[SubSeq(parent, 1, k)].block
      BY <1>1, <1>2, <1>6, <1>8, <2>1 DEF HandlerInv, Told
    <2>3. Len(handler') = m + 1 /\ \A i \in 1..m + 1 : handler'[i] = handler[i]
      BY <1>1, <1>8, <2>2, LeftShorter
    <2>4. \A k \in 1..m : SubSeq(parent', 1, k) = SubSeq(parent, 1, k)
      BY <1>2, <1>5, <2>1, BeginningOfBeginning
    <2>5. ASSUME NEW k \in 1..m PROVE handler'[1 + k] = cache'[SubSeq(parent', 1, k)].block
      <3>1. k \in 1..n /\ k \in 0..n /\ 1 + k \in 1..m + 1
        BY <2>1
      <3>2. cache'[SubSeq(parent, 1, k)].block = cache[SubSeq(parent, 1, k)].block
        BY <1>2, <1>4, <3>1
      <3> QED
        BY <2>2, <2>3, <2>4, <3>1, <3>2
    <2> QED
      BY <1>1, <1>6, <2>1, <2>3, <2>5 DEF Told
  <1> QED
    BY <1>1, <1>7, <1>8 DEF HandlerInv

-----------------------------------------------------------------------------
(* A step of the parser keeps the handler in step with it.                 *)
LEMMA StepTold ==
  ASSUME Inv, HandlerInv, Step, Unavailable = {{}}
  PROVE  HandlerInv'
  <1> USE DEF tree, where, matching
  <1>1. CASE LinesExhausted
    <2>1. cur \in Int /\ endl \in Int
      BY TextAssumption DEF Inv, RunTypes, TextAssumption
    <2>2. ~ (cur < endl)
      BY <1>1, <2>1 DEF LinesExhausted
    <2> QED
      BY <1>1, <2>2, Silent DEF LinesExhausted
  <1>2. CASE LineMissing
    BY <1>2 DEF LineMissing, Inv, ClientTypes
  <1>3. CASE ScanNothing
    BY <1>3, Silent DEF ScanNothing, Scanning, HandlerInv
  <1>4. CASE ScanRegexp
    <2>1. phase' \in {"line", "scan"}
      BY <1>4 DEF ScanRegexp, PhaseAt
    <2> QED
      BY <1>4, <2>1, Silent DEF ScanRegexp, Scanning, HandlerInv
  <1>5. CASE EndOfBlock
    <2>1. cur < endl /\ filled /\ phase # "idle"
      BY <1>5 DEF EndOfBlock, HandlerInv, Inv, Positions
    <2> QED
      BY <1>5, <2>1, Silent DEF EndOfBlock
  <1>6. CASE NextLine
    <2>1. cur < endl /\ phase # "idle"
      BY <1>6 DEF NextLine, Inv, Positions
    <2> QED
      BY <1>6, <2>1, Silent DEF NextLine
  <1>7. CASE Finish
    BY <1>7 DEF Finish, HandlerInv
  <1> QED
    BY <1>1, <1>2, <1>3, <1>4, <1>5, <1>6, <1>7, StartLevelTold, LineBeginTold,
       EnterBlockTold, LeaveBlockTold, LeaveLevelTold DEF Step

(* A parse starts with a handler that knows the background only.           *)
LEMMA StartParseTold ==
  ASSUME Inv, phase = "idle", NEW t, NEW from, NEW num, NEW m, StartParse(t, from, num, m)
  PROVE  HandlerInv'
  <1>1. frames = <<>>
    BY DEF Inv, Positions
  <1>2. phase' = "level" /\ filled' = FALSE /\ handler' = <<Base>> /\ frames' = frames
    BY DEF StartParse
  <1> QED
    BY <1>1, <1>2 DEF HandlerInv

(* Nothing the client does between two parses matters to the handler.       *)
LEMMA ClientTold == ASSUME Inv, HandlerInv, Client PROVE HandlerInv'
  <1>1. ASSUME NEW from \in 0..LineCount, NEW num \in 0..LineCount, NEW m \in Modes,
               Parse(from, num, m)
        PROVE  HandlerInv'
    BY <1>1, StartParseTold DEF Parse
  <1>2. ASSUME NEW l \in LineNos, NEW line \in Lines, TryParseLine(l, line)
        PROVE  HandlerInv'
    BY <1>2, StartParseTold DEF TryParseLine
  <1>3. CASE SetFileType
    BY <1>3 DEF SetFileType, ClearCache, HandlerInv
  <1>4. ASSUME NEW l \in LineNos, NEW line \in Lines, NEW gone \in Unavailable,
               Edit(l, line, gone)
        PROVE  HandlerInv'
    BY <1>4 DEF Edit, HandlerInv
  <1>5. CASE BreakParse
    <2>1. UNCHANGED <<cache, parent, mode, frames, filled, handler, cur, endl, phase>>
      BY <1>5 DEF BreakParse, tree, where
    <2>2. CASE phase # "idle"
      BY <2>1, <2>2, Silent DEF HandlerInv
    <2>3. CASE phase = "idle"
      BY <2>1, <2>3 DEF HandlerInv
    <2> QED
      BY <2>2, <2>3
  <1> QED
    BY <1>1, <1>2, <1>3, <1>4, <1>5 DEF Client

(* HandlerInv is kept by every step when no line is missing.                *)
LEMMA HandlerNext ==
  ASSUME Unavailable = {{}}, Inv, HandlerInv, [Next]_vars
  PROVE  HandlerInv'
  <1>1. CASE UNCHANGED vars
    <2>1. UNCHANGED <<phase, cache, parent, mode, frames, filled, handler, cur, endl>>
      BY <1>1 DEF vars, tree, where
    <2>2. Depth' = Depth
      BY <2>1 DEF Depth
    <2> QED
      BY <2>1, <2>2 DEF HandlerInv
  <1> QED
    BY <1>1, StepTold, ClientTold DEF Next

(* What the handler was told of last is the block that is being left.      *)
LEMMA ToldMatches == ASSUME Inv, HandlerInv PROVE LeavesMatch
  <1> SUFFICES ASSUME phase = "return", cur < endl, frames # <<>> \/ parent # Root
               PROVE  Len(handler) > 1 /\ Last(handler) = EndBlock
    BY DEF LeavesMatch
  <1>1. Told(handler, cache, parent, Depth, frames)
    BY DEF HandlerInv
  <1>2. /\ Depth \in 0..Len(parent) /\ Len(parent) \in Nat /\ parent \in Path
        /\ Len(frames) \in Nat
    BY CachedLevels
  <1>3. CASE frames # <<>>
    <2>1. Len(frames) # 0
      BY <1>3, EmptySeq DEF Inv, RunTypes
    <2>2. handler[1 + Depth + Len(frames)] = frames[Len(frames)].block
      BY <1>1, <1>2, <2>1 DEF Told
    <2> QED
      BY <1>1, <1>2, <1>3, <2>1, <2>2 DEF Told, Last, EndBlock
  <1>4. CASE frames = <<>>
    <2>1. Len(frames) = 0 /\ Len(parent) # 0
      BY <1>2, <1>4, EmptySeq DEF Path, Root
    <2>2. Depth = Len(parent)
      BY <1>2, <2>1 DEF Depth
    <2>3. handler[1 + Len(parent)] = cache[SubSeq(parent, 1, Len(parent))].block
      BY <1>1, <1>2, <2>1, <2>2 DEF Told
    <2>4. SubSeq(parent, 1, Len(parent)) = parent
      BY <1>2, Beginning
    <2>5. Len(handler) = 1 + Len(parent)
      BY <1>1, <1>2, <2>1, <2>2 DEF Told
    <2>6. Last(handler) = cache[parent].block
      BY <2>3, <2>4, <2>5, Zenon DEF Last
    <2>7. Len(handler) > 1
      BY <1>2, <2>1, <2>5
    <2> QED
      BY <1>4, <2>6, <2>7 DEF EndBlock
  <1> QED
    BY <1>3, <1>4

(* Every leaveScheme that a handler is sent closes the scheme it was told  *)
(* of last, and never the background, as long as getLine returns every     *)
(* line.                                                                   *)
THEOREM LeavesAreMatched ==
  ASSUME Unavailable = {{}}
  PROVE  Spec => []LeavesMatch
  <1>1. Init => HandlerInv
    BY DEF Init, HandlerInv
  <1>2. Inv /\ HandlerInv /\ [Next]_vars => HandlerInv'
    BY HandlerNext
  <1>3. Inv /\ HandlerInv => LeavesMatch
    BY ToldMatches
  <1> QED
    BY <1>1, <1>2, <1>3, InitInv, NextInv, PTL DEF Spec

-----------------------------------------------------------------------------
(* The block and the start text that level i of the running colorize() is  *)
(* in, counted from the block parse() resumed: b0, started by s0.           *)
BlockAt(fs, b0, i) == IF i = 0 THEN b0 ELSE fs[i].block
SymAt(fs, s0, i) == IF i = 0 THEN s0 ELSE fs[i].sym

(* No level above i, up to j, is in a block of this kind.                  *)
FreeOf(fs, b, i, j) == \A m \in i + 1 .. j : fs[m].block # b

(* The end expression of a block holds the start text of the innermost     *)
(* level in a block of its kind; what it held before, for the level next   *)
(* further out, waits in that level's frame.                               *)
Traced(tr, fs, b0, s0) ==
  /\ \A i \in 0..Len(fs) :
       LET b == BlockAt(fs, b0, i)
       IN  b # Base /\ FreeOf(fs, b, i, Len(fs)) => tr[b] = SymAt(fs, s0, i)
  /\ \A i \in 0..Len(fs), j \in 1..Len(fs) :
       i < j /\ fs[j].block = BlockAt(fs, b0, i) /\ FreeOf(fs, fs[j].block, i, j - 1)
         => fs[j].trace = SymAt(fs, s0, i)

(* The scheme searchMatch works on is that of the innermost level, and     *)
(* each frame holds that of the level around its own.                      *)
Chained(scheme, fs, b0) ==
  /\ scheme = BlockAt(fs, b0, Len(fs))
  /\ \A i \in 1..Len(fs) : fs[i].scheme = BlockAt(fs, b0, i - 1)

(* The node of the block that parse() resumed.                             *)
Resumed == cache[SubSeq(parent, 1, Depth)]

Running == phase \in {"line", "scan", "return"}

LevelsInv ==
  Running => /\ Traced(trace, frames, Resumed.block, Resumed.sym)
             /\ Chained(baseScheme, frames, Resumed.block)

-----------------------------------------------------------------------------
(* A level is in a block or, outermost, in the base scheme.                *)
LEMMA BlockAtType ==
  ASSUME NEW fs \in Seq(FrameTypes), NEW b0 \in Schemes, NEW i \in 0..Len(fs)
  PROVE  BlockAt(fs, b0, i) \in Schemes
  <1>1. CASE i = 0
    BY <1>1 DEF BlockAt
  <1>2. CASE i \in 1..Len(fs)
    <2>1. fs[i] \in FrameTypes
      BY <1>2, ElementOfSeq
    <2>2. BlockAt(fs, b0, i) = fs[i].block
      BY <1>2 DEF BlockAt
    <2> QED
      BY <2>1, <2>2 DEF FrameTypes, Schemes
  <1>3. Len(fs) \in Nat
    OBVIOUS
  <1> QED
    BY <1>1, <1>2, <1>3

(* Entering a block: its end expression takes the new start text and the   *)
(* frame the old one.                                                      *)
LEMMA TracedPush ==
  ASSUME NEW fs \in Seq(FrameTypes), NEW f \in FrameTypes, NEW s0, NEW b0 \in Schemes,
         NEW tr \in [Blocks -> Symbols \cup {NoSym}],
         Traced(tr, fs, b0, s0), f.trace = tr[f.block],
         NEW sch, Chained(sch, fs, b0), f.scheme = sch
  PROVE  /\ Traced([tr EXCEPT ![f.block] = f.sym], Append(fs, f), b0, s0)
         /\ Chained(f.block, Append(fs, f), b0)
  <1> DEFINE n == Len(fs)
             gs == Append(fs, f)
             ur == [tr EXCEPT ![f.block] = f.sym]
  <1>1. /\ n \in Nat /\ Len(gs) = n + 1 /\ gs[n + 1] = f
        /\ \A i \in 1..n : gs[i] = fs[i]
    BY AppendProperties, LenProperties
  <1>2. f.block \in Blocks /\ f.block # Base
    BY SchemeAssumption DEF FrameTypes, SchemeAssumption, Nodes
  <1>3. \A b \in Blocks : ur[b] = IF b = f.block THEN f.sym ELSE tr[b]
    BY <1>2
  <1> HIDE DEF gs, ur
  <1>4. /\ \A i \in 0..n : BlockAt(gs, b0, i) = BlockAt(fs, b0, i)
                           /\ SymAt(gs, s0, i) = SymAt(fs, s0, i)
        /\ BlockAt(gs, b0, n + 1) = f.block /\ SymAt(gs, s0, n + 1) = f.sym
    BY <1>1 DEF BlockAt, SymAt
  <1>5. \A b, i, j : i \in Nat /\ j \in 0..n => FreeOf(gs, b, i, j) = FreeOf(fs, b, i, j)
    BY <1>1 DEF FreeOf
  <1>6. \A b : \A i \in 0..n : FreeOf(gs, b, i, n + 1) => FreeOf(fs, b, i, n) /\ b # f.block
    BY <1>1 DEF FreeOf
  <1>7. ASSUME NEW i \in 0..n + 1, BlockAt(gs, b0, i) # Base,
               FreeOf(gs, BlockAt(gs, b0, i), i, n + 1)
        PROVE  ur[BlockAt(gs, b0, i)] = SymAt(gs, s0, i)
    <2>1. CASE i = n + 1
      BY <1>2, <1>3, <1>4, <2>1
    <2>2. CASE i \in 0..n
      <3> DEFINE b == BlockAt(fs, b0, i)
      <3>1. b = BlockAt(gs, b0, i) /\ b # Base /\ b \in Blocks
        <4>1. b \in Schemes
          BY <1>1, <2>2, BlockAtType
        <4> QED
          BY <1>4, <1>7, <2>2, <4>1 DEF Schemes
      <3> HIDE DEF b
      <3>2. FreeOf(fs, b, i, n) /\ b # f.block
        BY <1>6, <1>7, <2>2, <3>1
      <3>3. tr[b] = SymAt(fs, s0, i)
        BY <2>2, <3>1, <3>2 DEF Traced, b
      <3> QED
        BY <1>3, <1>4, <2>2, <3>1, <3>2, <3>3
    <2> QED
      BY <1>1, <2>1, <2>2
  <1>8. ASSUME NEW i \in 0..n + 1, NEW j \in 1..n + 1, i < j,
               gs[j].block = BlockAt(gs, b0, i), FreeOf(gs, gs[j].block, i, j - 1)
        PROVE  gs[j].trace = SymAt(gs, s0, i)
    <2>1. i \in 0..n /\ i \in Nat /\ j - 1 \in 0..n
      BY <1>1, <1>8
    <2>2. CASE j = n + 1
      <3>1. /\ f.block = BlockAt(fs, b0, i) /\ FreeOf(fs, f.block, i, n)
        BY <1>1, <1>4, <1>5, <1>8, <2>1, <2>2
      <3>2. tr[f.block] = SymAt(fs, s0, i)
        BY <1>2, <2>1, <3>1 DEF Traced
      <3> QED
        BY <1>1, <1>4, <2>1, <2>2, <3>2
    <2>3. CASE j \in 1..n
      <3>1. /\ gs[j] = fs[j] /\ fs[j].block = BlockAt(fs, b0, i)
            /\ FreeOf(fs, fs[j].block, i, j - 1)
        BY <1>1, <1>4, <1>5, <1>8, <2>1, <2>3
      <3> QED
        BY <1>4, <1>8, <2>1, <2>3, <3>1 DEF Traced
    <2> QED
      BY <1>1, <2>2, <2>3
  <1>9. Traced(ur, gs, b0, s0)
    BY <1>1, <1>7, <1>8 DEF Traced
  <1>10. Chained(f.block, gs, b0)
    <2>1. ASSUME NEW i \in 1..n + 1 PROVE gs[i].scheme = BlockAt(gs, b0, i - 1)
      <3>1. i - 1 \in 0..n
        BY <1>1
      <3>2. CASE i = n + 1
        BY <1>1, <1>4, <3>1, <3>2 DEF Chained
      <3>3. CASE i \in 1..n
        BY <1>1, <1>4, <3>1, <3>3 DEF Chained
      <3> QED
        BY <1>1, <3>2, <3>3
    <2> QED
      BY <1>1, <1>4, <2>1 DEF Chained
  <1> QED
    BY <1>9, <1>10 DEF gs, ur

(* Leaving it: the end expression gets the old one back.                   *)
LEMMA TracedPop ==
  ASSUME NEW fs \in Seq(FrameTypes), fs # <<>>, NEW s0, NEW b0 \in Schemes,
         NEW tr \in [Blocks -> Symbols \cup {NoSym}],
         Traced(tr, fs, b0, s0), NEW sch, Chained(sch, fs, b0)
  PROVE  /\ Traced([tr EXCEPT ![Last(fs).block] = Last(fs).trace], Front(fs), b0, s0)
         /\ Chained(Last(fs).scheme, Front(fs), b0)
  <1> DEFINE f == Last(fs)
             gs == Front(fs)
             ur == [tr EXCEPT ![f.block] = f.trace]
  <1>1. PICK n \in Nat : Len(fs) = n + 1
    <2>1. Len(fs) - 1 \in Nat
      BY FrontAndLast
    <2> QED
      BY <2>1
  <1>2. /\ f \in FrameTypes /\ f = fs[n + 1] /\ Len(gs) = n
        /\ \A i \in 1..n : gs[i] = fs[i]
    <2>1. (n + 1) - 1 = n
      BY <1>1
    <2> QED
      BY <1>1, <2>1, FrontAndLast
  <1>3. f.block \in Blocks /\ f.block # Base
    BY <1>2, SchemeAssumption DEF FrameTypes, SchemeAssumption, Nodes
  <1>4. \A b \in Blocks : ur[b] = IF b = f.block THEN f.trace ELSE tr[b]
    BY <1>3
  <1> HIDE DEF f, gs, ur
  <1>5. \A i \in 0..n : BlockAt(gs, b0, i) = BlockAt(fs, b0, i)
                        /\ SymAt(gs, s0, i) = SymAt(fs, s0, i)
    BY <1>1, <1>2 DEF BlockAt, SymAt
  <1>6. \A b, i, j : i \in Nat /\ j \in 0..n => FreeOf(gs, b, i, j) = FreeOf(fs, b, i, j)
    BY <1>1, <1>2 DEF FreeOf
  <1>7. \A b : \A i \in 0..n : FreeOf(fs, b, i, n) /\ b # f.block => FreeOf(fs, b, i, n + 1)
    BY <1>1, <1>2 DEF FreeOf
  <1>8. ASSUME NEW i \in 0..n, BlockAt(gs, b0, i) # Base,
               FreeOf(gs, BlockAt(gs, b0, i), i, n)
        PROVE  ur[BlockAt(gs, b0, i)] = SymAt(gs, s0, i)
    <2> DEFINE b == BlockAt(fs, b0, i)
    <2>1. b = BlockAt(gs, b0, i) /\ b # Base /\ FreeOf(fs, b, i, n) /\ b \in Blocks
      <3>1. b \in Schemes
        BY <1>1, BlockAtType
      <3> QED
        BY <1>1, <1>5, <1>6, <1>8, <3>1 DEF Schemes
    <2> HIDE DEF b
    <2>2. CASE b = f.block
      <3>1. /\ i \in 0..Len(fs) /\ n + 1 \in 1..Len(fs) /\ i < n + 1 /\ (n + 1) - 1 = n
            /\ fs[n + 1].block = BlockAt(fs, b0, i)
        BY <1>1, <1>2, <2>2 DEF b
      <3>2. fs[n + 1].trace = SymAt(fs, s0, i)
        BY <1>2, <2>1, <2>2, <3>1 DEF Traced
      <3> QED
        BY <1>2, <1>4, <1>5, <2>1, <2>2, <3>2
    <2>3. CASE b # f.block
      <3>1. FreeOf(fs, b, i, Len(fs)) /\ i \in 0..Len(fs)
        BY <1>1, <1>7, <2>1, <2>3
      <3>2. tr[b] = SymAt(fs, s0, i)
        BY <2>1, <3>1 DEF Traced, b
      <3> QED
        BY <1>4, <1>5, <2>1, <2>3, <3>2
    <2> QED
      BY <2>2, <2>3
  <1>9. ASSUME NEW i \in 0..n, NEW j \in 1..n, i < j,
               gs[j].block = BlockAt(gs, b0, i), FreeOf(gs, gs[j].block, i, j - 1)
        PROVE  gs[j].trace = SymAt(gs, s0, i)
    <2>1. i \in Nat /\ j - 1 \in 0..n /\ i \in 0..Len(fs) /\ j \in 1..Len(fs)
      BY <1>1
    <2>2. /\ gs[j] = fs[j] /\ fs[j].block = BlockAt(fs, b0, i)
          /\ FreeOf(fs, fs[j].block, i, j - 1)
      BY <1>2, <1>5, <1>6, <1>9, <2>1
    <2> QED
      BY <1>5, <1>9, <2>1, <2>2 DEF Traced
  <1>10. Traced(ur, gs, b0, s0)
    BY <1>2, <1>8, <1>9 DEF Traced
  <1>11. Chained(f.scheme, gs, b0)
    <2>1. f.scheme = BlockAt(gs, b0, n)
      <3>1. n + 1 \in 1..Len(fs) /\ (n + 1) - 1 = n /\ n \in 0..n
        BY <1>1
      <3> QED
        BY <1>2, <1>5, <3>1 DEF Chained
    <2>2. ASSUME NEW i \in 1..n PROVE gs[i].scheme = BlockAt(gs, b0, i - 1)
      <3>1. i - 1 \in 0..n /\ i \in 1..Len(fs)
        BY <1>1
      <3> QED
        BY <1>2, <1>5, <3>1 DEF Chained
    <2> QED
      BY <1>2, <2>1, <2>2 DEF Chained
  <1> QED
    BY <1>10, <1>11 DEF f, gs, ur

-----------------------------------------------------------------------------
(* The resumed block is a node of the cache.                               *)
LEMMA ResumedType ==
  ASSUME Inv
  PROVE  /\ Resumed \in NodesOf(Schemes, Syms)
         /\ Depth = Len(parent) => Resumed = cache[parent]
         /\ SubSeq(parent, 1, Depth) \in DOMAIN cache
  <1>1. /\ Depth \in 0..Len(parent) /\ Len(parent) \in Nat /\ parent \in Path
        /\ \A k \in 0..Len(parent) : SubSeq(parent, 1, k) \in DOMAIN cache
    BY CachedLevels
  <1>2. SubSeq(parent, 1, Len(parent)) = parent
    BY <1>1, Beginning
  <1> QED
    BY <1>1, <1>2 DEF Resumed, Inv, IsCache, IsTree

(* A path that is kept keeps the resumed block.                            *)
LEMMA ResumedKept ==
  ASSUME Inv, NEW n \in Nat, Depth <= n, KeepsPath(n), Depth' = Depth
  PROVE  Resumed'.block = Resumed.block /\ Resumed'.sym = Resumed.sym
  <1>1. Depth \in 0..n
    BY CachedLevels
  <1> QED
    BY <1>1 DEF KeepsPath, Keeps, Resumed

(* Resuming a block sets its back trace, and nothing is pending.            *)
LEMMA StartLevelLevels == ASSUME Inv, LevelsInv, StartLevel PROVE LevelsInv'
  <1>1. /\ KeepsPath(Len(parent)) /\ Depth = Len(parent) /\ Depth' = Depth
        /\ frames = <<>> /\ Len(frames) = 0
    BY StartLevelPath
  <1>2. Len(parent) \in Nat /\ parent \in DOMAIN cache
    BY CachedLevels DEF Inv, Place
  <1>3. /\ Resumed'.block = cache[parent].block /\ Resumed'.sym = cache[parent].sym
        /\ cache[parent].block = Base <=> parent = Root
        /\ cache[parent] \in NodesOf(Schemes, Syms)
    BY <1>1, <1>2, ResumedType, ResumedKept DEF Inv, IsCache
  <1>4. /\ frames' = <<>> /\ baseScheme' = cache[parent].block
        /\ trace' = IF parent = Root THEN trace
                    ELSE [trace EXCEPT ![cache[parent].block] = cache[parent].sym]
    BY <1>1 DEF StartLevel
  <1>5. cache[parent].block # Base => trace'[cache[parent].block] = cache[parent].sym
    BY <1>3, <1>4 DEF Inv, RunTypes, NodesOf, Schemes
  <1>6. Traced(trace', frames', Resumed'.block, Resumed'.sym)
    BY <1>1, <1>3, <1>4, <1>5 DEF Traced, BlockAt, SymAt
  <1>7. Chained(baseScheme', frames', Resumed'.block)
    BY <1>1, <1>3, <1>4 DEF Chained, BlockAt
  <1> QED
    BY <1>6, <1>7 DEF LevelsInv

(* searchBL enters a block.                                                *)
LEMMA EnterBlockLevels == ASSUME Inv, LevelsInv, EnterBlock PROVE LevelsInv'
  <1> DEFINE f == FrameOf(Hit, text[cur][gx + 1])
  <1>1. /\ f \in FrameTypes /\ f.trace = trace[f.block] /\ f.scheme = baseScheme
        /\ Running /\ frames' = Append(frames, f) /\ baseScheme' = f.block
        /\ trace' = [trace EXCEPT ![f.block] = f.sym]
    BY EnterBlockTypes DEF EnterBlock, Scanning, Running, FrameOf
  <1> HIDE DEF f
  <1>2. Resumed'.block = Resumed.block /\ Resumed'.sym = Resumed.sym
    BY EnterBlockPath, CachedLevels, ResumedKept
  <1>3. Resumed.block \in Schemes
    BY ResumedType DEF NodesOf
  <1>4. /\ Traced(trace, frames, Resumed.block, Resumed.sym)
        /\ Chained(baseScheme, frames, Resumed.block)
        /\ frames \in Seq(FrameTypes) /\ trace \in [Blocks -> Symbols \cup {NoSym}]
    BY <1>1 DEF LevelsInv, Inv, RunTypes
  <1>5. /\ Traced([trace EXCEPT ![f.block] = f.sym], Append(frames, f), Resumed.block,
                  Resumed.sym)
        /\ Chained(f.block, Append(frames, f), Resumed.block)
    BY <1>1, <1>3, <1>4, TracedPush
  <1> QED
    BY <1>1, <1>2, <1>5 DEF LevelsInv

(* searchBL leaves a block.                                                *)
LEMMA LeaveBlockLevels == ASSUME Inv, LevelsInv, LeaveBlock PROVE LevelsInv'
  <1>1. /\ Running /\ frames # <<>> /\ frames' = Front(frames)
        /\ baseScheme' = Last(frames).scheme
        /\ trace' = [trace EXCEPT ![Last(frames).block] = Last(frames).trace]
    BY DEF LeaveBlock, Running, Restored
  <1>2. Resumed'.block = Resumed.block /\ Resumed'.sym = Resumed.sym
    <2>1. CASE mode = "update"
      <3>1. /\ Len(parent) - 1 \in Nat /\ KeepsPath(Len(parent) - 1)
            /\ Depth < Len(parent) /\ Depth' = Depth
        BY <2>1, LeaveBlockPath
      <3>2. Depth <= Len(parent) - 1
        BY <3>1, CachedLevels
      <3> QED
        BY <3>1, <3>2, ResumedKept
    <2>2. CASE mode # "update"
      BY <2>2, LeaveBlockPath DEF Resumed
    <2> QED
      BY <2>1, <2>2
  <1>3. Resumed.block \in Schemes
    BY ResumedType DEF NodesOf
  <1>4. /\ Traced(trace, frames, Resumed.block, Resumed.sym)
        /\ Chained(baseScheme, frames, Resumed.block)
        /\ frames \in Seq(FrameTypes) /\ trace \in [Blocks -> Symbols \cup {NoSym}]
    BY <1>1 DEF LevelsInv, Inv, RunTypes
  <1>5. /\ Traced([trace EXCEPT ![Last(frames).block] = Last(frames).trace], Front(frames),
                  Resumed.block, Resumed.sym)
        /\ Chained(Last(frames).scheme, Front(frames), Resumed.block)
    BY <1>1, <1>3, <1>4, TracedPop
  <1> QED
    BY <1>1, <1>2, <1>5 DEF LevelsInv

(* Nothing else touches end expressions or frames.                          *)
LEMMA LevelsNext == Inv /\ LevelsInv /\ [Next]_vars => LevelsInv'
  <1> SUFFICES ASSUME Inv, LevelsInv, [Next]_vars PROVE LevelsInv'
    OBVIOUS
  <1>1. ASSUME UNCHANGED <<trace, baseScheme, frames, cache, parent, mode>>, Running' => Running
        PROVE  LevelsInv'
    BY <1>1 DEF LevelsInv, Resumed, Depth
  <1>2. ASSUME ~ Running' PROVE LevelsInv'
    BY <1>2 DEF LevelsInv
  <1> USE DEF tree, matching, Running
  <1>3. CASE LinesExhausted
    BY <1>1, <1>3 DEF LinesExhausted
  <1>4. CASE LineMissing
    BY <1>1, <1>4 DEF LineMissing
  <1>5. CASE LineBegin
    BY <1>1, <1>5 DEF LineBegin
  <1>6. CASE ScanNothing
    BY <1>1, <1>6 DEF ScanNothing, Scanning
  <1>7. CASE ScanRegexp
    BY <1>1, <1>7 DEF ScanRegexp, Scanning
  <1>8. CASE EndOfBlock
    BY <1>1, <1>8 DEF EndOfBlock
  <1>9. CASE NextLine
    BY <1>1, <1>9 DEF NextLine
  <1>10. CASE LeaveLevel
    BY <1>2, <1>10 DEF LeaveLevel
  <1>11. CASE Finish
    BY <1>2, <1>11 DEF Finish
  <1>12. ASSUME NEW from \in 0..LineCount, NEW num \in 0..LineCount, NEW m \in Modes,
                Parse(from, num, m)
         PROVE  LevelsInv'
    BY <1>2, <1>12 DEF Parse, StartParse
  <1>13. ASSUME NEW l \in LineNos, NEW line \in Lines, TryParseLine(l, line)
         PROVE  LevelsInv'
    BY <1>2, <1>13 DEF TryParseLine, StartParse
  <1>14. ASSUME NEW l \in LineNos, NEW line \in Lines, NEW gone \in Unavailable,
                Edit(l, line, gone)
         PROVE  LevelsInv'
    BY <1>2, <1>14 DEF Edit
  <1>15. CASE SetFileType
    BY <1>2, <1>15 DEF SetFileType, ClearCache
  <1>16. CASE BreakParse
    BY <1>1, <1>16 DEF BreakParse
  <1>17. CASE UNCHANGED vars
    BY <1>1, <1>17 DEF vars
  <1> QED
    BY <1>3, <1>4, <1>5, <1>6, <1>7, <1>8, <1>9, <1>10, <1>11, <1>12, <1>13, <1>14, <1>15,
       <1>16, <1>17, StartLevelLevels, EnterBlockLevels, LeaveBlockLevels
       DEF Next, Step, Client

(* Initially nothing runs.                                                 *)
LEMMA InitLevels == Init => LevelsInv
  BY DEF Init, LevelsInv, Running

(* Whenever the end of a block is searched for, its end expression, one    *)
(* object for all blocks of the kind, holds the start text of this very    *)
(* block: searchBL saves and restores it around every block it enters.     *)
THEOREM BackTracesAreOwn == Spec => []BackTraceOwn
  <1>1. ASSUME Inv, LevelsInv PROVE BackTraceOwn
    <2> SUFFICES ASSUME phase = "line", EndBlock # Base
                 PROVE  trace[EndBlock] = IF frames = <<>> THEN cache[parent].sym
                                          ELSE Last(frames).sym
      BY DEF BackTraceOwn
    <2>1. Traced(trace, frames, Resumed.block, Resumed.sym) /\ Len(frames) \in Nat
      BY <1>1, CachedLevels DEF LevelsInv, Running
    <2>2. LET b == BlockAt(frames, Resumed.block, Len(frames))
          IN  b # Base => trace[b] = SymAt(frames, Resumed.sym, Len(frames))
      BY <2>1 DEF Traced, FreeOf
    <2>3. CASE frames = <<>>
      <3>1. Len(frames) = 0
        BY <2>3, EmptySeq
      <3>2. Depth = Len(parent)
        BY <1>1, <3>1, CachedLevels DEF Depth
      <3>3. Resumed = cache[parent]
        BY <1>1, <3>2, ResumedType
      <3> QED
        BY <2>2, <2>3, <3>1, <3>3 DEF EndBlock, BlockAt, SymAt
    <2>4. CASE frames # <<>>
      <3>1. Last(frames) = frames[Len(frames)] /\ Len(frames) # 0
        BY <1>1, <2>4, FrontAndLast DEF Inv, RunTypes
      <3> QED
        BY <2>2, <2>4, <3>1 DEF EndBlock, BlockAt, SymAt
    <2> QED
      BY <2>3, <2>4
  <1> QED
    BY <1>1, InitInv, InitLevels, NextInv, LevelsNext, PTL DEF Spec
=============================================================================
