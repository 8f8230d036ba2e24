--------------------------- MODULE Editor_proofs ---------------------------
(***************************************************************************)
(* Proofs about the editor: for every text, window height and value of     *)
(* backparse, and everything the user and the host may do.                 *)
(***************************************************************************)
EXTENDS Editor, FiniteSetTheorems, SequenceTheorems, WellFoundedInduction, TLAPS

-----------------------------------------------------------------------------
(* Induction over the naturals, for a set.                                 *)
LEMMA Induction ==
  ASSUME NEW S, 0 \in S, \A n \in Nat : n \in S => n + 1 \in S
  PROVE  Nat \subseteq S
  <1> DEFINE T == Nat \ S
  <1>1. ASSUME T # {} PROVE FALSE
    <2>1. PICK m \in T : \A k \in T : ~ (<<k, m>> \in OpToRel(<, Nat))
      BY <1>1, WFMin, NatLessThanWellFounded, Zenon
    <2>2. \A k \in T : <<k, m>> \in OpToRel(<, Nat) <=> k < m
      BY DEF OpToRel
    <2>3. \A k \in T : ~ (k < m)
      BY <2>1, <2>2, Zenon
    <2>4. m \in Nat /\ m # 0
      OBVIOUS
    <2>5. m - 1 \in Nat /\ m - 1 < m /\ (m - 1) + 1 = m
      BY <2>4
    <2>6. m - 1 \in S
      BY <2>3, <2>5
    <2> QED
      BY <2>5, <2>6
  <1> QED
    BY <1>1

-----------------------------------------------------------------------------
(* Numbers and sequences. *)

LEMMA MinOfIs ==
  ASSUME NEW a \in Int, NEW b \in Int
  PROVE  (MinOf(a, b) = a \/ MinOf(a, b) = b) /\ MinOf(a, b) <= a /\ MinOf(a, b) <= b
  BY DEF MinOf

LEMMA MaxOfIs ==
  ASSUME NEW a \in Int, NEW b \in Int
  PROVE  (MaxOf(a, b) = a \/ MaxOf(a, b) = b) /\ MaxOf(a, b) >= a /\ MaxOf(a, b) >= b
  BY DEF MaxOf

(* A line is replaced, put in or taken out: the lines above it are the     *)
(* same.                                                                   *)
LEMMA ReplacedSame ==
  ASSUME NEW S, NEW s \in Seq(S), NEW i \in Nat, NEW k \in S
  PROVE  LET u == [s EXCEPT ![i + 1] = k]
         IN  /\ u \in Seq(S) /\ Len(u) = Len(s)
             /\ \A l \in 1 .. i : l <= Len(s) => u[l] = s[l]
  <1>1. Len(s) \in Nat /\ DOMAIN s = 1 .. Len(s)
    OBVIOUS
  <1>2. CASE i < Len(s)
    <2>1. i + 1 \in 1 .. Len(s)
      BY <1>1, <1>2
    <2> QED
      BY <1>1, <1>2, <2>1, ExceptSeq
  <1>3. CASE ~ (i < Len(s))
    <2>1. i + 1 \notin DOMAIN s
      BY <1>1, <1>3
    <2>2. [s EXCEPT ![i + 1] = k] = s
      BY <2>1
    <2> QED
      BY <2>2
  <1> QED
    BY <1>2, <1>3

LEMMA InsertedSame ==
  ASSUME NEW S, NEW s \in Seq(S), NEW c \in Nat, c < Len(s), NEW k \in S
  PROVE  LET u == InsertAt(s, c + 2, k)
         IN  /\ u \in Seq(S) /\ Len(u) = Len(s) + 1
             /\ \A l \in 1 .. c + 1 : u[l] = s[l]
  <1> DEFINE above == SubSeq(s, 1, c + 1)
             below == SubSeq(s, c + 2, Len(s))
             more == above \o <<k>>
             u == InsertAt(s, c + 2, k)
  <1>1. Len(s) \in Nat /\ (c + 2) - 1 = c + 1
    OBVIOUS
  <1>2. /\ above \in Seq(S) /\ Len(above) = c + 1 /\ \A l \in 1 .. c + 1 : above[l] = s[l]
    BY <1>1
  <1>3. below \in Seq(S) /\ Len(below) = Len(s) - (c + 1)
    BY <1>1
  <1>4. u = more \o below
    BY <1>1 DEF InsertAt
  <1> HIDE DEF above, below, u
  <1>5. /\ more \in Seq(S) /\ Len(more) = c + 2 /\ \A l \in 1 .. c + 1 : more[l] = s[l]
    BY <1>2
  <1> HIDE DEF more
  <1>6. /\ u \in Seq(S) /\ Len(u) = Len(more) + Len(below)
        /\ \A l \in 1 .. Len(more) + Len(below) :
             u[l] = IF l <= Len(more) THEN more[l] ELSE below[l - Len(more)]
    BY <1>3, <1>4, <1>5, ConcatProperties
  <1>7. \A l \in 1 .. c + 1 : u[l] = s[l]
    <2>1. \A l \in 1 .. c + 1 : l \in 1 .. Len(more) + Len(below) /\ l <= Len(more)
      BY <1>1, <1>3, <1>5
    <2> QED
      BY <1>5, <1>6, <2>1
  <1> QED
    BY <1>1, <1>3, <1>5, <1>6, <1>7 DEF u

LEMMA RemovedSame ==
  ASSUME NEW S, NEW s \in Seq(S), NEW c \in Nat, c < Len(s)
  PROVE  LET u == RemoveAt(s, c + 1)
         IN  /\ u \in Seq(S) /\ Len(u) = Len(s) - 1
             /\ \A l \in 1 .. c : u[l] = s[l]
  <1> DEFINE above == SubSeq(s, 1, c)
             below == SubSeq(s, c + 2, Len(s))
             u == RemoveAt(s, c + 1)
  <1>1. Len(s) \in Nat /\ (c + 1) - 1 = c /\ (c + 1) + 1 = c + 2
    OBVIOUS
  <1>2. /\ above \in Seq(S) /\ Len(above) = c /\ \A l \in 1 .. c : above[l] = s[l]
    BY <1>1
  <1>3. below \in Seq(S) /\ Len(below) = Len(s) - (c + 1)
    BY <1>1
  <1>4. u = above \o below
    BY <1>1 DEF RemoveAt
  <1> HIDE DEF above, below, u
  <1>6. /\ u \in Seq(S) /\ Len(u) = Len(above) + Len(below)
        /\ \A l \in 1 .. Len(above) + Len(below) :
             u[l] = IF l <= Len(above) THEN above[l] ELSE below[l - Len(above)]
    BY <1>2, <1>3, <1>4, ConcatProperties, SMTT(60)
  <1>7. \A l \in 1 .. c : u[l] = s[l]
    <2>1. \A l \in 1 .. c : l \in 1 .. Len(above) + Len(below) /\ l <= Len(above)
      BY <1>1, <1>2, <1>3
    <2> QED
      BY <1>2, <1>6, <2>1
  <1> QED
    BY <1>1, <1>2, <1>3, <1>6, <1>7 DEF u

-----------------------------------------------------------------------------
(* The blocks open at the start of each line: what DepthFrom says of a     *)
(* text t.                                                                 *)
DepthIn(t, from, d, to) ==
  LET f[l \in from .. to] == IF l = from THEN d ELSE DepthAfter(t[(l - 1) + 1], f[l - 1])
  IN  f

(* f follows the text from line a to line b.                               *)
Follows(f, t, a, b) == \A l \in a + 1 .. b : f[l] = DepthAfter(t[l], f[l - 1])

(* The depths exist: they can be written down one line after the other.    *)
LEMMA DepthExists ==
  ASSUME NEW t, NEW from \in Nat, NEW to \in Nat, from <= to, NEW d
  PROVE  DepthIn(t, from, d, to) =
           [l \in from .. to |-> IF l = from THEN d
                                 ELSE DepthAfter(t[(l - 1) + 1], DepthIn(t, from, d, to)[l - 1])]
  <1> DEFINE Is(g, n) ==
               g = [l \in from .. from + n |-> IF l = from THEN d
                                               ELSE DepthAfter(t[(l - 1) + 1], g[l - 1])]
             S == {n \in Nat : \E g : Is(g, n)}
  <1>1. 0 \in S
    <2> DEFINE g == [l \in from .. from + 0 |-> d]
    <2>1. Is(g, 0)
      OBVIOUS
    <2> HIDE DEF g, Is
    <2> QED
      BY <2>1
  <1>2. ASSUME NEW n \in Nat, n \in S PROVE n + 1 \in S
    <2>1. PICK g : Is(g, n)
      BY <1>2
    <2> DEFINE h == [l \in from .. from + (n + 1) |->
                       IF l = from + (n + 1) THEN DepthAfter(t[((from + (n + 1)) - 1) + 1], g[from + n]) ELSE g[l]]
    <2>2. \A l \in from .. from + n : h[l] = g[l]
      OBVIOUS
    <2>3. \A l \in from .. from + (n + 1) :
            h[l] = IF l = from THEN d ELSE DepthAfter(t[(l - 1) + 1], h[l - 1])
      <3> TAKE l \in from .. from + (n + 1)
      <3>1. CASE l = from + (n + 1)
        <4>1. l # from /\ l - 1 = from + n /\ from + n \in from .. from + n
          BY <3>1
        <4>2. h[l] = DepthAfter(t[(l - 1) + 1], g[from + n])
          BY <3>1
        <4> HIDE DEF h
        <4> QED
          BY <2>2, <4>1, <4>2
      <3>2. CASE l \in from .. from + n
        <4>1. g[l] = IF l = from THEN d ELSE DepthAfter(t[(l - 1) + 1], g[l - 1])
          BY <2>1, <3>2
        <4>2. l # from => l - 1 \in from .. from + n
          BY <3>2
        <4> HIDE DEF h, Is
        <4> QED
          BY <2>2, <3>2, <4>1, <4>2
      <3> QED
        BY <3>1, <3>2
    <2>4. Is(h, n + 1)
      BY <2>3
    <2> HIDE DEF h, Is
    <2> QED
      BY <2>4
  <1>3. to - from \in Nat /\ from + (to - from) = to
    OBVIOUS
  <1>4. to - from \in S
    <2> HIDE DEF S
    <2> QED
      BY <1>1, <1>2, <1>3, Induction
  <1>5. PICK g : Is(g, to - from)
    BY <1>4
  <1> QED
    BY <1>3, <1>5 DEF DepthIn

LEMMA DepthFollows ==
  ASSUME NEW t, NEW from \in Nat, NEW to \in Nat, from <= to, NEW d
  PROVE  /\ DOMAIN DepthIn(t, from, d, to) = from .. to
         /\ DepthIn(t, from, d, to)[from] = d
         /\ Follows(DepthIn(t, from, d, to), t, from, to)
  <1> DEFINE f == DepthIn(t, from, d, to)
  <1>1. f = [l \in from .. to |-> IF l = from THEN d ELSE DepthAfter(t[(l - 1) + 1], f[l - 1])]
    BY DepthExists
  <1> HIDE DEF f
  <1>2. DOMAIN f = from .. to /\ f[from] = d
    BY <1>1
  <1>3. \A l \in from + 1 .. to : l \in from .. to /\ l # from /\ (l - 1) + 1 = l
    OBVIOUS
  <1>4. Follows(f, t, from, to)
    BY <1>1, <1>3 DEF Follows
  <1> QED
    BY <1>2, <1>4 DEF f

(* The texts t and u are the same on these lines, and f and g begin so.    *)
Twins(f, g, t, u, a, b) ==
  /\ Follows(f, t, a, b) /\ Follows(g, u, a, b) /\ f[a] = g[a]
  /\ \A l \in a + 1 .. b : t[l] = u[l]

(* Where two texts are the same, so are the depths, if they once were.     *)
LEMMA DepthsAgree ==
  ASSUME NEW f, NEW g, NEW t, NEW u, NEW a \in Nat, NEW b \in Nat,
         Twins(f, g, t, u, a, b), NEW l \in a .. b
  PROVE  f[l] = g[l]
  <1> DEFINE S == {n \in Nat : a + n <= b => f[a + n] = g[a + n]}
  <1>1. 0 \in S
    BY DEF Twins
  <1>2. ASSUME NEW n \in Nat, n \in S PROVE n + 1 \in S
    <2> SUFFICES ASSUME a + (n + 1) <= b PROVE f[a + (n + 1)] = g[a + (n + 1)]
      OBVIOUS
    <2>1. a + (n + 1) \in a + 1 .. b /\ (a + (n + 1)) - 1 = a + n /\ f[a + n] = g[a + n]
      BY <1>2
    <2>2. PICK m \in a + 1 .. b : m = a + (n + 1) /\ m - 1 = a + n
      BY <2>1
    <2>3. f[m] = DepthAfter(t[m], f[m - 1]) /\ g[m] = DepthAfter(u[m], g[m - 1]) /\ t[m] = u[m]
      BY <2>2 DEF Follows, Twins
    <2> QED
      BY <2>1, <2>2, <2>3
  <1>3. Nat \subseteq S
    <2> HIDE DEF S
    <2> QED
      BY <1>1, <1>2, Induction
  <1>4. l - a \in Nat /\ a + (l - a) = l
    OBVIOUS
  <1> QED
    BY <1>3, <1>4


(* A part of a text that is followed.                                      *)
LEMMA FollowsPart ==
  ASSUME NEW f, NEW t, NEW a \in Nat, NEW b \in Nat, NEW c \in Nat, NEW e \in Nat,
         Follows(f, t, a, b), a <= c, e <= b
  PROVE  Follows(f, t, c, e)
  <1>1. \A l \in c + 1 .. e : l \in a + 1 .. b
    OBVIOUS
  <1> QED
    BY <1>1 DEF Follows

-----------------------------------------------------------------------------
(* What the parser knows of a text t, up to line i.                        *)
Depths(t) == DepthIn(t, 0, 0, Len(t))
Knows(s, i, t) == i \in 0 .. Len(t) /\ \A l \in 0 .. i : s[l] = Depths(t)[l]

(* The depths of a text are those its own definition follows.              *)
LEMMA DepthsFollow ==
  ASSUME NEW t \in Seq(Kinds)
  PROVE  Depths(t)[0] = 0 /\ Follows(Depths(t), t, 0, Len(t)) /\ DOMAIN Depths(t) = 0 .. Len(t)
  <1>1. Len(t) \in Nat /\ 0 <= Len(t)
    OBVIOUS
  <1> QED
    BY <1>1, DepthFollows DEF Depths

(* A change of the text at or after line k leaves what is known of the     *)
(* lines up to it true.                                                    *)
LEMMA KnownBeforeChange ==
  ASSUME NEW s, NEW t \in Seq(Kinds), NEW u \in Seq(Kinds), NEW i, Knows(s, i, t),
         NEW j \in Nat, j <= i, j <= Len(u), \A l \in 1 .. j : t[l] = u[l]
  PROVE  Knows(s, j, u)
  <1>1. i \in Nat /\ i <= Len(t) /\ Len(t) \in Nat /\ Len(u) \in Nat /\ j <= Len(t) /\ 0 + 1 = 1
    BY DEF Knows
  <1>2. Follows(Depths(t), t, 0, j) /\ Follows(Depths(u), u, 0, j) /\ Depths(t)[0] = Depths(u)[0]
    BY <1>1, DepthsFollow, FollowsPart
  <1>3. \A l \in 0 .. j : Depths(t)[l] = Depths(u)[l]
    <2> DEFINE f == Depths(t)
               g == Depths(u)
               z == 0
    <2>1. z \in Nat /\ Twins(f, g, t, u, z, j)
      BY <1>1, <1>2 DEF Twins
    <2> HIDE DEF f, g, z
    <2>2. \A l \in z .. j : f[l] = g[l]
      BY <2>1, DepthsAgree
    <2> QED
      BY <2>2 DEF f, g, z
  <1> QED
    BY <1>1, <1>3 DEF Knows

(* The depths a parse from line a finds are the true ones.                 *)
LEMMA DepthsFound ==
  ASSUME NEW s, NEW t \in Seq(Kinds), NEW from \in Nat, NEW to \in Nat, from <= to,
         to <= Len(t), s[from] = Depths(t)[from]
  PROVE  \A l \in from .. to : DepthIn(t, from, s[from], to)[l] = Depths(t)[l]
  <1> DEFINE found == DepthIn(t, from, s[from], to)
             true == Depths(t)
  <1>1. Len(t) \in Nat
    OBVIOUS
  <1>2. Follows(true, t, from, to)
    BY <1>1, DepthsFollow, FollowsPart
  <1>3. Follows(found, t, from, to) /\ found[from] = s[from]
    BY DepthFollows
  <1>4. Twins(found, true, t, t, from, to)
    BY <1>2, <1>3 DEF Twins
  <1> HIDE DEF found, true
  <1>5. \A l \in from .. to : found[l] = true[l]
    BY ONLY <1>4, DepthsAgree, from \in Nat, to \in Nat, ZenonT(60)
  <1> QED
    BY <1>5 DEF found, true

-----------------------------------------------------------------------------
(* Types. *)

Searching(B) ==
  [goal : {"draw", "move", "select"}, line : Nat, lno : Int, bal : B, down : BOOLEAN,
   lo : Nat, hi : Int, eline : Nat \cup {-1}]

Menus == [line : Nat, top : Nat] \cup {NoMenu}

HostTypes ==
  /\ text \in Seq(Kinds) /\ Len(text) \in 1 .. MaxLines
  /\ top \in Nat /\ height \in Nat \ {0} /\ cursor \in Nat /\ prevLine \in Nat
  /\ block \in Nat \cup {-1} /\ blockTop \in Nat \cup {-1}
  /\ menu \in Menus /\ \E B : search \in Searching(B)
  /\ \E S : shown \in Seq(S)

EngineTypes ==
  /\ invalidLine \in Int /\ backParse \in Int
  /\ wStart \in Nat /\ wSize \in Nat \ {0} /\ lineCount \in Nat
  /\ lrSize \in Nat \ {0} /\ firstLine \in Nat

Types == HostTypes /\ EngineTypes

(* The editor has been told how many lines there are, and where the        *)
(* selection begins, unless the plugin is about to have it redrawn.        *)
LinesCounted == pc # "open" => lineCount = Len(text)
BlockSeen == pc # "menu" => blockTop = block

(* A list on the screen knows where the cursor was.                        *)
ListShown == pc = "list" => menu # NoMenu

(* What a step is to the engine: one of five things.                       *)
SameText == text' = text
Paints == pc # "open" /\ SameText /\ \E lno \in Nat : ValidateRegions(lno)
Warms == pc # "open" /\ SameText /\ \E lno \in Int : ValidateCache(lno)
SameUpTo(n) == \A l \in 1 .. n : l <= Len(text') /\ text[l] = text'[l]
Redraws ==
  \E change \in BOOLEAN :
    /\ StartDrawing(change)
    /\ SameText \/ (change /\ SameUpTo(TopOfChange))
Restarts ==
  /\ pc # "open" /\ SameText /\ UNCHANGED <<window, ring>> /\ invalidLine' = 0
  /\ backParse' \in Int /\ starts' \in {starts, [l \in 0 .. MaxLines |-> 0]}
  /\ UNCHANGED listener \/ (outline' = <<>> /\ modifiedLine' = 0)
Rests == SameText /\ UNCHANGED engine /\ (pc = "open" => pc' = "open")

(* The steps keep the types of the host's side, and are of these kinds.    *)
Stepped ==
  HostTypes' /\ BlockSeen' /\ ListShown' /\ (Paints \/ Warms \/ Redraws \/ Restarts \/ Rests)

-----------------------------------------------------------------------------
(* The engine's operations. *)

LEMMA DepthFromIn == \A from, d, to : DepthFrom(from, d, to) = DepthIn(text, from, d, to)
  BY DEF DepthFrom, DepthIn, Kind

LEMMA TrueDepthIs == TrueDepth = Depths(text)
  BY DEF DepthFrom, DepthIn, Kind, TrueDepth, Depths

LEMMA CacheKnownIs ==
  ASSUME Types
  PROVE  CacheKnown <=> (invalidLine <= Len(text)
                         /\ \A l \in 0 .. invalidLine : starts[l] = Depths(text)[l])
  BY TrueDepthIs DEF CacheKnown

(* A parse of lines of the text, beginning at the first line not known if  *)
(* it is to be kept.                                                       *)
LEMMA ParseKnows ==
  ASSUME Types, Knows(starts, invalidLine, text),
         NEW from \in Int, NEW to \in Int, NEW update \in BOOLEAN,
         NEW size, NEW first, NEW before,
         Parse(from, to, update, size, first, before),
         from < to, to <= Len(text), update => from = invalidLine, text' = text
  PROVE  Knows(starts', invalidLine', text')
  <1>1. Len(text) \in Nat /\ Len(text) <= MaxLines /\ invalidLine \in Nat /\ MaxLines \in Nat
    BY EditorAssumption DEF Types, HostTypes, Knows
  <1>2. CASE ~update
    BY <1>2 DEF Parse, Knows
  <1>3. CASE update
    <2>1. from = invalidLine /\ from \in Nat /\ to \in Nat /\ from <= to
      BY <1>1, <1>3
    <2> DEFINE depth == DepthIn(text, from, starts[from], to)
    <2>2. /\ starts' = [l \in 0 .. MaxLines |->
                          IF l <= from THEN starts[l] ELSE IF l <= to THEN depth[l] ELSE 0]
          /\ invalidLine' = to
      BY <1>3, DepthFromIn DEF Parse
    <2>3. starts[from] = Depths(text)[from]
      BY <2>1 DEF Knows
    <2>4. \A l \in from .. to : depth[l] = Depths(text)[l]
      BY <2>1, <2>3, DepthsFound DEF Types, HostTypes
    <2> HIDE DEF depth
    <2>5. ASSUME NEW l \in 0 .. to PROVE starts'[l] = Depths(text)[l]
      <3>1. l \in 0 .. MaxLines
        BY <1>1, <2>1
      <3>2. CASE l <= from
        BY <2>1, <2>2, <3>1, <3>2 DEF Knows
      <3>3. CASE l \in from .. to /\ ~ (l <= from)
        BY <2>2, <2>4, <3>1, <3>3
      <3> QED
        BY <2>1, <3>2, <3>3
    <2> QED
      BY <2>1, <2>2, <2>5 DEF Knows
  <1> QED
    BY <1>2, <1>3

LEMMA WarmKnows ==
  ASSUME Types, Knows(starts, invalidLine, text), lineCount = Len(text), text' = text,
         NEW lno \in Int, ValidateCache(lno)
  PROVE  EngineTypes' /\ lineCount' = lineCount /\ Knows(starts', invalidLine', text')
  <1> DEFINE l == IF lno = -1 \/ lno > lineCount THEN lineCount - 1 ELSE lno
             to == MinOf(l + 1, lineCount)
  <1>1. to \in Int /\ to <= Len(text) /\ invalidLine \in Int /\ lineCount \in Int
    BY DEF MinOf, Types, EngineTypes
  <1>2. UNCHANGED <<wStart, wSize, lineCount, lrSize, firstLine, backParse>>
    BY DEF ValidateCache, window
  <1>3. CASE to > invalidLine
    <2>1. Parse(invalidLine, to, TRUE, lrSize, firstLine, slots)
      BY <1>3 DEF ValidateCache
    <2> HIDE DEF to
    <2>2. Knows(starts', invalidLine', text') /\ invalidLine' \in Int
      BY <1>1, <1>3, <2>1, ParseKnows DEF Parse
    <2> QED
      BY <1>2, <2>2 DEF Types, EngineTypes
  <1>4. CASE ~ (to > invalidLine)
    <2>1. UNCHANGED <<starts, invalidLine>>
      BY <1>4 DEF ValidateCache
    <2> QED
      BY <1>2, <2>1 DEF Types, EngineTypes, Knows
  <1> QED
    BY <1>3, <1>4

LEMMA LayoutTypes ==
  ASSUME Types, NEW lno \in Nat
  PROVE  /\ Layout(lno).start \in Nat /\ Layout(lno).size \in Nat \ {0} /\ Layout(lno).first \in Nat
         /\ Layout(lno).from \in Int /\ Layout(lno).to \in Int /\ Layout(lno).update \in BOOLEAN
  <1>1. regionWindow \in Int /\ regionWindow >= 1
    BY DEF regionWindow, Types, EngineTypes
  <1>2. cover \in Int
    BY <1>1 DEF cover
  <1> DEFINE start == IF lno < wStart \/ lno > wStart + wSize THEN lno ELSE wStart
  <1>3. start \in Nat /\ (start \div regionWindow) * regionWindow \in Nat
    BY <1>1 DEF Types, EngineTypes
  <1> QED
    BY <1>1, <1>2, <1>3 DEF Layout, Types, EngineTypes

LEMMA PaintKnows ==
  ASSUME Types, Knows(starts, invalidLine, text), lineCount = Len(text), text' = text,
         NEW lno \in Nat, ValidateRegions(lno)
  PROVE  EngineTypes' /\ lineCount' = lineCount /\ Knows(starts', invalidLine', text')
  <1> DEFINE l == IF lno = -1 \/ lno > lineCount THEN lineCount - 1 ELSE lno
             lay == Layout(l)
             from == IF lay.update THEN invalidLine ELSE lay.from
             before == IF lrSize < cover THEN EmptyRing(lay.size) ELSE slots
  <1>1. l \in Nat /\ invalidLine \in Int /\ lineCount \in Nat
    BY DEF Types, EngineTypes, HostTypes
  <1>2. /\ wStart' = lay.start /\ lrSize' = lay.size /\ firstLine' = lay.first
        /\ UNCHANGED <<wSize, lineCount, backParse>>
        /\ IF MinOf(lay.to, lineCount) > from
           THEN Parse(from, MinOf(lay.to, lineCount), lay.update, lay.size, lay.first, before)
           ELSE UNCHANGED <<starts, invalidLine>>
    BY Zenon DEF ValidateRegions
  <1> HIDE DEF l
  <1>3. /\ lay.start \in Nat /\ lay.size \in Nat \ {0} /\ lay.first \in Nat
        /\ lay.from \in Int /\ lay.to \in Int /\ lay.update \in BOOLEAN
    BY <1>1, LayoutTypes
  <1> HIDE DEF lay, before
  <1>4. MinOf(lay.to, lineCount) \in Int /\ MinOf(lay.to, lineCount) <= Len(text) /\ from \in Int
    BY <1>1, <1>3 DEF MinOf
  <1>5. lay.update => from = invalidLine
    OBVIOUS
  <1> HIDE DEF from
  <1>6. Knows(starts', invalidLine', text') /\ invalidLine' \in Int
    <2>1. CASE MinOf(lay.to, lineCount) > from
      <3>1. Parse(from, MinOf(lay.to, lineCount), lay.update, lay.size, lay.first, before)
        BY <1>2, <2>1
      <3>2. from < MinOf(lay.to, lineCount)
        BY <1>4, <2>1
      <3>3. Knows(starts', invalidLine', text')
        BY <1>3, <1>4, <1>5, <3>1, <3>2, ParseKnows
      <3> QED
        BY <3>3 DEF Knows
    <2>2. CASE ~ (MinOf(lay.to, lineCount) > from)
      BY <1>1, <1>2, <2>2 DEF Knows
    <2> QED
      BY <2>1, <2>2
  <1> QED
    BY <1>2, <1>3, <1>6 DEF Types, EngineTypes

LEMMA TopOfChangeBounds ==
  ASSUME Types, cursor' \in Nat
  PROVE  /\ TopOfChange \in Nat /\ TopOfChange <= MaxOf(0, cursor' - 1)
         /\ TopOfChange <= MaxOf(0, prevLine - 1)
         /\ blockTop # -1 => TopOfChange <= blockTop
  <1>1. prevLine \in Nat /\ blockTop \in Nat \cup {-1}
    BY DEF HostTypes, Types
  <1> DEFINE m == MinOf(prevLine, cursor')
             ml == MaxOf(0, m - 1)
  <1>2. m \in Nat /\ m <= cursor' /\ m <= prevLine
    BY <1>1, MinOfIs
  <1>3. TopOfChange = IF blockTop # -1 THEN MinOf(ml, blockTop) ELSE ml
    BY DEF TopOfChange
  <1> HIDE DEF m
  <1>4. /\ m - 1 \in Int /\ (ml = 0 \/ ml = m - 1) /\ ml >= 0
    BY <1>2, MaxOfIs
  <1> HIDE DEF ml
  <1>5. \A n \in Nat : m <= n => ml <= MaxOf(0, n - 1)
    <2> TAKE n \in Nat
    <2>1. n - 1 \in Int /\ MaxOf(0, n - 1) \in Int /\ MaxOf(0, n - 1) >= 0 /\ MaxOf(0, n - 1) >= n - 1
      BY MaxOfIs
    <2> QED
      BY <1>2, <1>4, <2>1
  <1>6. /\ TopOfChange \in Nat /\ TopOfChange <= ml
        /\ blockTop # -1 => TopOfChange <= blockTop
    BY <1>1, <1>3, <1>4, MinOfIs
  <1>7. ml <= MaxOf(0, cursor' - 1) /\ ml <= MaxOf(0, prevLine - 1)
    BY <1>1, <1>2, <1>5
  <1>8. MaxOf(0, cursor' - 1) \in Int /\ MaxOf(0, prevLine - 1) \in Int
    BY <1>1, MaxOfIs
  <1> QED
    BY <1>4, <1>6, <1>7, <1>8

LEMMA RedrawKnows ==
  ASSUME Types, Knows(starts, invalidLine, text), HostTypes', Redraws
  PROVE  EngineTypes' /\ lineCount' = Len(text') /\ Knows(starts', invalidLine', text')
  <1>1. PICK change \in BOOLEAN :
          /\ StartDrawing(change)
          /\ text' = text \/ (change /\ SameUpTo(TopOfChange))
    BY DEF Redraws, SameText
  <1>2. /\ wStart' = top' /\ wSize' = height' /\ lineCount' = Len(text')
        /\ UNCHANGED <<lrSize, firstLine, slots, starts, backParse>>
    BY <1>1 DEF StartDrawing, ring
  <1>3. Len(text') \in Nat /\ text' \in Seq(Kinds) /\ text \in Seq(Kinds)
    BY DEF HostTypes, Types
  <1>4. TopOfChange \in Nat
    <2>1. cursor' \in Nat
      BY DEF HostTypes
    <2> QED
      BY <2>1, TopOfChangeBounds
  <1>5. Knows(starts', invalidLine', text') /\ invalidLine' \in Int
    <2>1. CASE ~change
      BY <1>1, <1>2, <2>1 DEF StartDrawing, Knows
    <2>2. CASE change
      <3>1. ModifyEvent(TopOfChange) /\ (text' = text \/ SameUpTo(TopOfChange))
        BY <1>1, <2>2 DEF StartDrawing
      <3>2. /\ invalidLine' \in Nat /\ invalidLine' <= invalidLine /\ invalidLine' <= TopOfChange
        BY <1>4, <3>1 DEF ModifyEvent, Knows
      <3>3. /\ invalidLine' <= Len(text')
            /\ \A l \in 1 .. invalidLine' : text[l] = text'[l]
        <4>1. CASE text' = text
          BY <1>3, <3>2, <4>1 DEF Knows
        <4>2. CASE SameUpTo(TopOfChange)
          BY <1>3, <1>4, <3>2, <4>2 DEF SameUpTo
        <4> QED
          BY <3>1, <4>1, <4>2
      <3> QED
        BY <1>2, <1>3, <3>2, <3>3, KnownBeforeChange
    <2> QED
      BY <2>1, <2>2
  <1> QED
    BY <1>2, <1>3, <1>5 DEF Types, HostTypes, EngineTypes

LEMMA RestartKnows ==
  ASSUME Types, Knows(starts, invalidLine, text), Restarts
  PROVE  EngineTypes' /\ lineCount' = lineCount /\ Knows(starts', invalidLine', text')
  <1>1. Depths(text)[0] = 0 /\ Len(text) \in Nat
    BY DepthsFollow DEF Types, HostTypes
  <1>2. invalidLine \in Nat
    BY DEF Knows
  <1>3. starts'[0] = Depths(text)[0]
    BY <1>1, <1>2, EditorAssumption DEF Restarts, Knows
  <1>4. invalidLine' = 0 /\ text' = text
    BY DEF Restarts, SameText
  <1>5. Knows(starts', invalidLine', text')
    BY <1>1, <1>3, <1>4 DEF Knows
  <1> QED
    BY <1>4, <1>5 DEF Restarts, Types, EngineTypes, window, ring

-----------------------------------------------------------------------------
(* The host's changes of the text. *)

LEMMA ReplaceSame ==
  ASSUME Types, NEW i \in Nat, NEW k \in Kinds, text' = [text EXCEPT ![i + 1] = k]
  PROVE  /\ text' \in Seq(Kinds) /\ Len(text') = Len(text)
         /\ \A n \in Nat : n <= i /\ n <= Len(text) => SameUpTo(n)
  <1>1. text \in Seq(Kinds) /\ Len(text) \in Nat
    BY DEF Types, HostTypes
  <1>2. /\ text' \in Seq(Kinds) /\ Len(text') = Len(text)
        /\ \A l \in 1 .. i : l <= Len(text) => text'[l] = text[l]
    BY <1>1, ReplacedSame
  <1> QED
    BY <1>1, <1>2 DEF SameUpTo

LEMMA SplitSame ==
  ASSUME Types, NEW c \in Nat, c < Len(text), NEW k \in Kinds, text' = InsertAt(text, c + 2, k)
  PROVE  /\ text' \in Seq(Kinds) /\ Len(text') = Len(text) + 1
         /\ \A n \in Nat : n <= c + 1 => SameUpTo(n)
  <1>1. text \in Seq(Kinds) /\ Len(text) \in Nat
    BY DEF Types, HostTypes
  <1>2. /\ text' \in Seq(Kinds) /\ Len(text') = Len(text) + 1
        /\ \A l \in 1 .. c + 1 : text'[l] = text[l]
    BY <1>1, InsertedSame
  <1>3. ASSUME NEW n \in Nat, n <= c + 1 PROVE SameUpTo(n)
    <2>1. \A l \in 1 .. n : l \in 1 .. c + 1 /\ l <= Len(text')
      BY <1>1, <1>2, <1>3
    <2> QED
      BY <1>2, <2>1 DEF SameUpTo
  <1> QED
    BY <1>2, <1>3

LEMMA JoinSame ==
  ASSUME Types, NEW c \in Nat, c < Len(text), text' = RemoveAt(text, c + 1)
  PROVE  /\ text' \in Seq(Kinds) /\ Len(text') = Len(text) - 1
         /\ \A n \in Nat : n <= c => SameUpTo(n)
  <1>1. text \in Seq(Kinds) /\ Len(text) \in Nat
    BY DEF Types, HostTypes
  <1>2. /\ text' \in Seq(Kinds) /\ Len(text') = Len(text) - 1
        /\ \A l \in 1 .. c : text'[l] = text[l]
    BY <1>1, RemovedSame
  <1>3. ASSUME NEW n \in Nat, n <= c PROVE SameUpTo(n)
    <2>1. \A l \in 1 .. n : l \in 1 .. c /\ l <= Len(text')
      BY <1>1, <1>2, <1>3
    <2> QED
      BY <1>2, <2>1 DEF SameUpTo
  <1> QED
    BY <1>2, <1>3

-----------------------------------------------------------------------------
(* Every step, one by one. *)

LEMMA RequestShape ==
  ASSUME pc # "open", SameText, NEW lno \in Nat, Request(lno)
  PROVE  Paints \/ Rests
  <1>1. CASE TooFar(lno)
    BY <1>1 DEF Request, Rests
  <1>2. CASE ~TooFar(lno)
    BY <1>2 DEF Request, Paints
  <1> QED
    BY <1>1, <1>2

(* What is the host's stays, and so does the plugin's view of it.          *)
LEMMA HostKept ==
  ASSUME Types, UNCHANGED <<host, far>>, menu' \in Menus,
         \E B : search' \in Searching(B), \E S : shown' \in Seq(S)
  PROVE  HostTypes' /\ SameText
  BY DEF Types, HostTypes, SameText, host, far

LEMMA BlockKept ==
  ASSUME BlockSeen, UNCHANGED <<host, far>>, pc # "menu" \/ pc' = "menu"
  PROVE  BlockSeen'
  BY DEF BlockSeen, host, far

LEMMA SearchKept == ASSUME Types, UNCHANGED search PROVE \E B : search' \in Searching(B)
  BY DEF Types, HostTypes

(* A redraw keeps the types if the host does.                              *)
LEMMA RedrawTypes ==
  ASSUME Types, NEW change \in BOOLEAN, StartDrawing(change),
         text' \in Seq(Kinds), Len(text') \in 1 .. MaxLines,
         top' \in Nat, height' \in Nat \ {0}, cursor' \in Nat, block' \in Nat \cup {-1},
         menu' \in Menus,
         SameText \/ (change /\ SameUpTo(TopOfChange))
  PROVE  Stepped
  <1>1. prevLine' = cursor' /\ blockTop' = block' /\ shown' = <<>> /\ search' = search
    BY DEF StartDrawing
  <1>2. (\E B : search' \in Searching(B))
    BY <1>1, SearchKept
  <1>3. shown' \in Seq(Nat)
    BY <1>1
  <1>4. HostTypes'
    BY <1>1, <1>2, <1>3 DEF HostTypes
  <1>5. BlockSeen' /\ ListShown'
    BY <1>1 DEF BlockSeen, ListShown, StartDrawing
  <1>6. Redraws
    BY DEF Redraws
  <1> QED
    BY <1>4, <1>5, <1>6 DEF Stepped

LEMMA NoMenuType == NoMenu \in Menus
  BY DEF Menus

(* The same, with no menu on the screen and the text as it was.            *)
LEMMA RedrawSame ==
  ASSUME Types, BeginRedraw(FALSE), UNCHANGED text,
         top' \in Nat, height' \in Nat \ {0}, cursor' \in Nat, block' \in Nat \cup {-1}
  PROVE  Stepped
  <1>1. text' \in Seq(Kinds) /\ Len(text') \in 1 .. MaxLines /\ SameText
    BY DEF Types, HostTypes, SameText
  <1> QED
    BY <1>1, RedrawTypes, NoMenuType DEF BeginRedraw

LEMMA OpenStep ==
  ASSUME Types, LinesCounted, BlockSeen, Open
  PROVE  Stepped
  <1>1. /\ text' \in Seq(Kinds) /\ Len(text') \in 1 .. MaxLines /\ text' = text
        /\ top' \in Nat /\ height' \in Nat \ {0} /\ cursor' \in Nat /\ block' \in Nat \cup {-1}
    BY DEF Types, HostTypes, Open, host
  <1>2. StartDrawing(TRUE) /\ menu' = NoMenu
    BY DEF Open, BeginRedraw
  <1> QED
    BY <1>1, <1>2, RedrawTypes, NoMenuType DEF SameText

LEMMA DrawLineStep ==
  ASSUME Types, LinesCounted, BlockSeen, DrawLine
  PROVE  Stepped
  <1>1. PICK S : shown \in Seq(S)
    BY DEF Types, HostTypes
  <1> DEFINE lno == top + Len(shown)
  <1>2. lno \in Nat /\ pc = "draw"
    BY <1>1 DEF DrawLine, Types, HostTypes
  <1>3. UNCHANGED <<host, far>> /\ search' = search /\ menu' = menu
    BY DEF DrawLine, rest
  <1>4. /\ pc' # "menu"
        /\ \/ Request(lno) /\ shown' = Append(shown, Answer(lno))
           \/ UNCHANGED <<shown, engine>>
    BY <1>2 DEF DrawLine
  <1>5. \E T : shown' \in Seq(T)
    <2> DEFINE T == S \cup {Answer(lno)}
    <2>1. shown \in Seq(T) /\ Answer(lno) \in T
      BY <1>1
    <2> HIDE DEF T
    <2>2. shown' \in Seq(T)
      BY <1>4, <2>1
    <2> QED
      BY <2>2
  <1>6. HostTypes' /\ SameText
    BY <1>3, <1>5, HostKept, SearchKept DEF Types, HostTypes
  <1>7. BlockSeen' /\ ListShown'
    <2>1. pc' # "list"
      BY <1>2 DEF DrawLine
    <2> QED
      BY <1>2, <1>3, <2>1, BlockKept DEF ListShown
  <1> HIDE DEF lno
  <1>8. Paints \/ Rests
    BY <1>2, <1>4, <1>6, RequestShape DEF Rests
  <1> QED
    BY <1>6, <1>7, <1>8 DEF Stepped

LEMMA BeginSearchStep ==
  ASSUME Types, LinesCounted, BlockSeen, pc \notin {"open", "menu"},
         NEW goal \in {"draw", "move", "select"}, BeginSearch(goal)
  PROVE  Stepped
  <1> DEFINE down == Last(PairsOf(Answer(cursor))).region = "PairStart"
             found == [goal |-> goal, line |-> cursor, lno |-> cursor,
                       bal |-> IF down THEN 1 ELSE -1, down |-> down,
                       lo |-> IF goal = "draw" THEN wStart ELSE 0,
                       hi |-> IF goal = "draw" THEN getLastVisibleLine ELSE lineCount,
                       eline |-> -1]
  <1>1. /\ Request(cursor) /\ UNCHANGED <<host, far, shown, menu>>
        /\ search' = search \/ search' = found
    BY DEF BeginSearch
  <1>2. (\E B : search' \in Searching(B))
    <2>1. CASE search' = search
      BY <2>1, SearchKept
    <2>2. CASE search' = found
      <3>1. getLastVisibleLine \in Int /\ wStart \in Nat /\ cursor \in Nat /\ lineCount \in Int
        BY DEF getLastVisibleLine, MinOf, Types, EngineTypes, HostTypes
      <3>2. down \in BOOLEAN
        OBVIOUS
      <3> HIDE DEF down
      <3>3. search' \in Searching({1, -1})
        BY <2>2, <3>1, <3>2 DEF Searching
      <3> QED
        BY <3>3
    <2> QED
      BY <1>1, <2>1, <2>2
  <1>3. HostTypes' /\ SameText /\ BlockSeen'
    BY <1>1, <1>2, HostKept, BlockKept DEF Types, HostTypes
  <1>6. ListShown'
    BY DEF BeginSearch, ListShown, redrawn
  <1>4. cursor \in Nat
    BY DEF Types, HostTypes
  <1>5. Paints \/ Rests
    BY <1>1, <1>3, <1>4, RequestShape
  <1> QED
    BY <1>3, <1>5, <1>6 DEF Stepped

LEMMA DrawPairStep ==
  ASSUME Types, LinesCounted, BlockSeen, DrawPair
  PROVE  Stepped
  <1>1. pc = "pair"
    BY DEF DrawPair
  <1>2. CASE BeginSearch("draw")
    BY <1>1, <1>2, BeginSearchStep
  <1>3. CASE pc' = redrawn /\ UNCHANGED <<host, far, engine, shown, rest>>
    <2>1. (\E B : search' \in Searching(B)) /\ menu' = menu
      BY <1>3, SearchKept DEF rest
    <2>2. HostTypes' /\ SameText /\ BlockSeen'
      BY <1>1, <1>3, <2>1, HostKept, BlockKept DEF Types, HostTypes
    <2>3. Rests /\ ListShown'
      BY <1>1, <1>3, <2>1, <2>2 DEF Rests, ListShown, redrawn
    <2> QED
      BY <2>2, <2>3 DEF Stepped
  <1> QED
    BY <1>2, <1>3 DEF DrawPair

LEMMA SearchMoves ==
  ASSUME NEW B, NEW s \in Searching(B), NEW n \in Nat, NEW b, NEW e \in Nat \cup {-1}
  PROVE  [s EXCEPT !.lno = n, !.bal = b, !.eline = e] \in Searching(B \cup {b})
  <1> DEFINE C == B \cup {b}
  <1>1. s \in Searching(C)
    BY DEF Searching
  <1>2. b \in C
    OBVIOUS
  <1> HIDE DEF C
  <1>3. [s EXCEPT !.lno = n] \in Searching(C)
    BY <1>1 DEF Searching
  <1>4. [s EXCEPT !.lno = n, !.bal = b] \in Searching(C)
    BY <1>2, <1>3 DEF Searching
  <1>5. [s EXCEPT !.lno = n, !.bal = b, !.eline = e] \in Searching(C)
    BY <1>4 DEF Searching
  <1> QED
    BY <1>5 DEF C

LEMMA SearchStepStep ==
  ASSUME Types, LinesCounted, BlockSeen, SearchStep
  PROVE  Stepped
  <1> DEFINE next == search.lno + (IF search.down THEN 1 ELSE -1)
  <1> DEFINE bal == Weigh(search.bal, PairsOf(Answer(next)))
             eline == IF bal = 0 THEN next ELSE search.eline
  <1>1. /\ pc = "search" /\ pc' # "menu" /\ UNCHANGED <<host, far, shown, menu>>
        /\ \/ UNCHANGED <<search, engine>>
           \/ /\ ~ (next < search.lo) /\ Request(next)
              /\ search' = [search EXCEPT !.lno = next, !.bal = bal, !.eline = eline]
    BY DEF SearchStep
  <1>2. PICK C : search \in Searching(C)
    BY DEF Types, HostTypes
  <1>3. next \in Int
    BY <1>2 DEF Searching
  <1>4. (\E B : search' \in Searching(B)) /\ (Paints \/ Rests)
    <2>0. SameText
      BY <1>1 DEF SameText, host
    <2>1. CASE UNCHANGED <<search, engine>>
      BY <1>1, <2>0, <2>1, SearchKept DEF Rests
    <2>2. CASE ~UNCHANGED <<search, engine>>
      <3>1. ~ (next < search.lo) /\ Request(next)
        BY <1>1, <2>2
      <3>2. search' = [search EXCEPT !.lno = next, !.bal = bal, !.eline = eline]
        BY <1>1, <2>2
      <3>3. next \in Nat
        BY <1>2, <1>3, <3>1 DEF Searching
      <3>4. (\E B : search' \in Searching(B))
        <4>1. eline \in Nat \cup {-1}
          BY <1>2, <3>3 DEF Searching
        <4> HIDE DEF next, bal, eline
        <4>2. search' \in Searching(C \cup {bal})
          BY <1>2, <3>2, <3>3, <4>1, SearchMoves
        <4> QED
          BY <4>2
      <3> HIDE DEF next
      <3>5. Paints \/ Rests
        BY <1>1, <2>0, <3>1, <3>3, RequestShape
      <3> QED
        BY <3>4, <3>5
    <2> QED
      BY <2>1, <2>2
  <1>5. HostTypes' /\ SameText /\ BlockSeen' /\ ListShown'
    <2>1. pc' # "list"
      BY <1>1 DEF SearchStep
    <2> QED
      BY <1>1, <1>4, <2>1, HostKept, BlockKept DEF Types, HostTypes, ListShown
  <1> QED
    BY <1>4, <1>5 DEF Stepped

(* A move of the cursor to a line of the text.                             *)
LEMMA CentredTypes ==
  ASSUME Types, NEW lno \in Nat, Centred(lno)
  PROVE  /\ UNCHANGED text
         /\ top' \in Nat /\ height' \in Nat \ {0} /\ cursor' \in Nat /\ block' \in Nat \cup {-1}
  <1>1. /\ UNCHANGED <<text, height, block>>
        /\ cursor' = MinOf(lno, Len(text) - 1) /\ top' = MaxOf(0, cursor' - height \div 2)
    BY DEF Centred
  <1>2. Len(text) - 1 \in Nat /\ height \in Nat \ {0} /\ block \in Nat \cup {-1}
    BY DEF Types, HostTypes
  <1>3. cursor' \in Nat
    BY <1>1, <1>2, MinOfIs
  <1>4. top' \in Nat
    <2>1. height \div 2 \in Int
      BY <1>2
    <2>2. cursor' - height \div 2 \in Int
      BY <1>3, <2>1
    <2> QED
      BY <1>1, <2>2, MaxOfIs
  <1> QED
    BY <1>1, <1>2, <1>3, <1>4

LEMMA ScrolledType ==
  ASSUME Types, NEW c \in Nat
  PROVE  Scrolled(c, height) \in Nat
  BY DEF Scrolled, Types, HostTypes

LEMMA EndSearchStep ==
  ASSUME Types, LinesCounted, BlockSeen, EndSearch
  PROVE  Stepped
  <1>0. pc = "found"
    BY DEF EndSearch
  <1>1. CASE /\ pc' = IF search.goal = "draw" THEN redrawn ELSE "menu"
             /\ UNCHANGED <<host, far, engine, shown, rest>>
    <2>1. (\E B : search' \in Searching(B)) /\ menu' = menu
      BY <1>1, SearchKept DEF rest
    <2>2. HostTypes' /\ SameText /\ BlockSeen'
      BY <1>0, <1>1, <2>1, HostKept, BlockKept DEF Types, HostTypes
    <2>3. Rests /\ ListShown'
      BY <1>0, <1>1, <2>1, <2>2 DEF Rests, ListShown, redrawn
    <2> QED
      BY <2>2, <2>3 DEF Stepped
  <1>2. CASE search.eline # -1 /\ MoveTo(search.eline) /\ BeginRedraw(FALSE)
    <2>1. search.eline \in Nat
      BY <1>2 DEF Types, HostTypes, Searching
    <2>2. CASE Centred(search.eline)
      BY <1>2, <2>1, <2>2, CentredTypes, RedrawSame
    <2>3. CASE ~Centred(search.eline)
      <3>1. /\ cursor' = MinOf(search.eline, Len(text) - 1) /\ top' = Scrolled(cursor', height)
            /\ UNCHANGED <<text, height, block>>
        BY <1>2, <2>3 DEF MoveTo
      <3>2. Len(text) - 1 \in Nat /\ height \in Nat \ {0} /\ block \in Nat \cup {-1}
        BY DEF Types, HostTypes
      <3>3. cursor' \in Nat
        BY <2>1, <3>1, <3>2, MinOfIs
      <3>4. top' \in Nat
        BY <3>1, <3>3, ScrolledType
      <3> QED
        BY <1>2, <3>1, <3>2, <3>3, <3>4, RedrawSame
    <2> QED
      BY <2>2, <2>3
  <1>3. CASE /\ search.eline # -1
             /\ block' = MinOf(search.line, search.eline) /\ pc' = "menu"
             /\ UNCHANGED <<text, top, height, cursor, far, engine, shown, rest>>
    <2>1. block' \in Nat \cup {-1}
      <3>1. search.eline \in Nat /\ search.line \in Nat
        BY <1>3 DEF Types, HostTypes, Searching
      <3> QED
        BY <1>3, <3>1, MinOfIs
    <2>2. (\E B : search' \in Searching(B)) /\ menu' = menu
      BY <1>3, SearchKept DEF rest
    <2>3. HostTypes' /\ SameText
      BY <1>3, <2>1, <2>2 DEF Types, HostTypes, far, SameText
    <2>4. BlockSeen' /\ ListShown' /\ Rests
      BY <1>0, <1>3, <2>3 DEF BlockSeen, ListShown, Rests
    <2> QED
      BY <2>3, <2>4 DEF Stepped
  <1> QED
    BY <1>1, <1>2, <1>3 DEF EndSearch

LEMMA ViewStep ==
  ASSUME Types, LinesCounted, BlockSeen, NEW t \in LineNos, NEW h \in Heights, NEW c \in LineNos,
         NEW b \in {-1} \cup LineNos, View(t, h, c, b)
  PROVE  Stepped
  <1>1. t \in Nat /\ h \in Nat \ {0} /\ c \in Nat /\ b \in Nat \cup {-1}
    BY EditorAssumption DEF LineNos
  <1>2. /\ top' = t /\ height' = h /\ cursor' = c /\ block' = b /\ UNCHANGED text
        /\ BeginRedraw(FALSE)
    BY DEF View
  <1> QED
    BY <1>1, <1>2, RedrawSame

LEMMA LinesAreNat == LineNos \subseteq Nat
  BY EditorAssumption DEF LineNos

LEMMA EditedStep ==
  ASSUME Types, NEW t, NEW c \in Nat, Edited(t, c), t \in Seq(Kinds), Len(t) \in 1 .. MaxLines,
         SameUpTo(TopOfChange)
  PROVE  Stepped
  <1>1. /\ text' = t /\ cursor' = c /\ top' = Scrolled(c, height) /\ block' = -1
        /\ height' = height /\ StartDrawing(TRUE) /\ menu' = NoMenu
    BY DEF Edited, BeginRedraw
  <1>2. top' \in Nat /\ height' \in Nat \ {0}
    BY <1>1, ScrolledType DEF Types, HostTypes
  <1> QED
    BY <1>1, <1>2, RedrawTypes, NoMenuType

LEMMA ReplaceStep ==
  ASSUME Types, NEW c \in LineNos, NEW k \in Kinds, Replace(c, k)
  PROVE  Stepped
  <1> DEFINE t == [text EXCEPT ![c + 1] = k]
  <1>0. c < Len(text) /\ Edited(t, c)
    BY Zenon DEF Replace
  <1> HIDE DEF t
  <1>1. c \in Nat /\ c < Len(text) /\ Edited(t, c) /\ text' = t /\ cursor' = c
    BY <1>0, LinesAreNat, Zenon DEF Edited
  <1>2. /\ t \in Seq(Kinds) /\ Len(t) = Len(text)
        /\ \A n \in Nat : n <= c /\ n <= Len(text) => SameUpTo(n)
    BY <1>1, ReplaceSame DEF t
  <1>3. TopOfChange \in Nat /\ TopOfChange <= MaxOf(0, c - 1)
    BY <1>1, TopOfChangeBounds
  <1>4. MaxOf(0, c - 1) <= c /\ MaxOf(0, c - 1) \in Int /\ Len(text) \in 1 .. MaxLines
    BY <1>1, MaxOfIs DEF Types, HostTypes
  <1>5. SameUpTo(TopOfChange)
    <2>1. TopOfChange <= c /\ TopOfChange <= Len(text)
      BY <1>1, <1>3, <1>4
    <2> QED
      BY <1>2, <1>3, <2>1
  <1> HIDE DEF t
  <1> QED
    BY <1>1, <1>2, <1>4, <1>5, EditedStep

LEMMA SplitStep ==
  ASSUME Types, NEW c \in LineNos, NEW k \in Kinds, Split(c, k)
  PROVE  Stepped
  <1> DEFINE t == InsertAt(text, c + 2, k)
  <1>0. c < Len(text) /\ Len(text) < MaxLines /\ Edited(t, c + 1)
    BY Zenon DEF Split
  <1> HIDE DEF t
  <1>1. /\ c \in Nat /\ c < Len(text) /\ Len(text) < MaxLines /\ Edited(t, c + 1)
        /\ text' = t /\ cursor' = c + 1
    BY <1>0, LinesAreNat, Zenon DEF Edited
  <1>2. /\ t \in Seq(Kinds) /\ Len(t) = Len(text) + 1 /\ \A n \in Nat : n <= c + 1 => SameUpTo(n)
    BY <1>1, SplitSame DEF t
  <1>3. c + 1 \in Nat /\ TopOfChange \in Nat /\ TopOfChange <= MaxOf(0, (c + 1) - 1)
    BY <1>1, TopOfChangeBounds
  <1>4. MaxOf(0, (c + 1) - 1) <= c + 1 /\ MaxOf(0, (c + 1) - 1) \in Int /\ Len(text) \in 1 .. MaxLines
        /\ MaxLines \in Nat
    BY <1>1, MaxOfIs, EditorAssumption DEF Types, HostTypes
  <1>5. SameUpTo(TopOfChange)
    BY <1>2, <1>3, <1>4
  <1>6. Len(t) \in 1 .. MaxLines
    BY <1>1, <1>2, <1>4
  <1> HIDE DEF t
  <1> QED
    BY <1>1, <1>2, <1>3, <1>5, <1>6, EditedStep

LEMMA JoinStep ==
  ASSUME Types, NEW c \in LineNos, Join(c)
  PROVE  Stepped
  <1> DEFINE t == RemoveAt(text, c + 1)
             n == MaxOf(0, c - 1)
  <1>0. c < Len(text) /\ Len(text) > 1 /\ Edited(t, n)
    BY Zenon DEF Join
  <1> HIDE DEF t, n
  <1>1. /\ c \in Nat /\ c < Len(text) /\ Len(text) > 1 /\ Edited(t, n) /\ text' = t /\ cursor' = n
    BY <1>0, LinesAreNat, Zenon DEF Edited
  <1>2. /\ t \in Seq(Kinds) /\ Len(t) = Len(text) - 1 /\ \A i \in Nat : i <= c => SameUpTo(i)
    BY <1>1, JoinSame DEF t
  <1>3. n \in Nat /\ n <= c
    BY <1>1, MaxOfIs DEF n
  <1>4. TopOfChange \in Nat /\ TopOfChange <= MaxOf(0, n - 1)
    BY <1>1, <1>3, TopOfChangeBounds
  <1>5. MaxOf(0, n - 1) <= n /\ MaxOf(0, n - 1) \in Int /\ Len(text) \in 1 .. MaxLines /\ MaxLines \in Nat
    BY <1>3, MaxOfIs, EditorAssumption DEF Types, HostTypes
  <1>6. SameUpTo(TopOfChange)
    <2>1. TopOfChange <= c
      BY <1>1, <1>3, <1>4, <1>5
    <2> QED
      BY <1>2, <1>4, <2>1
  <1>7. Len(t) \in 1 .. MaxLines
    BY <1>1, <1>2, <1>5
  <1> HIDE DEF t
  <1> QED
    BY <1>1, <1>2, <1>3, <1>6, <1>7, EditedStep

(* A change of line i, the cursor and the selection staying, that the      *)
(* redraw does not miss.                                                   *)
LEMMA ChangedStep ==
  ASSUME Types, NEW i \in Nat, NEW k \in Kinds, text' = [text EXCEPT ![i + 1] = k],
         UNCHANGED <<top, height, cursor, block>>, BeginRedraw(TRUE),
         TopOfChange \in Nat => TopOfChange <= i
  PROVE  Stepped
  <1>1. /\ text' \in Seq(Kinds) /\ Len(text') = Len(text)
        /\ \A n \in Nat : n <= i /\ n <= Len(text) => SameUpTo(n)
    BY ReplaceSame
  <1>2. /\ top' \in Nat /\ height' \in Nat \ {0} /\ cursor' \in Nat /\ block' \in Nat \cup {-1}
        /\ Len(text) \in 1 .. MaxLines /\ text \in Seq(Kinds)
    BY DEF Types, HostTypes
  <1>3. TopOfChange \in Nat /\ TopOfChange <= i
    BY <1>2, TopOfChangeBounds
  <1>4. StartDrawing(TRUE) /\ menu' = NoMenu
    BY DEF BeginRedraw
  <1>5. SameText \/ SameUpTo(TopOfChange)
    <2>1. CASE TopOfChange <= Len(text)
      BY <1>1, <1>3, <2>1
    <2>2. CASE ~ (TopOfChange <= Len(text))
      <3>1. DOMAIN text = 1 .. Len(text) /\ i + 1 \notin 1 .. Len(text)
        BY <1>2, <1>3, <2>2
      <3>2. i + 1 \notin DOMAIN text
        BY <3>1
      <3> QED
        BY <1>2, <3>2 DEF SameText
    <2> QED
      BY <2>1, <2>2
  <1> QED
    BY <1>1, <1>2, <1>4, <1>5, RedrawTypes, NoMenuType

LEMMA EditBlockStep ==
  ASSUME Types, BlockSeen, NEW k \in Kinds, EditBlock(k)
  PROVE  Stepped
  <1>1. /\ pc = "idle" /\ block # -1 /\ text' = [text EXCEPT ![block + 1] = k]
        /\ UNCHANGED <<top, height, cursor, block>> /\ BeginRedraw(TRUE)
    BY DEF EditBlock, UserEdits
  <1>2. block \in Nat /\ blockTop = block /\ cursor' \in Nat
    BY <1>1 DEF BlockSeen, Types, HostTypes
  <1>3. TopOfChange <= block
    BY <1>1, <1>2, TopOfChangeBounds
  <1> QED
    BY <1>1, <1>2, <1>3, ChangedStep

LEMMA InsertNameStep ==
  ASSUME Types, BlockSeen, InsertName
  PROVE  Stepped
  <1>1. PICK k \in Kinds : text' = [text EXCEPT ![cursor + 1] = k]
    BY DEF InsertName
  <1>2. UNCHANGED <<top, height, cursor, block>> /\ BeginRedraw(TRUE)
    BY DEF InsertName
  <1>3. cursor \in Nat /\ cursor' = cursor
    BY <1>2 DEF Types, HostTypes
  <1>4. TopOfChange \in Nat /\ TopOfChange <= MaxOf(0, cursor - 1)
    BY <1>3, TopOfChangeBounds
  <1>5. MaxOf(0, cursor - 1) <= cursor /\ MaxOf(0, cursor - 1) \in Int
    BY <1>3, MaxOfIs
  <1>6. TopOfChange <= cursor
    BY <1>3, <1>4, <1>5
  <1> QED
    BY <1>1, <1>2, <1>3, <1>6, ChangedStep

(* A step that leaves the host alone.                                      *)
LEMMA QuietStep ==
  ASSUME Types, BlockSeen, UNCHANGED <<host, far, shown, search>>, menu' \in Menus,
         pc # "menu" \/ pc' = "menu", pc' = "list" => menu' # NoMenu,
         Paints \/ Warms \/ Restarts \/ Rests
  PROVE  Stepped
  <1>1. HostTypes' /\ BlockSeen'
    BY HostKept, BlockKept, SearchKept DEF Types, HostTypes
  <1> QED
    BY <1>1 DEF Stepped, ListShown

LEMMA MenuKept == ASSUME Types, UNCHANGED menu PROVE menu' \in Menus
  BY DEF Types, HostTypes

LEMMA WholeTextStep ==
  ASSUME Types, BlockSeen, NEW next, WholeText(next)
  PROVE  /\ UNCHANGED <<host, far, shown, search>> /\ pc = "idle" /\ pc' = next
         /\ SameText /\ Warms
  <1>1. /\ UNCHANGED <<host, far, shown, search>> /\ pc = "idle" /\ pc' = next
        /\ ValidateCache(-1)
    BY DEF WholeText, UserActs
  <1>2. SameText
    BY <1>1 DEF SameText, host
  <1> QED
    BY <1>1, <1>2 DEF Warms

LEMMA LocateFunctionStep ==
  ASSUME Types, BlockSeen, LocateFunction
  PROVE  Stepped
  <1>1. WholeText("locate") /\ menu' = menu
    BY DEF LocateFunction
  <1> QED
    BY <1>1, WholeTextStep, MenuKept, QuietStep

LEMMA ListFunctionsStep ==
  ASSUME Types, BlockSeen, ListFunctions
  PROVE  Stepped
  <1> DEFINE next == IF outline' = <<>> THEN "menu" ELSE "list"
  <1>1. WholeText(next)
    BY DEF ListFunctions
  <1>2. menu' = IF outline' = <<>> THEN NoMenu ELSE [line |-> cursor, top |-> top]
    BY DEF ListFunctions
  <1>3. menu' \in Menus /\ (next = "list" => menu' # NoMenu)
    <2>1. cursor \in Nat /\ top \in Nat
      BY DEF Types, HostTypes
    <2>2. [line |-> cursor, top |-> top] \in Menus /\ [line |-> cursor, top |-> top] # NoMenu
      BY <2>1 DEF Menus, NoMenu
    <2> QED
      BY <1>2, <2>2, NoMenuType
  <1> HIDE DEF next
  <1>4. /\ UNCHANGED <<host, far, shown, search>> /\ pc = "idle" /\ pc' = next /\ Warms
    BY <1>1, WholeTextStep
  <1> QED
    BY <1>3, <1>4, QuietStep

LEMMA ListedLine == Listed \subseteq Nat
  BY LinesAreNat DEF Listed

LEMMA EndLocateStep ==
  ASSUME Types, LinesCounted, BlockSeen, EndLocate
  PROVE  Stepped
  <1>0. pc = "locate"
    BY DEF EndLocate
  <1>1. CASE \E lno \in Listed : Centred(lno) /\ BeginRedraw(FALSE)
    <2>1. PICK lno \in Listed : Centred(lno) /\ BeginRedraw(FALSE)
      BY <1>1
    <2>2. lno \in Nat
      BY ListedLine
    <2> QED
      BY <2>1, <2>2, CentredTypes, RedrawSame
  <1>2. CASE pc' = "menu" /\ UNCHANGED <<host, far, engine, shown, rest>>
    <2>1. search' = search /\ menu' = menu
      BY <1>2 DEF rest
    <2>2. Rests
      BY <1>0, <1>2 DEF Rests, SameText, host
    <2> QED
      BY <1>2, <2>1, <2>2, MenuKept, QuietStep
  <1> QED
    BY <1>1, <1>2 DEF EndLocate

LEMMA ChooseFunctionStep ==
  ASSUME Types, ChooseFunction
  PROVE  Stepped
  <1>1. PICK lno \in Listed : Centred(lno) /\ BeginRedraw(FALSE)
    BY DEF ChooseFunction
  <1>2. lno \in Nat
    BY ListedLine
  <1> QED
    BY <1>1, <1>2, CentredTypes, RedrawSame

LEMMA BrowseStep ==
  ASSUME Types, Browse
  PROVE  Stepped
  <1>1. PICK lno \in Listed : Centred(lno) /\ StartDrawing(FALSE) /\ UNCHANGED menu
    BY DEF Browse
  <1>2. lno \in Nat
    BY ListedLine
  <1>3. SameText /\ text' \in Seq(Kinds) /\ Len(text') \in 1 .. MaxLines
    BY <1>1, <1>2, CentredTypes DEF SameText, Types, HostTypes
  <1> QED
    BY <1>1, <1>2, <1>3, CentredTypes, RedrawTypes, MenuKept

LEMMA LeaveListStep ==
  ASSUME Types, ListShown, LeaveList
  PROVE  Stepped
  <1>1. /\ pc = "list" /\ cursor' = menu.line /\ top' = menu.top
        /\ UNCHANGED <<text, height, block>> /\ BeginRedraw(FALSE)
    BY DEF LeaveList, InList
  <1>2. menu \in [line : Nat, top : Nat]
    BY <1>1 DEF ListShown, Types, HostTypes, Menus
  <1>3. cursor' \in Nat /\ top' \in Nat
    BY <1>1, <1>2
  <1> QED
    BY <1>1, <1>3, RedrawSame DEF Types, HostTypes

(* A redraw asked for with the host as it is.                              *)
LEMMA RedrawAgain ==
  ASSUME Types, UNCHANGED host, BeginRedraw(FALSE)
  PROVE  Stepped
  <1>1. /\ UNCHANGED text /\ top' \in Nat /\ height' \in Nat \ {0}
        /\ cursor' \in Nat /\ block' \in Nat \cup {-1}
    BY DEF host, Types, HostTypes
  <1> QED
    BY <1>1, RedrawSame

LEMMA EndIdleStep ==
  ASSUME Types, BlockSeen, EndIdle
  PROVE  Stepped
  <1>0. pc = "parsed"
    BY DEF EndIdle
  <1>1. CASE UNCHANGED host /\ BeginRedraw(FALSE)
    BY <1>1, RedrawAgain
  <1>2. CASE pc' = "idle" /\ UNCHANGED <<host, far, engine, shown, rest>>
    <2>1. search' = search /\ menu' = menu
      BY <1>2 DEF rest
    <2>2. Rests
      BY <1>0, <1>2 DEF Rests, SameText, host
    <2> QED
      BY <1>0, <1>2, <2>1, <2>2, MenuKept, QuietStep
  <1> QED
    BY <1>1, <1>2 DEF EndIdle

LEMMA IdleJobStep ==
  ASSUME Types, BlockSeen, NEW b \in Budgets, IdleJob(b)
  PROVE  Stepped
  <1>1. /\ pc = "parse" /\ ValidateCache(invalidLine + b) /\ pc' \in {"parse", "parsed"}
        /\ UNCHANGED <<host, far, shown, rest>>
    BY DEF IdleJob
  <1>2. invalidLine + b \in Int
    BY EditorAssumption DEF Types, EngineTypes
  <1>3. search' = search /\ menu' = menu /\ SameText
    BY <1>1 DEF rest, host, SameText
  <1>4. Warms
    BY <1>1, <1>2, <1>3 DEF Warms
  <1>5. pc # "menu" /\ pc' # "list"
    BY <1>1
  <1> QED
    BY <1>1, <1>3, <1>4, <1>5, MenuKept, QuietStep

LEMMA IdleStep ==
  ASSUME Types, BlockSeen, Idle
  PROVE  Stepped
  <1>1. /\ pc = "idle" /\ pc' = "parse" /\ UNCHANGED <<host, far, engine, shown, search, menu>>
    BY DEF Idle
  <1>2. Rests
    BY <1>1 DEF Rests, SameText, host
  <1> QED
    BY <1>1, <1>2, MenuKept, QuietStep

LEMMA SelectRegionStep ==
  ASSUME Types, SelectRegion
  PROVE  Stepped
  <1>1. /\ pc = "idle" /\ block' = cursor /\ pc' = "menu"
        /\ UNCHANGED <<text, top, height, cursor, far, engine, shown, rest>>
    BY DEF SelectRegion, UserActs
  <1>2. search' = search /\ menu' = menu /\ SameText
    BY <1>1 DEF rest, SameText
  <1>3. HostTypes'
    BY <1>1, <1>2, SearchKept, MenuKept DEF Types, HostTypes, far
  <1>4. BlockSeen' /\ ListShown' /\ Rests
    BY <1>1, <1>2 DEF BlockSeen, ListShown, Rests
  <1> QED
    BY <1>3, <1>4 DEF Stepped

LEMMA UpdateHighlightingStep ==
  ASSUME Types, BlockSeen, UpdateHighlighting
  PROVE  Stepped
  <1>1. /\ pc = "idle" /\ ValidateRegions(top) /\ pc' = "menu"
        /\ UNCHANGED <<host, far, shown, rest>>
    BY DEF UpdateHighlighting, UserActs
  <1>2. search' = search /\ menu' = menu /\ SameText
    BY <1>1 DEF rest, host, SameText
  <1>3. Paints
    BY <1>1, <1>2 DEF Paints, Types, HostTypes
  <1> QED
    BY <1>1, <1>2, <1>3, MenuKept, QuietStep

LEMMA SetFileTypeStep ==
  ASSUME Types, BlockSeen, SetFileType
  PROVE  Stepped
  <1>1. /\ pc = "idle" /\ pc' = "menu" /\ UNCHANGED <<host, far, window, ring, shown, rest>>
        /\ starts' = [l \in 0 .. MaxLines |-> 0] /\ invalidLine' = 0 /\ backParse' \in BackParses
        /\ outline' = <<>> /\ modifiedLine' = 0
    BY DEF SetFileType, UserActs, ReloadTypeSettings
  <1>2. search' = search /\ menu' = menu /\ SameText
    BY <1>1 DEF rest, host, SameText
  <1>3. Restarts
    BY <1>1, <1>2, EditorAssumption DEF Restarts
  <1> QED
    BY <1>1, <1>2, <1>3, MenuKept, QuietStep

LEMMA RemapStep ==
  ASSUME Types, BlockSeen, Remap
  PROVE  Stepped
  <1>1. /\ pc = "idle" /\ pc' = "menu" /\ invalidLine' = 0
        /\ UNCHANGED <<host, far, backParse, window, ring, starts, listener, shown, rest>>
    BY DEF Remap, UserActs
  <1>2. search' = search /\ menu' = menu /\ SameText
    BY <1>1 DEF rest, host, SameText
  <1>3. Restarts
    BY <1>1, <1>2 DEF Restarts, Types, EngineTypes
  <1> QED
    BY <1>1, <1>2, <1>3, MenuKept, QuietStep

LEMMA StepKinds ==
  ASSUME Types, LinesCounted, BlockSeen, ListShown, [Next]_vars
  PROVE  Stepped
  <1>1. CASE Open
    BY <1>1, OpenStep
  <1>2. CASE DrawLine
    BY <1>2, DrawLineStep
  <1>3. CASE DrawPair
    BY <1>3, DrawPairStep
  <1>4. CASE SearchStep
    BY <1>4, SearchStepStep
  <1>5. CASE EndSearch
    BY <1>5, EndSearchStep
  <1>6. CASE EndLocate
    BY <1>6, EndLocateStep
  <1>7. CASE ChooseFunction
    BY <1>7, ChooseFunctionStep
  <1>8. CASE LeaveList
    BY <1>8, LeaveListStep
  <1>9. CASE CloseMenu
    BY <1>9, RedrawAgain DEF CloseMenu
  <1>10. CASE \E b \in Budgets : IdleJob(b)
    BY <1>10, IdleJobStep
  <1>11. CASE EndIdle
    BY <1>11, EndIdleStep
  <1>12. CASE Idle
    BY <1>12, IdleStep
  <1>13. CASE \E t, c \in LineNos, h \in Heights, b \in {-1} \cup LineNos : View(t, h, c, b)
    BY <1>13, ViewStep
  <1>14. CASE \E c \in LineNos, k \in Kinds : Replace(c, k) \/ Split(c, k)
    BY <1>14, ReplaceStep, SplitStep
  <1>15. CASE \E c \in LineNos : Join(c)
    BY <1>15, JoinStep
  <1>16. CASE \E k \in Kinds : EditBlock(k)
    BY <1>16, EditBlockStep
  <1>17. CASE MatchPair \/ SelectPair
    <2>1. pc = "idle" /\ (BeginSearch("move") \/ BeginSearch("select"))
      BY <1>17 DEF MatchPair, SelectPair, UserActs
    <2> QED
      BY <2>1, BeginSearchStep
  <1>18. CASE SelectRegion
    BY <1>18, SelectRegionStep
  <1>19. CASE LocateFunction
    BY <1>19, LocateFunctionStep
  <1>20. CASE ListFunctions
    BY <1>20, ListFunctionsStep
  <1>21. CASE Browse
    BY <1>21, BrowseStep
  <1>22. CASE InsertName
    BY <1>22, InsertNameStep
  <1>23. CASE UpdateHighlighting
    BY <1>23, UpdateHighlightingStep
  <1>24. CASE SetFileType
    BY <1>24, SetFileTypeStep
  <1>25. CASE Remap
    BY <1>25, RemapStep
  <1>26. CASE UNCHANGED vars
    <2>1. /\ UNCHANGED <<host, far, engine, shown, search, menu>> /\ pc' = pc
      BY <1>26 DEF vars, event, rest
    <2>2. Rests
      BY <2>1 DEF Rests, SameText, host
    <2> QED
      BY <2>1, <2>2, MenuKept, QuietStep DEF ListShown
  <1> QED
    BY <1>1, <1>2, <1>3, <1>4, <1>5, <1>6, <1>7, <1>8, <1>9, <1>10, <1>11, <1>12, <1>13,
       <1>14, <1>15, <1>16, <1>17, <1>18, <1>19, <1>20, <1>21, <1>22, <1>23, <1>24, <1>25,
       <1>26 DEF Next, Handle

-----------------------------------------------------------------------------
(* The cache is known. *)

KnownInv ==
  /\ Types /\ LinesCounted /\ BlockSeen /\ ListShown
  /\ Knows(starts, invalidLine, text)

LEMMA InitKnown == Init => KnownInv
  <1> SUFFICES ASSUME Init PROVE KnownInv
    OBVIOUS
  <1>1. /\ text \in Seq(Kinds) /\ Len(text) \in 1 .. MaxLines /\ height \in Nat \ {0}
        /\ StartSize \in Nat \ {0} /\ MaxLines \in Nat \ {0}
    BY EditorAssumption DEF Init
  <1>2. backParse \in Int
    BY EditorAssumption DEF Init
  <1>3. \E B : search \in Searching(B)
    <2>1. search \in Searching({0})
      BY DEF Init, Searching
    <2> QED
      BY <2>1
  <1>4. \E S : shown \in Seq(S)
    <2>1. shown \in Seq(Nat)
      BY DEF Init
    <2> QED
      BY <2>1
  <1>5. HostTypes
    BY <1>1, <1>3, <1>4, NoMenuType DEF Init, HostTypes
  <1>6. EngineTypes
    BY <1>1, <1>2 DEF Init, EngineTypes
  <1>7. Knows(starts, invalidLine, text)
    BY <1>1, DepthsFollow DEF Init, Knows
  <1> QED
    BY <1>5, <1>6, <1>7 DEF Init, KnownInv, Types, LinesCounted, BlockSeen, ListShown

LEMMA StepKnown == KnownInv /\ [Next]_vars => KnownInv'
  <1> SUFFICES ASSUME KnownInv, [Next]_vars PROVE KnownInv'
    OBVIOUS
  <1>1. Types /\ LinesCounted /\ BlockSeen /\ ListShown /\ Knows(starts, invalidLine, text)
    BY DEF KnownInv
  <1>2. Stepped
    BY <1>1, StepKinds
  <1>3. HostTypes' /\ BlockSeen' /\ ListShown'
    BY <1>2 DEF Stepped
  <1>4. EngineTypes' /\ LinesCounted' /\ Knows(starts', invalidLine', text')
    <2>1. CASE Paints
      <3>1. PICK lno \in Nat : ValidateRegions(lno) /\ lineCount = Len(text) /\ text' = text
        BY <1>1, <2>1 DEF Paints, LinesCounted, SameText
      <3> QED
        BY <1>1, <3>1, PaintKnows DEF LinesCounted
    <2>2. CASE Warms
      <3>1. PICK lno \in Int : ValidateCache(lno) /\ lineCount = Len(text) /\ text' = text
        BY <1>1, <2>2 DEF Warms, LinesCounted, SameText
      <3> QED
        BY <1>1, <3>1, WarmKnows DEF LinesCounted
    <2>3. CASE Redraws
      BY <1>1, <1>3, <2>3, RedrawKnows DEF LinesCounted
    <2>4. CASE Restarts
      <3>1. lineCount = Len(text) /\ text' = text
        BY <1>1, <2>4 DEF Restarts, LinesCounted, SameText
      <3> QED
        BY <1>1, <2>4, <3>1, RestartKnows DEF LinesCounted
    <2>5. CASE Rests
      <3>1. /\ text' = text /\ (pc = "open" => pc' = "open")
            /\ UNCHANGED <<invalidLine, backParse, wStart, wSize, lineCount, lrSize, firstLine, starts>>
        BY <2>5 DEF Rests, SameText, engine, window, ring
      <3> QED
        BY <1>1, <3>1 DEF Types, EngineTypes, LinesCounted, Knows
    <2> QED
      BY <1>2, <2>1, <2>2, <2>3, <2>4, <2>5 DEF Stepped
  <1> QED
    BY <1>3, <1>4 DEF KnownInv, Types

LEMMA AlwaysKnown == Spec => []KnownInv
  BY InitKnown, StepKnown, PTL DEF Spec

(* The parser knows the true state at the start of every line up to        *)
(* invalidLine, whatever the redraws guessed of what the user had changed. *)
THEOREM CacheIsKnown == Spec => []CacheKnown
  <1>1. KnownInv => CacheKnown
    BY CacheKnownIs DEF KnownInv, Knows
  <1> QED
    BY <1>1, AlwaysKnown, PTL

-----------------------------------------------------------------------------
(* Division with a rest, and the ring. *)

LEMMA DivMod ==
  ASSUME NEW a \in Nat, NEW n \in Nat \ {0}
  PROVE  /\ a \div n \in Nat /\ a % n \in Nat /\ a % n < n
         /\ a = n * (a \div n) + (a % n)
  <1>1. a \div n \in Nat
    OBVIOUS
  <1>2. a % n \in 0 .. n - 1
    OBVIOUS
  <1>3. a = n * (a \div n) + (a % n)
    OBVIOUS
  <1> QED
    BY <1>1, <1>2, <1>3

(* Only 0 times n lies within n.                                            *)
LEMMA Within ==
  ASSUME NEW a \in Int, NEW n \in Nat \ {0}, n * a < n, n * a > -n
  PROVE  a = 0
  <1>1. ASSUME a >= 1 PROVE FALSE
    <2>1. n * a >= n
      BY <1>1
    <2> QED
      BY <2>1
  <1>2. ASSUME a <= -1 PROVE FALSE
    <2>1. n * a <= -n
      BY <1>2
    <2> QED
      BY <2>1
  <1> QED
    BY <1>1, <1>2

(* A number has one quotient and one rest.                                 *)
LEMMA SameMod ==
  ASSUME NEW n \in Nat \ {0}, NEW p \in Int, NEW q \in Int, NEW r \in Nat, NEW t \in Nat,
         r < n, t < n, NEW a, a = n * p + r, a = n * q + t
  PROVE  r = t /\ p = q
  <1>1. n * (p - q) = t - r
    OBVIOUS
  <1>2. n * (p - q) < n /\ n * (p - q) > -n
    BY <1>1
  <1>3. p - q = 0
    BY <1>2, Within
  <1> QED
    BY <1>3

(* What is left over is said by any way to write the number.               *)
LEMMA ModIs ==
  ASSUME NEW n \in Nat \ {0}, NEW p \in Int, NEW t \in Nat, t < n, n * p + t \in Nat
  PROVE  (n * p + t) % n = t
  <1> DEFINE a == n * p + t
  <1>1. /\ a \div n \in Nat /\ a % n \in Nat /\ a % n < n
        /\ a = n * (a \div n) + (a % n)
    BY DivMod
  <1>2. PICK q \in Nat, r \in Nat : r < n /\ a = n * q + r /\ r = a % n
    BY <1>1
  <1>3. r = t
    <2> HIDE DEF a
    <2>1. a = n * p + t
      BY DEF a
    <2> QED
      BY <1>2, <2>1, SameMod
  <1> QED
    BY <1>2, <1>3

(* The place of a line in the ring does not depend on where the ring       *)
(* begins.                                                                 *)
LEMMA LineIndexIs ==
  ASSUME NEW first \in Nat, NEW size \in Nat \ {0}, NEW l \in Nat, first <= l
  PROVE  LineIndex(first, size, l) = l % size
  <1>1. PICK q \in Nat, r \in Nat : first = size * q + r /\ r = first % size
    BY DivMod
  <1>2. PICK p \in Nat, t \in Nat : l = size * p + t /\ t = l % size /\ t < size
    BY DivMod
  <1>3. r + l - first = size * (p - q) + t
    BY <1>1, <1>2
  <1>4. r + l - first \in Nat /\ p - q \in Int
    BY <1>1, <1>2
  <1>5. (r + l - first) % size = t
    BY <1>2, <1>3, <1>4, ModIs
  <1> QED
    BY <1>1, <1>2, <1>5 DEF LineIndex

(* Two lines of the same place are a ring apart.                           *)
LEMMA ModInjective ==
  ASSUME NEW size \in Nat \ {0}, NEW l \in Nat, NEW m \in Nat, l % size = m % size,
         l - m < size, m - l < size
  PROVE  l = m
  <1>1. l = size * (l \div size) + (l % size) /\ l \div size \in Nat
    BY DivMod
  <1>2. m = size * (m \div size) + (m % size) /\ m \div size \in Nat
    BY DivMod
  <1> DEFINE p == l \div size
             q == m \div size
             r == l % size
  <1>3. r \in Nat /\ l = size * p + r /\ m = size * q + r
    BY <1>1, <1>2, DivMod
  <1> HIDE DEF p, q, r
  <1>4. size * (p - q) = l - m
    BY <1>1, <1>2, <1>3 DEF p, q
  <1>5. p - q \in Int
    BY <1>1, <1>2 DEF p, q
  <1>6. p - q = 0
    BY <1>4, <1>5, Within
  <1> QED
    BY <1>4, <1>6

-----------------------------------------------------------------------------
(* What Only leaves of a sequence, up to its i-th element. *)

OnlyTo(s, S) ==
  LET f[i \in 0 .. Len(s)] ==
        IF i = 0 THEN <<>> ELSE IF s[i] \in S THEN Append(f[i - 1], s[i]) ELSE f[i - 1]
  IN  f

LEMMA OnlyIs == \A s, S : Only(s, S) = OnlyTo(s, S)[Len(s)]
  BY DEF Only, OnlyTo

LEMMA OnlyExists ==
  ASSUME NEW s, NEW S, Len(s) \in Nat
  PROVE  OnlyTo(s, S) =
           [i \in 0 .. Len(s) |-> IF i = 0 THEN <<>>
                                  ELSE IF s[i] \in S THEN Append(OnlyTo(s, S)[i - 1], s[i])
                                  ELSE OnlyTo(s, S)[i - 1]]
  <1> DEFINE Is(g, n) ==
               g = [i \in 0 .. n |-> IF i = 0 THEN <<>>
                                     ELSE IF s[i] \in S THEN Append(g[i - 1], s[i])
                                     ELSE g[i - 1]]
             T == {n \in Nat : \E g : Is(g, n)}
  <1>1. 0 \in T
    <2> DEFINE g == [i \in 0 .. 0 |-> <<>>]
    <2>1. Is(g, 0)
      OBVIOUS
    <2> HIDE DEF g, Is
    <2> QED
      BY <2>1
  <1>2. ASSUME NEW n \in Nat, n \in T PROVE n + 1 \in T
    <2>1. PICK g : Is(g, n)
      BY <1>2
    <2> DEFINE last == IF s[n + 1] \in S THEN Append(g[n], s[n + 1]) ELSE g[n]
               h == [i \in 0 .. n + 1 |-> IF i = n + 1 THEN last ELSE g[i]]
    <2>2. \A i \in 0 .. n : h[i] = g[i]
      OBVIOUS
    <2>3. \A i \in 0 .. n + 1 :
            h[i] = IF i = 0 THEN <<>> ELSE IF s[i] \in S THEN Append(h[i - 1], s[i]) ELSE h[i - 1]
      <3> TAKE i \in 0 .. n + 1
      <3>1. CASE i = n + 1
        <4>1. i # 0 /\ i - 1 = n /\ n \in 0 .. n
          BY <3>1
        <4>2. h[i] = IF s[i] \in S THEN Append(g[n], s[i]) ELSE g[n]
          BY <3>1
        <4> HIDE DEF h
        <4> QED
          BY <2>2, <4>1, <4>2
      <3>2. CASE i \in 0 .. n
        <4>1. g[i] = IF i = 0 THEN <<>> ELSE IF s[i] \in S THEN Append(g[i - 1], s[i]) ELSE g[i - 1]
          BY <2>1, <3>2
        <4>2. i # 0 => i - 1 \in 0 .. n
          BY <3>2
        <4> HIDE DEF h, Is
        <4> QED
          BY <2>2, <3>2, <4>1, <4>2
      <3> QED
        BY <3>1, <3>2
    <2>4. Is(h, n + 1)
      BY <2>3
    <2> HIDE DEF h, Is
    <2> QED
      BY <2>4
  <1>3. Len(s) \in T
    <2> HIDE DEF T
    <2> QED
      BY <1>1, <1>2, Induction
  <1>4. PICK g : Is(g, Len(s))
    BY <1>3
  <1> QED
    BY <1>4 DEF OnlyTo

LEMMA OnlySteps ==
  ASSUME NEW s, NEW S, Len(s) \in Nat
  PROVE  /\ OnlyTo(s, S)[0] = <<>>
         /\ \A i \in 1 .. Len(s) :
              OnlyTo(s, S)[i] = IF s[i] \in S THEN Append(OnlyTo(s, S)[i - 1], s[i])
                                ELSE OnlyTo(s, S)[i - 1]
  <1> DEFINE f == OnlyTo(s, S)
  <1>1. f = [i \in 0 .. Len(s) |-> IF i = 0 THEN <<>>
                                   ELSE IF s[i] \in S THEN Append(f[i - 1], s[i]) ELSE f[i - 1]]
    BY OnlyExists
  <1> HIDE DEF f
  <1>2. f[0] = <<>>
    BY <1>1
  <1>3. \A i \in 1 .. Len(s) : i \in 0 .. Len(s) /\ i # 0
    OBVIOUS
  <1>4. \A i \in 1 .. Len(s) : f[i] = IF s[i] \in S THEN Append(f[i - 1], s[i]) ELSE f[i - 1]
    BY <1>1, <1>3
  <1> QED
    BY <1>2, <1>4 DEF f

(* Nothing is left where nothing is in S.                                  *)
LEMMA OnlyNone ==
  ASSUME NEW s, NEW S, Len(s) \in Nat, NEW m \in 0 .. Len(s), \A i \in 1 .. m : s[i] \notin S
  PROVE  OnlyTo(s, S)[m] = <<>>
  <1> DEFINE f == OnlyTo(s, S)
             T == {n \in Nat : n <= m => f[n] = <<>>}
  <1>0. f[0] = <<>> /\ \A i \in 1 .. Len(s) : f[i] = IF s[i] \in S THEN Append(f[i - 1], s[i]) ELSE f[i - 1]
    BY OnlySteps
  <1> HIDE DEF f
  <1>1. 0 \in T
    BY <1>0
  <1>2. ASSUME NEW n \in Nat, n \in T PROVE n + 1 \in T
    <2> SUFFICES ASSUME n + 1 <= m PROVE f[n + 1] = <<>>
      OBVIOUS
    <2>1. n + 1 \in 1 .. Len(s) /\ n + 1 \in 1 .. m /\ (n + 1) - 1 = n /\ f[n] = <<>>
      BY <1>2
    <2> QED
      BY <1>0, <2>1
  <1>3. m \in T
    <2> HIDE DEF T
    <2> QED
      BY <1>1, <1>2, Induction
  <1> QED
    BY <1>3 DEF f

(* Two sequences that go on alike leave the same.                          *)
Onward(s, t, S, T, m, k, n) ==
  /\ Len(s) \in Nat /\ Len(t) \in Nat /\ m \in Nat /\ k \in Nat /\ n \in Nat
  /\ m + n <= Len(s) /\ k + n <= Len(t)
  /\ \A i \in 1 .. n : s[m + i] = t[k + i] /\ (s[m + i] \in S <=> t[k + i] \in T)

LEMMA OnlyAlike ==
  ASSUME NEW s, NEW t, NEW S, NEW T, NEW m, NEW k, NEW n, Onward(s, t, S, T, m, k, n),
         OnlyTo(s, S)[m] = OnlyTo(t, T)[k]
  PROVE  OnlyTo(s, S)[m + n] = OnlyTo(t, T)[k + n]
  <1> DEFINE f == OnlyTo(s, S)
             g == OnlyTo(t, T)
             R == {j \in Nat : j <= n => f[m + j] = g[k + j]}
  <1>. /\ Len(s) \in Nat /\ Len(t) \in Nat /\ m \in Nat /\ k \in Nat /\ n \in Nat
       /\ m + n <= Len(s) /\ k + n <= Len(t)
       /\ \A i \in 1 .. n : s[m + i] = t[k + i] /\ (s[m + i] \in S <=> t[k + i] \in T)
    BY DEF Onward
  <1>0. /\ \A i \in 1 .. Len(s) : f[i] = IF s[i] \in S THEN Append(f[i - 1], s[i]) ELSE f[i - 1]
        /\ \A i \in 1 .. Len(t) : g[i] = IF t[i] \in T THEN Append(g[i - 1], t[i]) ELSE g[i - 1]
        /\ f[m] = g[k]
    BY OnlySteps
  <1> HIDE DEF f, g
  <1>1. 0 \in R
    BY <1>0
  <1>2. ASSUME NEW j \in Nat, j \in R PROVE j + 1 \in R
    <2> SUFFICES ASSUME j + 1 <= n PROVE f[m + (j + 1)] = g[k + (j + 1)]
      OBVIOUS
    <2>1. /\ m + (j + 1) \in 1 .. Len(s) /\ (m + (j + 1)) - 1 = m + j
          /\ k + (j + 1) \in 1 .. Len(t) /\ (k + (j + 1)) - 1 = k + j
          /\ j + 1 \in 1 .. n /\ f[m + j] = g[k + j]
      BY <1>2
    <2>2. f[m + (j + 1)] = IF s[m + (j + 1)] \in S THEN Append(f[m + j], s[m + (j + 1)]) ELSE f[m + j]
      BY <1>0, <2>1
    <2>3. g[k + (j + 1)] = IF t[k + (j + 1)] \in T THEN Append(g[k + j], t[k + (j + 1)]) ELSE g[k + j]
      BY <1>0, <2>1
    <2> QED
      BY <2>1, <2>2, <2>3
  <1>3. n \in R
    <2> HIDE DEF R
    <2> QED
      BY <1>1, <1>2, Induction
  <1> QED
    BY <1>3 DEF f, g

-----------------------------------------------------------------------------
(* A line painted at the start of a parse, and in the middle of one: the   *)
(* first has the blocks open before it in front, at no width.              *)

Names == {NoRegion, "block", "PairStart", "PairEnd", "Outlined"}
Entries == [region : Names, scheme : Nat]
Regions == [start : Int, end : Int, region : Names, scheme : Nat, special : BOOLEAN]
Handler(a, L, f) == [stack |-> a, line |-> L, flow |-> f]
Handles(a, L, f) ==
  a \in Seq(Entries) /\ a # <<>> /\ L \in Seq(Regions) /\ f \in 1 .. Len(L)

(* h has seen what g has, and the regions P before.                        *)
Longer(h, g, P) ==
  \E a, L, f : /\ Handles(a, L, f)
               /\ g = Handler(a, L, f) /\ h = Handler(a, P \o L, Len(P) + f)

(* An entry that is changed behind P is changed in what follows P.         *)
LEMMA ChangeBehind ==
  ASSUME NEW S, NEW P \in Seq(S), NEW L \in Seq(S), NEW i \in 1 .. Len(L), NEW x \in S
  PROVE  [P \o L EXCEPT ![Len(P) + i] = x] = P \o [L EXCEPT ![i] = x]
  <1> DEFINE M == [L EXCEPT ![i] = x]
             Q == P \o L
             R == [Q EXCEPT ![Len(P) + i] = x]
  <1>1. Len(P) \in Nat /\ Len(L) \in Nat
    OBVIOUS
  <1>2. M \in Seq(S) /\ Len(M) = Len(L) /\ \A j \in 1 .. Len(L) : M[j] = IF j = i THEN x ELSE L[j]
    OBVIOUS
  <1>3. /\ Q \in Seq(S) /\ Len(Q) = Len(P) + Len(L)
        /\ \A j \in 1 .. Len(P) + Len(L) : Q[j] = IF j <= Len(P) THEN P[j] ELSE L[j - Len(P)]
    BY ConcatProperties
  <1> HIDE DEF M, Q
  <1>4. /\ R \in Seq(S) /\ Len(R) = Len(Q)
        /\ \A j \in 1 .. Len(Q) : R[j] = IF j = Len(P) + i THEN x ELSE Q[j]
    BY <1>1, <1>3
  <1>5. /\ P \o M \in Seq(S) /\ Len(P \o M) = Len(P) + Len(M)
        /\ \A j \in 1 .. Len(P) + Len(M) : (P \o M)[j] = IF j <= Len(P) THEN P[j] ELSE M[j - Len(P)]
    BY <1>2, ConcatProperties
  <1> HIDE DEF R
  <1>6. \A j \in 1 .. Len(R) : R[j] = (P \o M)[j]
    <2> TAKE j \in 1 .. Len(R)
    <2>1. CASE j <= Len(P)
      BY <1>1, <1>2, <1>3, <1>4, <1>5, <2>1
    <2>2. CASE ~ (j <= Len(P))
      <3>1. j - Len(P) \in 1 .. Len(L) /\ (j = Len(P) + i <=> j - Len(P) = i)
        BY <1>1, <1>3, <1>4, <2>2
      <3> QED
        BY <1>1, <1>2, <1>3, <1>4, <1>5, <2>2, <3>1
    <2> QED
      BY <2>1, <2>2
  <1>7. Len(R) = Len(P \o M)
    BY <1>1, <1>2, <1>3, <1>4, <1>5
  <1>8. R = P \o M
    <2> DEFINE N == P \o M
    <2>1. N \in Seq(S) /\ Len(R) = Len(N) /\ \A j \in 1 .. Len(R) : R[j] = N[j]
      BY <1>5, <1>6, <1>7
    <2> HIDE DEF N
    <2>2. R = N
      BY <1>4, <2>1, SeqEqual
    <2> QED
      BY <2>2 DEF N
  <1> QED
    BY <1>8 DEF R, Q, M

(* The handler's operations, on its three parts.                           *)
LEMMA AddRegionIs ==
  ASSUME NEW a, NEW L, NEW f, NEW s, NEW e, NEW r, NEW special
  PROVE  AddRegion(Handler(a, L, f), s, e, r, special) =
           Handler(a, Append(L, [start |-> s, end |-> e, region |-> r,
                                 scheme |-> Last(a).scheme, special |-> special]), f)
  BY DEF AddRegion, Handler

LEMMA SwitchIs ==
  ASSUME NEW a, NEW L, NEW f, NEW entry, NEW s
  PROVE  Switch(Handler(a, L, f), entry, s) =
           Handler(a, Append([L EXCEPT ![f] = [L[f] EXCEPT !.end = s]], Flow(entry, s)), Len(L) + 1)
  <1> DEFINE h == [stack |-> a, line |-> L, flow |-> f]
             y == Append([L EXCEPT ![f].end = s], Flow(entry, s))
             z == Len(L) + 1
             k == [stack |-> a, line |-> y, flow |-> f]
  <1>1. h.line = L /\ h.flow = f
    OBVIOUS
  <1> HIDE DEF h
  <1>2. Switch(h, entry, s) = [h EXCEPT !.line = y, !.flow = z]
    BY <1>1 DEF Switch
  <1>3. [L EXCEPT ![f].end = s] = [L EXCEPT ![f] = [L[f] EXCEPT !.end = s]]
    OBVIOUS
  <1>4. y = Append([L EXCEPT ![f] = [L[f] EXCEPT !.end = s]], Flow(entry, s))
    BY <1>3
  <1> HIDE DEF y, z
  <1>5. [h EXCEPT !.line = y, !.flow = z] = [[h EXCEPT !.line = y] EXCEPT !.flow = z]
    OBVIOUS
  <1>6. [h EXCEPT !.line = y] = k
    BY DEF h
  <1>7. [k EXCEPT !.flow = z] = [stack |-> a, line |-> y, flow |-> z]
    OBVIOUS
  <1> HIDE DEF k
  <1> QED
    BY <1>2, <1>4, <1>5, <1>6, <1>7 DEF h, z, Handler

LEMMA LastEntry ==
  ASSUME NEW a \in Seq(Entries), a # <<>>
  PROVE  Last(a) \in Entries
  BY DEF Last

(* What is left of a stack when its last entry goes.                       *)
LEMMA FrontEntries ==
  ASSUME NEW a \in Seq(Entries), Len(a) > 1
  PROVE  Front(a) \in Seq(Entries) /\ Front(a) # <<>>
  <1>1. PICK n \in Nat : n = Len(a) - 1 /\ n >= 1 /\ n <= Len(a)
    BY SMTT(30)
  <1>2. Front(a) = SubSeq(a, 1, n)
    BY <1>1 DEF Front
  <1>3. SubSeq(a, 1, n) \in Seq(Entries) /\ Len(SubSeq(a, 1, n)) = n
    BY <1>1
  <1>4. PICK b : b = SubSeq(a, 1, n) /\ b \in Seq(Entries) /\ Len(b) = n
    BY <1>3
  <1>5. Len(b) >= 1
    BY <1>1, <1>4
  <1>6. b # <<>>
    BY ONLY <1>5
  <1> QED
    BY <1>2, <1>4, <1>6

(* Every operation of the handler leaves a line that was longer by P so.   *)
LEMMA AddLonger ==
  ASSUME NEW h, NEW g, NEW P \in Seq(Regions), Longer(h, g, P), NEW s \in Int, NEW e \in Int,
         NEW r \in Names, NEW special \in BOOLEAN
  PROVE  Longer(AddRegion(h, s, e, r, special), AddRegion(g, s, e, r, special), P)
  <1>1. PICK a, L, f : /\ Handles(a, L, f)
                       /\ g = Handler(a, L, f) /\ h = Handler(a, P \o L, Len(P) + f)
    BY DEF Longer
  <1> DEFINE x == [start |-> s, end |-> e, region |-> r, scheme |-> Last(a).scheme,
                   special |-> special]
  <1>2. a \in Seq(Entries) /\ a # <<>> /\ L \in Seq(Regions) /\ f \in 1 .. Len(L)
    BY <1>1 DEF Handles
  <1>3. x \in Regions
    BY <1>2, LastEntry DEF Regions, Entries
  <1>4. /\ AddRegion(g, s, e, r, special) = Handler(a, Append(L, x), f)
        /\ AddRegion(h, s, e, r, special) = Handler(a, Append(P \o L, x), Len(P) + f)
    BY <1>1, AddRegionIs
  <1> HIDE DEF x
  <1>5. Append(P \o L, x) = P \o Append(L, x)
    BY <1>2, <1>3
  <1>6. Append(L, x) \in Seq(Regions) /\ f \in 1 .. Len(Append(L, x))
    BY <1>2, <1>3
  <1>7. Handles(a, Append(L, x), f)
    BY <1>2, <1>6 DEF Handles
  <1> QED
    BY <1>4, <1>5, <1>7, Zenon DEF Longer

LEMMA AddLongerToo ==
  ASSUME NEW h, NEW g, NEW P \in Seq(Regions), Longer(h, g, P), NEW r \in Names
  PROVE  /\ Longer(AddRegion(h, 1, 2, r, TRUE), AddRegion(g, 1, 2, r, TRUE), P)
         /\ Longer(AddRegion(h, 1, 2, r, FALSE), AddRegion(g, 1, 2, r, FALSE), P)
  <1>1. 1 \in Int /\ 2 \in Int /\ TRUE \in BOOLEAN /\ FALSE \in BOOLEAN
    OBVIOUS
  <1>2. Longer(AddRegion(h, 1, 2, r, TRUE), AddRegion(g, 1, 2, r, TRUE), P)
    BY <1>1, AddLonger, Zenon
  <1>3. Longer(AddRegion(h, 1, 2, r, FALSE), AddRegion(g, 1, 2, r, FALSE), P)
    BY <1>1, AddLonger, Zenon
  <1> QED
    BY <1>2, <1>3

LEMMA SwitchLonger ==
  ASSUME NEW h, NEW g, NEW P \in Seq(Regions), Longer(h, g, P), NEW entry \in Entries, NEW s \in Int
  PROVE  Longer(Switch(h, entry, s), Switch(g, entry, s), P)
  <1>1. PICK a, L, f : /\ Handles(a, L, f)
                       /\ g = Handler(a, L, f) /\ h = Handler(a, P \o L, Len(P) + f)
    BY DEF Longer
  <1>2. a \in Seq(Entries) /\ a # <<>> /\ L \in Seq(Regions) /\ f \in 1 .. Len(L)
    BY <1>1 DEF Handles
  <1> DEFINE x == Flow(entry, s)
             y == [L[f] EXCEPT !.end = s]
             M == [L EXCEPT ![f] = y]
             Q == P \o L
  <1>3. x \in Regions
    BY DEF Flow, Regions, Entries
  <1>4. y \in Regions
    <2>1. L[f] \in Regions
      BY <1>2
    <2> QED
      BY <2>1 DEF Regions
  <1>5. /\ Switch(g, entry, s) = Handler(a, Append(M, x), Len(L) + 1)
        /\ Switch(h, entry, s) =
             Handler(a, Append([Q EXCEPT ![Len(P) + f] = [Q[Len(P) + f] EXCEPT !.end = s]], x), Len(Q) + 1)
    <2>1. Switch(g, entry, s) = Handler(a, Append(M, x), Len(L) + 1)
      BY <1>1, SwitchIs
    <2>2. PICK i : i = Len(P) + f /\ h = Handler(a, Q, i)
      BY <1>1
    <2> HIDE DEF Q, M, y
    <2>3. Switch(h, entry, s) =
            Handler(a, Append([Q EXCEPT ![i] = [Q[i] EXCEPT !.end = s]], Flow(entry, s)), Len(Q) + 1)
      BY <2>2, SwitchIs
    <2> QED
      BY <2>1, <2>2, <2>3
  <1>6. Q[Len(P) + f] = L[f] /\ Len(Q) = Len(P) + Len(L) /\ Len(P) \in Nat /\ Len(L) \in Nat
    BY <1>2
  <1>7. [Q[Len(P) + f] EXCEPT !.end = s] = y
    BY <1>6
  <1> HIDE DEF x, y
  <1>8. M \in Seq(Regions) /\ Len(M) = Len(L)
    BY <1>2, <1>4
  <1>9. [Q EXCEPT ![Len(P) + f] = y] = P \o M
    BY <1>2, <1>4, ChangeBehind
  <1> HIDE DEF M, Q
  <1>10. Append(P \o M, x) = P \o Append(M, x)
    BY ONLY P \in Seq(Regions), <1>3, <1>8
  <1>11. Append(M, x) \in Seq(Regions) /\ Len(L) + 1 \in 1 .. Len(Append(M, x))
    BY <1>3, <1>6, <1>8
  <1>12. Handles(a, Append(M, x), Len(L) + 1)
    BY <1>2, <1>11 DEF Handles
  <1>13. Len(Q) + 1 = Len(P) + (Len(L) + 1)
    BY <1>6
  <1>14. Switch(h, entry, s) = Handler(a, P \o Append(M, x), Len(P) + (Len(L) + 1))
    BY <1>5, <1>7, <1>9, <1>10, <1>13
  <1> QED
    BY <1>5, <1>12, <1>14, Zenon DEF Longer

LEMMA EnterIs ==
  ASSUME NEW a, NEW L, NEW f, NEW s, NEW n
  PROVE  LET entry == [region |-> "block", scheme |-> n]
             opened == Handler(Append(a, entry), L, f)
         IN  EnterScheme(Handler(a, L, f), s, "block", n)
               = IF "block" = NoRegion THEN opened ELSE Switch(opened, entry, s)
  <1> DEFINE entry == [region |-> "block", scheme |-> n]
             h == Handler(a, L, f)
  <1>1. h.stack = a
    BY DEF Handler
  <1>2. [h EXCEPT !.stack = Append(h.stack, entry)] = Handler(Append(a, entry), L, f)
    BY DEF Handler
  <1> HIDE DEF h
  <1>3. EnterScheme(h, s, "block", n)
          = IF "block" = NoRegion THEN Handler(Append(a, entry), L, f)
            ELSE Switch(Handler(Append(a, entry), L, f), entry, s)
    BY <1>2 DEF EnterScheme
  <1> QED
    BY <1>3 DEF h

LEMMA EnterLonger ==
  ASSUME NEW h, NEW g, NEW P \in Seq(Regions), Longer(h, g, P)
  PROVE  Longer(EnterBlock(h, 1), EnterBlock(g, 1), P)
  <1>1. PICK a, L, f : /\ Handles(a, L, f)
                       /\ g = Handler(a, L, f) /\ h = Handler(a, P \o L, Len(P) + f)
    BY DEF Longer
  <1>2. a \in Seq(Entries) /\ a # <<>> /\ L \in Seq(Regions) /\ f \in 1 .. Len(L)
    BY <1>1 DEF Handles
  <1> DEFINE entry == [region |-> "block", scheme |-> Len(a)]
             b == Append(a, entry)
             opened(x) == Handler(b, x, f)
  <1>3. entry \in Entries
    BY <1>2 DEF Entries, Names
  <1>4. b \in Seq(Entries) /\ b # <<>>
    BY <1>2, <1>3
  <1>5. g.stack = a /\ h.stack = a
    BY <1>1 DEF Handler
  <1> DEFINE G == Handler(b, L, f)
             H == Handler(b, P \o L, Len(P) + f)
  <1>6. EnterBlock(g, 1) = IF "block" = NoRegion THEN G ELSE Switch(G, entry, 1)
    BY <1>1, <1>5, EnterIs DEF EnterBlock
  <1>7. EnterBlock(h, 1) = IF "block" = NoRegion THEN H ELSE Switch(H, entry, 1)
    BY <1>1, <1>5, EnterIs DEF EnterBlock
  <1>8. Handles(b, L, f)
    BY <1>2, <1>4 DEF Handles
  <1>9. Longer(H, G, P)
    BY <1>8, Zenon DEF Longer
  <1> HIDE DEF G, H, entry
  <1>10. Longer(Switch(H, entry, 1), Switch(G, entry, 1), P)
    BY <1>3, <1>9, SwitchLonger
  <1> QED
    BY <1>6, <1>7, <1>9, <1>10

LEMMA LeaveIs ==
  ASSUME NEW a, NEW L, NEW f, NEW e
  PROVE  LET closed == Handler(Front(a), L, f)
         IN  LeaveScheme(Handler(a, L, f), e)
               = IF Last(a).region = NoRegion THEN closed ELSE Switch(closed, Last(Front(a)), e)
  <1> DEFINE h == Handler(a, L, f)
             closed == Handler(Front(a), L, f)
  <1>1. h.stack = a /\ closed.stack = Front(a)
    BY DEF Handler
  <1>2. [h EXCEPT !.stack = Front(h.stack)] = closed
    BY DEF Handler
  <1> HIDE DEF h, closed
  <1>3. LeaveScheme(h, e) = IF Last(a).region = NoRegion THEN closed
                            ELSE Switch(closed, Last(Front(a)), e)
    BY <1>1, <1>2 DEF LeaveScheme
  <1> QED
    BY <1>3 DEF h, closed

LEMMA LeaveLonger ==
  ASSUME NEW h, NEW g, NEW P \in Seq(Regions), Longer(h, g, P), Len(g.stack) > 1
  PROVE  Longer(LeaveScheme(h, 2), LeaveScheme(g, 2), P)
  <1>1. PICK a, L, f : /\ Handles(a, L, f)
                       /\ g = Handler(a, L, f) /\ h = Handler(a, P \o L, Len(P) + f)
    BY DEF Longer
  <1>2. a \in Seq(Entries) /\ a # <<>> /\ L \in Seq(Regions) /\ f \in 1 .. Len(L)
    BY <1>1 DEF Handles
  <1>3. Len(a) > 1
    BY <1>1 DEF Handler
  <1> DEFINE b == Front(a)
             G == Handler(b, L, f)
             H == Handler(b, P \o L, Len(P) + f)
             entry == Last(b)
  <1>4. b \in Seq(Entries) /\ b # <<>>
    BY <1>2, <1>3, FrontEntries
  <1>5. entry \in Entries
    BY <1>4, LastEntry
  <1>6. LeaveScheme(g, 2) = IF Last(a).region = NoRegion THEN G ELSE Switch(G, entry, 2)
    BY <1>1, LeaveIs
  <1>7. LeaveScheme(h, 2) = IF Last(a).region = NoRegion THEN H ELSE Switch(H, entry, 2)
    BY <1>1, LeaveIs
  <1>8. Handles(b, L, f)
    BY <1>2, <1>4 DEF Handles
  <1>9. Longer(H, G, P)
    BY <1>8, Zenon DEF Longer
  <1> HIDE DEF G, H, entry
  <1>10. Longer(Switch(H, entry, 2), Switch(G, entry, 2), P)
    BY <1>5, <1>9, SwitchLonger
  <1> QED
    BY <1>6, <1>7, <1>9, <1>10

(* What was in front stays in front.                                       *)
LEMMA PaintedLonger ==
  ASSUME NEW h, NEW g, NEW P \in Seq(Regions), Longer(h, g, P), NEW kind
  PROVE  Longer(Painted(h, kind), Painted(g, kind), P)
  <1>1. PICK a, L, f : /\ Handles(a, L, f)
                       /\ g = Handler(a, L, f) /\ h = Handler(a, P \o L, Len(P) + f)
    BY DEF Longer
  <1>2. h.stack = a /\ g.stack = a /\ a \in Seq(Entries) /\ a # <<>>
    BY <1>1 DEF Handler, Handles
  <1>3. Len(a) \in Nat \ {0}
    BY <1>2
  <1> DEFINE d == Len(a) - 1
  <1>4. "PairStart" \in Names /\ "PairEnd" \in Names /\ "Outlined" \in Names
    BY DEF Names
  <1>5. CASE Opens(kind, d)
    <2>1. /\ Painted(h, kind) = AddRegion(EnterBlock(h, 1), 1, 2, "PairStart", TRUE)
          /\ Painted(g, kind) = AddRegion(EnterBlock(g, 1), 1, 2, "PairStart", TRUE)
      BY <1>2, <1>5 DEF Painted
    <2>2. Longer(EnterBlock(h, 1), EnterBlock(g, 1), P)
      BY EnterLonger
    <2> QED
      BY <1>4, <2>1, <2>2, AddLongerToo
  <1>6. CASE ~Opens(kind, d) /\ Closes(kind, d)
    <2> DEFINE H == AddRegion(h, 1, 2, "PairEnd", TRUE)
               G == AddRegion(g, 1, 2, "PairEnd", TRUE)
    <2>1. Painted(h, kind) = LeaveScheme(H, 2) /\ Painted(g, kind) = LeaveScheme(G, 2)
      BY <1>2, <1>6 DEF Painted
    <2>2. Longer(H, G, P)
      BY <1>4, AddLongerToo
    <2>3. G.stack = a
      BY <1>1 DEF AddRegion, Handler
    <2>4. Len(a) > 1
      BY <1>3, <1>6 DEF Closes
    <2> HIDE DEF G, H
    <2> QED
      BY <2>1, <2>2, <2>3, <2>4, LeaveLonger
  <1>7. CASE ~Opens(kind, d) /\ ~Closes(kind, d) /\ kind = "item"
    <2>1. /\ Painted(h, kind) = AddRegion(h, 1, 2, "Outlined", FALSE)
          /\ Painted(g, kind) = AddRegion(g, 1, 2, "Outlined", FALSE)
      BY <1>2, <1>7 DEF Painted
    <2> QED
      BY <1>4, <2>1, AddLongerToo
  <1>8. CASE ~Opens(kind, d) /\ ~Closes(kind, d) /\ kind # "item"
    BY <1>2, <1>8 DEF Painted
  <1> QED
    BY <1>5, <1>6, <1>7, <1>8

(* The blocks open before a parse.                                         *)
Level(i) == IF i = 1 THEN Background ELSE [region |-> "block", scheme |-> i - 1]
Stack(d) == <<Background>> \o [i \in 1 .. d |-> [region |-> "block", scheme |-> i]]
Before(d) == [i \in 1 .. d |-> [Flow(Level(i), 0) EXCEPT !.end = 0]]

LEMMA LevelIs ==
  ASSUME NEW i \in Nat \ {0}
  PROVE  Level(i) \in Entries /\ (Level(i).region = NoRegion \/ Level(i).region = "block")
  BY DEF Level, Background, Entries, Names

(* The handler that enters the d schemes open at the start of a line: its  *)
(* stack, and the regions of no width it has linked.                       *)
LEMMA StackIs ==
  ASSUME NEW d \in Nat
  PROVE  Stack(d) \in Seq(Entries) /\ Len(Stack(d)) = d + 1 /\ Last(Stack(d)) = Level(d + 1)
  <1> DEFINE a == <<Background>>
             b == [i \in 1 .. d |-> [region |-> "block", scheme |-> i]]
             c == Stack(d)
  <1>1. a \in Seq(Entries) /\ Len(a) = 1 /\ a[1] = Background
    BY DEF Background, Entries, Names
  <1>2. b \in Seq(Entries) /\ Len(b) = d
    BY DEF Entries, Names
  <1>3. \A i \in 1 .. d : b[i] = [region |-> "block", scheme |-> i]
    OBVIOUS
  <1>4. c = a \o b
    BY DEF Stack
  <1> HIDE DEF a, b, c
  <1>5. c \in Seq(Entries) /\ Len(c) = d + 1
        /\ \A i \in 1 .. d + 1 : c[i] = IF i <= 1 THEN a[i] ELSE b[i - 1]
    <2>1. /\ a \o b \in Seq(Entries) /\ Len(a \o b) = Len(a) + Len(b)
          /\ \A i \in 1 .. Len(a) + Len(b) : (a \o b)[i] = IF i <= Len(a) THEN a[i] ELSE b[i - Len(a)]
      BY <1>1, <1>2, ConcatProperties
    <2> QED
      BY ONLY d \in Nat, <1>1, <1>2, <1>4, <2>1
  <1>6. d + 1 \in 1 .. d + 1 /\ (d = 0 => d + 1 = 1) /\ (d # 0 => ~(d + 1 <= 1) /\ d \in 1 .. d /\ (d + 1) - 1 = d)
    OBVIOUS
  <1>7. c[d + 1] = Level(d + 1)
    <2>1. CASE d = 0
      BY <1>1, <1>5, <1>6, <2>1 DEF Level
    <2>2. CASE d # 0
      <3>1. c[d + 1] = b[d] /\ b[d] = [region |-> "block", scheme |-> d]
        BY <1>3, <1>5, <1>6, <2>2
      <3>2. d + 1 # 1
        BY <2>2
      <3> QED
        BY <1>6, <2>2, <3>1, <3>2 DEF Level
    <2> QED
      BY <2>1, <2>2
  <1>8. Last(c) = c[d + 1]
    BY <1>5 DEF Last
  <1> QED
    BY <1>5, <1>7, <1>8 DEF c

LEMMA FlowTo ==
  ASSUME NEW entry \in Entries, NEW e \in Int
  PROVE  /\ Flow(entry, 0) \in Regions /\ [Flow(entry, 0) EXCEPT !.end = e] \in Regions
         /\ [Flow(entry, 0) EXCEPT !.end = e].start = 0
         /\ [Flow(entry, 0) EXCEPT !.end = e].end = e
         /\ [Flow(entry, 0) EXCEPT !.end = e].region = entry.region
         /\ [Flow(entry, 0) EXCEPT !.end = -1] = Flow(entry, 0)
  <1> DEFINE x == Flow(entry, 0)
  <1>1. x \in Regions
    BY DEF Flow, Entries, Regions
  <1>2. x.start = 0 /\ x.end = -1 /\ x.region = entry.region
    BY DEF Flow
  <1> HIDE DEF x
  <1>3. /\ [x EXCEPT !.end = e] \in Regions
        /\ [x EXCEPT !.end = e].start = x.start
        /\ [x EXCEPT !.end = e].end = e
        /\ [x EXCEPT !.end = e].region = x.region
    BY <1>1 DEF Regions
  <1>4. [x EXCEPT !.end = -1] = x
    BY <1>1, <1>2 DEF Regions
  <1> QED
    BY <1>1, <1>2, <1>3, <1>4 DEF x

LEMMA BeforeIs ==
  ASSUME NEW d \in Nat
  PROVE  /\ Before(d) \in Seq(Regions) /\ Len(Before(d)) = d
         /\ \A i \in 1 .. d : /\ Before(d)[i].start = 0 /\ Before(d)[i].end = 0
                              /\ Before(d)[i].region = NoRegion \/ Before(d)[i].region = "block"
  <1>1. ASSUME NEW i \in 1 .. d
        PROVE  /\ [Flow(Level(i), 0) EXCEPT !.end = 0] \in Regions
               /\ [Flow(Level(i), 0) EXCEPT !.end = 0].start = 0
               /\ [Flow(Level(i), 0) EXCEPT !.end = 0].end = 0
               /\ [Flow(Level(i), 0) EXCEPT !.end = 0].region = Level(i).region
    <2>1. Level(i) \in Entries
      BY LevelIs
    <2> QED
      BY <2>1, FlowTo
  <1>2. Before(d) \in Seq(Regions) /\ Len(Before(d)) = d
    BY <1>1 DEF Before
  <1>3. ASSUME NEW i \in 1 .. d
        PROVE  /\ Before(d)[i].start = 0 /\ Before(d)[i].end = 0
               /\ Before(d)[i].region = NoRegion \/ Before(d)[i].region = "block"
    <2>1. Before(d)[i] = [Flow(Level(i), 0) EXCEPT !.end = 0]
      BY DEF Before
    <2> QED
      BY <1>1, <2>1, LevelIs
  <1> QED
    BY <1>2, <1>3

(* Both handlers a line can be begun with, part by part.                   *)
LEMMA OpenBlocksIs ==
  ASSUME NEW d \in Nat
  PROVE  OpenBlocks(d) = Handler(Stack(d), Before(d) \o <<Flow(Level(d + 1), 0)>>, d + 1)
  <1> DEFINE L == [i \in 1 .. d + 1 |-> [Flow(Level(i), 0) EXCEPT !.end = IF i = d + 1 THEN -1 ELSE 0]]
             x == Flow(Level(d + 1), 0)
             B == Before(d)
             M == B \o <<x>>
  <1>1. OpenBlocks(d) = Handler(Stack(d), L, d + 1)
    BY DEF OpenBlocks, Handler, Stack, Level
  <1>2. x \in Regions /\ [x EXCEPT !.end = -1] = x
    <2>1. d + 1 \in Nat \ {0}
      OBVIOUS
    <2>2. Level(d + 1) \in Entries
      BY <2>1, LevelIs
    <2> QED
      BY <2>2, FlowTo
  <1>3. B \in Seq(Regions) /\ Len(B) = d
    BY BeforeIs
  <1>4. \A i \in 1 .. d : B[i] = [Flow(Level(i), 0) EXCEPT !.end = 0]
    BY DEF Before
  <1>5. \A i \in 1 .. d + 1 : L[i] = [Flow(Level(i), 0) EXCEPT !.end = IF i = d + 1 THEN -1 ELSE 0]
    OBVIOUS
  <1>6. DOMAIN L = 1 .. d + 1
    OBVIOUS
  <1>7. L[d + 1] = x
    <2>1. d + 1 \in 1 .. d + 1
      OBVIOUS
    <2>2. L[d + 1] = [Flow(Level(d + 1), 0) EXCEPT !.end = -1]
      BY <1>5, <2>1
    <2> QED
      BY <1>2, <2>2
  <1>8. \A i \in 1 .. d : L[i] = B[i]
    <2> TAKE i \in 1 .. d
    <2>1. i \in 1 .. d + 1 /\ i # d + 1
      OBVIOUS
    <2> HIDE DEF L, B
    <2>2. L[i] = [Flow(Level(i), 0) EXCEPT !.end = 0]
      BY <1>5, <2>1
    <2> QED
      BY <1>4, <2>2
  <1> HIDE DEF L, x, B
  <1>9. /\ M \in Seq(Regions) /\ Len(M) = d + 1 /\ M[d + 1] = x
        /\ \A i \in 1 .. d : M[i] = B[i]
    BY <1>2, <1>3
  <1> HIDE DEF M
  <1>10. L = M
    <2>1. DOMAIN M = 1 .. d + 1 /\ M = [i \in 1 .. d + 1 |-> M[i]]
      BY <1>9
    <2>2. \A i \in 1 .. d + 1 : L[i] = M[i]
      <3> TAKE i \in 1 .. d + 1
      <3>1. i = d + 1 \/ i \in 1 .. d
        OBVIOUS
      <3> QED
        BY <1>7, <1>8, <1>9, <3>1
    <2>3. L = [i \in 1 .. d + 1 |-> L[i]]
      BY DEF L
    <2> QED
      BY <2>1, <2>2, <2>3
  <1> QED
    BY <1>1, <1>10 DEF M, x, B

LEMMA ClearLineIs ==
  ASSUME NEW a, NEW L, NEW f
  PROVE  ClearLine(Handler(a, L, f)) = Handler(a, <<Flow(Last(a), 0)>>, 1)
  <1> DEFINE h == Handler(a, L, f)
             y == <<Flow(Last(a), 0)>>
             k == Handler(a, y, f)
  <1>1. h.stack = a
    BY DEF Handler
  <1> HIDE DEF h
  <1>2. ClearLine(h) = [h EXCEPT !.line = y, !.flow = 1]
    BY <1>1 DEF ClearLine
  <1> HIDE DEF y
  <1>3. [h EXCEPT !.line = y, !.flow = 1] = [[h EXCEPT !.line = y] EXCEPT !.flow = 1]
    OBVIOUS
  <1>4. [h EXCEPT !.line = y] = k
    BY DEF h, Handler
  <1>5. [k EXCEPT !.flow = 1] = Handler(a, y, 1)
    BY DEF Handler
  <1> HIDE DEF k
  <1> QED
    BY <1>2, <1>3, <1>4, <1>5 DEF h, y

(* They differ by the regions of no width in front.                        *)
LEMMA OpenLonger ==
  ASSUME NEW d \in Nat
  PROVE  Longer(OpenBlocks(d), ClearLine(OpenBlocks(d)), Before(d))
  <1> DEFINE a == Stack(d)
             x == Flow(Level(d + 1), 0)
  <1>1. OpenBlocks(d) = Handler(a, Before(d) \o <<x>>, d + 1)
    BY OpenBlocksIs
  <1>2. a \in Seq(Entries) /\ Len(a) = d + 1 /\ Last(a) = Level(d + 1)
    BY StackIs
  <1>3. ClearLine(OpenBlocks(d)) = Handler(a, <<x>>, 1)
    BY <1>1, <1>2, ClearLineIs
  <1>4. x \in Regions
    BY LevelIs DEF Flow, Entries, Regions
  <1> HIDE DEF a, x
  <1>5. Len(Before(d)) + 1 = d + 1
    BY BeforeIs
  <1>6. a # <<>>
    BY <1>2
  <1>7. <<x>> \in Seq(Regions) /\ 1 \in 1 .. Len(<<x>>)
    BY <1>4
  <1>8. Handles(a, <<x>>, 1)
    BY <1>2, <1>6, <1>7 DEF Handles
  <1> QED
    BY <1>1, <1>3, <1>5, <1>8, Zenon DEF Longer

(* What is in front and is not asked for makes no difference.              *)
LEMMA OnlyBehind ==
  ASSUME NEW R, NEW P \in Seq(R), NEW L \in Seq(R), NEW S, NEW T,
         \A i \in 1 .. Len(P) : P[i] \notin S,
         \A i \in 1 .. Len(L) : L[i] \in S <=> L[i] \in T
  PROVE  Only(P \o L, S) = Only(L, T)
  <1> DEFINE s == P \o L
             m == Len(P)
             n == Len(L)
             z == 0
  <1>1. m \in Nat /\ n \in Nat /\ z \in Nat
    OBVIOUS
  <1>2. /\ Len(s) = m + n
        /\ \A i \in 1 .. m + n : s[i] = IF i <= m THEN P[i] ELSE L[i - m]
    BY ConcatProperties
  <1>3. \A i \in 1 .. m : s[i] = P[i] /\ s[i] \notin S
    BY <1>1, <1>2
  <1>4. \A i \in 1 .. n : s[m + i] = L[i]
    <2> TAKE i \in 1 .. n
    <2>1. m + i \in 1 .. m + n /\ ~(m + i <= m) /\ (m + i) - m = i
      BY <1>1
    <2> HIDE DEF s, m, n
    <2> QED
      BY <1>2, <2>1
  <1>5. \A i \in 1 .. n : s[m + i] = L[z + i] /\ (s[m + i] \in S <=> L[z + i] \in T)
    BY <1>4
  <1> HIDE DEF s
  <1>6. Len(s) \in Nat /\ m \in 0 .. Len(s) /\ m + n <= Len(s) /\ z + n <= Len(L) /\ Len(L) \in Nat
    BY <1>1, <1>2
  <1>7. OnlyTo(s, S)[m] = <<>>
    BY <1>3, <1>6, OnlyNone
  <1>8. OnlyTo(L, T)[z] = <<>>
    BY <1>6, OnlySteps
  <1> HIDE DEF m, n, z
  <1>9. Onward(s, L, S, T, m, z, n)
    BY <1>1, <1>5, <1>6 DEF Onward
  <1>10. OnlyTo(s, S)[m + n] = OnlyTo(L, T)[z + n]
    BY <1>7, <1>8, <1>9, OnlyAlike
  <1>11. m + n = Len(s) /\ z + n = Len(L)
    BY <1>1, <1>2 DEF z, n
  <1> QED
    BY <1>10, <1>11, OnlyIs DEF s

(* Such regions are not drawn, and no pair's.                              *)
LEMMA DrawnBehind ==
  ASSUME NEW P \in Seq(Regions), NEW L \in Seq(Regions),
         \A i \in 1 .. Len(P) : P[i].start = 0 /\ P[i].end = 0
  PROVE  Drawn(P \o L) = Drawn(L)
  <1> DEFINE s == P \o L
             S == {r \in ToSet(s) : ~r.special /\ r.start # r.end}
             T == {r \in ToSet(L) : ~r.special /\ r.start # r.end}
  <1>1. \A i \in 1 .. Len(P) : P[i] \notin S
    OBVIOUS
  <1>2. ASSUME NEW i \in 1 .. Len(L) PROVE L[i] \in ToSet(s) /\ L[i] \in ToSet(L)
    <2>1. Len(P) + i \in DOMAIN s /\ s[Len(P) + i] = L[i] /\ i \in DOMAIN L
      OBVIOUS
    <2> HIDE DEF s
    <2> QED
      BY <2>1 DEF ToSet
  <1>3. \A i \in 1 .. Len(L) : L[i] \in S <=> L[i] \in T
    BY <1>2
  <1>4. Drawn(s) = Only(s, S) /\ Drawn(L) = Only(L, T)
    BY DEF Drawn
  <1> HIDE DEF S, T
  <1> QED
    BY <1>1, <1>3, <1>4, OnlyBehind

LEMMA PairsBehind ==
  ASSUME NEW P \in Seq(Regions), NEW L \in Seq(Regions), L # Null, P \o L # Null,
         \A i \in 1 .. Len(P) : P[i].region \notin {"PairStart", "PairEnd"}
  PROVE  PairsOf(P \o L) = PairsOf(L)
  <1> DEFINE s == P \o L
             S == Tokens(s)
             T == Tokens(L)
  <1>1. \A i \in 1 .. Len(P) : P[i] \notin S
    BY DEF Tokens
  <1>2. ASSUME NEW i \in 1 .. Len(L) PROVE L[i] \in ToSet(s) /\ L[i] \in ToSet(L)
    <2>1. Len(P) + i \in DOMAIN s /\ s[Len(P) + i] = L[i] /\ i \in DOMAIN L
      OBVIOUS
    <2> HIDE DEF s
    <2> QED
      BY <2>1 DEF ToSet
  <1>3. \A i \in 1 .. Len(L) : L[i] \in S <=> L[i] \in T
    BY <1>2 DEF Tokens
  <1>4. PairsOf(s) = Only(s, S) /\ PairsOf(L) = Only(L, T)
    BY DEF PairsOf
  <1> HIDE DEF S, T
  <1> QED
    BY <1>1, <1>3, <1>4, OnlyBehind

(* The line a parse begins with looks as it does in the middle of one, and *)
(* neither is an empty slot.                                               *)
Alike(line, as) ==
  line # Null /\ as # Null /\ Drawn(line) = Drawn(as) /\ PairsOf(line) = PairsOf(as)

Inside(d, kind) == Painted(ClearLine(OpenBlocks(d)), kind).line

LEMMA FirstAlike ==
  ASSUME NEW d \in Levels, NEW kind \in Kinds
  PROVE  Alike(Painted(OpenBlocks(d), kind).line, Inside(d, kind))
  <1> DEFINE h == Painted(OpenBlocks(d), kind)
             g == Painted(ClearLine(OpenBlocks(d)), kind)
             P == Before(d)
  <1>1. d \in Nat
    BY EditorAssumption DEF Levels
  <1>2. P \in Seq(Regions)
    BY <1>1, BeforeIs
  <1>3. \A i \in 1 .. Len(P) : /\ P[i].start = 0 /\ P[i].end = 0
                               /\ P[i].region \notin {"PairStart", "PairEnd"}
    BY <1>1, BeforeIs, NamesAssumption
  <1>4. Longer(h, g, P)
    BY <1>1, <1>2, OpenLonger, PaintedLonger
  <1>5. h.line # Null /\ g.line # Null
    BY NullAssumption
  <1> HIDE DEF h, g, P
  <1>6. g.line \in Seq(Regions) /\ h.line = P \o g.line
    BY <1>4 DEF Longer, Handler, Handles
  <1>7. Drawn(h.line) = Drawn(g.line)
    BY <1>2, <1>3, <1>6, DrawnBehind
  <1>8. PairsOf(h.line) = PairsOf(g.line)
    BY <1>2, <1>3, <1>5, <1>6, PairsBehind
  <1> QED
    BY <1>5, <1>7, <1>8 DEF Alike, h, g, Inside

-----------------------------------------------------------------------------
(* The ring. *)

(* No more blocks are open than the language nests.                        *)
LEMMA DepthsInLevels ==
  ASSUME NEW t \in Seq(Kinds), NEW l \in 0 .. Len(t)
  PROVE  Depths(t)[l] \in Levels
  <1> DEFINE f == Depths(t)
             T == {n \in Nat : n <= Len(t) => f[n] \in Levels}
  <1>1. f[0] = 0 /\ (\A i \in 1 .. Len(t) : f[i] = DepthAfter(t[i], f[i - 1])) /\ Len(t) \in Nat
    BY DepthsFollow DEF Follows
  <1>2. MaxDepth \in Nat
    BY EditorAssumption
  <1> HIDE DEF f
  <1>3. 0 \in T
    BY <1>1, <1>2 DEF Levels
  <1>4. ASSUME NEW n \in Nat, n \in T PROVE n + 1 \in T
    <2> SUFFICES ASSUME n + 1 <= Len(t) PROVE f[n + 1] \in Levels
      OBVIOUS
    <2>1. n + 1 \in 1 .. Len(t) /\ (n + 1) - 1 = n /\ n <= Len(t) /\ f[n] \in Levels
      BY <1>1, <1>4
    <2>2. f[n + 1] = DepthAfter(t[n + 1], f[n])
      BY <1>1, <2>1
    <2> QED
      BY <1>2, <2>1, <2>2 DEF DepthAfter, Opens, Closes, Levels
  <1>5. l \in T
    <2> HIDE DEF T
    <2> QED
      BY <1>3, <1>4, Induction
  <1> QED
    BY <1>5 DEF f

(* A line is stored in its place, and the others stay.                     *)
LEMMA StoreIs ==
  ASSUME NEW size \in Nat \ {0}, NEW first \in Nat, NEW before, DOMAIN before = 0 .. size - 1,
         NEW lines, DOMAIN lines \subseteq Nat, NEW l \in Nat, CheckLine(first, size, l)
  PROVE  Store(before, first, size, lines)[l % size]
           = IF l \in DOMAIN lines THEN lines[l] ELSE before[l % size]
  <1> DEFINE i == l % size
             here == {m \in DOMAIN lines : CheckLine(first, size, m) /\ LineIndex(first, size, m) = i}
  <1>1. i \in 0 .. size - 1
    BY DivMod
  <1>2. Store(before, first, size, lines)[i]
          = IF here = {} THEN before[i] ELSE lines[CHOOSE m \in here : TRUE]
    BY <1>1 DEF Store
  <1>3. ASSUME NEW m \in here PROVE m = l
    <2>1. m \in Nat /\ first <= m /\ m < first + size /\ first <= l /\ l < first + size
      BY DEF CheckLine
    <2>2. m % size = l % size
      BY <2>1, LineIndexIs
    <2>3. m - l < size /\ l - m < size
      BY <2>1
    <2> QED
      BY <2>1, <2>2, <2>3, ModInjective
  <1>4. l \in DOMAIN lines => l \in here
    BY LineIndexIs DEF CheckLine
  <1>5. here \subseteq DOMAIN lines
    OBVIOUS
  <1> HIDE DEF here, i
  <1>6. CASE l \in DOMAIN lines
    <2>1. here # {} /\ (CHOOSE m \in here : TRUE) \in here
      BY <1>4, <1>6
    <2>2. (CHOOSE m \in here : TRUE) = l
      BY <1>3, <2>1
    <2> QED
      BY <1>2, <1>6, <2>1, <2>2 DEF i
  <1>7. CASE l \notin DOMAIN lines
    <2>1. here = {}
      BY <1>3, <1>5, <1>7
    <2> QED
      BY <1>2, <1>7, <2>1 DEF i
  <1> QED
    BY <1>6, <1>7

(* What is in the ring of a line, if it is the text t that is shown.       *)
Right(line, t, l) == Alike(line, Inside(Depths(t)[l], t[l + 1]))

(* n lines of the ring are those of the text, as far as they are valid.    *)
Fresh(s, first, size, n, inv, t) ==
  \A l \in Nat :
    first <= l /\ l < first + n /\ l < first + size /\ l < inv => Right(s[l % size], t, l)

(* The lines of a parse are right.                                         *)
LEMMA PaintedRight ==
  ASSUME text \in Seq(Kinds), NEW from \in Nat, NEW to \in Nat, to <= Len(text), NEW depth,
         \A l \in from .. to : depth[l] = Depths(text)[l],
         NEW l \in from .. to - 1
  PROVE  Right(PaintedFrom(from, depth, to - 1)[l], text, l)
  <1>1. l \in Nat /\ l \in 0 .. Len(text) /\ l + 1 \in 1 .. Len(text) /\ l \in from .. to
    OBVIOUS
  <1>2. depth[l] = Depths(text)[l] /\ depth[l] \in Levels /\ text[l + 1] \in Kinds
    BY <1>1, DepthsInLevels
  <1> DEFINE d == depth[l]
             kind == text[l + 1]
  <1>3. PaintedFrom(from, depth, to - 1)[l]
          = IF l = from THEN Painted(OpenBlocks(d), kind).line ELSE Inside(d, kind)
    BY DEF PaintedFrom, ReferenceLine, Inside, Kind
  <1>4. Alike(Painted(OpenBlocks(d), kind).line, Inside(d, kind))
    BY <1>2, FirstAlike
  <1>5. Alike(Inside(d, kind), Inside(d, kind))
    BY <1>4 DEF Alike
  <1> QED
    BY <1>2, <1>3, <1>4, <1>5 DEF Right

(* What a parse of the lines of a text leaves in a ring.                   *)
Repainted(from, to, size, first, before) ==
  /\ DOMAIN slots' = 0 .. size - 1
  /\ \A l \in Nat : CheckLine(first, size, l) =>
       IF from <= l /\ l < to THEN Right(slots'[l % size], text, l)
       ELSE slots'[l % size] = before[l % size]

(* A parse from a line the cache knows paints its lines right.             *)
LEMMA ParseRepaints ==
  ASSUME Types, Knows(starts, invalidLine, text),
         NEW from \in Nat, NEW to \in Nat, NEW update \in BOOLEAN,
         NEW size \in Nat \ {0}, NEW first \in Nat, NEW before, DOMAIN before = 0 .. size - 1,
         Parse(from, to, update, size, first, before),
         from < to, to <= Len(text), from <= invalidLine
  PROVE  Repainted(from, to, size, first, before)
  <1> DEFINE depth == DepthIn(text, from, starts[from], to)
             lines == PaintedFrom(from, depth, to - 1)
  <1>1. slots' = Store(before, first, size, lines)
    BY DepthFromIn DEF Parse
  <1>2. text \in Seq(Kinds) /\ starts[from] = Depths(text)[from]
    BY DEF Types, HostTypes, Knows
  <1>3. \A l \in from .. to : depth[l] = Depths(text)[l]
    BY <1>2, DepthsFound
  <1>4. DOMAIN lines = from .. to - 1 /\ DOMAIN lines \subseteq Nat
    BY DEF PaintedFrom
  <1>5. DOMAIN slots' = 0 .. size - 1
    BY <1>1 DEF Store
  <1> HIDE DEF depth
  <1>6. \A l \in from .. to - 1 : Right(lines[l], text, l)
    BY <1>2, <1>3, PaintedRight
  <1> HIDE DEF lines
  <1>7. ASSUME NEW l \in Nat, CheckLine(first, size, l)
        PROVE  IF from <= l /\ l < to THEN Right(slots'[l % size], text, l)
               ELSE slots'[l % size] = before[l % size]
    <2>1. slots'[l % size] = IF l \in DOMAIN lines THEN lines[l] ELSE before[l % size]
      BY <1>1, <1>4, <1>7, StoreIs
    <2>2. l \in DOMAIN lines <=> from <= l /\ l < to
      BY <1>4
    <2> QED
      BY <1>4, <1>6, <2>1, <2>2
  <1> QED
    BY <1>5, <1>7 DEF Repainted

(* A parse from the first line that is not valid, with the ring where it   *)
(* is.                                                                     *)
LEMMA ExtendsFresh ==
  ASSUME NEW inv \in Nat, NEW to \in Nat, NEW first \in Nat, NEW size \in Nat \ {0}, NEW n \in Nat,
         Fresh(slots, first, size, n, inv, text), Repainted(inv, to, size, first, slots)
  PROVE  Fresh(slots', first, size, n, to, text)
  <1> SUFFICES ASSUME NEW l \in Nat, first <= l, l < first + n, l < first + size, l < to
               PROVE  Right(slots'[l % size], text, l)
    BY DEF Fresh
  <1>1. IF inv <= l /\ l < to THEN Right(slots'[l % size], text, l)
        ELSE slots'[l % size] = slots[l % size]
    BY DEF Repainted, CheckLine
  <1>2. l < inv => Right(slots[l % size], text, l)
    BY DEF Fresh
  <1> QED
    BY <1>1, <1>2

(* Warming the cache up keeps the ring fresh.                              *)
LEMMA WarmFresh ==
  ASSUME Types, Knows(starts, invalidLine, text), lineCount = Len(text), text' = text,
         NEW lno \in Int, ValidateCache(lno), DOMAIN slots = 0 .. lrSize - 1,
         NEW n \in Nat
  PROVE  /\ DOMAIN slots' = 0 .. lrSize - 1 /\ lrSize' = lrSize /\ firstLine' = firstLine
         /\ wSize' = wSize
         /\ Fresh(slots, firstLine, lrSize, n, invalidLine, text)
              => Fresh(slots', firstLine, lrSize, n, invalidLine', text)
  <1> DEFINE l == IF lno = -1 \/ lno > lineCount THEN lineCount - 1 ELSE lno
             to == MinOf(l + 1, lineCount)
  <1>1. to \in Int /\ to <= Len(text) /\ invalidLine \in Nat /\ lineCount \in Int
        /\ firstLine \in Nat /\ lrSize \in Nat \ {0}
    BY DEF MinOf, Types, EngineTypes, Knows
  <1>2. UNCHANGED <<wSize, lrSize, firstLine>>
    BY DEF ValidateCache, window
  <1>3. CASE to > invalidLine
    <2>1. Parse(invalidLine, to, TRUE, lrSize, firstLine, slots)
      BY <1>3 DEF ValidateCache
    <2> HIDE DEF to
    <2>2. invalidLine' = to
      BY <2>1 DEF Parse
    <2>3. to \in Nat /\ invalidLine < to /\ invalidLine <= invalidLine
      BY <1>1, <1>3
    <2>4. Repainted(invalidLine, to, lrSize, firstLine, slots)
      <3>1. TRUE \in BOOLEAN
        OBVIOUS
      <3> QED
        BY <1>1, <2>1, <2>3, <3>1, ParseRepaints
    <2> QED
      BY <1>1, <1>2, <2>2, <2>3, <2>4, ExtendsFresh DEF Repainted
  <1>4. CASE ~ (to > invalidLine)
    <2>1. UNCHANGED <<slots, invalidLine>>
      BY <1>4 DEF ValidateCache
    <2> QED
      BY <1>2, <2>1
  <1> QED
    BY <1>3, <1>4

(* The parts of a layout. *)
Start(lno) == IF lno < wStart \/ lno > wStart + wSize THEN lno ELSE wStart
Grown == lrSize < cover
Moved(lno) == Grown \/ Start(lno) < firstLine \/ Start(lno) + wSize > firstLine + cover
NewFirst(lno) == (Start(lno) \div regionWindow) * regionWindow
OneUp(lno) == ~Grown /\ firstLine - NewFirst(lno) = regionWindow
NewEnd(lno) == NewFirst(lno) + cover - (IF OneUp(lno) THEN regionWindow - 1 ELSE 0)
SameEnd == IF invalidLine = 0 THEN firstLine + cover ELSE wStart + wSize

LEMMA LayoutIs ==
  ASSUME NEW lno
  PROVE  /\ Layout(lno).start = Start(lno)
         /\ Layout(lno).size = IF Grown THEN 3 * regionWindow ELSE lrSize
         /\ Layout(lno).first = IF Moved(lno) THEN NewFirst(lno) ELSE firstLine
         /\ Layout(lno).from = IF Moved(lno) THEN NewFirst(lno) ELSE wStart + wSize
         /\ Layout(lno).to = IF Moved(lno) THEN NewEnd(lno) ELSE SameEnd
         /\ Layout(lno).update <=> \/ ~Moved(lno) /\ invalidLine <= Layout(lno).to
                                   \/ invalidLine <= Layout(lno).from
  BY DEF Layout, Start, Grown, Moved, NewFirst, OneUp, NewEnd, SameEnd

(* The ring's new first line is a multiple of the window's size, at most a *)
(* window above its start.                                                 *)
LEMMA WindowIs ==
  ASSUME Types, NEW lno \in Nat
  PROVE  /\ regionWindow = wSize /\ cover = 2 * wSize /\ Start(lno) \in Nat
         /\ NewFirst(lno) \in Nat /\ NewFirst(lno) <= Start(lno) /\ Start(lno) < NewFirst(lno) + wSize
  <1>1. wSize \in Nat \ {0} /\ wStart \in Nat
    BY DEF Types, EngineTypes
  <1>2. regionWindow = wSize /\ cover = 2 * wSize
    BY <1>1 DEF regionWindow, cover
  <1>3. Start(lno) \in Nat
    BY <1>1 DEF Start
  <1> DEFINE a == Start(lno)
             q == a \div wSize
  <1>4. q \in Nat /\ a % wSize \in Nat /\ a % wSize < wSize /\ a = wSize * q + (a % wSize)
    BY <1>1, <1>3, DivMod
  <1>5. NewFirst(lno) = q * wSize
    BY <1>2 DEF NewFirst
  <1> HIDE DEF a, q
  <1>6. q * wSize = wSize * q /\ q * wSize \in Nat
    BY <1>1, <1>4
  <1>7. PICK p \in Nat, r \in Nat : p = q * wSize /\ r < wSize /\ a = p + r
    BY <1>4, <1>6
  <1> QED
    BY <1>1, <1>2, <1>3, <1>5, <1>7 DEF a

(* What validate(lno, true) parses.                                        *)
Lines(lno) == IF lno = -1 \/ lno > lineCount THEN lineCount - 1 ELSE lno
Kept == IF Grown THEN EmptyRing(lrSize') ELSE slots
Placed(l) ==
  /\ wStart' = Start(l) /\ wSize' = wSize
  /\ firstLine' = IF Moved(l) THEN NewFirst(l) ELSE firstLine
  /\ lrSize' = IF Grown THEN 3 * wSize ELSE lrSize
Parses(l, from, to) ==
  /\ to = MinOf(IF Moved(l) THEN NewEnd(l) ELSE SameEnd, Len(text))
  /\ from <= invalidLine
  /\ IF Moved(l) THEN from <= NewFirst(l) ELSE from = invalidLine
  /\ invalidLine' = invalidLine \/ invalidLine' = to
  /\ from = invalidLine => to <= invalidLine'
  /\ Repainted(from, to, lrSize', firstLine', Kept)

(* validate(lno, true): from a line the cache knows, up to the end of what *)
(* is to be painted.                                                       *)
LEMMA PaintParses ==
  ASSUME Types, Knows(starts, invalidLine, text), lineCount = Len(text), text' = text,
         NEW lno \in Nat, ValidateRegions(lno), DOMAIN slots = 0 .. lrSize - 1
  PROVE  /\ Lines(lno) \in Nat /\ Placed(Lines(lno))
         /\ \E from, to \in Nat : Parses(Lines(lno), from, to)
  <1> DEFINE l == Lines(lno)
             lay == Layout(l)
             from == IF lay.update THEN invalidLine ELSE lay.from
             to == MinOf(lay.to, lineCount)
             before == IF lrSize < cover THEN EmptyRing(lay.size) ELSE slots
  <1>1. /\ l \in Nat /\ invalidLine \in Nat /\ Len(text) \in Nat \ {0} /\ invalidLine <= Len(text)
        /\ lrSize \in Nat \ {0} /\ firstLine \in Nat /\ wSize \in Nat \ {0} /\ wStart \in Nat
    BY DEF Types, EngineTypes, HostTypes, Knows, Lines
  <1>2. /\ wStart' = lay.start /\ lrSize' = lay.size /\ firstLine' = lay.first
        /\ wSize' = wSize
        /\ IF to > from
           THEN Parse(from, to, lay.update, lay.size, lay.first, before)
           ELSE slots' = before /\ UNCHANGED <<starts, invalidLine>>
    BY Zenon DEF ValidateRegions, Lines
  <1> HIDE DEF l
  <1>3. /\ lay.start = Start(l) /\ lay.size = (IF Grown THEN 3 * regionWindow ELSE lrSize)
        /\ lay.first = (IF Moved(l) THEN NewFirst(l) ELSE firstLine)
        /\ lay.from = (IF Moved(l) THEN NewFirst(l) ELSE wStart + wSize)
        /\ lay.to = (IF Moved(l) THEN NewEnd(l) ELSE SameEnd)
        /\ lay.update <=> \/ ~Moved(l) /\ invalidLine <= lay.to
                          \/ invalidLine <= lay.from
    BY LayoutIs
  <1>4. /\ regionWindow = wSize /\ cover = 2 * wSize /\ Start(l) \in Nat
        /\ NewFirst(l) \in Nat /\ NewFirst(l) <= Start(l) /\ Start(l) < NewFirst(l) + wSize
    BY <1>1, WindowIs
  <1>5. NewEnd(l) \in Nat /\ SameEnd \in Nat
    BY <1>1, <1>4 DEF NewEnd, SameEnd
  <1>6. /\ lay.size \in Nat \ {0} /\ lay.first \in Nat /\ lay.update \in BOOLEAN
        /\ lay.from \in Nat /\ lay.to \in Nat
    <2>1. lay.update \in BOOLEAN
      BY <1>1, LayoutTypes
    <2> QED
      BY <1>1, <1>3, <1>4, <1>5, <2>1
  <1>7. Placed(l)
    BY <1>2, <1>3, <1>4 DEF Placed
  <1>8. before = Kept /\ DOMAIN before = 0 .. lay.size - 1
    <2>1. Kept = IF Grown THEN EmptyRing(lay.size) ELSE slots
      BY <1>2 DEF Kept
    <2>2. DOMAIN EmptyRing(lay.size) = 0 .. lay.size - 1
      BY DEF EmptyRing
    <2>3. before = Kept
      BY <2>1 DEF Grown
    <2>4. CASE Grown
      BY <2>1, <2>2, <2>3, <2>4
    <2>5. CASE ~Grown
      BY <1>3, <2>1, <2>3, <2>5
    <2> QED
      BY <2>3, <2>4, <2>5
  <1> HIDE DEF lay, before
  <1>9. /\ to \in Nat /\ to <= Len(text)
        /\ to = MinOf(IF Moved(l) THEN NewEnd(l) ELSE SameEnd, Len(text))
    BY <1>1, <1>3, <1>6 DEF MinOf
  <1>10. from \in Nat /\ from <= invalidLine
    BY <1>1, <1>3, <1>6
  <1> HIDE DEF to
  <1>11. CASE to > from
    <2>1. Parse(from, to, lay.update, lay.size, lay.first, before)
      BY <1>2, <1>11
    <2>2. Repainted(from, to, lay.size, lay.first, before)
      <3> HIDE DEF from
      <3> QED
        BY <1>1, <1>6, <1>8, <1>9, <1>10, <1>11, <2>1, ParseRepaints
    <2>3. Repainted(from, to, lrSize', firstLine', Kept)
      BY <1>2, <1>8, <2>2
    <2>4. invalidLine' = IF lay.update THEN to ELSE invalidLine
      BY <2>1 DEF Parse
    <2>5. CASE lay.update
      <3>1. from = invalidLine /\ invalidLine' = to
        BY <2>4, <2>5
      <3>2. Moved(l) => from <= NewFirst(l)
        BY <1>3, <2>5, <3>1
      <3> HIDE DEF from
      <3>3. Parses(l, from, to)
        BY <1>9, <1>10, <2>3, <3>1, <3>2 DEF Parses
      <3> QED
        BY <1>7, <1>1, <1>9, <1>10, <3>3 DEF l
    <2>6. CASE ~lay.update
      <3>1. from = lay.from /\ invalidLine' = invalidLine
        BY <2>4, <2>6
      <3>2. Moved(l)
        <4>1. SUFFICES ASSUME ~Moved(l) PROVE FALSE
          OBVIOUS
        <4>2. lay.from = wStart + wSize /\ lay.to = SameEnd /\ ~(invalidLine <= lay.to)
          BY <1>3, <2>6, <4>1
        <4>3. invalidLine # 0
          BY <1>6, <4>2
        <4>4. lay.to = lay.from
          BY <4>2, <4>3 DEF SameEnd
        <4>5. to <= lay.to
          BY <1>1, <1>6 DEF to, MinOf
        <4> QED
          BY <1>6, <1>9, <1>11, <3>1, <4>4, <4>5
      <3>3. from = NewFirst(l) /\ from < invalidLine
        BY <1>1, <1>3, <1>4, <2>6, <3>1, <3>2
      <3> HIDE DEF from
      <3>4. Parses(l, from, to)
        BY <1>1, <1>4, <1>9, <1>10, <2>3, <3>1, <3>2, <3>3 DEF Parses
      <3> QED
        BY <1>7, <1>1, <1>9, <1>10, <3>4 DEF l
    <2> QED
      BY <2>5, <2>6
  <1>12. CASE ~ (to > from)
    <2>1. slots' = Kept /\ invalidLine' = invalidLine
      BY <1>2, <1>8, <1>12
    <2>2. DOMAIN slots' = 0 .. lrSize' - 1
      BY <1>2, <1>8, <2>1
    <2>3. PICK start \in Nat : /\ start <= invalidLine /\ to <= start
                               /\ IF Moved(l) THEN start <= NewFirst(l) ELSE start = invalidLine
      <3>1. CASE Moved(l)
        <4>1. from <= NewFirst(l)
          BY <1>1, <1>3, <1>4, <3>1
        <4> HIDE DEF from
        <4> QED
          BY <1>9, <1>10, <1>12, <3>1, <4>1
      <3>2. CASE ~Moved(l)
        <4> HIDE DEF from
        <4>1. to <= invalidLine
          BY <1>1, <1>9, <1>10, <1>12
        <4> QED
          BY <1>1, <3>2, <4>1
      <3> QED
        BY <3>1, <3>2
    <2>4. Repainted(start, to, lrSize', firstLine', Kept)
      BY <1>9, <2>1, <2>2, <2>3 DEF Repainted
    <2>5. Parses(l, start, to)
      BY <1>1, <1>9, <2>1, <2>3, <2>4 DEF Parses
    <2> QED
      BY <1>7, <1>1, <1>9, <2>5 DEF l
  <1> QED
    BY <1>11, <1>12

(* The ring stays fresh when the window is moved: what is not painted      *)
(* again was right before.                                                 *)
LEMMA PaintFresh ==
  ASSUME Types, Knows(starts, invalidLine, text), lineCount = Len(text), text' = text,
         NEW lno \in Nat, ValidateRegions(lno), DOMAIN slots = 0 .. lrSize - 1
  PROVE  /\ DOMAIN slots' = 0 .. lrSize' - 1 /\ wSize' = wSize
         /\ Fresh(slots, firstLine, lrSize, cover, invalidLine, text)
              => Fresh(slots', firstLine', lrSize', cover, invalidLine', text)
  <1> DEFINE l == Lines(lno)
  <1>1. l \in Nat /\ Placed(l)
    BY PaintParses
  <1>2. PICK from \in Nat, to \in Nat : Parses(l, from, to)
    BY PaintParses
  <1> HIDE DEF l
  <1>3. /\ invalidLine \in Nat /\ Len(text) \in Nat /\ invalidLine <= Len(text)
        /\ lrSize \in Nat \ {0} /\ firstLine \in Nat /\ wSize \in Nat \ {0} /\ wStart \in Nat
    BY DEF Types, EngineTypes, HostTypes, Knows
  <1>4. /\ regionWindow = wSize /\ cover = 2 * wSize /\ NewFirst(l) \in Nat
    BY <1>1, WindowIs
  <1>5. DOMAIN slots' = 0 .. lrSize' - 1 /\ wSize' = wSize
    BY <1>1, <1>2 DEF Parses, Repainted, Placed
  <1>6. ASSUME Fresh(slots, firstLine, lrSize, cover, invalidLine, text)
        PROVE  Fresh(slots', firstLine', lrSize', cover, invalidLine', text)
    <2> SUFFICES ASSUME NEW k \in Nat, firstLine' <= k, k < firstLine' + cover,
                        k < firstLine' + lrSize', k < invalidLine'
                 PROVE  Right(slots'[k % lrSize'], text, k)
      BY DEF Fresh
    <2>1. IF from <= k /\ k < to THEN Right(slots'[k % lrSize'], text, k)
          ELSE slots'[k % lrSize'] = Kept[k % lrSize']
      BY <1>2 DEF Parses, Repainted, CheckLine
    <2>2. CASE from <= k /\ k < to
      BY <2>1, <2>2
    <2>3. CASE ~ (from <= k /\ k < to)
      <3>1. /\ ~Grown /\ firstLine <= k /\ k < firstLine + cover /\ k < firstLine + lrSize
            /\ k < invalidLine /\ lrSize' = lrSize
        <4>1. CASE Moved(l)
          <5>1. firstLine' = NewFirst(l) /\ from <= NewFirst(l) /\ to = MinOf(NewEnd(l), Len(text))
            BY <1>1, <1>2, <4>1 DEF Placed, Parses
          <5>2. from <= k /\ to <= k
            BY <2>3, <1>4, <5>1
          <5>3. k < invalidLine /\ invalidLine' = invalidLine
            BY <1>2, <5>2 DEF Parses
          <5>4. NewEnd(l) <= k
            BY <1>3, <5>1, <5>2, <5>3 DEF MinOf
          <5>5. OneUp(l)
            BY <1>3, <1>4, <5>1, <5>4 DEF NewEnd
          <5>6. ~Grown /\ firstLine - NewFirst(l) = wSize /\ NewFirst(l) + wSize + 1 <= k
            BY <1>3, <1>4, <5>4, <5>5 DEF NewEnd, OneUp
          <5>7. lrSize >= cover /\ lrSize' = lrSize
            BY <1>1, <1>3, <1>4, <5>6 DEF Grown, Placed
          <5> QED
            BY <1>3, <1>4, <5>1, <5>3, <5>6, <5>7, SMTT(30)
        <4>2. CASE ~Moved(l)
          <5>1. ~Grown
            BY <4>2 DEF Moved
          <5>2. firstLine' = firstLine /\ lrSize' = lrSize /\ from = invalidLine
            BY <1>1, <1>2, <4>2, <5>1 DEF Placed, Parses
          <5>3. k < invalidLine
            BY <1>2, <1>3, <2>3, <5>2 DEF Parses
          <5> QED
            BY <5>1, <5>2, <5>3
        <4> QED
          BY <4>1, <4>2
      <3>2. Right(slots[k % lrSize], text, k)
        BY <1>6, <3>1 DEF Fresh
      <3>3. Kept = slots
        BY <3>1 DEF Kept
      <3> QED
        BY <2>1, <2>3, <3>1, <3>2, <3>3
    <2> QED
      BY <2>2, <2>3
  <1> QED
    BY <1>5, <1>6

(* The window is inside the cover of the ring.                             *)
Covered == lrSize >= cover /\ firstLine <= wStart /\ wStart + wSize <= firstLine + cover

(* The line that was asked for is right: it is painted now, or it is one   *)
(* of the valid lines of a window that is covered.                         *)
LEMMA PaintDirect ==
  ASSUME Types, Knows(starts, invalidLine, text), lineCount = Len(text), text' = text,
         NEW lno \in Nat, ValidateRegions(lno), DOMAIN slots = 0 .. lrSize - 1,
         Fresh(slots, firstLine, lrSize, cover, invalidLine, text), lno < Len(text),
         lno = wStart \/ (Covered /\ wStart <= lno /\ lno < wStart + wSize)
  PROVE  /\ wStart' = wStart /\ wSize' = wSize
         /\ lrSize' >= cover /\ firstLine' <= wStart /\ wStart + wSize <= firstLine' + cover
         /\ CheckLine(firstLine', lrSize', lno) /\ Right(slots'[lno % lrSize'], text, lno)
         /\ Covered => \A k \in Nat : k < wStart + wSize /\ k < Len(text) => k < invalidLine'
  <1>1. Lines(lno) = lno /\ lineCount \in Nat
    BY DEF Lines, Types, EngineTypes
  <1>2. Placed(lno)
    BY <1>1, PaintParses
  <1>3. PICK from \in Nat, to \in Nat : Parses(lno, from, to)
    BY <1>1, PaintParses
  <1>4. /\ invalidLine \in Nat /\ Len(text) \in Nat /\ invalidLine <= Len(text)
        /\ lrSize \in Nat \ {0} /\ firstLine \in Nat /\ wSize \in Nat \ {0} /\ wStart \in Nat
    BY DEF Types, EngineTypes, HostTypes, Knows
  <1>5. /\ regionWindow = wSize /\ cover = 2 * wSize
        /\ NewFirst(lno) \in Nat /\ NewFirst(lno) <= Start(lno) /\ Start(lno) < NewFirst(lno) + wSize
    BY WindowIs
  <1>6. Start(lno) = wStart
    BY <1>4 DEF Start
  <1>7. wStart' = wStart /\ wSize' = wSize
    BY <1>2, <1>6 DEF Placed
  <1>8. IF from <= lno /\ lno < to /\ CheckLine(firstLine', lrSize', lno)
        THEN Right(slots'[lno % lrSize'], text, lno) ELSE TRUE
    BY <1>3 DEF Parses, Repainted
  <1>9. CASE Moved(lno)
    <2>1. ~Covered
      BY <1>4, <1>5, <1>6, <1>9 DEF Covered, Moved, Grown
    <2>2. lno = wStart
      BY <2>1
    <2>3. /\ firstLine' = NewFirst(lno) /\ from <= NewFirst(lno)
          /\ to = MinOf(NewEnd(lno), Len(text))
      BY <1>2, <1>3, <1>9 DEF Placed, Parses
    <2>4. lrSize' >= cover
      BY <1>2, <1>4, <1>5 DEF Placed, Grown
    <2>5. /\ firstLine' <= wStart /\ wStart + wSize <= firstLine' + cover
          /\ CheckLine(firstLine', lrSize', lno)
      <3>1. lrSize' \in Nat
        BY <1>2, <1>4 DEF Placed
      <3> QED
        BY <1>4, <1>5, <1>6, <2>2, <2>3, <2>4, <3>1 DEF CheckLine
    <2>6. from <= lno /\ lno < to
      <3>1. NewEnd(lno) \in Nat /\ NewEnd(lno) > NewFirst(lno) + wSize
        BY <1>4, <1>5 DEF NewEnd
      <3> QED
        BY <1>4, <1>5, <1>6, <2>2, <2>3, <3>1 DEF MinOf
    <2> QED
      BY <1>7, <1>8, <2>1, <2>4, <2>5, <2>6
  <1>10. CASE ~Moved(lno)
    <2>1. /\ ~Grown /\ firstLine' = firstLine /\ lrSize' = lrSize
          /\ from = invalidLine /\ to = MinOf(SameEnd, Len(text)) /\ to <= invalidLine'
      BY <1>2, <1>3, <1>10 DEF Moved, Placed, Parses
    <2>2. /\ lrSize >= cover /\ firstLine <= wStart /\ wStart + wSize <= firstLine + cover
      BY <1>4, <1>5, <1>6, <1>10 DEF Moved, Grown
    <2>3. SameEnd \in Nat /\ wStart + wSize <= SameEnd
      BY <1>4, <1>5, <2>2 DEF SameEnd
    <2>4. invalidLine' \in Int
      BY <1>3, <1>4 DEF Parses
    <2>5. ASSUME NEW k \in Nat, k < wStart + wSize, k < Len(text) PROVE k < invalidLine'
      BY <1>4, <2>1, <2>3, <2>4, <2>5 DEF MinOf
    <2>6. lno < wStart + wSize /\ wStart <= lno
      BY <1>4
    <2>7. lno < invalidLine'
      BY <2>5, <2>6
    <2>8. Fresh(slots', firstLine', lrSize', cover, invalidLine', text)
      BY PaintFresh
    <2>9. /\ firstLine' <= lno /\ lno < firstLine' + cover /\ lno < firstLine' + lrSize'
      BY <1>4, <1>5, <2>1, <2>2, <2>6
    <2>10. Right(slots'[lno % lrSize'], text, lno)
      BY <2>7, <2>8, <2>9 DEF Fresh
    <2> QED
      BY <1>7, <2>1, <2>2, <2>5, <2>9, <2>10 DEF CheckLine
  <1> QED
    BY <1>9, <1>10

-----------------------------------------------------------------------------
(* What a step does to what is on the screen: it begins to draw it anew,   *)
(* draws one line more, or leaves it.                                      *)
Clears ==
  /\ pc' = "draw" /\ shown' = <<>> /\ wStart' = top' /\ wSize' = height'
  /\ height' = height \/ stretched' \/ height' <= height
Leaves ==
  UNCHANGED <<text, top, height, shown>> /\ pc' # "draw" /\ pc' # "pair" /\ pc' # "open"
Looks == (stretched => stretched') /\ (Clears \/ DrawLine \/ Leaves \/ UNCHANGED vars)

LEMMA ClearsIf ==
  ASSUME NEW change, StartDrawing(change), stretched => stretched',
         height' = height \/ stretched' \/ height' <= height
  PROVE  Looks
  BY DEF StartDrawing, Looks, Clears

LEMMA LeavesIf ==
  ASSUME UNCHANGED <<text, top, height, shown>>, pc' # "draw", pc' # "pair", pc' # "open", stretched => stretched'
  PROVE  Looks
  BY DEF Looks, Leaves

LEMMA SearchLooks ==
  ASSUME NEW goal, BeginSearch(goal), UNCHANGED stretched
  PROVE  Looks
  <1>1. UNCHANGED <<text, top, height, shown>>
    BY DEF BeginSearch, host
  <1>2. pc' # "draw" /\ pc' # "pair" /\ pc' # "open"
    BY DEF BeginSearch, redrawn
  <1> QED
    BY <1>1, <1>2, LeavesIf

LEMMA EditLooks ==
  ASSUME UserEdits, UNCHANGED height, BeginRedraw(TRUE)
  PROVE  Looks
  BY ClearsIf DEF UserEdits, history, BeginRedraw

(* Every step is of these kinds.                                           *)
LEMMA StepLooks ==
  ASSUME Types, [Next]_vars
  PROVE  Looks
  <1>1. CASE Open
    BY <1>1, ClearsIf DEF Open, BeginRedraw, bounds, history, host
  <1>2. CASE DrawLine
    BY <1>2 DEF Looks, DrawLine, bounds, history
  <1>3. CASE DrawPair
    <2>1. UNCHANGED stretched
      BY <1>3 DEF DrawPair, bounds, history
    <2>2. CASE BeginSearch("draw")
      BY <2>1, <2>2, SearchLooks
    <2>3. CASE pc' = redrawn /\ UNCHANGED <<host, far, engine, shown, rest>>
      BY <2>1, <2>3, LeavesIf DEF redrawn, host
    <2> QED
      BY <1>3, <2>2, <2>3 DEF DrawPair
  <1>4. CASE SearchStep
    BY <1>4, LeavesIf DEF SearchStep, host, bounds, history
  <1>5. CASE EndSearch
    <2>1. UNCHANGED stretched
      BY <1>5 DEF EndSearch, bounds, history
    <2>2. CASE UNCHANGED <<host, shown>> /\ pc' = IF search.goal = "draw" THEN redrawn ELSE "menu"
      BY <2>1, <2>2, LeavesIf DEF redrawn, host
    <2>3. CASE MoveTo(search.eline) /\ BeginRedraw(FALSE)
      <3>1. height' = height
        BY <2>3 DEF MoveTo, Centred
      <3> QED
        BY <2>1, <2>3, <3>1, ClearsIf DEF BeginRedraw
    <2>4. CASE pc' = "menu" /\ UNCHANGED <<text, top, height, shown>>
      BY <2>1, <2>4, LeavesIf
    <2> QED
      BY <1>5, <2>2, <2>3, <2>4 DEF EndSearch
  <1>6. CASE EndLocate
    <2>1. UNCHANGED stretched
      BY <1>6 DEF EndLocate, bounds, history
    <2>2. CASE height' = height /\ BeginRedraw(FALSE)
      BY <2>1, <2>2, ClearsIf DEF BeginRedraw
    <2>3. CASE pc' = "menu" /\ UNCHANGED <<host, shown>>
      BY <2>1, <2>3, LeavesIf DEF host
    <2> QED
      BY <1>6, <2>2, <2>3 DEF EndLocate, Centred
  <1>7. CASE ChooseFunction
    BY <1>7, ClearsIf DEF ChooseFunction, InList, history, Centred, BeginRedraw
  <1>8. CASE LeaveList
    BY <1>8, ClearsIf DEF LeaveList, InList, history, BeginRedraw
  <1>9. CASE CloseMenu
    BY <1>9, ClearsIf DEF CloseMenu, bounds, history, host, BeginRedraw
  <1>10. CASE \E b \in Budgets : IdleJob(b)
    BY <1>10, LeavesIf DEF IdleJob, bounds, history, host
  <1>11. CASE EndIdle
    <2>1. UNCHANGED stretched
      BY <1>11 DEF EndIdle, bounds, history
    <2>2. CASE UNCHANGED host /\ BeginRedraw(FALSE)
      BY <2>1, <2>2, ClearsIf DEF BeginRedraw, host
    <2>3. CASE pc' = "idle" /\ UNCHANGED <<host, shown>>
      BY <2>1, <2>3, LeavesIf DEF host
    <2> QED
      BY <1>11, <2>2, <2>3 DEF EndIdle
  <1>12. CASE Idle
    BY <1>12, LeavesIf DEF Idle, bounds, history, host
  <1>13. CASE \E t, c \in LineNos, h \in Heights, b \in {-1} \cup LineNos : View(t, h, c, b)
    <2>1. PICK h \in Heights : /\ BeginRedraw(FALSE) /\ height' = h
                               /\ stretched' = (stretched \/ h > height)
      BY <1>13 DEF View
    <2>2. stretched => stretched'
      BY <2>1
    <2>3. height' = height \/ stretched' \/ height' <= height
      <3>1. height \in Nat /\ h \in Nat
        BY EditorAssumption DEF Types, HostTypes
      <3>2. h > height \/ h <= height
        BY <3>1
      <3> QED
        BY <2>1, <3>2, Zenon
    <2> QED
      BY <2>1, <2>2, <2>3, ClearsIf DEF BeginRedraw
  <1>14. CASE \E c \in LineNos, k \in Kinds : Replace(c, k) \/ Split(c, k)
    BY <1>14, EditLooks DEF Replace, Split, Edited
  <1>15. CASE \E c \in LineNos : Join(c)
    BY <1>15, EditLooks DEF Join, Edited
  <1>16. CASE \E k \in Kinds : EditBlock(k)
    BY <1>16, EditLooks DEF EditBlock
  <1>17. CASE MatchPair \/ SelectPair
    BY <1>17, SearchLooks DEF MatchPair, SelectPair, history
  <1>18. CASE SelectRegion
    BY <1>18, LeavesIf DEF SelectRegion, history
  <1>19. CASE LocateFunction
    BY <1>19, LeavesIf DEF LocateFunction, WholeText, history, host
  <1>20. CASE ListFunctions
    <2>1. UNCHANGED <<text, top, height, shown, stretched>> /\ pc' # "draw" /\ pc' # "pair" /\ pc' # "open"
      BY <1>20 DEF ListFunctions, WholeText, history, host
    <2> QED
      BY <2>1, LeavesIf
  <1>21. CASE Browse
    BY <1>21, ClearsIf DEF Browse, InList, history, Centred
  <1>22. CASE InsertName
    BY <1>22, ClearsIf DEF InsertName, InList, history, BeginRedraw
  <1>23. CASE UpdateHighlighting
    BY <1>23, LeavesIf DEF UpdateHighlighting, history, host
  <1>24. CASE SetFileType
    BY <1>24, LeavesIf DEF SetFileType, host
  <1>25. CASE Remap
    BY <1>25, LeavesIf DEF Remap, history, host
  <1>26. CASE UNCHANGED vars
    BY <1>26 DEF Looks, vars, bounds, history
  <1> QED
    BY <1>1, <1>2, <1>3, <1>4, <1>5, <1>6, <1>7, <1>8, <1>9, <1>10, <1>11, <1>12, <1>13,
       <1>14, <1>15, <1>16, <1>17, <1>18, <1>19, <1>20, <1>21, <1>22, <1>23, <1>24, <1>25,
       <1>26 DEF Next, Handle

LEMMA LooksHeight ==
  ASSUME Looks
  PROVE  /\ height' = height \/ stretched' \/ height' <= height
         /\ height' = height \/ wSize' = height'
         /\ pc' = "open" => pc = "open"
         /\ stretched => stretched'
  <1>1. CASE Clears
    BY <1>1 DEF Clears, Looks
  <1>2. CASE DrawLine
    BY <1>2 DEF DrawLine, host, Looks
  <1>3. CASE Leaves
    BY <1>3 DEF Leaves, Looks
  <1>4. CASE UNCHANGED vars
    BY <1>4 DEF vars, host, event, Looks
  <1> QED
    BY <1>1, <1>2, <1>3, <1>4 DEF Looks

-----------------------------------------------------------------------------
(* The ring is fresh. *)

(* The ring has its slots; before the first redraw nothing is valid; after *)
(* it, until the window is made higher, its valid lines are those of the   *)
(* text as far as the cover.                                               *)
RingInv ==
  /\ DOMAIN slots = 0 .. lrSize - 1
  /\ pc = "open" => invalidLine = 0
  /\ ~stretched /\ pc # "open" =>
       wSize = height /\ Fresh(slots, firstLine, lrSize, cover, invalidLine, text)

LEMMA CoverIs == ASSUME wSize \in Nat \ {0} PROVE cover = 2 * wSize
  BY DEF cover, regionWindow

LEMMA CoverNext == ASSUME wSize' \in Nat \ {0} PROVE cover' = 2 * wSize'
  <1>1. regionWindow' = IF wSize' < 1 THEN 1 ELSE wSize'
    BY DEF regionWindow
  <1>2. cover' = 2 * regionWindow'
    BY DEF cover
  <1>3. ~(wSize' < 1)
    OBVIOUS
  <1> QED
    BY <1>1, <1>2, <1>3, Zenon

LEMMA CoverSame == ASSUME wSize' = wSize PROVE cover' = cover
  BY DEF cover, regionWindow

(* A redraw may change the text from the first line that is still valid,   *)
(* and make the window lower.                                              *)
LEMMA RedrawFresh ==
  ASSUME Types, Knows(starts, invalidLine, text), HostTypes', Redraws,
         NEW n \in Nat, NEW m \in Nat, n <= m,
         Fresh(slots, firstLine, lrSize, m, invalidLine, text)
  PROVE  Fresh(slots', firstLine', lrSize', n, invalidLine', text')
  <1>1. PICK change \in BOOLEAN :
          /\ StartDrawing(change)
          /\ text' = text \/ (change /\ SameUpTo(TopOfChange))
    BY DEF Redraws, SameText
  <1>2. UNCHANGED <<lrSize, firstLine, slots, starts>>
    BY <1>1 DEF StartDrawing, ring
  <1>3. Knows(starts', invalidLine', text')
    BY RedrawKnows
  <1>4. invalidLine \in Nat /\ invalidLine' \in Nat /\ TopOfChange \in Nat /\ firstLine \in Nat
    <2>1. cursor' \in Nat
      BY DEF HostTypes
    <2> QED
      BY <1>3, <2>1, TopOfChangeBounds DEF Knows, Types, EngineTypes
  <1>5. invalidLine' <= invalidLine /\ (change => invalidLine' <= TopOfChange)
    <2>1. CASE change
      BY <1>1, <1>4, <2>1 DEF StartDrawing, ModifyEvent
    <2>2. CASE ~change
      BY <1>1, <1>4, <2>2 DEF StartDrawing
    <2> QED
      BY <2>1, <2>2
  <1>6. \A k \in Nat : k < invalidLine' => text'[k + 1] = text[k + 1]
    <2> TAKE k \in Nat
    <2> HAVE k < invalidLine'
    <2>1. CASE text' = text
      BY <2>1
    <2>2. CASE change /\ SameUpTo(TopOfChange)
      <3>1. k + 1 \in 1 .. TopOfChange
        BY <1>4, <1>5, <2>2
      <3> QED
        BY <2>2, <3>1 DEF SameUpTo
    <2> QED
      BY <1>1, <2>1, <2>2
  <1>7. \A k \in Nat : k < invalidLine' => Depths(text')[k] = Depths(text)[k]
    <2> TAKE k \in Nat
    <2> HAVE k < invalidLine'
    <2>1. k \in 0 .. invalidLine /\ k \in 0 .. invalidLine'
      BY <1>4, <1>5
    <2>2. starts[k] = Depths(text)[k] /\ starts'[k] = Depths(text')[k]
      BY <1>3, <2>1 DEF Knows
    <2> QED
      BY <1>2, <2>2
  <1>8. SUFFICES ASSUME NEW k \in Nat, firstLine <= k, k < firstLine + n, k < firstLine + lrSize,
                        k < invalidLine'
                 PROVE  Right(slots[k % lrSize], text', k)
    BY <1>2 DEF Fresh
  <1>9. k < firstLine + m /\ k < invalidLine
    BY <1>4, <1>5, <1>8
  <1>10. Right(slots[k % lrSize], text, k)
    BY <1>8, <1>9 DEF Fresh
  <1> QED
    BY <1>6, <1>7, <1>8, <1>10 DEF Right

LEMMA InitRing == Init => RingInv
  BY DEF Init, RingInv, EmptyRing

LEMMA Twice ==
  ASSUME NEW a \in Nat, NEW b \in Nat, a <= b
  PROVE  2 * a \in Nat /\ 2 * b \in Nat /\ 2 * a <= 2 * b
  OBVIOUS

(* Every step keeps the ring fresh.                                        *)
LEMMA StepRing ==
  ASSUME KnownInv, RingInv, [Next]_vars
  PROVE  RingInv'
  <1>1. Types /\ LinesCounted /\ BlockSeen /\ ListShown /\ Knows(starts, invalidLine, text)
    BY DEF KnownInv
  <1>2. Stepped /\ Looks
    BY <1>1, StepKinds, StepLooks
  <1>3. /\ height' = height \/ stretched' \/ height' <= height
        /\ height' = height \/ wSize' = height'
        /\ pc' = "open" => pc = "open"
        /\ stretched => stretched'
    BY <1>2, LooksHeight
  <1>4. DOMAIN slots = 0 .. lrSize - 1 /\ (pc = "open" => invalidLine = 0)
    BY DEF RingInv
  <1>5. ~stretched' /\ pc # "open"
          => wSize = height /\ Fresh(slots, firstLine, lrSize, cover, invalidLine, text)
    BY <1>3, Zenon DEF RingInv
  <1>6. HostTypes'
    BY <1>2 DEF Stepped
  <1>7. CASE Paints
    <2>1. PICK lno \in Nat : ValidateRegions(lno) /\ lineCount = Len(text) /\ text' = text
      BY <1>1, <1>7 DEF Paints, LinesCounted, SameText
    <2>2. pc # "open"
      BY <1>7 DEF Paints
    <2>3. /\ DOMAIN slots' = 0 .. lrSize' - 1 /\ wSize' = wSize
          /\ Fresh(slots, firstLine, lrSize, cover, invalidLine, text)
               => Fresh(slots', firstLine', lrSize', cover, invalidLine', text)
      BY <1>1, <1>4, <2>1, PaintFresh
    <2>4. cover' = cover
      BY <2>3, CoverSame
    <2> QED
      BY <1>3, <1>5, <2>1, <2>2, <2>3, <2>4 DEF RingInv
  <1>8. CASE Warms
    <2>1. PICK lno \in Int : ValidateCache(lno) /\ lineCount = Len(text) /\ text' = text
      BY <1>1, <1>8 DEF Warms, LinesCounted, SameText
    <2>2. pc # "open"
      BY <1>8 DEF Warms
    <2>3. cover \in Nat
      BY <1>1 DEF cover, regionWindow, Types, EngineTypes
    <2>4. /\ DOMAIN slots' = 0 .. lrSize - 1 /\ lrSize' = lrSize /\ firstLine' = firstLine
          /\ wSize' = wSize
          /\ Fresh(slots, firstLine, lrSize, cover, invalidLine, text)
               => Fresh(slots', firstLine, lrSize, cover, invalidLine', text)
      BY <1>1, <1>4, <2>1, <2>3, WarmFresh
    <2>5. cover' = cover
      BY <2>4, CoverSame
    <2> QED
      BY <1>3, <1>5, <2>1, <2>2, <2>4, <2>5 DEF RingInv
  <1>9. CASE Redraws
    <2>1. \E change \in BOOLEAN : StartDrawing(change)
      BY <1>9 DEF Redraws
    <2>2. /\ wSize' = height' /\ UNCHANGED <<lrSize, firstLine, slots>> /\ pc' = "draw"
      BY <2>1 DEF StartDrawing, ring
    <2>3. height \in Nat \ {0} /\ height' \in Nat \ {0} /\ wSize \in Nat \ {0}
      BY <1>1, <1>6 DEF Types, HostTypes, EngineTypes
    <2>4. cover = 2 * wSize /\ cover' = 2 * height'
      BY <2>2, <2>3, CoverIs, CoverNext
    <2>5. ASSUME ~stretched'
          PROVE  Fresh(slots', firstLine', lrSize', cover', invalidLine', text')
      <3>1. CASE pc # "open"
        <4>1. wSize = height /\ Fresh(slots, firstLine, lrSize, cover, invalidLine, text)
          BY <1>5, <2>5, <3>1
        <4>2. cover \in Nat /\ cover' \in Nat /\ cover' <= cover
          <5>1. height' = height \/ height' <= height
            BY <1>3, <2>5, Zenon
          <5>2. wSize = height
            BY <4>1
          <5>3. height' <= wSize
            BY <2>3, <5>1, <5>2
          <5>4. height' \in Nat /\ wSize \in Nat
            BY <2>3
          <5>5. 2 * height' \in Nat /\ 2 * wSize \in Nat /\ 2 * height' <= 2 * wSize
            BY <5>3, <5>4, Twice
          <5> QED
            BY <2>4, <5>5, Zenon
        <4> QED
          BY <1>1, <1>6, <1>9, <4>1, <4>2, RedrawFresh
      <3>2. CASE pc = "open"
        <4>1. Knows(starts', invalidLine', text') /\ TopOfChange \in Nat
          <5>1. cursor' \in Nat
            BY <1>6 DEF HostTypes
          <5> QED
            BY <1>1, <1>6, <1>9, <5>1, RedrawKnows, TopOfChangeBounds
        <4>2. invalidLine' = 0
          BY <1>4, <2>1, <3>2, <4>1 DEF StartDrawing, ModifyEvent
        <4> QED
          BY <4>2 DEF Fresh
      <3> QED
        BY <3>1, <3>2
    <2> QED
      BY <1>4, <2>2, <2>5 DEF RingInv
  <1>10. CASE Restarts
    <2>1. pc # "open" /\ invalidLine' = 0 /\ UNCHANGED <<wSize, lrSize, firstLine, slots>>
      BY <1>10 DEF Restarts, window, ring
    <2>2. Fresh(slots', firstLine', lrSize', cover', invalidLine', text')
      BY <2>1 DEF Fresh
    <2> QED
      BY <1>3, <1>4, <1>5, <2>1, <2>2 DEF RingInv
  <1>11. CASE Rests
    <2>1. text' = text /\ (pc = "open" => pc' = "open")
          /\ UNCHANGED <<invalidLine, wSize, lrSize, firstLine, slots>>
      BY <1>11 DEF Rests, SameText, engine, window, ring
    <2>2. cover' = cover
      BY <2>1, CoverSame
    <2> QED
      BY <1>3, <1>4, <1>5, <2>1, <2>2 DEF RingInv
  <1> QED
    BY <1>2, <1>7, <1>8, <1>9, <1>10, <1>11 DEF Stepped

-----------------------------------------------------------------------------
(* What is on the screen. *)

(* A line that was answered is that of the text or none.                   *)
Shows(answer, t, l) == answer = Null \/ Drawn(answer) = Drawn(Inside(Depths(t)[l], t[l + 1]))
ShownRight == ~stretched => \A i \in DOMAIN shown : Shows(shown[i], text, top + i - 1)

(* The first line of the window that is asked for brings the ring to it,   *)
(* unless it is too far: then all the lines of the window are.             *)
Drawing == pc = "draw" \/ pc = "pair"
DrawInv ==
  ~stretched /\ Drawing => wStart = top /\ (shown # <<>> => Covered \/ TooFar(top))

(* The inductive invariant.                                                *)
FreshInv == KnownInv /\ RingInv /\ DrawInv /\ ShownRight

LEMMA CoverPaintedIs == CoverPainted <=> \A i \in DOMAIN shown : Shows(shown[i], text, top + i - 1)
  BY TrueDepthIs DEF CoverPainted, Shows, ReferenceLine, Inside, Kind

LEMMA InitFresh == Init => FreshInv
  <1>1. ASSUME Init PROVE DrawInv /\ ShownRight
    BY <1>1 DEF Init, DrawInv, Drawing, ShownRight
  <1> QED
    BY <1>1, InitKnown, InitRing DEF FreshInv

(* What a request for the next line of the window gives.                   *)
LEMMA NextLine ==
  ASSUME KnownInv, RingInv, DrawInv, ~stretched, pc = "draw", text' = text, top' = top,
         NEW n \in Nat, n = Len(shown), n < height, top + n < Len(text), Request(top + n)
  PROVE  /\ wStart' = top /\ (Covered' \/ TooFar(top)')
         /\ Shows(Answer(top + n), text, top + n)
  <1> DEFINE lno == top + n
  <1>1. /\ Types /\ lineCount = Len(text) /\ Knows(starts, invalidLine, text)
        /\ wStart = top /\ (shown # <<>> => Covered \/ TooFar(top))
        /\ DOMAIN slots = 0 .. lrSize - 1 /\ wSize = height
        /\ Fresh(slots, firstLine, lrSize, cover, invalidLine, text)
    BY DEF KnownInv, LinesCounted, DrawInv, Drawing, RingInv
  <1>2. /\ top \in Nat /\ height \in Nat \ {0} /\ lno \in Nat /\ invalidLine \in Int
        /\ backParse \in Int /\ firstLine \in Nat /\ lrSize \in Nat \ {0}
    BY <1>1 DEF Types, HostTypes, EngineTypes
  <1>3. shown = <<>> <=> n = 0
    BY <1>1 DEF Types, HostTypes
  <1>4. TooFar(top) => TooFar(lno)
    BY <1>2 DEF TooFar
  <1> HIDE DEF lno
  <1>5. CASE TooFar(lno)
    <2>1. UNCHANGED engine
      BY <1>5 DEF Request, lno
    <2>2. wStart' = wStart /\ (Covered' <=> Covered) /\ (TooFar(top)' <=> TooFar(top))
      <3>1. /\ UNCHANGED <<invalidLine, backParse, wStart, wSize, lrSize, firstLine>>
            /\ top' = top
        BY <2>1 DEF engine, window, ring
      <3>2. cover' = cover
        BY <3>1, CoverSame
      <3> QED
        BY <3>1, <3>2 DEF Covered, TooFar
    <2>3. Covered \/ TooFar(top)
      BY <1>1, <1>2, <1>3, <1>5 DEF lno
    <2> QED
      BY <1>1, <1>5, <2>2, <2>3 DEF Answer, Shows, lno
  <1>6. CASE ~TooFar(lno)
    <2>1. ValidateRegions(lno)
      BY <1>6 DEF Request, lno
    <2>2. lno < Len(text) /\ (lno = wStart \/ (Covered /\ wStart <= lno /\ lno < wStart + wSize))
      <3>1. lno < Len(text)
        BY DEF lno
      <3>2. CASE n = 0
        BY <1>1, <1>2, <3>1, <3>2 DEF lno
      <3>3. CASE n # 0
        <4>1. Covered
          BY <1>1, <1>3, <1>4, <1>6, <3>3
        <4> QED
          BY <1>1, <1>2, <3>1, <4>1 DEF lno
      <3> QED
        BY <3>2, <3>3
    <2>3. /\ wStart' = wStart /\ wSize' = wSize
          /\ lrSize' >= cover /\ firstLine' <= wStart /\ wStart + wSize <= firstLine' + cover
          /\ CheckLine(firstLine', lrSize', lno) /\ Right(slots'[lno % lrSize'], text, lno)
      BY <1>1, <1>2, <2>1, <2>2, PaintDirect
    <2>4. cover' = cover
      BY <2>3, CoverSame
    <2>5. Covered'
      BY <2>3, <2>4 DEF Covered
    <2>6. firstLine' \in Nat /\ lrSize' \in Nat \ {0}
      BY <1>1, <1>2, <2>1, PaintKnows DEF EngineTypes
    <2>7. LineIndex(firstLine', lrSize', lno) = lno % lrSize'
      BY <1>2, <2>3, <2>6, LineIndexIs DEF CheckLine
    <2>8. Answer(lno) = slots'[lno % lrSize']
      BY <1>6, <2>3, <2>7 DEF Answer, GetLineRegions
    <2>9. Shows(Answer(lno), text, lno)
      BY <2>3, <2>8 DEF Right, Alike, Shows
    <2> QED
      BY <1>1, <2>3, <2>5, <2>9 DEF lno
  <1> QED
    BY <1>5, <1>6

LEMMA StepFresh == FreshInv /\ [Next]_vars => FreshInv'
  <1> SUFFICES ASSUME FreshInv, [Next]_vars PROVE FreshInv'
    OBVIOUS
  <1>1. KnownInv /\ RingInv /\ DrawInv /\ ShownRight /\ Types
    BY DEF FreshInv, KnownInv
  <1>2. KnownInv' /\ RingInv'
    BY <1>1, StepKnown, StepRing
  <1>3. Looks /\ (stretched => stretched')
    BY <1>1, StepLooks DEF Looks
  <1>4. SUFFICES ASSUME ~stretched' PROVE DrawInv' /\ ShownRight'
    BY <1>2 DEF FreshInv, DrawInv, ShownRight
  <1>5. ~stretched
    BY <1>3, <1>4
  <1>6. CASE Clears
    BY <1>6 DEF Clears, DrawInv, Drawing, ShownRight
  <1>7. CASE DrawLine
    <2> DEFINE n == Len(shown)
    <2>1. pc = "draw" /\ UNCHANGED <<text, top, height>>
      BY <1>7 DEF DrawLine, host
    <2>2. PICK S : shown \in Seq(S)
      BY <1>1 DEF Types, HostTypes
    <2>3. n \in Nat /\ top \in Nat
      BY <1>1, <2>2 DEF Types, HostTypes
    <2>4. CASE /\ n < height /\ top + n < Len(text) /\ Request(top + n)
               /\ shown' = Append(shown, Answer(top + n)) /\ pc' = pc
      <3>1. /\ wStart' = top /\ (Covered' \/ TooFar(top)')
            /\ Shows(Answer(top + n), text, top + n)
        BY <1>1, <1>5, <2>1, <2>3, <2>4, NextLine
      <3>2. DrawInv'
        BY <2>1, <2>4, <3>1 DEF DrawInv
      <3>3. ASSUME NEW i \in DOMAIN shown' PROVE Shows(shown'[i], text', top' + i - 1)
        <4>1. CASE i \in DOMAIN shown
          <5>1. shown'[i] = shown[i]
            BY <2>2, <2>4, <4>1
          <5> QED
            BY <1>1, <1>5, <2>1, <4>1, <5>1 DEF ShownRight
        <4>2. CASE i \notin DOMAIN shown
          <5>1. i = n + 1 /\ shown'[i] = Answer(top + n)
            <6> DEFINE T == S \cup {Answer(top + n)}
            <6>1. shown \in Seq(T) /\ Answer(top + n) \in T
              BY <2>2
            <6> HIDE DEF T
            <6> QED
              BY <2>4, <4>2, <6>1
          <5>2. top + (n + 1) - 1 = top + n
            BY <2>3
          <5> QED
            BY <2>1, <3>1, <5>1, <5>2
        <4> QED
          BY <4>1, <4>2
      <3> QED
        BY <3>2, <3>3 DEF ShownRight
    <2>5. CASE pc' = "pair" /\ UNCHANGED <<shown, engine>>
      <3>1. /\ UNCHANGED <<invalidLine, backParse, wStart, wSize, lrSize, firstLine, shown, text, top>>
        BY <2>1, <2>5 DEF engine, window, ring
      <3>2. cover' = cover
        BY <3>1, CoverSame
      <3> QED
        BY <1>1, <1>5, <2>1, <3>1, <3>2 DEF DrawInv, Drawing, ShownRight, Covered, TooFar
    <2> QED
      BY <1>7, <2>4, <2>5 DEF DrawLine
  <1>8. CASE Leaves
    BY <1>1, <1>5, <1>8 DEF Leaves, DrawInv, Drawing, ShownRight
  <1>9. CASE UNCHANGED vars
    <2>1. /\ UNCHANGED <<invalidLine, backParse, wStart, wSize, lrSize, firstLine, shown, text, top, pc>>
      BY <1>9 DEF vars, host, engine, window, ring, event
    <2>2. cover' = cover
      BY <2>1, CoverSame
    <2> QED
      BY <1>1, <1>5, <2>1, <2>2 DEF DrawInv, Drawing, ShownRight, Covered, TooFar
  <1> QED
    BY <1>3, <1>6, <1>7, <1>8, <1>9 DEF Looks

LEMMA AlwaysFresh == Spec => []FreshInv
  BY InitFresh, StepFresh, PTL DEF Spec

(* Until the window is made higher, a line is drawn as the text is now, or *)
(* it is not coloured at all.                                              *)
THEOREM ShownIsFresh == Spec => []ShownFresh
  <1>1. FreshInv => ShownFresh
    BY CoverPaintedIs DEF FreshInv, ShownRight, ShownFresh
  <1> QED
    BY <1>1, AlwaysFresh, PTL

-----------------------------------------------------------------------------
(* The cursor and the window. *)

(* The cursor is in the text and in the window; so it was when the outline *)
(* was listed, which is where the cursor goes back to.                     *)
Seen(c, t, h, n) == t <= c /\ c < t + h /\ c < n
InWindow ==
  /\ Seen(cursor, top, height, Len(text))
  /\ menu # NoMenu => Seen(menu.line, menu.top, height, Len(text))

LEMMA SeenKept ==
  ASSUME InWindow, UNCHANGED <<text, top, height, cursor>>, menu' = menu \/ menu' = NoMenu
  PROVE  InWindow'
  BY DEF InWindow

LEMMA SeenAgain ==
  ASSUME InWindow, Seen(cursor', top', height', Len(text')), Len(text') = Len(text) /\ height' = height,
         menu' = menu \/ menu' = NoMenu
  PROVE  InWindow'
  BY DEF InWindow

LEMMA SeenOnly ==
  ASSUME Seen(cursor', top', height', Len(text')), menu' = NoMenu
  PROVE  InWindow'
  BY DEF InWindow

LEMMA HalfAbove ==
  ASSUME NEW a \in Nat, NEW q \in Nat, NEW h \in Nat, q < h
  PROVE  MaxOf(0, a - q) <= a /\ a < MaxOf(0, a - q) + h
  BY DEF MaxOf

LEMMA CentredSeen ==
  ASSUME Types, NEW lno \in Nat, Centred(lno)
  PROVE  Seen(cursor', top', height', Len(text')) /\ UNCHANGED <<text, height>>
  <1>1. /\ UNCHANGED <<text, height, block>>
        /\ cursor' = MinOf(lno, Len(text) - 1) /\ top' = MaxOf(0, cursor' - height \div 2)
    BY DEF Centred
  <1>2. Len(text) - 1 \in Nat /\ height \in Nat \ {0}
    BY DEF Types, HostTypes
  <1>3. cursor' \in Nat /\ cursor' <= Len(text) - 1
    BY <1>1, <1>2, MinOfIs
  <1>4. height \div 2 \in Nat /\ height \div 2 < height
    BY <1>2
  <1>5. top' <= cursor' /\ cursor' < top' + height
    <2>1. /\ MaxOf(0, cursor' - height \div 2) <= cursor'
          /\ cursor' < MaxOf(0, cursor' - height \div 2) + height
      BY <1>2, <1>3, <1>4, HalfAbove
    <2> QED
      BY <1>1, <2>1
  <1> QED
    BY <1>1, <1>2, <1>3, <1>5 DEF Seen

LEMMA ScrolledSeen ==
  ASSUME Types, NEW c \in Nat, NEW n, c < n
  PROVE  Seen(c, Scrolled(c, height), height, n)
  BY DEF Scrolled, Types, HostTypes, Seen

LEMMA MoveToSeen ==
  ASSUME Types, NEW lno \in Nat, MoveTo(lno)
  PROVE  Seen(cursor', top', height', Len(text')) /\ UNCHANGED <<text, height>>
  <1>1. CASE Centred(lno)
    BY <1>1, CentredSeen
  <1>2. CASE ~Centred(lno)
    <2>1. /\ cursor' = MinOf(lno, Len(text) - 1) /\ top' = Scrolled(cursor', height)
          /\ UNCHANGED <<text, height, block>>
      BY <1>2 DEF MoveTo
    <2>2. Len(text) - 1 \in Nat
      BY DEF Types, HostTypes
    <2>3. cursor' \in Nat /\ cursor' < Len(text)
      BY <2>1, <2>2, MinOfIs
    <2> QED
      BY <2>1, <2>3, ScrolledSeen
  <1> QED
    BY <1>1, <1>2

LEMMA EditedSeen ==
  ASSUME Types, NEW t, NEW c \in Nat, Edited(t, c), c < Len(t)
  PROVE  InWindow'
  <1>1. /\ text' = t /\ cursor' = c /\ top' = Scrolled(c, height) /\ height' = height /\ menu' = NoMenu
    BY DEF Edited, BeginRedraw
  <1> QED
    BY <1>1, ScrolledSeen, SeenOnly

LEMMA ChangesSeen ==
  ASSUME Types, NEW c \in LineNos, NEW k \in Kinds, Replace(c, k) \/ Split(c, k) \/ Join(c)
  PROVE  InWindow'
  <1>1. c \in Nat /\ text \in Seq(Kinds) /\ Len(text) \in Nat
    BY LinesAreNat DEF Types, HostTypes
  <1>2. CASE Replace(c, k)
    <2> DEFINE t == [text EXCEPT ![c + 1] = k]
    <2>1. c < Len(text) /\ Edited(t, c)
      BY <1>2, Zenon DEF Replace
    <2>2. Len(t) = Len(text)
      BY <1>1, ReplacedSame
    <2> HIDE DEF t
    <2> QED
      BY <1>1, <2>1, <2>2, EditedSeen
  <1>3. CASE Split(c, k)
    <2> DEFINE t == InsertAt(text, c + 2, k)
    <2>1. c < Len(text) /\ Edited(t, c + 1)
      BY <1>3, Zenon DEF Split
    <2>2. Len(t) = Len(text) + 1
      BY <1>1, <2>1, InsertedSame
    <2> HIDE DEF t
    <2>3. c + 1 \in Nat /\ c + 1 < Len(t)
      BY <1>1, <2>1, <2>2
    <2> QED
      BY <2>1, <2>3, EditedSeen
  <1>4. CASE Join(c)
    <2> DEFINE t == RemoveAt(text, c + 1)
               n == MaxOf(0, c - 1)
    <2>1. c < Len(text) /\ Len(text) > 1 /\ Edited(t, n)
      BY <1>4, Zenon DEF Join
    <2>2. Len(t) = Len(text) - 1
      BY <1>1, <2>1, RemovedSame
    <2> HIDE DEF t
    <2>3. n \in Nat /\ n < Len(t)
      BY <1>1, <2>1, <2>2 DEF MaxOf
    <2> HIDE DEF n
    <2> QED
      BY <2>1, <2>3, EditedSeen
  <1> QED
    BY <1>2, <1>3, <1>4

LEMMA SearchSeen ==
  ASSUME InWindow, NEW goal, BeginSearch(goal)
  PROVE  InWindow'
  BY SeenKept DEF BeginSearch, host

LEMMA InitWindow == Init => InWindow
  <1> SUFFICES ASSUME Init PROVE InWindow
    OBVIOUS
  <1>1. Len(text) \in Nat \ {0} /\ height \in Nat \ {0} /\ top = 0 /\ cursor = 0 /\ menu = NoMenu
    BY EditorAssumption DEF Init
  <1> QED
    BY <1>1 DEF InWindow, Seen

LEMMA StepWindow ==
  ASSUME Types, ListShown, InWindow, [Next]_vars
  PROVE  InWindow'
  <1>1. CASE Open
    BY <1>1, SeenKept DEF Open, BeginRedraw, host
  <1>2. CASE DrawLine
    BY <1>2, SeenKept DEF DrawLine, host, rest
  <1>3. CASE DrawPair
    <2>1. CASE BeginSearch("draw")
      BY <2>1, SearchSeen
    <2>2. CASE UNCHANGED <<host, rest>>
      BY <2>2, SeenKept DEF host, rest
    <2> QED
      BY <1>3, <2>1, <2>2 DEF DrawPair
  <1>4. CASE SearchStep
    BY <1>4, SeenKept DEF SearchStep, host
  <1>5. CASE EndSearch
    <2>1. CASE UNCHANGED <<text, top, height, cursor, rest>>
      BY <2>1, SeenKept DEF rest
    <2>2. CASE search.eline # -1 /\ MoveTo(search.eline) /\ BeginRedraw(FALSE)
      <3>1. search.eline \in Nat
        BY <2>2 DEF Types, HostTypes, Searching
      <3> QED
        BY <2>2, <3>1, MoveToSeen, SeenOnly DEF BeginRedraw
    <2> QED
      BY <1>5, <2>1, <2>2 DEF EndSearch, host
  <1>6. CASE EndLocate
    <2>1. CASE \E lno \in Listed : Centred(lno) /\ BeginRedraw(FALSE)
      BY <2>1, ListedLine, CentredSeen, SeenOnly DEF BeginRedraw
    <2>2. CASE UNCHANGED <<host, rest>>
      BY <2>2, SeenKept DEF host, rest
    <2> QED
      BY <1>6, <2>1, <2>2 DEF EndLocate
  <1>7. CASE ChooseFunction
    BY <1>7, ListedLine, CentredSeen, SeenOnly DEF ChooseFunction, BeginRedraw
  <1>8. CASE LeaveList
    <2>1. /\ cursor' = menu.line /\ top' = menu.top /\ UNCHANGED <<text, height>> /\ menu' = NoMenu
          /\ menu # NoMenu
      BY <1>8 DEF LeaveList, InList, BeginRedraw, ListShown
    <2> QED
      BY <2>1 DEF InWindow
  <1>9. CASE CloseMenu
    BY <1>9, SeenKept DEF CloseMenu, BeginRedraw, host
  <1>10. CASE \E b \in Budgets : IdleJob(b)
    BY <1>10, SeenKept DEF IdleJob, host, rest
  <1>11. CASE EndIdle
    <2>1. UNCHANGED host /\ (menu' = menu \/ menu' = NoMenu)
      BY <1>11 DEF EndIdle, BeginRedraw, rest
    <2> QED
      BY <2>1, SeenKept DEF host
  <1>12. CASE Idle
    BY <1>12, SeenKept DEF Idle, host
  <1>13. CASE \E t, c \in LineNos, h \in Heights, b \in {-1} \cup LineNos : View(t, h, c, b)
    <2>1. PICK t \in LineNos, c \in LineNos, h \in Heights : 
            /\ t <= c /\ c < t + h /\ c < Len(text)
            /\ top' = t /\ height' = h /\ cursor' = c /\ UNCHANGED text /\ menu' = NoMenu
      BY <1>13 DEF View, BeginRedraw
    <2> QED
      BY <2>1 DEF InWindow, Seen
  <1>14. CASE \E c \in LineNos, k \in Kinds : Replace(c, k) \/ Split(c, k)
    BY <1>14, ChangesSeen
  <1>15. CASE \E c \in LineNos : Join(c)
    <2>1. "plain" \in Kinds
      BY DEF Kinds
    <2> QED
      BY <1>15, <2>1, ChangesSeen
  <1>16. CASE \E k \in Kinds : EditBlock(k)
    <2>1. UNCHANGED <<top, height, cursor>> /\ menu' = NoMenu
      BY <1>16 DEF EditBlock, BeginRedraw
    <2>2. Len(text') = Len(text)
      BY <1>16 DEF EditBlock, Types, HostTypes
    <2> QED
      BY <2>1, <2>2 DEF InWindow
  <1>17. CASE MatchPair \/ SelectPair
    BY <1>17, SearchSeen DEF MatchPair, SelectPair
  <1>18. CASE SelectRegion
    BY <1>18, SeenKept DEF SelectRegion, rest
  <1>19. CASE LocateFunction
    BY <1>19, SeenKept DEF LocateFunction, WholeText, host
  <1>20. CASE ListFunctions
    <2>1. UNCHANGED <<text, top, height, cursor>>
      BY <1>20 DEF ListFunctions, WholeText, host
    <2>2. CASE menu' = NoMenu
      BY <2>1, <2>2, SeenKept
    <2>3. CASE menu' = [line |-> cursor, top |-> top]
      <3>1. menu'.line = cursor /\ menu'.top = top
        BY <2>3
      <3> QED
        BY <2>1, <3>1 DEF InWindow
    <2> QED
      BY <1>20, <2>2, <2>3 DEF ListFunctions
  <1>21. CASE Browse
    BY <1>21, ListedLine, CentredSeen, SeenAgain DEF Browse
  <1>22. CASE InsertName
    <2>1. UNCHANGED <<top, height, cursor>> /\ menu' = NoMenu
      BY <1>22 DEF InsertName, BeginRedraw
    <2>2. Len(text') = Len(text)
      BY <1>22 DEF InsertName, Types, HostTypes
    <2> QED
      BY <2>1, <2>2 DEF InWindow
  <1>23. CASE UpdateHighlighting
    BY <1>23, SeenKept DEF UpdateHighlighting, host, rest
  <1>24. CASE SetFileType
    BY <1>24, SeenKept DEF SetFileType, host, rest
  <1>25. CASE Remap
    BY <1>25, SeenKept DEF Remap, host, rest
  <1>26. CASE UNCHANGED vars
    BY <1>26, SeenKept DEF vars, host, event, rest
  <1> QED
    BY <1>1, <1>2, <1>3, <1>4, <1>5, <1>6, <1>7, <1>8, <1>9, <1>10, <1>11, <1>12, <1>13,
       <1>14, <1>15, <1>16, <1>17, <1>18, <1>19, <1>20, <1>21, <1>22, <1>23, <1>24, <1>25,
       <1>26 DEF Next, Handle


-----------------------------------------------------------------------------
(* The tokens of a line. *)

(* The one element of s that is in S.                                      *)
LEMMA OnlyOne ==
  ASSUME NEW s, NEW S, Len(s) \in Nat, NEW k \in 1 .. Len(s), s[k] \in S,
         \A i \in 1 .. Len(s) : i # k => s[i] \notin S
  PROVE  Only(s, S) = <<s[k]>>
  <1> DEFINE f == OnlyTo(s, S)
             T == {n \in Nat : k + n <= Len(s) => f[k + n] = <<s[k]>>}
  <1>0. \A i \in 1 .. Len(s) : f[i] = IF s[i] \in S THEN Append(f[i - 1], s[i]) ELSE f[i - 1]
    BY OnlySteps
  <1>1. f[k - 1] = <<>>
    <2>1. k - 1 \in 0 .. Len(s) /\ \A i \in 1 .. k - 1 : s[i] \notin S
      OBVIOUS
    <2> HIDE DEF f
    <2> QED
      BY <2>1, OnlyNone DEF f
  <1> HIDE DEF f
  <1>2. f[k] = <<s[k]>>
    <2>1. f[k] = Append(<<>>, s[k])
      BY <1>0, <1>1
    <2> QED
      BY <2>1
  <1>3. 0 \in T
    BY <1>2
  <1>4. ASSUME NEW n \in Nat, n \in T PROVE n + 1 \in T
    <2> SUFFICES ASSUME k + (n + 1) <= Len(s) PROVE f[k + (n + 1)] = <<s[k]>>
      OBVIOUS
    <2>1. /\ k + (n + 1) \in 1 .. Len(s) /\ k + (n + 1) # k /\ (k + (n + 1)) - 1 = k + n
          /\ f[k + n] = <<s[k]>>
      BY <1>4
    <2> QED
      BY <1>0, <2>1
  <1>5. Len(s) - k \in T
    <2>1. Len(s) - k \in Nat
      OBVIOUS
    <2> HIDE DEF T
    <2> QED
      BY <1>3, <1>4, <2>1, Induction
  <1>6. k + (Len(s) - k) = Len(s)
    OBVIOUS
  <1>7. f[Len(s)] = <<s[k]>>
    BY <1>5, <1>6
  <1> QED
    BY <1>7, OnlyIs DEF f

(* The pairs of a line with one token, and with none.                      *)
IsToken(r) == r.region = "PairStart" \/ r.region = "PairEnd"

LEMMA PairsOne ==
  ASSUME NEW L \in Seq(Regions), L # Null, NEW k \in 1 .. Len(L), IsToken(L[k]),
         \A i \in 1 .. Len(L) : i # k => ~IsToken(L[i])
  PROVE  PairsOf(L) = <<L[k]>>
  <1> DEFINE S == Tokens(L)
  <1>1. \A i \in 1 .. Len(L) : L[i] \in ToSet(L)
    BY DEF ToSet
  <1>2. \A i \in 1 .. Len(L) : L[i] \in S <=> IsToken(L[i])
    BY <1>1 DEF Tokens, IsToken
  <1>3. PairsOf(L) = Only(L, S)
    BY DEF PairsOf
  <1> HIDE DEF S
  <1> QED
    BY <1>2, <1>3, OnlyOne

LEMMA PairsNone ==
  ASSUME NEW L \in Seq(Regions), L # Null, \A i \in 1 .. Len(L) : ~IsToken(L[i])
  PROVE  PairsOf(L) = <<>>
  <1> DEFINE S == Tokens(L)
  <1>1. \A i \in 1 .. Len(L) : L[i] \notin S
    BY DEF Tokens, IsToken
  <1>2. PairsOf(L) = Only(L, S) /\ Len(L) \in Nat /\ Len(L) \in 0 .. Len(L)
    BY DEF PairsOf
  <1> HIDE DEF S
  <1>3. OnlyTo(L, S)[Len(L)] = <<>>
    BY <1>1, <1>2, OnlyNone
  <1> QED
    BY <1>2, <1>3, OnlyIs

(* A line with one token, that of a pair's begin or end, and with none.     *)
HasToken(L, name) ==
  /\ L \in Seq(Regions)
  /\ \E k \in 1 .. Len(L) : L[k].region = name /\ \A i \in 1 .. Len(L) : i # k => ~IsToken(L[i])
NoToken(L) == L \in Seq(Regions) /\ \A i \in 1 .. Len(L) : ~IsToken(L[i])

LEMMA NoTokenOne ==
  ASSUME NEW x \in Regions, ~IsToken(x)
  PROVE  NoToken(<<x>>)
  BY DEF NoToken

LEMMA NoTokenTwo ==
  ASSUME NEW x \in Regions, NEW y \in Regions, ~IsToken(x), ~IsToken(y)
  PROVE  NoToken(<<x, y>>)
  BY DEF NoToken

LEMMA TokenAfter ==
  ASSUME NEW M, NoToken(M), NEW t \in Regions, NEW name, t.region = name
  PROVE  HasToken(Append(M, t), name)
  <1> DEFINE L == Append(M, t)
  <1>1. M \in Seq(Regions) /\ Len(M) \in Nat /\ \A i \in 1 .. Len(M) : ~IsToken(M[i])
    BY DEF NoToken
  <1>2. /\ L \in Seq(Regions) /\ Len(L) = Len(M) + 1 /\ L[Len(M) + 1] = t
        /\ \A i \in 1 .. Len(M) : L[i] = M[i]
    BY <1>1
  <1> HIDE DEF L
  <1>3. Len(M) + 1 \in 1 .. Len(L)
    BY <1>1, <1>2
  <1>4. \A i \in 1 .. Len(L) : i # Len(M) + 1 => ~IsToken(L[i])
    <2> TAKE i \in 1 .. Len(L)
    <2> HAVE i # Len(M) + 1
    <2>1. i \in 1 .. Len(M)
      BY <1>1, <1>2
    <2> QED
      BY <1>1, <1>2, <2>1
  <1>5. HasToken(L, name)
    BY <1>2, <1>3, <1>4 DEF HasToken
  <1> QED
    BY <1>5 DEF L

LEMMA TokenAmid ==
  ASSUME NEW y \in Regions, NEW t \in Regions, NEW z \in Regions, NEW name, t.region = name,
         ~IsToken(y), ~IsToken(z)
  PROVE  HasToken(<<y, t, z>>, name)
  <1> DEFINE L == <<y, t, z>>
  <1>1. L \in Seq(Regions) /\ Len(L) = 3 /\ L[1] = y /\ L[2] = t /\ L[3] = z
    OBVIOUS
  <1> HIDE DEF L
  <1>2. 2 \in 1 .. Len(L) /\ \A i \in 1 .. Len(L) : i # 2 => i = 1 \/ i = 3
    BY <1>1
  <1>3. HasToken(L, name)
    BY <1>1, <1>2 DEF HasToken
  <1> QED
    BY <1>3 DEF L

LEMMA TokenPairs ==
  ASSUME NEW L, L # Null, NEW name \in {"PairStart", "PairEnd"}, HasToken(L, name)
  PROVE  \E r : r.region = name /\ PairsOf(L) = <<r>>
  <1>1. PICK k \in 1 .. Len(L) :
          L[k].region = name /\ \A i \in 1 .. Len(L) : i # k => ~IsToken(L[i])
    BY DEF HasToken
  <1>2. L \in Seq(Regions) /\ IsToken(L[k])
    BY <1>1 DEF HasToken, IsToken
  <1>3. PairsOf(L) = <<L[k]>>
    BY <1>1, <1>2, PairsOne
  <1> QED
    BY <1>1, <1>3

(* One element more, and the two switches of the background.               *)
LEMMA AppendOne ==
  ASSUME NEW x, NEW t
  PROVE  Append(<<x>>, t) = <<x, t>>
  <1> DEFINE S == {x, t}
             u == Append(<<x>>, t)
             v == <<x, t>>
  <1>1. /\ <<x>> \in Seq(S) /\ Len(<<x>>) = 1
        /\ v \in Seq(S) /\ Len(v) = 2 /\ v[1] = x /\ v[2] = t
    OBVIOUS
  <1>2. u \in Seq(S) /\ Len(u) = 2 /\ u[1] = x /\ u[2] = t
    BY <1>1
  <1> HIDE DEF S, u, v
  <1>3. \A i \in 1 .. Len(u) : u[i] = v[i]
    BY <1>1, <1>2
  <1>4. u = v
    BY <1>1, <1>2, <1>3
  <1> QED
    BY <1>4 DEF u, v

LEMMA AppendTwo ==
  ASSUME NEW x, NEW y, NEW t
  PROVE  Append(<<x, y>>, t) = <<x, y, t>>
  <1> DEFINE S == {x, y, t}
             u == Append(<<x, y>>, t)
             v == <<x, y, t>>
  <1>1. /\ <<x, y>> \in Seq(S) /\ Len(<<x, y>>) = 2 /\ <<x, y>>[1] = x /\ <<x, y>>[2] = y
        /\ v \in Seq(S) /\ Len(v) = 3 /\ v[1] = x /\ v[2] = y /\ v[3] = t
    OBVIOUS
  <1>2. u \in Seq(S) /\ Len(u) = 3 /\ u[1] = x /\ u[2] = y /\ u[3] = t
    BY <1>1
  <1> HIDE DEF S, u, v
  <1>3. \A i \in 1 .. Len(u) : u[i] = v[i]
    BY <1>1, <1>2
  <1>4. u = v
    BY <1>1, <1>2, <1>3
  <1> QED
    BY <1>4 DEF u, v

LEMMA SwitchOne ==
  ASSUME NEW a, NEW x, NEW entry, NEW s
  PROVE  Switch(Handler(a, <<x>>, 1), entry, s) = Handler(a, <<[x EXCEPT !.end = s], Flow(entry, s)>>, 2)
  <1> DEFINE y == [x EXCEPT !.end = s]
             z == Flow(entry, s)
             L == <<x>>
  <1>1. L[1] = x /\ Len(L) + 1 = 2
    OBVIOUS
  <1>2. \A v : [L EXCEPT ![1] = v] = <<v>>
    OBVIOUS
  <1> HIDE DEF L
  <1>3. Switch(Handler(a, L, 1), entry, s)
          = Handler(a, Append([L EXCEPT ![1] = [L[1] EXCEPT !.end = s]], Flow(entry, s)), Len(L) + 1)
    BY SwitchIs
  <1>4. [L EXCEPT ![1] = [L[1] EXCEPT !.end = s]] = <<y>>
    BY <1>1, <1>2
  <1> HIDE DEF y
  <1>5. Append(<<y>>, z) = <<y, z>>
    BY AppendOne
  <1>6. Switch(Handler(a, L, 1), entry, s) = Handler(a, <<y, z>>, 2)
    BY <1>1, <1>3, <1>4, <1>5
  <1> QED
    BY <1>6 DEF L, y

LEMMA SwitchTwo ==
  ASSUME NEW a, NEW x, NEW t, NEW entry, NEW s
  PROVE  Switch(Handler(a, <<x, t>>, 1), entry, s) = Handler(a, <<[x EXCEPT !.end = s], t, Flow(entry, s)>>, 3)
  <1> DEFINE y == [x EXCEPT !.end = s]
             z == Flow(entry, s)
             L == <<x, t>>
  <1>1. L[1] = x /\ Len(L) + 1 = 3
    OBVIOUS
  <1>2. \A v : [L EXCEPT ![1] = v] = <<v, t>>
    OBVIOUS
  <1> HIDE DEF L
  <1>3. Switch(Handler(a, L, 1), entry, s)
          = Handler(a, Append([L EXCEPT ![1] = [L[1] EXCEPT !.end = s]], Flow(entry, s)), Len(L) + 1)
    BY SwitchIs
  <1>4. [L EXCEPT ![1] = [L[1] EXCEPT !.end = s]] = <<y, t>>
    BY <1>1, <1>2
  <1> HIDE DEF y
  <1>5. Append(<<y, t>>, z) = <<y, t, z>>
    BY AppendTwo
  <1>6. Switch(Handler(a, L, 1), entry, s) = Handler(a, <<y, t, z>>, 3)
    BY <1>1, <1>3, <1>4, <1>5
  <1> QED
    BY <1>6 DEF L, y

(* What is drawn around tokens are backgrounds of blocks, cut or not.      *)
LEMMA FlowPlain ==
  ASSUME NEW entry \in Entries, entry.region = NoRegion \/ entry.region = "block", NEW s \in Int
  PROVE  Flow(entry, s) \in Regions /\ ~IsToken(Flow(entry, s))
  BY NamesAssumption DEF Flow, Entries, Regions, IsToken

LEMMA CutPlain ==
  ASSUME NEW x \in Regions, ~IsToken(x), NEW s \in Int
  PROVE  [x EXCEPT !.end = s] \in Regions /\ ~IsToken([x EXCEPT !.end = s])
  BY DEF Regions, IsToken

LEMMA LineOf ==
  ASSUME NEW a, NEW L, NEW f
  PROVE  Handler(a, L, f).line = L /\ Handler(a, L, f).stack = a
  BY DEF Handler

LEMMA AddSpecialIs ==
  ASSUME NEW a, NEW L, NEW f, NEW r
  PROVE  AddRegion(Handler(a, L, f), 1, 2, r, TRUE) =
           Handler(a, Append(L, [start |-> 1, end |-> 2, region |-> r,
                                 scheme |-> Last(a).scheme, special |-> TRUE]), f)
  BY DEF AddRegion, Handler

LEMMA AddPlainIs ==
  ASSUME NEW a, NEW L, NEW f, NEW r
  PROVE  AddRegion(Handler(a, L, f), 1, 2, r, FALSE) =
           Handler(a, Append(L, [start |-> 1, end |-> 2, region |-> r,
                                 scheme |-> Last(a).scheme, special |-> FALSE]), f)
  BY DEF AddRegion, Handler

(* A line of the model has one token at most.                              *)
LEMMA OpeningLine ==
  ASSUME NEW a \in Seq(Entries), NEW x \in Regions, ~IsToken(x)
  PROVE  HasToken(AddRegion(EnterBlock(Handler(a, <<x>>, 1), 1), 1, 2, "PairStart", TRUE).line, "PairStart")
  <1> DEFINE entry == [region |-> "block", scheme |-> Len(a)]
             b == Append(a, entry)
             t == [start |-> 1, end |-> 2, region |-> "PairStart", scheme |-> Last(b).scheme, special |-> TRUE]
  <1>1. entry \in Entries /\ (entry.region = NoRegion \/ entry.region = "block")
    BY DEF Entries, Names
  <1>2. EnterBlock(Handler(a, <<x>>, 1), 1)
          = IF "block" = NoRegion THEN Handler(b, <<x>>, 1) ELSE Switch(Handler(b, <<x>>, 1), entry, 1)
    BY EnterIs, LineOf DEF EnterBlock
  <1> HIDE DEF entry
  <1>3. b \in Seq(Entries) /\ b # <<>>
    <2>1. Len(b) = Len(a) + 1 /\ Len(a) \in Nat /\ b \in Seq(Entries)
      BY <1>1
    <2> QED
      BY <2>1
  <1> HIDE DEF b
  <1>4. Switch(Handler(b, <<x>>, 1), entry, 1) = Handler(b, <<[x EXCEPT !.end = 1], Flow(entry, 1)>>, 2)
    BY SwitchOne
  <1>5. PICK M, f : EnterBlock(Handler(a, <<x>>, 1), 1) = Handler(b, M, f) /\ NoToken(M)
    <2>1. NoToken(<<x>>)
      BY NoTokenOne
    <2>2. NoToken(<<[x EXCEPT !.end = 1], Flow(entry, 1)>>)
      BY <1>1, CutPlain, FlowPlain, NoTokenTwo
    <2> QED
      BY <1>2, <1>4, <2>1, <2>2
  <1>6. t \in Regions /\ t.region = "PairStart"
    <2>1. Last(b) \in Entries
      BY <1>3, LastEntry
    <2>2. Last(b).scheme \in Nat
      BY <2>1 DEF Entries
    <2> QED
      BY <2>2 DEF Regions, Names
  <1>7. AddRegion(Handler(b, M, f), 1, 2, "PairStart", TRUE) = Handler(b, Append(M, t), f)
    BY AddSpecialIs
  <1> HIDE DEF t
  <1>8. HasToken(Append(M, t), "PairStart")
    BY <1>5, <1>6, TokenAfter
  <1>9. HasToken(Handler(b, Append(M, t), f).line, "PairStart")
    BY <1>8, LineOf
  <1> QED
    BY <1>5, <1>7, <1>9

LEMMA ClosingLine ==
  ASSUME NEW a \in Seq(Entries), a # <<>>, NEW x \in Regions, ~IsToken(x), NEW e \in Entries,
         e = Last(Front(a)), e.region = NoRegion \/ e.region = "block"
  PROVE  HasToken(LeaveScheme(AddRegion(Handler(a, <<x>>, 1), 1, 2, "PairEnd", TRUE), 2).line, "PairEnd")
  <1> DEFINE t == [start |-> 1, end |-> 2, region |-> "PairEnd", scheme |-> Last(a).scheme, special |-> TRUE]
             y == [x EXCEPT !.end = 2]
             z == Flow(e, 2)
             b == Front(a)
  <1>1. AddRegion(Handler(a, <<x>>, 1), 1, 2, "PairEnd", TRUE) = Handler(a, Append(<<x>>, t), 1)
    BY AddSpecialIs, ZenonT(60)
  <1>2. t \in Regions /\ t.region = "PairEnd"
    <2>1. Last(a) \in Entries
      BY LastEntry
    <2>2. Last(a).scheme \in Nat
      BY <2>1 DEF Entries
    <2> QED
      BY <2>2 DEF Regions, Names
  <1> HIDE DEF t
  <1>3. Append(<<x>>, t) = <<x, t>>
    BY AppendOne
  <1>4. LeaveScheme(Handler(a, <<x, t>>, 1), 2)
          = IF Last(a).region = NoRegion THEN Handler(b, <<x, t>>, 1)
            ELSE Switch(Handler(b, <<x, t>>, 1), e, 2)
    BY LeaveIs
  <1>5. Switch(Handler(b, <<x, t>>, 1), e, 2) = Handler(b, <<y, t, z>>, 3)
    BY SwitchTwo
  <1>6. HasToken(<<x, t>>, "PairEnd")
    BY <1>2, <1>3, NoTokenOne, TokenAfter
  <1>7. HasToken(<<y, t, z>>, "PairEnd")
    <2>1. y \in Regions /\ ~IsToken(y)
      <3>1. \A s \in Int : [x EXCEPT !.end = s] \in Regions /\ ~IsToken([x EXCEPT !.end = s])
        BY CutPlain
      <3> QED
        BY <3>1, SMTT(30)
    <2>2. z \in Regions /\ ~IsToken(z)
      BY FlowPlain
    <2> HIDE DEF y, z
    <2> QED
      BY <1>2, <2>1, <2>2, TokenAmid
  <1> HIDE DEF y, z, b
  <1>8. AddRegion(Handler(a, <<x>>, 1), 1, 2, "PairEnd", TRUE) = Handler(a, <<x, t>>, 1)
    BY <1>1, <1>3
  <1>9. \/ LeaveScheme(Handler(a, <<x, t>>, 1), 2) = Handler(b, <<x, t>>, 1)
        \/ LeaveScheme(Handler(a, <<x, t>>, 1), 2) = Handler(b, <<y, t, z>>, 3)
    BY <1>4, <1>5
  <1>10. HasToken(LeaveScheme(Handler(a, <<x, t>>, 1), 2).line, "PairEnd")
    BY <1>6, <1>7, <1>9, LineOf
  <1> QED
    BY <1>8, <1>10

LEMMA ItemLine ==
  ASSUME NEW a \in Seq(Entries), a # <<>>, NEW x \in Regions, ~IsToken(x)
  PROVE  NoToken(AddRegion(Handler(a, <<x>>, 1), 1, 2, "Outlined", FALSE).line)
  <1> DEFINE t == [start |-> 1, end |-> 2, region |-> "Outlined", scheme |-> Last(a).scheme, special |-> FALSE]
  <1>1. AddRegion(Handler(a, <<x>>, 1), 1, 2, "Outlined", FALSE) = Handler(a, Append(<<x>>, t), 1)
    BY AddPlainIs
  <1>2. t \in Regions /\ ~IsToken(t)
    <2>1. Last(a) \in Entries
      BY LastEntry
    <2>2. Last(a).scheme \in Nat
      BY <2>1 DEF Entries
    <2> QED
      BY <2>2 DEF Regions, Names, IsToken
  <1> HIDE DEF t
  <1>3. Append(<<x>>, t) = <<x, t>> /\ NoToken(<<x, t>>)
    BY <1>2, AppendOne, NoTokenTwo
  <1>4. NoToken(Handler(a, <<x, t>>, 1).line)
    BY <1>3, LineOf
  <1> QED
    BY <1>1, <1>3, <1>4

LEMMA PairsInside ==
  ASSUME NEW d \in Levels, NEW kind \in Kinds
  PROVE  /\ Opens(kind, d) => \E r : r.region = "PairStart" /\ PairsOf(Inside(d, kind)) = <<r>>
         /\ Closes(kind, d) => \E r : r.region = "PairEnd" /\ PairsOf(Inside(d, kind)) = <<r>>
         /\ ~Opens(kind, d) /\ ~Closes(kind, d) => PairsOf(Inside(d, kind)) = <<>>
  <1> DEFINE a == Stack(d)
             x == Flow(Level(d + 1), 0)
             L == Inside(d, kind)
  <1>1. d \in Nat /\ d + 1 \in Nat \ {0}
    BY EditorAssumption DEF Levels
  <1>2. a \in Seq(Entries) /\ Len(a) = d + 1 /\ Last(a) = Level(d + 1) /\ a # <<>>
    BY <1>1, StackIs
  <1>3. ClearLine(OpenBlocks(d)) = Handler(a, <<x>>, 1)
    BY <1>1, <1>2, OpenBlocksIs, ClearLineIs
  <1>4. x \in Regions /\ ~IsToken(x)
    BY <1>1, LevelIs, FlowPlain
  <1>5. L # Null /\ L = Painted(Handler(a, <<x>>, 1), kind).line
    BY <1>3, NullAssumption DEF Inside
  <1>6. Len(Handler(a, <<x>>, 1).stack) - 1 = d
    BY <1>1, <1>2, LineOf
  <1> HIDE DEF L, x
  <1>7. ASSUME Opens(kind, d)
        PROVE  \E r : r.region = "PairStart" /\ PairsOf(L) = <<r>>
    <2>1. L = AddRegion(EnterBlock(Handler(a, <<x>>, 1), 1), 1, 2, "PairStart", TRUE).line
      BY <1>5, <1>6, <1>7 DEF Painted
    <2> QED
      BY <1>2, <1>4, <1>5, <2>1, OpeningLine, TokenPairs
  <1>8. ASSUME Closes(kind, d)
        PROVE  \E r : r.region = "PairEnd" /\ PairsOf(L) = <<r>>
    <2>1. ~Opens(kind, d) /\ d > 0
      BY <1>8 DEF Opens, Closes
    <2>2. L = LeaveScheme(AddRegion(Handler(a, <<x>>, 1), 1, 2, "PairEnd", TRUE), 2).line
      BY <1>5, <1>6, <1>8, <2>1 DEF Painted
    <2>3. Last(Front(a)) \in Entries /\ (Last(Front(a)).region = NoRegion \/ Last(Front(a)).region = "block")
      <3>1. /\ Front(a) \in Seq(Entries) /\ Len(Front(a)) = d
            /\ \A i \in 1 .. d : Front(a)[i] = a[i]
        BY <1>1, <1>2, <2>1 DEF Front
      <3>2. Last(Front(a)) = a[d] /\ a[d] \in Entries
        BY <1>1, <1>2, <2>1, <3>1 DEF Last
      <3>3. a[d] = IF d = 1 THEN Background ELSE [region |-> "block", scheme |-> d - 1]
        BY <1>1, <2>1 DEF Stack
      <3> QED
        BY <3>2, <3>3 DEF Background
    <2> HIDE DEF a
    <2> QED
      BY <1>2, <1>4, <1>5, <2>2, <2>3, ClosingLine, TokenPairs
  <1>9. ASSUME ~Opens(kind, d), ~Closes(kind, d)
        PROVE  PairsOf(L) = <<>>
    <2>1. L = (IF kind = "item" THEN AddRegion(Handler(a, <<x>>, 1), 1, 2, "Outlined", FALSE)
               ELSE Handler(a, <<x>>, 1)).line
      BY <1>5, <1>6, <1>9 DEF Painted
    <2> HIDE DEF a
    <2>2. NoToken(AddRegion(Handler(a, <<x>>, 1), 1, 2, "Outlined", FALSE).line)
      BY <1>2, <1>4, ItemLine
    <2>3. NoToken(Handler(a, <<x>>, 1).line)
      BY <1>4, NoTokenOne, LineOf
    <2>4. NoToken(L)
      BY <2>1, <2>2, <2>3
    <2> QED
      BY <1>5, <2>4, PairsNone DEF NoToken
  <1> QED
    BY <1>7, <1>8, <1>9 DEF L


-----------------------------------------------------------------------------
(* The pair under the cursor. *)

(* What a token of a line adds to the balance of the search.               *)
LEMMA WeighNone ==
  ASSUME NEW bal \in Int
  PROVE  Weigh(bal, <<>>) = bal
  <1> DEFINE line == <<>>
             S == {i \in DOMAIN line : line[i].region = "PairStart"}
             T == {i \in DOMAIN line : line[i].region = "PairEnd"}
  <1>1. S = {} /\ T = {}
    OBVIOUS
  <1>2. Weigh(bal, line) = bal + Cardinality(S) - Cardinality(T)
    BY DEF Weigh
  <1> HIDE DEF S, T, line
  <1>3. Weigh(bal, line) = bal
    BY <1>1, <1>2, FS_EmptySet
  <1> QED
    BY <1>3 DEF line

LEMMA WeighOne ==
  ASSUME NEW bal \in Int, NEW r, r.region = "PairStart" \/ r.region = "PairEnd"
  PROVE  Weigh(bal, <<r>>) = IF r.region = "PairStart" THEN bal + 1 ELSE bal - 1
  <1> DEFINE line == <<r>>
             S == {i \in DOMAIN line : line[i].region = "PairStart"}
             T == {i \in DOMAIN line : line[i].region = "PairEnd"}
  <1>1. DOMAIN line = {1} /\ line[1] = r
    OBVIOUS
  <1>2. Weigh(bal, line) = bal + Cardinality(S) - Cardinality(T)
    BY DEF Weigh
  <1>3. Cardinality({}) = 0 /\ Cardinality({1}) = 1
    BY FS_EmptySet, FS_Singleton
  <1> HIDE DEF line
  <1>4. CASE r.region = "PairStart"
    <2>1. S = {1} /\ T = {}
      BY <1>1, <1>4
    <2> HIDE DEF S, T
    <2>2. Weigh(bal, line) = bal + 1
      BY <1>2, <1>3, <2>1
    <2> QED
      BY <1>4, <2>2 DEF line
  <1>5. CASE r.region = "PairEnd"
    <2>1. S = {} /\ T = {1}
      BY <1>1, <1>5
    <2> HIDE DEF S, T
    <2>2. Weigh(bal, line) = bal - 1
      BY <1>2, <1>3, <2>1
    <2> QED
      BY <1>5, <2>2 DEF line
  <1> QED
    BY <1>4, <1>5

(* The line adds what it does to the depth.                                *)
LEMMA WeighLine ==
  ASSUME NEW d \in Levels, NEW kind \in Kinds, NEW bal \in Int
  PROVE  Weigh(bal, PairsOf(Inside(d, kind))) = bal + (DepthAfter(kind, d) - d)
  <1> DEFINE line == PairsOf(Inside(d, kind))
  <1>1. d \in Nat
    BY EditorAssumption DEF Levels
  <1>2. /\ Opens(kind, d) => \E r : r.region = "PairStart" /\ line = <<r>>
        /\ Closes(kind, d) => \E r : r.region = "PairEnd" /\ line = <<r>>
        /\ ~Opens(kind, d) /\ ~Closes(kind, d) => line = <<>>
    BY PairsInside
  <1> HIDE DEF line
  <1>3. CASE Opens(kind, d)
    <2>1. PICK r : r.region = "PairStart" /\ line = <<r>>
      BY <1>2, <1>3
    <2>2. Weigh(bal, line) = bal + 1
      BY <2>1, WeighOne
    <2>3. DepthAfter(kind, d) = d + 1
      BY <1>3 DEF DepthAfter
    <2> QED
      BY <1>1, <2>2, <2>3 DEF line
  <1>4. CASE Closes(kind, d)
    <2>1. PICK r : r.region = "PairEnd" /\ line = <<r>>
      BY <1>2, <1>4
    <2>2. Weigh(bal, line) = bal - 1
      BY <2>1, WeighOne
    <2>3. DepthAfter(kind, d) = d - 1
      BY <1>4 DEF DepthAfter, Opens, Closes
    <2> QED
      BY <1>1, <2>2, <2>3 DEF line
  <1>5. CASE ~Opens(kind, d) /\ ~Closes(kind, d)
    <2>1. Weigh(bal, line) = bal
      BY <1>2, <1>5, WeighNone
    <2>2. DepthAfter(kind, d) = d
      BY <1>5 DEF DepthAfter
    <2> QED
      BY <1>1, <2>1, <2>2 DEF line
  <1> QED
    BY <1>3, <1>4, <1>5

(* A search has come from line to n, over lines that are all inside the    *)
(* block, and the balance is how deep in it the end of n is (the start of  *)
(* n, on the way up).                                                      *)
Depth(f, t) ==
  /\ Len(t) \in Nat
  /\ \A l \in 0 .. Len(t) : f[l] \in Nat
  /\ \A l \in 0 .. Len(t) - 1 : f[l + 1] = DepthAfter(t[l + 1], f[l])

DownTo(f, t, line, n, bal) ==
  /\ line <= n /\ Opens(t[line + 1], f[line])
  /\ bal = f[n + 1] - f[line] /\ bal >= 0
  /\ \A k \in line + 1 .. n : f[k] > f[line]

UpTo(f, t, line, n, bal) ==
  /\ n <= line /\ Closes(t[line + 1], f[line])
  /\ bal = f[line + 1] - f[n] /\ bal <= 0
  /\ \A k \in n + 1 .. line : f[k] > f[line + 1]

LEMMA DepthOfText ==
  ASSUME text \in Seq(Kinds)
  PROVE  Depth(Depths(text), text)
  <1> DEFINE f == Depths(text)
  <1>1. Follows(f, text, 0, Len(text)) /\ Len(text) \in Nat
    BY DepthsFollow
  <1>2. \A l \in 0 .. Len(text) : f[l] \in Nat
    BY DepthsInLevels, EditorAssumption DEF Levels
  <1> HIDE DEF f
  <1>3. ASSUME NEW l \in 0 .. Len(text) - 1 PROVE f[l + 1] = DepthAfter(text[l + 1], f[l])
    <2>1. l + 1 \in 0 + 1 .. Len(text) /\ (l + 1) - 1 = l
      BY <1>1
    <2> QED
      BY <1>1, <2>1 DEF Follows
  <1> QED
    BY <1>1, <1>2, <1>3 DEF Depth, f

(* A line changes the depth by one at most, and that is what it is.        *)
LEMMA DepthStep ==
  ASSUME NEW f, NEW t, Depth(f, t), NEW l \in Nat, l < Len(t)
  PROVE  /\ f[l] \in Nat /\ f[l + 1] \in Nat /\ f[l + 1] = DepthAfter(t[l + 1], f[l])
         /\ f[l + 1] <= f[l] + 1 /\ f[l] <= f[l + 1] + 1
         /\ f[l + 1] > f[l] <=> Opens(t[l + 1], f[l])
         /\ f[l + 1] < f[l] <=> Closes(t[l + 1], f[l])
         /\ ~(Opens(t[l + 1], f[l]) /\ Closes(t[l + 1], f[l]))
  <1>1. l \in 0 .. Len(t) /\ l + 1 \in 0 .. Len(t) /\ l \in 0 .. Len(t) - 1
    BY DEF Depth
  <1>2. f[l] \in Nat /\ f[l + 1] \in Nat /\ f[l + 1] = DepthAfter(t[l + 1], f[l])
    BY <1>1 DEF Depth
  <1>3. ~(Opens(t[l + 1], f[l]) /\ Closes(t[l + 1], f[l]))
    BY DEF Opens, Closes
  <1>4. f[l + 1] = IF Opens(t[l + 1], f[l]) THEN f[l] + 1
                   ELSE IF Closes(t[l + 1], f[l]) THEN f[l] - 1 ELSE f[l]
    BY <1>2 DEF DepthAfter
  <1> QED
    BY <1>2, <1>3, <1>4

LEMMA DownBegins ==
  ASSUME NEW f, NEW t, Depth(f, t), NEW line \in Nat, line < Len(t), Opens(t[line + 1], f[line])
  PROVE  DownTo(f, t, line, line, 1)
  <1>1. f[line] \in Nat /\ f[line + 1] = f[line] + 1
    BY DepthStep DEF DepthAfter
  <1> QED
    BY <1>1 DEF DownTo

LEMMA UpBegins ==
  ASSUME NEW f, NEW t, Depth(f, t), NEW line \in Nat, line < Len(t), Closes(t[line + 1], f[line])
  PROVE  UpTo(f, t, line, line, -1)
  <1>1. f[line] \in Nat /\ f[line + 1] \in Nat /\ f[line + 1] < f[line] /\ f[line] <= f[line + 1] + 1
    BY DepthStep
  <1> QED
    BY <1>1 DEF UpTo

LEMMA DownOn ==
  ASSUME NEW f, NEW t, Depth(f, t), NEW line \in Nat, NEW n \in Nat, NEW bal,
         DownTo(f, t, line, n, bal), bal # 0, n + 1 < Len(t)
  PROVE  DownTo(f, t, line, n + 1, bal + (f[n + 2] - f[n + 1]))
  <1>1. line <= n /\ bal = f[n + 1] - f[line] /\ bal >= 0
    BY DEF DownTo
  <1>2. line < Len(t) /\ line \in Nat /\ n + 1 \in Nat /\ (n + 1) + 1 = n + 2
    BY <1>1 DEF Depth
  <1>3. f[line] \in Nat /\ f[n + 1] \in Nat /\ f[n + 2] \in Nat /\ f[n + 1] <= f[n + 2] + 1
    BY <1>2, DepthStep
  <1>4. f[n + 1] > f[line]
    BY <1>1, <1>3
  <1>5. \A k \in line + 1 .. n + 1 : f[k] > f[line]
    <2> TAKE k \in line + 1 .. n + 1
    <2>1. k \in line + 1 .. n \/ k = n + 1
      OBVIOUS
    <2> QED
      BY <1>4, <2>1 DEF DownTo
  <1>6. bal + (f[n + 2] - f[n + 1]) = f[n + 2] - f[line] /\ f[n + 2] - f[line] >= 0
    BY <1>1, <1>3, <1>4
  <1> QED
    BY <1>1, <1>2, <1>5, <1>6 DEF DownTo

LEMMA UpOn ==
  ASSUME NEW f, NEW t, Depth(f, t), NEW line \in Nat, NEW n \in Nat, NEW bal,
         UpTo(f, t, line, n, bal), bal # 0, n > 0, line < Len(t)
  PROVE  UpTo(f, t, line, n - 1, bal + (f[n] - f[n - 1]))
  <1>1. n <= line /\ bal = f[line + 1] - f[n] /\ bal <= 0
    BY DEF UpTo
  <1>2. n - 1 \in Nat /\ n - 1 < Len(t) /\ (n - 1) + 1 = n
    BY <1>1 DEF Depth
  <1>3. f[line + 1] \in Nat /\ f[n] \in Nat /\ f[n - 1] \in Nat /\ f[n] <= f[n - 1] + 1
    BY <1>2, DepthStep
  <1>4. f[n] > f[line + 1]
    BY <1>1, <1>3
  <1>5. \A k \in (n - 1) + 1 .. line : f[k] > f[line + 1]
    <2> TAKE k \in (n - 1) + 1 .. line
    <2>1. k \in n + 1 .. line \/ k = n
      OBVIOUS
    <2> QED
      BY <1>4, <2>1 DEF UpTo
  <1>6. bal + (f[n] - f[n - 1]) = f[line + 1] - f[n - 1] /\ f[line + 1] - f[n - 1] <= 0
    BY <1>1, <1>3, <1>4
  <1> QED
    BY <1>1, <1>2, <1>5, <1>6 DEF UpTo

(* A search that has come to a balance has found the mate; one that has    *)
(* not, has passed none.                                                   *)
LEMMA MatesIn ==
  ASSUME NEW l \in Nat, NEW m \in Nat
  PROVE  Mates(l, m) <=>
           /\ l < m /\ Opens(text[l + 1], Depths(text)[l]) /\ Closes(text[m + 1], Depths(text)[m])
           /\ Depths(text)[m + 1] = Depths(text)[l]
           /\ \A n \in l + 1 .. m : Depths(text)[n] > Depths(text)[l]
  BY TrueDepthIs DEF Mates, IsOpen, IsClose, Kind

LEMMA DownFound ==
  ASSUME text \in Seq(Kinds), NEW line \in Nat, NEW n \in Nat, line # n, n < Len(text),
         DownTo(Depths(text), text, line, n, 0)
  PROVE  MateOf(line, n)
  <1> DEFINE f == Depths(text)
  <1>1. /\ line <= n /\ Opens(text[line + 1], f[line]) /\ 0 = f[n + 1] - f[line]
        /\ \A k \in line + 1 .. n : f[k] > f[line]
    BY DEF DownTo
  <1>2. Depth(f, text) /\ Len(text) \in Nat
    BY DepthOfText
  <1> HIDE DEF f
  <1>3. line < n /\ line < Len(text)
    BY <1>1, <1>2
  <1>4. f[line] \in Nat /\ f[n] \in Nat /\ f[n + 1] \in Nat
    BY <1>2, <1>3, DepthStep
  <1>5. f[n + 1] = f[line] /\ f[n] > f[line]
    BY <1>1, <1>3, <1>4
  <1>6. Closes(text[n + 1], f[n])
    BY <1>2, <1>5, DepthStep
  <1>7. Mates(line, n)
    BY <1>1, <1>3, <1>5, <1>6, MatesIn DEF f
  <1> QED
    BY <1>2, <1>3, <1>7 DEF MateOf, InText

LEMMA UpFound ==
  ASSUME text \in Seq(Kinds), NEW line \in Nat, NEW n \in Nat, line # n, line < Len(text),
         UpTo(Depths(text), text, line, n, 0)
  PROVE  MateOf(line, n)
  <1> DEFINE f == Depths(text)
  <1>1. /\ n <= line /\ Closes(text[line + 1], f[line]) /\ 0 = f[line + 1] - f[n]
        /\ \A k \in n + 1 .. line : f[k] > f[line + 1]
    BY DEF UpTo
  <1>2. Depth(f, text) /\ Len(text) \in Nat
    BY DepthOfText
  <1> HIDE DEF f
  <1>3. n < line /\ n < Len(text)
    BY <1>1, <1>2
  <1>4. f[line + 1] \in Nat /\ f[n] \in Nat /\ f[n + 1] \in Nat
    BY <1>2, <1>3, DepthStep
  <1>5. f[line + 1] = f[n] /\ f[n + 1] > f[n]
    BY <1>1, <1>3, <1>4
  <1>6. Opens(text[n + 1], f[n])
    BY <1>2, <1>3, <1>5, DepthStep
  <1>7. Mates(n, line)
    BY <1>1, <1>3, <1>5, <1>6, MatesIn DEF f
  <1> QED
    BY <1>2, <1>3, <1>7 DEF MateOf, InText

LEMMA DownMissed ==
  ASSUME text \in Seq(Kinds), NEW line \in Nat, NEW n \in Nat, n < Len(text), NEW bal, bal # 0,
         DownTo(Depths(text), text, line, n, bal), NEW m \in Nat, m <= n
  PROVE  ~MateOf(line, m)
  <1> DEFINE f == Depths(text)
  <1>1. /\ line <= n /\ Opens(text[line + 1], f[line]) /\ bal = f[n + 1] - f[line]
        /\ \A k \in line + 1 .. n : f[k] > f[line]
    BY DEF DownTo
  <1>2. Depth(f, text) /\ Len(text) \in Nat
    BY DepthOfText
  <1> HIDE DEF f
  <1>3. f[line] \in Nat /\ f[n + 1] \in Nat /\ ~Closes(text[line + 1], f[line])
    BY <1>1, <1>2, DepthStep
  <1>4. ~Mates(m, line)
    BY <1>3, MatesIn DEF f
  <1>5. ASSUME Mates(line, m) PROVE FALSE
    <2>1. line < m /\ f[m + 1] = f[line]
      BY <1>5, MatesIn DEF f
    <2>2. CASE m = n
      BY <1>1, <1>3, <2>1, <2>2
    <2>3. CASE m # n
      <3>1. m + 1 \in line + 1 .. n
        BY <2>1, <2>3
      <3>2. f[m + 1] > f[line]
        BY <1>1, <3>1
      <3> QED
        BY <1>3, <2>1, <3>2
    <2> QED
      BY <2>2, <2>3
  <1> QED
    BY <1>4, <1>5 DEF MateOf

LEMMA UpMissed ==
  ASSUME text \in Seq(Kinds), NEW line \in Nat, NEW n \in Nat, line < Len(text), NEW bal, bal # 0,
         UpTo(Depths(text), text, line, n, bal), NEW m \in Nat, n <= m
  PROVE  ~MateOf(line, m)
  <1> DEFINE f == Depths(text)
  <1>1. /\ n <= line /\ Closes(text[line + 1], f[line]) /\ bal = f[line + 1] - f[n]
        /\ \A k \in n + 1 .. line : f[k] > f[line + 1]
    BY DEF UpTo
  <1>2. Depth(f, text) /\ Len(text) \in Nat
    BY DepthOfText
  <1> HIDE DEF f
  <1>3. n < Len(text)
    BY <1>1, <1>2
  <1>4. f[line + 1] \in Nat /\ f[n] \in Nat /\ ~Opens(text[line + 1], f[line])
    BY <1>1, <1>2, <1>3, DepthStep
  <1>5. ~Mates(line, m)
    BY <1>4, MatesIn DEF f
  <1>6. ASSUME Mates(m, line) PROVE FALSE
    <2>1. m < line /\ f[line + 1] = f[m]
      BY <1>6, MatesIn DEF f
    <2>2. CASE m = n
      BY <1>1, <1>4, <2>1, <2>2
    <2>3. CASE m # n
      <3>1. m \in n + 1 .. line
        BY <2>1, <2>3
      <3>2. f[m] > f[line + 1]
        BY <1>1, <3>1
      <3> QED
        BY <1>4, <2>1, <3>2
    <2> QED
      BY <2>2, <2>3
  <1> QED
    BY <1>5, <1>6 DEF MateOf


(* All lines of the window are in the ring and valid.                      *)
Sighted == Covered /\ \A k \in Nat : k < wStart + wSize /\ k < Len(text) => k < invalidLine

(* Something is on the screen when the pair is looked for.                 *)
PairInv == pc = "pair" => shown # <<>>

Looking == (pc = "search" \/ pc = "found") /\ search.goal = "draw"

(* Where the search for the pair to be drawn has got.                      *)
Searched(T, t) ==
  LET s == search IN
  /\ s.lo = wStart /\ s.hi = MinOf(wStart + wSize, Len(t)) - 1
  /\ s.lo <= s.line /\ s.line <= s.hi /\ s.lo <= s.lno /\ s.lno <= s.hi
  /\ s.bal \in Int
  /\ IF s.down THEN DownTo(T, t, s.line, s.lno, s.bal) ELSE UpTo(T, t, s.line, s.lno, s.bal)
  /\ pc = "search" => s.eline = -1 /\ s.bal # 0
  /\ pc = "found" => IF s.eline = -1 THEN s.bal # 0 /\ s.lno = (IF s.down THEN s.hi ELSE s.lo)
                     ELSE s.bal = 0 /\ s.eline = s.lno /\ s.lno # s.line

SearchInv == ~stretched /\ Looking => Sighted /\ Searched(Depths(text), text)

(* The inductive invariant.                                                *)
PairsInv == FreshInv /\ InWindow /\ PairInv /\ SearchInv

(* A line of a window that is covered is answered as it is in the text.    *)
LEMMA InSight ==
  ASSUME KnownInv, RingInv, ~stretched, pc # "open", text' = text, Covered,
         NEW lno \in Nat, wStart <= lno, lno < wStart + wSize, lno < Len(text),
         ~TooFar(lno), Request(lno)
  PROVE  /\ Sighted' /\ UNCHANGED <<wStart, wSize>>
         /\ Answer(lno) # Null
         /\ PairsOf(Answer(lno)) = PairsOf(Inside(Depths(text)[lno], text[lno + 1]))
  <1>1. /\ Types /\ lineCount = Len(text) /\ Knows(starts, invalidLine, text)
        /\ DOMAIN slots = 0 .. lrSize - 1
        /\ Fresh(slots, firstLine, lrSize, cover, invalidLine, text)
    BY DEF KnownInv, LinesCounted, RingInv
  <1>2. ValidateRegions(lno)
    BY DEF Request
  <1>3. /\ wStart' = wStart /\ wSize' = wSize
        /\ lrSize' >= cover /\ firstLine' <= wStart /\ wStart + wSize <= firstLine' + cover
        /\ CheckLine(firstLine', lrSize', lno) /\ Right(slots'[lno % lrSize'], text, lno)
        /\ \A k \in Nat : k < wStart + wSize /\ k < Len(text) => k < invalidLine'
    BY <1>1, <1>2, PaintDirect
  <1>4. cover' = cover
    BY <1>3, CoverSame
  <1>5. Sighted'
    BY <1>3, <1>4 DEF Sighted, Covered
  <1>6. firstLine' \in Nat /\ lrSize' \in Nat \ {0}
    BY <1>1, <1>2, PaintKnows DEF EngineTypes
  <1>7. LineIndex(firstLine', lrSize', lno) = lno % lrSize'
    BY <1>3, <1>6, LineIndexIs DEF CheckLine
  <1>8. Answer(lno) = slots'[lno % lrSize']
    BY <1>3, <1>7 DEF Answer, GetLineRegions
  <1> QED
    BY <1>3, <1>5, <1>8 DEF Right, Alike

(* What a step is to the search for the pair to be drawn.                  *)
Seeks ==
  \/ SearchStep
  \/ pc = "pair" /\ BeginSearch("draw")
  \/ ~Looking'
  \/ UNCHANGED vars

LEMMA OtherGoal ==
  ASSUME NEW goal, goal # "draw", BeginSearch(goal)
  PROVE  ~Looking'
  <1>1. CASE PairsOf(Answer(cursor)) = <<>>
    BY <1>1 DEF BeginSearch, Looking
  <1>2. CASE PairsOf(Answer(cursor)) # <<>>
    <2>1. search'.goal = goal
      BY <1>2 DEF BeginSearch
    <2> QED
      BY <2>1 DEF Looking
  <1> QED
    BY <1>1, <1>2

LEMMA DrawsOnly ==
  ASSUME NEW change, StartDrawing(change)
  PROVE  ~Looking'
  BY DEF StartDrawing, Looking

LEMMA StepSeeks ==
  ASSUME [Next]_vars
  PROVE  Seeks
  <1>1. CASE Open
    BY <1>1, DrawsOnly DEF Open, BeginRedraw, Seeks
  <1>2. CASE DrawLine
    BY <1>2 DEF DrawLine, Seeks, Looking
  <1>3. CASE DrawPair
    <2>1. CASE BeginSearch("draw")
      BY <1>3, <2>1 DEF DrawPair, Seeks
    <2>2. CASE pc' = redrawn
      BY <2>2 DEF redrawn, Seeks, Looking
    <2> QED
      BY <1>3, <2>1, <2>2 DEF DrawPair
  <1>4. CASE SearchStep
    BY <1>4 DEF Seeks
  <1>5. CASE EndSearch
    <2>1. CASE pc' = IF search.goal = "draw" THEN redrawn ELSE "menu"
      BY <2>1 DEF redrawn, Seeks, Looking
    <2>2. CASE BeginRedraw(FALSE)
      BY <2>2, DrawsOnly DEF BeginRedraw, Seeks
    <2>3. CASE pc' = "menu"
      BY <2>3 DEF Seeks, Looking
    <2> QED
      BY <1>5, <2>1, <2>2, <2>3 DEF EndSearch
  <1>6. CASE EndLocate
    <2>1. CASE BeginRedraw(FALSE)
      BY <2>1, DrawsOnly DEF BeginRedraw, Seeks
    <2>2. CASE pc' = "menu"
      BY <2>2 DEF Seeks, Looking
    <2> QED
      BY <1>6, <2>1, <2>2 DEF EndLocate
  <1>7. CASE ChooseFunction \/ LeaveList \/ CloseMenu
    <2>1. BeginRedraw(FALSE)
      BY <1>7 DEF ChooseFunction, LeaveList, CloseMenu
    <2> QED
      BY <2>1, DrawsOnly DEF BeginRedraw, Seeks
  <1>8. CASE \E b \in Budgets : IdleJob(b)
    BY <1>8 DEF IdleJob, Seeks, Looking
  <1>9. CASE EndIdle
    <2>1. CASE BeginRedraw(FALSE)
      BY <2>1, DrawsOnly DEF BeginRedraw, Seeks
    <2>2. CASE pc' = "idle"
      BY <2>2 DEF Seeks, Looking
    <2> QED
      BY <1>9, <2>1, <2>2 DEF EndIdle
  <1>10. CASE Idle
    BY <1>10 DEF Idle, Seeks, Looking
  <1>11. CASE \E t, c \in LineNos, h \in Heights, b \in {-1} \cup LineNos : View(t, h, c, b)
    <2>1. BeginRedraw(FALSE)
      BY <1>11 DEF View
    <2> QED
      BY <2>1, DrawsOnly DEF BeginRedraw, Seeks
  <1>12. CASE \E c \in LineNos, k \in Kinds : Replace(c, k) \/ Split(c, k)
    <2>1. BeginRedraw(TRUE)
      BY <1>12 DEF Replace, Split, Edited
    <2> QED
      BY <2>1, DrawsOnly DEF BeginRedraw, Seeks
  <1>13. CASE \E c \in LineNos : Join(c)
    <2>1. BeginRedraw(TRUE)
      BY <1>13 DEF Join, Edited
    <2> QED
      BY <2>1, DrawsOnly DEF BeginRedraw, Seeks
  <1>14. CASE \E k \in Kinds : EditBlock(k)
    <2>1. BeginRedraw(TRUE)
      BY <1>14 DEF EditBlock
    <2> QED
      BY <2>1, DrawsOnly DEF BeginRedraw, Seeks
  <1>15. CASE MatchPair \/ SelectPair
    BY <1>15, OtherGoal DEF MatchPair, SelectPair, Seeks
  <1>16. CASE SelectRegion \/ UpdateHighlighting \/ SetFileType \/ Remap
    <2>1. pc' = "menu"
      BY <1>16 DEF SelectRegion, UpdateHighlighting, SetFileType, Remap
    <2> QED
      BY <2>1 DEF Seeks, Looking
  <1>17. CASE LocateFunction
    BY <1>17 DEF LocateFunction, WholeText, Seeks, Looking
  <1>18. CASE ListFunctions
    <2>1. pc' = "menu" \/ pc' = "list"
      BY <1>18 DEF ListFunctions, WholeText
    <2> QED
      BY <2>1 DEF Seeks, Looking
  <1>19. CASE Browse
    BY <1>19, DrawsOnly DEF Browse, Seeks
  <1>20. CASE InsertName
    <2>1. BeginRedraw(TRUE)
      BY <1>20 DEF InsertName
    <2> QED
      BY <2>1, DrawsOnly DEF BeginRedraw, Seeks
  <1>21. CASE UNCHANGED vars
    BY <1>21 DEF Seeks
  <1> QED
    BY <1>1, <1>2, <1>3, <1>4, <1>5, <1>6, <1>7, <1>8, <1>9, <1>10, <1>11, <1>12, <1>13,
       <1>14, <1>15, <1>16, <1>17, <1>18, <1>19, <1>20, <1>21 DEF Next, Handle


LEMMA InitPairs == Init => PairsInv
  <1>1. ASSUME Init PROVE pc = "open"
    BY <1>1 DEF Init
  <1>2. ASSUME Init PROVE PairInv /\ SearchInv
    BY <1>1, <1>2 DEF PairInv, SearchInv, Looking
  <1> QED
    BY <1>2, InitFresh, InitWindow DEF PairsInv

(* The last line of the window has not been drawn before the first.        *)
LEMMA StepPair ==
  ASSUME Types, InWindow, PairInv, Looks
  PROVE  PairInv'
  <1>1. CASE Clears
    BY <1>1 DEF Clears, PairInv
  <1>2. CASE DrawLine
    <2>1. CASE pc' = "pair" /\ UNCHANGED shown /\ ~(Len(shown) < height /\ top + Len(shown) < Len(text))
      <3>1. top \in Nat /\ height \in Nat \ {0} /\ cursor \in Nat /\ Len(text) \in Nat
        BY DEF Types, HostTypes
      <3>2. top < Len(text)
        BY <3>1 DEF InWindow, Seen
      <3>3. Len(shown) # 0
        BY <2>1, <3>1, <3>2
      <3>4. shown # <<>>
        BY <3>3
      <3> QED
        BY <2>1, <3>4 DEF PairInv
    <2>2. CASE pc' = pc
      BY <1>2, <2>2 DEF DrawLine, PairInv
    <2> QED
      BY <1>2, <2>1, <2>2 DEF DrawLine
  <1>3. CASE Leaves
    BY <1>3 DEF Leaves, PairInv
  <1>4. CASE UNCHANGED vars
    BY <1>4 DEF PairInv, vars, event
  <1> QED
    BY <1>1, <1>2, <1>3, <1>4 DEF Looks

(* The search begins on a line of the window.                              *)
LEMMA SearchBegins ==
  ASSUME FreshInv, InWindow, PairInv, ~stretched, pc = "pair", BeginSearch("draw"), Looking'
  PROVE  Sighted' /\ Searched(Depths(text), text)'
  <1> DEFINE f == Depths(text)
             d == f[cursor]
             kind == text[cursor + 1]
             s == search'
  <1>1. /\ KnownInv /\ RingInv /\ Types /\ lineCount = Len(text) /\ wStart = top /\ wSize = height
        /\ Covered \/ TooFar(top)
    BY DEF FreshInv, KnownInv, LinesCounted, RingInv, DrawInv, Drawing, PairInv
  <1>2. /\ top \in Nat /\ height \in Nat \ {0} /\ cursor \in Nat /\ Len(text) \in Nat
        /\ invalidLine \in Int /\ backParse \in Int /\ text \in Seq(Kinds)
        /\ top <= cursor /\ cursor < top + height /\ cursor < Len(text)
    BY <1>1 DEF Types, HostTypes, EngineTypes, InWindow, Seen
  <1>3. text' = text
    BY DEF BeginSearch, host
  <1>4. PairsOf(Answer(cursor)) # <<>>
    BY DEF BeginSearch, Looking, redrawn
  <1>5. ~TooFar(cursor)
    BY <1>4 DEF Answer, PairsOf
  <1>6. Covered
    <2>1. TooFar(top) => TooFar(cursor)
      BY <1>2 DEF TooFar
    <2> QED
      BY <1>1, <1>5, <2>1
  <1>7. /\ Sighted' /\ UNCHANGED <<wStart, wSize>>
        /\ PairsOf(Answer(cursor)) = PairsOf(Inside(d, kind))
    <2>1. Request(cursor)
      BY DEF BeginSearch
    <2> QED
      BY <1>1, <1>2, <1>3, <1>5, <1>6, <2>1, InSight
  <1>8. d \in Levels /\ kind \in Kinds
    <2>1. cursor \in 0 .. Len(text) /\ cursor + 1 \in 1 .. Len(text)
      BY <1>2
    <2> QED
      BY <1>2, <2>1, DepthsInLevels
  <1>9. Depth(f, text)
    BY <1>2, DepthOfText
  <1>10. /\ s = [goal |-> "draw", line |-> cursor, lno |-> cursor,
                 bal |-> IF Last(PairsOf(Answer(cursor))).region = "PairStart" THEN 1 ELSE -1,
                 down |-> Last(PairsOf(Answer(cursor))).region = "PairStart",
                 lo |-> wStart, hi |-> getLastVisibleLine, eline |-> -1]
         /\ pc' = "search"
    BY <1>4 DEF BeginSearch
  <1> HIDE DEF f, d, kind
  <1>11. /\ Opens(kind, d) => s.down = TRUE /\ s.bal = 1
         /\ Closes(kind, d) => s.down = FALSE /\ s.bal = -1
         /\ Opens(kind, d) \/ Closes(kind, d)
    <2>1. \A r : Last(<<r>>) = r
      BY DEF Last
    <2>2. /\ s.down = (Last(PairsOf(Answer(cursor))).region = "PairStart")
          /\ s.bal = IF Last(PairsOf(Answer(cursor))).region = "PairStart" THEN 1 ELSE -1
      BY <1>10
    <2>3. CASE Opens(kind, d)
      <3>1. PICK r : r.region = "PairStart" /\ PairsOf(Answer(cursor)) = <<r>>
        BY <1>7, <1>8, <2>3, PairsInside
      <3>2. Last(PairsOf(Answer(cursor))).region = "PairStart"
        BY <2>1, <3>1
      <3>3. ~Closes(kind, d)
        BY <2>3 DEF Opens, Closes
      <3> QED
        BY <2>2, <2>3, <3>2, <3>3
    <2>4. CASE Closes(kind, d)
      <3>1. PICK r : r.region = "PairEnd" /\ PairsOf(Answer(cursor)) = <<r>>
        BY <1>7, <1>8, <2>4, PairsInside
      <3>2. Last(PairsOf(Answer(cursor))).region = "PairEnd"
        BY <2>1, <3>1
      <3>3. ~Opens(kind, d)
        BY <2>4 DEF Opens, Closes
      <3> QED
        BY <2>2, <2>4, <3>2, <3>3
    <2>5. CASE ~Opens(kind, d) /\ ~Closes(kind, d)
      BY <1>4, <1>7, <1>8, <2>5, PairsInside
    <2> QED
      BY <2>3, <2>4, <2>5
  <1>12. IF s.down THEN DownTo(f, text, cursor, cursor, s.bal) ELSE UpTo(f, text, cursor, cursor, s.bal)
    <2>1. CASE Opens(kind, d)
      <3>1. DownTo(f, text, cursor, cursor, 1)
        BY <1>2, <1>9, <2>1, DownBegins DEF d, kind
      <3> QED
        BY <1>11, <2>1, <3>1
    <2>2. CASE Closes(kind, d)
      <3>1. UpTo(f, text, cursor, cursor, -1)
        BY <1>2, <1>9, <2>2, UpBegins DEF d, kind
      <3> QED
        BY <1>11, <2>2, <3>1
    <2> QED
      BY <1>11, <2>1, <2>2
  <1>13. s.lo = wStart' /\ s.hi = MinOf(wStart' + wSize', Len(text)) - 1
         /\ s.line = cursor /\ s.lno = cursor /\ s.eline = -1
    BY <1>1, <1>7, <1>10 DEF getLastVisibleLine
  <1>14. s.lo <= cursor /\ cursor <= s.hi
    BY <1>1, <1>2, <1>7, <1>13 DEF MinOf
  <1>15. s.bal \in Int /\ s.bal # 0
    BY <1>11
  <1> QED
    BY <1>3, <1>7, <1>10, <1>12, <1>13, <1>14, <1>15 DEF Searched, f

(* It goes on in the window.                                               *)
Onto(s) == s.lno + (IF s.down THEN 1 ELSE -1)

LEMMA SearchGoesOn ==
  ASSUME FreshInv, SearchInv, ~stretched, SearchStep, Looking'
  PROVE  Sighted' /\ Searched(Depths(text), text)'
  <1> DEFINE f == Depths(text)
             s == search
             next == Onto(s)
             bal == Weigh(s.bal, PairsOf(Answer(next)))
  <1>1. /\ KnownInv /\ RingInv /\ Types /\ lineCount = Len(text)
        /\ pc = "search" /\ pc # "open" /\ text' = text
    BY DEF FreshInv, KnownInv, LinesCounted, SearchStep, host
  <1>2. PICK B : s \in Searching(B)
    BY <1>1 DEF Types, HostTypes
  <1>3. s.goal = "draw"
    <2>1. search'.goal = s.goal
      BY <1>2 DEF SearchStep, Searching
    <2> QED
      BY <2>1 DEF Looking
  <1>4. /\ Sighted /\ s.lo = wStart /\ s.hi = MinOf(wStart + wSize, Len(text)) - 1
        /\ s.lo <= s.line /\ s.line <= s.hi /\ s.lo <= s.lno /\ s.lno <= s.hi
        /\ s.bal \in Int /\ s.bal # 0 /\ s.eline = -1
        /\ IF s.down THEN DownTo(f, text, s.line, s.lno, s.bal) ELSE UpTo(f, text, s.line, s.lno, s.bal)
    BY <1>1, <1>3 DEF SearchInv, Looking, Searched
  <1>5. /\ wStart \in Nat /\ wSize \in Nat \ {0} /\ Len(text) \in Nat /\ text \in Seq(Kinds)
        /\ invalidLine \in Int /\ backParse \in Int
        /\ s.lno \in Int /\ s.line \in Nat /\ s.lo \in Nat /\ s.hi \in Int /\ s.down \in BOOLEAN
    BY <1>1, <1>2 DEF Types, HostTypes, EngineTypes, Searching
  <1>6. s.hi < wStart + wSize /\ s.hi < Len(text) /\ s.lno \in Nat
    BY <1>4, <1>5 DEF MinOf
  <1>7. CASE /\ next < s.lo \/ next > s.hi
             /\ pc' = "found" /\ UNCHANGED <<search, engine>>
    <2>1. UNCHANGED <<wStart, wSize, lrSize, firstLine, invalidLine>>
      BY <1>7 DEF engine, window, ring
    <2>2. Sighted'
      BY <1>1, <1>4, <2>1, CoverSame DEF Sighted, Covered
    <2>3. s.lno = IF s.down THEN s.hi ELSE s.lo
      BY <1>4, <1>5, <1>7 DEF Onto
    <2> QED
      BY <1>1, <1>4, <1>7, <2>1, <2>2, <2>3 DEF Searched
  <1>8. CASE /\ s.lo <= next /\ next <= s.hi /\ Request(next)
             /\ search' = [s EXCEPT !.lno = next, !.bal = bal, !.eline = IF bal = 0 THEN next ELSE @]
             /\ pc' = IF bal = 0 THEN "found" ELSE pc
    <2>1. next \in Nat /\ wStart <= next /\ next < wStart + wSize /\ next < Len(text)
      BY <1>4, <1>5, <1>6, <1>8, SMTT(30) DEF Onto
    <2>2. ~TooFar(next)
      <3>1. next < invalidLine
        BY <1>4, <2>1 DEF Sighted
      <3> QED
        BY <1>5, <2>1, <3>1 DEF TooFar
    <2>3. /\ Sighted' /\ UNCHANGED <<wStart, wSize>>
          /\ PairsOf(Answer(next)) = PairsOf(Inside(f[next], text[next + 1]))
      <3>1. Covered
        BY <1>4 DEF Sighted
      <3> HIDE DEF next
      <3> QED
        BY <1>1, <1>8, <2>1, <2>2, <3>1, InSight
    <2>4. Depth(f, text)
      BY <1>5, DepthOfText
    <2>5. bal = s.bal + (f[next + 1] - f[next])
      <3>1. next \in 0 .. Len(text) /\ next + 1 \in 1 .. Len(text)
        BY <1>5, <2>1
      <3>2. f[next] \in Levels /\ text[next + 1] \in Kinds
        BY <1>5, <3>1, DepthsInLevels
      <3>3. bal = s.bal + (DepthAfter(text[next + 1], f[next]) - f[next])
        BY <1>4, <2>3, <3>2, WeighLine
      <3> HIDE DEF f, next
      <3>4. f[next + 1] = DepthAfter(text[next + 1], f[next])
        BY <2>1, <2>4, DepthStep
      <3> QED
        BY <3>3, <3>4
    <2> DEFINE r == search'
    <2>6. /\ r.lo = s.lo /\ r.hi = s.hi /\ r.line = s.line /\ r.down = s.down /\ r.lno = next /\ r.bal = bal
          /\ r.eline = IF bal = 0 THEN next ELSE -1
      BY <1>2, <1>4, <1>8 DEF Searching
    <2>7. IF s.down THEN DownTo(f, text, s.line, next, bal) ELSE UpTo(f, text, s.line, next, bal)
      <3> HIDE DEF f, bal
      <3>1. CASE s.down
        <4>1. next = s.lno + 1 /\ DownTo(f, text, s.line, s.lno, s.bal)
          BY <1>4, <3>1 DEF Onto
        <4>2. DownTo(f, text, s.line, s.lno + 1, s.bal + (f[s.lno + 2] - f[s.lno + 1]))
          BY <1>4, <1>5, <1>6, <2>1, <2>4, <4>1, DownOn
        <4>3. (s.lno + 1) + 1 = s.lno + 2
          BY <1>5
        <4> QED
          BY <2>5, <3>1, <4>1, <4>2, <4>3
      <3>2. CASE ~s.down
        <4>1. next = s.lno - 1 /\ UpTo(f, text, s.line, s.lno, s.bal)
          BY <1>4, <1>5, <3>2 DEF Onto
        <4>2. s.lno > 0 /\ s.line < Len(text)
          BY <1>4, <1>5, <1>6, <2>1, <4>1
        <4>3. UpTo(f, text, s.line, s.lno - 1, s.bal + (f[s.lno] - f[s.lno - 1]))
          BY <1>4, <1>5, <1>6, <2>4, <4>1, <4>2, UpOn
        <4>4. (s.lno - 1) + 1 = s.lno
          BY <1>5
        <4> QED
          BY <2>5, <3>2, <4>1, <4>3, <4>4
      <3> QED
        BY <3>1, <3>2
    <2>8. bal \in Int
      <3>1. f[next] \in Nat /\ f[next + 1] \in Nat
        BY <2>1, <2>4, DepthStep
      <3> HIDE DEF f, next, bal
      <3> QED
        BY <1>4, <2>5, <3>1
    <2>9. bal = 0 => next # s.line
      <3> HIDE DEF f, bal
      <3>1. CASE s.down
        <4>1. s.line <= s.lno /\ next = s.lno + 1
          BY <1>4, <3>1 DEF DownTo, Onto
        <4> QED
          BY <1>5, <4>1
      <3>2. CASE ~s.down
        <4>1. s.lno <= s.line /\ next = s.lno - 1
          BY <1>4, <1>5, <3>2 DEF UpTo, Onto
        <4> QED
          BY <1>5, <4>1
      <3> QED
        BY <3>1, <3>2
    <2>10. pc' = "search" => bal # 0
      BY <1>1, <1>8
    <2>11. pc' = "found" => bal = 0
      BY <1>1, <1>8
    <2> HIDE DEF f, bal, next
    <2>12. next # -1
      BY <2>1
    <2> QED
      BY <1>1, <1>4, <1>8, <2>3, <2>6, <2>7, <2>8, <2>9, <2>10, <2>11, <2>12 DEF Searched, f
  <1>9. \/ next < s.lo \/ next > s.hi
        \/ s.lo <= next /\ next <= s.hi
    BY <1>5 DEF Onto
  <1> QED
    BY <1>7, <1>8, <1>9 DEF SearchStep, Onto

LEMMA StepSearch ==
  ASSUME FreshInv, InWindow, PairInv, SearchInv, Seeks, Looks
  PROVE  SearchInv'
  <1> SUFFICES ASSUME ~stretched', Looking' PROVE Sighted' /\ Searched(Depths(text), text)'
    BY DEF SearchInv
  <1>1. ~stretched
    BY DEF Looks
  <1>2. CASE SearchStep
    BY <1>1, <1>2, SearchGoesOn
  <1>3. CASE pc = "pair" /\ BeginSearch("draw")
    BY <1>1, <1>3, SearchBegins
  <1>4. CASE UNCHANGED vars
    <2>1. UNCHANGED <<wStart, wSize, lrSize, firstLine, invalidLine, text, pc, search>>
      BY <1>4 DEF vars, host, engine, window, ring, event, rest
    <2>2. cover' = cover
      BY <2>1, CoverSame
    <2> QED
      BY <1>1, <2>1, <2>2 DEF SearchInv, Looking, Sighted, Covered, Searched
  <1> QED
    BY <1>2, <1>3, <1>4 DEF Seeks

LEMMA StepPairs == PairsInv /\ [Next]_vars => PairsInv'
  <1> SUFFICES ASSUME PairsInv, [Next]_vars PROVE PairsInv'
    OBVIOUS
  <1>1. FreshInv /\ InWindow /\ PairInv /\ SearchInv /\ Types /\ ListShown
    BY DEF PairsInv, FreshInv, KnownInv
  <1>2. FreshInv'
    BY <1>1, StepFresh
  <1>3. InWindow'
    BY <1>1, StepWindow
  <1>4. Looks /\ Seeks
    BY <1>1, StepLooks, StepSeeks
  <1> QED
    BY <1>1, <1>2, <1>3, <1>4, StepPair, StepSearch DEF PairsInv

(* The pair drawn under the cursor is the one the text has, or it has none *)
(* in the window: until the window is made higher.                         *)
THEOREM PairsAreRight == Spec => []LocalPairRight
  <1>1. ASSUME PairsInv, pc = "found", search.goal = "draw", ~stretched
        PROVE  IF search.eline # -1 THEN MateOf(search.line, search.eline)
               ELSE \A m \in search.lo .. search.hi : ~MateOf(search.line, m)
    <2> DEFINE s == search
    <2>1. Types /\ Searched(Depths(text), text)
      BY <1>1 DEF PairsInv, FreshInv, KnownInv, SearchInv, Looking
    <2>2. PICK B : s \in Searching(B)
      BY <2>1 DEF Types, HostTypes
    <2>3. /\ wStart \in Nat /\ wSize \in Nat \ {0} /\ Len(text) \in Nat /\ text \in Seq(Kinds)
          /\ s.lno \in Int /\ s.line \in Nat /\ s.lo \in Nat /\ s.hi \in Int /\ s.down \in BOOLEAN
      BY <2>1, <2>2 DEF Types, HostTypes, EngineTypes, Searching
    <2>4. /\ s.lo <= s.line /\ s.line <= s.hi /\ s.lo <= s.lno /\ s.lno <= s.hi
          /\ s.hi = MinOf(wStart + wSize, Len(text)) - 1
          /\ IF s.down THEN DownTo(Depths(text), text, s.line, s.lno, s.bal)
             ELSE UpTo(Depths(text), text, s.line, s.lno, s.bal)
          /\ IF s.eline = -1 THEN s.bal # 0 /\ s.lno = (IF s.down THEN s.hi ELSE s.lo)
             ELSE s.bal = 0 /\ s.eline = s.lno /\ s.lno # s.line
      BY <1>1, <2>1 DEF Searched
    <2>5. s.lno \in Nat /\ s.lno < Len(text) /\ s.line < Len(text)
      BY <2>3, <2>4 DEF MinOf
    <2>6. CASE s.eline # -1
      <3>1. s.bal = 0 /\ s.eline = s.lno /\ s.line # s.lno
        BY <2>4, <2>6
      <3>2. CASE s.down
        <4>1. DownTo(Depths(text), text, s.line, s.lno, 0)
          BY <2>4, <3>1, <3>2
        <4> QED
          BY <2>3, <2>5, <2>6, <3>1, <4>1, DownFound
      <3>3. CASE ~s.down
        <4>1. UpTo(Depths(text), text, s.line, s.lno, 0)
          BY <2>4, <3>1, <3>3
        <4> QED
          BY <2>3, <2>5, <2>6, <3>1, <4>1, UpFound
      <3> QED
        BY <3>2, <3>3
    <2>7. CASE s.eline = -1
      <3> SUFFICES ASSUME NEW m \in s.lo .. s.hi PROVE ~MateOf(s.line, m)
        BY <2>7
      <3>1. s.bal # 0 /\ s.lno = (IF s.down THEN s.hi ELSE s.lo) /\ m \in Nat
        BY <2>3, <2>4, <2>7
      <3>2. CASE s.down
        <4>1. m <= s.lno /\ DownTo(Depths(text), text, s.line, s.lno, s.bal)
          BY <2>4, <3>1, <3>2
        <4> QED
          BY <2>3, <2>5, <3>1, <4>1, DownMissed
      <3>3. CASE ~s.down
        <4>1. s.lno <= m /\ UpTo(Depths(text), text, s.line, s.lno, s.bal)
          BY <2>4, <3>1, <3>3
        <4> QED
          BY <2>3, <2>5, <3>1, <4>1, UpMissed
      <3> QED
        BY <3>2, <3>3
    <2> QED
      BY <2>6, <2>7
  <1>2. PairsInv => LocalPairRight
    BY <1>1 DEF LocalPairRight
  <1> QED
    BY <1>2, InitPairs, StepPairs, PTL DEF Spec

-----------------------------------------------------------------------------
(* The outline. *)

(* u is what is in S of the first i elements of s, in the order R.         *)
Filtered(u, s, S, i, R) ==
  /\ \A p \in 1 .. Len(u) : \E j \in 1 .. i : s[j] \in S /\ u[p] = s[j]
  /\ \A j \in 1 .. i : s[j] \in S => \E p \in 1 .. Len(u) : u[p] = s[j]
  /\ \A p, q \in 1 .. Len(u) : p < q => <<u[p], u[q]>> \in R

LEMMA FilteredOut ==
  ASSUME NEW V, NEW s \in Seq(V), NEW S, NEW R, NEW i \in Nat, i + 1 <= Len(s), s[i + 1] \notin S,
         NEW u \in Seq(V), Filtered(u, s, S, i, R)
  PROVE  Filtered(u, s, S, i + 1, R)
  <1>1. \A j \in 1 .. i + 1 : s[j] \in S => j \in 1 .. i
    <2> TAKE j \in 1 .. i + 1
    <2> HAVE s[j] \in S
    <2>1. j # i + 1
      OBVIOUS
    <2> QED
      BY <2>1
  <1>2. \A j \in 1 .. i : j \in 1 .. i + 1
    OBVIOUS
  <1>3. ASSUME NEW p \in 1 .. Len(u) PROVE \E j \in 1 .. i + 1 : s[j] \in S /\ u[p] = s[j]
    BY <1>2, Zenon DEF Filtered
  <1>4. ASSUME NEW j \in 1 .. i + 1, s[j] \in S PROVE \E p \in 1 .. Len(u) : u[p] = s[j]
    BY <1>1, <1>4, Zenon DEF Filtered
  <1> QED
    BY <1>3, <1>4, Zenon DEF Filtered

LEMMA FilteredIn ==
  ASSUME NEW V, NEW s \in Seq(V), NEW S, NEW R, NEW i \in Nat, i + 1 <= Len(s), s[i + 1] \in S,
         \A j, k \in 1 .. Len(s) : j < k => <<s[j], s[k]>> \in R,
         NEW u \in Seq(V), Filtered(u, s, S, i, R)
  PROVE  Filtered(Append(u, s[i + 1]), s, S, i + 1, R)
  <1> DEFINE w == Append(u, s[i + 1])
             n == Len(u)
  <1>1. n \in Nat /\ Len(w) = n + 1 /\ w[n + 1] = s[i + 1] /\ \A p \in 1 .. n : w[p] = u[p]
    <2>1. s[i + 1] \in V
      OBVIOUS
    <2> QED
      BY <2>1
  <1> HIDE DEF w, n
  <1>2. \A p \in 1 .. Len(w) : p = n + 1 \/ p \in 1 .. n
    BY <1>1
  <1>3. n + 1 \in 1 .. Len(w) /\ \A p \in 1 .. n : p \in 1 .. Len(w)
    BY <1>1
  <1>4. \A j \in 1 .. i + 1 : j = i + 1 \/ j \in 1 .. i
    OBVIOUS
  <1>5. i + 1 \in 1 .. i + 1 /\ \A j \in 1 .. i : j \in 1 .. i + 1
    OBVIOUS
  <1>6. ASSUME NEW p \in 1 .. Len(w) PROVE \E j \in 1 .. i + 1 : s[j] \in S /\ w[p] = s[j]
    <2>1. CASE p = n + 1
      BY <1>1, <1>5, <2>1
    <2>2. CASE p \in 1 .. n
      <3>1. PICK j \in 1 .. i : s[j] \in S /\ u[p] = s[j]
        BY <2>2, Zenon DEF Filtered, n
      <3> QED
        BY <1>1, <1>5, <2>2, <3>1
    <2> QED
      BY <1>2, <2>1, <2>2
  <1>7. ASSUME NEW j \in 1 .. i + 1, s[j] \in S PROVE \E p \in 1 .. Len(w) : w[p] = s[j]
    <2>1. CASE j = i + 1
      BY <1>1, <1>3, <2>1
    <2>2. CASE j \in 1 .. i
      <3>1. PICK p \in 1 .. n : u[p] = s[j]
        BY <1>7, <2>2, Zenon DEF Filtered, n
      <3> QED
        BY <1>1, <1>3, <3>1
    <2> QED
      BY <1>4, <2>1, <2>2
  <1>8. ASSUME NEW p \in 1 .. Len(w), NEW q \in 1 .. Len(w), p < q PROVE <<w[p], w[q]>> \in R
    <2>1. p \in 1 .. n
      BY <1>1, <1>8
    <2>2. CASE q \in 1 .. n
      <3>1. <<u[p], u[q]>> \in R
        BY <1>8, <2>1, <2>2 DEF Filtered, n
      <3> QED
        BY <1>1, <2>1, <2>2, <3>1
    <2>3. CASE q = n + 1
      <3>1. PICK j \in 1 .. i : u[p] = s[j]
        BY <2>1, Zenon DEF Filtered, n
      <3>2. j \in 1 .. Len(s) /\ i + 1 \in 1 .. Len(s) /\ j < i + 1
        OBVIOUS
      <3> QED
        BY <1>1, <2>1, <2>3, <3>1, <3>2
    <2> QED
      BY <1>2, <2>2, <2>3
  <1>9. Filtered(w, s, S, i + 1, R)
    BY <1>6, <1>7, <1>8, Zenon DEF Filtered
  <1> QED
    BY <1>9 DEF w

LEMMA OnlyFilters ==
  ASSUME NEW V, NEW s \in Seq(V), NEW S, NEW R,
         \A j, k \in 1 .. Len(s) : j < k => <<s[j], s[k]>> \in R
  PROVE  Only(s, S) \in Seq(V) /\ Filtered(Only(s, S), s, S, Len(s), R)
  <1> DEFINE f == OnlyTo(s, S)
             T == {n \in Nat : n <= Len(s) => f[n] \in Seq(V) /\ Filtered(f[n], s, S, n, R)}
  <1>0. Len(s) \in Nat
    OBVIOUS
  <1>1. f[0] = <<>> /\ \A i \in 1 .. Len(s) : f[i] = IF s[i] \in S THEN Append(f[i - 1], s[i]) ELSE f[i - 1]
    BY <1>0, OnlySteps
  <1> HIDE DEF f
  <1>2. 0 \in T
    <2>1. <<>> \in Seq(V) /\ Filtered(<<>>, s, S, 0, R)
      BY DEF Filtered
    <2> QED
      BY <1>1, <2>1
  <1>3. ASSUME NEW n \in Nat, n \in T PROVE n + 1 \in T
    <2> SUFFICES ASSUME n + 1 <= Len(s)
                 PROVE f[n + 1] \in Seq(V) /\ Filtered(f[n + 1], s, S, n + 1, R)
      OBVIOUS
    <2>1. f[n] \in Seq(V) /\ Filtered(f[n], s, S, n, R)
      BY <1>0, <1>3
    <2>2. n + 1 \in 1 .. Len(s) /\ (n + 1) - 1 = n
      BY <1>0
    <2>3. CASE s[n + 1] \in S
      <3>1. f[n + 1] = Append(f[n], s[n + 1])
        BY <1>1, <2>2, <2>3
      <3>2. s[n + 1] \in V
        BY <2>2
      <3>3. Append(f[n], s[n + 1]) \in Seq(V)
        BY <2>1, <3>2
      <3> QED
        BY <2>1, <2>3, <3>1, <3>3, FilteredIn
    <2>4. CASE s[n + 1] \notin S
      <3>1. f[n + 1] = f[n]
        BY <1>1, <2>2, <2>4
      <3> QED
        BY <2>1, <2>4, <3>1, FilteredOut
    <2> QED
      BY <2>3, <2>4
  <1>4. Len(s) \in T
    <2> HIDE DEF T
    <2> QED
      BY <1>0, <1>2, <1>3, Induction
  <1> QED
    BY <1>0, <1>4, OnlyIs DEF f

(* Items of an outline, in the order of the text t, from its lines a to    *)
(* b - 1; and whether one is line l's.                                     *)
Items == [lno : Nat, level : Nat]
Lists(L, depth, t, a, b) ==
  /\ L \in Seq(Items)
  /\ \A i \in 1 .. Len(L) : /\ L[i].lno >= a /\ L[i].lno < b
                            /\ t[L[i].lno + 1] = "item" /\ L[i].level = depth[L[i].lno]
  /\ \A i, j \in 1 .. Len(L) : i < j => L[i].lno <= L[j].lno
Has(L, l) == \E i \in 1 .. Len(L) : L[i].lno = l

NatOrder == {r \in Nat \X Nat : r[1] <= r[2]}
ItemOrder == {r \in Items \X Items : r[1].lno <= r[2].lno}

LEMMA InNatOrder == \A x, y : <<x, y>> \in NatOrder <=> x \in Nat /\ y \in Nat /\ x <= y
  BY DEF NatOrder

LEMMA InItemOrder ==
  \A x, y : <<x, y>> \in ItemOrder <=> x \in Items /\ y \in Items /\ x.lno <= y.lno
  BY DEF ItemOrder

LEMMA LineOfItem ==
  ASSUME NEW L \in Seq(Items)
  PROVE  \A i \in 1 .. Len(L) : L[i].lno \in Nat
  <1>1. \A x \in Items : x.lno \in Nat
    BY DEF Items
  <1>2. \A i \in 1 .. Len(L) : L[i] \in Items
    OBVIOUS
  <1> QED
    BY <1>1, <1>2

(* What a parse of the lines from .. to - 1 tells of them.                 *)
LEMMA ItemsAre ==
  ASSUME NEW from \in Nat, NEW to \in Nat, from <= to, NEW depth,
         \A l \in from .. to - 1 : depth[l] \in Nat
  PROVE  /\ Lists(ItemsOf(from, depth, to), depth, text, from, to)
         /\ \A l \in from .. to - 1 : text[l + 1] = "item" => Has(ItemsOf(from, depth, to), l)
  <1> DEFINE n == to - from
             s == [i \in 1 .. to - from |-> from + i - 1]
             S == {l \in from .. to - 1 : Kind(l) = "item"}
             ls == Only(s, S)
             L == ItemsOf(from, depth, to)
  <1>1. n \in Nat /\ s \in Seq(Nat) /\ Len(s) = n /\ \A i \in 1 .. n : s[i] = from + i - 1
    OBVIOUS
  <1>2. L = [i \in DOMAIN ls |-> [lno |-> ls[i], level |-> depth[ls[i]]]]
    BY DEF ItemsOf
  <1> HIDE DEF s, n, L
  <1>3. \A j, k \in 1 .. Len(s) : j < k => <<s[j], s[k]>> \in NatOrder
    <2> TAKE j, k \in 1 .. Len(s)
    <2> HAVE j < k
    <2>1. s[j] = from + j - 1 /\ s[k] = from + k - 1 /\ j \in Nat /\ k \in Nat /\ j >= 1
      BY <1>1
    <2>2. s[j] \in Nat /\ s[k] \in Nat /\ s[j] <= s[k]
      BY <2>1
    <2> QED
      BY <2>2, InNatOrder
  <1>4. ls \in Seq(Nat) /\ Filtered(ls, s, S, Len(s), NatOrder)
    <2> HIDE DEF S
    <2> QED
      BY <1>1, <1>3, OnlyFilters
  <1>5. \A x : x \in S <=> x \in from .. to - 1 /\ text[x + 1] = "item"
    BY DEF Kind
  <1> HIDE DEF ls, S
  <1>6. DOMAIN ls = 1 .. Len(ls) /\ Len(ls) \in Nat
    BY <1>4
  <1>7. \A i \in 1 .. Len(ls) : ls[i] \in S
    BY <1>4, Zenon DEF Filtered
  <1>8. \A i \in 1 .. Len(ls) : ls[i] \in Nat /\ ls[i] >= from /\ ls[i] < to /\ depth[ls[i]] \in Nat
    <2> TAKE i \in 1 .. Len(ls)
    <2>1. ls[i] \in from .. to - 1
      BY <1>5, <1>7
    <2> QED
      BY <2>1
  <1>9. L \in Seq(Items) /\ Len(L) = Len(ls)
        /\ \A i \in 1 .. Len(ls) : L[i].lno = ls[i] /\ L[i].level = depth[ls[i]]
    <2> DEFINE e(i) == [lno |-> ls[i], level |-> depth[ls[i]]]
    <2>1. \A i \in 1 .. Len(ls) : e(i) \in Items /\ e(i).lno = ls[i] /\ e(i).level = depth[ls[i]]
      BY <1>8 DEF Items
    <2>2. L = [i \in 1 .. Len(ls) |-> e(i)]
      BY <1>2, <1>6
    <2> HIDE DEF e
    <2>3. L \in Seq(Items) /\ Len(L) = Len(ls) /\ \A i \in 1 .. Len(ls) : L[i] = e(i)
      BY <1>6, <2>1, <2>2
    <2> QED
      BY <2>1, <2>3
  <1>10. \A i, j \in 1 .. Len(ls) : i < j => ls[i] <= ls[j]
    <2> TAKE i, j \in 1 .. Len(ls)
    <2> HAVE i < j
    <2>1. <<ls[i], ls[j]>> \in NatOrder
      BY <1>4 DEF Filtered
    <2> QED
      BY <2>1, InNatOrder
  <1>11. Lists(L, depth, text, from, to)
    BY <1>5, <1>7, <1>8, <1>9, <1>10 DEF Lists
  <1>12. ASSUME NEW l \in from .. to - 1, text[l + 1] = "item" PROVE Has(L, l)
    <2>1. l - from + 1 \in 1 .. Len(s) /\ s[l - from + 1] = l
      <3>1. l - from + 1 \in 1 .. n
        BY DEF n
      <3>2. from + (l - from + 1) - 1 = l
        OBVIOUS
      <3> QED
        BY <1>1, <3>1, <3>2
    <2>2. l \in S
      BY <1>5, <1>12
    <2>3. PICK p \in 1 .. Len(ls) : ls[p] = l
      BY <1>4, <2>1, <2>2 DEF Filtered
    <2> QED
      BY <1>9, <2>3 DEF Has
  <1> QED
    BY <1>11, <1>12 DEF L

(* What is new of it to an outliner that knows the lines before m.         *)
LEMMA NewAre ==
  ASSUME NEW L, NEW depth, NEW t, NEW a \in Nat, NEW b \in Nat, NEW m \in Nat, Lists(L, depth, t, a, b)
  PROVE  /\ Lists(NewItems(L, m), depth, t, a, b)
         /\ \A i \in 1 .. Len(NewItems(L, m)) : NewItems(L, m)[i].lno >= m
         /\ \A l \in Nat : l >= m /\ Has(L, l) => Has(NewItems(L, m), l)
  <1> DEFINE S == {it \in ToSet(L) : it.lno >= m}
             N == Only(L, S)
  <1>1. /\ L \in Seq(Items)
        /\ \A i \in 1 .. Len(L) : /\ L[i].lno >= a /\ L[i].lno < b
                                  /\ t[L[i].lno + 1] = "item" /\ L[i].level = depth[L[i].lno]
        /\ \A i, j \in 1 .. Len(L) : i < j => L[i].lno <= L[j].lno
    BY DEF Lists
  <1>2. \A j, k \in 1 .. Len(L) : j < k => <<L[j], L[k]>> \in ItemOrder
    <2> TAKE j, k \in 1 .. Len(L)
    <2> HAVE j < k
    <2>1. L[j] \in Items /\ L[k] \in Items /\ L[j].lno <= L[k].lno
      BY <1>1
    <2> QED
      BY <2>1, InItemOrder
  <1>3. \A i \in 1 .. Len(L) : L[i] \in S <=> L[i].lno >= m
    <2>1. \A i \in 1 .. Len(L) : L[i] \in ToSet(L)
      BY <1>1 DEF ToSet
    <2> QED
      BY <2>1
  <1>4. N \in Seq(Items) /\ Filtered(N, L, S, Len(L), ItemOrder)
    <2> HIDE DEF S
    <2> QED
      BY <1>1, <1>2, OnlyFilters
  <1>5. NewItems(L, m) = N
    BY DEF NewItems
  <1> HIDE DEF S, N
  <1>6. \A p \in 1 .. Len(N) : \E j \in 1 .. Len(L) : L[j] \in S /\ N[p] = L[j]
    BY <1>4 DEF Filtered
  <1>7. ASSUME NEW p \in 1 .. Len(N)
        PROVE  /\ N[p].lno >= m /\ N[p].lno >= a /\ N[p].lno < b
               /\ t[N[p].lno + 1] = "item" /\ N[p].level = depth[N[p].lno]
    <2>1. PICK j \in 1 .. Len(L) : L[j] \in S /\ N[p] = L[j]
      BY <1>6
    <2> QED
      BY <1>1, <1>3, <2>1
  <1>8. \A i, j \in 1 .. Len(N) : i < j => N[i].lno <= N[j].lno
    <2> TAKE i, j \in 1 .. Len(N)
    <2> HAVE i < j
    <2>1. <<N[i], N[j]>> \in ItemOrder
      BY <1>4 DEF Filtered
    <2> QED
      BY <2>1, InItemOrder
  <1>9. Lists(N, depth, t, a, b)
    BY <1>4, <1>7, <1>8 DEF Lists
  <1>10. ASSUME NEW l \in Nat, l >= m, Has(L, l) PROVE Has(N, l)
    <2>1. PICK j \in 1 .. Len(L) : L[j].lno = l
      BY <1>10 DEF Has
    <2>2. L[j] \in S
      BY <1>3, <1>10, <2>1
    <2>3. PICK p \in 1 .. Len(N) : N[p] = L[j]
      BY <1>4, <2>2 DEF Filtered
    <2> QED
      BY <2>1, <2>3 DEF Has
  <1> QED
    BY <1>5, <1>7, <1>9, <1>10

(* Later items are added to an outline.                                    *)
LEMMA ListsBoth ==
  ASSUME NEW L, NEW N, NEW depth, NEW t, NEW b \in Nat, NEW m \in Nat,
         Lists(L, depth, t, 0, b), Lists(N, depth, t, 0, b),
         \A i \in 1 .. Len(L) : L[i].lno <= m, \A i \in 1 .. Len(N) : N[i].lno >= m
  PROVE  /\ Lists(L \o N, depth, t, 0, b)
         /\ \A l : Has(L, l) \/ Has(N, l) => Has(L \o N, l)
         /\ \A i \in 1 .. Len(L \o N) :
              (i \in 1 .. Len(L) /\ (L \o N)[i] = L[i])
              \/ (i - Len(L) \in 1 .. Len(N) /\ (L \o N)[i] = N[i - Len(L)])
  <1> DEFINE B == L \o N
             n == Len(L)
             k == Len(N)
  <1>1. /\ L \in Seq(Items)
        /\ \A i \in 1 .. n : /\ L[i].lno >= 0 /\ L[i].lno < b
                             /\ t[L[i].lno + 1] = "item" /\ L[i].level = depth[L[i].lno]
        /\ \A i, j \in 1 .. n : i < j => L[i].lno <= L[j].lno
    BY DEF Lists
  <1>2. /\ N \in Seq(Items)
        /\ \A i \in 1 .. k : /\ N[i].lno >= 0 /\ N[i].lno < b
                             /\ t[N[i].lno + 1] = "item" /\ N[i].level = depth[N[i].lno]
        /\ \A i, j \in 1 .. k : i < j => N[i].lno <= N[j].lno
    BY DEF Lists
  <1>3. /\ n \in Nat /\ k \in Nat /\ B \in Seq(Items) /\ Len(B) = n + k
        /\ \A i \in 1 .. n + k : B[i] = IF i <= n THEN L[i] ELSE N[i - n]
    BY <1>1, <1>2
  <1>a. (\A i \in 1 .. n : L[i].lno \in Nat) /\ \A i \in 1 .. k : N[i].lno \in Nat
    BY <1>1, <1>2, LineOfItem
  <1> HIDE DEF B, n, k
  <1>4. \A i \in 1 .. Len(B) : (i \in 1 .. n /\ B[i] = L[i]) \/ (i - n \in 1 .. k /\ B[i] = N[i - n])
    <2> TAKE i \in 1 .. Len(B)
    <2>1. CASE i <= n
      BY <1>3, <2>1
    <2>2. CASE ~(i <= n)
      BY <1>3, <2>2
    <2> QED
      BY <2>1, <2>2
  <1>5. ASSUME NEW i \in 1 .. Len(B)
        PROVE  /\ B[i].lno >= 0 /\ B[i].lno < b
               /\ t[B[i].lno + 1] = "item" /\ B[i].level = depth[B[i].lno]
    BY <1>1, <1>2, <1>4
  <1>6. ASSUME NEW i \in 1 .. Len(B), NEW j \in 1 .. Len(B), i < j PROVE B[i].lno <= B[j].lno
    <2>1. CASE i \in 1 .. n /\ B[i] = L[i] /\ j \in 1 .. n /\ B[j] = L[j]
      BY <1>1, <1>6, <2>1
    <2>2. CASE i \in 1 .. n /\ B[i] = L[i] /\ j - n \in 1 .. k /\ B[j] = N[j - n]
      <3>1. L[i].lno <= m /\ N[j - n].lno >= m /\ L[i].lno \in Nat /\ N[j - n].lno \in Nat
        BY <1>a, <2>2 DEF n, k
      <3> QED
        BY <2>2, <3>1
    <2>3. CASE i - n \in 1 .. k /\ B[i] = N[i - n] /\ j - n \in 1 .. k /\ B[j] = N[j - n]
      BY <1>2, <1>3, <1>6, <2>3
    <2>4. CASE i - n \in 1 .. k /\ j \in 1 .. n
      BY <1>3, <1>6, <2>4
    <2> QED
      BY <1>4, <2>1, <2>2, <2>3, <2>4
  <1>7. Lists(B, depth, t, 0, b)
    BY <1>3, <1>5, <1>6 DEF Lists
  <1>8. ASSUME NEW l, Has(L, l) PROVE Has(B, l)
    <2>1. PICK i \in 1 .. n : L[i].lno = l
      BY <1>8 DEF Has, n
    <2>2. i \in 1 .. Len(B) /\ B[i] = L[i]
      BY <1>3
    <2> QED
      BY <2>1, <2>2 DEF Has
  <1>9. ASSUME NEW l, Has(N, l) PROVE Has(B, l)
    <2>1. PICK i \in 1 .. k : N[i].lno = l
      BY <1>9 DEF Has, k
    <2>2. n + i \in 1 .. Len(B) /\ B[n + i] = N[i]
      BY <1>3
    <2> QED
      BY <2>1, <2>2 DEF Has
  <1> QED
    BY <1>4, <1>7, <1>8, <1>9 DEF B, n, k

LEMMA LeastOf ==
  ASSUME NEW S, S \subseteq Nat, S # {}
  PROVE  \E m \in S : \A k \in S : m <= k
  <1>1. PICK m \in S : \A k \in S : ~ (<<k, m>> \in OpToRel(<, Nat))
    BY WFMin, NatLessThanWellFounded, Zenon
  <1>2. \A k \in S : <<k, m>> \in OpToRel(<, Nat) <=> k < m
    BY DEF OpToRel
  <1>3. \A k \in S : ~ (k < m)
    BY <1>1, <1>2, Zenon
  <1> QED
    BY <1>3

(* The items before a line are the first ones.                             *)
LEMMA BeforeLine ==
  ASSUME NEW L, NEW depth, NEW t, NEW b \in Nat, Lists(L, depth, t, 0, b), NEW line \in Nat
  PROVE  /\ Lists(OutlineBefore(L, line), depth, t, 0, b)
         /\ \A i \in 1 .. Len(OutlineBefore(L, line)) : OutlineBefore(L, line)[i].lno < line
         /\ \A l \in Nat : l < line /\ Has(L, l) => Has(OutlineBefore(L, line), l)
  <1> DEFINE late == {i \in DOMAIN L : L[i].lno >= line}
             B == OutlineBefore(L, line)
  <1>1. /\ L \in Seq(Items)
        /\ \A i \in 1 .. Len(L) : /\ L[i].lno >= 0 /\ L[i].lno < b
                                  /\ t[L[i].lno + 1] = "item" /\ L[i].level = depth[L[i].lno]
        /\ \A i, j \in 1 .. Len(L) : i < j => L[i].lno <= L[j].lno
    BY DEF Lists
  <1>2. Len(L) \in Nat /\ DOMAIN L = 1 .. Len(L) /\ \A i \in 1 .. Len(L) : L[i].lno \in Nat
    BY <1>1, LineOfItem
  <1>3. late \subseteq 1 .. Len(L) /\ \A i \in 1 .. Len(L) : i \in late <=> L[i].lno >= line
    BY <1>2
  <1>4. B = IF late = {} THEN L ELSE SubSeq(L, 1, (CHOOSE i \in late : \A j \in late : i <= j) - 1)
    BY DEF OutlineBefore
  <1> HIDE DEF late, B
  <1>5. PICK n \in 0 .. Len(L) :
          /\ B \in Seq(Items) /\ Len(B) = n /\ \A i \in 1 .. n : B[i] = L[i]
          /\ \A i \in 1 .. Len(L) : L[i].lno < line <=> i <= n
    <2>1. CASE late = {}
      <3>1. B = L /\ \A i \in 1 .. Len(L) : L[i].lno < line /\ i <= Len(L)
        BY <1>2, <1>3, <1>4, <2>1
      <3> DEFINE n == Len(L)
      <3>2. /\ n \in 0 .. Len(L) /\ B \in Seq(Items) /\ Len(B) = n /\ \A i \in 1 .. n : B[i] = L[i]
            /\ \A i \in 1 .. Len(L) : L[i].lno < line /\ i <= n
        BY <1>1, <1>2, <3>1
      <3> HIDE DEF n
      <3> QED
        BY <3>2
    <2>2. CASE late # {}
      <3> DEFINE m == CHOOSE i \in late : \A j \in late : i <= j
      <3>1. late \subseteq Nat
        BY <1>3
      <3>2. m \in late /\ \A j \in late : m <= j
        BY <2>2, <3>1, LeastOf
      <3>3. B = SubSeq(L, 1, m - 1)
        BY <1>4, <2>2
      <3> HIDE DEF m
      <3>4. m \in 1 .. Len(L) /\ L[m].lno >= line
        BY <1>3, <3>2
      <3>5. m - 1 \in 0 .. Len(L)
        BY <1>2, <3>4
      <3>6. B \in Seq(Items) /\ Len(B) = m - 1 /\ \A i \in 1 .. m - 1 : B[i] = L[i]
        BY <1>1, <3>3, <3>4
      <3>7. ASSUME NEW i \in 1 .. Len(L) PROVE L[i].lno < line <=> i <= m - 1
        <4>1. CASE i <= m - 1
          <5>1. i \notin late
            BY <3>2, <3>4, <4>1
          <5> QED
            BY <1>2, <1>3, <4>1, <5>1
        <4>2. CASE i > m - 1
          <5>1. L[m].lno <= L[i].lno
            BY <1>1, <1>2, <3>4, <4>2
          <5> QED
            BY <1>2, <3>4, <4>2, <5>1
        <4> QED
          BY <3>4, <4>1, <4>2
      <3> QED
        BY <3>5, <3>6, <3>7
    <2> QED
      BY <2>1, <2>2
  <1>6. \A i \in 1 .. n : i \in 1 .. Len(L) /\ i <= n
    BY <1>2
  <1>7. Lists(B, depth, t, 0, b)
    <2>1. ASSUME NEW i \in 1 .. n
          PROVE  /\ B[i].lno >= 0 /\ B[i].lno < b
                 /\ t[B[i].lno + 1] = "item" /\ B[i].level = depth[B[i].lno]
      BY <1>1, <1>5, <1>6
    <2>2. ASSUME NEW i \in 1 .. n, NEW j \in 1 .. n, i < j PROVE B[i].lno <= B[j].lno
      BY <1>1, <1>5, <1>6, <2>2
    <2> QED
      BY <1>5, <2>1, <2>2 DEF Lists
  <1>8. \A i \in 1 .. Len(B) : B[i].lno < line
    BY <1>5, <1>6
  <1>9. ASSUME NEW l \in Nat, l < line, Has(L, l) PROVE Has(B, l)
    <2>1. PICK i \in 1 .. Len(L) : L[i].lno = l
      BY <1>9 DEF Has
    <2>2. i \in 1 .. n
      BY <1>5, <1>9, <2>1
    <2> QED
      BY <1>5, <2>1, <2>2 DEF Has
  <1> QED
    BY <1>7, <1>8, <1>9 DEF B

(* Items of a text are items of another that is the same as far.           *)
Same(t, f, u, g, j) ==
  \A l \in Nat : l < j => t[l + 1] = u[l + 1] /\ f[l] = g[l]

LEMMA ListsAs ==
  ASSUME NEW L, NEW t, NEW f, NEW u, NEW g, NEW a \in Nat, NEW b \in Nat, NEW c \in Nat, NEW j \in Nat,
         Lists(L, f, t, a, b), \A i \in 1 .. Len(L) : L[i].lno < j, Same(t, f, u, g, j), j <= c
  PROVE  Lists(L, g, u, 0, c)
  <1>1. /\ L \in Seq(Items)
        /\ \A i \in 1 .. Len(L) : /\ L[i].lno >= a /\ L[i].lno < b
                                  /\ t[L[i].lno + 1] = "item" /\ L[i].level = f[L[i].lno]
        /\ \A i, k \in 1 .. Len(L) : i < k => L[i].lno <= L[k].lno
    BY DEF Lists
  <1>2. ASSUME NEW i \in 1 .. Len(L)
        PROVE  L[i].lno >= 0 /\ L[i].lno < c /\ u[L[i].lno + 1] = "item" /\ L[i].level = g[L[i].lno]
    <2>1. L[i].lno \in Nat /\ L[i].lno < j
      BY <1>1, LineOfItem
    <2>2. t[L[i].lno + 1] = u[L[i].lno + 1] /\ f[L[i].lno] = g[L[i].lno]
      BY <2>1 DEF Same
    <2> QED
      BY <1>1, <2>1, <2>2
  <1> QED
    BY <1>1, <1>2 DEF Lists

(* The lines the outliner has been told of are in the outline, if they are *)
(* items or valid, as the text has them.                                   *)
ListedIn(L, t, m, inv) ==
  /\ m \in Nat /\ m <= Len(t)
  /\ Lists(L, Depths(t), t, 0, Len(t))
  /\ \A i \in 1 .. Len(L) : L[i].lno <= m
  /\ \A l \in Nat : l < Len(t) /\ t[l + 1] = "item" /\ (l < m \/ l < inv) => Has(L, l)

(* The outline after a parse: N is what is new of its lines.               *)
News(N, t, m, from, to) ==
  /\ Lists(N, Depths(t), t, 0, Len(t))
  /\ \A i \in 1 .. Len(N) : N[i].lno >= m /\ N[i].lno < to
  /\ \A l \in Nat : from <= l /\ l < to /\ l >= m /\ t[l + 1] = "item" => Has(N, l)

LEMMA ListedMore ==
  ASSUME NEW t \in Seq(Kinds), NEW L, NEW m, NEW inv \in Nat, ListedIn(L, t, m, inv),
         NEW N, NEW from \in Nat, NEW to \in Nat, from <= inv, from < to, to <= Len(t),
         News(N, t, m, from, to), NEW i2, i2 = inv \/ i2 = to
  PROVE  ListedIn(L \o N, t, IF m < to - 1 THEN to ELSE m, i2)
  <1> DEFINE m2 == IF m < to - 1 THEN to ELSE m
             B == L \o N
  <1>1. /\ m \in Nat /\ m <= Len(t) /\ Len(t) \in Nat
        /\ Lists(L, Depths(t), t, 0, Len(t)) /\ Lists(N, Depths(t), t, 0, Len(t))
        /\ \A i \in 1 .. Len(L) : L[i].lno <= m
        /\ \A i \in 1 .. Len(N) : N[i].lno >= m
    BY DEF ListedIn, News
  <1>2. L \in Seq(Items) /\ N \in Seq(Items)
    BY <1>1 DEF Lists
  <1>3. (\A i \in 1 .. Len(L) : L[i].lno \in Nat) /\ \A i \in 1 .. Len(N) : N[i].lno \in Nat
    BY <1>2, LineOfItem
  <1>4. /\ Lists(B, Depths(t), t, 0, Len(t))
        /\ \A l : Has(L, l) \/ Has(N, l) => Has(B, l)
        /\ \A i \in 1 .. Len(B) : (i \in 1 .. Len(L) /\ B[i] = L[i])
                                  \/ (i - Len(L) \in 1 .. Len(N) /\ B[i] = N[i - Len(L)])
    BY <1>1, ListsBoth
  <1> HIDE DEF B
  <1>5. m2 \in Nat /\ m2 <= Len(t) /\ m <= m2 /\ to <= m2 + 1
    BY <1>1
  <1>6. m2 = m \/ m2 = to
    OBVIOUS
  <1>7. \A i \in 1 .. Len(B) : B[i].lno <= m2
    <2> TAKE i \in 1 .. Len(B)
    <2>1. CASE i \in 1 .. Len(L) /\ B[i] = L[i]
      <3>1. L[i].lno <= m /\ L[i].lno \in Nat
        BY <1>1, <1>3, <2>1
      <3> HIDE DEF m2
      <3> QED
        BY <1>1, <1>5, <2>1, <3>1
    <2>2. CASE i - Len(L) \in 1 .. Len(N) /\ B[i] = N[i - Len(L)]
      <3>1. N[i - Len(L)].lno < to /\ N[i - Len(L)].lno \in Nat
        BY <1>3, <2>2 DEF News
      <3> HIDE DEF m2
      <3> QED
        BY <1>5, <2>2, <3>1
    <2> QED
      BY <1>4, <2>1, <2>2
  <1>8. ASSUME NEW l \in Nat, l < Len(t), t[l + 1] = "item", l < m2 \/ l < i2 PROVE Has(B, l)
    <2>1. CASE l < m \/ l < inv
      <3>1. Has(L, l)
        BY <1>8, <2>1 DEF ListedIn
      <3> QED
        BY <1>4, <3>1
    <2>2. CASE ~(l < m \/ l < inv)
      <3>1. l >= m /\ l >= from /\ l < to
        BY <1>1, <1>6, <1>8, <2>2
      <3>2. Has(N, l)
        BY <1>8, <3>1 DEF News
      <3> QED
        BY <1>4, <3>2
    <2> QED
      BY <2>1, <2>2
  <1> HIDE DEF m2
  <1>9. ListedIn(B, t, m2, i2)
    BY <1>4, <1>5, <1>7, <1>8 DEF ListedIn
  <1> QED
    BY <1>9 DEF B, m2

LEMMA ParseTells ==
  ASSUME Types, Knows(starts, invalidLine, text), ListedIn(outline, text, modifiedLine, invalidLine),
         NEW from \in Nat, NEW to \in Nat, NEW update \in BOOLEAN, NEW size, NEW first, NEW before,
         Parse(from, to, update, size, first, before),
         from < to, to <= Len(text), from <= invalidLine
  PROVE  ListedIn(outline', text, modifiedLine', invalidLine')
  <1> DEFINE depth == DepthIn(text, from, starts[from], to)
             f == Depths(text)
             L == ItemsOf(from, depth, to)
             N == NewItems(L, modifiedLine)
  <1>1. /\ outline' = outline \o N
        /\ modifiedLine' = IF modifiedLine < to - 1 THEN to ELSE modifiedLine
        /\ invalidLine' = invalidLine \/ invalidLine' = to
    BY DepthFromIn DEF Parse
  <1>2. /\ text \in Seq(Kinds) /\ starts[from] = Depths(text)[from] /\ Len(text) \in Nat
        /\ invalidLine \in Nat /\ modifiedLine \in Nat
    BY DEF Types, HostTypes, Knows, ListedIn
  <1>3. \A l \in from .. to : depth[l] = f[l]
    BY <1>2, DepthsFound
  <1>4. \A l \in from .. to : f[l] \in Nat
    <2>1. \A l \in 0 .. Len(text) : f[l] \in Levels
      BY <1>2, DepthsInLevels
    <2> HIDE DEF f
    <2> QED
      BY <1>2, <2>1, EditorAssumption DEF Levels
  <1> HIDE DEF depth, f
  <1>5. \A l \in from .. to - 1 : depth[l] \in Nat
    BY <1>3, <1>4
  <1>6. /\ Lists(L, depth, text, from, to)
        /\ \A l \in from .. to - 1 : text[l + 1] = "item" => Has(L, l)
    BY <1>5, ItemsAre
  <1> HIDE DEF L
  <1>7. /\ Lists(N, depth, text, from, to)
        /\ \A i \in 1 .. Len(N) : N[i].lno >= modifiedLine
        /\ \A l \in Nat : l >= modifiedLine /\ Has(L, l) => Has(N, l)
    BY <1>2, <1>6, NewAre
  <1> HIDE DEF N
  <1>8. \A i \in 1 .. Len(N) : N[i].lno < to /\ N[i].lno >= from /\ N[i].lno \in Nat
    <2>1. N \in Seq(Items)
      BY <1>7 DEF Lists
    <2>2. \A i \in 1 .. Len(N) : N[i].lno \in Nat
      BY <2>1, LineOfItem
    <2> QED
      BY <1>7, <2>2 DEF Lists
  <1>9. Lists(N, f, text, 0, Len(text))
    <2>1. ASSUME NEW i \in 1 .. Len(N)
          PROVE  /\ N[i].lno >= 0 /\ N[i].lno < Len(text)
                 /\ text[N[i].lno + 1] = "item" /\ N[i].level = f[N[i].lno]
      <3>1. N[i].lno \in from .. to
        BY <1>8
      <3>2. depth[N[i].lno] = f[N[i].lno]
        BY <1>3, <3>1
      <3>3. text[N[i].lno + 1] = "item" /\ N[i].level = depth[N[i].lno]
        BY <1>7 DEF Lists
      <3> QED
        BY <1>2, <1>8, <3>2, <3>3
    <2> QED
      BY <1>7, <2>1 DEF Lists
  <1>10. ASSUME NEW l \in Nat, from <= l, l < to, l >= modifiedLine, text[l + 1] = "item" PROVE Has(N, l)
    <2>1. l \in from .. to - 1
      BY <1>10
    <2> QED
      BY <1>6, <1>7, <1>10, <2>1
  <1>11. News(N, text, modifiedLine, from, to)
    BY <1>7, <1>8, <1>9, <1>10 DEF News, f
  <1>12. ListedIn(outline \o N, text, IF modifiedLine < to - 1 THEN to ELSE modifiedLine, invalidLine')
    BY <1>1, <1>2, <1>11, ListedMore
  <1> QED
    BY <1>1, <1>12

LEMMA WarmTells ==
  ASSUME Types, Knows(starts, invalidLine, text), lineCount = Len(text),
         NEW lno \in Int, ValidateCache(lno), ListedIn(outline, text, modifiedLine, invalidLine)
  PROVE  ListedIn(outline', text, modifiedLine', invalidLine')
  <1> DEFINE l == IF lno = -1 \/ lno > lineCount THEN lineCount - 1 ELSE lno
             to == MinOf(l + 1, lineCount)
  <1>1. to \in Int /\ to <= Len(text) /\ invalidLine \in Nat
    BY DEF MinOf, Types, EngineTypes, Knows
  <1>2. CASE to > invalidLine
    <2>1. Parse(invalidLine, to, TRUE, lrSize, firstLine, slots)
      BY <1>2 DEF ValidateCache
    <2> HIDE DEF to
    <2>2. to \in Nat /\ invalidLine < to /\ invalidLine <= invalidLine /\ TRUE \in BOOLEAN
      BY <1>1, <1>2
    <2> QED
      BY <1>1, <2>1, <2>2, ParseTells
  <1>3. CASE ~ (to > invalidLine)
    <2>1. UNCHANGED <<outline, modifiedLine, invalidLine>>
      BY <1>3 DEF ValidateCache
    <2> QED
      BY <2>1
  <1> QED
    BY <1>2, <1>3

LEMMA PaintTells ==
  ASSUME Types, Knows(starts, invalidLine, text), lineCount = Len(text),
         NEW lno \in Nat, ValidateRegions(lno), ListedIn(outline, text, modifiedLine, invalidLine)
  PROVE  ListedIn(outline', text, modifiedLine', invalidLine')
  <1> DEFINE l == Lines(lno)
             lay == Layout(l)
             from == IF lay.update THEN invalidLine ELSE lay.from
             to == MinOf(lay.to, lineCount)
             before == IF lrSize < cover THEN EmptyRing(lay.size) ELSE slots
  <1>1. l \in Nat /\ invalidLine \in Nat /\ Len(text) \in Nat
    BY DEF Types, EngineTypes, HostTypes, Knows, Lines
  <1>2. IF to > from
        THEN Parse(from, to, lay.update, lay.size, lay.first, before)
        ELSE UNCHANGED <<outline, modifiedLine, invalidLine>>
    BY Zenon DEF ValidateRegions, Lines
  <1> HIDE DEF l
  <1>3. lay.from \in Int /\ lay.to \in Int /\ lay.update \in BOOLEAN
    BY <1>1, LayoutTypes
  <1>4. lay.from \in Nat
    <2>1. lay.from = IF Moved(l) THEN NewFirst(l) ELSE wStart + wSize
      BY LayoutIs
    <2>2. NewFirst(l) \in Nat
      BY <1>1, WindowIs
    <2> QED
      BY <2>1, <2>2 DEF Types, EngineTypes
  <1>5. ~lay.update => ~(invalidLine <= lay.from)
    BY LayoutIs
  <1> HIDE DEF lay, before
  <1>6. from \in Nat /\ from <= invalidLine
    BY <1>1, <1>3, <1>4, <1>5
  <1>7. to \in Int /\ to <= Len(text)
    BY <1>1, <1>3 DEF MinOf
  <1> HIDE DEF from, to
  <1>8. CASE to > from
    <2>1. to \in Nat /\ from < to
      BY <1>6, <1>7, <1>8
    <2>2. Parse(from, to, lay.update, lay.size, lay.first, before)
      BY <1>2, <1>8
    <2> QED
      BY <1>3, <1>6, <1>7, <2>1, <2>2, ParseTells
  <1>9. CASE ~(to > from)
    BY <1>2, <1>9
  <1> QED
    BY <1>8, <1>9

LEMMA SameDepths ==
  ASSUME NEW t \in Seq(Kinds), NEW u \in Seq(Kinds), NEW j \in Nat, j <= Len(t), j <= Len(u),
         \A l \in 1 .. j : t[l] = u[l]
  PROVE  Same(t, Depths(t), u, Depths(u), j)
  <1> DEFINE f == Depths(t)
             g == Depths(u)
  <1>1. Len(t) \in Nat
    OBVIOUS
  <1>2. Knows(f, Len(t), t)
    BY <1>1 DEF Knows
  <1>3. Knows(f, j, u)
    BY <1>2, KnownBeforeChange
  <1>4. \A l \in 0 .. j : f[l] = g[l]
    BY <1>3 DEF Knows
  <1> HIDE DEF f, g
  <1>5. \A l \in Nat : l < j => t[l + 1] = u[l + 1] /\ f[l] = g[l]
    BY <1>4
  <1> QED
    BY <1>5 DEF Same, f, g

(* A change at line j or after leaves an outline of the lines before it.   *)
LEMMA ListedChanged ==
  ASSUME NEW t \in Seq(Kinds), NEW u \in Seq(Kinds), NEW j \in Nat, j <= Len(t), j <= Len(u),
         \A l \in 1 .. j : t[l] = u[l],
         NEW L, Lists(L, Depths(t), t, 0, Len(t)), \A i \in 1 .. Len(L) : L[i].lno < j,
         NEW m \in Nat, \A i \in 1 .. Len(L) : L[i].lno <= m, m <= j, NEW inv \in Nat, inv <= j,
         \A l \in Nat : l < j /\ t[l + 1] = "item" /\ (l < m \/ l < inv) => Has(L, l)
  PROVE  ListedIn(L, u, m, inv)
  <1>1. Same(t, Depths(t), u, Depths(u), j)
    BY SameDepths
  <1>2. Lists(L, Depths(u), u, 0, Len(u))
    <2>1. 0 \in Nat /\ Len(t) \in Nat /\ Len(u) \in Nat
      OBVIOUS
    <2> QED
      BY <1>1, <2>1, ListsAs
  <1>3. ASSUME NEW l \in Nat, u[l + 1] = "item", l < m \/ l < inv PROVE Has(L, l)
    <2>1. l < j
      BY <1>3
    <2>2. t[l + 1] = "item"
      BY <1>1, <1>3, <2>1 DEF Same
    <2> QED
      BY <1>3, <2>1, <2>2
  <1>4. m <= Len(u)
    OBVIOUS
  <1> QED
    BY <1>2, <1>3, <1>4 DEF ListedIn

LEMMA RedrawTells ==
  ASSUME Types, HostTypes', Knows(starts, invalidLine, text), Redraws, ~untold',
         ListedIn(outline, text, modifiedLine, invalidLine)
  PROVE  ListedIn(outline', text', modifiedLine', invalidLine')
  <1> DEFINE line == TopOfChange
  <1>1. PICK change \in BOOLEAN :
          /\ StartDrawing(change)
          /\ text' = text \/ (change /\ SameUpTo(line))
    BY DEF Redraws, SameText
  <1>2. /\ text \in Seq(Kinds) /\ text' \in Seq(Kinds) /\ Len(text) \in Nat /\ Len(text') \in Nat
        /\ invalidLine \in Nat /\ invalidLine <= Len(text)
    BY DEF Types, HostTypes, Knows
  <1>3. line \in Nat
    <2>1. cursor' \in Nat
      BY DEF HostTypes
    <2> QED
      BY <2>1, TopOfChangeBounds
  <1>4. /\ modifiedLine \in Nat /\ modifiedLine <= Len(text)
        /\ Lists(outline, Depths(text), text, 0, Len(text))
        /\ \A i \in 1 .. Len(outline) : outline[i].lno <= modifiedLine
        /\ \A l \in Nat : l < Len(text) /\ text[l + 1] = "item" /\ (l < modifiedLine \/ l < invalidLine)
             => Has(outline, l)
    BY DEF ListedIn
  <1>5. CASE text' = text /\ UNCHANGED <<invalidLine, listener>>
    BY <1>5 DEF listener
  <1>6. CASE change /\ invalidLine > line
    <2> DEFINE B == OutlineBefore(outline, line)
    <2>1. outline' = B /\ invalidLine' = line /\ modifiedLine' = line
      BY <1>1, <1>6 DEF StartDrawing, ModifyEvent
    <2> HIDE DEF line
    <2>2. /\ Lists(B, Depths(text), text, 0, Len(text))
          /\ \A i \in 1 .. Len(B) : B[i].lno < line
          /\ \A l \in Nat : l < line /\ Has(outline, l) => Has(B, l)
      BY <1>2, <1>3, <1>4, BeforeLine
    <2> HIDE DEF B
    <2>3. line <= Len(text) /\ line <= Len(text') /\ \A l \in 1 .. line : text[l] = text'[l]
      <3>1. line < Len(text)
        BY <1>2, <1>3, <1>6
      <3>2. CASE text' = text
        BY <1>3, <3>1, <3>2
      <3>3. CASE SameUpTo(line)
        <4>1. line = 0 \/ line \in 1 .. line
          BY <1>3
        <4> QED
          BY <1>2, <1>3, <3>1, <3>3, <4>1 DEF SameUpTo
      <3> QED
        BY <1>1, <3>2, <3>3
    <2>4. \A i \in 1 .. Len(B) : B[i].lno <= line
      <3>1. B \in Seq(Items)
        BY <2>2 DEF Lists
      <3>2. \A i \in 1 .. Len(B) : B[i].lno \in Nat
        BY <3>1, LineOfItem
      <3> QED
        BY <1>3, <2>2, <3>2
    <2>5. \A l \in Nat : l < line /\ text[l + 1] = "item" /\ (l < line \/ l < line) => Has(B, l)
      <3> TAKE l \in Nat
      <3> HAVE l < line /\ text[l + 1] = "item"
      <3>1. l < invalidLine /\ l < Len(text)
        BY <1>2, <1>3, <1>6
      <3> QED
        BY <1>4, <2>2, <3>1
    <2>6. ListedIn(B, text', line, line)
      <3>1. line <= line
        BY <1>3
      <3> QED
        BY <1>2, <1>3, <2>2, <2>3, <2>4, <2>5, <3>1, ListedChanged
    <2> QED
      BY <2>1, <2>6
  <1>7. CASE change /\ ~(invalidLine > line)
    <2> DEFINE j == MinOf(line, Len(text))
    <2>1. UNCHANGED <<invalidLine, outline, modifiedLine>> /\ ~Untold(line)
      BY <1>1, <1>7 DEF StartDrawing, ModifyEvent
    <2> HIDE DEF line
    <2>2. j \in Nat /\ j <= line /\ j <= Len(text) /\ (j = line \/ j = Len(text))
      BY <1>2, <1>3 DEF MinOf
    <2>3. modifiedLine <= line /\ invalidLine <= line
          /\ \A i \in 1 .. Len(outline) : ~(outline[i].lno >= line)
      <3>1. invalidLine <= line
        BY <1>2, <1>3, <1>7
      <3>2. ~(modifiedLine > line) /\ \A item \in ToSet(outline) : ~(item.lno >= line)
        BY <2>1, <3>1 DEF Untold
      <3>3. \A i \in 1 .. Len(outline) : outline[i] \in ToSet(outline)
        BY <1>4 DEF Lists, ToSet
      <3> QED
        BY <1>3, <1>4, <3>1, <3>2, <3>3
    <2>4. modifiedLine <= j /\ invalidLine <= j
      BY <1>2, <1>4, <2>2, <2>3
    <2>5. \A i \in 1 .. Len(outline) : outline[i].lno < j
      <3>1. outline \in Seq(Items)
        BY <1>4 DEF Lists
      <3>2. \A i \in 1 .. Len(outline) : outline[i].lno \in Nat
        BY <3>1, LineOfItem
      <3>3. \A i \in 1 .. Len(outline) : outline[i].lno < Len(text)
        BY <1>4 DEF Lists
      <3>4. \A i \in 1 .. Len(outline) : outline[i].lno < line
        BY <1>3, <2>3, <3>2
      <3> QED
        BY <2>2, <3>3, <3>4
    <2>6. j <= Len(text') /\ \A l \in 1 .. j : text[l] = text'[l]
      <3>1. CASE text' = text
        BY <2>2, <3>1
      <3>2. CASE SameUpTo(line)
        <4>1. \A l \in 1 .. j : l \in 1 .. line
          BY <1>3, <2>2
        <4>2. j = 0 \/ j \in 1 .. j
          BY <2>2
        <4> QED
          BY <1>2, <2>2, <3>2, <4>1, <4>2 DEF SameUpTo
      <3> QED
        BY <1>1, <3>1, <3>2
    <2> HIDE DEF j
    <2>7. \A l \in Nat : l < j /\ text[l + 1] = "item" /\ (l < modifiedLine \/ l < invalidLine) => Has(outline, l)
      BY <1>2, <1>4, <2>2
    <2>8. ListedIn(outline, text', modifiedLine, invalidLine)
      BY <1>2, <1>4, <2>2, <2>4, <2>5, <2>6, <2>7, ListedChanged
    <2> QED
      BY <2>1, <2>8
  <1>8. ~change => UNCHANGED <<invalidLine, listener>>
    BY <1>1 DEF StartDrawing
  <1> QED
    BY <1>1, <1>5, <1>6, <1>7, <1>8

(* An empty outline, with nothing valid, and one of which nothing is       *)
(* valid any more.                                                         *)
LEMMA ListedNone ==
  ASSUME NEW t \in Seq(Kinds)
  PROVE  ListedIn(<<>>, t, 0, 0)
  <1>1. Len(t) \in Nat /\ <<>> \in Seq(Items) /\ Len(<<>>) = 0
    OBVIOUS
  <1> QED
    BY <1>1 DEF ListedIn, Lists

LEMMA ListedLess ==
  ASSUME NEW t \in Seq(Kinds), NEW L, NEW m, NEW inv, ListedIn(L, t, m, inv)
  PROVE  ListedIn(L, t, m, 0)
  BY DEF ListedIn

-----------------------------------------------------------------------------
(* Only a new file type, which empties the outlines too, clears untold.    *)
LEMMA RedrawTold ==
  ASSUME NEW change, StartDrawing(change), untold
  PROVE  untold'
  BY DEF StartDrawing

LEMMA StepTold ==
  ASSUME [Next]_vars, untold
  PROVE  untold' \/ SetFileType
  <1>1. CASE Open
    BY <1>1, RedrawTold DEF Open, BeginRedraw
  <1>2. CASE DrawLine \/ DrawPair \/ SearchStep \/ Idle \/ UNCHANGED vars
    BY <1>2 DEF DrawLine, DrawPair, SearchStep, Idle, bounds, history, vars
  <1>3. CASE EndSearch \/ EndLocate \/ EndIdle
    BY <1>3 DEF EndSearch, EndLocate, EndIdle, bounds, history
  <1>4. CASE ChooseFunction \/ LeaveList \/ CloseMenu
    <2>1. BeginRedraw(FALSE)
      BY <1>4 DEF ChooseFunction, LeaveList, CloseMenu
    <2> QED
      BY <2>1, RedrawTold DEF BeginRedraw
  <1>5. CASE \E b \in Budgets : IdleJob(b)
    BY <1>5 DEF IdleJob, bounds, history
  <1>6. CASE \E t, c \in LineNos, h \in Heights, b \in {-1} \cup LineNos : View(t, h, c, b)
    BY <1>6, RedrawTold DEF View, BeginRedraw
  <1>7. CASE \E c \in LineNos, k \in Kinds : Replace(c, k) \/ Split(c, k)
    BY <1>7, RedrawTold DEF Replace, Split, Edited, BeginRedraw
  <1>8. CASE \E c \in LineNos : Join(c)
    BY <1>8, RedrawTold DEF Join, Edited, BeginRedraw
  <1>9. CASE \E k \in Kinds : EditBlock(k)
    BY <1>9, RedrawTold DEF EditBlock, BeginRedraw
  <1>10. CASE MatchPair \/ SelectPair \/ SelectRegion \/ LocateFunction \/ ListFunctions
    BY <1>10 DEF MatchPair, SelectPair, SelectRegion, LocateFunction, ListFunctions, WholeText, history
  <1>11. CASE Browse
    BY <1>11, RedrawTold DEF Browse
  <1>12. CASE InsertName
    BY <1>12, RedrawTold DEF InsertName, BeginRedraw
  <1>13. CASE UpdateHighlighting \/ Remap
    BY <1>13 DEF UpdateHighlighting, Remap, history
  <1>14. CASE SetFileType
    BY <1>14
  <1> QED
    BY <1>1, <1>2, <1>3, <1>4, <1>5, <1>6, <1>7, <1>8, <1>9, <1>10, <1>11, <1>12, <1>13,
       <1>14 DEF Next, Handle

(* The inductive invariant.                                                *)
OutlineInv ==
  KnownInv /\ (~untold => ListedIn(outline, text, modifiedLine, invalidLine))

LEMMA InitOutline == Init => OutlineInv
  <1> SUFFICES ASSUME Init PROVE OutlineInv
    OBVIOUS
  <1>1. KnownInv
    BY InitKnown
  <1>2. outline = <<>> /\ modifiedLine = 0 /\ invalidLine = 0 /\ text \in Seq(Kinds)
    BY EditorAssumption DEF Init
  <1>3. ListedIn(outline, text, modifiedLine, invalidLine)
    BY <1>2, ListedNone
  <1> QED
    BY <1>1, <1>3 DEF OutlineInv

LEMMA StepOutline == OutlineInv /\ [Next]_vars => OutlineInv'
  <1> SUFFICES ASSUME OutlineInv, [Next]_vars, ~untold'
               PROVE  ListedIn(outline', text', modifiedLine', invalidLine')
    BY StepKnown DEF OutlineInv
  <1>1. /\ KnownInv /\ Types /\ LinesCounted /\ BlockSeen /\ ListShown
        /\ Knows(starts, invalidLine, text) /\ text \in Seq(Kinds)
    BY DEF OutlineInv, KnownInv, Types, HostTypes
  <1>2. CASE SetFileType
    <2>1. outline' = <<>> /\ modifiedLine' = 0 /\ invalidLine' = 0 /\ text' = text
      BY <1>2 DEF SetFileType, host
    <2> QED
      BY <1>1, <2>1, ListedNone
  <1>3. CASE ~SetFileType
    <2>1. ListedIn(outline, text, modifiedLine, invalidLine)
      BY <1>3, StepTold DEF OutlineInv
    <2>2. Stepped /\ HostTypes'
      BY <1>1, StepKinds DEF Stepped
    <2>3. CASE Paints
      <3>1. PICK lno \in Nat : ValidateRegions(lno) /\ lineCount = Len(text) /\ text' = text
        BY <1>1, <2>3 DEF Paints, LinesCounted, SameText
      <3>2. ListedIn(outline', text, modifiedLine', invalidLine')
        BY <1>1, <2>1, <3>1, PaintTells
      <3> QED
        BY <3>1, <3>2
    <2>4. CASE Warms
      <3>1. PICK lno \in Int : ValidateCache(lno) /\ lineCount = Len(text) /\ text' = text
        BY <1>1, <2>4 DEF Warms, LinesCounted, SameText
      <3>2. ListedIn(outline', text, modifiedLine', invalidLine')
        BY <1>1, <2>1, <3>1, WarmTells
      <3> QED
        BY <3>1, <3>2
    <2>5. CASE Redraws
      BY <1>1, <2>1, <2>2, <2>5, RedrawTells
    <2>6. CASE Restarts
      <3>1. /\ invalidLine' = 0 /\ text' = text
            /\ UNCHANGED <<outline, modifiedLine>> \/ (outline' = <<>> /\ modifiedLine' = 0)
        BY <2>6 DEF Restarts, SameText, listener
      <3> QED
        BY <1>1, <2>1, <3>1, ListedNone, ListedLess
    <2>7. CASE Rests
      <3>1. text' = text /\ UNCHANGED <<outline, modifiedLine, invalidLine>>
        BY <2>7 DEF Rests, SameText, engine, listener
      <3> QED
        BY <2>1, <3>1
    <2> QED
      BY <2>2, <2>3, <2>4, <2>5, <2>6, <2>7 DEF Stepped
  <1> QED
    BY <1>2, <1>3

(* A full listing of the valid lines is what a parse of them would tell.   *)
LEMMA ListsOne ==
  ASSUME NEW L, NEW N, NEW f, NEW t, NEW a \in Nat, NEW b \in Nat, Lists(L, f, t, 0, b), 
         Lists(N, f, t, 0, a), \A i \in 1 .. Len(L) : L[i].lno < a,
         \A l \in Nat : l < a /\ t[l + 1] = "item" => Has(N, l)
  PROVE  ToSet(L) \subseteq ToSet(N)
  <1>1. L \in Seq(Items) /\ N \in Seq(Items)
    BY DEF Lists
  <1>2. ASSUME NEW i \in 1 .. Len(L) PROVE \E j \in 1 .. Len(N) : N[j] = L[i]
    <2>1. L[i].lno \in Nat /\ L[i].lno < a
      BY <1>1, LineOfItem
    <2>2. t[L[i].lno + 1] = "item" /\ L[i].level = f[L[i].lno]
      BY DEF Lists
    <2>3. Has(N, L[i].lno)
      BY <2>1, <2>2
    <2>4. PICK j \in 1 .. Len(N) : N[j].lno = L[i].lno
      BY <2>3 DEF Has
    <2>5. N[j].level = f[N[j].lno]
      BY DEF Lists
    <2>6. N[j] \in Items /\ L[i] \in Items
      BY <1>1
    <2>7. N[j] = L[i]
      BY <2>2, <2>4, <2>5, <2>6 DEF Items
    <2> QED
      BY <2>7
  <1>3. DOMAIN L = 1 .. Len(L) /\ DOMAIN N = 1 .. Len(N)
    BY <1>1
  <1> QED
    BY <1>2, <1>3 DEF ToSet

(* Unless the outliner was not told of a change, the outline of the valid  *)
(* lines names each of their items and nothing else, in order.             *)
THEOREM OutlineIsComplete == Spec => []OutlineComplete
  <1>1. ASSUME OutlineInv, ~untold PROVE OutlineMaintained
    <2> DEFINE f == Depths(text)
               V == OutlineBefore(outline, invalidLine)
               N == ItemsOf(0, f, invalidLine)
    <2>1. /\ text \in Seq(Kinds) /\ Len(text) \in Nat /\ invalidLine \in Nat /\ invalidLine <= Len(text)
      BY <1>1 DEF OutlineInv, KnownInv, Types, HostTypes, Knows
    <2>2. ListedIn(outline, text, modifiedLine, invalidLine)
      BY <1>1 DEF OutlineInv
    <2>3. TrueDepth = f
      BY TrueDepthIs
    <2>4. \A l \in 0 .. invalidLine - 1 : f[l] \in Nat
      <3>1. \A l \in 0 .. Len(text) : f[l] \in Levels
        BY <2>1, DepthsInLevels
      <3> HIDE DEF f
      <3> QED
        BY <2>1, <3>1, EditorAssumption DEF Levels
    <2>5. Lists(outline, f, text, 0, Len(text))
      BY <2>2 DEF ListedIn
    <2> HIDE DEF f
    <2>6. /\ Lists(N, f, text, 0, invalidLine)
          /\ \A l \in 0 .. invalidLine - 1 : text[l + 1] = "item" => Has(N, l)
      <3>1. 0 \in Nat /\ 0 <= invalidLine
        BY <2>1
      <3> QED
        BY <2>1, <2>4, <3>1, ItemsAre
    <2>7. /\ Lists(V, f, text, 0, Len(text))
          /\ \A i \in 1 .. Len(V) : V[i].lno < invalidLine
          /\ \A l \in Nat : l < invalidLine /\ Has(outline, l) => Has(V, l)
      BY <2>1, <2>5, BeforeLine
    <2>8. OutlineMaintained <=> /\ ToSet(V) = ToSet(N)
                                /\ \A i \in 1 .. Len(V) - 1 : V[i].lno <= V[i + 1].lno
      BY <2>3 DEF OutlineMaintained
    <2> HIDE DEF V, N
    <2>9. ToSet(V) \subseteq ToSet(N)
      <3>1. \A l \in Nat : l < invalidLine /\ text[l + 1] = "item" => Has(N, l)
        BY <2>1, <2>6
      <3> QED
        BY <2>1, <2>6, <2>7, <3>1, ListsOne
    <2>10. ToSet(N) \subseteq ToSet(V)
      <3> DEFINE n == invalidLine
      <3>1. \A l \in Nat : l < n /\ text[l + 1] = "item" => Has(V, l)
        <4> TAKE l \in Nat
        <4> HAVE l < n /\ text[l + 1] = "item"
        <4>1. Has(outline, l)
          BY <2>1, <2>2 DEF ListedIn
        <4> QED
          BY <2>7, <4>1
      <3>2. Lists(V, f, text, 0, n)
        BY <2>7 DEF Lists
      <3>3. \A i \in 1 .. Len(N) : N[i].lno < n
        BY <2>6 DEF Lists
      <3> HIDE DEF n
      <3>4. n \in Nat /\ Lists(N, f, text, 0, n)
        BY <2>1, <2>6 DEF n
      <3> QED
        BY <3>1, <3>2, <3>3, <3>4, ListsOne
    <2>11. ASSUME NEW i \in 1 .. Len(V) - 1 PROVE V[i].lno <= V[i + 1].lno
      <3>1. V \in Seq(Items) /\ Len(V) \in Nat
        BY <2>7 DEF Lists
      <3>2. i \in 1 .. Len(V) /\ i + 1 \in 1 .. Len(V) /\ i < i + 1
        BY <3>1
      <3> QED
        BY <2>7, <3>2 DEF Lists
    <2> QED
      BY <2>8, <2>9, <2>10, <2>11
  <1>2. OutlineInv => OutlineComplete
    BY <1>1 DEF OutlineComplete
  <1> QED
    BY <1>2, InitOutline, StepOutline, PTL DEF Spec

=============================================================================
