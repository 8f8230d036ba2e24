------------------------- MODULE Incremental_proofs -------------------------
(***************************************************************************)
(* Proof that incremental parsing is right: whatever the history of        *)
(* parses, edits, breaks and re-parses, the line cache knows the blocks    *)
(* that the whole text opens, a region handler ends with them, and         *)
(* tryParseLine gives the right answer, as long as blocks do not nest      *)
(* beyond MAX_RECURSION_LEVEL on the call stack.                           *)
(***************************************************************************)
EXTENDS TextParser_proofs

-----------------------------------------------------------------------------
(* The reference reading of a text (Feed, OpenAfter, OpenAt of Scheme): its*)
(* recursive functions are what their equations say, what they return, and *)
(* that blocks which are alike are read alike.                             *)

(* Open blocks of the automaton, and its states.                           *)
Stacks == Seq([block : Blocks, sym : Symbols, pos : Nat])
States == [open : Stacks, skip : Nat]

Start(open) == [open |-> open, skip |-> 0]

(* The states of the automaton on a line: the function OpenAfter defines.  *)
Run(open, line) ==
  LET f[i \in 0..Len(line)] == IF i = 0 THEN [open |-> open, skip |-> 0]
                               ELSE Feed(f[i - 1], line, i - 1)
  IN  f

(* The scheme in whose content nodes are looked for.                       *)
Top(s) == IF s = <<>> THEN Base ELSE Last(s).block

(* Whether the innermost block ends at i, and where a node must stop there.*)
EndsHere(s, line, i) ==
  s # <<>> /\ i \in EndsFrom(Last(s).block, Last(s).sym, line, i)

Stop(s, line, i) == IF EndsHere(s, line, i) THEN i
                    ELSE IF EndsHere(s, line, i + 1) THEN i + 1 ELSE Len(line)

-----------------------------------------------------------------------------
(* Induction over the naturals, for a set.                                 *)
LEMMA Induction ==
  ASSUME NEW S, 0 \in S, \A n \in Nat : n \in S => n + 1 \in S
  PROVE  Nat \subseteq S
  <1> DEFINE T == Nat \ S
  <1>1. ASSUME T # {} PROVE FALSE
    <2>1. PICK m \in T : \A k \in T : m <= k
      BY <1>1, Least
    <2>2. m \in Nat /\ m # 0
      OBVIOUS
    <2>3. m - 1 \in Nat /\ m - 1 \notin T
      BY <2>1, <2>2
    <2>4. m - 1 \in S /\ (m - 1) + 1 = m
      BY <2>2, <2>3
    <2>5. m \in S
      BY <2>3, <2>4
    <2> QED
      BY <2>5
  <1> QED
    BY <1>1

(* The states of the automaton exist: they can be written down one symbol  *)
(* after the other.                                                        *)
LEMMA RunIs ==
  ASSUME NEW open, NEW line, Len(line) \in Nat
  PROVE  Run(open, line) = [i \in 0..Len(line) |->
           IF i = 0 THEN Start(open) ELSE Feed(Run(open, line)[i - 1], line, i - 1)]
  <1> DEFINE IsRun(g, n) ==
               g = [i \in 0..n |-> IF i = 0 THEN Start(open)
                                   ELSE Feed(g[i - 1], line, i - 1)]
             S == {n \in Nat : \E g : IsRun(g, n)}
  <1>1. 0 \in S
    <2> DEFINE g == [i \in 0..0 |-> Start(open)]
    <2>1. IsRun(g, 0)
      OBVIOUS
    <2> HIDE DEF g, IsRun
    <2> QED
      BY <2>1
  <1>2. ASSUME NEW n \in Nat, n \in S PROVE n + 1 \in S
    <2>1. PICK g : IsRun(g, n)
      BY <1>2
    <2> DEFINE h == [i \in 0..n + 1 |-> IF i = n + 1 THEN Feed(g[n], line, n) ELSE g[i]]
    <2>2. \A i \in 0..n : h[i] = g[i]
      OBVIOUS
    <2>3. \A i \in 0..n + 1 :
            h[i] = IF i = 0 THEN Start(open) ELSE Feed(h[i - 1], line, i - 1)
      <3> TAKE i \in 0..n + 1
      <3>1. CASE i = n + 1
        BY <3>1
      <3>2. CASE i \in 0..n
        <4>1. g[i] = IF i = 0 THEN Start(open) ELSE Feed(g[i - 1], line, i - 1)
          BY <2>1, <3>2
        <4>2. i # 0 => i - 1 \in 0..n
          BY <3>2
        <4> HIDE DEF h, IsRun
        <4> QED
          BY <2>2, <3>2, <4>1, <4>2
      <3> QED
        BY <3>1, <3>2
    <2>4. IsRun(h, n + 1)
      BY <2>3
    <2> HIDE DEF h, IsRun
    <2> QED
      BY <2>4
  <1>3. Len(line) \in S
    <2> HIDE DEF S
    <2> QED
      BY <1>1, <1>2, Induction
  <1>4. PICK g : IsRun(g, Len(line))
    BY <1>3
  <1> QED
    BY <1>4 DEF Run, Start

(* They start with the blocks open at the start of the line ...            *)
LEMMA RunStart ==
  ASSUME NEW open, NEW line, Len(line) \in Nat
  PROVE  Run(open, line)[0] = Start(open)
  <1> DEFINE r == Run(open, line)
  <1>1. r = [i \in 0..Len(line) |-> IF i = 0 THEN Start(open) ELSE Feed(r[i - 1], line, i - 1)]
    BY RunIs
  <1> HIDE DEF r
  <1> QED
    BY <1>1 DEF r

(* ... and each follows from the one before and the next symbol.           *)
LEMMA RunStep ==
  ASSUME NEW open, NEW line, Len(line) \in Nat, NEW i \in 0..Len(line) - 1
  PROVE  Run(open, line)[i + 1] = Feed(Run(open, line)[i], line, i)
  <1> DEFINE r == Run(open, line)
  <1>1. r = [j \in 0..Len(line) |-> IF j = 0 THEN Start(open) ELSE Feed(r[j - 1], line, j - 1)]
    BY RunIs
  <1> HIDE DEF r
  <1>2. i + 1 \in 0..Len(line) /\ i + 1 # 0 /\ (i + 1) - 1 = i
    OBVIOUS
  <1>3. r[i + 1] = Feed(r[(i + 1) - 1], line, (i + 1) - 1)
    BY <1>1, <1>2
  <1> QED
    BY <1>2, <1>3 DEF r

(* The blocks open after the line are those of the last state.             *)
LEMMA OpenAfterIs ==
  ASSUME NEW open, NEW line
  PROVE  OpenAfter(open, line) = Run(open, line)[Len(line)].open
  BY DEF OpenAfter, Run

(* The blocks open at the start of every line exist in the same way.       *)
LEMMA OpenAtIs ==
  ASSUME NEW t, NEW n \in Nat
  PROVE  OpenAt(t, n) = [l \in 0..n |->
           IF l = 0 THEN <<>> ELSE OpenAfter(OpenAt(t, n)[l - 1], t[l - 1])]
  <1> DEFINE IsOpen(g, m) ==
               g = [l \in 0..m |-> IF l = 0 THEN <<>>
                                   ELSE OpenAfter(g[l - 1], t[l - 1])]
             S == {m \in Nat : \E g : IsOpen(g, m)}
  <1>1. 0 \in S
    <2> DEFINE g == [l \in 0..0 |-> <<>>]
    <2>1. IsOpen(g, 0)
      OBVIOUS
    <2> HIDE DEF g, IsOpen
    <2> QED
      BY <2>1
  <1>2. ASSUME NEW m \in Nat, m \in S PROVE m + 1 \in S
    <2>1. PICK g : IsOpen(g, m)
      BY <1>2
    <2> DEFINE h == [l \in 0..m + 1 |-> IF l = m + 1 THEN OpenAfter(g[m], t[m]) ELSE g[l]]
    <2>2. \A l \in 0..m : h[l] = g[l]
      OBVIOUS
    <2>3. \A l \in 0..m + 1 :
            h[l] = IF l = 0 THEN <<>> ELSE OpenAfter(h[l - 1], t[l - 1])
      <3> TAKE l \in 0..m + 1
      <3>1. CASE l = m + 1
        BY <3>1
      <3>2. CASE l \in 0..m
        <4>1. g[l] = IF l = 0 THEN <<>> ELSE OpenAfter(g[l - 1], t[l - 1])
          BY <2>1, <3>2
        <4>2. l # 0 => l - 1 \in 0..m
          BY <3>2
        <4> HIDE DEF h, IsOpen
        <4> QED
          BY <2>2, <3>2, <4>1, <4>2
      <3> QED
        BY <3>1, <3>2
    <2>4. IsOpen(h, m + 1)
      BY <2>3
    <2> HIDE DEF h, IsOpen
    <2> QED
      BY <2>4
  <1>3. n \in S
    <2> HIDE DEF S
    <2> QED
      BY <1>1, <1>2, Induction
  <1>4. PICK g : IsOpen(g, n)
    BY <1>3
  <1> QED
    BY <1>4 DEF OpenAt

(* No block is open at the start of the text, and what is open at the      *)
(* start of the next line is what OpenAfter makes of this one.             *)
LEMMA OpenAtStep ==
  ASSUME NEW t, NEW n \in Nat
  PROVE  /\ OpenAt(t, n)[0] = <<>>
         /\ \A l \in 0..n - 1 : OpenAt(t, n)[l + 1] = OpenAfter(OpenAt(t, n)[l], t[l])
  <1> DEFINE o == OpenAt(t, n)
  <1>1. o = [l \in 0..n |-> IF l = 0 THEN <<>> ELSE OpenAfter(o[l - 1], t[l - 1])]
    BY OpenAtIs
  <1> HIDE DEF o
  <1>2. o[0] = <<>>
    BY <1>1
  <1>3. ASSUME NEW l \in 0..n - 1 PROVE o[l + 1] = OpenAfter(o[l], t[l])
    <2>1. l + 1 \in 0..n /\ l + 1 # 0 /\ (l + 1) - 1 = l
      OBVIOUS
    <2>2. o[l + 1] = OpenAfter(o[(l + 1) - 1], t[(l + 1) - 1])
      BY <1>1, <2>1
    <2> QED
      BY <2>1, <2>2
  <1> QED
    BY <1>2, <1>3 DEF o

(* A line only matters to the lines after it.                              *)
LEMMA OpenAtPrefix ==
  ASSUME NEW t, NEW u, NEW n \in Nat, NEW k \in 0..n, \A l \in 0..k - 1 : t[l] = u[l]
  PROVE  \A l \in 0..k : OpenAt(t, n)[l] = OpenAt(u, n)[l]
  <1> DEFINE S == {l \in Nat : l <= k => OpenAt(t, n)[l] = OpenAt(u, n)[l]}
  <1>1. 0 \in S
    BY OpenAtStep
  <1>2. ASSUME NEW l \in Nat, l \in S PROVE l + 1 \in S
    <2> SUFFICES ASSUME l + 1 <= k PROVE OpenAt(t, n)[l + 1] = OpenAt(u, n)[l + 1]
      OBVIOUS
    <2>1. l \in 0..n - 1 /\ l \in 0..k - 1 /\ OpenAt(t, n)[l] = OpenAt(u, n)[l]
      BY <1>2
    <2>2. /\ OpenAt(t, n)[l + 1] = OpenAfter(OpenAt(t, n)[l], t[l])
          /\ OpenAt(u, n)[l + 1] = OpenAfter(OpenAt(u, n)[l], u[l])
      BY <2>1, OpenAtStep
    <2> QED
      BY <2>1, <2>2
  <1>3. Nat \subseteq S
    <2> HIDE DEF S
    <2> QED
      BY <1>1, <1>2, Induction
  <1> QED
    BY <1>3

-----------------------------------------------------------------------------
(* What reading returns.                                                   *)

(* The innermost block and the blocks around it.                           *)
LEMMA StackTop ==
  ASSUME NEW s \in Stacks
  PROVE  /\ Top(s) \in Schemes /\ Len(s) \in Nat
         /\ s # <<>> => /\ Last(s) \in [block : Blocks, sym : Symbols, pos : Nat]
                        /\ Top(s) \in Blocks /\ Front(s) \in Stacks
                        /\ Len(s) # 0
  <1>1. Len(s) \in Nat
    BY DEF Stacks
  <1>2. CASE s = <<>>
    BY <1>1, <1>2 DEF Top, Schemes
  <1>3. CASE s # <<>>
    <2>1. /\ Front(s) \in Stacks /\ Len(s) \in Nat \ {0}
          /\ Last(s) \in [block : Blocks, sym : Symbols, pos : Nat]
      BY <1>3, FrontAndLast DEF Stacks
    <2> QED
      BY <1>3, <2>1 DEF Top, Schemes
  <1> QED
    BY <1>2, <1>3

(* The block that a start match opens.                                     *)
Opened(n, line, g) == [block |-> n, sym |-> line[g + 1], pos |-> g]

(* The next state, with a name for each thing the automaton looks at.      *)
LEMMA FeedIs ==
  ASSUME NEW st \in States, NEW line, NEW g
  PROVE  Feed(st, line, g) =
           LET at == NodeAt(Top(st.open), line, g, Stop(st.open, line, g))
               n == SearchMatch(Top(st.open), line, g, Stop(st.open, line, g))
           IN  IF g < st.skip THEN st
               ELSE IF at # {}
               THEN IF n \in Blocks THEN [st EXCEPT !.open = Append(@, Opened(n, line, g))]
                    ELSE [st EXCEPT !.skip = g + 2]
               ELSE IF EndsHere(st.open, line, g) THEN [st EXCEPT !.open = Front(@)]
               ELSE st
  BY DEF Feed, Top, Stop, EndsHere, Opened

(* Feed goes from state to state.                                          *)
LEMMA FeedType ==
  ASSUME NEW st \in States, NEW line \in Seq(Symbols), NEW g \in Nat, g < Len(line)
  PROVE  Feed(st, line, g) \in States
  <1> DEFINE stop == Stop(st.open, line, g)
             n == SearchMatch(Top(st.open), line, g, stop)
             at == NodeAt(Top(st.open), line, g, stop)
  <1>1. st.open \in Stacks /\ st.skip \in Nat /\ Top(st.open) \in Schemes
    BY StackTop DEF States
  <1>2. line[g + 1] \in Symbols
    <2>1. g + 1 \in 1..Len(line)
      OBVIOUS
    <2> QED
      BY <2>1, ElementOfSeq
  <1>3. [st EXCEPT !.skip = g + 2] \in States
    BY DEF States
  <1>4. n \in Blocks => [st EXCEPT !.open = Append(@, Opened(n, line, g))] \in States
    <2> SUFFICES ASSUME n \in Blocks
                 PROVE  [st EXCEPT !.open = Append(@, Opened(n, line, g))] \in States
      OBVIOUS
    <2> HIDE DEF n
    <2>1. Opened(n, line, g) \in [block : Blocks, sym : Symbols, pos : Nat]
      BY <1>2 DEF Opened
    <2>2. Append(st.open, Opened(n, line, g)) \in Stacks
      BY <1>1, <2>1, AppendProperties DEF Stacks
    <2> QED
      BY <2>2 DEF States
  <1>5. EndsHere(st.open, line, g) => [st EXCEPT !.open = Front(@)] \in States
    <2>1. EndsHere(st.open, line, g) => Front(st.open) \in Stacks
      BY <1>1, StackTop DEF EndsHere
    <2> QED
      BY <2>1 DEF States
  <1> HIDE DEF n, stop, at
  <1> QED
    BY <1>3, <1>4, <1>5, FeedIs DEF n, stop, at

(* So does a line ...                                                      *)
LEMMA RunType ==
  ASSUME NEW open \in Stacks, NEW line \in Seq(Symbols)
  PROVE  \A i \in 0..Len(line) : Run(open, line)[i] \in States
  <1> DEFINE S == {i \in Nat : i <= Len(line) => Run(open, line)[i] \in States}
  <1>0. Len(line) \in Nat
    OBVIOUS
  <1>1. 0 \in S
    <2>1. Start(open) \in States
      BY DEF Start, States
    <2> QED
      BY <1>0, <2>1, RunStart
  <1>2. ASSUME NEW i \in Nat, i \in S PROVE i + 1 \in S
    <2> SUFFICES ASSUME i + 1 <= Len(line) PROVE Run(open, line)[i + 1] \in States
      OBVIOUS
    <2>1. Run(open, line)[i] \in States /\ i \in 0..Len(line) - 1
      BY <1>0, <1>2
    <2>2. Run(open, line)[i + 1] = Feed(Run(open, line)[i], line, i)
      BY <1>0, <2>1, RunStep
    <2>3. i < Len(line)
      BY <1>0
    <2> QED
      BY <2>1, <2>2, <2>3, FeedType
  <1>3. Nat \subseteq S
    <2> HIDE DEF S
    <2> QED
      BY <1>1, <1>2, Induction
  <1> QED
    BY <1>0, <1>3

(* ... and a text.                                                         *)
LEMMA OpenAfterType ==
  ASSUME NEW open \in Stacks, NEW line \in Seq(Symbols)
  PROVE  OpenAfter(open, line) \in Stacks
  <1>1. Run(open, line)[Len(line)] \in States
    BY RunType
  <1> QED
    BY <1>1, OpenAfterIs DEF States

(* Every line starts with blocks of the language open.                     *)
LEMMA OpenAtType ==
  ASSUME NEW n \in Nat, NEW t \in [0..n - 1 -> Seq(Symbols)]
  PROVE  \A l \in 0..n : OpenAt(t, n)[l] \in Stacks
  <1> DEFINE S == {l \in Nat : l <= n => OpenAt(t, n)[l] \in Stacks}
  <1>1. 0 \in S
    BY OpenAtStep, EmptySeq DEF Stacks
  <1>2. ASSUME NEW l \in Nat, l \in S PROVE l + 1 \in S
    <2> SUFFICES ASSUME l + 1 <= n PROVE OpenAt(t, n)[l + 1] \in Stacks
      OBVIOUS
    <2>1. l \in 0..n - 1 /\ OpenAt(t, n)[l] \in Stacks
      BY <1>2
    <2> QED
      BY <2>1, OpenAtStep, OpenAfterType
  <1>3. Nat \subseteq S
    <2> HIDE DEF S
    <2> QED
      BY <1>1, <1>2, Induction
  <1> QED
    BY <1>3

-----------------------------------------------------------------------------
(* Stacks that are alike: the parser only ever knows the open blocks up to *)
(* the start texts that no end expression can see.                         *)
(* Being alike is an equivalence: reflexive, ...                           *)
LEMMA SameSelf == ASSUME NEW a \in Stacks PROVE SameLevels(a, a)
  BY DEF SameLevels, SameLevel

(* ... symmetric ...                                                       *)
LEMMA SameSymmetric ==
  ASSUME NEW a \in Stacks, NEW b \in Stacks, SameLevels(a, b)
  PROVE  SameLevels(b, a)
  <1>1. DOMAIN a = DOMAIN b
    BY DEF SameLevels, Stacks
  <1> QED
    BY <1>1 DEF SameLevels, SameLevel

(* ... and transitive.                                                     *)
LEMMA SameTransitive ==
  ASSUME NEW a \in Stacks, NEW b \in Stacks, NEW c \in Stacks,
         SameLevels(a, b), SameLevels(b, c)
  PROVE  SameLevels(a, c)
  <1>1. DOMAIN a = DOMAIN b
    BY DEF SameLevels, Stacks
  <1> QED
    BY <1>1 DEF SameLevels, SameLevel

(* Stacks stay alike when the same block is entered ...                    *)
LEMMA SameAppend ==
  ASSUME NEW a \in Stacks, NEW b \in Stacks, SameLevels(a, b),
         NEW x \in [block : Blocks, sym : Symbols, pos : Nat]
  PROVE  SameLevels(Append(a, x), Append(b, x))
  <1>1. Len(a) = Len(b) /\ Len(a) \in Nat
    BY DEF SameLevels, Stacks
  <1>2. \A k \in 1..Len(a) : SameLevel(a[k], b[k])
    BY LenProperties DEF SameLevels, Stacks
  <1>3. /\ Len(Append(a, x)) = Len(a) + 1 /\ Len(Append(b, x)) = Len(b) + 1
        /\ \A k \in 1..Len(a) : Append(a, x)[k] = a[k]
        /\ \A k \in 1..Len(b) : Append(b, x)[k] = b[k]
        /\ Append(a, x)[Len(a) + 1] = x /\ Append(b, x)[Len(b) + 1] = x
        /\ DOMAIN Append(a, x) = 1..Len(a) + 1
    BY AppendProperties DEF Stacks
  <1>4. SameLevel(x, x)
    BY DEF SameLevel
  <1>5. \A k \in 1..Len(a) + 1 : SameLevel(Append(a, x)[k], Append(b, x)[k])
    <2> TAKE k \in 1..Len(a) + 1
    <2>1. CASE k \in 1..Len(a)
      BY <1>1, <1>2, <1>3, <2>1
    <2>2. CASE k = Len(a) + 1
      BY <1>1, <1>3, <1>4, <2>2
    <2> QED
      BY <1>1, <2>1, <2>2
  <1> QED
    BY <1>1, <1>3, <1>5 DEF SameLevels

(* ... and when the innermost is left.                                     *)
LEMMA SameFront ==
  ASSUME NEW a \in Stacks, NEW b \in Stacks, SameLevels(a, b), a # <<>>
  PROVE  b # <<>> /\ SameLevels(Front(a), Front(b)) /\ SameLevel(Last(a), Last(b))
  <1>1. /\ Len(a) = Len(b) /\ Len(a) \in Nat \ {0}
        /\ \A k \in 1..Len(a) : SameLevel(a[k], b[k])
    BY EmptySeq DEF SameLevels, Stacks
  <1>2. b # <<>>
    BY <1>1
  <1>3. /\ Front(a) \in Stacks /\ Len(Front(a)) = Len(a) - 1
        /\ \A k \in 1..Len(a) - 1 : Front(a)[k] = a[k]
        /\ Last(a) = a[Len(a)]
    BY FrontAndLast DEF Stacks
  <1>4. /\ Front(b) \in Stacks /\ Len(Front(b)) = Len(b) - 1
        /\ \A k \in 1..Len(b) - 1 : Front(b)[k] = b[k]
        /\ Last(b) = b[Len(b)]
    BY <1>2, FrontAndLast DEF Stacks
  <1>5. DOMAIN Front(a) = 1..Len(a) - 1
    BY <1>3 DEF Stacks
  <1> QED
    BY <1>1, <1>2, <1>3, <1>4, <1>5 DEF SameLevels

(* Stacks that are alike have the same innermost block, and it ends at the *)
(* same places.                                                            *)
LEMMA SameEnds ==
  ASSUME NEW a \in Stacks, NEW b \in Stacks, SameLevels(a, b)
  PROVE  /\ a = <<>> <=> b = <<>>
         /\ Top(a) = Top(b)
         /\ a # <<>> => \A line, x : EndsFrom(Last(a).block, Last(a).sym, line, x)
                                       = EndsFrom(Last(b).block, Last(b).sym, line, x)
         /\ \A line, x : EndsHere(a, line, x) = EndsHere(b, line, x)
         /\ \A line, x : Stop(a, line, x) = Stop(b, line, x)
  <1>1. a = <<>> <=> b = <<>>
    BY SameSymmetric, SameFront
  <1>2. ASSUME a # <<>>
        PROVE  /\ Last(a).block = Last(b).block
               /\ Ends[Last(a).block][Last(a).sym] = Ends[Last(b).block][Last(b).sym]
    <2>1. SameLevel(Last(a), Last(b))
      BY <1>2, SameFront
    <2>2. /\ Last(a) \in [block : Blocks, sym : Symbols, pos : Nat]
          /\ Last(b) \in [block : Blocks, sym : Symbols, pos : Nat]
      BY <1>1, <1>2, StackTop
    <2> QED
      BY <2>1, <2>2, SchemeAssumption DEF SameLevel, SchemeAssumption
  <1>3. Top(a) = Top(b)
    BY <1>1, <1>2 DEF Top
  <1>4. a # <<>> => \A line, x : EndsFrom(Last(a).block, Last(a).sym, line, x)
                                   = EndsFrom(Last(b).block, Last(b).sym, line, x)
    BY <1>2 DEF EndsFrom
  <1>5. \A line, x : EndsHere(a, line, x) = EndsHere(b, line, x)
    BY <1>1, <1>4 DEF EndsHere
  <1>6. \A line, x : Stop(a, line, x) = Stop(b, line, x)
    BY <1>5 DEF Stop
  <1> QED
    BY <1>1, <1>3, <1>4, <1>5, <1>6

(* From stacks that are alike a symbol leads to stacks that are alike, ... *)
LEMMA SameFeed ==
  ASSUME NEW a \in States, NEW b \in States, SameLevels(a.open, b.open), a.skip = b.skip,
         NEW line \in Seq(Symbols), NEW g \in Nat, g < Len(line)
  PROVE  /\ SameLevels(Feed(a, line, g).open, Feed(b, line, g).open)
         /\ Feed(a, line, g).skip = Feed(b, line, g).skip
  <1> DEFINE stop == Stop(a.open, line, g)
             n == SearchMatch(Top(a.open), line, g, stop)
             at == NodeAt(Top(a.open), line, g, stop)
  <1>1. a.open \in Stacks /\ b.open \in Stacks
    BY DEF States
  <1>2. /\ Top(a.open) = Top(b.open) /\ stop = Stop(b.open, line, g)
        /\ EndsHere(a.open, line, g) = EndsHere(b.open, line, g)
    BY <1>1, SameEnds
  <1>3. Feed(a, line, g) =
          IF g < a.skip THEN a
          ELSE IF at # {}
          THEN IF n \in Blocks THEN [a EXCEPT !.open = Append(@, Opened(n, line, g))]
               ELSE [a EXCEPT !.skip = g + 2]
          ELSE IF EndsHere(a.open, line, g) THEN [a EXCEPT !.open = Front(@)]
          ELSE a
    BY FeedIs
  <1>4. Feed(b, line, g) =
          IF g < a.skip THEN b
          ELSE IF at # {}
          THEN IF n \in Blocks THEN [b EXCEPT !.open = Append(@, Opened(n, line, g))]
               ELSE [b EXCEPT !.skip = g + 2]
          ELSE IF EndsHere(a.open, line, g) THEN [b EXCEPT !.open = Front(@)]
          ELSE b
    <2>1. Feed(b, line, g) =
            LET here == NodeAt(Top(b.open), line, g, Stop(b.open, line, g))
                m == SearchMatch(Top(b.open), line, g, Stop(b.open, line, g))
            IN  IF g < b.skip THEN b
                ELSE IF here # {}
                THEN IF m \in Blocks THEN [b EXCEPT !.open = Append(@, Opened(m, line, g))]
                     ELSE [b EXCEPT !.skip = g + 2]
                ELSE IF EndsHere(b.open, line, g) THEN [b EXCEPT !.open = Front(@)]
                ELSE b
      BY FeedIs
    <2>2. /\ NodeAt(Top(b.open), line, g, Stop(b.open, line, g)) = at
          /\ SearchMatch(Top(b.open), line, g, Stop(b.open, line, g)) = n
      BY <1>2
    <2> HIDE DEF at, n
    <2> QED
      BY <1>2, <2>1, <2>2
  <1>5. n \in Blocks => SameLevels(Append(a.open, Opened(n, line, g)),
                                   Append(b.open, Opened(n, line, g)))
    <2> SUFFICES ASSUME n \in Blocks
                 PROVE  SameLevels(Append(a.open, Opened(n, line, g)),
                                   Append(b.open, Opened(n, line, g)))
      OBVIOUS
    <2> HIDE DEF n
    <2>1. g + 1 \in 1..Len(line)
      OBVIOUS
    <2>2. Opened(n, line, g) \in [block : Blocks, sym : Symbols, pos : Nat]
      BY <2>1, ElementOfSeq DEF Opened
    <2> QED
      BY <1>1, <2>2, SameAppend
  <1>6. EndsHere(a.open, line, g) => SameLevels(Front(a.open), Front(b.open))
    BY <1>1, SameFront DEF EndsHere
  <1> HIDE DEF n, stop, at
  <1>7. CASE g < a.skip
    BY <1>3, <1>4, <1>7
  <1>8. CASE ~ (g < a.skip) /\ at # {} /\ n \in Blocks
    BY <1>3, <1>4, <1>5, <1>8 DEF States
  <1>9. CASE ~ (g < a.skip) /\ at # {} /\ n \notin Blocks
    BY <1>3, <1>4, <1>9 DEF States
  <1>10. CASE ~ (g < a.skip) /\ at = {} /\ EndsHere(a.open, line, g)
    BY <1>3, <1>4, <1>6, <1>10 DEF States
  <1>11. CASE ~ (g < a.skip) /\ at = {} /\ ~ EndsHere(a.open, line, g)
    BY <1>3, <1>4, <1>11
  <1> QED
    BY <1>7, <1>8, <1>9, <1>10, <1>11

(* ... and so does a line.                                                 *)
LEMMA SameAfter ==
  ASSUME NEW a \in Stacks, NEW b \in Stacks, SameLevels(a, b), NEW line \in Seq(Symbols)
  PROVE  SameLevels(OpenAfter(a, line), OpenAfter(b, line))
  <1> DEFINE S == {i \in Nat : i <= Len(line) =>
                     /\ SameLevels(Run(a, line)[i].open, Run(b, line)[i].open)
                     /\ Run(a, line)[i].skip = Run(b, line)[i].skip}
  <1>0. Len(line) \in Nat
    OBVIOUS
  <1>1. 0 \in S
    <2>1. Run(a, line)[0] = Start(a) /\ Run(b, line)[0] = Start(b)
      BY <1>0, RunStart
    <2> QED
      BY <2>1 DEF Start
  <1>2. ASSUME NEW i \in Nat, i \in S PROVE i + 1 \in S
    <2> SUFFICES ASSUME i + 1 <= Len(line)
                 PROVE  /\ SameLevels(Run(a, line)[i + 1].open, Run(b, line)[i + 1].open)
                        /\ Run(a, line)[i + 1].skip = Run(b, line)[i + 1].skip
      OBVIOUS
    <2>1. /\ i \in 0..Len(line) - 1 /\ i \in 0..Len(line) /\ i < Len(line)
          /\ SameLevels(Run(a, line)[i].open, Run(b, line)[i].open)
          /\ Run(a, line)[i].skip = Run(b, line)[i].skip
      BY <1>0, <1>2
    <2>2. Run(a, line)[i] \in States /\ Run(b, line)[i] \in States
      BY <2>1, RunType
    <2>3. /\ Run(a, line)[i + 1] = Feed(Run(a, line)[i], line, i)
          /\ Run(b, line)[i + 1] = Feed(Run(b, line)[i], line, i)
      BY <1>0, <2>1, RunStep
    <2> QED
      BY <2>1, <2>2, <2>3, SameFeed
  <1>3. Nat \subseteq S
    <2> HIDE DEF S
    <2> QED
      BY <1>1, <1>2, Induction
  <1> QED
    BY <1>0, <1>3, OpenAfterIs

-----------------------------------------------------------------------------
(* What LineBegin finds of the end of the innermost block of s from x on:  *)
(* f, m are found and matchend.                                            *)
EndIs(s, line, x, m, f) ==
  /\ f \in BOOLEAN
  /\ m.s \in x..Len(line) /\ m.e = (IF f THEN m.s + 1 ELSE m.s)
  /\ IF f THEN EndsHere(s, line, m.s) ELSE m.s = Len(line)
  /\ \A y \in x..m.s - 1 : ~ EndsHere(s, line, y)

(* The blocks s are those open at position x of the line, which no regexp  *)
(* has run over.                                                           *)
ReadTo(open, line, x, s) ==
  /\ x \in 0..Len(line)
  /\ SameLevels(s, Run(open, line)[x].open)
  /\ Run(open, line)[x].skip <= x

-----------------------------------------------------------------------------
(* A block can end only within the line, where its end expression matches. *)
LEMMA EndsWithin ==
  ASSUME NEW s \in Stacks, NEW line \in Seq(Symbols), NEW x \in Nat, EndsHere(s, line, x)
  PROVE  x < Len(line) /\ s # <<>>
  BY DEF EndsHere, EndsFrom

(* The first end that LineBegin finds.                                     *)
LEMMA FirstEnd ==
  ASSUME NEW s \in Stacks, NEW line \in Seq(Symbols), NEW x \in 0..Len(line), NEW E,
         E = (IF s = <<>> THEN {} ELSE EndsFrom(Last(s).block, Last(s).sym, line, x))
  PROVE  EndIs(s, line, x, IF E # {} THEN [s |-> First(E), e |-> First(E) + 1]
                           ELSE [s |-> Len(line), e |-> Len(line)], E # {})
  <1>0. Len(line) \in Nat
    OBVIOUS
  <1>1. E \in SUBSET Nat /\ \A y \in Nat : y \in E <=> y >= x /\ EndsHere(s, line, y)
    BY <1>0 DEF EndsFrom, EndsHere
  <1>2. CASE E # {}
    <2> DEFINE i == First(E)
    <2>1. i \in E /\ \A j \in E : i <= j
      <3>1. PICK m \in E : \A j \in E : m <= j
        BY <1>1, <1>2, Least
      <3> QED
        BY <3>1 DEF First
    <2> HIDE DEF i
    <2>2. i \in Nat /\ i >= x /\ EndsHere(s, line, i) /\ i < Len(line)
      BY <1>1, <2>1, EndsWithin
    <2>3. \A y \in x..i - 1 : ~ EndsHere(s, line, y)
      BY <1>1, <2>1, <2>2
    <2>4. i \in x..Len(line)
      BY <1>0, <2>2
    <2> QED
      BY <1>2, <2>2, <2>3, <2>4 DEF EndIs, i
  <1>3. CASE E = {}
    <2>1. \A y \in x..Len(line) - 1 : ~ EndsHere(s, line, y)
      BY <1>0, <1>1, <1>3
    <2>2. Len(line) \in x..Len(line)
      BY <1>0
    <2> QED
      BY <1>3, <2>1, <2>2 DEF EndIs
  <1> QED
    BY <1>2, <1>3

(* It stays the first end up to where it is.                               *)
LEMMA EndKept ==
  ASSUME NEW s, NEW line \in Seq(Symbols), NEW x \in Nat, NEW m, NEW f,
         EndIs(s, line, x, m, f), NEW y \in x..m.s
  PROVE  EndIs(s, line, y, m, f)
  BY DEF EndIs

(* It decides what fits before it as an end on the next two positions does.*)
LEMMA EndIsStop ==
  ASSUME NEW s, NEW line \in Seq(Symbols), NEW x \in 0..Len(line) - 1, NEW m, NEW f,
         EndIs(s, line, x, m, f)
  PROVE  /\ \A b : NodeAt(b, line, x, m.s) = NodeAt(b, line, x, Stop(s, line, x))
         /\ EndsHere(s, line, x) <=> f /\ m.s = x
  <1>0. Len(line) \in Nat /\ m.s \in x..Len(line)
    BY DEF EndIs
  <1>1. EndsHere(s, line, x) <=> f /\ m.s = x
    BY <1>0 DEF EndIs
  <1>2. \A n : Width(n) \in {1, 2}
    BY DEF Width
  <1>3. \A w \in {1, 2} : x + w <= Len(line) => (x + w <= m.s <=> x + w <= Stop(s, line, x))
    <2>1. CASE m.s = x
      BY <1>0, <1>1, <2>1 DEF EndIs, Stop
    <2>2. CASE m.s = x + 1
      <3>1. Stop(s, line, x) = x + 1
        BY <1>0, <1>1, <2>2 DEF EndIs, Stop
      <3> QED
        BY <2>2, <3>1
    <2>3. CASE m.s \notin {x, x + 1}
      <3>1. x + 2 <= m.s /\ x + 1 \in x..m.s - 1
        BY <1>0, <2>3
      <3>2. Stop(s, line, x) = Len(line)
        BY <1>1, <2>3, <3>1 DEF EndIs, Stop
      <3> QED
        BY <1>0, <3>1, <3>2
    <2> QED
      BY <2>1, <2>2, <2>3
  <1>4. \A n : Matches(n, line, x, m.s) <=> Matches(n, line, x, Stop(s, line, x))
    <2> TAKE n
    <2>1. x + Width(n) <= Len(line)
            => (x + Width(n) <= m.s <=> x + Width(n) <= Stop(s, line, x))
      BY <1>2, <1>3
    <2>2. Matches(n, line, x, m.s) => x + Width(n) <= Len(line)
      BY <1>0, <1>2 DEF Matches
    <2>3. Matches(n, line, x, Stop(s, line, x)) => x + Width(n) <= Len(line)
      BY <1>0, <1>2 DEF Matches, Stop
    <2> QED
      BY <2>1, <2>2, <2>3 DEF Matches
  <1> QED
    BY <1>1, <1>4 DEF NodeAt

-----------------------------------------------------------------------------
(* One symbol read by the automaton from blocks known to be alike.         *)
LEMMA ReadStep ==
  ASSUME NEW open \in Stacks, NEW line \in Seq(Symbols), NEW x \in 0..Len(line) - 1,
         NEW s \in Stacks, ReadTo(open, line, x, s), NEW m, NEW f, EndIs(s, line, x, m, f)
  PROVE  LET at == NodeAt(Top(s), line, x, m.s)
             n == SearchMatch(Top(s), line, x, m.s)
             r == Run(open, line)
         IN  /\ at = {} /\ ~ EndsHere(s, line, x)
                  => SameLevels(s, r[x + 1].open) /\ r[x + 1].skip <= x
             /\ at = {} /\ EndsHere(s, line, x)
                  => SameLevels(Front(s), r[x + 1].open) /\ r[x + 1].skip <= x
             /\ at # {} /\ n \in Blocks
                  => /\ SameLevels(Append(s, Opened(n, line, x)), r[x + 1].open)
                     /\ r[x + 1].skip <= x
             /\ at # {} /\ n \notin Blocks
                  => SameLevels(s, r[x + 1].open) /\ r[x + 1].skip = x + 2
  <1> DEFINE at == NodeAt(Top(s), line, x, m.s)
             n == SearchMatch(Top(s), line, x, m.s)
             r == Run(open, line)
             a == [open |-> s, skip |-> r[x].skip]
  <1>0. Len(line) \in Nat /\ x \in 0..Len(line) /\ x < Len(line) /\ x \in Nat
    OBVIOUS
  <1>1. r[x] \in States /\ r[x].skip \in Nat /\ r[x].skip <= x /\ SameLevels(s, r[x].open)
    BY <1>0, RunType DEF ReadTo, States
  <1>2. a \in States /\ a.open = s /\ a.skip = r[x].skip
    BY <1>1 DEF States
  <1>3. r[x + 1] = Feed(r[x], line, x)
    BY <1>0, RunStep
  <1>4. /\ NodeAt(Top(s), line, x, Stop(s, line, x)) = at
        /\ SearchMatch(Top(s), line, x, Stop(s, line, x)) = n
    <2>1. NodeAt(Top(s), line, x, m.s) = NodeAt(Top(s), line, x, Stop(s, line, x))
      BY EndIsStop
    <2> QED
      BY <2>1 DEF SearchMatch
  <1>5. Feed(a, line, x) =
          IF x < a.skip THEN a
          ELSE IF at # {}
          THEN IF n \in Blocks THEN [a EXCEPT !.open = Append(@, Opened(n, line, x))]
               ELSE [a EXCEPT !.skip = x + 2]
          ELSE IF EndsHere(s, line, x) THEN [a EXCEPT !.open = Front(@)]
          ELSE a
    <2>1. Feed(a, line, x) =
           LET at1 == NodeAt(Top(a.open), line, x, Stop(a.open, line, x))
               n1 == SearchMatch(Top(a.open), line, x, Stop(a.open, line, x))
           IN  IF x < a.skip THEN a
               ELSE IF at1 # {}
               THEN IF n1 \in Blocks THEN [a EXCEPT !.open = Append(@, Opened(n1, line, x))]
                    ELSE [a EXCEPT !.skip = x + 2]
               ELSE IF EndsHere(a.open, line, x) THEN [a EXCEPT !.open = Front(@)]
               ELSE a
      BY <1>2, FeedIs
    <2> HIDE DEF at, n, a
    <2> QED
      BY <1>2, <1>4, <2>1
  <1>6. /\ SameLevels(Feed(a, line, x).open, r[x + 1].open)
        /\ r[x + 1].skip = Feed(a, line, x).skip
    <2> HIDE DEF a, r
    <2> QED
      BY <1>0, <1>1, <1>2, <1>3, SameFeed
  <1>7. ~ (x < a.skip)
    BY <1>0, <1>1
  <1> HIDE DEF at, n
  <1>8. CASE at = {} /\ ~ EndsHere(s, line, x)
    BY <1>1, <1>5, <1>6, <1>7, <1>8 DEF at
  <1>9. CASE at = {} /\ EndsHere(s, line, x)
    <2>1. Feed(a, line, x) = [a EXCEPT !.open = Front(@)]
      BY <1>5, <1>7, <1>9
    <2>2. Feed(a, line, x).open = Front(s) /\ Feed(a, line, x).skip = r[x].skip
      BY <2>1
    <2> QED
      BY <1>1, <1>6, <1>9, <2>2 DEF at
  <1>10. CASE at # {} /\ n \in Blocks
    <2>1. Feed(a, line, x) = [a EXCEPT !.open = Append(@, Opened(n, line, x))]
      BY <1>5, <1>7, <1>10
    <2>2. Feed(a, line, x).open = Append(s, Opened(n, line, x))
          /\ Feed(a, line, x).skip = r[x].skip
      BY <2>1
    <2> QED
      BY <1>1, <1>6, <1>10, <2>2 DEF at, n
  <1>11. CASE at # {} /\ n \notin Blocks
    <2>1. Feed(a, line, x) = [a EXCEPT !.skip = x + 2]
      BY <1>5, <1>7, <1>11
    <2>2. Feed(a, line, x).open = s /\ Feed(a, line, x).skip = x + 2
      BY <2>1
    <2> QED
      BY <1>6, <1>11, <2>2 DEF at, n
  <1> QED
    BY <1>8, <1>9, <1>10, <1>11 DEF at, n

(* No node matches and the block does not end: the parser moves on.        *)
LEMMA ReadNothing ==
  ASSUME NEW open \in Stacks, NEW line \in Seq(Symbols), NEW x \in 0..Len(line),
         NEW s \in Stacks, ReadTo(open, line, x, s), NEW m, NEW f, EndIs(s, line, x, m, f),
         NodeAt(Top(s), line, x, m.s) = {}, x < m.s
  PROVE  ReadTo(open, line, x + 1, s)
  <1>1. Len(line) \in Nat /\ x \in 0..Len(line) - 1 /\ ~ EndsHere(s, line, x)
    BY DEF EndIs
  <1>2. /\ SameLevels(s, Run(open, line)[x + 1].open) /\ Run(open, line)[x + 1].skip <= x
    BY <1>1, ReadStep
  <1>3. Run(open, line)[x + 1].skip \in Nat /\ x + 1 \in 0..Len(line)
    BY <1>1, RunType DEF States
  <1> QED
    BY <1>1, <1>2, <1>3 DEF ReadTo

(* No node matches where the block ends.                                   *)
LEMMA ReadEnd ==
  ASSUME NEW open \in Stacks, NEW line \in Seq(Symbols), NEW x \in 0..Len(line),
         NEW s \in Stacks, ReadTo(open, line, x, s), NEW m, EndIs(s, line, x, m, TRUE),
         NodeAt(Top(s), line, x, m.s) = {}, x = m.s
  PROVE  s # <<>> /\ ReadTo(open, line, x + 1, Front(s))
  <1>1. EndsHere(s, line, x)
    BY DEF EndIs
  <1>2. Len(line) \in Nat /\ x \in 0..Len(line) - 1 /\ s # <<>>
    BY <1>1, EndsWithin
  <1>3. /\ SameLevels(Front(s), Run(open, line)[x + 1].open)
        /\ Run(open, line)[x + 1].skip <= x
    BY <1>1, <1>2, ReadStep
  <1>4. Run(open, line)[x + 1].skip \in Nat /\ x + 1 \in 0..Len(line)
    BY <1>2, RunType DEF States
  <1> QED
    BY <1>2, <1>3, <1>4 DEF ReadTo

(* A block node matches: the block is open now.                            *)
LEMMA ReadBlock ==
  ASSUME NEW open \in Stacks, NEW line \in Seq(Symbols), NEW x \in 0..Len(line),
         NEW s \in Stacks, ReadTo(open, line, x, s), NEW m, NEW f, EndIs(s, line, x, m, f),
         NodeAt(Top(s), line, x, m.s) # {}, NEW n, n = SearchMatch(Top(s), line, x, m.s),
         n \in Blocks
  PROVE  ReadTo(open, line, x + 1, Append(s, Opened(n, line, x))) /\ x < Len(line)
  <1>1. Top(s) \in Schemes
    BY StackTop
  <1>2. x < Len(line) /\ Len(line) \in Nat
    BY <1>1, HitType DEF Matches
  <1>3. x \in 0..Len(line) - 1
    BY <1>2
  <1>4. /\ SameLevels(Append(s, Opened(n, line, x)), Run(open, line)[x + 1].open)
        /\ Run(open, line)[x + 1].skip <= x
    BY <1>3, ReadStep
  <1>5. Run(open, line)[x + 1].skip \in Nat /\ x + 1 \in 0..Len(line)
    BY <1>2, RunType DEF States
  <1> QED
    BY <1>2, <1>4, <1>5 DEF ReadTo

(* A regexp matches: it runs over the next symbol.                         *)
LEMMA ReadRegexp ==
  ASSUME NEW open \in Stacks, NEW line \in Seq(Symbols), NEW x \in 0..Len(line),
         NEW s \in Stacks, ReadTo(open, line, x, s), NEW m, NEW f, EndIs(s, line, x, m, f),
         NodeAt(Top(s), line, x, m.s) # {}, NEW n, n = SearchMatch(Top(s), line, x, m.s),
         n \in Regexps
  PROVE  ReadTo(open, line, x + 2, s) /\ Width(n) = 2
  <1> DEFINE r == Run(open, line)
  <1>1. Top(s) \in Schemes /\ n \notin Blocks /\ Width(n) = 2
    BY StackTop, SchemeAssumption DEF SchemeAssumption, Width
  <1>2. x + 2 <= Len(line) /\ Len(line) \in Nat
    <2>1. Matches(n, line, x, m.s)
      BY <1>1, HitType
    <2>2. m.s \in x..Len(line)
      BY DEF EndIs
    <2> QED
      BY <1>1, <2>1, <2>2 DEF Matches
  <1>3. x \in 0..Len(line) - 1 /\ x + 1 \in 0..Len(line) - 1 /\ x + 1 \in 0..Len(line)
        /\ x + 2 \in 0..Len(line) /\ (x + 1) + 1 = x + 2 /\ x + 1 < x + 2
    BY <1>2
  <1>4. SameLevels(s, r[x + 1].open) /\ r[x + 1].skip = x + 2
    BY <1>1, <1>3, ReadStep
  <1>5. r[x + 1] \in States
    BY <1>3, RunType
  <1>6. r[(x + 1) + 1] = Feed(r[x + 1], line, x + 1)
    BY <1>2, <1>3, RunStep
  <1> HIDE DEF r
  <1>7. Feed(r[x + 1], line, x + 1) = r[x + 1]
    BY <1>3, <1>4, <1>5, FeedIs
  <1>8. r[x + 2] = r[x + 1]
    BY <1>3, <1>6, <1>7
  <1> QED
    BY <1>1, <1>2, <1>3, <1>4, <1>8 DEF ReadTo, r

(* Where the line ends without an end, the blocks are open after it.       *)
LEMMA ReadOver ==
  ASSUME NEW open \in Stacks, NEW line \in Seq(Symbols), NEW s \in Stacks,
         ReadTo(open, line, Len(line), s)
  PROVE  SameLevels(s, OpenAfter(open, line))
  BY OpenAfterIs DEF ReadTo

(* Nothing is read at the start of a line.                                 *)
LEMMA ReadStart ==
  ASSUME NEW open \in Stacks, NEW line \in Seq(Symbols), NEW s \in Stacks,
         SameLevels(s, open)
  PROVE  ReadTo(open, line, 0, s)
  <1>1. Len(line) \in Nat /\ Run(open, line)[0] = Start(open)
    BY RunStart
  <1> QED
    BY <1>1 DEF ReadTo, Start

-----------------------------------------------------------------------------
(* The parser against that reading.                                        *)

(* Past the limit colorize() returns without having looked for the end of  *)
(* the block it was called for.                                            *)
WithinRecursion == Len(frames) <= MaxRecursion

-----------------------------------------------------------------------------
(* The blocks the parser is in: those of the cache that parse() resumes    *)
(* one after the other, and those that searchBL has entered.               *)
Field == [block : Blocks, sym : Symbols, pos : Nat]

LevelsOf(t, p, d, fs, n) ==
  [k \in 1..n |-> IF k <= d THEN Level(t[SubSeq(p, 1, k)]) ELSE LevelOf(fs[k - d])]

Height == Depth + Len(frames)
Levels(n) == LevelsOf(cache, parent, Depth, frames, n)
Stack == Levels(Height)

(* Only the root, which no block starts, has no start text.                *)
Started(t) == \A p \in DOMAIN t \ {Root} : t[p].sym \in Symbols

(* A node of the cache as an open block.                                   *)
LEMMA LevelType ==
  ASSUME NEW t, IsCache(t), Started(t), NEW p \in DOMAIN t, p # Root
  PROVE  Level(t[p]) \in Field
  <1>1. t[p] \in NodesOf(Schemes, Syms) /\ t[p].block # Base /\ t[p].sym \in Symbols
    BY DEF IsCache, IsTree, Started
  <1> QED
    BY <1>1 DEF Level, NodesOf, Schemes, Field

(* What is open at a node is a stack of blocks.                            *)
LEMMA OpenLevelsStack ==
  ASSUME NEW t, IsCache(t), Started(t), NEW p \in DOMAIN t
  PROVE  OpenLevels(t, p) \in Stacks /\ Len(OpenLevels(t, p)) = Len(p)
         /\ \A k \in 1..Len(p) : OpenLevels(t, p)[k] = Level(t[SubSeq(p, 1, k)])
  <1>1. p \in Path /\ Len(p) \in Nat
    BY DEF IsCache, IsTree, Rooted, Path
  <1>2. ASSUME NEW k \in 1..Len(p) PROVE Level(t[SubSeq(p, 1, k)]) \in Field
    <2>1. SubSeq(p, 1, k) \in DOMAIN t /\ Len(SubSeq(p, 1, k)) = k
      BY <1>1, <1>2, Beginning DEF IsCache, IsTree, Rooted
    <2>2. SubSeq(p, 1, k) # Root
      BY <2>1, EmptySeq DEF Root
    <2> QED
      BY <2>1, <2>2, LevelType
  <1>3. [k \in 1..Len(p) |-> Level(t[SubSeq(p, 1, k)])] \in Seq(Field)
    BY <1>1, <1>2, SeqDef
  <1> QED
    BY <1>1, <1>3 DEF OpenLevels, Stacks, Field

(* The levels are a stack of blocks, built up one by one.                  *)
LEMMA LevelsOfType ==
  ASSUME NEW t, IsCache(t), Started(t), NEW p \in DOMAIN t, NEW d \in 0..Len(p),
         NEW fs \in Seq(FrameTypes), NEW n \in 0..d + Len(fs)
  PROVE  /\ LevelsOf(t, p, d, fs, n) \in Stacks /\ Len(LevelsOf(t, p, d, fs, n)) = n
         /\ \A k \in 1..n : LevelsOf(t, p, d, fs, n)[k]
                               = IF k <= d THEN Level(t[SubSeq(p, 1, k)]) ELSE LevelOf(fs[k - d])
  <1>1. /\ Len(p) \in Nat /\ p \in Path /\ Len(fs) \in Nat
        /\ \A k \in 0..Len(p) : SubSeq(p, 1, k) \in DOMAIN t
    BY DEF IsCache, IsTree, Rooted, Path
  <1> DEFINE item(k) == IF k <= d THEN Level(t[SubSeq(p, 1, k)]) ELSE LevelOf(fs[k - d])
  <1>2. n \in Nat /\ \A k \in 1..n : k \in Nat /\ k # 0
    BY <1>1
  <1>3. ASSUME NEW k \in 1..n PROVE item(k) \in Field
    <2>1. CASE k <= d
      <3>1. SubSeq(p, 1, k) \in DOMAIN t /\ Len(SubSeq(p, 1, k)) = k
        BY <1>1, <1>2, <2>1, Beginning
      <3>2. SubSeq(p, 1, k) # Root
        BY <1>2, <3>1, EmptySeq DEF Root
      <3> QED
        BY <2>1, <3>1, <3>2, LevelType
    <2>2. CASE ~ (k <= d)
      <3>1. k - d \in 1..Len(fs)
        BY <1>1, <2>2
      <3>2. fs[k - d] \in FrameTypes
        BY <3>1, ElementOfSeq
      <3>3. LevelOf(fs[k - d]) \in Field
        BY <3>2 DEF FrameTypes, LevelOf, Field
      <3> QED
        BY <2>2, <3>3
    <2> QED
      BY <2>1, <2>2
  <1>4. LevelsOf(t, p, d, fs, n) = [k \in 1..n |-> item(k)]
    BY DEF LevelsOf
  <1> HIDE DEF item
  <1>5. [k \in 1..n |-> item(k)] \in Seq(Field)
    BY <1>2, <1>3
  <1>6. LevelsOf(t, p, d, fs, n) \in Seq(Field) /\ DOMAIN LevelsOf(t, p, d, fs, n) = 1..n
    BY <1>4, <1>5
  <1>7. Len(LevelsOf(t, p, d, fs, n)) = n
    BY <1>2, <1>6, LenProperties
  <1>8. \A k \in 1..n : LevelsOf(t, p, d, fs, n)[k] = item(k)
    BY <1>4
  <1> QED
    BY <1>6, <1>7, <1>8 DEF Stacks, Field, item

(* The levels up to n are a stack of n levels: the cached ones first,      *)
(* then the pending blocks.                                                *)
LEMMA LevelsType ==
  ASSUME Inv, Started(cache), NEW n \in 0..Height
  PROVE  /\ Levels(n) \in Stacks /\ Len(Levels(n)) = n
         /\ \A k \in 1..n : Levels(n)[k] = IF k <= Depth THEN Level(cache[SubSeq(parent, 1, k)])
                                           ELSE LevelOf(frames[k - Depth])
  BY LevelsOfType, CachedLevels DEF Levels, Height, Inv, Place, RunTypes

(* Stacks are equal when they have the same levels.                        *)
LEMMA StacksEqual ==
  ASSUME NEW a \in Stacks, NEW b \in Stacks, Len(a) = Len(b),
         \A k \in 1..Len(a) : a[k] = b[k]
  PROVE  a = b
  BY SeqEqual DEF Stacks

(* Without the innermost level.                                            *)
LEMMA LevelsFront ==
  ASSUME Inv, Started(cache), Height # 0
  PROVE  /\ Stack # <<>> /\ Height - 1 \in 0..Height
         /\ Front(Stack) = Levels(Height - 1)
         /\ Last(Stack) = IF frames = <<>> THEN Level(cache[SubSeq(parent, 1, Depth)])
                          ELSE LevelOf(Last(frames))
  <1>1. Depth \in Nat /\ Len(frames) \in Nat /\ Height \in Nat
    BY CachedLevels DEF Height
  <1>2. PICK n \in Nat : Height = n + 1
    BY <1>1
  <1>3. n \in 0..Height /\ n + 1 \in 0..Height /\ Height - 1 = n
    BY <1>2
  <1>4. /\ Stack \in Stacks /\ Len(Stack) = n + 1 /\ Levels(n) \in Stacks /\ Len(Levels(n)) = n
        /\ \A k \in 1..n + 1 : Stack[k] = IF k <= Depth THEN Level(cache[SubSeq(parent, 1, k)])
                                          ELSE LevelOf(frames[k - Depth])
        /\ \A k \in 1..n : Levels(n)[k] = IF k <= Depth THEN Level(cache[SubSeq(parent, 1, k)])
                                          ELSE LevelOf(frames[k - Depth])
    BY <1>2, <1>3, LevelsType DEF Stack
  <1>5. Stack # <<>>
    BY <1>4, EmptySeq
  <1>6. /\ Front(Stack) \in Stacks /\ Len(Front(Stack)) = n
        /\ \A k \in 1..n : Front(Stack)[k] = Stack[k]
        /\ Last(Stack) = Stack[n + 1]
    <2>1. (n + 1) - 1 = n
      BY <1>2
    <2> QED
      BY <1>4, <1>5, <2>1, FrontAndLast DEF Stacks
  <1>7. Front(Stack) = Levels(n)
    BY <1>4, <1>6, StacksEqual
  <1>8. Last(Stack) = IF frames = <<>> THEN Level(cache[SubSeq(parent, 1, Depth)])
                      ELSE LevelOf(Last(frames))
    <2>1. CASE frames = <<>>
      <3>1. n + 1 = Depth
        BY <1>1, <1>2, <2>1, EmptySeq DEF Height
      <3> QED
        BY <1>4, <1>6, <2>1, <3>1
    <2>2. CASE frames # <<>>
      <3>1. Len(frames) # 0 /\ Last(frames) = frames[Len(frames)]
        BY <1>1, <2>2, FrontAndLast DEF Inv, RunTypes
      <3>2. ~ (n + 1 <= Depth) /\ (n + 1) - Depth = Len(frames)
        BY <1>1, <1>2, <3>1 DEF Height
      <3> QED
        BY <1>2, <1>4, <1>6, <2>2, <3>1, <3>2
    <2> QED
      BY <2>1, <2>2
  <1> QED
    BY <1>3, <1>5, <1>7, <1>8

(* With no level, no block is open.                                        *)
LEMMA NoLevels == ASSUME Inv, Started(cache) PROVE Stack = <<>> <=> Height = 0
  <1>1. Depth \in Nat /\ Len(frames) \in Nat /\ Height \in Nat
    BY CachedLevels DEF Height
  <1>2. Stack \in Stacks /\ Len(Stack) = Height
    BY <1>1, LevelsType DEF Stack
  <1> QED
    BY <1>1, <1>2, EmptySeq DEF Stacks

(* Levels that are where they were.                                        *)
LEMMA LevelsKept ==
  ASSUME NEW n \in Nat,
         \A k \in 1..n :
           IF k <= Depth
           THEN /\ k <= Depth'
                /\ Level(cache'[SubSeq(parent', 1, k)]) = Level(cache[SubSeq(parent, 1, k)])
           ELSE /\ ~ (k <= Depth')
                /\ LevelOf(frames'[k - Depth']) = LevelOf(frames[k - Depth])
  PROVE  Levels(n)' = Levels(n)
  BY DEF Levels, LevelsOf

-----------------------------------------------------------------------------
(* What a parse starts with: the tree it was given, but for cursors.       *)
LEMMA StartParseIs ==
  ASSUME Inv, phase = "idle", NEW t, IsCache(t), NEW from \in Nat, NEW num, NEW m,
         StartParse(t, from, num, m)
  PROVE  /\ cache' = (IF m = "off" THEN t ELSE Searched(t, from))
         /\ parent' = (IF m = "off" THEN Root ELSE SearchLine(t, from))
         /\ forward' = (IF m = "off" THEN 0 ELSE ForwardOf(t, parent', from))
         /\ DOMAIN cache' = DOMAIN t /\ \A q \in DOMAIN t : Keeps(t, cache', q)
         /\ frames' = <<>> /\ phase' = "level" /\ mode' = m
         /\ cur' = from /\ endl' = from + num /\ gx' = 0 /\ clear' = NoLine
         /\ breaking' = FALSE /\ handler' = <<Base>> /\ filled' = FALSE /\ first' = from
  <1>1. baseScheme = Base /\ frames = <<>>
    BY DEF Inv, Positions
  <1>2. [t EXCEPT ![Root].block = baseScheme] = t
    BY <1>1, RootReset
  <1>3. /\ cache' = (IF m = "off" THEN t ELSE Searched(t, from))
        /\ parent' = (IF m = "off" THEN Root ELSE SearchLine(t, from))
        /\ forward' = (IF m = "off" THEN 0 ELSE ForwardOf(t, parent', from))
        /\ frames' = frames /\ phase' = "level" /\ mode' = m
        /\ cur' = from /\ endl' = from + num /\ gx' = 0 /\ clear' = NoLine
        /\ breaking' = FALSE /\ handler' = <<Base>> /\ filled' = FALSE /\ first' = from
    BY <1>2 DEF StartParse
  <1>4. DOMAIN Searched(t, from) = DOMAIN t /\ \A q \in DOMAIN t : Keeps(t, Searched(t, from), q)
    BY SearchedKeeps, SearchedIsCache DEF IsCache
  <1>5. \A q \in DOMAIN t : Keeps(t, t, q)
    BY DEF Keeps
  <1> QED
    BY <1>1, <1>3, <1>4, <1>5

(* The tree after searchBL has entered a block in update mode.             *)
LEMMA EnterBlockTree ==
  ASSUME Inv, EnterBlock, mode = "update"
  PROVE  /\ forward \in Nat /\ parent \in DOMAIN cache /\ parent \in Path
         /\ KidsAfter(cache, parent, forward) = {}
         /\ parent' = Append(parent, forward + 1) /\ forward' = 0 /\ parent' \in Path
         /\ Len(parent) \in Nat /\ Len(parent') = Len(parent) + 1
         /\ \A i \in 0..Len(parent) : SubSeq(parent', 1, i) = SubSeq(parent, 1, i)
         /\ SubSeq(parent', 1, Len(parent) + 1) = parent'
         /\ parent' \notin DOMAIN cache /\ DOMAIN cache' = DOMAIN cache \cup {parent'}
         /\ cache'[parent'] = NewNode(Hit, text[cur][gx + 1], gx, cur)
         /\ \A q \in DOMAIN cache : cache'[q] = cache[q] /\ Keeps(cache, cache', q)
  <1> DEFINE node == NewNode(Hit, text[cur][gx + 1], gx, cur)
  <1>1. /\ cache' = Link(cache, parent, forward, node)
        /\ parent' = Append(parent, forward + 1) /\ forward' = 0 /\ phase = "scan"
    BY DEF EnterBlock, Scanning
  <1> HIDE DEF node
  <1>2. /\ IsCache(cache) /\ parent \in DOMAIN cache /\ forward \in Nat
        /\ KidsAfter(cache, parent, forward) = {}
    BY <1>1 DEF Inv, Place, Grafting
  <1>3. parent \in Path /\ Len(parent) \in Nat
    BY CachedLevels
  <1>4. /\ parent' \in Path /\ Len(parent') = Len(parent) + 1
        /\ \A i \in 0..Len(parent) : SubSeq(parent', 1, i) = SubSeq(parent, 1, i)
        /\ SubSeq(parent', 1, Len(parent) + 1) = parent'
    <2>1. PICK k \in Nat \ {0} : k = forward + 1
      BY <1>2
    <2>2. parent' = Append(parent, k) /\ parent' \in Path
      BY <1>1, <1>3, <2>1, FrontOfAppend
    <2> QED
      BY <1>3, <2>1, <2>2, Longer
  <1>5. /\ parent' \notin DOMAIN cache /\ DOMAIN cache' = DOMAIN cache \cup {parent'}
        /\ cache'[parent'] = node /\ \A q \in DOMAIN cache : cache'[q] = cache[q]
    <2> DEFINE new == Append(parent, forward + 1)
    <2>1. forward + 1 \in Nat \ {0} /\ forward + 1 > forward
      BY <1>2
    <2>2. new \notin DOMAIN cache
      BY <1>2, <1>3, <2>1, NoKid
    <2> HIDE DEF new
    <2>3. cache' = [q \in DOMAIN cache \cup {new} |-> IF q = new THEN node ELSE cache[q]]
      BY <1>1, <1>2 DEF Link, new
    <2> QED
      BY <1>1, <2>2, <2>3 DEF new
  <1>6. \A q \in DOMAIN cache : Keeps(cache, cache', q)
    BY <1>5 DEF Keeps
  <1> QED
    BY <1>1, <1>2, <1>3, <1>4, <1>5, <1>6 DEF node

(* The tree after searchBL has left a block in update mode: its node is    *)
(* deleted if the block ended on the line it began on, and ended if not.   *)
LEMMA LeaveBlockTree ==
  ASSUME Inv, OrderInv, LeaveBlock, mode = "update", NEW f, f = Last(frames)
  PROVE  /\ parent' = Front(parent) /\ parent # Root /\ parent \in DOMAIN cache
         /\ parent \in Path /\ Len(parent) \in Nat \ {0} /\ Len(parent') = Len(parent) - 1
         /\ parent' \in DOMAIN cache /\ parent' \in DOMAIN cache'
         /\ Last(parent) \in Nat \ {0} /\ parent = Append(parent', Last(parent))
         /\ parent[Len(parent)] = Last(parent)
         /\ \A i \in 0..Len(parent) - 1 : SubSeq(parent', 1, i) = SubSeq(parent, 1, i)
         /\ f \in FrameTypes /\ f.forward \in Nat /\ Last(parent) = f.forward + 1
         /\ KidsAfter(cache, parent', Last(parent)) = {}
         /\ f.line <= cur /\ cache[parent].sline = f.line + 1
         /\ f.line = cur =>
              /\ DOMAIN cache' = DOMAIN cache \ KidsAfter(cache, parent', f.forward)
              /\ \A q \in DOMAIN cache' : Keeps(cache, cache', q)
         /\ f.line # cur =>
              /\ DOMAIN cache' = DOMAIN cache
              /\ \A q \in DOMAIN cache \ {parent} : Keeps(cache, cache', q)
              /\ cache'[parent].sline = cache[parent].sline /\ cache'[parent].eline = cur
              /\ cache'[parent].sym = cache[parent].sym
              /\ Level(cache'[parent]) = Level(cache[parent])
  <1>1. /\ cache' = Settle(cache, parent, f.forward, f.line) /\ parent' = Front(parent)
        /\ phase = "return" /\ cur \in Nat
    BY DEF LeaveBlock, Inv, RunTypes
  <1>2. /\ f \in FrameTypes /\ f = frames[Len(frames)] /\ Len(frames) \in Nat \ {0}
    BY Innermost
  <1>3. f.forward \in Nat /\ f.line \in Nat
    BY <1>2 DEF FrameTypes
  <1>4. Around
    BY <1>1 DEF OrderInv, Updating
  <1>5. /\ Depth \in 0..Len(parent) /\ Len(parent) - 1 \in Nat
        /\ Len(parent) \in Nat /\ parent \in Path /\ Len(parent) = Depth + Len(frames)
        /\ \A i \in 0..Len(parent) - 1 : SubSeq(parent', 1, i) = SubSeq(parent, 1, i)
    BY LeaveBlockPath, CachedLevels DEF KeepsPath
  <1>6. parent # Root /\ Len(parent) # 0
    BY <1>5, EmptySeq DEF Root
  <1>7. /\ IsCache(cache) /\ parent \in DOMAIN cache
        /\ IsCache(cache') /\ parent' \in DOMAIN cache' /\ parent' \in DOMAIN cache
        /\ Len(parent') = Len(parent) - 1
        /\ Last(parent) \in Nat \ {0} /\ parent = Append(parent', Last(parent))
        /\ parent[Len(parent)] = Last(parent)
    BY <1>1, <1>5, <1>6, LeaveBlockInv, ParentOf, AppendOfFront DEF Inv, Place, Front, Last
  <1>8. /\ f.line <= cur /\ cache[parent].sline = f.line + 1
        /\ Last(parent) = f.forward + 1
        /\ KidsAfter(cache, parent', Last(parent)) = {}
    <2>1. Len(frames) \in 1..Len(frames) /\ SubSeq(parent, 1, Depth + Len(frames)) = parent
      BY <1>2, <1>5, Beginning
    <2>2. f.line <= cur /\ cache[parent].sline = f.line + 1
      BY <1>2, <1>4, <2>1 DEF Around, Begun
    <2>3. Awaits(cache, parent, Len(parent) - Len(frames) + Len(frames), frames[Len(frames)])
      BY <2>1 DEF Inv, Pending
    <2>4. Len(parent) - Len(frames) + Len(frames) = Len(parent)
      BY <1>2, <1>5
    <2>5. Awaits(cache, parent, Len(parent), f)
      BY <1>2, <2>3, <2>4
    <2>6. SubSeq(parent, 1, Len(parent) - 1) = parent'
      BY <1>1 DEF Front
    <2> QED
      BY <1>7, <2>2, <2>5, <2>6 DEF Awaits
  <1>9. ASSUME f.line = cur
        PROVE  /\ DOMAIN cache' = DOMAIN cache \ KidsAfter(cache, parent', f.forward)
               /\ \A q \in DOMAIN cache' : Keeps(cache, cache', q)
    <2>1. cache' = DropKidsAfter(cache, parent', f.forward)
      BY <1>1, <1>9 DEF Settle
    <2>2. \A q \in DOMAIN cache' : Keeps(cache, cache', q)
      BY <1>3, <1>7, <2>1, DroppedKeeps
    <2> QED
      BY <2>1, <2>2 DEF DropKidsAfter
  <1>10. ASSUME f.line # cur
         PROVE  /\ DOMAIN cache' = DOMAIN cache
                /\ \A q \in DOMAIN cache \ {parent} : Keeps(cache, cache', q)
                /\ cache'[parent].sline = cache[parent].sline /\ cache'[parent].eline = cur
                /\ cache'[parent].sym = cache[parent].sym
                /\ Level(cache'[parent]) = Level(cache[parent])
    <2>1. cache' = [cache EXCEPT ![parent].eline = cur]
      BY <1>1, <1>10 DEF Settle
    <2>2. /\ DOMAIN cache' = DOMAIN cache
          /\ \A q \in DOMAIN cache \ {parent} : Keeps(cache, cache', q)
          /\ cache'[parent].sline = cache[parent].sline /\ cache'[parent].eline = cur
          /\ cache'[parent].block = cache[parent].block
          /\ cache'[parent].sym = cache[parent].sym /\ cache'[parent].pos = cache[parent].pos
      <3>1. IsCache(cache) /\ parent \in DOMAIN cache /\ cur \in Nat
        BY <1>1, <1>7
      <3>2. cache[parent] \in NodesOf(Schemes, Syms) /\ cache \in [DOMAIN cache -> NodesOf(Schemes, Syms)]
        BY <3>1 DEF IsCache, IsTree
      <3>3. cache' = [q \in DOMAIN cache |-> IF q = parent THEN [cache[q] EXCEPT !.eline = cur]
                                             ELSE cache[q]]
        BY <2>1, <3>1, <3>2
      <3>4. cache'[parent] = [cache[parent] EXCEPT !.eline = cur]
        BY <3>1, <3>3
      <3>5. \A q \in DOMAIN cache \ {parent} : q \in DOMAIN cache' /\ cache'[q] = cache[q]
        BY <3>3
      <3>6. DOMAIN cache' = DOMAIN cache
        BY <3>3
      <3> QED
        BY <3>2, <3>4, <3>5, <3>6 DEF Keeps, NodesOf
    <2> QED
      BY <2>2 DEF Level
  <1> QED
    BY <1>1, <1>2, <1>3, <1>5, <1>6, <1>7, <1>8, <1>9, <1>10

(* The tree after parse() has closed a level in update mode.               *)
LEMMA LeaveLevelTree ==
  ASSUME Inv, LeaveLevel
  PROVE  /\ frames = <<>> /\ frames' = <<>> /\ Len(frames) = 0 /\ Len(frames') = 0
         /\ parent' = Front(parent) /\ parent # Root /\ parent \in DOMAIN cache
         /\ forward' = Last(parent)
         /\ parent \in Path /\ Len(parent) \in Nat \ {0} /\ Len(parent') = Len(parent) - 1
         /\ parent' \in DOMAIN cache /\ parent' \in DOMAIN cache'
         /\ Last(parent) \in Nat \ {0} /\ parent = Append(parent', Last(parent))
         /\ parent[Len(parent)] = Last(parent)
         /\ \A i \in 0..Len(parent) - 1 : SubSeq(parent', 1, i) = SubSeq(parent, 1, i)
         /\ DOMAIN cache' = DOMAIN cache
         /\ \A q \in DOMAIN cache \ {parent} : Keeps(cache, cache', q)
         /\ cache'[parent].sline = cache[parent].sline
         /\ cache'[parent].eline = IF mode = "update" THEN cur ELSE cache[parent].eline
         /\ cache'[parent].sym = cache[parent].sym
         /\ Level(cache'[parent]) = Level(cache[parent])
  <1>1. /\ frames = <<>> /\ frames' = frames /\ parent' = Front(parent) /\ parent # Root
        /\ cache' = (IF mode = "update" THEN Closed(cache, parent) ELSE cache)
        /\ forward' = Last(parent)
        /\ parent \in DOMAIN cache /\ cur \in Nat /\ IsCache(cache)
    BY DEF LeaveLevel, Inv, RunTypes, Place
  <1>2. parent \in Path /\ Len(parent) \in Nat /\ Len(parent) # 0
    <2>1. parent \in Path /\ Len(parent) \in Nat
      BY CachedLevels
    <2> QED
      BY <1>1, <2>1, EmptySeq DEF Root, Path
  <1>3. /\ parent' \in DOMAIN cache /\ Len(parent') = Len(parent) - 1
        /\ Last(parent) \in Nat \ {0} /\ parent = Append(parent', Last(parent))
        /\ parent[Len(parent)] = Last(parent)
    BY <1>1, <1>2, ParentOf, AppendOfFront DEF Last
  <1>4. \A i \in 0..Len(parent) - 1 : SubSeq(parent', 1, i) = SubSeq(parent, 1, i)
    <2>1. parent' = SubSeq(parent, 1, Len(parent) - 1) /\ Len(parent) - 1 \in 0..Len(parent)
      BY <1>1, <1>2 DEF Front
    <2> QED
      BY <1>2, <2>1, BeginningOfBeginning
  <1>5. /\ DOMAIN cache' = DOMAIN cache
        /\ \A q \in DOMAIN cache \ {parent} : Keeps(cache, cache', q)
        /\ cache'[parent].sline = cache[parent].sline
        /\ cache'[parent].eline = (IF mode = "update" THEN cur ELSE cache[parent].eline)
        /\ cache'[parent].sym = cache[parent].sym
        /\ Level(cache'[parent]) = Level(cache[parent])
    <2>1. CASE mode = "update"
      <3>1. cache' = [cache EXCEPT ![parent].eline = cur]
        BY <1>1, <2>1 DEF Closed
      <3>2. /\ DOMAIN cache' = DOMAIN cache
            /\ \A q \in DOMAIN cache \ {parent} : Keeps(cache, cache', q)
            /\ cache'[parent].sline = cache[parent].sline /\ cache'[parent].eline = cur
            /\ cache'[parent].block = cache[parent].block
            /\ cache'[parent].sym = cache[parent].sym /\ cache'[parent].pos = cache[parent].pos
        BY <1>1, <3>1, EndedKeeps
      <3> QED
        BY <2>1, <3>2 DEF Level
    <2>2. CASE mode # "update"
      BY <1>1, <2>2 DEF Keeps
    <2> QED
      BY <2>1, <2>2
  <1>6. frames = <<>> /\ Len(frames) = 0
    BY <1>1, EmptySeq
  <1> QED
    BY <1>1, <1>2, <1>3, <1>4, <1>5, <1>6

(* Start texts are kept with their nodes, and a new node has one.          *)
LEMMA StartedNext == Inv /\ OrderInv /\ Started(cache) /\ [Next]_vars => Started(cache)'
  <1> SUFFICES ASSUME Inv, OrderInv, Started(cache), [Next]_vars PROVE Started(cache)'
    OBVIOUS
  <1>1. ASSUME \A q \in DOMAIN cache' \ {Root} : q \in DOMAIN cache /\ cache'[q].sym = cache[q].sym
        PROVE  Started(cache)'
    BY <1>1 DEF Started
  <1>2. ASSUME UNCHANGED cache PROVE Started(cache)'
    BY <1>2 DEF Started
  <1>3. IsCache(cache) /\ IsCache(cache)'
    BY NextInv DEF Inv
  <1> USE DEF tree, matching
  <1>4. CASE LinesExhausted \/ LineMissing \/ LineBegin \/ ScanNothing \/ ScanRegexp
              \/ EndOfBlock \/ NextLine \/ Finish \/ BreakParse
    BY <1>2, <1>4 DEF LinesExhausted, LineMissing, LineBegin, ScanNothing, ScanRegexp,
                      EndOfBlock, NextLine, Finish, BreakParse
  <1>5. CASE StartLevel
    <2>1. CASE mode = "update"
      <3>1. cache' = DropKidsAfter(cache, parent, forward) /\ parent \in DOMAIN cache
            /\ forward \in Nat
        BY <1>5, <2>1, StartLevelPath DEF Inv, Place
      <3>2. \A q \in DOMAIN cache' : Keeps(cache, cache', q)
        BY <1>3, <3>1, DroppedKeeps
      <3> QED
        BY <1>1, <3>2 DEF Keeps
    <2>2. CASE mode # "update"
      BY <1>2, <1>5, <2>2, StartLevelPath
    <2> QED
      BY <2>1, <2>2
  <1>6. CASE EnterBlock
    <2>1. CASE mode = "update"
      <3>1. /\ DOMAIN cache' = DOMAIN cache \cup {parent'}
            /\ cache'[parent'] = NewNode(Hit, text[cur][gx + 1], gx, cur)
            /\ \A q \in DOMAIN cache : cache'[q] = cache[q]
        BY <1>6, <2>1, EnterBlockTree
      <3>2. cache'[parent'].sym \in Symbols
        BY <1>6, <3>1, EnterBlockTypes DEF NewNode
      <3> QED
        BY <3>1, <3>2 DEF Started
    <2>2. CASE mode # "update"
      BY <1>2, <1>6, <2>2 DEF EnterBlock
    <2> QED
      BY <2>1, <2>2
  <1>7. CASE LeaveBlock
    <2>1. CASE mode = "update"
      <3>1. PICK f : f = Last(frames)
        OBVIOUS
      <3>2. \A q \in DOMAIN cache' : q \in DOMAIN cache /\ cache'[q].sym = cache[q].sym
        BY <1>7, <2>1, <3>1, LeaveBlockTree DEF Keeps
      <3> QED
        BY <1>1, <3>2
    <2>2. CASE mode # "update"
      BY <1>2, <1>7, <2>2 DEF LeaveBlock
    <2> QED
      BY <2>1, <2>2
  <1>8. CASE LeaveLevel
    <2>1. \A q \in DOMAIN cache' : q \in DOMAIN cache /\ cache'[q].sym = cache[q].sym
      BY <1>8, LeaveLevelTree DEF Keeps
    <2> QED
      BY <1>1, <2>1
  <1>9. ASSUME NEW from \in 0..LineCount, NEW num \in 0..LineCount, NEW m \in Modes,
               Parse(from, num, m)
        PROVE  Started(cache)'
    <2>1. phase = "idle" /\ StartParse(cache, from, num, m) /\ from \in Nat
      BY <1>9 DEF Parse
    <2>2. DOMAIN cache' = DOMAIN cache /\ \A q \in DOMAIN cache : Keeps(cache, cache', q)
      BY <1>3, <2>1, StartParseIs
    <2> QED
      BY <1>1, <2>2 DEF Keeps
  <1>10. ASSUME NEW l \in LineNos, NEW line \in Lines, TryParseLine(l, line)
         PROVE  Started(cache)'
    <2> DEFINE once == Searched(cache, l + 1)
               u == Searched(once, l)
    <2>1. phase = "idle" /\ StartParse(u, l, 1, "read") /\ l \in Nat /\ l + 1 \in Nat
      BY <1>10 DEF TryParseLine, LineNos
    <2>2. IsCache(once) /\ DOMAIN once = DOMAIN cache /\ \A q \in DOMAIN cache : Keeps(cache, once, q)
      BY <1>3, <2>1, SearchedIsCache, SearchedKeeps DEF IsCache
    <2> HIDE DEF once
    <2>3. IsCache(u) /\ DOMAIN u = DOMAIN cache /\ \A q \in DOMAIN cache : Keeps(once, u, q)
      BY <2>1, <2>2, SearchedIsCache, SearchedKeeps DEF IsCache
    <2> HIDE DEF u
    <2>4. DOMAIN cache' = DOMAIN cache /\ \A q \in DOMAIN cache : Keeps(u, cache', q)
      BY <2>1, <2>3, StartParseIs
    <2> QED
      BY <1>1, <2>2, <2>3, <2>4 DEF Keeps
  <1>11. ASSUME NEW l \in LineNos, NEW line \in Lines, NEW gone \in Unavailable,
                Edit(l, line, gone)
         PROVE  Started(cache)'
    BY <1>2, <1>11 DEF Edit
  <1>12. CASE SetFileType
    BY <1>12 DEF SetFileType, ClearCache, EmptyCache, Started
  <1>13. CASE UNCHANGED vars
    BY <1>2, <1>13 DEF vars
  <1> QED
    BY <1>4, <1>5, <1>6, <1>7, <1>8, <1>9, <1>10, <1>11, <1>12, <1>13 DEF Next, Step, Client

-----------------------------------------------------------------------------
(* How the steps of the parser move the stack.                             *)

(* Not at all, when they leave the cache and the pending blocks alone.     *)
LEMMA StackSame ==
  ASSUME UNCHANGED <<cache, parent, mode, frames>>
  PROVE  /\ Depth' = Depth /\ Height' = Height /\ Stack' = Stack
         /\ \A n : Levels(n)' = Levels(n)
  <1>1. Depth' = Depth
    BY DEF Depth
  <1>2. Height' = Height
    BY <1>1 DEF Height
  <1> QED
    BY <1>1, <1>2 DEF Stack, Levels

(* Deleting stale nodes neither.                                           *)
LEMMA StartLevelStack ==
  ASSUME Inv, StartLevel
  PROVE  /\ Height' = Height /\ Stack' = Stack /\ Depth' = Depth /\ Height \in Nat
         /\ \A n \in 0..Height : Levels(n)' = Levels(n)
  <1>1. /\ KeepsPath(Len(parent)) /\ Depth = Len(parent) /\ Depth' = Depth
        /\ frames = <<>> /\ Len(frames) = 0 /\ frames' = frames /\ Len(parent) \in Nat
    BY StartLevelPath, CachedLevels DEF StartLevel
  <1>2. Height' = Height /\ Height = Len(parent)
    BY <1>1 DEF Height
  <1>3. ASSUME NEW n \in Nat, n <= Len(parent) PROVE Levels(n)' = Levels(n)
    <2>1. ASSUME NEW k \in 1..n
          PROVE  Level(cache'[SubSeq(parent', 1, k)]) = Level(cache[SubSeq(parent, 1, k)])
      <3>1. k \in 0..Len(parent)
        BY <1>1, <1>3
      <3> QED
        BY <1>1, <3>1 DEF KeepsPath, Keeps, Level
    <2>2. \A k \in 1..n : k <= Depth /\ k <= Depth'
      BY <1>1, <1>3
    <2> QED
      BY <2>1, <2>2, LevelsKept
  <1>4. Stack' = Stack
    <2>1. PICK n \in Nat : n = Len(parent)
      BY <1>1
    <2>2. Stack = Levels(n) /\ Stack' = Levels(n)'
      BY <1>1, <1>2, <2>1 DEF Stack, Levels
    <2> QED
      BY <1>3, <2>1, <2>2
  <1> QED
    BY <1>1, <1>2, <1>3, <1>4

(* There are as many levels as nodes on the way to parent, or fewer.       *)
LEMMA NextDepth ==
  ASSUME Inv'
  PROVE  Depth' \in 0..Len(parent') /\ parent' \in Path /\ Len(parent') \in Nat
         /\ \A k \in 0..Len(parent') : SubSeq(parent', 1, k) \in DOMAIN cache'
  <1>1. IsCache(cache') /\ parent' \in DOMAIN cache' /\ frames' \in Seq(FrameTypes)
        /\ (mode' = "update" => Len(frames') <= Len(parent'))
    BY DEF Inv, Place, RunTypes, Pending
  <1>2. parent' \in Path /\ Len(parent') \in Nat /\ Len(frames') \in Nat
        /\ \A k \in 0..Len(parent') : SubSeq(parent', 1, k) \in DOMAIN cache'
    BY <1>1 DEF IsCache, IsTree, Rooted, Path
  <1> QED
    BY <1>1, <1>2 DEF Depth

(* searchBL puts its block on top ...                                      *)
LEMMA EnterBlockStack ==
  ASSUME Inv, Started(cache), EnterBlock, Started(cache)'
  PROVE  /\ Depth' = Depth /\ Height \in Nat /\ Height' = Height + 1
         /\ \A n \in 0..Height : Levels(n)' = Levels(n)
         /\ Stack' = Append(Stack, Opened(Hit, text[cur], gx))
         /\ Opened(Hit, text[cur], gx) \in Field
  <1> DEFINE f == FrameOf(Hit, text[cur][gx + 1])
             x == Opened(Hit, text[cur], gx)
  <1>1. Inv'
    BY EnterBlockInv
  <1>2. /\ f \in FrameTypes /\ frames' = Append(frames, f) /\ LevelOf(f) = x
    BY EnterBlockTypes DEF EnterBlock, FrameOf, Opened, LevelOf
  <1>3. x \in Field
    BY <1>2 DEF FrameTypes, LevelOf, Field
  <1> HIDE DEF f, x
  <1>4. /\ Depth \in 0..Len(parent) /\ Len(parent) \in Nat /\ Len(frames) \in Nat
        /\ KeepsPath(Len(parent)) /\ Depth' = Depth
    BY EnterBlockPath, CachedLevels
  <1>5. /\ Len(frames') = Len(frames) + 1 /\ frames'[Len(frames) + 1] = f
        /\ \A i \in 1..Len(frames) : frames'[i] = frames[i]
    BY <1>2, AppendProperties DEF Inv, RunTypes
  <1>6. Height \in Nat /\ Height' = Height + 1
    <2>1. Height' = Depth' + Len(frames')
      BY DEF Height
    <2> QED
      BY <1>4, <1>5, <2>1 DEF Height
  <1>7. ASSUME NEW n \in 0..Height PROVE Levels(n)' = Levels(n)
    <2>1. n \in Nat
      BY <1>6
    <2>2. ASSUME NEW k \in 1..n, k <= Depth
          PROVE  Level(cache'[SubSeq(parent', 1, k)]) = Level(cache[SubSeq(parent, 1, k)])
      <3>1. k \in 0..Len(parent)
        BY <1>4, <2>1, <2>2
      <3> QED
        BY <1>4, <3>1 DEF KeepsPath, Keeps, Level
    <2>3. ASSUME NEW k \in 1..n, ~ (k <= Depth)
          PROVE  frames'[k - Depth'] = frames[k - Depth]
      <3>1. k - Depth \in 1..Len(frames)
        BY <1>4, <1>6, <2>1, <2>3 DEF Height
      <3> QED
        BY <1>4, <1>5, <3>1
    <2> QED
      BY <1>4, <2>1, <2>2, <2>3, LevelsKept
  <1>8. Stack' = Append(Stack, x)
    <2>1. PICK n \in Nat : n = Height
      BY <1>6
    <2>2. /\ Stack \in Stacks /\ Len(Stack) = n /\ Stack = Levels(n) /\ Stack = Levels(n)'
      BY <1>6, <1>7, <2>1, LevelsType DEF Stack
    <2>3. Height' = n + 1 /\ n + 1 \in 0..Height' /\ Stack' = Levels(n + 1)'
      <3>1. Stack' = LevelsOf(cache', parent', Depth', frames', Height')
        BY DEF Stack, Levels
      <3> QED
        BY <1>6, <2>1, <3>1 DEF Levels
    <2>4. /\ Stack' \in Stacks /\ Len(Stack') = n + 1
          /\ \A k \in 1..n + 1 : Stack'[k] = IF k <= Depth' THEN Level(cache'[SubSeq(parent', 1, k)])
                                             ELSE LevelOf(frames'[k - Depth'])
      <3>1. /\ IsCache(cache') /\ Started(cache') /\ parent' \in DOMAIN cache'
            /\ frames' \in Seq(FrameTypes)
        BY <1>1 DEF Inv, Place, RunTypes, Started
      <3>2. Depth' \in 0..Len(parent')
        BY <1>1, <1>4, NextDepth
      <3>3. n + 1 \in 0..Depth' + Len(frames')
        BY <1>4, <1>5, <2>1, <2>3 DEF Height
      <3> QED
        BY <2>3, <3>1, <3>2, <3>3, LevelsOfType DEF Levels
    <2>5. ASSUME NEW k \in 1..n PROVE Stack'[k] = Stack[k]
      <3>1. k \in 1..n + 1 /\ n \in 0..Height'
        BY <2>1, <2>3
      <3>2. Levels(n)'[k] = IF k <= Depth' THEN Level(cache'[SubSeq(parent', 1, k)])
                            ELSE LevelOf(frames'[k - Depth'])
        BY DEF Levels, LevelsOf
      <3> QED
        BY <2>2, <2>4, <3>1, <3>2
    <2>6. Stack'[n + 1] = x
      <3>1. ~ (n + 1 <= Depth') /\ (n + 1) - Depth' = Len(frames) + 1
        BY <1>4, <2>1 DEF Height
      <3> QED
        BY <1>2, <1>5, <2>1, <2>4, <3>1
    <2>7. /\ Append(Stack, x) \in Stacks /\ Len(Append(Stack, x)) = n + 1
          /\ \A k \in 1..n : Append(Stack, x)[k] = Stack[k]
          /\ Append(Stack, x)[n + 1] = x
      BY <1>3, <2>2, AppendProperties DEF Stacks, Field
    <2>8. \A k \in 1..n + 1 : Stack'[k] = Append(Stack, x)[k]
      <3> TAKE k \in 1..n + 1
      <3>1. CASE k \in 1..n
        BY <2>5, <2>7, <3>1
      <3>2. CASE k = n + 1
        BY <2>6, <2>7, <3>2
      <3>3. k \in 1..n \/ k = n + 1
        OBVIOUS
      <3> HIDE DEF x
      <3> QED
        BY ONLY <3>1, <3>2, <3>3
    <2> QED
      BY <2>4, <2>7, <2>8, StacksEqual
  <1> QED
    BY <1>3, <1>4, <1>6, <1>7, <1>8 DEF x

(* ... and takes it off again.                                             *)
LEMMA LeaveBlockStack ==
  ASSUME Inv, OrderInv, Started(cache), LeaveBlock
  PROVE  /\ Depth' = Depth /\ Height \in Nat /\ Height # 0 /\ Height' = Height - 1
         /\ \A n \in 0..Height - 1 : Levels(n)' = Levels(n)
         /\ Stack # <<>> /\ Stack' = Front(Stack)
         /\ Last(Stack) = LevelOf(Last(frames))
  <1>1. /\ Len(frames) \in Nat \ {0} /\ Len(frames') = Len(frames) - 1
        /\ \A i \in 1..Len(frames') : frames'[i] = frames[i] /\ frames # <<>>
    BY Innermost DEF LeaveBlock
  <1>2. /\ Depth' = Depth /\ Depth \in 0..Len(parent) /\ Len(parent) \in Nat
        /\ mode = "update" => Len(parent) - 1 \in Nat /\ KeepsPath(Len(parent) - 1)
        /\ mode # "update" => UNCHANGED <<cache, parent>>
        /\ Depth < Len(parent) \/ mode # "update"
    BY LeaveBlockPath, CachedLevels
  <1>3. Height \in Nat /\ Height # 0 /\ Height' = Height - 1
    <2>1. Height' = Depth' + Len(frames')
      BY DEF Height
    <2> QED
      BY <1>1, <1>2, <2>1 DEF Height
  <1>4. ASSUME NEW n \in 0..Height - 1 PROVE Levels(n)' = Levels(n)
    <2>1. n \in Nat /\ n <= Depth + Len(frames')
      BY <1>1, <1>2, <1>3 DEF Height
    <2>2. ASSUME NEW k \in 1..n, k <= Depth
          PROVE  Level(cache'[SubSeq(parent', 1, k)]) = Level(cache[SubSeq(parent, 1, k)])
      <3>1. CASE mode = "update"
        <4>1. k \in 0..Len(parent) - 1
          BY <1>2, <2>1, <2>2, <3>1
        <4> QED
          BY <1>2, <3>1, <4>1 DEF KeepsPath, Keeps, Level
      <3>2. CASE mode # "update"
        BY <1>2, <3>2
      <3> QED
        BY <3>1, <3>2
    <2>3. ASSUME NEW k \in 1..n, ~ (k <= Depth)
          PROVE  frames'[k - Depth'] = frames[k - Depth]
      <3>1. k - Depth \in 1..Len(frames')
        BY <1>1, <1>2, <2>1, <2>3
      <3> QED
        BY <1>1, <1>2, <3>1
    <2> QED
      BY <1>2, <2>1, <2>2, <2>3, LevelsKept
  <1>5. Stack # <<>> /\ Front(Stack) = Levels(Height - 1) /\ Last(Stack) = LevelOf(Last(frames))
    BY <1>1, <1>3, LevelsFront, EmptySeq
  <1>6. Stack' = Levels(Height - 1)
    <2>1. PICK n \in Nat : n = Height - 1
      BY <1>3
    <2>2. Stack' = Levels(n)'
      BY <1>3, <2>1 DEF Stack, Levels
    <2>3. Levels(n)' = Levels(n)
      BY <1>3, <1>4, <2>1
    <2> QED
      BY <2>1, <2>2, <2>3
  <1> QED
    BY <1>2, <1>3, <1>4, <1>5, <1>6

(* A level of parse() takes its block off.                                 *)
LEMMA LeaveLevelStack ==
  ASSUME Inv, Started(cache), LeaveLevel
  PROVE  /\ Height \in Nat /\ Height # 0 /\ Height' = Height - 1
         /\ Stack # <<>> /\ Stack' = Front(Stack)
  <1>1. /\ Len(frames) = 0 /\ Len(frames') = 0 /\ Len(parent) \in Nat \ {0}
        /\ Len(parent') = Len(parent) - 1 /\ parent \in Path
        /\ \A i \in 0..Len(parent) - 1 : SubSeq(parent', 1, i) = SubSeq(parent, 1, i)
        /\ \A q \in DOMAIN cache \ {parent} : Keeps(cache, cache', q)
    BY LeaveLevelTree
  <1>2. \A k \in 0..Len(parent) : SubSeq(parent, 1, k) \in DOMAIN cache
    BY CachedLevels
  <1>3. Depth = Len(parent) /\ Depth' = Len(parent) - 1 /\ Height = Depth /\ Height' = Depth'
    <2>1. Depth' = (IF mode' = "update" THEN Len(parent') - Len(frames') ELSE Len(parent'))
          /\ Height' = Depth' + Len(frames')
      BY DEF Depth, Height
    <2>2. Depth' = Len(parent) - 1
      BY <1>1, <2>1
    <2>3. Depth = Len(parent)
      BY <1>1 DEF Depth
    <2> QED
      BY <1>1, <2>1, <2>2, <2>3 DEF Height
  <1>4. PICK n \in Nat : n = Len(parent) - 1
    BY <1>1
  <1>5. Levels(n)' = Levels(n)
    <2>1. ASSUME NEW k \in 1..n
          PROVE  Level(cache'[SubSeq(parent', 1, k)]) = Level(cache[SubSeq(parent, 1, k)])
      <3>1. k \in 0..Len(parent) - 1 /\ k \in 0..Len(parent) /\ k # Len(parent)
        BY <1>1, <1>4
      <3>2. Len(SubSeq(parent, 1, k)) = k /\ SubSeq(parent, 1, k) \in DOMAIN cache
        BY <1>1, <1>2, <3>1, Beginning
      <3>3. Keeps(cache, cache', SubSeq(parent, 1, k))
        BY <1>1, <3>1, <3>2
      <3> QED
        BY <1>1, <3>1, <3>3 DEF Keeps, Level
    <2>2. \A k \in 1..n : k <= Depth /\ k <= Depth'
      BY <1>1, <1>3, <1>4
    <2> QED
      BY <2>1, <2>2, LevelsKept
  <1>6. Stack # <<>> /\ Front(Stack) = Levels(Height - 1) /\ Height # 0
    BY <1>1, <1>3, LevelsFront
  <1>7. Stack' = Levels(n)'
    BY <1>1, <1>3, <1>4 DEF Stack, Levels
  <1> QED
    BY <1>1, <1>3, <1>4, <1>5, <1>6, <1>7

-----------------------------------------------------------------------------
(* A parse starts inside the blocks of the node that searchLine found.     *)
LEMMA StartParseStack ==
  ASSUME Inv, phase = "idle", NEW t, IsCache(t), Started(t), NEW from \in Nat, NEW num,
         NEW m, StartParse(t, from, num, m), NEW p,
         p = IF m = "off" THEN Root ELSE SearchLine(t, from)
  PROVE  p \in DOMAIN t /\ Stack' = OpenLevels(t, p) /\ Depth' = Len(p) /\ parent' = p
  <1>1. /\ parent' = p /\ DOMAIN cache' = DOMAIN t /\ frames' = <<>>
        /\ \A q \in DOMAIN t : Keeps(t, cache', q)
    BY StartParseIs
  <1>2. p \in DOMAIN t
    BY SearchedIsCache DEF IsCache, IsTree, Rooted
  <1>3. p \in Path /\ Len(p) \in Nat /\ \A k \in 0..Len(p) : SubSeq(p, 1, k) \in DOMAIN t
    BY <1>2, LenProperties DEF IsCache, IsTree, Rooted, Path
  <1>4. Depth' = Len(p) /\ Height' = Len(p)
    <2>1. /\ Depth' = (IF mode' = "update" THEN Len(parent') - Len(frames') ELSE Len(parent'))
          /\ Height' = Depth' + Len(frames')
      BY DEF Depth, Height
    <2>2. Len(frames') = 0
      BY <1>1
    <2> QED
      BY <1>1, <1>3, <2>1, <2>2
  <1>5. Stack' = [k \in 1..Len(p) |-> IF k <= Len(p) THEN Level(cache'[SubSeq(parent', 1, k)])
                                      ELSE LevelOf(frames'[k - Len(p)])]
    BY <1>4 DEF Stack, Levels, LevelsOf
  <1>6. ASSUME NEW k \in 1..Len(p)
        PROVE  (IF k <= Len(p) THEN Level(cache'[SubSeq(parent', 1, k)])
                                      ELSE LevelOf(frames'[k - Len(p)])) = Level(t[SubSeq(p, 1, k)])
    <2>1. k \in 0..Len(p) /\ k <= Len(p)
      BY <1>3
    <2>2. Keeps(t, cache', SubSeq(p, 1, k))
      BY <1>1, <1>3, <2>1
    <2> QED
      BY <1>1, <2>1, <2>2 DEF Keeps, Level
  <1>7. Stack' = [k \in 1..Len(p) |-> Level(t[SubSeq(p, 1, k)])]
    BY <1>5, <1>6
  <1> QED
    BY <1>1, <1>2, <1>4, <1>7 DEF OpenLevels

(* The innermost block is the one whose end expression and content         *)
(* colorize() works with, and the end expression knows its start text.      *)
LEMMA StackTopIs ==
  ASSUME Inv, LevelsInv, Started(cache), Running
  PROVE  /\ Stack \in Stacks /\ Height \in Nat /\ Len(Stack) = Height
         /\ Top(Stack) = baseScheme /\ EndBlock = baseScheme
         /\ EndBlock = Base <=> Stack = <<>>
         /\ Stack # <<>> => /\ EndBlock = Last(Stack).block
                            /\ trace[EndBlock] = Last(Stack).sym
  <1>1. /\ Depth \in 0..Len(parent) /\ Len(parent) \in Nat /\ parent \in Path
        /\ Len(frames) \in Nat /\ parent \in DOMAIN cache
        /\ mode = "update" => Len(parent) = Depth + Len(frames)
    BY CachedLevels DEF Inv, Place
  <1>2. Height \in Nat /\ Height = Depth + Len(frames)
    BY <1>1 DEF Height
  <1>3. Stack \in Stacks /\ Len(Stack) = Height
    <2>1. PICK n \in 0..Height : n = Height
      BY <1>2
    <2> QED
      BY <2>1, LevelsType DEF Stack
  <1>4. /\ Traced(trace, frames, Resumed.block, Resumed.sym)
        /\ Chained(baseScheme, frames, Resumed.block)
    BY DEF LevelsInv
  <1>5. baseScheme = BlockAt(frames, Resumed.block, Len(frames))
    BY <1>4 DEF Chained
  <1>6. BlockAt(frames, Resumed.block, Len(frames)) # Base
          => trace[BlockAt(frames, Resumed.block, Len(frames))]
               = SymAt(frames, Resumed.sym, Len(frames))
    BY <1>1, <1>4 DEF Traced, FreeOf
  <1>7. /\ Base \notin Blocks
        /\ frames # <<>> => Last(frames) = frames[Len(frames)] /\ Len(frames) # 0
                            /\ Last(frames).block \in Blocks
    <2>1. frames \in Seq(FrameTypes)
      BY DEF Inv, RunTypes
    <2>2. ASSUME frames # <<>>
          PROVE  Last(frames) = frames[Len(frames)] /\ Len(frames) # 0 /\ Last(frames) \in FrameTypes
      BY ONLY <2>1, <2>2, FrontAndLast
    <2> QED
      BY <2>2, SchemeAssumption DEF FrameTypes, Nodes
  <1>8. Stack = <<>> <=> Height = 0
    BY NoLevels
  <1>9. CASE frames # <<>>
    <2>1. Height # 0
      BY <1>1, <1>2, <1>7, <1>9
    <2>2. Stack # <<>> /\ Last(Stack) = LevelOf(Last(frames))
      BY <1>9, <2>1, LevelsFront
    <2>3. EndBlock = Last(frames).block /\ baseScheme = Last(frames).block
      BY <1>5, <1>7, <1>9 DEF EndBlock, BlockAt
    <2>4. trace[EndBlock] = Last(frames).sym
      BY <1>5, <1>6, <1>7, <1>9, <2>3 DEF SymAt
    <2> QED
      BY <1>2, <1>3, <1>7, <1>9, <2>2, <2>3, <2>4 DEF Top, LevelOf
  <1>10. CASE frames = <<>>
    <2>1. Len(frames) = 0
      BY <1>10
    <2>2. Depth = Len(parent) /\ Height = Depth
      BY <1>1, <1>2, <2>1 DEF Depth
    <2>3. Resumed = cache[parent] /\ SubSeq(parent, 1, Depth) = parent
      BY <1>1, <2>2, ResumedType, Beginning
    <2>4. EndBlock = cache[parent].block /\ baseScheme = cache[parent].block
      BY <1>5, <1>10, <2>1, <2>3 DEF EndBlock, BlockAt
    <2>5. cache[parent].block = Base <=> parent = Root
      BY <1>1 DEF Inv, IsCache
    <2>6. parent = Root <=> Len(parent) = 0
      BY <1>1, EmptySeq DEF Path, Root
    <2>7. ASSUME Stack # <<>> PROVE Last(Stack) = Level(cache[parent])
      BY <1>8, <1>10, <2>3, <2>7, LevelsFront
    <2>8. EndBlock # Base => trace[EndBlock] = cache[parent].sym
      BY <1>5, <1>6, <2>1, <2>3, <2>4 DEF SymAt
    <2> QED
      BY <1>2, <1>3, <1>8, <2>2, <2>4, <2>5, <2>6, <2>7, <2>8 DEF Top, Level
  <1> QED
    BY <1>9, <1>10

(* LineBegin looks for the end of the innermost block.                     *)
LEMMA EndFound ==
  ASSUME Inv, LevelsInv, Started(cache), phase = "line", cur < endl, gx \in 0..Len(text[cur])
  PROVE  EndIs(Stack, text[cur], gx,
               IF EndsAhead # {} THEN [s |-> First(EndsAhead), e |-> First(EndsAhead) + 1]
               ELSE [s |-> Len(text[cur]), e |-> Len(text[cur])], EndsAhead # {})
  <1>1. Running
    BY DEF Running
  <1>2. text[cur] \in Seq(Symbols)
    BY CurrentLine
  <1>3. EndsAhead = (IF Stack = <<>> THEN {}
                     ELSE EndsFrom(Last(Stack).block, Last(Stack).sym, text[cur], gx))
    BY <1>1, StackTopIs DEF EndsAhead
  <1>4. Stack \in Stacks
    BY <1>1, StackTopIs
  <1> QED
    BY ONLY <1>2, <1>3, <1>4, FirstEnd, gx \in 0..Len(text[cur])

(* No start text is missing at first.                                      *)
LEMMA InitStarted == Init => Started(cache)
  BY DEF Init, Started, EmptyCache

-----------------------------------------------------------------------------
(* Which lines a parse has seen: endLine is the last one, once colorize()  *)
(* is in the middle of a line or past the range; only breakParse can leave *)
(* lines of the range out.                                                 *)
SeenLines ==
  cur >= endl \/ phase \in {"scan", "return"} =>
    /\ endLine < endl
    /\ mode = "update" => first <= endLine
    /\ cur < endl => endLine = cur
    /\ cur >= endl /\ ~ breaking => cur = endl /\ endLine = endl - 1

(* tryParseLine reads one line, a sure one where whole parses had gone by.  *)
TryRange ==
  try.on => /\ phase # "idle" /\ mode = "read" /\ (cur < endl => cur = endl - 1)
            /\ try.sure => first < endl /\ endl <= valid

RangeInv ==
  /\ phase # "idle" =>
       /\ SeenLines
       /\ cur > endl => breaking
       /\ clear # NoLine => clear \notin missing
       /\ mode = "update" => /\ valid <= first
                             /\ \A i \in 1..Len(frames) : first <= frames[i].line
  /\ TryRange

-----------------------------------------------------------------------------
(* A parse starts on its first line, with no pending block.                *)
LEMMA StartParseRange ==
  ASSUME Inv, phase = "idle", NEW t, IsCache(t), NEW from \in Nat, NEW num \in Nat, num > 0,
         NEW m, StartParse(t, from, num, m),
         try'.on => m = "read" /\ num = 1 /\ (try'.sure => from + num <= valid'),
         m = "update" => valid' <= from
  PROVE  RangeInv'
  <1>1. /\ phase' = "level" /\ mode' = m /\ cur' = from /\ endl' = from + num
        /\ breaking' = FALSE /\ frames' = <<>> /\ first' = from /\ clear' = NoLine
    BY StartParseIs
  <1>2. Len(frames') = 0 /\ cur' < endl' /\ ~ (cur' >= endl')
    BY <1>1
  <1>3. num = 1 => cur' = endl' - 1
    BY <1>1
  <1> QED
    BY <1>1, <1>2, <1>3 DEF RangeInv, SeenLines, TryRange

(* The counters of a running parse.                                        *)
LEMMA Counters ==
  ASSUME Inv
  PROVE  /\ cur \in Nat /\ endl \in Nat /\ endLine \in Nat /\ gx \in Nat /\ first \in Nat
         /\ valid \in Nat /\ breaking \in BOOLEAN /\ (phase = "scan" => cur < endl)
  <1>1. first \in Nat /\ valid \in Nat
    BY TextAssumption DEF Inv, ClientTypes
  <1>2. cur \in Nat /\ endl \in Nat /\ endLine \in Nat /\ gx \in Nat /\ breaking \in BOOLEAN
    BY TextAssumption DEF Inv, RunTypes, LineNos
  <1>3. phase = "scan" => cur < endl
    BY DEF Inv, Positions
  <1> QED
    BY <1>1, <1>2, <1>3

(* Every step keeps the current line, the line last seen and the pending   *)
(* blocks inside the range that is parsed.                                 *)
LEMMA RangeNext == Inv /\ OrderInv /\ RangeInv /\ [Next]_vars => RangeInv'
  <1> SUFFICES ASSUME Inv, OrderInv, RangeInv, [Next]_vars PROVE RangeInv'
    OBVIOUS
  <1>1. /\ cur \in Nat /\ endl \in Nat /\ endLine \in Nat /\ valid \in Nat /\ gx \in Nat
        /\ frames \in Seq(FrameTypes) /\ Len(frames) \in Nat /\ first \in Nat
        /\ phase = "scan" => cur < endl
        /\ mode = "update" /\ phase # "idle" => first <= cur
    <2>1. frames \in Seq(FrameTypes) /\ Len(frames) \in Nat
      BY LenProperties DEF Inv, RunTypes
    <2>2. mode = "update" /\ phase # "idle" => first <= cur
      BY DEF OrderInv, Updating, Around
    <2> QED
      BY <2>1, <2>2, Counters
  <1> USE DEF RangeInv, SeenLines, TryRange, tree, matching, where, client, env
  <1>2. CASE StartLevel
    BY <1>1, <1>2 DEF StartLevel
  <1>3. CASE LinesExhausted
    BY <1>1, <1>3 DEF LinesExhausted
  <1>4. CASE LineMissing
    BY <1>1, <1>4 DEF LineMissing
  <1>5. CASE LineBegin
    BY <1>1, <1>5 DEF LineBegin
  <1>6. CASE ScanNothing
    BY <1>1, <1>6 DEF ScanNothing, Scanning
  <1>7. CASE ScanRegexp
    BY <1>1, <1>7 DEF ScanRegexp, Scanning, PhaseAt
  <1>8. CASE EnterBlock
    <2>1. /\ UNCHANGED <<missing, valid, first, mode, cur, endl, clear, endLine, breaking>>
          /\ phase = "scan" /\ phase' # "idle" /\ try'.on = try.on /\ try'.sure = try.sure
      BY <1>8 DEF EnterBlock, Scanning, Inv, ClientTypes
    <2>2. PICK f : frames' = Append(frames, f) /\ f.line = cur /\ f \in FrameTypes
      BY <1>8, EnterBlockTypes DEF EnterBlock, FrameOf
    <2>3. mode = "update" => \A i \in 1..Len(frames') : first <= frames'[i].line
      <3>1. /\ Len(frames') = Len(frames) + 1 /\ frames'[Len(frames) + 1] = f
            /\ \A i \in 1..Len(frames) : frames'[i] = frames[i]
        BY <1>1, <2>2, AppendProperties
      <3>2. \A i \in 1..Len(frames') : i \in 1..Len(frames) \/ i = Len(frames) + 1
        BY <1>1, <3>1
      <3> QED
        BY <1>1, <2>1, <2>2, <3>1, <3>2
    <2> QED
      BY <1>1, <2>1, <2>3
  <1>9. CASE EndOfBlock
    <2>1. try'.on = try.on /\ try'.sure = try.sure
          /\ UNCHANGED <<missing, valid, first, mode, endl, clear, endLine, breaking, frames>>
          /\ phase = "scan" /\ phase' = "return" /\ (cur' = cur \/ (cur' = endl /\ breaking))
      BY <1>1, <1>9 DEF EndOfBlock, Inv, ClientTypes
    <2> QED
      BY <1>1, <2>1
  <1>10. CASE NextLine
    <2>1. UNCHANGED <<missing, valid, first, mode, endl, clear, endLine, breaking, frames, try>>
          /\ phase = "scan" /\ phase' = "line"
          /\ (cur' = cur + 1 \/ (cur' = endl + 1 /\ breaking))
      BY <1>1, <1>10 DEF NextLine
    <2> QED
      BY <1>1, <2>1
  <1>11. CASE LeaveBlock
    <2>1. try'.on = try.on /\ try'.sure = try.sure
          /\ UNCHANGED <<missing, valid, first, mode, cur, endl, clear, endLine, breaking>>
          /\ phase = "return" /\ phase' # "idle"
      BY <1>11 DEF LeaveBlock, Inv, ClientTypes, PhaseAt
    <2>2. Len(frames') = Len(frames) - 1 /\ \A i \in 1..Len(frames') : frames'[i] = frames[i]
      BY <1>11, Innermost
    <2>3. \A i \in 1..Len(frames') : i \in 1..Len(frames)
      BY <1>1, <2>2
    <2> QED
      BY <1>1, <2>1, <2>2, <2>3
  <1>12. CASE LeaveLevel
    BY <1>1, <1>12 DEF LeaveLevel
  <1>13. CASE Finish
    <2>1. try'.on = FALSE /\ phase' = "idle"
      BY <1>13 DEF Finish, NoTry
    <2> QED
      BY <2>1
  <1>14. ASSUME NEW from \in 0..LineCount, NEW num \in 0..LineCount, NEW m \in Modes, num > 0,
                Parse(from, num, m)
         PROVE  RangeInv'
    <2>1. from \in Nat /\ num \in Nat
      BY TextAssumption
    <2>2. ~ try'.on /\ phase = "idle"
      BY <1>14 DEF Parse
    <2>3. StartParse(cache, from, num, m) /\ IsCache(cache)
      BY <1>14 DEF Parse, Inv
    <2>4. m = "update" => valid' <= from
      BY <1>1, <1>14, <2>1 DEF Parse
    <2> QED
      BY <1>14, <2>1, <2>2, <2>3, <2>4, StartParseRange
  <1>15. ASSUME NEW l \in LineNos, NEW line \in Lines, TryParseLine(l, line)
         PROVE  RangeInv'
    <2>1. l \in Nat /\ phase = "idle" /\ (try'.sure => l + 1 <= valid')
      <3>1. l \in Nat
        BY TextAssumption DEF LineNos
      <3>2. phase = "idle" /\ (try'.sure => l < valid) /\ valid' = valid
        BY <1>15 DEF TryParseLine
      <3>3. l < valid => l + 1 <= valid
        BY <1>1, <3>1
      <3> QED
        BY ONLY <3>1, <3>2, <3>3
    <2>2. StartParse(Searched(Searched(cache, l + 1), l), l, 1, "read")
      BY <1>15 DEF TryParseLine
    <2>3. IsCache(Searched(Searched(cache, l + 1), l))
      <3>1. l + 1 \in Nat
        BY <2>1
      <3> QED
        BY <2>1, <3>1, SearchedIsCache DEF Inv
    <2> QED
      BY ONLY <2>1, <2>2, <2>3, StartParseRange, Inv
  <1>16. ASSUME NEW l \in LineNos, NEW line \in Lines, NEW gone \in Unavailable,
                Edit(l, line, gone)
         PROVE  RangeInv'
    BY <1>16 DEF Edit, NoTry
  <1>17. CASE SetFileType
    BY <1>17 DEF SetFileType, ClearCache, NoTry
  <1>18. CASE BreakParse
    BY <1>1, <1>18 DEF BreakParse
  <1>19. CASE UNCHANGED vars
    BY <1>19 DEF vars
  <1> QED
    BY <1>2, <1>3, <1>4, <1>5, <1>6, <1>7, <1>8, <1>9, <1>10, <1>11, <1>12, <1>13, <1>14, <1>15,
       <1>16, <1>17, <1>18, <1>19 DEF Next, Step, Client

(* Nothing is parsed at the beginning.                                     *)
LEMMA InitRange == Init => RangeInv
  BY DEF Init, RangeInv, TryRange, NoTry

-----------------------------------------------------------------------------
(* The parser reads a line as the automaton does.                          *)

(* The blocks s are open at position x of the current line.                *)
Reading(x, s) == ReadTo(Open[cur], text[cur], x, s)

(* There is a current line, and colorize() has it or can get it.           *)
Legible == cur < endl /\ (clear = cur \/ cur \notin missing)

(* The parse began where whole parses had been: the cache knew its start.  *)
Sighted == mode # "off" /\ first <= valid

(* Of a parse that began there, nobody is told otherwise before it is over. *)
LEMMA SightedStays ==
  ASSUME Inv,
         \/ StartLevel \/ LinesExhausted \/ LineMissing \/ LineBegin \/ ScanNothing
         \/ ScanRegexp \/ EnterBlock \/ EndOfBlock \/ NextLine \/ LeaveBlock \/ LeaveLevel
         \/ BreakParse \/ UNCHANGED vars
  PROVE  Sighted' = Sighted /\ try'.on = try.on /\ try'.sure = try.sure
         /\ UNCHANGED <<valid, first>>
  <1>1. UNCHANGED <<mode, valid, first>>
    BY DEF StartLevel, LinesExhausted, LineMissing, LineBegin, ScanNothing, ScanRegexp,
           EnterBlock, EndOfBlock, NextLine, LeaveBlock, LeaveLevel, BreakParse, vars, client
  <1>2. try'.on = try.on /\ try'.sure = try.sure
    BY DEF StartLevel, LinesExhausted, LineMissing, LineBegin, ScanNothing, ScanRegexp,
           EnterBlock, EndOfBlock, NextLine, LeaveBlock, LeaveLevel, BreakParse, vars,
           Inv, ClientTypes
  <1> QED
    BY <1>1, <1>2 DEF Sighted

(* Between two positions the stack is what is open at gx; once gx has run  *)
(* past the end of the innermost block, what is open is without it.        *)
ReadInv ==
  phase # "idle" /\ Sighted =>
    /\ phase \in {"level", "line"} /\ Legible => Reading(gx, Stack)
    /\ phase = "scan" =>
         /\ clear = cur
         /\ gx <= matchend.s => /\ Reading(gx, Stack)
                                /\ EndIs(Stack, text[cur], gx, matchend, found)
         /\ gx > matchend.s /\ found => /\ matchend.e = gx /\ Stack # <<>>
                                        /\ Reading(gx, Front(Stack))
         /\ gx > matchend.s /\ ~ found => /\ matchend.s = Len(text[cur])
                                          /\ Reading(Len(text[cur]), Stack)
    /\ phase = "return" /\ cur < endl =>
         \/ clear = cur /\ Stack # <<>> /\ Reading(matchend.e, Front(Stack))
         \/ clear = NoLine /\ cur \in missing

(* A block entered on the current line was entered before gx, and its      *)
(* frame holds the end of the block around it.                             *)
PendInv ==
  phase # "idle" =>
    \A i \in 1..Len(frames) :
      /\ frames[i].line <= cur
      /\ Sighted /\ cur < endl /\ frames[i].line = cur =>
           /\ clear = cur /\ frames[i].pos < gx
           /\ phase = "return" => frames[i].pos < matchend.e
           /\ EndIs(Levels(Depth + i - 1), text[cur], frames[i].pos, frames[i].matchend,
                    frames[i].found)

-----------------------------------------------------------------------------
(* The line colorize() is on, and what the reference reading has open      *)
(* before and after it.                                                    *)
LEMMA Here ==
  ASSUME Inv, cur < endl
  PROVE  /\ cur \in LineNos /\ cur \in Nat /\ cur # NoLine
         /\ text[cur] \in Seq(Symbols) /\ Len(text[cur]) \in Nat
         /\ Open[cur] \in Stacks /\ Open[cur + 1] \in Stacks
         /\ Open[cur + 1] = OpenAfter(Open[cur], text[cur])
  <1>1. cur \in LineNos /\ text[cur] \in Seq(Symbols) /\ Len(text[cur]) \in Nat /\ cur \in Nat
    BY CurrentLine DEF Inv, RunTypes
  <1>2. text \in [0..LineCount - 1 -> Seq(Symbols)] /\ LineCount \in Nat
    BY TextAssumption DEF Inv, ClientTypes, LineNos
  <1>3. \A l \in 0..LineCount : Open[l] \in Stacks
    BY <1>2, OpenAtType DEF Open
  <1>4. Open[cur + 1] = OpenAfter(Open[cur], text[cur])
    BY <1>1, <1>2, OpenAtStep DEF Open, LineNos
  <1>5. cur \in 0..LineCount /\ cur + 1 \in 0..LineCount
    BY <1>1, <1>2 DEF LineNos
  <1> QED
    BY <1>1, <1>3, <1>4, <1>5 DEF NoLine

(* A step that keeps the pending blocks and only moves forward keeps what  *)
(* is known of their ends.                                                 *)
LEMMA PendSame ==
  ASSUME Inv, PendInv, UNCHANGED <<text, cache, parent, mode, frames, endl>>, phase # "idle",
         cur' \in Nat, Sighted' = Sighted,
         \/ cur' > cur
         \/ /\ cur' = cur /\ gx' \in Nat /\ gx <= gx'
            /\ cur < endl /\ clear = cur =>
                 /\ clear' = clear
                 /\ phase' = "return" /\ Sighted => gx <= matchend.e /\ matchend' = matchend
  PROVE  PendInv'
  <1>1. ASSUME NEW i \in 1..Len(frames')
        PROVE  /\ frames'[i].line <= cur'
               /\ Sighted' /\ cur' < endl' /\ frames'[i].line = cur' =>
                    /\ clear' = cur' /\ frames'[i].pos < gx'
                    /\ phase' = "return" => frames'[i].pos < matchend'.e
                    /\ EndIs(Levels(Depth + i - 1)', text'[cur'], frames'[i].pos, frames'[i].matchend,
                             frames'[i].found)
    <2> DEFINE f == frames[i]
    <2>1. f \in FrameTypes /\ i \in 1..Len(frames) /\ i' = i
      BY <1>1, ElementOfSeq DEF Inv, RunTypes
    <2>2. f.line \in Nat /\ f.pos \in Nat
      BY <2>1 DEF FrameTypes
    <2>3. /\ f.line <= cur
          /\ Sighted /\ cur < endl /\ f.line = cur =>
               /\ clear = cur /\ f.pos < gx
               /\ phase = "return" => f.pos < matchend.e
               /\ EndIs(Levels(Depth + i - 1), text[cur], f.pos, f.matchend, f.found)
      BY <2>1 DEF PendInv
    <2>4. Levels(Depth + i - 1)' = Levels(Depth + i - 1)
      BY StackSame DEF Levels, LevelsOf, Depth
    <2>5. cur \in Nat /\ gx \in Nat /\ matchend.e \in Nat
      BY DEF Inv, RunTypes
    <2>6. frames'[i] = f
      OBVIOUS
    <2> DEFINE e == EndIs(Levels(Depth + i - 1), text[cur], f.pos, f.matchend, f.found)
    <2>7. cur' = cur /\ e => EndIs(Levels(Depth + i - 1)', text'[cur'], frames'[i].pos,
                                   frames'[i].matchend, frames'[i].found)
      BY <2>4, <2>6
    <2>8. Sighted /\ cur < endl /\ f.line = cur =>
               /\ clear = cur /\ f.pos < gx
               /\ phase = "return" => f.pos < matchend.e
               /\ e
      BY <2>3
    <2>9. f.line <= cur
      BY <2>3
    <2> HIDE DEF f, e
    <2> QED
      BY <2>2, <2>5, <2>6, <2>7, <2>8, <2>9
  <1> QED
    BY <1>1 DEF PendInv

-----------------------------------------------------------------------------
(* The steps that leave the blocks alone.                                  *)

Ready == Inv /\ OrderInv /\ LevelsInv /\ Started(cache) /\ RangeInv /\ ReadInv /\ PendInv

(* The head of the loop over lines reads nothing, so the stack stays what  *)
(* is open at gx.                                                          *)
LEMMA LoopRead ==
  ASSUME Ready, StartLevel \/ LinesExhausted \/ LineMissing \/ LineBegin
  PROVE  ReadInv'
  <1> USE DEF Ready
  <1>0. Sighted' = Sighted
    BY SightedStays
  <1> DEFINE R == Reading(gx, Stack)
  <1>1. phase \in {"level", "line"} /\ Sighted /\ Legible => R
    BY DEF ReadInv
  <1>2. UNCHANGED <<text, missing, mode, cur, endl, gx>> /\ phase # "idle"
    BY DEF StartLevel, LinesExhausted, LineMissing, LineBegin, env, client, where
  <1>3. Stack' = Stack
    BY <1>0, StartLevelStack, StackSame DEF StartLevel, LinesExhausted, LineMissing, LineBegin, tree
  <1>4. (R)' = R
    BY <1>0, <1>2, <1>3 DEF Reading, Open
  <1> HIDE DEF R
  <1>5. CASE StartLevel
    <2>1. phase' = "line" /\ phase = "level" /\ clear' = clear
      BY <1>0, <1>5 DEF StartLevel, where
    <2>2. Legible' = Legible
      BY <1>0, <1>2, <2>1 DEF Legible
    <2> QED
      BY <1>0, <1>1, <1>2, <1>4, <2>1, <2>2 DEF ReadInv, R
  <1>6. CASE LinesExhausted
    <2>1. phase' = "return" /\ ~ (cur' < endl')
      BY <1>0, <1>2, <1>6, TextAssumption DEF LinesExhausted, Inv, RunTypes
    <2> QED
      BY <1>0, <2>1 DEF ReadInv
  <1>7. CASE LineMissing
    <2>1. phase' = "return" /\ clear' = NoLine /\ cur' \in missing'
      BY <1>0, <1>2, <1>7 DEF LineMissing
    <2> QED
      BY <1>0, <2>1 DEF ReadInv
  <1>8. CASE LineBegin
    <2>1. /\ phase' = "scan" /\ phase = "line" /\ clear' = cur /\ Legible /\ cur < endl
          /\ found' = (EndsAhead # {})
          /\ matchend' = (IF EndsAhead # {}
                          THEN [s |-> First(EndsAhead), e |-> First(EndsAhead) + 1]
                          ELSE [s |-> Len(text[cur]), e |-> Len(text[cur])])
      BY <1>0, <1>8 DEF LineBegin, Legible
    <2>2. CASE Sighted
      <3>1. R
        BY <1>0, <1>1, <2>1, <2>2
      <3>2. gx \in 0..Len(text[cur])
        BY <1>0, <3>1 DEF R, Reading, ReadTo
      <3>3. EndIs(Stack, text[cur], gx, matchend', found')
        BY <1>0, <2>1, <3>2, EndFound
      <3>4. EndIs(Stack', text'[cur'], gx', matchend', found')
        BY <1>0, <1>2, <1>3, <3>3
      <3>5. ~ (gx' > matchend'.s)
        BY <1>0, <1>2, <2>1, <3>2, <3>3, Here DEF EndIs
      <3> QED
        BY <1>0, <1>2, <1>4, <2>1, <3>1, <3>4, <3>5 DEF ReadInv, R
    <2> QED
      BY <1>0, <1>2, <2>2 DEF ReadInv
  <1> QED
    BY <1>0, <1>5, <1>6, <1>7, <1>8

(* Nor does it touch the pending blocks, except for entering the level of  *)
(* the parent, where there are none.                                       *)
LEMMA LoopPend ==
  ASSUME Ready, StartLevel \/ LinesExhausted \/ LineMissing \/ LineBegin
  PROVE  PendInv'
  <1> USE DEF Ready
  <1>0. Sighted' = Sighted
    BY SightedStays
  <1>1. CASE StartLevel
    <2>1. frames' = <<>>
      BY <1>0, <1>1, StartLevelPath DEF StartLevel
    <2>2. Len(frames') = 0
      BY <1>0, <2>1
    <2> QED
      BY <1>0, <2>2 DEF PendInv
  <1>2. ~ StartLevel => /\ UNCHANGED <<text, cache, parent, mode, frames, endl, cur, gx>> /\ phase # "idle"
                        /\ cur < endl /\ clear = cur => clear' = clear /\ phase' # "return"
    BY DEF LinesExhausted, LineMissing, LineBegin, env, client, tree, where, Inv, RunTypes
  <1>3. cur \in Nat /\ gx \in Nat
    BY DEF Inv, RunTypes
  <1> QED
    BY <1>0, <1>1, <1>2, <1>3, PendSame

(* A position where nothing matches, or a regexp does, is read as the      *)
(* automaton reads it.                                                     *)
LEMMA ScanRead ==
  ASSUME Ready, ScanNothing \/ ScanRegexp
  PROVE  ReadInv' /\ PendInv'
  <1> USE DEF Ready
  <1>0. Sighted' = Sighted
    BY SightedStays
  <1>1. /\ phase = "scan" /\ gx <= matchend.s /\ phase' \in {"line", "scan"} /\ cur < endl
        /\ UNCHANGED <<text, missing, mode, cur, endl, clear, cache, parent, frames, matchend, found>>
    BY DEF ScanNothing, ScanRegexp, Scanning, env, client, tree, where, matching, Inv, Positions, PhaseAt
  <1>2. gx' \in Nat /\ gx \in Nat /\ gx <= gx' /\ matchend.s \in Nat /\ cur \in Nat
    <2>1. Hit \in Regexps => Width(Hit) = 2
      BY DEF Width
    <2> QED
      BY <1>0, <2>1 DEF ScanNothing, ScanRegexp, Inv, RunTypes
  <1>3. Stack' = Stack
    BY <1>0, <1>1, StackSame
  <1>4. PendInv'
    BY <1>0, <1>1, <1>2, PendSame
  <1>5. ASSUME Sighted PROVE ReadInv'
    <2> DEFINE s == Stack
               line == text[cur]
               open == Open[cur]
               x == gx
               m == matchend
               f == found
    <2>1. /\ s \in Stacks /\ line \in Seq(Symbols) /\ open \in Stacks /\ Len(line) \in Nat
          /\ Top(s) = baseScheme
      BY <1>0, <1>1, Here, StackTopIs DEF Running
    <2>2. ReadTo(open, line, x, s) /\ EndIs(s, line, x, m, f) /\ x \in 0..Len(line) /\ clear = cur
      BY <1>0, <1>1, <1>5 DEF ReadInv, Reading, ReadTo
    <2>3. /\ Hits = NodeAt(Top(s), line, x, m.s)
          /\ Hit = SearchMatch(Top(s), line, x, m.s)
      BY <1>0, <2>1 DEF Hits, Hit
    <2>4. /\ text'[cur'] = line /\ Open'[cur'] = open /\ Stack' = s /\ matchend' = m /\ found' = f
          /\ clear' = cur'
      BY <1>0, <1>1, <1>3, <2>2 DEF Open
    <2>5. CASE ScanNothing
      <3>1. phase' = "scan" /\ gx' = x + 1 /\ Hits = {}
        BY <1>0, <1>1, <2>5 DEF ScanNothing
      <3>2. CASE x < m.s
        <4>1. ReadTo(open, line, x + 1, s)
          <5> HIDE DEF s, line, open, x, m, f
          <5> QED
            BY <1>0, <2>1, <2>2, <2>3, <3>1, <3>2, ReadNothing
        <4>2. EndIs(s, line, x + 1, m, f)
          <5>1. x + 1 \in x..m.s
            BY <1>0, <1>2, <3>2
          <5> HIDE DEF s, line, open, x, m, f
          <5> QED
            BY <1>0, <1>2, <2>1, <2>2, <5>1, EndKept
        <4>3. gx' <= m.s /\ ~ (gx' > m.s)
          BY <1>0, <1>2, <3>1, <3>2
        <4> QED
          BY <1>0, <2>4, <3>1, <4>1, <4>2, <4>3 DEF ReadInv, Reading
      <3>3. CASE x = m.s
        <4>1. gx' > m.s /\ ~ (gx' <= m.s)
          BY <1>0, <1>2, <3>1, <3>3
        <4>2. CASE f
          <5>1. f = TRUE /\ EndIs(s, line, x, m, TRUE) /\ m.e = x + 1
            BY <1>0, <2>2, <3>3, <4>2 DEF EndIs
          <5>2. s # <<>> /\ ReadTo(open, line, x + 1, Front(s))
            <6> HIDE DEF s, line, open, x, m, f
            <6> QED
              BY <1>0, <2>1, <2>2, <2>3, <3>1, <3>3, <5>1, ReadEnd
          <5> QED
            BY <1>0, <2>4, <3>1, <4>1, <4>2, <5>1, <5>2 DEF ReadInv, Reading
        <4>3. CASE ~ f
          <5>1. m.s = Len(line) /\ ReadTo(open, line, Len(line), s)
            BY <1>0, <2>2, <3>3, <4>3 DEF EndIs
          <5> QED
            BY <1>0, <2>4, <3>1, <4>1, <4>3, <5>1 DEF ReadInv, Reading
        <4> QED
          BY <1>0, <4>2, <4>3
      <3> QED
        BY <1>0, <1>1, <1>2, <3>2, <3>3
    <2>6. CASE ScanRegexp
      <3>1. Width(Hit) = 2 /\ gx' = x + 2 /\ ReadTo(open, line, x + 2, s)
        <4>1. Hits # {} /\ Hit \in Regexps /\ gx' = x + Width(Hit)
          BY <1>0, <2>6 DEF ScanRegexp
        <4> HIDE DEF s, line, open, x, m, f, Hit, Hits
        <4> QED
          BY <1>0, <2>1, <2>2, <2>3, <4>1, ReadRegexp
      <3>2. phase' = PhaseAt(x + 2, m.s)
        BY <1>0, <2>6, <3>1 DEF ScanRegexp
      <3>3. CASE m.s < x + 2
        <4>1. phase' = "line"
          BY <1>0, <3>2, <3>3 DEF PhaseAt
        <4> QED
          BY <1>0, <2>4, <3>1, <4>1 DEF ReadInv, Reading
      <3>4. CASE ~ (m.s < x + 2)
        <4>1. phase' = "scan" /\ ~ (gx' > m.s)
          BY <1>0, <1>2, <3>1, <3>2, <3>4 DEF PhaseAt
        <4>2. EndIs(s, line, x + 2, m, f)
          <5>1. x + 2 \in x..m.s
            BY <1>0, <1>2, <3>4
          <5> HIDE DEF s, line, open, x, m, f
          <5> QED
            BY <1>0, <1>2, <2>1, <2>2, <5>1, EndKept
        <4> QED
          BY <1>0, <2>4, <3>1, <4>1, <4>2 DEF ReadInv, Reading
      <3> QED
        BY <1>0, <3>3, <3>4
    <2> QED
      BY <1>0, <2>5, <2>6
  <1> QED
    BY <1>0, <1>1, <1>4, <1>5 DEF ReadInv

-----------------------------------------------------------------------------
(* Leaving the inner loop.                                                 *)
LEMMA EndOfBlockRead ==
  ASSUME Ready, EndOfBlock
  PROVE  ReadInv' /\ PendInv'
  <1> USE DEF Ready
  <1>0. Sighted' = Sighted
    BY SightedStays
  <1>1. /\ phase = "scan" /\ phase' = "return" /\ cur < endl /\ found
        /\ UNCHANGED <<text, missing, mode, endl, gx, clear, cache, parent, frames, matchend>>
        /\ cur' = (IF gx > matchend.s THEN cur ELSE endl)
    BY DEF EndOfBlock, env, client, tree, matching, Inv, Positions
  <1>2. gx \in Nat /\ matchend.s \in Nat /\ matchend.e \in Nat /\ cur \in Nat /\ endl \in Nat
    BY <1>0, TextAssumption DEF Inv, RunTypes
  <1>3. Stack' = Stack
    BY <1>0, <1>1, StackSame
  <1>4. CASE ~ (gx > matchend.s)
    <2>1. cur' = endl /\ ~ (cur' < endl') /\ cur' > cur /\ cur' \in Nat
      BY <1>0, <1>1, <1>2, <1>4
    <2>2. ReadInv'
      BY <1>0, <1>1, <2>1 DEF ReadInv
    <2>3. PendInv'
      BY <1>0, <1>1, <2>1, PendSame
    <2> QED
      BY <1>0, <2>2, <2>3
  <1>5. CASE gx > matchend.s
    <2>1. cur' = cur
      BY <1>0, <1>1, <1>5
    <2>2. Sighted => /\ clear = cur /\ matchend.e = gx /\ Stack # <<>>
                          /\ ReadTo(Open[cur], text[cur], matchend.e, Front(Stack))
      BY <1>0, <1>1, <1>5 DEF ReadInv, Reading
    <2>3. ReadInv'
      BY <1>0, <1>1, <1>3, <2>1, <2>2 DEF ReadInv, Reading, Open
    <2>4. PendInv'
      BY <1>0, <1>1, <1>2, <2>1, <2>2, PendSame
    <2> QED
      BY <1>0, <2>3, <2>4
  <1> QED
    BY <1>0, <1>4, <1>5

(* At the end of a line the stack is what is open where the next line      *)
(* begins.                                                                 *)
LEMMA NextLineRead ==
  ASSUME Ready, NextLine
  PROVE  ReadInv' /\ PendInv'
  <1> USE DEF Ready
  <1>0. Sighted' = Sighted
    BY SightedStays
  <1>1. /\ phase = "scan" /\ phase' = "line" /\ cur < endl /\ ~ found /\ gx' = 0
        /\ UNCHANGED <<text, missing, mode, endl, clear, cache, parent, frames, matchend>>
        /\ cur' = (IF gx > matchend.s THEN cur ELSE endl) + 1
    BY DEF NextLine, env, client, tree, matching, Inv, Positions
  <1>2. gx \in Nat /\ matchend.s \in Nat /\ cur \in Nat /\ endl \in Nat
    BY <1>0, TextAssumption DEF Inv, RunTypes
  <1>3. Stack' = Stack /\ Stack \in Stacks
    BY <1>0, <1>1, StackSame, StackTopIs DEF Running
  <1>4. PendInv'
    <2>1. cur' > cur /\ cur' \in Nat
      BY <1>0, <1>1, <1>2
    <2> QED
      BY <1>0, <1>1, <2>1, PendSame
  <1>5. ASSUME Sighted, cur' < endl'
        PROVE  ReadTo(Open'[cur'], text'[cur'], gx', Stack')
    <2>1. gx > matchend.s /\ cur' = cur + 1
      BY <1>0, <1>1, <1>2, <1>5
    <2>2. ReadTo(Open[cur], text[cur], Len(text[cur]), Stack)
      BY <1>0, <1>1, <1>5, <2>1 DEF ReadInv, Reading
    <2>3. /\ cur \in Nat /\ text[cur] \in Seq(Symbols) /\ Open[cur] \in Stacks
          /\ Open[cur + 1] \in Stacks /\ Open[cur + 1] = OpenAfter(Open[cur], text[cur])
      BY <1>0, <1>1, Here
    <2>4. SameLevels(Stack, Open[cur + 1])
      BY <1>0, <1>3, <2>2, <2>3, ReadOver
    <2>5. cur + 1 \in LineNos
      BY <1>0, <1>1, <1>2, <1>5, <2>1, TextAssumption DEF Inv, RunTypes, LineNos
    <2>6. text[cur + 1] \in Seq(Symbols)
      BY <1>0, <2>5, LineType DEF Inv
    <2>7. ReadTo(Open[cur + 1], text[cur + 1], 0, Stack)
      BY <1>0, <1>3, <2>3, <2>4, <2>6, ReadStart
    <2> QED
      BY <1>0, <1>1, <1>3, <2>1, <2>7 DEF Open
  <1>6. ReadInv'
    BY <1>0, <1>1, <1>5 DEF ReadInv, Legible, Reading
  <1> QED
    BY <1>0, <1>4, <1>6

(* searchBL enters a block, and colorize() goes on inside it.              *)
LEMMA EnterBlockReads ==
  ASSUME Ready, EnterBlock, Started(cache)', WithinRecursion'
  PROVE  ReadInv' /\ PendInv'
  <1> USE DEF Ready
  <1>0. Sighted' = Sighted
    BY SightedStays
  <1> DEFINE s == Stack
             line == text[cur]
             open == Open[cur]
             b == Opened(Hit, text[cur], gx)
             fr == FrameOf(Hit, text[cur][gx + 1])
  <1>1. /\ phase = "scan" /\ gx <= matchend.s /\ cur < endl /\ gx' = gx + 1
        /\ UNCHANGED <<text, missing, mode, cur, endl, clear, matchend, found>>
        /\ frames' = Append(frames, fr)
        /\ phase' = (IF Len(frames) + 1 > MaxRecursion THEN "return" ELSE "line")
    BY DEF EnterBlock, Scanning, env, client, Inv, Positions
  <1>2. gx \in Nat /\ matchend.s \in Nat /\ cur \in Nat /\ frames \in Seq(FrameTypes)
        /\ Len(frames) \in Nat
    BY LenProperties DEF Inv, RunTypes
  <1>3. fr \in FrameTypes
    BY EnterBlockTypes
  <1>4. /\ Len(frames') = Len(frames) + 1 /\ frames'[Len(frames) + 1] = fr
        /\ \A i \in 1..Len(frames) : frames'[i] = frames[i]
    <2> HIDE DEF fr
    <2> QED
      BY <1>0, <1>1, <1>2, <1>3, AppendProperties
  <1>5. phase' = "line"
    BY <1>0, <1>1, <1>2, <1>4, TextAssumption DEF WithinRecursion
  <1>6. /\ Depth' = Depth /\ Height \in Nat /\ Height' = Height + 1
        /\ \A n \in 0..Height : Levels(n)' = Levels(n)
        /\ Stack' = Append(s, b)
    BY EnterBlockStack
  <1>7. fr.line = cur /\ fr.pos = gx /\ fr.matchend = matchend /\ fr.found = found
    BY DEF FrameOf
  <1>8. /\ s \in Stacks /\ line \in Seq(Symbols) /\ open \in Stacks
        /\ Hits = NodeAt(Top(s), line, gx, matchend.s)
        /\ Hit = SearchMatch(Top(s), line, gx, matchend.s)
        /\ Hits # {} /\ Hit \in Blocks
    BY <1>0, <1>1, Here, StackTopIs DEF Running, Hits, Hit, EnterBlock
  <1>9. Sighted => /\ ReadTo(open, line, gx, s) /\ EndIs(s, line, gx, matchend, found)
                        /\ gx \in 0..Len(line) /\ clear = cur
    BY <1>0, <1>1 DEF ReadInv, Reading, ReadTo
  <1>10. Sighted => ReadTo(open, line, gx + 1, Append(s, b))
    <2> HIDE DEF s, line, open, Hit, Hits
    <2> QED
      BY <1>0, <1>8, <1>9, ReadBlock DEF line
  <1>11. ReadInv'
    BY <1>0, <1>1, <1>5, <1>6, <1>10 DEF ReadInv, Reading, Open
  <1>12. ASSUME NEW i \in 1..Len(frames')
        PROVE  /\ frames'[i].line <= cur'
               /\ Sighted' /\ cur' < endl' /\ frames'[i].line = cur' =>
                    /\ clear' = cur' /\ frames'[i].pos < gx'
                    /\ EndIs(Levels(Depth + i - 1)', text'[cur'], frames'[i].pos, frames'[i].matchend,
                             frames'[i].found)
    <2>1. Depth \in Nat /\ Height = Depth + Len(frames)
      BY CachedLevels DEF Height
    <2>2. CASE i \in 1..Len(frames)
      <3>1. /\ frames[i].line <= cur
            /\ Sighted /\ cur < endl /\ frames[i].line = cur =>
                 /\ clear = cur /\ frames[i].pos < gx
                 /\ EndIs(Levels(Depth + i - 1), text[cur], frames[i].pos, frames[i].matchend,
                          frames[i].found)
        BY <1>0, <1>1, <2>2 DEF PendInv
      <3>2. PICK n \in 0..Height : n = Depth + i - 1
        BY <1>0, <1>2, <2>1, <2>2
      <3>3. Levels(Depth + i - 1)' = Levels(Depth + i - 1)
        <4>1. Levels(Depth + i - 1)' = Levels(n)'
          BY <1>0, <1>6, <3>2 DEF Levels
        <4> QED
          BY <1>0, <1>6, <3>2, <4>1
      <3>4. frames[i] \in FrameTypes
        BY <1>0, <1>2, <2>2, ElementOfSeq
      <3>5. frames[i].pos \in Nat
        BY <1>0, <3>4 DEF FrameTypes
      <3>6. frames'[i] = frames[i]
        BY <1>0, <1>4, <2>2
      <3> HIDE DEF fr
      <3> QED
        BY <1>0, <1>1, <1>2, <3>1, <3>3, <3>5, <3>6
    <2>3. CASE i = Len(frames) + 1
      <3>1. Levels(Depth + i - 1)' = Stack
        <4>1. PICK n \in 0..Height : n = Height
          BY <1>0, <1>6
        <4>2. Levels(Depth + i - 1)' = Levels(n)'
          BY <1>0, <1>2, <1>6, <2>1, <2>3, <4>1 DEF Levels
        <4> QED
          BY <1>0, <1>6, <4>1, <4>2 DEF Stack
      <3>2. frames'[i] = fr
        BY <1>0, <1>4, <2>3
      <3>3. Sighted => EndIs(Levels(Depth + i - 1)', text'[cur'], frames'[i].pos,
                                  frames'[i].matchend, frames'[i].found)
        <4> HIDE DEF fr
        <4> QED
          BY <1>0, <1>1, <1>7, <1>9, <3>1, <3>2 DEF s, line
      <3> HIDE DEF fr, line, open, s
      <3> QED
        BY <1>0, <1>1, <1>2, <1>7, <1>9, <3>2, <3>3
    <2> QED
      BY <1>0, <1>2, <1>4, <2>2, <2>3
  <1>13. PendInv'
    BY <1>0, <1>5, <1>12 DEF PendInv
  <1> QED
    BY <1>0, <1>11, <1>13

(* searchBL returns into the block around the one that ended.               *)
LEMMA LeaveBlockReads ==
  ASSUME Ready, LeaveBlock
  PROVE  ReadInv' /\ PendInv'
  <1> USE DEF Ready
  <1>0. Sighted' = Sighted
    BY SightedStays
  <1> DEFINE fr == Last(frames)
             s == Front(Stack)
             line == text[cur]
  <1>1. /\ phase = "return" /\ gx' = matchend.e
        /\ UNCHANGED <<text, missing, mode, cur, endl, clear>>
        /\ matchend' = fr.matchend /\ found' = fr.found
        /\ phase' = (IF fr.line # cur THEN "line" ELSE PhaseAt(matchend.e, fr.matchend.s))
    BY DEF LeaveBlock, env, client
  <1>2. /\ fr \in FrameTypes /\ fr = frames[Len(frames)] /\ fr.line < endl
        /\ Len(frames) \in Nat \ {0} /\ Len(frames') = Len(frames) - 1
        /\ \A i \in 1..Len(frames') : frames'[i] = frames[i]
    BY Innermost
  <1>3. /\ Depth' = Depth /\ Height \in Nat /\ Height # 0 /\ Height' = Height - 1
        /\ \A n \in 0..Height - 1 : Levels(n)' = Levels(n)
        /\ Stack # <<>> /\ Stack' = s
    BY LeaveBlockStack
  <1>4. /\ cur \in Nat /\ endl \in Nat /\ gx \in Nat /\ matchend.e \in Nat
        /\ Depth \in Nat /\ Height = Depth + Len(frames) /\ frames \in Seq(FrameTypes)
    BY CachedLevels, TextAssumption DEF Inv, RunTypes, Height
  <1>5. fr.line \in Nat /\ fr.pos \in Nat /\ fr.matchend.s \in Nat
    BY <1>0, <1>2 DEF FrameTypes
  <1>6. Sighted /\ cur < endl =>
          \/ clear = cur /\ ReadTo(Open[cur], line, matchend.e, s)
          \/ clear = NoLine /\ cur \in missing
    BY <1>0, <1>1 DEF ReadInv, Reading
  <1>7. s = Levels(Depth + Len(frames) - 1)
    <2>1. s = Levels(Height - 1)
      BY <1>0, <1>3, LevelsFront
    <2> QED
      BY <1>0, <1>4, <2>1 DEF Levels
  <1>8. Sighted /\ cur < endl /\ fr.line = cur =>
          /\ clear = cur /\ fr.pos < matchend.e
          /\ EndIs(s, line, fr.pos, fr.matchend, fr.found)
    <2>1. Len(frames) \in 1..Len(frames)
      BY <1>0, <1>2
    <2>2. /\ Sighted /\ cur < endl /\ frames[Len(frames)].line = cur =>
               /\ clear = cur /\ frames[Len(frames)].pos < gx
               /\ frames[Len(frames)].pos < matchend.e
               /\ EndIs(Levels(Depth + Len(frames) - 1), text[cur], frames[Len(frames)].pos,
                        frames[Len(frames)].matchend, frames[Len(frames)].found)
      BY <1>0, <1>1, <2>1 DEF PendInv
    <2> HIDE DEF fr, s, line
    <2> QED
      BY <1>0, <1>2, <1>7, <2>2 DEF line
  <1>9. ReadInv'
    <2> HIDE DEF fr
    <2>1. CASE ~ Sighted
      BY <1>0, <2>1 DEF ReadInv
    <2>2. CASE ~ (cur < endl)
      <3>1. fr.line # cur
        BY <1>0, <1>2, <1>4, <1>5, <2>2
      <3>2. phase' = "line" /\ ~ (cur' < endl')
        BY <1>0, <1>1, <2>2, <3>1
      <3> QED
        BY <1>0, <3>2 DEF ReadInv, Legible
    <2>3. CASE Sighted /\ cur < endl /\ fr.line # cur
      <3>1. phase' = "line"
        BY <1>0, <1>1, <2>3
      <3>2. Legible' => clear = cur
        BY <1>0, <1>1, <1>6, <2>3, Here DEF Legible
      <3>3. Legible' => ReadTo(Open'[cur'], text'[cur'], gx', Stack')
        BY <1>0, <1>1, <1>3, <1>6, <2>3, <3>2, Here DEF Open
      <3> QED
        BY <1>0, <3>1, <3>3 DEF ReadInv, Reading
    <2>4. CASE Sighted /\ cur < endl /\ fr.line = cur
      <3>1. clear = cur /\ fr.pos < matchend.e /\ EndIs(s, line, fr.pos, fr.matchend, fr.found)
        BY <1>0, <1>8, <2>4
      <3>2. ReadTo(Open'[cur'], text'[cur'], gx', Stack') /\ clear' = cur'
        BY <1>0, <1>1, <1>3, <1>6, <2>4, <3>1, Here DEF Open
      <3>3. CASE fr.matchend.s < matchend.e
        <4>1. phase' = "line"
          BY <1>0, <1>1, <2>4, <3>3 DEF PhaseAt
        <4> QED
          BY <1>0, <3>2, <4>1 DEF ReadInv, Reading
      <3>4. CASE ~ (fr.matchend.s < matchend.e)
        <4>1. phase' = "scan" /\ ~ (gx' > matchend'.s)
          BY <1>0, <1>1, <1>4, <1>5, <2>4, <3>4 DEF PhaseAt
        <4>2. matchend.e \in fr.pos..fr.matchend.s /\ line \in Seq(Symbols)
          BY <1>0, <1>4, <1>5, <2>4, <3>1, <3>4, Here
        <4>3. EndIs(s, line, matchend.e, fr.matchend, fr.found)
          <5> HIDE DEF s, line
          <5> QED
            BY <1>0, <1>5, <3>1, <4>2, EndKept
        <4>4. EndIs(Stack', text'[cur'], gx', matchend', found')
          BY <1>0, <1>1, <1>3, <4>3
        <4> QED
          BY <1>0, <3>2, <4>1, <4>4 DEF ReadInv, Reading
      <3> QED
        BY <1>0, <3>3, <3>4
    <2> QED
      BY <1>0, <2>1, <2>2, <2>3, <2>4
  <1>10. ASSUME NEW i \in 1..Len(frames')
         PROVE  /\ frames'[i].line <= cur'
                /\ Sighted' /\ cur' < endl' /\ frames'[i].line = cur' =>
                     /\ clear' = cur' /\ frames'[i].pos < gx'
                     /\ EndIs(Levels(Depth + i - 1)', text'[cur'], frames'[i].pos,
                              frames'[i].matchend, frames'[i].found)
    <2>1. i \in 1..Len(frames) /\ frames'[i] = frames[i]
      BY <1>0, <1>2
    <2>2. /\ frames[i].line <= cur
          /\ Sighted /\ cur < endl /\ frames[i].line = cur =>
               /\ clear = cur /\ frames[i].pos < matchend.e
               /\ EndIs(Levels(Depth + i - 1), text[cur], frames[i].pos, frames[i].matchend,
                        frames[i].found)
      BY <1>0, <1>1, <2>1 DEF PendInv
    <2>3. PICK n \in 0..Height - 1 : n = Depth + i - 1
      BY <1>0, <1>2, <1>4, <2>1
    <2>4. Levels(Depth + i - 1)' = Levels(Depth + i - 1)
      <3>1. Levels(Depth + i - 1)' = Levels(n)'
        BY <1>0, <1>3, <2>3 DEF Levels
      <3> QED
        BY <1>0, <1>3, <2>3, <3>1
    <2> QED
      BY <1>0, <1>1, <2>1, <2>2, <2>4
  <1>11. PendInv'
    <2>1. phase' # "return"
      BY <1>0, <1>1 DEF PhaseAt
    <2> QED
      BY <1>0, <1>10, <2>1 DEF PendInv
  <1> QED
    BY <1>0, <1>9, <1>11

(* parse() goes on in the block around the one it had resumed.             *)
LEMMA LeaveLevelReads ==
  ASSUME Ready, LeaveLevel
  PROVE  ReadInv' /\ PendInv'
  <1> USE DEF Ready
  <1>0. Sighted' = Sighted
    BY SightedStays
  <1>1. /\ phase = "return" /\ gx' = matchend.e /\ phase' = "level" /\ frames' = <<>>
        /\ UNCHANGED <<text, missing, mode, cur, endl, clear>>
    BY DEF LeaveLevel, env, client
  <1>2. Stack # <<>> /\ Stack' = Front(Stack)
    BY LeaveLevelStack
  <1>3. Sighted /\ cur < endl =>
          \/ clear = cur /\ ReadTo(Open[cur], text[cur], matchend.e, Front(Stack))
          \/ clear = NoLine /\ cur \in missing
    BY <1>0, <1>1 DEF ReadInv, Reading
  <1>4. Sighted /\ Legible' => ReadTo(Open'[cur'], text'[cur'], gx', Stack')
    BY <1>0, <1>1, <1>2, <1>3, Here DEF Legible, Open
  <1>5. ReadInv'
    BY <1>0, <1>1, <1>4 DEF ReadInv, Reading
  <1>6. PendInv'
    <2>1. Len(frames') = 0
      BY <1>0, <1>1
    <2> QED
      BY <1>0, <2>1 DEF PendInv
  <1> QED
    BY <1>0, <1>5, <1>6

(* A step of the parser reads on.                                          *)
LEMMA StepReads ==
  ASSUME Ready, Step, Started(cache)', WithinRecursion'
  PROVE  ReadInv' /\ PendInv'
  <1>1. CASE Finish
    BY <1>1 DEF Finish, ReadInv, PendInv
  <1> QED
    BY <1>1, LoopRead, LoopPend, ScanRead, EnterBlockReads, EndOfBlockRead, NextLineRead,
       LeaveBlockReads, LeaveLevelReads DEF Step

(* So does breaking it off, and between two parses nothing is read.         *)
LEMMA QuietReads ==
  ASSUME Ready, BreakParse \/ UNCHANGED vars \/ phase' = "idle"
  PROVE  ReadInv' /\ PendInv'
  <1>1. CASE phase' = "idle"
    BY <1>1 DEF ReadInv, PendInv
  <1>2. CASE BreakParse \/ UNCHANGED vars
    <2>0. Sighted' = Sighted
      BY <1>2, SightedStays DEF Ready
    <2>1. UNCHANGED <<text, missing, mode, cur, endl, gx, clear, cache, parent, frames, matchend,
                      found, phase>>
      BY <1>2 DEF BreakParse, vars, env, client, tree, where, matching
    <2>2. Stack' = Stack /\ \A n : Levels(n)' = Levels(n)
      BY <2>1, StackSame
    <2>3. ReadInv'
      BY <2>0, <2>1, <2>2 DEF Ready, ReadInv, Reading, Legible, Open
    <2>4. cur \in Nat /\ gx \in Nat
      BY DEF Ready, Inv, RunTypes
    <2>5. PendInv'
      <3>1. ASSUME NEW i PROVE Levels(Depth + i - 1)' = Levels(Depth + i - 1)
        BY <2>1 DEF Levels, LevelsOf, Depth
      <3> QED
        BY <2>0, <2>1, <3>1 DEF Ready, PendInv
    <2> QED
      BY <2>3, <2>5
  <1> QED
    BY <1>1, <1>2

(* A parse starts where the cache knows what is open.                      *)
LEMMA StartParseReads ==
  ASSUME Inv, phase = "idle", NEW t, IsCache(t), Started(t), NEW from \in Nat, NEW num,
         NEW m, StartParse(t, from, num, m), text'[from] \in Seq(Symbols),
         Open'[from] \in Stacks,
         Sighted' => SameLevels(OpenLevels(t, SearchLine(t, from)), Open'[from])
  PROVE  ReadInv' /\ PendInv'
  <1>1. /\ frames' = <<>> /\ phase' = "level" /\ mode' = m /\ cur' = from /\ gx' = 0
    BY StartParseIs
  <1>2. PendInv'
    <2>1. Len(frames') = 0
      BY <1>1
    <2> QED
      BY <2>1 DEF PendInv
  <1>3. ASSUME Sighted' PROVE ReadTo(Open'[cur'], text'[cur'], gx', Stack')
    <2>0. m # "off"
      BY <1>1, <1>3 DEF Sighted
    <2>1. PICK p : p = SearchLine(t, from)
      OBVIOUS
    <2>2. p \in DOMAIN t /\ Stack' = OpenLevels(t, p)
      BY <2>0, <2>1, StartParseStack
    <2>3. Stack' \in Stacks /\ SameLevels(Stack', Open'[from])
      BY <1>3, <2>1, <2>2, OpenLevelsStack
    <2>4. ASSUME NEW s \in Stacks, NEW o \in Stacks, SameLevels(s, o), NEW line \in Seq(Symbols)
          PROVE  ReadTo(o, line, 0, s)
      BY <2>4, ReadStart
    <2> QED
      BY <1>1, <2>3, <2>4
  <1> QED
    BY <1>1, <1>2, <1>3 DEF ReadInv, Reading

-----------------------------------------------------------------------------
(* What the cache knows of a line.  C are the nodes taken to be around it. *)
Ring(t, C) == {q \in DOMAIN t : \A k \in 1..Len(q) : SubSeq(q, 1, k) \in C}

Knows(t, C, open) ==
  \E p \in Ring(t, C) : /\ \A j \in Nat \ {0} : Append(p, j) \notin Ring(t, C)
                        /\ SameLevels(OpenLevels(t, p), open)

Covering(t, l) == {q \in DOMAIN t : Covers(t, q, l)}

(* Below p and behind its k-th child.                                      *)
Under(q, p, k) == Len(q) > Len(p) /\ SubSeq(q, 1, Len(p)) = p /\ q[Len(p) + 1] > k

(* Behind a node that p is reached by, or such a node.                     *)
Beside(q, p) == \E j \in 1..Len(p) : Under(q, SubSeq(p, 1, j - 1), p[j])
Along(q, p) == \E k \in 0..Len(p) : q = SubSeq(p, 1, k)

(* During an update, what is behind the path to parent will be deleted,    *)
(* and the blocks on it go on.                                             *)
Stale(q) == Beside(q, parent) \/ (phase = "level" /\ Under(q, parent, forward))

Holding(l) ==
  {q \in DOMAIN cache : /\ ~ Stale(q) /\ cache[q].sline <= l
                        /\ Along(q, parent) \/ l <= cache[q].eline}

(* The line up to which an update has read.                                *)
Horizon == IF breaking /\ cur >= endl THEN endLine ELSE cur

SameAround(t, u, C, D) ==
  /\ \A q \in Ring(t, C) \ {Root} : q \in DOMAIN u /\ q \in D /\ Level(u[q]) = Level(t[q])
  /\ \A q \in DOMAIN u \ {Root} : q \in D => q \in DOMAIN t /\ q \in C

KnownInv ==
  /\ \A l \in 0..(IF try.on /\ try.sure THEN endl - 1 ELSE valid) :
       Knows(cache, Covering(cache, l), Open[l])
  /\ Updating /\ Sighted => \A l \in first + 1 .. Horizon : Knows(cache, Holding(l), Open[l])

-----------------------------------------------------------------------------
(* The same nodes are around a line in two trees.                          *)
LEMMA SameRing ==
  ASSUME NEW t, IsCache(t), NEW u, IsCache(u), NEW C, NEW D,
         \A q \in Ring(t, C) \ {Root} : q \in DOMAIN u /\ q \in D,
         \A q \in DOMAIN u \ {Root} : q \in D => q \in DOMAIN t /\ q \in C
  PROVE  Ring(t, C) = Ring(u, D)
  <1>0. ASSUME NEW v, IsCache(v)
        PROVE  /\ Root \in DOMAIN v
               /\ \A q \in DOMAIN v : /\ q \in Path /\ Len(q) \in Nat
                                      /\ \A k \in 0..Len(q) : SubSeq(q, 1, k) \in DOMAIN v
    BY <1>0, LenProperties DEF IsCache, IsTree, Rooted, Path
  <1>1. ASSUME NEW q \in Ring(t, C) PROVE q \in Ring(u, D)
    <2>1. q \in DOMAIN t /\ q \in Path /\ Len(q) \in Nat
      BY <1>0 DEF Ring
    <2>2. q \in DOMAIN u
      BY <1>0, <1>1
    <2>3. ASSUME NEW k \in 1..Len(q) PROVE SubSeq(q, 1, k) \in D
      <3> DEFINE r == SubSeq(q, 1, k)
      <3>1. k \in 0..Len(q)
        BY <2>1
      <3>2. r \in DOMAIN t /\ Len(r) = k
        BY <1>0, <2>1, <3>1, Beginning
      <3>3. ASSUME NEW j \in 1..Len(r) PROVE SubSeq(r, 1, j) \in C
        <4>1. j \in 0..k /\ j \in 1..Len(q)
          BY <2>1, <3>2
        <4>2. SubSeq(r, 1, j) = SubSeq(q, 1, j)
          BY <2>1, <3>1, <4>1, BeginningOfBeginning
        <4> QED
          BY <4>1, <4>2 DEF Ring
      <3>4. r \in Ring(t, C)
        BY <3>2, <3>3 DEF Ring
      <3>5. r # Root
        BY <3>2, <2>1 DEF Root
      <3> HIDE DEF r
      <3> QED
        BY <3>4, <3>5 DEF r
    <2> QED
      BY <2>2, <2>3 DEF Ring
  <1>2. ASSUME NEW q \in Ring(u, D) PROVE q \in Ring(t, C)
    <2>1. q \in DOMAIN u /\ q \in Path /\ Len(q) \in Nat
      BY <1>0 DEF Ring
    <2>2. ASSUME NEW k \in 1..Len(q) PROVE SubSeq(q, 1, k) \in DOMAIN t /\ SubSeq(q, 1, k) \in C
      <3>1. SubSeq(q, 1, k) \in D
        BY DEF Ring
      <3>2. k \in 0..Len(q)
        BY <2>1
      <3>3. SubSeq(q, 1, k) \in DOMAIN u /\ Len(SubSeq(q, 1, k)) = k
        BY <1>0, <2>1, <3>2, Beginning
      <3>4. SubSeq(q, 1, k) # Root
        BY <2>1, <3>3 DEF Root
      <3> QED
        BY <3>1, <3>3, <3>4
    <2>3. q \in DOMAIN t
      <3>1. CASE q = Root
        BY <1>0, <3>1
      <3>2. CASE q # Root
        <4>1. Len(q) \in 1..Len(q) /\ Len(q) \in 0..Len(q)
          BY <2>1, <3>2, EmptySeq DEF Root, Path
        <4>2. SubSeq(q, 1, Len(q)) = q
          BY <2>1, <4>1, Beginning
        <4> QED
          BY <2>2, <4>1, <4>2
      <3> QED
        BY <3>1, <3>2
    <2> QED
      BY <2>2, <2>3 DEF Ring
  <1> QED
    BY <1>1, <1>2

(* Open levels are kept with the nodes.                                    *)
LEMMA OpenLevelsSame ==
  ASSUME NEW t, NEW u, NEW p, \A k \in 1..Len(p) : Level(u[SubSeq(p, 1, k)]) = Level(t[SubSeq(p, 1, k)])
  PROVE  OpenLevels(u, p) = OpenLevels(t, p)
  BY DEF OpenLevels

(* What is known stays known when the same nodes are around the line.      *)
LEMMA KnowsKept ==
  ASSUME NEW t, IsCache(t), NEW u, IsCache(u), NEW C, NEW D, SameAround(t, u, C, D),
         NEW open, Knows(t, C, open)
  PROVE  Knows(u, D, open)
  <1>1. Ring(u, D) = Ring(t, C)
    BY SameRing DEF SameAround
  <1>2. PICK p \in Ring(t, C) : /\ \A j \in Nat \ {0} : Append(p, j) \notin Ring(t, C)
                                /\ SameLevels(OpenLevels(t, p), open)
    BY DEF Knows
  <1>3. p \in DOMAIN t /\ p \in Path /\ Len(p) \in Nat
        /\ \A k \in 0..Len(p) : SubSeq(p, 1, k) \in DOMAIN t
    BY <1>2, LenProperties DEF Ring, IsCache, IsTree, Rooted, Path
  <1>4. ASSUME NEW k \in 1..Len(p) PROVE Level(u[SubSeq(p, 1, k)]) = Level(t[SubSeq(p, 1, k)])
    <2> DEFINE r == SubSeq(p, 1, k)
    <2>1. k \in 0..Len(p)
      BY <1>3
    <2>2. r \in DOMAIN t /\ Len(r) = k
      BY <1>3, <2>1, Beginning
    <2>3. ASSUME NEW j \in 1..Len(r) PROVE SubSeq(r, 1, j) \in C
      <3>1. j \in 0..k /\ j \in 1..Len(p)
        BY <1>3, <2>2
      <3>2. SubSeq(r, 1, j) = SubSeq(p, 1, j)
        BY <1>3, <2>1, <3>1, BeginningOfBeginning
      <3> QED
        BY <3>1, <3>2 DEF Ring
    <2>4. r \in Ring(t, C) /\ r # Root
      BY <1>3, <2>2, <2>3 DEF Ring, Root
    <2> HIDE DEF r
    <2> QED
      BY <2>4 DEF r, SameAround
  <1>5. OpenLevels(u, p) = OpenLevels(t, p)
    BY <1>4, OpenLevelsSame
  <1> QED
    BY <1>1, <1>2, <1>5 DEF Knows

(* Looking the line up finds what is known of it.                          *)
LEMMA KnowsFound ==
  ASSUME NEW t, IsCache(t), InOrder(t), NEW l \in Nat, ApartUpTo(t, l), NEW open,
         Knows(t, Covering(t, l), open)
  PROVE  SameLevels(OpenLevels(t, SearchLine(t, l)), open)
  <1> DEFINE C == Covering(t, l)
  <1>1. PICK p \in Ring(t, C) : /\ \A j \in Nat \ {0} : Append(p, j) \notin Ring(t, C)
                                /\ SameLevels(OpenLevels(t, p), open)
    BY DEF Knows
  <1>2. p \in DOMAIN t /\ p \in Path /\ Len(p) \in Nat /\ \A k \in 1..Len(p) : Covers(t, SubSeq(p, 1, k), l)
    BY <1>1, LenProperties DEF Ring, Covering, IsCache, IsTree, Rooted, Path
  <1>3. ASSUME NEW j \in Nat \ {0}, Append(p, j) \in DOMAIN t, Covers(t, Append(p, j), l)
        PROVE  FALSE
    <2> DEFINE r == Append(p, j)
    <2>1. r \in Path /\ Len(r) = Len(p) + 1 /\ SubSeq(r, 1, Len(p) + 1) = r
          /\ \A k \in 0..Len(p) : SubSeq(r, 1, k) = SubSeq(p, 1, k)
      <3>1. r \in Path /\ r = Append(p, j)
        BY <1>2, FrontOfAppend
      <3> HIDE DEF r
      <3> QED
        BY <1>2, <3>1, Longer
    <2>2. ASSUME NEW k \in 1..Len(r) PROVE SubSeq(r, 1, k) \in C
      <3>1. k \in 1..Len(p) \/ k = Len(p) + 1
        BY <1>2, <2>1
      <3>2. k \in 1..Len(p) => k \in 0..Len(p)
        BY <1>2
      <3>3. r \in C
        BY <1>3 DEF Covering
      <3> HIDE DEF r, C
      <3> QED
        BY <1>1, <2>1, <3>1, <3>2, <3>3 DEF Ring
    <2>3. r \in Ring(t, C)
      BY <1>3, <2>2 DEF Ring
    <2> QED
      BY <1>1, <1>3, <2>3
  <1>4. Found(t, p, l)
    BY <1>2, <1>3 DEF Found
  <1>5. p = SearchLine(t, l)
    BY <1>4, FoundIsUnique DEF IsCache
  <1> QED
    BY <1>1, <1>5

(* A node around a line is taken to be so, and so are the nodes above it.   *)
LEMMA RingIs ==
  ASSUME NEW t, IsCache(t), NEW C, NEW q \in Ring(t, C)
  PROVE  /\ q \in DOMAIN t /\ q \in Path /\ Len(q) \in Nat
         /\ q # Root => q \in C
         /\ \A k \in 0..Len(q) : SubSeq(q, 1, k) \in DOMAIN t /\ Len(SubSeq(q, 1, k)) = k
         /\ \A k \in 1..Len(q) : SubSeq(q, 1, k) \in C
  <1>1. q \in DOMAIN t /\ q \in Path /\ Len(q) \in Nat
        /\ \A k \in 0..Len(q) : SubSeq(q, 1, k) \in DOMAIN t
    BY LenProperties DEF Ring, IsCache, IsTree, Rooted, Path
  <1>2. \A k \in 1..Len(q) : SubSeq(q, 1, k) \in C
    BY DEF Ring
  <1>3. ASSUME q # Root PROVE q \in C
    <2>1. Len(q) \in 1..Len(q) /\ Len(q) \in 0..Len(q)
      BY <1>1, <1>3, EmptySeq DEF Root, Path
    <2>2. SubSeq(q, 1, Len(q)) = q
      BY <1>1, <2>1, Beginning
    <2> QED
      BY <1>2, <2>1, <2>2
  <1> QED
    BY <1>1, <1>2, <1>3, Beginning

(* Below p and behind its k-th child there is a child of p around the line.*)
LEMMA RingUnder ==
  ASSUME NEW t, IsCache(t), NEW C, NEW q \in Ring(t, C), NEW p \in DOMAIN t, NEW k \in Nat,
         Under(q, p, k)
  PROVE  \E c \in Nat \ {0} : /\ c > k /\ Append(p, c) \in DOMAIN t /\ Append(p, c) \in C
                              /\ Under(q, p, c - 1) /\ c = q[Len(p) + 1]
  <1>1. /\ q \in DOMAIN t /\ q \in Path /\ Len(q) \in Nat
        /\ \A i \in 1..Len(q) : SubSeq(q, 1, i) \in C
    BY RingIs
  <1>2. Len(p) \in Nat /\ Rooted(t)
    BY LenProperties DEF IsCache, IsTree, Rooted, Path
  <1>3. PICK i \in 1..Len(q) : i = Len(p) + 1
    BY <1>1, <1>2 DEF Under
  <1>4. SubSeq(q, 1, i) = Append(SubSeq(q, 1, i - 1), q[i]) /\ q[i] \in Nat \ {0}
        /\ SubSeq(q, 1, i) \in DOMAIN t
    BY <1>1, <1>2, PathStep
  <1>5. i - 1 = Len(p)
    BY <1>2, <1>3
  <1>6. SubSeq(q, 1, i) = Append(p, q[i])
    BY <1>4, <1>5 DEF Under
  <1>7. q[i] > k /\ Under(q, p, q[i] - 1)
    BY <1>3, <1>4 DEF Under
  <1> QED
    BY <1>1, <1>3, <1>4, <1>6, <1>7

(* KidsAfter is the set of nodes Under a later child of p.                 *)
LEMMA UnderKids ==
  ASSUME NEW t, NEW q \in DOMAIN t, NEW p, NEW k
  PROVE  q \in KidsAfter(t, p, k) <=> Under(q, p, k)
  BY DEF KidsAfter, Under

(* One more node on the path.                                              *)
LEMMA PathLonger ==
  ASSUME NEW p \in Path, NEW k \in Nat \ {0}, NEW r \in Path, r = Append(p, k), NEW q
  PROVE  /\ Beside(q, r) <=> Beside(q, p) \/ Under(q, p, k)
         /\ Along(q, r) <=> Along(q, p) \/ q = r
  <1>1. /\ Len(r) = Len(p) + 1 /\ Len(p) \in Nat /\ r[Len(p) + 1] = k
        /\ \A i \in 0..Len(p) : SubSeq(r, 1, i) = SubSeq(p, 1, i)
        /\ SubSeq(r, 1, Len(p) + 1) = r /\ SubSeq(p, 1, Len(p)) = p
        /\ \A i \in 1..Len(p) : r[i] = p[i]
    <2>1. /\ Len(r) = Len(p) + 1 /\ \A i \in 0..Len(p) : SubSeq(r, 1, i) = SubSeq(p, 1, i)
          /\ SubSeq(r, 1, Len(p) + 1) = r
      BY Longer
    <2>2. Len(p) \in Nat /\ r[Len(p) + 1] = k /\ \A i \in 1..Len(p) : r[i] = p[i]
      BY AppendProperties, LenProperties DEF Path
    <2>3. SubSeq(p, 1, Len(p)) = p
      BY <2>2, Beginning
    <2> QED
      BY <2>1, <2>2, <2>3
  <1>2. ASSUME NEW i \in 1..Len(p)
        PROVE  SubSeq(r, 1, i - 1) = SubSeq(p, 1, i - 1) /\ r[i] = p[i]
    <2>1. i - 1 \in 0..Len(p)
      BY <1>1
    <2> QED
      BY <1>1, <2>1
  <1>3. \A i : i \in 1..Len(r) <=> i \in 1..Len(p) \/ i = Len(p) + 1
    BY <1>1
  <1>4. \A i : i \in 0..Len(r) <=> i \in 0..Len(p) \/ i = Len(p) + 1
    BY <1>1
  <1>5. Beside(q, r) <=> Beside(q, p) \/ Under(q, p, k)
    <2>1. Under(q, SubSeq(r, 1, (Len(p) + 1) - 1), r[Len(p) + 1]) <=> Under(q, p, k)
      <3>1. (Len(p) + 1) - 1 = Len(p) /\ Len(p) \in 0..Len(p)
        BY <1>1
      <3> QED
        BY <1>1, <3>1
    <2>2. Beside(q, r) <=> \/ \E i \in 1..Len(p) : Under(q, SubSeq(r, 1, i - 1), r[i])
                           \/ Under(q, SubSeq(r, 1, (Len(p) + 1) - 1), r[Len(p) + 1])
      BY <1>3 DEF Beside
    <2> QED
      BY <1>2, <2>1, <2>2 DEF Beside
  <1>6. Along(q, r) <=> Along(q, p) \/ q = r
    BY <1>1, <1>4 DEF Along
  <1> QED
    BY <1>5, <1>6

-----------------------------------------------------------------------------
(* Deleting what is stale.                                                 *)
LEMMA StartLevelAround ==
  ASSUME Inv, OrderInv, StartLevel, mode = "update", NEW l \in Nat
  PROVE  /\ l <= first => SameAround(cache, cache', Covering(cache, l), Covering(cache', l))
         /\ SameAround(cache, cache', Holding(l), Holding(l)')
  <1>1. /\ phase = "level" /\ phase' = "line" /\ parent' = parent /\ forward' = forward
        /\ cache' = DropKidsAfter(cache, parent, forward)
    BY StartLevelPath DEF StartLevel, tree
  <1>2. IsCache(cache) /\ parent \in DOMAIN cache /\ forward \in Nat
    BY DEF Inv, Place
  <1>3. /\ DOMAIN cache' = DOMAIN cache \ KidsAfter(cache, parent, forward)
        /\ \A q \in DOMAIN cache' : Keeps(cache, cache', q)
    BY <1>1, <1>2, DroppedKeeps DEF DropKidsAfter
  <1>4. \A q \in DOMAIN cache : q \in DOMAIN cache' <=> ~ Under(q, parent, forward)
    BY <1>3, UnderKids
  <1>5. \A q \in DOMAIN cache' : /\ q \in DOMAIN cache /\ Level(cache'[q]) = Level(cache[q])
                                 /\ Covers(cache', q, l) <=> Covers(cache, q, l)
                                 /\ cache'[q].sline = cache[q].sline /\ cache'[q].eline = cache[q].eline
    BY <1>3 DEF Keeps, Level, Covers
  <1>6. ASSUME l <= first PROVE SameAround(cache, cache', Covering(cache, l), Covering(cache', l))
    <2>1. ASSUME NEW q \in Ring(cache, Covering(cache, l)) PROVE ~ Under(q, parent, forward)
      <3> SUFFICES ASSUME Under(q, parent, forward) PROVE FALSE
        OBVIOUS
      <3>1. PICK c \in Nat \ {0} : /\ c > forward /\ Append(parent, c) \in DOMAIN cache
                                   /\ Append(parent, c) \in Covering(cache, l)
        BY <1>2, RingUnder
      <3>2. cache[Append(parent, c)].sline > first
        BY <1>1, <3>1 DEF OrderInv, Updating, Around, Behind
      <3>3. cache[Append(parent, c)].sline <= l
        BY <3>1 DEF Covering, Covers
      <3>4. cache[Append(parent, c)].sline \in Nat /\ valid \in Nat /\ first \in Nat
        BY <1>2, <3>1, NodeLines, TextAssumption DEF Inv, ClientTypes
      <3> QED
        BY <1>6, <3>2, <3>3, <3>4
    <2> QED
      BY <1>2, <1>4, <1>5, <2>1, RingIs DEF SameAround, Covering
  <1>7. \A q : Stale(q) <=> Stale(q)' \/ Under(q, parent, forward)
    BY <1>1 DEF Stale
  <1>8. ASSUME NEW q \in DOMAIN cache' PROVE q \in Holding(l)' <=> q \in Holding(l)
    BY <1>1, <1>4, <1>5, <1>7 DEF Holding
  <1>9. ASSUME NEW q \in Ring(cache, Holding(l)) \ {Root} PROVE q \in DOMAIN cache'
    <2>1. q \in DOMAIN cache /\ q \in Holding(l)
      BY <1>2, RingIs
    <2> QED
      BY <1>4, <1>7, <2>1 DEF Holding
  <1> QED
    BY <1>2, <1>5, <1>6, <1>8, <1>9, RingIs DEF SameAround

(* A new node, for the lines to come.                                      *)
LEMMA EnterBlockAround ==
  ASSUME Inv, OrderInv, EnterBlock, mode = "update", NEW l \in Nat, l <= cur
  PROVE  /\ SameAround(cache, cache', Covering(cache, l), Covering(cache', l))
         /\ SameAround(cache, cache', Holding(l), Holding(l)')
  <1> DEFINE new == parent'
  <1>1. phase = "scan" /\ phase' # "level" /\ cur \in Nat
    BY DEF EnterBlock, Scanning, Inv, RunTypes
  <1>2. /\ forward \in Nat /\ parent \in DOMAIN cache /\ parent \in Path
        /\ KidsAfter(cache, parent, forward) = {}
        /\ new = Append(parent, forward + 1) /\ new \in Path
        /\ new \notin DOMAIN cache /\ DOMAIN cache' = DOMAIN cache \cup {new}
        /\ cache'[new] = NewNode(Hit, text[cur][gx + 1], gx, cur)
        /\ \A q \in DOMAIN cache : cache'[q] = cache[q]
    BY EnterBlockTree
  <1>3. cache'[new].sline = cur + 1
    BY <1>2 DEF NewNode
  <1>4. IsCache(cache)
    BY DEF Inv
  <1>5. ~ (cache'[new].sline <= l)
    BY <1>1, <1>3
  <1>10. ASSUME NEW q
         PROVE  /\ Beside(q, new) <=> Beside(q, parent) \/ Under(q, parent, forward + 1)
                /\ Along(q, new) <=> Along(q, parent) \/ q = new
    <2>1. PICK k \in Nat \ {0} : k = forward + 1
      BY <1>2
    <2>2. PICK p \in Path : p = parent
      BY <1>2
    <2>3. PICK r \in Path : r = new
      BY <1>2
    <2>4. r = Append(p, k)
      BY <1>2, <2>1, <2>2, <2>3
    <2>5. /\ Beside(q, r) <=> Beside(q, p) \/ Under(q, p, k)
          /\ Along(q, r) <=> Along(q, p) \/ q = r
      BY ONLY <2>4, PathLonger, p \in Path, r \in Path, k \in Nat \ {0}
    <2> QED
      BY <2>1, <2>2, <2>3, <2>5
  <1>6. ASSUME NEW q \in DOMAIN cache
        PROVE  Stale(q)' <=> Stale(q)
    <2>1. Beside(q, new) <=> Beside(q, parent) \/ Under(q, parent, forward + 1)
      BY <1>10
    <2>2. ~ Under(q, parent, forward + 1)
      <3>1. ~ Under(q, parent, forward)
        BY <1>2, UnderKids
      <3>2. q \in Path
        BY <1>4 DEF IsCache, IsTree, Rooted
      <3>3. Under(q, parent, forward + 1) => q[Len(parent) + 1] \in Nat
        <4>1. Len(parent) \in Nat /\ Len(q) \in Nat /\ \A i \in 1..Len(q) : q[i] \in Nat \ {0}
          BY <1>2, <3>2, LenProperties, ElementOfSeq DEF Path
        <4> QED
          BY <4>1 DEF Under
      <3> QED
        BY <1>2, <3>1, <3>3 DEF Under
    <2> QED
      BY <1>1, <2>1, <2>2 DEF Stale
  <1>7. ASSUME NEW q \in DOMAIN cache
        PROVE  Along(q, new) <=> Along(q, parent)
    BY <1>2, <1>10
  <1>8. ASSUME NEW q \in DOMAIN cache
        PROVE  /\ q \in Holding(l)' <=> q \in Holding(l)
               /\ q \in Covering(cache', l) <=> q \in Covering(cache, l)
               /\ q \in DOMAIN cache' /\ Level(cache'[q]) = Level(cache[q])
    BY <1>2, <1>6, <1>7 DEF Holding, Covering, Covers
  <1>9. new \notin Holding(l)' /\ new \notin Covering(cache', l)
    BY <1>5 DEF Holding, Covering, Covers
  <1> HIDE DEF new
  <1> QED
    BY <1>2, <1>4, <1>8, <1>9, RingIs DEF SameAround

(* Taking the innermost node off the path, which keeps, ends or deletes it.*)
LEMMA PopAround ==
  ASSUME NEW p \in Path, NEW r \in Path, NEW k \in Nat \ {0}, p = Append(r, k), NEW q,
         NEW t, q \in DOMAIN t, KidsAfter(t, r, k) = {}
  PROVE  /\ Beside(q, p) <=> Beside(q, r)
         /\ Along(q, p) <=> Along(q, r) \/ q = p
  <1>1. ~ Under(q, r, k)
    BY UnderKids
  <1> QED
    BY <1>1, PathLonger

(* searchBL leaves a block.                                                *)
LEMMA LeaveBlockAround ==
  ASSUME Inv, OrderInv, RangeInv, LeaveBlock, mode = "update", NEW l \in Nat, l <= cur
  PROVE  /\ l <= first => SameAround(cache, cache', Covering(cache, l), Covering(cache', l))
         /\ SameAround(cache, cache', Holding(l), Holding(l)')
  <1>0. PICK f : f = Last(frames)
    OBVIOUS
  <1>1. phase = "return" /\ phase' # "level" /\ cur \in Nat /\ valid \in Nat /\ first \in Nat /\ IsCache(cache)
    BY TextAssumption DEF LeaveBlock, Inv, RunTypes, ClientTypes, PhaseAt
  <1>2. /\ parent # Root /\ parent \in DOMAIN cache /\ parent \in Path
        /\ parent' \in DOMAIN cache /\ parent' \in DOMAIN cache'
        /\ Last(parent) \in Nat \ {0} /\ parent = Append(parent', Last(parent))
        /\ f \in FrameTypes /\ f.forward \in Nat /\ Last(parent) = f.forward + 1
        /\ KidsAfter(cache, parent', Last(parent)) = {}
        /\ f.line <= cur /\ cache[parent].sline = f.line + 1
    BY <1>0, LeaveBlockTree
  <1>3. f.line = cur => /\ DOMAIN cache' = DOMAIN cache \ KidsAfter(cache, parent', f.forward)
                        /\ \A q \in DOMAIN cache' : Keeps(cache, cache', q)
    BY <1>0, LeaveBlockTree
  <1>4. f.line # cur => /\ DOMAIN cache' = DOMAIN cache
                        /\ \A q \in DOMAIN cache \ {parent} : Keeps(cache, cache', q)
                        /\ cache'[parent].sline = cache[parent].sline /\ cache'[parent].eline = cur
                        /\ Level(cache'[parent]) = Level(cache[parent])
    BY <1>0, LeaveBlockTree
  <1>5. PICK r : r = parent'
    OBVIOUS
  <1>6. r \in Path /\ r \in DOMAIN cache
    BY <1>1, <1>2, <1>5 DEF IsCache, IsTree, Rooted
  <1>7. PICK k \in Nat \ {0} : k = Last(parent)
    BY <1>2
  <1>8. ASSUME NEW q \in DOMAIN cache
        PROVE  /\ Beside(q, parent) <=> Beside(q, r)
               /\ Along(q, parent) <=> Along(q, r) \/ q = parent
    BY <1>2, <1>5, <1>6, <1>7, PopAround
  <1>9. \A q \in DOMAIN cache : Stale(q) <=> Stale(q)'
    BY <1>1, <1>5, <1>8 DEF Stale
  <1>10. f.line \in Nat
    BY <1>2 DEF FrameTypes
  <1>11. CASE f.line = cur
    <2>1. ~ (cache[parent].sline <= l)
      BY <1>1, <1>2, <1>11
    <2>2. \A q \in DOMAIN cache : q \in DOMAIN cache' <=> ~ Under(q, r, f.forward)
      BY <1>3, <1>5, <1>11, UnderKids
    <2>3. parent \notin DOMAIN cache'
      <3>1. Under(parent, r, f.forward)
        <4>1. /\ Len(parent) = Len(r) + 1 /\ Len(r) \in Nat /\ SubSeq(parent, 1, Len(r)) = r
              /\ parent[Len(r) + 1] = k
          <5>1. parent = Append(r, k)
            BY <1>2, <1>5, <1>7
          <5>2. Len(r) \in Nat /\ Len(r) \in 0..Len(r)
            BY <1>6, LenProperties DEF Path
          <5>3. SubSeq(parent, 1, Len(r)) = SubSeq(r, 1, Len(r)) /\ SubSeq(r, 1, Len(r)) = r
            BY <1>2, <1>6, <5>1, <5>2, Longer, Beginning
          <5> QED
            BY <1>6, <5>1, <5>2, <5>3, AppendProperties DEF Path
        <4> QED
          BY <1>2, <1>7, <4>1 DEF Under
      <3> QED
        BY <1>2, <2>2, <3>1
    <2>4. ASSUME NEW C, NEW q \in Ring(cache, C), \A x \in C : cache[x].sline <= l
          PROVE  ~ Under(q, r, f.forward)
      <3> SUFFICES ASSUME Under(q, r, f.forward) PROVE FALSE
        OBVIOUS
      <3>1. PICK c \in Nat \ {0} : /\ c > f.forward /\ Append(r, c) \in DOMAIN cache
                                   /\ Append(r, c) \in C
                                   /\ Under(q, r, c - 1) /\ c = q[Len(r) + 1]
        BY <1>1, <1>2, <1>6, RingUnder
      <3>2. q \in DOMAIN cache /\ ~ Under(q, r, k)
        <4>1. q \in DOMAIN cache
          BY <1>1, RingIs
        <4> QED
          BY <1>2, <1>5, <1>7, <4>1, UnderKids
      <3>3. ~ (c > k)
        BY <3>1, <3>2 DEF Under
      <3>4. c = k
        BY <1>2, <1>7, <3>1, <3>3
      <3>5. Append(r, c) = parent
        BY <1>2, <1>5, <1>7, <3>4
      <3> QED
        BY <2>1, <2>4, <3>1, <3>5
    <2>5. ASSUME NEW q \in DOMAIN cache'
          PROVE  /\ q \in DOMAIN cache /\ Level(cache'[q]) = Level(cache[q])
                 /\ q \in Holding(l)' <=> q \in Holding(l)
                 /\ q \in Covering(cache', l) <=> q \in Covering(cache, l)
      <3>1. Keeps(cache, cache', q) /\ q # parent /\ q \in DOMAIN cache
        BY <1>3, <1>11, <2>3 DEF Keeps
      <3>2. Level(cache'[q]) = Level(cache[q]) /\ cache'[q].sline = cache[q].sline
            /\ cache'[q].eline = cache[q].eline
        BY <3>1 DEF Keeps, Level
      <3>3. (Stale(q) <=> Stale(q)') /\ (Along(q, parent) <=> Along(q, r))
        BY <1>8, <1>9, <3>1
      <3> QED
        BY <1>5, <3>1, <3>2, <3>3 DEF Holding, Covering, Covers
    <2>6. (\A x \in Holding(l) : cache[x].sline <= l) /\ \A x \in Covering(cache, l) : cache[x].sline <= l
      BY DEF Holding, Covering, Covers
    <2>7. ASSUME NEW C, \A x \in C : cache[x].sline <= l, NEW q \in Ring(cache, C) \ {Root}
          PROVE  q \in DOMAIN cache' /\ q \in C
      BY <1>1, <2>2, <2>4, <2>7, RingIs
    <2> QED
      BY <2>5, <2>6, <2>7 DEF SameAround
  <1>12. CASE f.line # cur
    <2>1. ASSUME NEW q \in DOMAIN cache
          PROVE  /\ q \in DOMAIN cache' /\ Level(cache'[q]) = Level(cache[q])
                 /\ q \in Holding(l)' <=> q \in Holding(l)
                 /\ l <= first => (q \in Covering(cache', l) <=> q \in Covering(cache, l))
      <3>1. CASE q # parent
        <4>1. Keeps(cache, cache', q)
          BY <1>4, <1>12, <3>1
        <4>2. Level(cache'[q]) = Level(cache[q]) /\ cache'[q].sline = cache[q].sline
              /\ cache'[q].eline = cache[q].eline /\ q \in DOMAIN cache'
          BY <4>1 DEF Keeps, Level
        <4>3. (Stale(q) <=> Stale(q)') /\ (Along(q, parent) <=> Along(q, r))
          BY <1>8, <1>9, <3>1
        <4> QED
          BY <1>5, <4>2, <4>3 DEF Holding, Covering, Covers
      <3>2. CASE q = parent
        <4>1. Level(cache'[q]) = Level(cache[q]) /\ cache'[q].sline = cache[q].sline
              /\ cache'[q].eline = cur /\ q \in DOMAIN cache'
          BY <1>4, <1>12, <3>2
        <4>2. (Stale(q) <=> Stale(q)') /\ Along(q, parent)
          BY <1>8, <1>9, <3>2
        <4>3. q \in Holding(l)' <=> q \in Holding(l)
          BY <4>1, <4>2 DEF Holding
        <4>4. first <= f.line
          <5>1. Len(frames) \in 1..Len(frames) /\ f = frames[Len(frames)]
            BY <1>0, Innermost
          <5> QED
            BY <1>1, <5>1 DEF RangeInv
        <4>5. l <= first => ~ (cache[q].sline <= l)
          BY <1>1, <1>2, <1>10, <3>2, <4>4
        <4> QED
          BY <4>1, <4>3, <4>5 DEF Covering, Covers
      <3> QED
        BY <3>1, <3>2
    <2>2. DOMAIN cache' = DOMAIN cache
      BY <1>4, <1>12
    <2> QED
      BY <1>1, <2>1, <2>2, RingIs DEF SameAround
  <1> QED
    BY <1>11, <1>12

(* parse() closes a level, whose siblings behind it are stale still.        *)
LEMMA LeaveLevelAround ==
  ASSUME Inv, OrderInv, LeaveLevel, mode = "update", NEW l \in Nat, l <= cur
  PROVE  /\ l <= first => SameAround(cache, cache', Covering(cache, l), Covering(cache', l))
         /\ SameAround(cache, cache', Holding(l), Holding(l)')
  <1>1. /\ phase = "return" /\ phase' = "level" /\ cur \in Nat /\ valid \in Nat /\ first \in Nat /\ IsCache(cache)
        /\ mode' = mode
    BY TextAssumption DEF LeaveLevel, Inv, RunTypes, ClientTypes
  <1>2. /\ parent # Root /\ parent \in DOMAIN cache /\ parent \in Path
        /\ Len(frames) = 0 /\ Len(parent) \in Nat \ {0}
        /\ parent' \in DOMAIN cache /\ forward' = Last(parent)
        /\ Last(parent) \in Nat \ {0} /\ parent = Append(parent', Last(parent))
        /\ DOMAIN cache' = DOMAIN cache
        /\ \A q \in DOMAIN cache \ {parent} : Keeps(cache, cache', q)
        /\ cache'[parent].sline = cache[parent].sline /\ cache'[parent].eline = cur
        /\ Level(cache'[parent]) = Level(cache[parent])
    BY LeaveLevelTree
  <1>3. PICK r \in Path : r = parent'
    BY <1>1, <1>2 DEF IsCache, IsTree, Rooted
  <1>4. PICK k \in Nat \ {0} : k = Last(parent)
    BY <1>2
  <1>5. ASSUME NEW q
        PROVE  /\ Beside(q, parent) <=> Beside(q, r) \/ Under(q, r, k)
               /\ Along(q, parent) <=> Along(q, r) \/ q = parent
    <2>1. PICK p \in Path : p = parent
      BY <1>2
    <2>2. p = Append(r, k)
      BY <1>2, <1>3, <1>4, <2>1
    <2>3. /\ Beside(q, p) <=> Beside(q, r) \/ Under(q, r, k)
          /\ Along(q, p) <=> Along(q, r) \/ q = p
      BY ONLY <2>2, PathLonger, p \in Path, r \in Path, k \in Nat \ {0}
    <2> QED
      BY <2>1, <2>3
  <1>6. \A q : Stale(q) <=> Stale(q)'
    BY <1>1, <1>2, <1>3, <1>4, <1>5 DEF Stale
  <1>7. cache[parent].sline <= first /\ first <= cache[parent].eline /\ first <= cur
    <2>1. Depth = Len(parent) /\ Around
      BY <1>1, <1>2 DEF OrderInv, Updating, Depth
    <2>2. Len(parent) \in 1..Depth /\ Len(parent) \in 0..Len(parent)
      BY <1>2, <2>1
    <2>3. SubSeq(parent, 1, Len(parent)) = parent
      BY <1>2, <2>2, Beginning
    <2> QED
      BY <2>1, <2>2, <2>3 DEF Around, Surrounds, Covers
  <1>8. cache[parent].eline \in Nat
    BY <1>1, <1>2, NodeLines
  <1>9. ASSUME NEW q \in DOMAIN cache
        PROVE  /\ q \in DOMAIN cache' /\ Level(cache'[q]) = Level(cache[q])
               /\ q \in Holding(l)' <=> q \in Holding(l)
               /\ l <= first => (q \in Covering(cache', l) <=> q \in Covering(cache, l))
    <2>1. CASE q # parent
      <3>1. Keeps(cache, cache', q)
        BY <1>2, <2>1
      <3>2. Level(cache'[q]) = Level(cache[q]) /\ cache'[q].sline = cache[q].sline
            /\ cache'[q].eline = cache[q].eline /\ q \in DOMAIN cache'
        BY <3>1 DEF Keeps, Level
      <3>3. (Stale(q) <=> Stale(q)') /\ (Along(q, parent) <=> Along(q, r))
        BY <1>5, <1>6, <2>1
      <3> QED
        BY <1>3, <3>2, <3>3 DEF Holding, Covering, Covers
    <2>2. CASE q = parent
      <3>1. Level(cache'[q]) = Level(cache[q]) /\ cache'[q].sline = cache[q].sline
            /\ cache'[q].eline = cur /\ q \in DOMAIN cache'
        BY <1>2, <2>2
      <3>2. (Stale(q) <=> Stale(q)') /\ Along(q, parent)
        BY <1>5, <1>6, <2>2
      <3>3. q \in Holding(l)' <=> q \in Holding(l)
        BY <3>1, <3>2 DEF Holding
      <3>4. l <= first => l <= cache[q].eline /\ l <= cur
        BY <1>1, <1>7, <1>8, <2>2
      <3> QED
        BY <3>1, <3>3, <3>4 DEF Covering, Covers
    <2> QED
      BY <2>1, <2>2
  <1> QED
    BY <1>1, <1>2, <1>9, RingIs DEF SameAround

-----------------------------------------------------------------------------
(* A step of an update that reads no further keeps what is known.          *)
LEMMA KnownUpdate ==
  ASSUME Inv, Inv', RangeInv, KnownInv, Updating,
         UNCHANGED <<text, valid, first, Horizon>>, try'.on = try.on, Sighted' = Sighted,
         \A l \in Nat : l <= cur =>
           /\ l <= first => SameAround(cache, cache', Covering(cache, l), Covering(cache', l))
           /\ SameAround(cache, cache', Holding(l), Holding(l)'),
         Horizon <= cur, Horizon \in Nat, first <= cur
  PROVE  KnownInv'
  <1>1. /\ IsCache(cache) /\ IsCache(cache') /\ valid \in Nat /\ first \in Nat
        /\ ~ try.on /\ cur \in Nat /\ valid <= first
    BY TextAssumption DEF Inv, ClientTypes, RunTypes, RangeInv, TryRange, Updating
  <1>2. ASSUME NEW l \in 0..valid PROVE Knows(cache', Covering(cache', l), Open'[l])
    <2>1. Knows(cache, Covering(cache, l), Open[l]) /\ Open' = Open
      BY <1>1 DEF KnownInv, Open
    <2>2. l \in Nat /\ l <= first /\ l <= cur
      BY <1>1
    <2> QED
      BY <1>1, <2>1, <2>2, KnowsKept
  <1>3. ASSUME Sighted, NEW l \in first + 1 .. Horizon PROVE Knows(cache', Holding(l)', Open'[l])
    <2>1. Knows(cache, Holding(l), Open[l]) /\ Open' = Open
      BY <1>1, <1>3 DEF KnownInv, Open
    <2>2. l \in Nat /\ l <= cur
      BY <1>1
    <2>3. SameAround(cache, cache', Holding(l), Holding(l)')
      BY <2>2
    <2>4. PICK C : C = Holding(l)'
      OBVIOUS
    <2> QED
      BY <1>1, <2>1, <2>3, <2>4, KnowsKept
  <1> QED
    BY <1>1, <1>2, <1>3 DEF KnownInv

(* So does one that leaves the cache alone.                                *)
LEMMA KnownSame ==
  ASSUME KnownInv, UNCHANGED <<text, valid, first, cache, parent, mode, forward, endl>>,
         try'.on = try.on, try'.sure = try.sure, Sighted' = Sighted,
         phase # "idle", (phase # "level" /\ phase' # "level") \/ phase' = phase,
         Updating => Horizon' \in Int /\ Horizon \in Int /\ Horizon' <= Horizon,
         first \in Nat
  PROVE  KnownInv'
  <1>1. Open' = Open
    BY DEF Open
  <1>2. \A l : Holding(l)' = Holding(l)
    BY DEF Holding, Stale
  <1>3. Updating' => Updating
    BY DEF Updating
  <1>4. ASSUME Updating PROVE \A l \in first + 1 .. Horizon' : l \in first + 1 .. Horizon
    BY <1>4
  <1> QED
    BY <1>1, <1>2, <1>3, <1>4 DEF KnownInv

(* Outside an update, while the cache stays.                               *)
LEMMA KnownQuiet ==
  ASSUME KnownInv, UNCHANGED <<text, valid, first, cache, endl>>, ~ Updating',
         try'.on = try.on, try'.sure = try.sure
  PROVE  KnownInv'
  <1>1. Open' = Open
    BY DEF Open
  <1> QED
    BY <1>1 DEF KnownInv

(* In update mode every open block has a node on the path to parent.       *)
LEMMA StackIsOpen ==
  ASSUME Inv, OrderInv, Started(cache), Updating
  PROVE  Stack = OpenLevels(cache, parent)
  <1>1. /\ Depth \in 0..Len(parent) /\ Len(parent) \in Nat /\ parent \in DOMAIN cache
        /\ Len(frames) \in Nat /\ Len(parent) = Depth + Len(frames)
    BY CachedLevels DEF Inv, Place, Updating
  <1>2. Height = Len(parent) /\ Height \in 0..Height
    BY <1>1 DEF Height
  <1>3. /\ Stack \in Stacks /\ Len(Stack) = Len(parent)
        /\ \A k \in 1..Len(parent) : Stack[k] = IF k <= Depth THEN Level(cache[SubSeq(parent, 1, k)])
                                           ELSE LevelOf(frames[k - Depth])
    <2>1. PICK n \in 0..Height : n = Height
      BY <1>2
    <2> QED
      BY <1>2, <2>1, LevelsType DEF Stack
  <1>4. /\ OpenLevels(cache, parent) \in Stacks /\ Len(OpenLevels(cache, parent)) = Len(parent)
        /\ \A k \in 1..Len(parent) : OpenLevels(cache, parent)[k] = Level(cache[SubSeq(parent, 1, k)])
    BY <1>1, OpenLevelsStack DEF Inv
  <1>5. ASSUME NEW k \in 1..Len(parent), ~ (k <= Depth)
        PROVE  Level(cache[SubSeq(parent, 1, k)]) = LevelOf(frames[k - Depth])
    <2>1. PICK i \in 1..Len(frames) : i = k - Depth /\ Depth + i = k
      BY <1>1, <1>5
    <2>2. Level(cache[SubSeq(parent, 1, Depth + i)]) = LevelOf(frames[i])
      BY DEF OrderInv, Around, Begun
    <2> QED
      BY <2>1, <2>2
  <1> QED
    BY <1>3, <1>4, <1>5, StacksEqual

(* Nodes on a path are not behind it.                                      *)
LEMMA NotBeside ==
  ASSUME NEW p \in Path, NEW k \in 0..Len(p)
  PROVE  ~ Beside(SubSeq(p, 1, k), p) /\ Along(SubSeq(p, 1, k), p)
  <1>1. /\ Len(SubSeq(p, 1, k)) = k /\ \A i \in 1..k : SubSeq(p, 1, k)[i] = p[i]
        /\ Len(p) \in Nat /\ \A i \in 1..Len(p) : p[i] \in Nat
    BY Beginning, LenProperties, ElementOfSeq DEF Path
  <1>2. ASSUME NEW j \in 1..Len(p), Under(SubSeq(p, 1, k), SubSeq(p, 1, j - 1), p[j])
        PROVE  FALSE
    <2>1. j - 1 \in 0..Len(p) /\ Len(SubSeq(p, 1, j - 1)) = j - 1
      <3>1. j - 1 \in 0..Len(p)
        BY <1>1
      <3> QED
        BY <3>1, Beginning
    <2>2. SubSeq(p, 1, k)[j] > p[j] /\ k > j - 1
      BY <1>1, <1>2, <2>1 DEF Under
    <2>3. j \in 1..k
      BY <1>1, <2>2
    <2> QED
      BY <1>1, <2>2, <2>3
  <1> QED
    BY <1>2 DEF Beside, Along

(* The node that is being extended is the innermost one around the next    *)
(* line.                                                                   *)
LEMMA ParentAround ==
  ASSUME Inv, OrderInv, Updating, phase # "level"
  PROVE  /\ parent \in Ring(cache, Holding(cur + 1))
         /\ \A j \in Nat \ {0} : Append(parent, j) \notin Ring(cache, Holding(cur + 1))
  <1> DEFINE H == Holding(cur + 1)
  <1>1. /\ Depth \in 0..Len(parent) /\ Len(parent) \in Nat /\ parent \in Path
        /\ parent \in DOMAIN cache /\ Len(frames) \in Nat /\ Len(parent) = Depth + Len(frames)
        /\ \A k \in 0..Len(parent) : SubSeq(parent, 1, k) \in DOMAIN cache
    BY CachedLevels DEF Inv, Place, Updating
  <1>2. IsCache(cache) /\ cur \in Nat /\ first \in Nat /\ forward \in Nat
    BY TextAssumption DEF Inv, RunTypes, ClientTypes, Place
  <1>3. /\ first <= cur /\ Surrounds(cache, parent, Depth, first)
        /\ Over(cache, parent, forward, cur) /\ Begun(cache, parent, Depth, frames, cur)
        /\ Apart(cache, parent, forward, FALSE) /\ InOrder(cache)
    BY DEF OrderInv, Updating, Around
  <1>4. ASSUME NEW k \in 1..Len(parent) PROVE SubSeq(parent, 1, k) \in H
    <2> DEFINE q == SubSeq(parent, 1, k)
    <2>1. k \in 0..Len(parent)
      BY <1>1
    <2>2. q \in DOMAIN cache /\ ~ Beside(q, parent) /\ Along(q, parent)
      BY <1>1, <2>1, NotBeside
    <2>3. cache[q].sline \in Nat
      BY <1>2, <2>2, NodeLines
    <2>4. cache[q].sline <= cur + 1
      <3>1. CASE k <= Depth
        <4>1. k \in 1..Depth
          BY <1>1, <3>1
        <4>2. cache[q].sline <= first
          BY <1>3, <4>1 DEF Surrounds, Covers
        <4> QED
          BY <1>2, <1>3, <2>3, <4>2
      <3>2. CASE ~ (k <= Depth)
        <4>1. PICK i \in 1..Len(frames) : i = k - Depth /\ Depth + i = k
          BY <1>1, <3>2
        <4>2. cache[q].sline = frames[i].line + 1 /\ frames[i].line <= cur
          BY <1>3, <4>1 DEF Begun
        <4>3. frames[i].line \in Nat
          <5>1. frames[i] \in FrameTypes
            BY ElementOfSeq DEF Inv, RunTypes
          <5> QED
            BY <5>1 DEF FrameTypes
        <4> QED
          BY <1>2, <4>2, <4>3
      <3> QED
        BY <3>1, <3>2
    <2> HIDE DEF q
    <2> QED
      BY <2>2, <2>4 DEF Holding, Stale, q
  <1>5. ASSUME NEW j \in Nat \ {0}, Append(parent, j) \in Ring(cache, H) PROVE FALSE
    <2> DEFINE c == Append(parent, j)
    <2>1. c \in Path /\ c # Root /\ Len(c) = Len(parent) + 1
      BY <1>1, FrontOfAppend
    <2>2. c \in H /\ c \in DOMAIN cache
      BY <1>2, <1>5, <2>1, RingIs
    <2>3. ~ Along(c, parent)
      <3>1. \A k \in 0..Len(parent) : Len(SubSeq(parent, 1, k)) = k
        BY <1>1, Beginning
      <3> QED
        BY <1>1, <2>1, <3>1 DEF Along
    <2>4. cur + 1 <= cache[c].eline
      BY <2>2, <2>3 DEF Holding
    <2>5. cache[c].eline \in Nat /\ cache[c].sline \in Nat
      BY <1>2, <2>2, NodeLines
    <2>6. KidsAfter(cache, parent, forward) = {} /\ At(cache, parent, forward)
      BY DEF Inv, Grafting, Updating
    <2>7. ~ (j > forward)
      BY <1>1, <2>2, <2>6, NoKid
    <2>8. forward # 0 /\ Append(parent, forward) \in DOMAIN cache
      BY <1>2, <2>6, <2>7 DEF At
    <2>9. cache[Append(parent, forward)].sline <= cur /\ cache[Append(parent, forward)].eline <= cur
      BY <1>3, <2>8 DEF Over
    <2>10. CASE j = forward
      BY <1>2, <2>4, <2>5, <2>9, <2>10
    <2>11. CASE j < forward
      <3>1. cache[c].eline < cache[Append(parent, forward)].sline
        BY <1>1, <1>2, <1>3, <2>8, <2>11 DEF Apart
      <3>2. cache[Append(parent, forward)].sline \in Nat
        BY <1>2, <2>8, NodeLines
      <3> QED
        BY <1>2, <2>4, <2>5, <2>9, <3>1, <3>2
    <2> QED
      BY <1>2, <2>7, <2>10, <2>11
  <1> QED
    BY <1>1, <1>4, <1>5 DEF Ring

(* Going on to the next line, the cache knows the lines up to there.       *)
LEMMA NextLineKnown ==
  ASSUME Ready, KnownInv, NextLine
  PROVE  KnownInv'
  <1> USE DEF Ready
  <1>1. /\ phase = "scan" /\ phase' = "line" /\ cur < endl /\ ~ found
        /\ UNCHANGED <<text, valid, first, mode, endl, endLine, breaking, cache, parent, forward,
                       frames, try>>
        /\ cur' = (IF gx > matchend.s THEN cur ELSE endl) + 1
        /\ gx > matchend.s \/ breaking
    BY DEF NextLine, env, client, tree, where, Inv, Positions
  <1>2. cur \in Nat /\ endl \in Nat /\ endLine \in Nat /\ first \in Nat
    BY Counters
  <1>9. Sighted' = Sighted
    BY SightedStays
  <1>3. endLine = cur
    BY <1>1 DEF RangeInv, SeenLines
  <1>4. Horizon = cur
    BY <1>1, <1>2 DEF Horizon
  <1>5. Horizon' = (IF breaking /\ cur' >= endl THEN cur ELSE cur')
    BY <1>1, <1>3 DEF Horizon
  <1>6. CASE ~ Updating
    BY <1>1, <1>6, KnownQuiet DEF Updating
  <1>7. CASE Updating /\ breaking /\ cur' >= endl
    <2>1. Horizon' = cur
      BY <1>5, <1>7
    <2> QED
      BY <1>1, <1>2, <1>4, <1>9, <2>1, KnownSame
  <1>10. CASE ~ Sighted
    BY <1>1, <1>9, <1>10 DEF KnownInv, Open
  <1>8. CASE Updating /\ Sighted /\ ~ (breaking /\ cur' >= endl)
    <2>1. gx > matchend.s /\ cur' = cur + 1 /\ Horizon' = cur + 1
      BY <1>1, <1>2, <1>5, <1>8
    <2>2. ReadTo(Open[cur], text[cur], Len(text[cur]), Stack)
      BY <1>1, <1>8, <2>1 DEF ReadInv, Reading, Updating
    <2>3. /\ cur \in Nat /\ text[cur] \in Seq(Symbols) /\ Open[cur] \in Stacks
          /\ Open[cur + 1] = OpenAfter(Open[cur], text[cur])
      BY <1>1, Here
    <2>4. Stack \in Stacks /\ Stack = OpenLevels(cache, parent)
      BY <1>1, <1>8, StackTopIs, StackIsOpen DEF Running
    <2>5. SameLevels(OpenLevels(cache, parent), Open[cur + 1])
      BY <2>2, <2>3, <2>4, ReadOver
    <2>6. Knows(cache, Holding(cur + 1), Open[cur + 1])
      BY <1>1, <1>8, <2>5, ParentAround DEF Knows
    <2>7. Open' = Open /\ \A l : Holding(l)' = Holding(l)
      BY <1>1 DEF Open, Holding, Stale
    <2>8. \A l \in first + 1 .. Horizon' : l \in first + 1 .. Horizon \/ l = cur + 1
      BY <1>2, <1>4, <2>1
    <2>9. \A l \in first + 1 .. Horizon' : Knows(cache', Holding(l)', Open'[l])
      BY <1>1, <1>8, <2>6, <2>7, <2>8 DEF KnownInv
    <2> QED
      BY <1>1, <2>7, <2>9 DEF KnownInv
  <1> QED
    BY <1>6, <1>7, <1>8, <1>10

(* A step inside parse() keeps what is known.                              *)
LEMMA StepKnown ==
  ASSUME Ready, Inv', KnownInv, Step, ~ Finish
  PROVE  KnownInv'
  <1> USE DEF Ready
  <1>0. /\ phase # "idle"
        /\ cur \in Nat /\ endl \in Nat /\ endLine \in Nat /\ first \in Nat /\ gx \in Nat
        /\ phase = "scan" => cur < endl
        /\ Sighted' = Sighted /\ try'.on = try.on /\ try'.sure = try.sure
    <2>1. phase # "idle"
      BY DEF Step, StartLevel, LinesExhausted, LineMissing, LineBegin, ScanNothing, ScanRegexp,
           Scanning, EnterBlock, EndOfBlock, NextLine, LeaveBlock, LeaveLevel
    <2>2. Sighted' = Sighted /\ try'.on = try.on /\ try'.sure = try.sure
      BY SightedStays DEF Step
    <2> QED
      BY <2>1, <2>2, Counters
  <1>1. Horizon \in Nat /\ (Updating => first <= cur /\ Horizon <= cur)
    <2>1. breaking /\ cur >= endl => endLine < endl
      BY <1>0 DEF RangeInv, SeenLines
    <2>2. Updating => first <= cur
      BY DEF OrderInv, Around
    <2> QED
      BY <1>0, <2>1, <2>2 DEF Horizon
  <1>2. CASE LinesExhausted \/ LineMissing \/ LineBegin \/ ScanNothing \/ ScanRegexp
    <2>1. /\ UNCHANGED <<text, valid, first, cache, parent, mode, forward, endl, cur, breaking, try>>
          /\ phase # "level" /\ phase' # "level"
          /\ cur >= endl => endLine' = endLine
      BY <1>0, <1>2 DEF LinesExhausted, LineMissing, LineBegin, ScanNothing, ScanRegexp, Scanning,
           env, client, tree, where, PhaseAt
    <2>2. Horizon' = Horizon
      BY <2>1 DEF Horizon
    <2> QED
      BY <1>0, <1>1, <2>1, <2>2, KnownSame
  <1>3. CASE EndOfBlock
    <2>1. /\ UNCHANGED <<text, valid, first, cache, parent, mode, forward, endl, breaking, endLine>>
          /\ phase = "scan" /\ phase' = "return"
          /\ cur' = cur \/ (cur' = endl /\ breaking)
      BY <1>3 DEF EndOfBlock, env, client, tree, where, Inv, ClientTypes
    <2>2. endLine = cur
      BY <1>0, <2>1 DEF RangeInv, SeenLines
    <2>3. Horizon' = cur /\ Horizon = cur
      BY <1>0, <2>1, <2>2 DEF Horizon
    <2> QED
      BY <1>0, <2>1, <2>3, KnownSame
  <1>4. CASE NextLine
    BY <1>4, NextLineKnown
  <1>5. ASSUME StartLevel \/ EnterBlock \/ LeaveBlock \/ LeaveLevel
        PROVE  KnownInv'
    <2>1. /\ UNCHANGED <<text, valid, first, endl, cur, breaking, endLine, mode>>
      BY <1>5 DEF StartLevel, EnterBlock, LeaveBlock, LeaveLevel, env, client, where, Inv, ClientTypes
    <2>2. CASE ~ Updating
      <3>1. cache' = cache /\ ~ Updating'
        BY <1>0, <1>5, <2>1, <2>2 DEF Updating, StartLevel, EnterBlock, LeaveBlock, LeaveLevel, tree
      <3> QED
        BY <1>0, <2>1, <3>1, KnownQuiet
    <2>3. CASE Updating
      <3>1. mode = "update"
        BY <2>3 DEF Updating
      <3>2. ASSUME NEW l \in Nat, l <= cur
            PROVE  /\ l <= first => SameAround(cache, cache', Covering(cache, l), Covering(cache', l))
                   /\ SameAround(cache, cache', Holding(l), Holding(l)')
        BY <1>5, <3>1, <3>2, StartLevelAround, EnterBlockAround, LeaveBlockAround, LeaveLevelAround
      <3>3. Horizon' = Horizon
        BY <2>1 DEF Horizon
      <3> QED
        BY <1>0, <1>1, <2>1, <2>3, <3>2, <3>3, KnownUpdate
    <2> QED
      BY <2>2, <2>3
  <1> QED
    BY <1>2, <1>3, <1>4, <1>5 DEF Step

-----------------------------------------------------------------------------
(* Siblings are apart up to the last line that is known, and beyond unless *)
(* parse() is between two levels.                                          *)
LEMMA ApartHere ==
  ASSUME Inv, OrderInv, NEW l \in Nat, l <= first \/ ~ (Updating /\ phase = "level")
  PROVE  ApartUpTo(cache, l)
  <1>1. CASE ~ (Updating /\ phase = "level")
    <2>1. Apart(cache, parent, forward, FALSE)
      BY <1>1 DEF OrderInv
    <2> QED
      BY <2>1, ApartAnywhere
  <1>2. CASE Updating /\ phase = "level" /\ l <= first
    <2>1. /\ Apart(cache, parent, forward, TRUE) /\ Behind(cache, parent, forward, first)
          /\ IsCache(cache) /\ first \in Nat
      <3>1. (Updating /\ phase = "level") = TRUE
        BY <1>2
      <3>2. Apart(cache, parent, forward, TRUE)
        BY <3>1 DEF OrderInv
      <3>3. Behind(cache, parent, forward, first)
        BY <1>2 DEF OrderInv, Around
      <3>4. IsCache(cache) /\ first \in Nat
        BY TextAssumption DEF Inv, ClientTypes
      <3> QED
        BY <3>2, <3>3, <3>4
    <2>2. ASSUME NEW p \in DOMAIN cache, NEW j \in Nat \ {0}, NEW k \in Nat \ {0}, j < k,
                 Append(p, k) \in DOMAIN cache, cache[Append(p, k)].sline <= l
          PROVE  cache[Append(p, j)].eline < cache[Append(p, k)].sline
      <3>1. \/ cache[Append(p, j)].eline < cache[Append(p, k)].sline
            \/ p = parent /\ j = forward
        BY <2>1, <2>2 DEF Apart
      <3>2. ASSUME p = parent /\ j = forward PROVE FALSE
        <4>1. cache[Append(p, k)].sline > first
          BY <2>1, <2>2, <3>2 DEF Behind
        <4>2. cache[Append(p, k)].sline \in Nat
          BY <2>1, <2>2, NodeLines
        <4> QED
          BY <1>2, <2>1, <2>2, <4>1, <4>2
      <3> QED
        BY <3>1, <3>2
    <2> QED
      BY <2>2 DEF ApartUpTo
  <1> QED
    BY <1>1, <1>2

(* What is known is what looking a line up gives.                          *)
LEMMA KnownIsCorrect == ASSUME Inv, OrderInv, RangeInv, KnownInv PROVE CacheCorrect
  <1>1. ASSUME NEW l \in 0..(IF try.on /\ try.sure THEN endl - 1 ELSE valid)
        PROVE  SameLevels(OpenLevels(cache, SearchLine(cache, l)), Open[l])
    <2>1. l \in Nat /\ (l <= first \/ ~ (Updating /\ phase = "level"))
      <3>1. valid \in Nat /\ endl \in Nat /\ first \in Nat
        BY TextAssumption DEF Inv, ClientTypes, RunTypes
      <3>2. Updating => ~ try.on /\ valid <= first
        BY DEF RangeInv, TryRange, Updating
      <3> QED
        BY <3>1, <3>2
    <2>2. Knows(cache, Covering(cache, l), Open[l])
      BY DEF KnownInv
    <2>3. IsCache(cache) /\ InOrder(cache) /\ ApartUpTo(cache, l)
      BY <2>1, ApartHere DEF Inv, OrderInv
    <2> QED
      BY <2>1, <2>2, <2>3, KnowsFound
  <1> QED
    BY <1>1 DEF CacheCorrect, KnowsLine

(* The node found for a line is the innermost one around it.               *)
LEMMA FoundIsRing ==
  ASSUME NEW t, IsCache(t), NEW l \in Nat, NEW p, Found(t, p, l)
  PROVE  /\ p \in Ring(t, Covering(t, l))
         /\ \A j \in Nat \ {0} : Append(p, j) \notin Ring(t, Covering(t, l))
  <1>1. p \in DOMAIN t /\ p \in Path /\ Len(p) \in Nat
        /\ \A k \in 0..Len(p) : SubSeq(p, 1, k) \in DOMAIN t
    BY LenProperties DEF Found, IsCache, IsTree, Rooted, Path
  <1>2. \A k \in 1..Len(p) : SubSeq(p, 1, k) \in Covering(t, l)
    <2>1. \A k \in 1..Len(p) : k \in 0..Len(p)
      BY <1>1
    <2> QED
      BY <1>1, <2>1 DEF Found, Covering
  <1>3. ASSUME NEW j \in Nat \ {0}, Append(p, j) \in Ring(t, Covering(t, l)) PROVE FALSE
    <2>1. Append(p, j) # Root
      BY <1>1, FrontOfAppend
    <2>2. Append(p, j) \in Covering(t, l)
      BY <1>3, <2>1, RingIs
    <2> QED
      BY <2>2 DEF Found, Covering
  <1> QED
    BY <1>1, <1>2, <1>3 DEF Ring

(* A line is known when looking it up gives the right answer.              *)
LEMMA FoundIsKnown ==
  ASSUME Inv, OrderInv, NEW l \in Nat, ApartUpTo(cache, l), NEW open,
         SameLevels(OpenLevels(cache, SearchLine(cache, l)), open)
  PROVE  Knows(cache, Covering(cache, l), open)
  <1>1. IsCache(cache) /\ Found(cache, SearchLine(cache, l), l)
    BY SearchFinds DEF Inv, OrderInv, IsCache
  <1> QED
    BY <1>1, FoundIsRing DEF Knows

-----------------------------------------------------------------------------
(* tryParseLine: the blocks the cache says are open at a line.             *)
Looked(t, l) == OpenLevels(t, SearchLine(t, l))

(* The stack it keeps follows the parse of the line, and ends as what is   *)
(* really open after it.                                                   *)
TryStack ==
  /\ ~ try.mismatch
  /\ \A i \in 1..Len(frames) : frames[i].line = endl - 1
  /\ cur < endl => try.stack = IF phase = "return" /\ frames = <<>> THEN Front(Stack) ELSE Stack
  /\ cur >= endl => try.stack \in Stacks /\ SameLevels(try.stack, Open[endl])

(* What it compares with is what the cache still says, and behind the line *)
(* the cache agrees with the text as it did before the edit.               *)
TryTree ==
  /\ try.expected = Looked(cache, endl)
  /\ \A k \in endl..valid - 1 :
       SameLevels(Looked(cache, k + 1), OpenAfter(Looked(cache, k), text[k]))

(* The line is there to be read, and nobody has broken the parse off.      *)
Tried == try.on /\ try.sure /\ endl - 1 \notin missing /\ ~ breaking

TryInv == /\ Tried => TryStack
          /\ try.on /\ try.sure => TryTree

-----------------------------------------------------------------------------
(* A traced parse leaves the cache, the text and what it compares with     *)
(* alone.                                                                  *)
LEMMA TryTreeKept ==
  ASSUME Ready, TryInv, Step, try'.on, try'.sure
  PROVE  /\ try.on /\ try.sure /\ TryTree' /\ cache' = cache /\ ~ Finish
         /\ UNCHANGED <<text, missing, valid, endl, mode, breaking>>
         /\ mode = "read" /\ (cur < endl => cur = endl - 1) /\ phase # "idle"
  <1>2. ~ Finish
    <2>1. ASSUME Finish PROVE try'.on = FALSE
      BY <2>1 DEF Finish, NoTry
    <2> QED BY <2>1
  <1>1. try'.on = try.on /\ try'.sure = try.sure /\ valid' = valid /\ Inv
    BY <1>2, SightedStays DEF Step, Ready
  <1>3. /\ try'.expected = try.expected
        /\ UNCHANGED <<text, missing, endl, mode, breaking>>
        /\ phase # "idle"
        /\ mode # "update" => cache' = cache
    BY <1>1, <1>2 DEF Step, StartLevel, LinesExhausted, LineMissing, LineBegin, ScanNothing,
       ScanRegexp, EnterBlock, EndOfBlock, NextLine, LeaveBlock, LeaveLevel, Scanning, env, client,
       where, tree, matching, Inv, ClientTypes
  <1>4. TryTree BY <1>1 DEF TryInv
  <1>5. mode = "read" /\ (cur < endl => cur = endl - 1)
    BY <1>1 DEF Ready, RangeInv, TryRange
  <1>6. cache' = cache BY <1>3, <1>5
  <1>8. TryTree' BY <1>1, <1>3, <1>4, <1>6 DEF TryTree
  <1> QED BY <1>1, <1>2, <1>3, <1>5, <1>6, <1>8

(* So does one whose line has been read, which goes on within it.          *)
LEMMA TriedStays ==
  ASSUME Ready, TryInv, Step, Tried'
  PROVE  /\ try.on /\ TryStack /\ cache' = cache /\ ~ Finish
         /\ UNCHANGED <<text, missing, endl, mode, breaking>>
         /\ mode = "read" /\ ~ breaking /\ endl - 1 \notin missing /\ Sighted
         /\ cur <= endl /\ (cur < endl => cur = endl - 1) /\ phase # "idle"
  <1>1. try'.on /\ try'.sure /\ ~ breaking' /\ endl' - 1 \notin missing'
    BY DEF Tried
  <1>2. /\ try.on /\ try.sure /\ cache' = cache /\ ~ Finish
        /\ UNCHANGED <<text, missing, endl, mode, breaking>>
        /\ mode = "read" /\ (cur < endl => cur = endl - 1) /\ phase # "idle"
    BY <1>1, TryTreeKept
  <1>3. Tried
    BY <1>1, <1>2 DEF Tried
  <1>4. /\ cur \in Nat /\ endl \in Nat /\ ~ (cur > endl) /\ first \in Nat /\ valid \in Nat
        /\ first < endl /\ endl <= valid
    BY <1>2, <1>3, TextAssumption DEF Ready, Inv, RunTypes, ClientTypes, RangeInv, TryRange, Tried
  <1>5. Sighted
    BY <1>2, <1>4 DEF Sighted
  <1> QED BY <1>1, <1>2, <1>3, <1>4, <1>5 DEF TryInv

(* A step of the traced parse that leaves the blocks alone.                *)
LEMMA TryStackSame ==
  ASSUME Inv, TryStack, UNCHANGED <<text, missing, endl, cur, frames, try, Stack>>,
         cur < endl => phase # "return" /\ phase' # "return"
  PROVE  TryStack'
  <1>1. Open' = Open BY DEF Open
  <1> QED BY <1>1 DEF TryStack

(* The head of the line loop, and positions where no block begins.         *)
LEMMA LoopTry ==
  ASSUME Ready, TryInv, Tried',
         StartLevel \/ LinesExhausted \/ LineMissing \/ LineBegin \/ ScanNothing \/ ScanRegexp
  PROVE  TryStack'
  <1>1. Step BY DEF Step
  <1>2. /\ try.on /\ TryStack /\ UNCHANGED <<text, missing, endl>>
        /\ cur <= endl /\ (cur < endl => cur = endl - 1) /\ endl - 1 \notin missing
    BY <1>1, TriedStays
  <1>3. Inv /\ cur \in Nat /\ endl \in Nat BY DEF Ready, Inv, RunTypes
  <1>4. CASE StartLevel
    <2>1. Stack' = Stack BY <1>3, <1>4, StartLevelStack
    <2> QED BY <1>2, <1>3, <1>4, <2>1, TryStackSame DEF StartLevel, where, env, client
  <1>5. CASE LinesExhausted
    <2>1. Stack' = Stack BY <1>5, StackSame DEF LinesExhausted, tree
    <2>2. ~ (cur < endl) BY <1>3, <1>5 DEF LinesExhausted
    <2> QED BY <1>2, <1>3, <1>5, <2>1, <2>2, TryStackSame DEF LinesExhausted, where, env, client
  <1>6. CASE LineMissing
    BY <1>2, <1>3, <1>6 DEF LineMissing, TryStack
  <1>7. CASE LineBegin \/ ScanNothing \/ ScanRegexp
    <2>1. Stack' = Stack BY <1>7, StackSame DEF LineBegin, ScanNothing, ScanRegexp, tree
    <2>2. phase # "return" /\ phase' # "return"
      BY <1>7 DEF LineBegin, ScanNothing, ScanRegexp, Scanning, PhaseAt
    <2>3. UNCHANGED <<cur, frames, try>>
      BY <1>7 DEF LineBegin, ScanNothing, ScanRegexp
    <2> QED BY <1>2, <1>3, <2>1, <2>2, <2>3, TryStackSame
  <1> QED BY <1>4, <1>5, <1>6, <1>7

(* A block that begins or ends on the line is put on or taken off.         *)
LEMMA EnterBlockTry ==
  ASSUME Ready, TryInv, EnterBlock, Tried', Started(cache)', WithinRecursion'
  PROVE  TryStack'
  <1>1. Step BY DEF Step
  <1>2. /\ try.on /\ TryStack /\ UNCHANGED <<text, missing, endl>>
        /\ cur <= endl /\ (cur < endl => cur = endl - 1) /\ phase # "idle"
        /\ ~ EndOfBlock
    BY <1>1, TriedStays DEF EnterBlock, EndOfBlock, Scanning
  <1>3. /\ Inv /\ cur \in Nat /\ endl \in Nat /\ Started(cache) /\ frames \in Seq(FrameTypes)
        /\ cur < endl /\ MaxRecursion \in Nat /\ gx \in Nat
    BY TextAssumption DEF Ready, Inv, RunTypes, Positions, EnterBlock, Scanning
  <1>4. /\ Stack' = Append(Stack, Opened(Hit, text[cur], gx))
    BY <1>3, EnterBlockStack DEF Ready
  <1> DEFINE f == FrameOf(Hit, text[cur][gx + 1])
             x == Opened(Hit, text[cur], gx)
  <1>5. /\ frames' = Append(frames, f) /\ cur' = cur /\ phase = "scan"
        /\ try' = [try EXCEPT !.stack = Append(@, x)]
        /\ phase' = IF Len(frames) + 1 > MaxRecursion THEN "return" ELSE "line"
    BY <1>2 DEF EnterBlock, Scanning, Level, NewNode, Opened
  <1>6. f.line = cur BY DEF FrameOf
  <1> HIDE DEF f, x
  <1>7. /\ Len(frames') = Len(frames) + 1 /\ Len(frames) \in Nat
        /\ \A i \in 1..Len(frames') : frames'[i] = IF i = Len(frames) + 1 THEN f ELSE frames[i]
    BY <1>3, <1>5, AppendProperties, LenProperties
  <1>8. phase' = "line" BY <1>3, <1>5, <1>7 DEF WithinRecursion
  <1>9. try.stack = Stack BY <1>2, <1>3, <1>5 DEF TryStack
  <1>10. try'.stack = Append(try.stack, x) /\ try'.mismatch = try.mismatch
    BY <1>3, <1>5 DEF Inv, ClientTypes
  <1>11. try'.stack = Stack' BY <1>4, <1>9, <1>10 DEF x
  <1>12. \A i \in 1..Len(frames') : frames'[i].line = endl - 1
    BY <1>2, <1>3, <1>6, <1>7 DEF TryStack
  <1>13. TryStack'
    BY <1>2, <1>3, <1>5, <1>8, <1>10, <1>11, <1>12 DEF TryStack
  <1> QED BY <1>2, <1>13

(* Leaving a block of the line takes it off.                                *)
LEMMA LeaveBlockTry ==
  ASSUME Ready, TryInv, LeaveBlock, Tried'
  PROVE  TryStack'
  <1>1. Step BY DEF Step
  <1>2. /\ try.on /\ TryStack /\ UNCHANGED <<text, missing, endl>>
        /\ cur <= endl /\ (cur < endl => cur = endl - 1) /\ phase # "idle"
    BY <1>1, TriedStays
  <1>3. /\ Inv /\ cur \in Nat /\ endl \in Nat /\ Started(cache) /\ frames \in Seq(FrameTypes)
        /\ frames # <<>> /\ OrderInv
    BY DEF Ready, Inv, RunTypes, LeaveBlock
  <1>4. Stack # <<>> /\ Stack' = Front(Stack) BY <1>3, LeaveBlockStack
  <1> DEFINE f == Last(frames)
  <1>5. /\ frames' = Front(frames) /\ cur' = cur /\ phase = "return"
        /\ try' = IF f.line = cur /\ try.stack # <<>>
                  THEN [try EXCEPT !.stack = Front(@)] ELSE try
        /\ phase' = IF f.line # cur THEN "line" ELSE PhaseAt(matchend.e, f.matchend.s)
    BY <1>2 DEF LeaveBlock
  <1>6. /\ Len(frames) \in Nat \ {0} /\ Len(frames') = Len(frames) - 1 /\ f = frames[Len(frames)]
        /\ \A i \in 1..Len(frames') : frames'[i] = frames[i]
    BY <1>3, <1>5, FrontAndLast, LenProperties, EmptySeq
  <1>7. f.line = endl - 1 BY <1>2, <1>6 DEF TryStack
  <1>8. phase' # "return" BY <1>5 DEF PhaseAt
  <1> HIDE DEF f
  <1>9. \A i \in 1..Len(frames') : frames'[i].line = endl - 1
    BY <1>2, <1>6 DEF TryStack
  <1>10. CASE cur < endl
    <2>1. f.line = cur BY <1>2, <1>7, <1>10
    <2>2. try.stack = Stack BY <1>2, <1>3, <1>5, <1>10 DEF TryStack
    <2>3. try'.stack = Front(try.stack) /\ try'.mismatch = try.mismatch
      BY <1>3, <1>4, <1>5, <2>1, <2>2 DEF Inv, ClientTypes
    <2> QED BY <1>2, <1>4, <1>5, <1>8, <1>9, <1>10, <1>3, <2>2, <2>3 DEF TryStack
  <1>11. CASE ~ (cur < endl)
    <2>1. f.line # cur BY <1>3, <1>7, <1>11
    <2>2. try' = try BY <1>5, <2>1
    <2>3. Open' = Open BY <1>2 DEF Open
    <2> QED BY <1>2, <1>3, <1>5, <1>9, <1>11, <2>2, <2>3 DEF TryStack
  <1> QED BY <1>10, <1>11

(* The end of the block that parse() resumed is taken off at once.         *)
LEMMA EndOfBlockTry ==
  ASSUME Ready, TryInv, EndOfBlock, Tried'
  PROVE  TryStack'
  <1>1. Step BY DEF Step
  <1>2. /\ try.on /\ TryStack /\ UNCHANGED <<text, missing, endl, mode>>
        /\ cur <= endl /\ (cur < endl => cur = endl - 1) /\ phase # "idle"
        /\ mode = "read" /\ ~ breaking /\ Sighted
    BY <1>1, TriedStays
  <1>3. /\ Inv /\ cur \in Nat /\ endl \in Nat /\ Started(cache) /\ frames \in Seq(FrameTypes)
        /\ cur < endl /\ phase = "scan" /\ ReadInv
    BY DEF Ready, Inv, RunTypes, EndOfBlock, Positions
  <1>4. Stack' = Stack BY StackSame DEF EndOfBlock, tree
  <1>5. gx > matchend.s /\ found /\ cur' = cur /\ phase' = "return" /\ frames' = frames
    BY <1>2 DEF EndOfBlock
  <1>6. Stack # <<>> BY <1>2, <1>3, <1>5 DEF ReadInv
  <1>7. try.stack = Stack BY <1>2, <1>3 DEF TryStack
  <1>8. try' = IF frames # <<>> THEN try ELSE [try EXCEPT !.stack = Front(@)]
    BY <1>2, <1>6, <1>7 DEF EndOfBlock
  <1>9. /\ try'.mismatch = try.mismatch
        /\ try'.stack = IF frames # <<>> THEN try.stack ELSE Front(try.stack)
    BY <1>3, <1>8 DEF Inv, ClientTypes
  <1> QED BY <1>2, <1>3, <1>4, <1>5, <1>7, <1>9 DEF TryStack

(* The line is over: what is on the stack is open after it.                *)
LEMMA NextLineTry ==
  ASSUME Ready, TryInv, NextLine, Tried'
  PROVE  TryStack'
  <1>1. Step BY DEF Step
  <1>2. /\ try.on /\ TryStack /\ UNCHANGED <<text, missing, endl, mode>>
        /\ cur <= endl /\ (cur < endl => cur = endl - 1) /\ phase # "idle"
        /\ mode = "read" /\ ~ breaking /\ Sighted
    BY <1>1, TriedStays
  <1>3. /\ Inv /\ LevelsInv /\ cur \in Nat /\ endl \in Nat /\ Started(cache)
        /\ cur < endl /\ phase = "scan" /\ ReadInv
    BY DEF Ready, Inv, RunTypes, NextLine, Positions
  <1>4. gx > matchend.s /\ ~ found /\ cur' = cur + 1 /\ frames' = frames /\ try' = try
    BY <1>2 DEF NextLine
  <1>5. cur' = endl BY <1>2, <1>3, <1>4
  <1>6. Reading(Len(text[cur]), Stack) BY <1>2, <1>3, <1>4 DEF ReadInv
  <1>7. /\ text[cur] \in Seq(Symbols) /\ Open[cur] \in Stacks
        /\ Open[cur + 1] = OpenAfter(Open[cur], text[cur])
    BY <1>3, Here
  <1>8. Stack \in Stacks BY <1>3, StackTopIs DEF Running
  <1>9. SameLevels(Stack, Open[cur + 1])
    BY <1>6, <1>7, <1>8, ReadOver DEF Reading
  <1>10. try.stack = Stack BY <1>2, <1>3 DEF TryStack
  <1>11. Open' = Open BY <1>2 DEF Open
  <1>12. try'.stack \in Stacks /\ SameLevels(try'.stack, Open'[endl'])
    BY <1>2, <1>4, <1>5, <1>8, <1>9, <1>10, <1>11
  <1> QED BY <1>2, <1>3, <1>4, <1>5, <1>12 DEF TryStack

(* Which is what parse() does next.                                        *)
LEMMA LeaveLevelTry ==
  ASSUME Ready, TryInv, LeaveLevel, Tried'
  PROVE  TryStack'
  <1>1. Step BY DEF Step
  <1>2. /\ try.on /\ TryStack /\ UNCHANGED <<text, missing, endl>>
        /\ cur <= endl /\ (cur < endl => cur = endl - 1) /\ phase # "idle"
    BY <1>1, TriedStays
  <1>3. Inv /\ Started(cache) /\ Open' = Open BY <1>2 DEF Ready, Open
  <1>4. Stack' = Front(Stack) BY <1>3, LeaveLevelStack
  <1>5. /\ frames = <<>> /\ phase = "return" /\ phase' = "level"
        /\ UNCHANGED <<cur, frames, try>>
    BY DEF LeaveLevel
  <1> QED BY <1>2, <1>3, <1>4, <1>5 DEF TryStack

(* A step of the parser keeps a traced parse true to the text.             *)
LEMMA StepTry ==
  ASSUME Ready, TryInv, Step, Started(cache)', WithinRecursion'
  PROVE  TryInv'
  <1>1. try'.on /\ try'.sure => TryTree' BY TryTreeKept
  <1>2. ASSUME Tried' PROVE TryStack'
    <2>1. ~ Finish BY <1>2, TriedStays
    <2> QED BY <1>2, <2>1, LoopTry, EnterBlockTry, LeaveBlockTry, EndOfBlockTry, NextLineTry,
         LeaveLevelTry DEF Step
  <1> QED BY <1>1, <1>2 DEF TryInv

-----------------------------------------------------------------------------
(* Moving cursors does not change what is found.                           *)
LEMMA SearchedLooks ==
  ASSUME NEW t, IsCache(t), InOrder(t), NEW l \in Nat, ApartUpTo(t, l), NEW u, IsCache(u),
         DOMAIN u = DOMAIN t, \A q \in DOMAIN t : Keeps(t, u, q)
  PROVE  SearchLine(u, l) = SearchLine(t, l) /\ Looked(u, l) = Looked(t, l)
  <1>1. PICK s : s = SearchLine(t, l) OBVIOUS
  <1>2. IsTree(t, Schemes, Syms) /\ Rooted(t) /\ Numbered(t) BY DEF IsCache, IsTree
  <1>3. IsTree(u, Schemes, Syms) BY DEF IsCache
  <1>4. Found(t, s, l) BY ONLY <1>1, <1>2, InOrder(t), l \in Nat, ApartUpTo(t, l), SearchFinds
  <1>5. Found(u, s, l) /\ InOrder(u) /\ ApartUpTo(u, l)
    BY ONLY <1>2, <1>4, DOMAIN u = DOMAIN t, \A q \in DOMAIN t : Keeps(t, u, q), KeptOrder, InOrder(t),
            ApartUpTo(t, l)
  <1>6. s = SearchLine(u, l) BY ONLY <1>3, <1>5, l \in Nat, FoundIsUnique
  <1>7. s \in DOMAIN t BY <1>4 DEF Found
  <1>8. \A k \in 1..Len(s) : Level(u[SubSeq(s, 1, k)]) = Level(t[SubSeq(s, 1, k)])
    <2> TAKE k \in 1..Len(s)
    <2>1. s \in Path /\ k \in 0..Len(s) BY <1>2, <1>7 DEF Rooted, Path
    <2>2. SubSeq(s, 1, k) \in DOMAIN t BY <1>2, <1>7, <2>1 DEF Rooted
    <2>3. Keeps(t, u, SubSeq(s, 1, k)) BY <2>2
    <2> QED BY <2>3 DEF Keeps, Level
  <1>9. OpenLevels(u, s) = OpenLevels(t, s) BY ONLY <1>8, OpenLevelsSame
  <1> QED BY <1>1, <1>6, <1>9 DEF Looked

(* A line of the text, and what is open before and after it.               *)
LEMMA LineIs ==
  ASSUME Inv, NEW k \in LineNos
  PROVE  /\ text[k] \in Seq(Symbols) /\ Open[k] \in Stacks /\ Open[k + 1] \in Stacks
         /\ Open[k + 1] = OpenAfter(Open[k], text[k]) /\ k \in Nat /\ k + 1 \in 0..LineCount
  <1>1. LineCount \in Nat /\ Lines \subseteq Seq(Symbols) /\ text \in [LineNos -> Lines]
    BY TextAssumption DEF Inv, ClientTypes
  <1>2. text \in [0..LineCount - 1 -> Seq(Symbols)] BY <1>1 DEF LineNos
  <1>3. \A l \in 0..LineCount : Open[l] \in Stacks BY <1>1, <1>2, OpenAtType DEF Open
  <1>4. \A l \in 0..LineCount - 1 : Open[l + 1] = OpenAfter(Open[l], text[l])
    BY <1>1, OpenAtStep DEF Open
  <1>5. k \in 0..LineCount - 1 /\ k \in 0..LineCount /\ k + 1 \in 0..LineCount
    BY <1>1 DEF LineNos
  <1> QED BY <1>2, <1>3, <1>4, <1>5

(* What the cache says is open at a line is a stack of blocks.             *)
LEMMA LookedType ==
  ASSUME Inv, Started(cache), NEW l \in Nat
  PROVE  Looked(cache, l) \in Stacks
  <1>1. IsCache(cache) BY DEF Inv
  <1>2. PICK s : s = SearchLine(cache, l) OBVIOUS
  <1>3. s \in DOMAIN cache BY <1>1, <1>2, SearchedIsCache
  <1> QED BY <1>1, <1>2, <1>3, OpenLevelsStack DEF Looked

(* Between two parses the cache says of neighbouring lines what reading    *)
(* the first of them gives.                                                *)
LEMMA CorrectIsConsistent ==
  ASSUME Inv, Started(cache), CacheCorrect, ~ try.on, NEW k \in 0..valid - 1
  PROVE  SameLevels(Looked(cache, k + 1), OpenAfter(Looked(cache, k), text[k]))
  <1>1. valid \in 0..LineCount /\ LineCount \in Nat BY TextAssumption DEF Inv, ClientTypes
  <1>2. k \in LineNos /\ k \in 0..valid /\ k + 1 \in 0..valid BY <1>1 DEF LineNos
  <1>3. /\ text[k] \in Seq(Symbols) /\ Open[k] \in Stacks /\ Open[k + 1] \in Stacks
        /\ Open[k + 1] = OpenAfter(Open[k], text[k]) /\ k \in Nat /\ k + 1 \in Nat
    BY <1>1, <1>2, LineIs
  <1>4. SameLevels(Looked(cache, k), Open[k]) /\ SameLevels(Looked(cache, k + 1), Open[k + 1])
    BY <1>2 DEF CacheCorrect, KnowsLine, Looked
  <1>5. Looked(cache, k) \in Stacks /\ Looked(cache, k + 1) \in Stacks
    BY <1>3, LookedType
  <1> DEFINE a == Looked(cache, k)
             b == Looked(cache, k + 1)
  <1>6. PICK r : r = OpenAfter(a, text[k]) OBVIOUS
  <1>7. r \in Stacks BY <1>3, <1>5, <1>6, OpenAfterType
  <1>8. SameLevels(r, Open[k + 1])
    BY <1>3, <1>4, <1>5, <1>6, SameAfter
  <1> HIDE DEF a, b
  <1>9. SameLevels(Open[k + 1], r) BY <1>3, <1>7, <1>8, SameSymmetric
  <1>10. SameLevels(b, r)
    BY ONLY <1>3, <1>4, <1>5, <1>7, <1>9, SameTransitive DEF b
  <1> QED BY <1>6, <1>10 DEF a, b

(* tryParseLine moves cursors and then starts a parse of one line.         *)
LEMMA TryParseLineIs ==
  ASSUME Inv, OrderInv, Started(cache), TryRange, NEW l \in LineNos, NEW line \in Lines,
         TryParseLine(l, line)
  PROVE  /\ phase = "idle" /\ ~ try.on
         /\ l \in Nat /\ l + 1 \in Nat /\ valid \in 0..LineCount /\ LineCount \in Nat
         /\ UNCHANGED <<missing, valid>> /\ text' = [text EXCEPT ![l] = line]
         /\ \E w : /\ IsCache(w) /\ Started(w) /\ StartParse(w, l, 1, "read")
                   /\ Looked(w, l) = Looked(cache, l)
         /\ DOMAIN cache' = DOMAIN cache /\ IsCache(cache')
         /\ \A q \in DOMAIN cache : Keeps(cache, cache', q)
         /\ \A k \in Nat : Looked(cache', k) = Looked(cache, k)
         /\ try' = [on |-> TRUE, mismatch |-> FALSE, stack |-> Looked(cache, l),
                    expected |-> Looked(cache, l + 1), result |-> "none", sure |-> l < valid]
         /\ frames' = <<>> /\ phase' = "level" /\ cur' = l /\ endl' = l + 1 /\ mode' = "read"
         /\ first' = l
  <1>1. /\ phase = "idle" /\ IsCache(cache) /\ InOrder(cache)
        /\ l \in Nat /\ l + 1 \in Nat /\ valid \in Nat /\ ~ try.on /\ LineCount \in Nat
        /\ valid \in 0..LineCount
    BY TextAssumption DEF TryParseLine, Inv, OrderInv, ClientTypes, TryRange, LineNos
  <1>2. \A k \in Nat : ApartUpTo(cache, k) BY <1>1, ApartHere DEF Updating
  <1> DEFINE once == Searched(cache, l + 1)
             twice == Searched(once, l)
  <1>3. PICK o : o = once OBVIOUS
  <1>4. /\ IsCache(o) /\ DOMAIN o = DOMAIN cache /\ \A q \in DOMAIN cache : Keeps(cache, o, q)
    BY <1>1, <1>3, SearchedIsCache, SearchedKeeps DEF IsCache
  <1>5. PICK w : w = twice OBVIOUS
  <1>6. /\ IsCache(w) /\ DOMAIN w = DOMAIN o /\ \A q \in DOMAIN o : Keeps(o, w, q)
    BY <1>1, <1>3, <1>4, <1>5, SearchedIsCache, SearchedKeeps DEF IsCache
  <1>7. StartParse(w, l, 1, "read")
        /\ try' = [on |-> TRUE, mismatch |-> FALSE, stack |-> OpenLevels(o, SearchLine(o, l)),
                   expected |-> Looked(cache, l + 1), result |-> "none", sure |-> l < valid]
        /\ UNCHANGED <<missing, valid>> /\ text' = [text EXCEPT ![l] = line]
    BY <1>3, <1>5 DEF TryParseLine, Looked
  <1> HIDE DEF once, twice
  <1>8. Started(w)
    <2> SUFFICES ASSUME NEW q \in DOMAIN w \ {Root} PROVE w[q].sym \in Symbols
      BY DEF Started
    <2>1. q \in DOMAIN cache \ {Root} /\ q \in DOMAIN o BY <1>4, <1>6
    <2>2. Keeps(cache, o, q) /\ Keeps(o, w, q) BY <1>4, <1>6, <2>1
    <2>3. cache[q].sym \in Symbols BY <2>1 DEF Started
    <2> QED BY <2>2, <2>3 DEF Keeps
  <1>9. /\ cache' = Searched(w, l) /\ DOMAIN cache' = DOMAIN w
        /\ \A q \in DOMAIN w : Keeps(w, cache', q)
        /\ frames' = <<>> /\ phase' = "level" /\ cur' = l /\ endl' = l + 1 /\ mode' = "read"
        /\ first' = l
    BY <1>1, <1>6, <1>7, StartParseIs
  <1>10. IsCache(cache') BY <1>1, <1>6, <1>9, SearchedIsCache
  <1>11. \A q \in DOMAIN cache : Keeps(cache, cache', q)
    <2> TAKE q \in DOMAIN cache
    <2>1. q \in DOMAIN o /\ q \in DOMAIN w BY <1>4, <1>6
    <2>2. Keeps(cache, o, q) /\ Keeps(o, w, q) /\ Keeps(w, cache', q)
      BY <1>4, <1>6, <1>9, <2>1
    <2> QED BY <2>2 DEF Keeps
  <1>12. \A q \in DOMAIN cache : Keeps(cache, w, q)
    <2> TAKE q \in DOMAIN cache
    <2>1. q \in DOMAIN o BY <1>4
    <2>2. Keeps(cache, o, q) /\ Keeps(o, w, q) BY <1>4, <1>6, <2>1
    <2> QED BY <2>2 DEF Keeps
  <1>13. PICK u : u = cache' OBVIOUS
  <1>14. \A k \in Nat : Looked(u, k) = Looked(cache, k)
    <2> TAKE k \in Nat
    <2>1. ApartUpTo(cache, k) BY <1>2
    <2> QED BY ONLY <2>1, k \in Nat, <1>1, <1>4, <1>6, <1>9, <1>10, <1>11, <1>13, SearchedLooks
  <1>15. Looked(o, l) = Looked(cache, l) /\ Looked(w, l) = Looked(cache, l)
    <2>1. ApartUpTo(cache, l) BY <1>1, <1>2
    <2>2. DOMAIN w = DOMAIN cache BY <1>4, <1>6
    <2> QED BY ONLY <2>1, <2>2, <1>1, <1>4, <1>6, <1>12, SearchedLooks
  <1>16. /\ try' = [on |-> TRUE, mismatch |-> FALSE, stack |-> Looked(cache, l),
                    expected |-> Looked(cache, l + 1), result |-> "none", sure |-> l < valid]
    BY <1>7, <1>15 DEF Looked
  <1>17. \E v : /\ IsCache(v) /\ Started(v) /\ StartParse(v, l, 1, "read")
                /\ Looked(v, l) = Looked(cache, l)
    BY <1>6, <1>7, <1>8, <1>15
  <1>18. DOMAIN cache' = DOMAIN cache BY <1>4, <1>6, <1>9
  <1> QED BY <1>1, <1>7, <1>9, <1>10, <1>11, <1>13, <1>14, <1>16, <1>17, <1>18

(* It starts with the stack of the edited line, and compares with what the *)
(* cache says of the next.                                                 *)
LEMMA StartTry ==
  ASSUME Inv, OrderInv, Started(cache), TryRange, CacheCorrect,
         NEW l \in LineNos, NEW line \in Lines, TryParseLine(l, line)
  PROVE  TryInv'
  <1>1. /\ phase = "idle" /\ ~ try.on
        /\ l \in Nat /\ l + 1 \in Nat /\ valid \in 0..LineCount /\ LineCount \in Nat
        /\ UNCHANGED <<missing, valid>> /\ text' = [text EXCEPT ![l] = line]
        /\ \A k \in Nat : Looked(cache', k) = Looked(cache, k)
        /\ try' = [on |-> TRUE, mismatch |-> FALSE, stack |-> Looked(cache, l),
                   expected |-> Looked(cache, l + 1), result |-> "none", sure |-> l < valid]
        /\ frames' = <<>> /\ phase' = "level" /\ cur' = l /\ endl' = l + 1
    BY TryParseLineIs
  <1>2. PICK w : /\ IsCache(w) /\ Started(w) /\ StartParse(w, l, 1, "read")
                 /\ Looked(w, l) = Looked(cache, l)
    BY TryParseLineIs
  <1>3. Stack' = Looked(cache, l)
    <2>1. PICK p : p = SearchLine(w, l) OBVIOUS
    <2>2. Stack' = OpenLevels(w, p)
      BY <1>1, <1>2, <2>1, StartParseStack
    <2> QED BY <1>2, <2>1, <2>2 DEF Looked
  <1>4. PICK u : u = cache' OBVIOUS
  <1>5. try'.stack = Stack' /\ ~ try'.mismatch /\ try'.expected = Looked(u, endl')
    BY <1>1, <1>3, <1>4
  <1>6. \A k \in endl'..valid' - 1 : SameLevels(Looked(u, k + 1), OpenAfter(Looked(u, k), text'[k]))
    <2> TAKE k \in endl'..valid' - 1
    <2>1. k \in 0..valid - 1 /\ k # l /\ k \in Nat /\ k + 1 \in Nat BY <1>1
    <2>2. text'[k] = text[k] BY <1>1, <2>1 DEF Inv, ClientTypes, LineNos
    <2>3. SameLevels(Looked(cache, k + 1), OpenAfter(Looked(cache, k), text[k]))
      BY <1>1, <2>1, CorrectIsConsistent
    <2>4. Looked(u, k) = Looked(cache, k) /\ Looked(u, k + 1) = Looked(cache, k + 1)
      BY <1>1, <1>4, <2>1
    <2> QED BY <2>2, <2>3, <2>4
  <1>7. TryStack'
    <2>1. Len(frames') = 0 BY <1>1
    <2>2. cur' < endl' /\ ~ (cur' >= endl')
      BY <1>1
    <2>3. \A i \in 1..Len(frames') : frames'[i].line = endl' - 1 BY <2>1
    <2> QED BY <1>1, <1>5, <2>2, <2>3 DEF TryStack
  <1>8. TryTree' BY <1>4, <1>5, <1>6 DEF TryTree
  <1> QED BY <1>7, <1>8 DEF TryInv

-----------------------------------------------------------------------------
(* When parse() returns, no block is left on the stack: so the range was   *)
(* read to its end, unless a line of it was missing.                       *)
LEMMA FinishStack ==
  ASSUME Ready, Finish
  PROVE  /\ Stack = <<>> /\ phase = "return" /\ parent = Root /\ frames = <<>>
         /\ Sighted /\ cur < endl => clear = NoLine /\ cur \in missing
         /\ endLine < endl /\ (cur < endl => endLine = cur)
         /\ mode = "update" => valid <= first /\ first <= endLine
         /\ cur >= endl /\ ~ breaking => cur = endl /\ endLine = endl - 1
  <1>1. phase = "return" /\ parent = Root /\ frames = <<>> BY DEF Finish
  <1>2. Inv /\ Started(cache) /\ ReadInv /\ RangeInv BY DEF Ready
  <1>3. Len(parent) = 0 /\ Len(frames) = 0 BY <1>1 DEF Root
  <1>4. Height = 0 BY <1>3 DEF Height, Depth
  <1>5. Stack = <<>> BY <1>2, <1>4, NoLevels
  <1>6. Sighted /\ cur < endl => clear = NoLine /\ cur \in missing
    BY <1>1, <1>2, <1>5 DEF ReadInv
  <1> QED BY <1>1, <1>2, <1>5, <1>6 DEF RangeInv, SeenLines

(* The end of an update: the lines up to where it read are known, if the   *)
(* line it began at was.                                                   *)
LEMMA FinishUpdate ==
  ASSUME Ready, KnownInv, Finish, mode = "update"
  PROVE  KnownInv'
  <1>1. /\ phase = "return" /\ parent = Root /\ endLine < endl
        /\ Sighted /\ cur < endl => clear = NoLine /\ endLine = cur
        /\ valid <= first /\ first <= endLine
        /\ cur >= endl /\ ~ breaking => cur = endl /\ endLine = endl - 1
    BY FinishStack
  <1>2. /\ valid' = Reached /\ try'.on = FALSE /\ phase' = "idle" /\ ~ try.on
        /\ UNCHANGED <<text, cache>>
    <2>1. ~ try.on BY DEF Ready, RangeInv, TryRange
    <2> QED BY <2>1 DEF Finish, NoTry, env, tree
  <1>3. /\ cur \in Nat /\ endl \in Nat /\ endLine \in Nat /\ valid \in Nat /\ breaking \in BOOLEAN
        /\ Inv /\ IsCache(cache) /\ first \in Nat
    BY Counters DEF Ready, Inv
  <1>4. \/ valid' = valid
        \/ Sighted /\ valid = first /\ valid' \in Nat /\ valid' <= Horizon
    <2>1. CASE first > valid BY <1>2, <2>1 DEF Reached
    <2>2. CASE ~ (first > valid)
      <3>1. Sighted /\ valid = first BY <1>1, <1>3, <2>2 DEF Sighted
      <3>2. valid' = IF Torn THEN endLine ELSE endLine + 1 BY <1>2, <2>2 DEF Reached
      <3>3. CASE cur < endl
        <4>1. Torn BY <1>1, <3>1, <3>3 DEF Torn
        <4> QED BY <1>1, <1>3, <3>1, <3>2, <3>3, <4>1 DEF Horizon
      <3>4. CASE cur >= endl /\ breaking BY <1>3, <3>1, <3>2, <3>4 DEF Horizon, Torn
      <3>5. CASE cur >= endl /\ ~ breaking BY <1>1, <1>3, <3>1, <3>2, <3>5 DEF Horizon
      <3> QED BY <1>3, <3>3, <3>4, <3>5
    <2> QED BY <2>1, <2>2
  <1>5. ASSUME NEW l \in 0..valid' PROVE Knows(cache, Covering(cache, l), Open[l])
    <2>1. CASE l <= valid BY <1>2, <1>3, <2>1 DEF KnownInv
    <2>2. CASE ~ (l <= valid)
      <3>1. l \in first + 1 .. Horizon /\ l \in Nat /\ Sighted
        <4>1. Horizon \in Nat BY <1>3 DEF Horizon
        <4> QED BY <1>2, <1>3, <1>4, <2>2, <4>1
      <3>2. Updating BY <1>1 DEF Updating
      <3>3. Knows(cache, Holding(l), Open[l]) BY <3>1, <3>2 DEF KnownInv
      <3>4. \A q \in DOMAIN cache : ~ Stale(q) /\ (Along(q, parent) => q = Root)
        BY <1>1 DEF Stale, Beside, Along, Root
      <3>5. \A q \in DOMAIN cache \ {Root} : q \in Holding(l) <=> q \in Covering(cache, l)
        BY <3>4 DEF Holding, Covering, Covers
      <3>6. SameAround(cache, cache, Holding(l), Covering(cache, l))
        <4>1. \A q \in Ring(cache, Holding(l)) \ {Root} : q \in DOMAIN cache /\ q \in Holding(l)
          BY <1>3, RingIs
        <4> QED BY <3>5, <4>1 DEF SameAround
      <3>7. PICK C, D : C = Holding(l) /\ D = Covering(cache, l) OBVIOUS
      <3> QED BY ONLY <1>3, <3>3, <3>6, <3>7, KnowsKept
    <2> QED BY <2>1, <2>2
  <1> QED BY <1>2, <1>5 DEF KnownInv, Open, Updating

(* The end of a traced parse that says the blocks after the line are the   *)
(* ones the cache has: then it is right about the lines behind as well.    *)
LEMMA FinishKept ==
  ASSUME Ready, TryInv, Finish, try.on, try.sure, ~ Torn
  PROVE  /\ endLine = endl - 1 /\ ~ try.mismatch /\ cur >= endl /\ endl <= valid
         /\ try.stack \in Stacks /\ SameLevels(try.stack, Open[endl])
         /\ SameLevels(try.stack, try.expected)
              => \A l \in endl..valid : SameLevels(Looked(cache, l), Open[l])
  <1>1. ~ breaking /\ clear # NoLine BY DEF Torn
  <1>2. /\ cur \in Nat /\ endl \in Nat /\ valid \in Nat /\ endl <= valid /\ first \in Nat
        /\ mode = "read" /\ (cur < endl => cur = endl - 1) /\ valid <= LineCount
        /\ LineCount \in Nat /\ first < endl
    BY TextAssumption DEF Ready, Inv, RunTypes, ClientTypes, RangeInv, TryRange
  <1>3. cur >= endl
    <2>1. Sighted BY <1>2 DEF Sighted
    <2> QED BY <1>1, <1>2, <2>1, FinishStack
  <1>4. endLine = endl - 1 BY <1>1, <1>2, <1>3, FinishStack
  <1>9. TryStack /\ TryTree
    <2>1. clear = endLine /\ clear \notin missing
      BY <1>1 DEF Ready, Inv, Positions, RangeInv, Finish
    <2> QED BY <1>1, <1>4, <2>1 DEF TryInv, Tried
  <1>5. Inv /\ Started(cache) BY DEF Ready
  <1>6. try.stack \in Stacks /\ SameLevels(try.stack, Open[endl]) BY <1>9, <1>3 DEF TryStack
  <1>7. \A l \in endl..valid : Looked(cache, l) \in Stacks /\ Open[l] \in Stacks
    <2> TAKE l \in endl..valid
    <2>1. l \in Nat /\ l \in 0..LineCount BY <1>2
    <2>2. text \in [0..LineCount - 1 -> Seq(Symbols)]
      BY TextAssumption, <1>5 DEF Inv, ClientTypes, LineNos
    <2>3. Open[l] \in Stacks BY <1>2, <2>1, <2>2, OpenAtType DEF Open
    <2> QED BY <1>5, <2>1, <2>3, LookedType
  <1>8. ASSUME SameLevels(try.stack, try.expected), NEW l \in endl..valid
        PROVE  SameLevels(Looked(cache, l), Open[l])
    <2> DEFINE S == {n \in Nat : endl + n <= valid => SameLevels(Looked(cache, endl + n), Open[endl + n])}
    <2>1. 0 \in S
      <3>1. endl \in endl..valid BY <1>2
      <3>2. PICK a, b : a = try.stack /\ b = Looked(cache, endl) OBVIOUS
      <3>3. a \in Stacks /\ b \in Stacks /\ Open[endl] \in Stacks /\ SameLevels(a, b)
            /\ SameLevels(a, Open[endl])
        BY <1>9, <1>6, <1>7, <1>8, <3>1, <3>2 DEF TryTree
      <3>4. SameLevels(b, a) BY ONLY <3>3, SameSymmetric
      <3>5. SameLevels(b, Open[endl]) BY ONLY <3>3, <3>4, SameTransitive
      <3> QED BY <1>2, <3>2, <3>5
    <2>2. ASSUME NEW n \in Nat, n \in S PROVE n + 1 \in S
      <3> SUFFICES ASSUME endl + (n + 1) <= valid
          PROVE  SameLevels(Looked(cache, endl + (n + 1)), Open[endl + (n + 1)])
        OBVIOUS
      <3>1. PICK k \in Nat : k = endl + n BY <1>2
      <3>2. /\ k \in endl..valid /\ k + 1 \in endl..valid /\ k \in endl..valid - 1
            /\ endl + (n + 1) = k + 1 /\ endl + n <= valid /\ k \in LineNos
        BY <1>2, <3>1 DEF LineNos
      <3>3. SameLevels(Looked(cache, k), Open[k]) BY <2>2, <3>1, <3>2
      <3>4. SameLevels(Looked(cache, k + 1), OpenAfter(Looked(cache, k), text[k]))
        BY <1>9, <3>2 DEF TryTree
      <3>5. text[k] \in Seq(Symbols) /\ Open[k + 1] = OpenAfter(Open[k], text[k])
        BY <1>5, <3>2, LineIs
      <3>6. PICK a, b, c : a = Looked(cache, k) /\ b = Looked(cache, k + 1)
                           /\ c = OpenAfter(a, text[k])
        OBVIOUS
      <3>7. a \in Stacks /\ b \in Stacks /\ Open[k] \in Stacks /\ Open[k + 1] \in Stacks
        BY <1>7, <3>2, <3>6
      <3>8. c \in Stacks BY <3>5, <3>6, <3>7, OpenAfterType
      <3>9. SameLevels(c, Open[k + 1]) BY <3>3, <3>5, <3>6, <3>7, SameAfter
      <3>10. SameLevels(b, c) BY <3>4, <3>6
      <3>11. SameLevels(b, Open[k + 1]) BY ONLY <3>7, <3>8, <3>9, <3>10, SameTransitive
      <3> QED BY <3>2, <3>6, <3>11
    <2> HIDE DEF S
    <2>3. Nat \subseteq S BY <2>1, <2>2, Induction
    <2>4. PICK n \in Nat : l = endl + n
      <3>1. l - endl \in Nat /\ l = endl + (l - endl) BY <1>2
      <3> QED BY <3>1
    <2>5. n \in S BY <2>3
    <2> QED BY <1>2, <2>4, <2>5 DEF S
  <1> QED BY <1>2, <1>3, <1>4, <1>6, <1>8, <1>9 DEF TryStack

(* The end of any parse.                                                   *)
LEMMA FinishKnown ==
  ASSUME Ready, KnownInv, TryInv, Finish
  PROVE  KnownInv'
  <1>1. CASE mode = "update" BY <1>1, FinishUpdate
  <1>2. CASE mode # "update" /\ ~ (try.on /\ try.sure)
    <2>1. try'.on = FALSE /\ valid' = valid /\ phase' = "idle" /\ UNCHANGED <<text, cache>>
      BY <1>2 DEF Finish, Reached, NoTry, env, tree
    <2> QED BY <1>2, <2>1 DEF KnownInv, Open, Updating
  <1>3. CASE mode # "update" /\ try.on /\ try.sure
    <2>1. try'.on = FALSE /\ phase' = "idle" /\ UNCHANGED <<text, cache>>
      BY <1>3 DEF Finish, NoTry, env, tree
    <2>2. \A l \in 0..endl - 1 : Knows(cache, Covering(cache, l), Open[l])
      BY <1>3 DEF KnownInv
    <2>3. valid' = IF Torn \/ Verdict = "lost" THEN endLine ELSE valid
      BY <1>3 DEF Finish, Reached
    <2>7. CASE Torn
      <3>1. endLine < endl BY FinishStack
      <3>2. endLine \in Nat /\ endl \in Nat BY Counters DEF Ready
      <3>3. \A l \in 0..valid' : l \in 0..endl - 1 BY <2>3, <2>7, <3>1, <3>2
      <3> QED BY <2>1, <2>2, <3>3 DEF KnownInv, Open, Updating
    <2>4. CASE ~ Torn
      <3>1. /\ endLine = endl - 1 /\ ~ try.mismatch /\ endl <= valid
            /\ SameLevels(try.stack, try.expected)
                => \A l \in endl..valid : SameLevels(Looked(cache, l), Open[l])
        BY <1>3, <2>4, FinishKept
      <3>2. CASE ~ SameLevels(try.stack, try.expected)
        <4>1. valid' = endl - 1 BY <2>3, <3>1, <3>2 DEF Verdict
        <4> QED BY <2>1, <2>2, <4>1 DEF KnownInv, Open, Updating
      <3>3. CASE SameLevels(try.stack, try.expected)
        <4>1. valid' = valid BY <2>3, <2>4, <3>1, <3>3 DEF Verdict
        <4>2. Inv /\ OrderInv /\ valid \in Nat /\ endl \in Nat
          BY TextAssumption DEF Ready, Inv, ClientTypes, RunTypes
        <4>3. ASSUME NEW l \in 0..valid PROVE Knows(cache, Covering(cache, l), Open[l])
          <5>1. CASE l <= endl - 1 BY <2>2, <4>2, <5>1
          <5>2. CASE ~ (l <= endl - 1)
            <6>1. l \in endl..valid /\ l \in Nat BY <4>2, <5>2
            <6>2. SameLevels(OpenLevels(cache, SearchLine(cache, l)), Open[l])
              BY <3>1, <3>3, <6>1 DEF Looked
            <6>3. ApartUpTo(cache, l) BY <1>3, <4>2, <6>1, ApartHere DEF Updating
            <6> QED BY <4>2, <6>1, <6>2, <6>3, FoundIsKnown
          <5> QED BY <5>1, <5>2
        <4> QED BY <2>1, <4>1, <4>3 DEF KnownInv, Open, Updating
      <3> QED BY <3>2, <3>3
    <2> QED BY <2>4, <2>7
  <1> QED BY <1>1, <1>2, <1>3

-----------------------------------------------------------------------------
(* What the client does between two parses.                                *)

(* Moving cursors does not change what is known.                           *)
LEMMA CursorsKnown ==
  ASSUME NEW t, IsCache(t), NEW u, IsCache(u), DOMAIN u = DOMAIN t,
         \A q \in DOMAIN t : Keeps(t, u, q), NEW l, NEW open, Knows(t, Covering(t, l), open)
  PROVE  Knows(u, Covering(u, l), open)
  <1>1. \A q \in DOMAIN t : q \in Covering(u, l) <=> q \in Covering(t, l)
    BY DEF Covering, Covers, Keeps
  <1>2. \A q \in DOMAIN t : Level(u[q]) = Level(t[q]) BY DEF Level, Keeps
  <1>3. \A q \in Ring(t, Covering(t, l)) \ {Root} : q \in DOMAIN t /\ q \in Covering(t, l)
    BY RingIs
  <1>4. SameAround(t, u, Covering(t, l), Covering(u, l))
    BY <1>1, <1>2, <1>3 DEF SameAround
  <1>5. PICK C, D : C = Covering(t, l) /\ D = Covering(u, l) OBVIOUS
  <1> QED BY ONLY <1>4, <1>5, IsCache(t), IsCache(u), Knows(t, Covering(t, l), open), KnowsKept

(* In the fresh cache nothing is open on any line.                         *)
LEMMA EmptyKnows ==
  ASSUME NEW l
  PROVE  Knows(EmptyCache, Covering(EmptyCache, l), <<>>)
  <1>1. DOMAIN EmptyCache = {Root} BY DEF EmptyCache
  <1>2. Len(Root) = 0 BY DEF Root
  <1>3. Root \in Ring(EmptyCache, Covering(EmptyCache, l)) BY <1>1, <1>2 DEF Ring
  <1>4. \A j \in Nat \ {0} : Append(Root, j) \notin Ring(EmptyCache, Covering(EmptyCache, l))
    <2>1. Root \in Path BY DEF Root, Path
    <2>2. \A j \in Nat \ {0} : Append(Root, j) # Root BY <2>1, FrontOfAppend
    <2> QED BY <1>1, <2>2 DEF Ring
  <1>5. OpenLevels(EmptyCache, Root) = <<>> BY <1>2 DEF OpenLevels
  <1>6. SameLevels(<<>>, <<>>) BY DEF SameLevels
  <1> QED BY <1>3, <1>4, <1>5, <1>6 DEF Knows

(* Nothing is open at the start of the text, and the fresh cache knows it. *)
LEMMA EmptyKnown ==
  ASSUME NEW t, NEW n \in Nat
  PROVE  Knows(EmptyCache, Covering(EmptyCache, 0), OpenAt(t, n)[0])
  <1>1. OpenAt(t, n)[0] = <<>> BY OpenAtStep
  <1> QED BY <1>1, EmptyKnows

(* An edit of line l leaves what is open up to it.                         *)
LEMMA EditedOpen ==
  ASSUME Inv, NEW l \in LineNos, NEW line, text' = [text EXCEPT ![l] = line]
  PROVE  \A k \in 0..l : Open'[k] = Open[k]
  <1>1. LineCount \in Nat /\ text \in [LineNos -> Lines]
    BY TextAssumption DEF Inv, ClientTypes
  <1>2. l \in 0..LineCount BY <1>1 DEF LineNos
  <1>3. PICK u : u = [text EXCEPT ![l] = line] OBVIOUS
  <1>4. \A k \in 0..l - 1 : text[k] = u[k]
    <2> TAKE k \in 0..l - 1
    <2>1. k \in LineNos /\ k # l BY <1>1 DEF LineNos
    <2> QED BY <1>1, <1>3, <2>1
  <1>5. \A k \in 0..l : OpenAt(text, LineCount)[k] = OpenAt(u, LineCount)[k]
    BY ONLY <1>1, <1>2, <1>4, OpenAtPrefix
  <1> QED BY <1>3, <1>5 DEF Open

Whole == Ready /\ KnownInv /\ TryInv

(* Between two parses all lines up to valid are known.                     *)
LEMMA IdleKnown ==
  ASSUME Whole, phase = "idle"
  PROVE  /\ ~ try.on /\ CacheCorrect /\ valid \in 0..LineCount /\ LineCount \in Nat
         /\ \A l \in 0..valid : Knows(cache, Covering(cache, l), Open[l])
         /\ \A l \in 0..valid : SameLevels(Looked(cache, l), Open[l])
         /\ Inv /\ OrderInv /\ Started(cache) /\ TryRange /\ IsCache(cache)
  <1>1. Inv /\ OrderInv /\ Started(cache) /\ RangeInv /\ TryRange /\ KnownInv /\ IsCache(cache)
    BY DEF Whole, Ready, RangeInv, Inv
  <1>2. ~ try.on BY <1>1 DEF TryRange
  <1>3. CacheCorrect BY <1>1, KnownIsCorrect
  <1>4. valid \in 0..LineCount /\ LineCount \in Nat BY TextAssumption, <1>1 DEF Inv, ClientTypes
  <1> QED BY <1>1, <1>2, <1>3, <1>4 DEF KnownInv, CacheCorrect, KnowsLine, Looked

(* parse() of a range that starts on a line that is known.                 *)
LEMMA ParseWhole ==
  ASSUME Whole, NEW from \in 0..LineCount, NEW num \in 0..LineCount, num > 0, NEW m \in Modes,
         Parse(from, num, m)
  PROVE  ReadInv' /\ PendInv' /\ KnownInv' /\ TryInv'
  <1>1. /\ phase = "idle" /\ from + num <= LineCount
        /\ valid' = (IF m = "update" /\ from <= valid THEN from ELSE valid)
        /\ StartParse(cache, from, num, m) /\ UNCHANGED <<text, try>>
    BY DEF Parse, env
  <1>2. /\ ~ try.on /\ valid \in 0..LineCount /\ LineCount \in Nat
        /\ \A l \in 0..valid : Knows(cache, Covering(cache, l), Open[l])
        /\ \A l \in 0..valid : SameLevels(Looked(cache, l), Open[l])
        /\ Inv /\ OrderInv /\ Started(cache) /\ IsCache(cache)
    BY <1>1, IdleKnown
  <1>3. from \in Nat /\ num \in Nat /\ from \in LineNos
    BY <1>1, <1>2 DEF LineNos
  <1>4. Open' = Open BY <1>1 DEF Open
  <1>5. text'[from] \in Seq(Symbols) /\ Open'[from] \in Stacks
    BY <1>1, <1>2, <1>3, <1>4, LineIs
  <1>6. Sighted' => SameLevels(OpenLevels(cache, SearchLine(cache, from)), Open'[from])
    <2> SUFFICES ASSUME Sighted'
        PROVE  SameLevels(OpenLevels(cache, SearchLine(cache, from)), Open'[from])
      OBVIOUS
    <2>1. first' = from BY <1>1, <1>2, <1>3, StartParseIs
    <2>2. from \in 0..valid BY <1>1, <1>2, <1>3, <2>1 DEF Sighted
    <2> QED BY <1>2, <1>4, <2>2 DEF Looked
  <1>7. ReadInv' /\ PendInv'
    BY <1>1, <1>2, <1>3, <1>5, <1>6, StartParseReads
  <1>8. /\ DOMAIN cache' = DOMAIN cache /\ \A q \in DOMAIN cache : Keeps(cache, cache', q)
        /\ cur' = from /\ breaking' = FALSE /\ mode' = m /\ first' = from
        /\ cache' = (IF m = "off" THEN cache ELSE Searched(cache, from))
    BY <1>1, <1>2, <1>3, StartParseIs
  <1>9. IsCache(cache') BY <1>2, <1>3, <1>8, SearchedIsCache
  <1>10. PICK u : u = cache' OBVIOUS
  <1>11. ASSUME NEW l \in 0..valid PROVE Knows(u, Covering(u, l), Open'[l])
    <2>1. Knows(cache, Covering(cache, l), Open[l]) BY <1>2
    <2> QED BY <1>2, <1>4, <1>8, <1>9, <1>10, <2>1, CursorsKnown
  <1>12. \A l \in 0..valid' : l \in 0..valid BY <1>1, <1>2, <1>3
  <1>13. ~ try'.on BY <1>1, <1>2
  <1>14. first' + 1 .. Horizon' = {}
    <2>1. Horizon' = from BY <1>8 DEF Horizon
    <2> QED BY <1>3, <1>8, <2>1
  <1>15. KnownInv' BY <1>10, <1>11, <1>12, <1>13, <1>14 DEF KnownInv
  <1>16. TryInv' BY <1>13 DEF TryInv, Tried
  <1> QED BY <1>7, <1>15, <1>16

(* tryParseLine.                                                           *)
LEMMA TryParseLineWhole ==
  ASSUME Whole, NEW l \in LineNos, NEW line \in Lines, TryParseLine(l, line)
  PROVE  ReadInv' /\ PendInv' /\ KnownInv' /\ TryInv'
  <1>1. phase = "idle" BY DEF TryParseLine
  <1>2. /\ CacheCorrect /\ valid \in 0..LineCount /\ LineCount \in Nat
        /\ \A k \in 0..valid : Knows(cache, Covering(cache, k), Open[k])
        /\ \A k \in 0..valid : SameLevels(Looked(cache, k), Open[k])
        /\ Inv /\ OrderInv /\ Started(cache) /\ TryRange /\ IsCache(cache)
    BY <1>1, IdleKnown
  <1>3. /\ l \in Nat /\ text' = [text EXCEPT ![l] = line] /\ valid' = valid /\ first' = l
        /\ \E w : /\ IsCache(w) /\ Started(w) /\ StartParse(w, l, 1, "read")
                  /\ Looked(w, l) = Looked(cache, l)
        /\ DOMAIN cache' = DOMAIN cache /\ IsCache(cache')
        /\ \A q \in DOMAIN cache : Keeps(cache, cache', q)
        /\ try'.on = TRUE /\ try'.sure = (l < valid) /\ endl' = l + 1 /\ mode' = "read"
    BY <1>2, TryParseLineIs
  <1>4. TryInv' BY <1>2, StartTry
  <1>5. \A k \in 0..l : Open'[k] = Open[k] BY <1>2, <1>3, EditedOpen
  <1>6. text'[l] \in Seq(Symbols) /\ Open'[l] \in Stacks
    <2>1. text'[l] = line BY <1>2, <1>3 DEF Inv, ClientTypes
    <2>2. line \in Seq(Symbols) BY TextAssumption
    <2>3. Open'[l] = Open[l] BY <1>3, <1>5
    <2>4. Open[l] \in Stacks BY <1>2, LineIs
    <2> QED BY <2>1, <2>2, <2>3, <2>4
  <1>7. ReadInv' /\ PendInv'
    <2>1. PICK w : /\ IsCache(w) /\ Started(w) /\ StartParse(w, l, 1, "read")
                   /\ Looked(w, l) = Looked(cache, l)
      BY <1>3
    <2>2. ASSUME Sighted' PROVE l \in 0..valid /\ l \in 0..l BY <1>2, <1>3, <2>2 DEF Sighted
    <2>3. Sighted' => SameLevels(OpenLevels(w, SearchLine(w, l)), Open'[l])
      BY <1>2, <1>5, <2>1, <2>2 DEF Looked
    <2> QED BY <1>1, <1>2, <1>3, <1>6, <2>1, <2>3, StartParseReads
  <1>8. PICK u : u = cache' OBVIOUS
  <1>9. ASSUME NEW k \in 0..(IF l < valid THEN l ELSE valid)
        PROVE  Knows(u, Covering(u, k), Open'[k])
    <2>1. k \in 0..valid /\ k \in 0..l BY <1>2, <1>3
    <2>2. Knows(cache, Covering(cache, k), Open[k]) BY <1>2, <2>1
    <2>3. Open'[k] = Open[k] BY <1>5, <2>1
    <2> QED BY <1>2, <1>3, <1>8, <2>2, <2>3, CursorsKnown
  <1>10. ~ Updating' BY <1>3 DEF Updating
  <1>11. endl' - 1 = l BY <1>3
  <1>12. KnownInv' BY <1>3, <1>8, <1>9, <1>10, <1>11 DEF KnownInv
  <1> QED BY <1>4, <1>7, <1>12

(* An edit makes the client forget the lines behind it.                    *)
LEMMA EditKnown ==
  ASSUME Whole, NEW l \in LineNos, NEW line \in Lines, NEW gone \in Unavailable,
         Edit(l, line, gone)
  PROVE  KnownInv'
  <1>1. /\ phase = "idle" /\ phase' = phase /\ text' = [text EXCEPT ![l] = line]
        /\ valid' = (IF l < valid THEN l ELSE valid) /\ try' = NoTry /\ cache' = cache
    BY DEF Edit, tree
  <1>2. /\ valid \in 0..LineCount /\ LineCount \in Nat /\ Inv
        /\ \A k \in 0..valid : Knows(cache, Covering(cache, k), Open[k])
    BY <1>1, IdleKnown
  <1>3. l \in Nat BY <1>2 DEF LineNos
  <1>4. \A k \in 0..l : Open'[k] = Open[k] BY <1>1, <1>2, EditedOpen
  <1>5. ~ try'.on BY <1>1 DEF NoTry
  <1>6. \A k \in 0..valid' : k \in 0..l /\ k \in 0..valid BY <1>1, <1>2, <1>3
  <1> QED BY <1>1, <1>2, <1>4, <1>5, <1>6 DEF KnownInv, Updating

(* A cache that is empty again.                                            *)
LEMMA SetFileTypeKnown ==
  ASSUME Whole, SetFileType
  PROVE  KnownInv'
  <1>1. /\ phase' = "idle" /\ cache' = EmptyCache /\ valid' = 0 /\ try' = NoTry
    BY DEF SetFileType, ClearCache
  <1>2. ~ try'.on BY <1>1 DEF NoTry
  <1>3. LineCount \in Nat BY TextAssumption
  <1>4. Knows(EmptyCache, Covering(EmptyCache, 0), Open'[0]) BY <1>3, EmptyKnown DEF Open
  <1>5. \A l \in 0..valid' : l = 0 BY <1>1
  <1> QED BY <1>1, <1>2, <1>4, <1>5 DEF KnownInv, Updating

(* Breaking off leaves the lines that were not read out.                   *)
LEMMA BreakParseKnown ==
  ASSUME Whole, BreakParse
  PROVE  KnownInv' /\ TryInv'
  <1>1. /\ breaking' = TRUE
        /\ UNCHANGED <<text, valid, first, phase, cache, parent, mode, forward, endl, cur, endLine, try>>
    BY DEF BreakParse, env, client, where, tree
  <1>2. Inv /\ RangeInv /\ KnownInv /\ TryInv /\ Sighted' = Sighted
    BY SightedStays DEF Whole, Ready
  <1>3. cur \in Nat /\ endl \in Nat /\ endLine \in Nat /\ first \in Nat
    BY <1>2, Counters
  <1>4. KnownInv'
    <2>1. CASE phase = "idle"
      <3>1. ~ Updating' BY <1>1, <2>1 DEF Updating
      <3> QED BY <1>1, <1>2, <3>1, KnownQuiet
    <2>2. CASE phase # "idle"
      <3>1. cur >= endl => endLine < endl BY <1>2, <2>2 DEF RangeInv, SeenLines
      <3>2. Horizon' = IF cur >= endl THEN endLine ELSE cur BY <1>1 DEF Horizon
      <3>3. Horizon \in Int /\ Horizon' \in Int /\ Horizon' <= Horizon
        <4>1. CASE cur >= endl BY <1>3, <3>1, <3>2, <4>1 DEF Horizon
        <4>2. CASE ~ (cur >= endl) BY <1>3, <3>2, <4>2 DEF Horizon
        <4> QED BY <4>1, <4>2
      <3> QED BY <1>1, <1>2, <1>3, <2>2, <3>3, KnownSame
    <2> QED BY <2>1, <2>2
  <1>5. TryTree' = TryTree BY <1>1 DEF TryTree
  <1>6. ~ Tried' BY <1>1 DEF Tried
  <1> QED BY <1>1, <1>2, <1>4, <1>5, <1>6 DEF TryInv

(* A stuttering step.                                                      *)
LEMMA StutterWhole ==
  ASSUME Whole, UNCHANGED vars
  PROVE  KnownInv' /\ TryInv'
  <1>1. /\ UNCHANGED <<text, missing, valid, first, phase, cache, parent, mode, forward, endl, cur,
                       endLine, try, frames, breaking>>
    BY DEF vars, env, client, where, tree
  <1>2. Horizon' = Horizon /\ Updating' = Updating /\ Open' = Open /\ Sighted' = Sighted
    BY <1>1 DEF Horizon, Updating, Open, Sighted
  <1>3. \A l : Holding(l)' = Holding(l) BY <1>1 DEF Holding, Stale
  <1>4. Stack' = Stack BY <1>1, StackSame
  <1>5. KnownInv' BY <1>1, <1>2, <1>3 DEF Whole, KnownInv
  <1>6. TryStack' = TryStack BY <1>1, <1>2, <1>4 DEF TryStack
  <1>7. TryTree' = TryTree BY <1>1 DEF TryTree
  <1> QED BY <1>1, <1>5, <1>6, <1>7 DEF TryInv, Tried, Whole

-----------------------------------------------------------------------------
(* Every step keeps the parser true to the text.                           *)
LEMMA WholeNext ==
  ASSUME Whole, [Next]_vars, WithinRecursion'
  PROVE  Whole'
  <1>1. Inv /\ OrderInv /\ LevelsInv /\ Started(cache) /\ RangeInv /\ Ready /\ KnownInv /\ TryInv
    BY DEF Whole, Ready
  <1>2. Inv' BY <1>1, NextInv
  <1>3. OrderInv' BY <1>1, OrderNext
  <1>4. LevelsInv' BY <1>1, LevelsNext
  <1>5. Started(cache)' BY <1>1, StartedNext
  <1>6. RangeInv' BY <1>1, RangeNext
  <1>7. ASSUME Step PROVE ReadInv' /\ PendInv' /\ KnownInv' /\ TryInv'
    <2>1. ReadInv' /\ PendInv' BY <1>1, <1>5, <1>7, StepReads
    <2>2. TryInv' BY <1>1, <1>5, <1>7, StepTry
    <2>3. KnownInv'
      <3>1. CASE Finish BY <1>1, <3>1, FinishKnown
      <3>2. CASE ~ Finish BY <1>1, <1>2, <1>7, <3>2, StepKnown
      <3> QED BY <3>1, <3>2
    <2> QED BY <2>1, <2>2, <2>3
  <1>8. ASSUME NEW from \in 0..LineCount, NEW num \in 0..LineCount, NEW m \in Modes,
               num > 0, Parse(from, num, m)
        PROVE  ReadInv' /\ PendInv' /\ KnownInv' /\ TryInv'
    BY <1>8, ParseWhole
  <1>9. ASSUME SetFileType PROVE ReadInv' /\ PendInv' /\ KnownInv' /\ TryInv'
    <2>1. phase' = "idle" /\ try' = NoTry BY <1>9 DEF SetFileType, ClearCache
    <2>2. ReadInv' /\ PendInv' BY <1>1, <2>1, QuietReads
    <2>3. TryInv' BY <2>1 DEF TryInv, Tried, NoTry
    <2> QED BY <1>9, <2>2, <2>3, SetFileTypeKnown
  <1>10. ASSUME NEW l \in LineNos, NEW line \in Lines, NEW gone \in Unavailable,
                Edit(l, line, gone)
         PROVE  ReadInv' /\ PendInv' /\ KnownInv' /\ TryInv'
    <2>1. phase' = "idle" /\ try' = NoTry BY <1>10 DEF Edit
    <2>2. ReadInv' /\ PendInv' BY <1>1, <2>1, QuietReads
    <2>3. TryInv' BY <2>1 DEF TryInv, Tried, NoTry
    <2> QED BY <1>10, <2>2, <2>3, EditKnown
  <1>11. ASSUME NEW l \in LineNos, NEW line \in Lines, TryParseLine(l, line)
         PROVE  ReadInv' /\ PendInv' /\ KnownInv' /\ TryInv'
    BY <1>11, TryParseLineWhole
  <1>12. ASSUME BreakParse PROVE ReadInv' /\ PendInv' /\ KnownInv' /\ TryInv'
    BY <1>1, <1>12, QuietReads, BreakParseKnown
  <1>13. ASSUME UNCHANGED vars PROVE ReadInv' /\ PendInv' /\ KnownInv' /\ TryInv'
    BY <1>1, <1>13, QuietReads, StutterWhole
  <1>14. ReadInv' /\ PendInv' /\ KnownInv' /\ TryInv'
    BY <1>7, <1>8, <1>9, <1>10, <1>11, <1>12, <1>13 DEF Next, Client
  <1> QED BY <1>2, <1>3, <1>4, <1>5, <1>6, <1>14 DEF Whole, Ready

(* At first the cache is empty and nothing runs.                           *)
LEMMA InitWhole == Init => Whole
  <1> SUFFICES ASSUME Init PROVE Whole OBVIOUS
  <1>1. Inv /\ OrderInv /\ LevelsInv /\ Started(cache) /\ RangeInv
    BY InitInv, InitOrder, InitLevels, InitStarted, InitRange
  <1>2. phase = "idle" /\ ~ try.on /\ cache = EmptyCache /\ valid = 0 BY DEF Init, NoTry
  <1>3. ReadInv /\ PendInv /\ TryInv BY <1>2 DEF ReadInv, PendInv, TryInv, Tried
  <1>4. KnownInv
    <2>1. Knows(cache, Covering(cache, 0), Open[0])
      BY <1>2, EmptyKnown, TextAssumption DEF Open
    <2> QED BY <1>2, <2>1 DEF KnownInv, Updating
  <1> QED BY <1>1, <1>3, <1>4 DEF Whole, Ready

(* What incremental parsing rests on.  Whatever the history of parses,     *)
(* edits, null lines, broken parses and traced re-parses: looking a line   *)
(* up in the cache, up to the last line that whole parses have reached,    *)
(* gives the blocks that are open at its start when the whole text before  *)
(* it is read anew; and the parses that the client begins at lines nobody  *)
(* has reached spoil none of that.  (Where blocks nest deeper than the     *)
(* call stack may grow, parse() gives up on purpose; the theorem is about  *)
(* the runs where they do not.)                                            *)
THEOREM CacheIsCorrect == Spec /\ []WithinRecursion => []CacheCorrect
  <1>1. Init => Whole BY InitWhole
  <1>2. Whole /\ [Next]_vars /\ WithinRecursion' => Whole' BY WholeNext
  <1>3. Whole => CacheCorrect BY KnownIsCorrect DEF Whole, Ready
  <1> QED BY <1>1, <1>2, <1>3, PTL DEF Spec

-----------------------------------------------------------------------------
(* Where getLine returns every line and nobody breaks a parse off, the     *)
(* client's invalidLine is the line that whole parses have reached.        *)
Plain ==
  /\ missing = {} /\ ~ breaking
  /\ phase = "idle" \/ mode # "update" => invalidLine = valid
  /\ phase # "idle" => /\ first <= valid
                       /\ mode # "off" /\ clear = NoLine => cur < endl
                       /\ try.on => try.sure

(* The end of such a parse.                                                *)
LEMMA FinishPlain ==
  ASSUME Whole, Plain, Finish
  PROVE  Plain'
  <1>1. Ready /\ Inv /\ RangeInv /\ phase = "return" BY DEF Whole, Ready, Finish
  <1>2. /\ phase' = "idle" /\ invalidLine' = NextInvalid /\ valid' = Reached
        /\ UNCHANGED <<missing, breaking>>
    BY DEF Finish, env
  <1>3. ASSUME mode # "off" PROVE ~ Torn
    <2>1. Sighted BY <1>1, <1>3 DEF Sighted, Plain
    <2>2. ~ (cur < endl) BY <1>1, <2>1, FinishStack DEF Plain
    <2> QED BY <1>1, <1>3, <2>2 DEF Plain, Torn
  <1>4. first \in Nat /\ valid \in Nat /\ first <= valid BY <1>1, Counters DEF Plain
  <1>5. invalidLine' = valid'
    <2>1. CASE mode = "update" BY <1>2, <1>3, <1>4, <2>1 DEF NextInvalid, Reached
    <2>2. CASE mode # "update"
      <3>1. invalidLine = valid BY <2>2 DEF Plain
      <3>2. try.on => mode = "read" /\ try.sure BY <1>1 DEF RangeInv, TryRange, Plain
      <3> QED BY <1>2, <1>3, <2>2, <3>1, <3>2 DEF NextInvalid, Reached
    <2> QED BY <2>1, <2>2
  <1> QED BY <1>2, <1>5 DEF Plain

(* Every step keeps it so.                                                 *)
LEMMA PlainNext ==
  ASSUME Unavailable = {{}}, Breaking = FALSE, Whole, Plain, [Next]_vars
  PROVE  Plain'
  <1>1. Ready /\ Inv /\ RangeInv /\ OrderInv /\ Started(cache) /\ TryRange
    BY DEF Whole, Ready, RangeInv
  <1>2. /\ cur \in Nat /\ endl \in Nat /\ first \in Nat /\ valid \in Nat /\ cur # NoLine
        /\ phase = "scan" => cur < endl
    BY <1>1, Counters DEF NoLine
  <1>3. CASE Finish BY <1>3, FinishPlain
  <1>4. CASE Step /\ ~ Finish
    <2>1. ~ LineMissing BY DEF LineMissing, Plain
    <2>2. phase # "idle" /\ UNCHANGED <<missing, breaking, invalidLine, mode, endl>>
      BY <1>4 DEF Step, StartLevel, LinesExhausted, LineMissing, LineBegin, ScanNothing, ScanRegexp,
         Scanning, EnterBlock, EndOfBlock, NextLine, LeaveBlock, LeaveLevel, env, client, where
    <2>3. try'.on = try.on /\ try'.sure = try.sure /\ UNCHANGED <<valid, first>>
      BY <1>1, <1>4, SightedStays DEF Step
    <2>4. ASSUME mode # "off", clear' = NoLine PROVE cur' < endl
      <3>1. Sighted BY <2>2, <2>4 DEF Sighted, Plain
      <3>2. phase # "scan"
        <4>1. phase = "scan" => clear = cur BY <1>1, <3>1 DEF Ready, ReadInv
        <4>2. phase = "scan" => clear' = clear
          BY <1>4 DEF Step, StartLevel, LinesExhausted, LineMissing, LineBegin, ScanNothing,
             ScanRegexp, Scanning, EnterBlock, EndOfBlock, NextLine, LeaveBlock, LeaveLevel, where
        <4> QED BY <1>2, <2>4, <4>1, <4>2
      <3>3. cur' = cur /\ (clear' = clear \/ clear' = cur)
        BY <1>4, <2>1, <3>2 DEF Step, StartLevel, LinesExhausted, LineBegin, ScanNothing,
           ScanRegexp, Scanning, EnterBlock, EndOfBlock, NextLine, LeaveBlock, LeaveLevel, where
      <3> QED BY <1>2, <2>2, <2>4, <3>3 DEF Plain
    <2>6. phase' # "idle"
      BY <1>4 DEF Step, StartLevel, LinesExhausted, LineMissing, LineBegin, ScanNothing, ScanRegexp,
         Scanning, EnterBlock, EndOfBlock, NextLine, LeaveBlock, LeaveLevel, PhaseAt
    <2> QED BY <2>2, <2>3, <2>4, <2>6 DEF Plain
  <1>5. ASSUME NEW from \in 0..LineCount, NEW num \in 0..LineCount, NEW m \in Modes,
               num > 0, Parse(from, num, m)
        PROVE  Plain'
    <2>1. /\ phase = "idle" /\ from <= invalidLine /\ StartParse(cache, from, num, m)
          /\ valid' = (IF m = "update" /\ from <= valid THEN from ELSE valid)
          /\ UNCHANGED <<missing, invalidLine, try>>
      BY <1>5 DEF Parse, env
    <2>2. from \in Nat /\ num \in Nat BY TextAssumption
    <2>3. /\ phase' = "level" /\ mode' = m /\ first' = from /\ breaking' = FALSE
          /\ cur' = from /\ endl' = from + num
      BY <2>1, <2>2 DEF StartParse
    <2>4. invalidLine = valid /\ ~ try.on BY <1>1, <2>1 DEF Plain, TryRange
    <2>5. cur' < endl' BY <1>5, <2>2, <2>3
    <2>6. first' <= valid' /\ (m # "update" => valid' = valid)
      BY <1>2, <2>1, <2>2, <2>3, <2>4
    <2> QED BY <2>1, <2>3, <2>4, <2>5, <2>6 DEF Plain
  <1>6. CASE SetFileType
    <2>1. /\ phase' = "idle" /\ invalidLine' = 0 /\ valid' = 0
          /\ UNCHANGED <<missing, breaking>>
      BY <1>6 DEF SetFileType, ClearCache, env
    <2> QED BY <2>1 DEF Plain
  <1>7. ASSUME NEW l \in LineNos, NEW line \in Lines, NEW gone \in Unavailable, Edit(l, line, gone)
        PROVE  Plain'
    <2>1. /\ phase = "idle" /\ phase' = "idle" /\ missing' = {} /\ breaking' = breaking
          /\ invalidLine' = (IF l < invalidLine THEN l ELSE invalidLine)
          /\ valid' = (IF l < valid THEN l ELSE valid)
      BY <1>7 DEF Edit
    <2> QED BY <2>1 DEF Plain
  <1>8. ASSUME NEW l \in LineNos, NEW line \in Lines, TryParseLine(l, line)
        PROVE  Plain'
    <2>1. phase = "idle" /\ l < invalidLine /\ UNCHANGED <<missing, invalidLine, valid>>
          /\ StartParse(Searched(Searched(cache, l + 1), l), l, 1, "read")
          /\ try'.sure = (l < valid)
      BY <1>8 DEF TryParseLine
    <2>2. invalidLine = valid BY <2>1 DEF Plain
    <2>3. l \in Nat BY TextAssumption DEF LineNos
    <2>4. /\ phase' = "level" /\ mode' = "read" /\ first' = l /\ breaking' = FALSE
          /\ cur' = l /\ endl' = l + 1
      BY <2>1 DEF StartParse
    <2>5. first' <= valid' /\ cur' < endl' BY <1>2, <2>1, <2>2, <2>3, <2>4
    <2> QED BY <2>1, <2>2, <2>4, <2>5 DEF Plain
  <1>9. CASE BreakParse BY <1>9 DEF BreakParse
  <1>10. CASE UNCHANGED vars
    <2>1. UNCHANGED <<missing, breaking, phase, mode, invalidLine, valid, first, clear, cur, endl, try>>
      BY <1>10 DEF vars, env, client, where
    <2> QED BY <2>1 DEF Plain
  <1> QED BY <1>3, <1>4, <1>5, <1>6, <1>7, <1>8, <1>9, <1>10 DEF Next, Client

(* "invalidLine is the first stale line" where every line can be read and  *)
(* no parse is broken off: then the cache knows every line up to it,       *)
(* whatever parses, edits and traced re-parses came before.                *)
THEOREM InvalidLineIsKnown ==
  ASSUME Unavailable = {{}}, Breaking = FALSE
  PROVE  Spec /\ []WithinRecursion => []InvalidIsFirstStale
  <1>1. Init => Whole /\ Plain
    <2> SUFFICES ASSUME Init PROVE Plain BY InitWhole
    <2>1. missing \in Unavailable /\ phase = "idle" /\ invalidLine = valid /\ breaking = FALSE
      BY DEF Init
    <2> QED BY <2>1 DEF Plain
  <1>2. Whole /\ Plain /\ [Next]_vars /\ WithinRecursion' => (Whole /\ Plain)'
    BY WholeNext, PlainNext
  <1>3. Whole /\ Plain => InvalidIsFirstStale
    <2> SUFFICES ASSUME Whole, Plain, phase = "idle", NEW l \in 0..invalidLine
        PROVE  KnowsLine(l)
      BY DEF InvalidIsFirstStale
    <2>1. ~ try.on /\ CacheCorrect BY IdleKnown
    <2>2. l \in 0..valid BY DEF Plain
    <2> QED BY <2>1, <2>2 DEF CacheCorrect
  <1> QED BY <1>1, <1>2, <1>3, PTL DEF Spec

-----------------------------------------------------------------------------
(* The answer of the last tryParseLine, until the next call.               *)
TryTold ==
  phase = "idle" /\ try.result # "none" /\ try.sure =>
    (try.result = "kept" <=> SameLevels(Open[endLine + 1], try.expected))

(* Finish gives the right answer.                                          *)
LEMMA FinishTold ==
  ASSUME Whole, Finish
  PROVE  TryTold'
  <1>1. Ready /\ TryInv /\ Inv /\ Started(cache) BY DEF Whole, Ready
  <1>2. /\ try' = (IF try.on THEN [NoTry EXCEPT !.expected = try.expected, !.result = Verdict,
                                               !.sure = try.sure /\ ~ Torn]
                  ELSE NoTry)
        /\ endLine' = endLine /\ text' = text
    BY DEF Finish, env, client
  <1>3. CASE ~ try.on
    <2>1. try'.result = "none" BY <1>2, <1>3 DEF NoTry
    <2> QED BY <2>1 DEF TryTold
  <1>5. CASE try.on /\ ~ (try.sure /\ ~ Torn)
    <2>1. ~ try'.sure BY <1>2, <1>5 DEF NoTry
    <2> QED BY <2>1 DEF TryTold
  <1>4. CASE try.on /\ try.sure /\ ~ Torn
    <2>1. try'.result = Verdict /\ try'.expected = try.expected BY <1>2, <1>4 DEF NoTry
    <2>2. /\ endLine = endl - 1 /\ ~ try.mismatch /\ endl <= valid
          /\ try.stack \in Stacks /\ SameLevels(try.stack, Open[endl])
          /\ TryTree
      <3>1. try.on /\ try.sure => TryTree BY <1>1 DEF TryInv
      <3> QED BY <1>1, <1>4, <3>1, FinishKept
    <2>3. endl \in Nat /\ endl \in 0..LineCount /\ LineCount \in Nat
      BY TextAssumption, <1>1 DEF Inv, RunTypes
    <2>4. PICK a, b, c : a = try.stack /\ b = Looked(cache, endl) /\ c = Open[endl] OBVIOUS
    <2>5. try.expected = b BY <2>2, <2>4 DEF TryTree
    <2>6. b \in Stacks BY <1>1, <2>3, <2>4, LookedType
    <2>7. c \in Stacks
      <3>1. text \in [0..LineCount - 1 -> Seq(Symbols)]
        BY TextAssumption, <1>1 DEF Inv, ClientTypes, LineNos
      <3> QED BY <2>3, <2>4, <3>1, OpenAtType DEF Open
    <2>8. a \in Stacks /\ SameLevels(a, c) BY <2>2, <2>4
    <2>9. SameLevels(c, a) BY ONLY <2>7, <2>8, SameSymmetric
    <2>10. SameLevels(a, b) => SameLevels(c, b)
      BY ONLY <2>6, <2>7, <2>8, <2>9, SameTransitive
    <2>11. SameLevels(c, b) => SameLevels(a, b)
      BY ONLY <2>6, <2>7, <2>8, SameTransitive
    <2>12. Verdict = "kept" <=> SameLevels(a, b)
      BY <2>2, <2>4, <2>5 DEF Verdict
    <2>13. Open'[endLine' + 1] = c
      <3>1. endLine + 1 = endl BY <2>2, <2>3
      <3> QED BY <1>2, <2>4, <3>1 DEF Open
    <2> QED BY <2>1, <2>4, <2>5, <2>10, <2>11, <2>12, <2>13 DEF TryTold
  <1> QED BY <1>3, <1>4, <1>5

(* The answer stays true until the client edits again.                     *)
LEMMA ToldNext ==
  ASSUME Whole, TryTold, [Next]_vars
  PROVE  TryTold'
  <1>1. CASE Finish BY <1>1, FinishTold
  <1>2. CASE Step /\ ~ Finish
    <2>1. phase' # "idle"
      BY <1>2 DEF Step, StartLevel, LinesExhausted, LineMissing, LineBegin, ScanNothing,
         ScanRegexp, EnterBlock, EndOfBlock, NextLine, LeaveBlock, LeaveLevel, Scanning, PhaseAt
    <2> QED BY <2>1 DEF TryTold
  <1>3. ASSUME NEW from, NEW num, NEW m, Parse(from, num, m) PROVE TryTold'
    <2>1. phase' = "level" BY <1>3 DEF Parse, StartParse
    <2> QED BY <2>1 DEF TryTold
  <1>4. CASE SetFileType BY <1>4 DEF SetFileType, ClearCache, TryTold, NoTry
  <1>5. ASSUME NEW l, NEW line, NEW gone, Edit(l, line, gone) PROVE TryTold'
    BY <1>5 DEF Edit, TryTold, NoTry
  <1>6. ASSUME NEW l, NEW line, TryParseLine(l, line) PROVE TryTold'
    <2>1. phase' = "level" BY <1>6 DEF TryParseLine, StartParse
    <2> QED BY <2>1 DEF TryTold
  <1>7. CASE BreakParse
    <2>1. UNCHANGED <<phase, try, endLine, text>> BY <1>7 DEF BreakParse, env, where
    <2> QED BY <2>1 DEF TryTold, Open
  <1>8. CASE UNCHANGED vars
    <2>1. UNCHANGED <<phase, try, endLine, text>> BY <1>8 DEF vars, env, client, where
    <2> QED BY <2>1 DEF TryTold, Open
  <1> QED BY <1>1, <1>2, <1>3, <1>4, <1>5, <1>6, <1>7, <1>8 DEF Next, Client

(* The answer of tryParseLine is "kept" exactly if the edited line leaves  *)
(* the same blocks open as the cache says are open after it, entered at    *)
(* the same places and, where their ends depend on it, by the same text:   *)
(* so the client may keep what it has shown below.  It is the answer for   *)
(* any line whole parses had gone by, that getLine returned and that was   *)
(* read to its end; whatever was broken off or not returned before.        *)
THEOREM TryIsExact == Spec /\ []WithinRecursion => []TryExact
  <1>1. Init => Whole /\ TryTold
    BY InitWhole DEF Init, TryTold, NoTry
  <1>2. Whole /\ TryTold /\ [Next]_vars /\ WithinRecursion' => (Whole /\ TryTold)'
    BY WholeNext, ToldNext
  <1>3. Whole /\ TryTold => TryExact
    <2> SUFFICES ASSUME Whole, TryTold, phase = "idle", try.result # "none", try.sure
        PROVE  (try.result = "kept") =
                 LET now == Open[endLine + 1]
                 IN  /\ Len(now) = Len(try.expected)
                     /\ \A k \in DOMAIN now :
                          /\ now[k].block = try.expected[k].block
                          /\ now[k].pos = try.expected[k].pos
                          /\ now[k].block \in BackTraced => now[k].sym = try.expected[k].sym
      BY DEF TryExact
    <2>1. try.result = "kept" <=> SameLevels(Open[endLine + 1], try.expected) BY DEF TryTold
    <2> QED BY <2>1 DEF SameLevels, SameLevel
  <1> QED BY <1>1, <1>2, <1>3, PTL DEF Spec

-----------------------------------------------------------------------------
(* What the handler is told, in the presence of missing lines.             *)

(* getLine does not return the current line: every level of the parse ends *)
(* on it.                                                                  *)
Gone == cur < endl /\ clear # cur /\ cur \in missing

(* The background is at the bottom of what the handler was told.           *)
Grounded(h) == h # <<>> /\ h[1] = Base

TellInv ==
  phase # "idle" /\ Sighted =>
    /\ Gone \/ (HandlerInv /\ Grounded(handler))
    /\ cur >= endl /\ ~ breaking => handler = <<Base>> \o BlocksOf(Open[cur])

-----------------------------------------------------------------------------
(* Telling of more blocks, or of the end of one, leaves it there.          *)
LEMMA GroundedKept ==
  ASSUME NEW h \in Seq(Schemes), Grounded(h)
  PROVE  /\ \A x \in Schemes : Grounded(Append(h, x))
         /\ \A s \in Seq(Schemes) : Grounded(h \o s)
         /\ Len(h) > 1 => Grounded(Front(h))
  <1>1. Len(h) \in Nat /\ Len(h) # 0 /\ 1 \in 1..Len(h) /\ h[1] = Base
    BY LenProperties, EmptySeq DEF Grounded
  <1>2. ASSUME NEW x \in Schemes PROVE Grounded(Append(h, x))
    <2>1. Append(h, x)[1] = h[1] /\ Len(Append(h, x)) = Len(h) + 1 /\ Append(h, x) \in Seq(Schemes)
      BY <1>1, AppendProperties
    <2>2. Append(h, x) # <<>> BY <1>1, <2>1, EmptySeq
    <2> QED BY <1>1, <2>1, <2>2 DEF Grounded
  <1>3. ASSUME NEW s \in Seq(Schemes) PROVE Grounded(h \o s)
    <2>1. Len(s) \in Nat BY LenProperties
    <2>2. /\ h \o s \in Seq(Schemes) /\ Len(h \o s) = Len(h) + Len(s)
          /\ \A i \in 1..Len(h) + Len(s) : (h \o s)[i] = IF i <= Len(h) THEN h[i] ELSE s[i - Len(h)]
      BY ConcatProperties
    <2>3. 1 \in 1..Len(h) + Len(s) /\ 1 <= Len(h) BY <1>1, <2>1
    <2>4. (h \o s)[1] = h[1] BY <2>2, <2>3
    <2>5. h \o s # <<>> BY <1>1, <2>1, <2>2, EmptySeq
    <2> QED BY <1>1, <2>4, <2>5 DEF Grounded
  <1>4. ASSUME Len(h) > 1 PROVE Grounded(Front(h))
    <2>1. h # <<>> BY <1>1, EmptySeq
    <2>2. /\ Front(h) \in Seq(Schemes) /\ Len(Front(h)) = Len(h) - 1
          /\ \A i \in 1..Len(h) - 1 : Front(h)[i] = h[i]
      BY <2>1, FrontAndLast
    <2>3. Front(h)[1] = h[1] BY <1>1, <1>4, <2>2
    <2>4. Front(h) # <<>> BY <1>1, <1>4, <2>2, EmptySeq
    <2> QED BY <1>1, <2>3, <2>4 DEF Grounded
  <1> QED BY <1>2, <1>3, <1>4

(* A line that is missing ends the parse.                                  *)
LEMMA GoneStays ==
  ASSUME Ready, Gone, Step, Sighted
  PROVE  phase' = "idle" \/ (Gone' /\ ~ (cur' >= endl') /\ mode' = mode)
  <1>1. /\ Inv /\ ReadInv /\ cur \in Nat /\ endl \in Nat /\ clear \in LineNos \cup {NoLine}
        /\ cur # NoLine
    BY TextAssumption DEF Ready, Inv, RunTypes, NoLine
  <1>2. phase # "scan" BY <1>1 DEF ReadInv, Gone
  <1>3. ~ LineBegin /\ ~ LinesExhausted BY <1>1 DEF LineBegin, LinesExhausted, Gone
  <1>4. CASE Finish BY <1>4 DEF Finish
  <1>5. CASE StartLevel \/ LineMissing \/ LeaveBlock \/ LeaveLevel
    <2>1. UNCHANGED <<cur, endl, missing, mode>> /\ (clear' = clear \/ clear' = NoLine)
      BY <1>5 DEF StartLevel, LineMissing, LeaveBlock, LeaveLevel, env, client, where
    <2> QED BY <1>1, <2>1 DEF Gone
  <1> QED BY <1>2, <1>3, <1>4, <1>5 DEF Step, ScanNothing, ScanRegexp, EnterBlock, EndOfBlock,
          NextLine, Scanning

(* Other steps tell the handler what it has to know.                       *)
LEMMA StepTells ==
  ASSUME Inv, HandlerInv, Step, ~ LineMissing
  PROVE  HandlerInv'
  <1> USE DEF tree, where, matching
  <1>1. CASE LinesExhausted
    <2>1. cur \in Int /\ endl \in Int
      BY TextAssumption DEF Inv, RunTypes
    <2>2. ~ (cur < endl)
      BY <1>1, <2>1 DEF LinesExhausted
    <2> QED BY <1>1, <2>2, Silent DEF LinesExhausted
  <1>2. CASE ScanNothing
    BY <1>2, Silent DEF ScanNothing, Scanning, HandlerInv
  <1>3. CASE ScanRegexp
    <2>1. phase' \in {"line", "scan"}
      BY <1>3 DEF ScanRegexp, PhaseAt
    <2> QED BY <1>3, <2>1, Silent DEF ScanRegexp, Scanning, HandlerInv
  <1>4. CASE EndOfBlock
    <2>1. cur < endl /\ filled /\ phase # "idle"
      BY <1>4 DEF EndOfBlock, HandlerInv, Inv, Positions
    <2> QED BY <1>4, <2>1, Silent DEF EndOfBlock
  <1>5. CASE NextLine
    <2>1. cur < endl /\ phase # "idle"
      BY <1>5 DEF NextLine, Inv, Positions
    <2> QED BY <1>5, <2>1, Silent DEF NextLine
  <1>6. CASE Finish BY <1>6 DEF Finish, HandlerInv
  <1> QED BY <1>1, <1>2, <1>3, <1>4, <1>5, <1>6, StartLevelTold, LineBeginTold, EnterBlockTold,
          LeaveBlockTold, LeaveLevelTold DEF Step

(* And leave the background at the bottom.                                 *)
LEMMA StepGrounds ==
  ASSUME Inv, HandlerInv, Grounded(handler), Step
  PROVE  Grounded(handler)'
  <1>1. handler \in Seq(Schemes) /\ Len(handler) \in Nat BY LenProperties DEF Inv, RunTypes
  <1>2. CASE UNCHANGED handler BY <1>2 DEF Grounded
  <1>3. CASE LineBegin
    <2>1. handler' = IF filled THEN handler ELSE handler \o Invisible BY <1>3 DEF LineBegin
    <2> QED BY <1>1, <2>1, InvisibleType, GroundedKept DEF Grounded
  <1>4. CASE EnterBlock
    <2>1. handler' = Append(handler, Hit) /\ Hit \in Schemes
      BY <1>4 DEF EnterBlock, Schemes
    <2> QED BY <1>1, <2>1, GroundedKept DEF Grounded
  <1>5. CASE LeaveBlock \/ LeaveLevel
    <2>1. handler' = Left(handler) /\ phase = "return" /\ (frames # <<>> \/ parent # Root)
      BY <1>5 DEF LeaveBlock, LeaveLevel
    <2>2. cur < endl => Len(handler) > 1
      BY <2>1, ToldMatches DEF LeavesMatch
    <2>3. CASE cur < endl
      <3>1. handler' = Front(handler) BY <2>1, <2>3 DEF Left, Grounded
      <3>2. Grounded(Front(handler)) BY <1>1, <2>2, <2>3, GroundedKept
      <3> QED BY <3>1, <3>2 DEF Grounded
    <2>4. CASE ~ (cur < endl)
      <3>1. handler' = handler BY <2>1, <2>4 DEF Left
      <3> QED BY <3>1 DEF Grounded
    <2> QED BY <2>3, <2>4
  <1>6. LineBegin \/ EnterBlock \/ LeaveBlock \/ LeaveLevel \/ UNCHANGED handler
    BY DEF Step, StartLevel, LinesExhausted, LineMissing, ScanNothing, ScanRegexp, EndOfBlock,
       NextLine, Finish
  <1> QED BY <1>2, <1>3, <1>4, <1>5, <1>6

(* A handler that was told of the levels knows the blocks on the stack.    *)
LEMMA ToldIsStack ==
  ASSUME Inv, Started(cache), Grounded(handler), Told(handler, cache, parent, Depth, frames),
         NEW s \in Stacks, SameLevels(Stack, s)
  PROVE  handler = <<Base>> \o BlocksOf(s)
  <1>1. handler \in Seq(Schemes) /\ Len(handler) \in Nat /\ Len(frames) \in Nat /\ Depth \in Nat
        /\ Len(parent) \in Nat /\ Depth \in 0..Len(parent)
    BY CachedLevels, LenProperties DEF Inv, RunTypes
  <1>2. Height \in Nat /\ Height \in 0..Height /\ Height = Depth + Len(frames)
    BY <1>1 DEF Height
  <1>3. Stack \in Stacks /\ Len(Stack) = Height
        /\ \A k \in 1..Height : Stack[k] = IF k <= Depth THEN Level(cache[SubSeq(parent, 1, k)])
                                           ELSE LevelOf(frames[k - Depth])
    BY <1>2, LevelsType DEF Stack
  <1>4. Len(s) = Height /\ \A k \in DOMAIN Stack : SameLevel(Stack[k], s[k])
    BY <1>3 DEF SameLevels
  <1>5. DOMAIN Stack = 1..Height /\ DOMAIN s = 1..Height
    BY <1>3, <1>4, LenProperties DEF Stacks
  <1>6. \A k \in 1..Height : Stack[k].block = s[k].block BY <1>4, <1>5 DEF SameLevel
  <1>7. Len(handler) = 1 + Height BY <1>1, <1>2 DEF Told
  <1>8. ASSUME NEW k \in 1..Height PROVE handler[1 + k] = s[k].block
    <2>1. handler[1 + k] = Stack[k].block
      <3>1. CASE k <= Depth
        <4>1. k \in 1..Depth BY <1>1, <1>2, <3>1
        <4>2. handler[1 + k] = cache[SubSeq(parent, 1, k)].block BY <4>1 DEF Told
        <4> QED BY <1>3, <3>1, <4>2 DEF Level
      <3>2. CASE ~ (k <= Depth)
        <4>1. PICK i \in 1..Len(frames) : i = k - Depth
          <5>1. k - Depth \in 1..Len(frames) BY <1>1, <1>2, <3>2
          <5> QED BY <5>1
        <4>2. handler[1 + Depth + i] = frames[i].block BY <4>1 DEF Told
        <4>3. 1 + Depth + i = 1 + k BY <1>1, <1>2, <4>1
        <4> QED BY <1>3, <3>2, <4>1, <4>2, <4>3 DEF LevelOf
      <3> QED BY <3>1, <3>2
    <2> QED BY <1>6, <2>1
  <1>9. BlocksOf(s) = [k \in 1..Height |-> s[k].block] BY <1>5 DEF BlocksOf
  <1>10. BlocksOf(s) \in Seq(Schemes) /\ Len(BlocksOf(s)) = Height
    <2>1. \A k \in 1..Height : s[k].block \in Schemes
      <3> TAKE k \in 1..Height
      <3>1. s[k] \in [block : Blocks, sym : Symbols, pos : Nat]
        BY <1>4, ElementOfSeq DEF Stacks
      <3> QED BY <3>1 DEF Schemes
    <2>2. BlocksOf(s) \in [1..Height -> Schemes] BY <1>9, <2>1
    <2> QED BY <1>2, <1>9, <2>2, LenProperties
  <1>11. PICK b : b = BlocksOf(s) OBVIOUS
  <1>12. <<Base>> \in Seq(Schemes) /\ Len(<<Base>>) = 1 /\ <<Base>>[1] = Base BY DEF Schemes
  <1>13. /\ <<Base>> \o b \in Seq(Schemes) /\ Len(<<Base>> \o b) = 1 + Height
         /\ \A i \in 1..1 + Height : (<<Base>> \o b)[i] = IF i <= 1 THEN <<Base>>[i] ELSE b[i - 1]
    <2>1. b \in Seq(Schemes) /\ Len(b) = Height BY <1>10, <1>11
    <2> QED BY ONLY <1>2, <1>12, <2>1, ConcatProperties
  <1>14. \A i \in 1..1 + Height : handler[i] = (<<Base>> \o b)[i]
    <2> TAKE i \in 1..1 + Height
    <2>1. CASE i = 1 BY <1>2, <1>12, <1>13, <2>1 DEF Grounded
    <2>2. CASE i # 1
      <3>1. PICK k \in 1..Height : k = i - 1
        <4>1. i - 1 \in 1..Height BY <1>2, <2>2
        <4> QED BY <4>1
      <3>2. 1 + k = i /\ ~ (i <= 1) BY <1>2, <2>2, <3>1
      <3>3. handler[i] = s[k].block BY <1>8, <3>2
      <3>4. b[k] = s[k].block BY <1>9, <1>11
      <3> QED BY <1>13, <3>1, <3>2, <3>3, <3>4
    <2> QED BY <2>1, <2>2
  <1>15. handler = <<Base>> \o b
    BY <1>1, <1>7, <1>13, <1>14, SeqEqual
  <1> QED BY <1>11, <1>15
-----------------------------------------------------------------------------
(* Past the range nothing is told any more, and where the parse has read   *)
(* up to does not change.                                                  *)
LEMMA PastSame ==
  ASSUME Ready, Step, cur >= endl
  PROVE  phase' = "idle" \/ UNCHANGED <<cur, handler, text, breaking, mode, endl>>
  <1>1. /\ Inv /\ cur \in Nat /\ endl \in Nat BY TextAssumption DEF Ready, Inv, RunTypes
  <1>2. ~ (cur < endl) /\ phase # "scan" BY <1>1 DEF Inv, Positions
  <1>3. \A h : Left(h) = h BY <1>2 DEF Left
  <1> QED BY <1>2, <1>3 DEF Step, StartLevel, LinesExhausted, LineMissing, LineBegin, ScanNothing,
       ScanRegexp, EnterBlock, EndOfBlock, NextLine, LeaveBlock, LeaveLevel, Finish, Scanning, env, client, where

(* When the last line is over, the handler knows the open blocks.          *)
LEMMA NextLineTells ==
  ASSUME Ready, HandlerInv, Grounded(handler), NextLine, Sighted, ~ breaking
  PROVE  handler' = <<Base>> \o BlocksOf(Open'[cur'])
  <1>1. /\ Inv /\ LevelsInv /\ cur \in Nat /\ endl \in Nat /\ Started(cache)
        /\ cur < endl /\ phase = "scan" /\ ReadInv
    BY DEF Ready, Inv, RunTypes, NextLine, Positions
  <1>2. gx > matchend.s /\ ~ found /\ cur' = cur + 1 /\ UNCHANGED <<handler, text>>
    BY DEF NextLine, env, client
  <1>3. Reading(Len(text[cur]), Stack) BY <1>1, <1>2 DEF ReadInv
  <1>4. /\ text[cur] \in Seq(Symbols) /\ Open[cur] \in Stacks /\ Open[cur + 1] \in Stacks
        /\ Open[cur + 1] = OpenAfter(Open[cur], text[cur])
    BY <1>1, Here
  <1>5. Stack \in Stacks BY <1>1, StackTopIs DEF Running
  <1>6. SameLevels(Stack, Open[cur + 1])
    BY <1>3, <1>4, <1>5, ReadOver DEF Reading
  <1>7. Told(handler, cache, parent, Depth, frames) BY <1>1 DEF HandlerInv
  <1>8. handler = <<Base>> \o BlocksOf(Open[cur + 1])
    BY <1>1, <1>4, <1>6, <1>7, ToldIsStack
  <1> QED BY <1>2, <1>8 DEF Open

(* A step of the parser.                                                   *)
LEMMA StepTellInv ==
  ASSUME Ready, TellInv, Step
  PROVE  TellInv'
  <1>1. CASE phase' = "idle" BY <1>1 DEF TellInv
  <1>2. CASE phase' # "idle" /\ ~ Sighted
    <2>1. ~ Finish BY <1>2 DEF Finish
    <2>2. Sighted' = Sighted BY <2>1, SightedStays DEF Ready, Step
    <2> QED BY <1>2, <2>2 DEF TellInv
  <1>3. CASE phase' # "idle" /\ Sighted
    <2>1. /\ Inv /\ cur \in Nat /\ endl \in Nat /\ breaking \in BOOLEAN
      BY TextAssumption DEF Ready, Inv, RunTypes
    <2>2. phase # "idle"
      BY DEF Step, StartLevel, LinesExhausted, LineMissing, LineBegin, ScanNothing,
       ScanRegexp, EnterBlock, EndOfBlock, NextLine, LeaveBlock, LeaveLevel, Finish, Scanning
    <2>3. CASE Gone
      <3>1. Gone' /\ ~ (cur' >= endl') BY <1>3, <2>3, GoneStays
      <3> QED BY <3>1 DEF TellInv
    <2>4. CASE ~ Gone
      <3>1. HandlerInv /\ Grounded(handler) BY <1>3, <2>2, <2>4 DEF TellInv
      <3>2. Gone' \/ (HandlerInv' /\ Grounded(handler)')
        <4>1. CASE LineMissing
          <5>1. cur' = cur /\ endl' = endl /\ missing' = missing /\ clear' = NoLine
            BY <4>1 DEF LineMissing, env, client
          <5>2. cur < endl /\ cur \in missing BY <4>1 DEF LineMissing
          <5> QED BY <2>1, <5>1, <5>2 DEF Gone, NoLine
        <4>2. CASE ~ LineMissing BY <2>1, <3>1, <4>2, StepTells, StepGrounds
        <4> QED BY <4>1, <4>2
      <3>3. ASSUME cur' >= endl', ~ breaking' PROVE handler' = <<Base>> \o BlocksOf(Open'[cur'])
        <4>1. CASE cur >= endl
          <5>1. UNCHANGED <<cur, handler, text, breaking>> BY <1>3, <4>1, PastSame
          <5>2. handler = <<Base>> \o BlocksOf(Open[cur])
            BY <1>3, <2>2, <3>3, <4>1, <5>1 DEF TellInv
          <5> QED BY <5>1, <5>2 DEF Open
        <4>2. CASE cur < endl
          <5>1. /\ endl' = endl /\ breaking' = breaking
                /\ cur' = cur \/ NextLine \/ EndOfBlock
            BY <1>3 DEF Step, StartLevel, LinesExhausted, LineMissing, LineBegin, ScanNothing,
              ScanRegexp, EnterBlock, EndOfBlock, NextLine, LeaveBlock, LeaveLevel, Finish, where
          <5>2. EndOfBlock /\ ~ breaking => cur' = cur BY DEF EndOfBlock
          <5>3. NextLine BY <2>1, <3>3, <4>2, <5>1, <5>2
          <5> QED BY <1>3, <2>4, <3>1, <3>3, <5>1, <5>3, NextLineTells
        <4> QED BY <2>1, <4>1, <4>2
      <3> QED BY <3>2, <3>3 DEF TellInv
    <2> QED BY <2>3, <2>4
  <1> QED BY <1>1, <1>2, <1>3

(* A parse starts with a handler that knows the background.                *)
LEMMA StartParseTells ==
  ASSUME Inv, phase = "idle", NEW t, IsCache(t), NEW from \in Nat, NEW num \in Nat, num > 0,
         NEW m, StartParse(t, from, num, m)
  PROVE  TellInv'
  <1>1. HandlerInv' BY StartParseTold
  <1>2. cur' = from /\ endl' = from + num /\ handler' = <<Base>> BY StartParseIs
  <1>3. Grounded(<<Base>>) BY DEF Grounded
  <1>4. ~ (cur' >= endl') BY <1>2
  <1> QED BY <1>1, <1>2, <1>3, <1>4 DEF TellInv

(* Every step keeps the handler in step, unless a line is missing.         *)
LEMMA TellNext ==
  ASSUME Whole, TellInv, [Next]_vars
  PROVE  TellInv'
  <1>1. Ready /\ Inv BY DEF Whole, Ready
  <1>2. CASE Step BY <1>1, <1>2, StepTellInv
  <1>3. ASSUME NEW from \in 0..LineCount, NEW num \in 0..LineCount, NEW m \in Modes,
               num > 0, Parse(from, num, m)
        PROVE  TellInv'
    <2>1. phase = "idle" /\ StartParse(cache, from, num, m) BY <1>3 DEF Parse
    <2>2. from \in Nat /\ num \in Nat /\ IsCache(cache) BY <1>1, TextAssumption DEF Inv
    <2> QED BY <1>1, <1>3, <2>1, <2>2, StartParseTells
  <1>4. ASSUME NEW l \in LineNos, NEW line \in Lines, TryParseLine(l, line)
        PROVE  TellInv'
    <2>1. OrderInv /\ Started(cache) /\ TryRange BY DEF Whole, Ready, RangeInv
    <2>2. /\ phase = "idle" /\ l \in Nat
          /\ \E w : /\ IsCache(w) /\ Started(w) /\ StartParse(w, l, 1, "read")
                    /\ Looked(w, l) = Looked(cache, l)
      BY <1>1, <1>4, <2>1, TryParseLineIs
    <2>3. PICK w : IsCache(w) /\ StartParse(w, l, 1, "read") BY <2>2
    <2> QED BY <1>1, <2>2, <2>3, StartParseTells
  <1>5. ASSUME SetFileType \/ \E l \in LineNos, line \in Lines, gone \in Unavailable : Edit(l, line, gone)
        PROVE  TellInv'
    <2>1. phase' = "idle" BY <1>5 DEF SetFileType, ClearCache, Edit
    <2> QED BY <2>1 DEF TellInv
  <1>6. ASSUME BreakParse \/ UNCHANGED vars PROVE TellInv'
    <2>1. /\ UNCHANGED <<text, missing, phase, cache, parent, mode, cur, endl, clear, frames, handler, filled>>
          /\ breaking' = TRUE \/ breaking' = breaking
      BY <1>6 DEF BreakParse, vars, env, client, where, tree
    <2>2. Gone' = Gone /\ Open' = Open BY <2>1 DEF Gone, Open
    <2>3. Depth' = Depth BY <2>1 DEF Depth
    <2>4. HandlerInv' = HandlerInv BY <2>1, <2>3 DEF HandlerInv
    <2>5. breaking \in BOOLEAN BY <1>1 DEF Inv, RunTypes
    <2>6. Sighted' = Sighted BY <1>1, <1>6, SightedStays
    <2> QED BY <2>1, <2>2, <2>4, <2>5, <2>6 DEF TellInv, Grounded
  <1> QED BY <1>2, <1>3, <1>4, <1>5, <1>6 DEF Next, Client

(* When a parse of whole lines that began at a line whole parses had       *)
(* reached is over, the schemes that its handler was told to enter and not *)
(* to leave are the blocks open at the start of the next line, outermost   *)
(* first, above the background; whatever lines getLine failed to return,   *)
(* and whatever parses were broken off or began in the dark, before.       *)
THEOREM HandlerIsTold == Spec /\ []WithinRecursion => []HandlerAgrees
  <1>1. Init => Whole /\ TellInv
    BY InitWhole DEF Init, TellInv
  <1>2. Whole /\ TellInv /\ [Next]_vars /\ WithinRecursion' => (Whole /\ TellInv)'
    BY WholeNext, TellNext
  <1>3. Whole /\ TellInv => HandlerAgrees
    <2> SUFFICES ASSUME Whole, TellInv, phase = "return", frames = <<>>, parent = Root,
                        ~ Torn, Sighted
        PROVE  handler = <<Base>> \o BlocksOf(Open[endLine + 1])
      BY DEF HandlerAgrees, Sighted
    <2>0. clear # NoLine /\ ~ breaking BY DEF Torn
    <2>1. Inv /\ Started(cache) /\ ReadInv /\ RangeInv BY DEF Whole, Ready
    <2>2. Stack = <<>>
      <3>1. Len(parent) = 0 /\ Len(frames) = 0 BY DEF Root
      <3>2. Height = 0 BY <3>1 DEF Height, Depth
      <3> QED BY <2>1, <3>2, NoLevels
    <2>3. cur \in Nat /\ endl \in Nat BY <2>1, TextAssumption DEF Inv, RunTypes
    <2>4. cur >= endl BY <2>0, <2>1, <2>2, <2>3 DEF ReadInv
    <2>5. cur = endl /\ endLine = endl - 1 BY <2>0, <2>1, <2>4 DEF RangeInv, SeenLines
    <2>6. endLine + 1 = cur BY <2>3, <2>5
    <2> QED BY <2>0, <2>4, <2>6 DEF TellInv
  <1> QED BY <1>1, <1>2, <1>3, PTL DEF Spec
-----------------------------------------------------------------------------
(***************************************************************************)
(* A text that is fed line by line, as a session feeds it: the next line   *)
(* is given its text and parsed in one step, or the parser starts over     *)
(* while the lines go on.                                                  *)
(***************************************************************************)

(* The lines up to the one that is fed start as before, so the parse of it *)
(* is one from a line that is known.                                       *)
LEMMA FeedWhole ==
  ASSUME Whole, phase = "idle", NEW n \in LineNos, n <= valid, NEW line \in Lines,
         text' = [text EXCEPT ![n] = line], UNCHANGED <<missing, try>>, valid' = n,
         invalidLine' \in 0..LineCount, StartParse(cache, n, 1, "update")
  PROVE  Whole'
  <1>1. /\ ~ try.on /\ valid \in 0..LineCount /\ LineCount \in Nat
        /\ \A l \in 0..valid : Knows(cache, Covering(cache, l), Open[l])
        /\ \A l \in 0..valid : SameLevels(Looked(cache, l), Open[l])
        /\ Inv /\ OrderInv /\ Started(cache) /\ IsCache(cache)
    BY IdleKnown
  <1>2. n \in Nat /\ n + 1 <= LineCount /\ n \in 0..valid /\ n \in 0..n
        /\ n \in 0..LineCount /\ line \in Seq(Symbols)
    BY <1>1, TextAssumption DEF LineNos
  <1>3. \A k \in 0..n : Open'[k] = Open[k]
    BY <1>1, EditedOpen
  <1>5. /\ DOMAIN cache' = DOMAIN cache /\ \A q \in DOMAIN cache : Keeps(cache, cache', q)
        /\ phase' = "level" /\ cur' = n /\ breaking' = FALSE /\ mode' = "update" /\ first' = n
    BY <1>1, <1>2, StartParseIs
  <1>4. Inv'
    <2>1. /\ RunTypes' /\ IsCache(cache)' /\ Place' /\ Positions' /\ OuterRestored'
          /\ Grafting' /\ Pending'
      BY <1>1, <1>2, StartParseInv
    <2>2. ClientTypes'
      BY <1>1, <1>2, <1>5 DEF Inv, ClientTypes
    <2> QED
      BY <2>1, <2>2 DEF Inv
  <1>6. OrderInv'
    <2>1. InOrder(cache) /\ Within(cache) /\ Apart(cache, parent, forward, FALSE)
      BY <1>1 DEF OrderInv, Updating
    <2> QED
      BY <1>1, <1>2, <2>1, StartParseOrder
  <1>7. LevelsInv'
    BY <1>5 DEF LevelsInv, Running
  <1>8. Started(cache)'
    BY <1>1, <1>5 DEF Started, Keeps
  <1>9. RangeInv'
    BY <1>1, <1>2, StartParseRange
  <1>10. ReadInv' /\ PendInv'
    <2>1. text'[n] \in Seq(Symbols) /\ Open'[n] \in Stacks
      BY <1>1, <1>2, <1>3, LineIs DEF Inv, ClientTypes
    <2>2. SameLevels(OpenLevels(cache, SearchLine(cache, n)), Open'[n])
      BY <1>1, <1>2, <1>3 DEF Looked
    <2> QED
      BY <1>1, <1>2, <2>1, <2>2, StartParseReads
  <1>11. KnownInv'
    <2>1. PICK u : u = cache'
      OBVIOUS
    <2>2. ASSUME NEW l \in 0..n PROVE Knows(u, Covering(u, l), Open'[l])
      <3>1. l \in 0..valid
        BY <1>1, <1>2
      <3>2. Knows(cache, Covering(cache, l), Open'[l])
        BY <1>1, <1>3, <3>1
      <3> QED
        BY <1>1, <1>4, <1>5, <2>1, <3>2, CursorsKnown DEF Inv
    <2>3. ~ try'.on
      BY <1>1
    <2>4. first' + 1 .. Horizon' = {}
      BY <1>2, <1>5 DEF Horizon
    <2> QED
      BY <2>1, <2>2, <2>3, <2>4 DEF KnownInv
  <1>12. TryInv'
    BY <1>1 DEF TryInv, Tried
  <1> QED
    BY <1>4, <1>6, <1>7, <1>8, <1>9, <1>10, <1>11, <1>12 DEF Whole, Ready

(* A line without symbols changes nothing.                                 *)
LEMMA BlankLine == ASSUME NEW open PROVE OpenAfter(open, <<>>) = open
  <1>1. ASSUME NEW line, Len(line) = 0 PROVE OpenAfter(open, line) = open
    <2>1. Run(open, line)[0] = Start(open)
      BY <1>1, RunStart
    <2> QED
      BY <1>1, <2>1, OpenAfterIs DEF Start
  <1>2. Len(<<>>) = 0
    OBVIOUS
  <1> QED
    BY <1>1, <1>2

(* Nor do any number of them.                                              *)
LEMMA BlankOpen ==
  ASSUME NEW t, NEW n \in Nat, NEW v \in 0..n, \A l \in 0..v - 1 : t[l] = <<>>
  PROVE  \A l \in 0..v : OpenAt(t, n)[l] = <<>>
  <1> DEFINE S == {l \in Nat : l <= v => OpenAt(t, n)[l] = <<>>}
  <1>1. 0 \in S
    BY OpenAtStep
  <1>2. ASSUME NEW l \in Nat, l \in S PROVE l + 1 \in S
    <2> SUFFICES ASSUME l + 1 <= v PROVE OpenAt(t, n)[l + 1] = <<>>
      OBVIOUS
    <2>1. l \in 0..n - 1 /\ l \in 0..v - 1 /\ OpenAt(t, n)[l] = <<>> /\ t[l] = <<>>
      BY <1>2
    <2>2. OpenAt(t, n)[l + 1] = OpenAfter(<<>>, <<>>)
      BY <2>1, OpenAtStep
    <2>3. OpenAfter(<<>>, <<>>) = <<>>
      BY BlankLine
    <2> QED
      BY <2>2, <2>3
  <1> HIDE DEF S
  <1>3. Nat \subseteq S
    BY <1>1, <1>2, Induction
  <1> QED
    BY <1>3 DEF S

(* Nor is anything open anywhere in a text of such lines.                  *)
LEMMA BlankText ==
  ASSUME NEW n \in Nat
  PROVE  \A l \in 0..n : OpenAt([k \in 0..n - 1 |-> <<>>], n)[l] = <<>>
  <1>1. n \in 0..n /\ \A l \in 0..n - 1 : [k \in 0..n - 1 |-> <<>>][l] = <<>>
    OBVIOUS
  <1> QED
    BY <1>1, BlankOpen

(* The parser starts over with an empty cache: behind lines that opened    *)
(* nothing it knows what is open, wherever the text goes on.               *)
LEMMA RestartWhole ==
  ASSUME Whole, phase = "idle", text' \in [LineNos -> Lines], missing' \in Unavailable,
         valid' \in 0..LineCount, \A l \in 0..valid' - 1 : text'[l] = <<>>,
         invalidLine' \in 0..LineCount, first' = first,
         cache' = EmptyCache, try' \in {try, NoTry}, baseScheme' = Base,
         UNCHANGED <<phase, mode, cur, endl, gx, clear, endLine, parent, forward, matchend,
                     found, trace, frames, filled, breaking, handler>>
  PROVE  Whole'
  <1>1. /\ ~ try.on /\ LineCount \in Nat /\ Inv
    BY IdleKnown
  <1>2. ~ try'.on /\ try' \in [on : BOOLEAN, mismatch : BOOLEAN, stack : Seq(OpenFieldTypes),
           expected : Seq(OpenFieldTypes), result : {"none", "kept", "lost"}, sure : BOOLEAN]
    BY <1>1, NoTryType DEF Inv, ClientTypes, NoTry
  <1>3. Inv'
    <2>1. frames = <<>> /\ parent = Root /\ baseScheme = Base
      BY <1>1 DEF Inv, Positions
    <2>2. IsCache(cache)' /\ Place'
      BY <1>1, <2>1, EmptyIsCache DEF EmptyCache, Inv, Place
    <2>3. ClientTypes'
      BY <1>1, <1>2 DEF ClientTypes, Inv
    <2>4. RunTypes' /\ Positions'
      BY <1>1, <2>1 DEF Inv, RunTypes, Positions
    <2>5. OuterRestored' /\ Grafting' /\ Pending'
      BY <1>1, <2>1, EmptySeq DEF Inv, OuterRestored, Grafting, Pending
    <2> QED
      BY <2>2, <2>3, <2>4, <2>5 DEF Inv
  <1>4. OrderInv' /\ LevelsInv'
    BY EmptyOrder DEF OrderInv, Updating, Apart, LevelsInv, Running
  <1>5. Started(cache)'
    BY DEF Started, EmptyCache
  <1>6. RangeInv'
    BY <1>2 DEF RangeInv, TryRange
  <1>7. ReadInv' /\ PendInv' /\ TryInv'
    BY <1>2 DEF ReadInv, PendInv, TryInv, Tried
  <1>8. KnownInv'
    <2>1. \A l \in 0..valid' : Open'[l] = <<>>
      BY <1>1, BlankOpen DEF Open
    <2>2. ASSUME NEW l \in 0..valid'
          PROVE  Knows(EmptyCache, Covering(EmptyCache, l), <<>>)
      BY <1>1, EmptyKnows
    <2> QED
      BY <1>2, <2>1, <2>2 DEF KnownInv, Updating
  <1> QED
    BY <1>3, <1>4, <1>5, <1>6, <1>7, <1>8 DEF Whole, Ready
=============================================================================
