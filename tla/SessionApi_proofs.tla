------------------------- MODULE SessionApi_proofs -------------------------
(***************************************************************************)
(* Proofs that a session reports the parameters of its file types as the   *)
(* files and its client gave them, that the regions of a line paint every  *)
(* character as the colour scheme says, and that a line's pairs and        *)
(* outline are those of its matches, for every catalog, all files of the   *)
(* user that can be loaded and every sequence of methods.  The library is  *)
(* built by folds over files and their items, the styles by folds over     *)
(* theirs, a line by folds over blocks and symbols; the proofs follow each *)
(* fold element by element, the first beside the list of what the files    *)
(* have said so far, the others beside the blocks open so far.             *)
(***************************************************************************)
EXTENDS SessionApi, SequenceTheorems, WellFoundedInduction, TLAPS

(* Induction over a set of naturals: the library's theorem has an operator *)
(* as parameter.                                                           *)
LEMMA Induction ==
  ASSUME NEW S, 0 \in S, \A n \in Nat : n \in S => n + 1 \in S
  PROVE  Nat \subseteq S
  <1> DEFINE T == Nat \ S
  <1>1. ASSUME T # {} PROVE FALSE
    <2>1. PICK m \in T : \A k \in T : ~ (<<k, m>> \in OpToRel(<, Nat))
      BY <1>1, WFMin, NatLessThanWellFounded, Zenon
    <2>2. \A k \in T : <<k, m>> \in OpToRel(<, Nat) <=> k < m
      BY DEF OpToRel
    <2>3. \A k \in T : ~ (k < m)
      BY <2>1, <2>2, Zenon
    <2>4. m \in Nat /\ m # 0
      OBVIOUS
    <2>5. m - 1 \in Nat /\ m - 1 < m /\ (m - 1) + 1 = m
      BY <2>4
    <2>6. m - 1 \in S
      BY <2>3, <2>5
    <2> QED
      BY <2>5, <2>6
  <1> QED
    BY <1>1

-----------------------------------------------------------------------------
(* The folds of the model.  One lemma serves them all: a fold is known by  *)
(* its tag and what its step depends on.                                   *)

Covers(r, i) == r.start < i /\ (r.end = -1 \/ i <= r.end)

Op(k, a, b) ==
  CASE k.fold = "prototypes" -> AddPrototype(a, b)
    [] k.fold = "settings" -> UpdatePrototype(a, b)
    [] k.fold = "params" -> PrototypeParam(a, b)
    [] k.fold = "updates" -> UpdateParam(a, b)
    [] k.fold = "mounts" ->
         IF Mounted(b, k.given[b]) THEN Append(a, [option |-> b, path |-> k.given[b]]) ELSE a
    [] k.fold = "classes" -> IF Usable(b) THEN AddHrd(a, b) ELSE a
    [] k.fold = "folder" -> LoadHrd(a, b)
    [] k.fold = "files" -> IF b = "" THEN a ELSE LoadRegionMappings(a, HrdFiles[b])
    [] k.fold = "assigns" -> IF b.name = "" THEN a ELSE Put(a, b.name, b.define)
    [] k.fold = "resume" -> EnterScheme(a, 0, b.region)
    [] k.fold = "scan" -> Scan(a, b, k.tokens[b])
    [] k.fold = "harvest" -> IF Reported(b) THEN Append(a, b) ELSE a
    [] k.fold = "tokens" -> After(a, b)
    [] k.fold = "lines" -> FoldLeft(After, a, b)
    [] k.fold = "styles" -> IF b.region = NoRegion THEN a ELSE SchemeSays(k.mapper, b.region, a)
    [] k.fold = "shown" -> IF Reported(b) /\ Covers(b, k.at) THEN b.define ELSE a
    [] k.fold = "pairs" -> IF IsPair(k, b) THEN Append(a, b) ELSE a
    [] k.fold = "matches" -> IF k.hit[b] THEN Append(a, b) ELSE a
    [] k.fold = "joined" -> Joined(a, b)
    [] k.fold = "paint" -> IF b.start < k.at /\ (b.end = -1 \/ k.at <= b.end) THEN b.define ELSE a

Fold(k, base, els) == FoldLeft(LAMBDA a, b : Op(k, a, b), base, els)

(* Which fold is which.                                                    *)
LEMMA FoldsAre ==
  /\ \A l, els : LoadHrc(l, els) = Fold([fold |-> "prototypes"], l, els)
  /\ \A l, els : LoadHrcSettings(l, els) = Fold([fold |-> "settings"], l, els)
  /\ \A ps, els : FoldLeft(PrototypeParam, ps, els) = Fold([fold |-> "params"], ps, els)
  /\ \A ps, els : FoldLeft(UpdateParam, ps, els) = Fold([fold |-> "updates"], ps, els)
  /\ \A given : Mounts(given) = Fold([fold |-> "mounts", given |-> given], <<>>, Options)
  BY DEF LoadHrc, LoadHrcSettings, Mounts, FoldLeft, MapThenFoldSet, Fold, Op

FoldTo(k, base, els) ==
  LET f[s \in SUBSET DOMAIN els] ==
        IF s = {} THEN base ELSE Op(k, f[s \ {Max(s)}], els[Max(s)])
  IN  f

FoldsOn(f, k, base, els, n) ==
  f = [s \in SUBSET (1 .. n) |->
         IF s = {} THEN base ELSE Op(k, f[s \ {Max(s)}], els[Max(s)])]

(* Greatest of a set of numbers.                                           *)
LEMMA MaxIs == ASSUME NEW s \in SUBSET Int, NEW m \in s, \A i \in s : i <= m PROVE Max(s) = m
  <1>1. \E x \in s : \A y \in s : x >= y
    OBVIOUS
  <1>2. Max(s) \in s /\ \A y \in s : Max(s) >= y
    BY <1>1 DEF Max
  <1>3. Max(s) \in Int /\ m \in Int
    BY <1>2
  <1> QED
    BY <1>2, <1>3

LEMMA InInt == ASSUME NEW n \in Nat, NEW s \in SUBSET (1 .. n) PROVE s \in SUBSET Int
  OBVIOUS

(* A number above all of a set is its greatest.                            *)
LEMMA MaxOf ==
  ASSUME NEW n \in Nat, NEW s \in SUBSET (1 .. n + 1), n + 1 \in s
  PROVE  Max(s) = n + 1
  <1>1. n + 1 \in Nat /\ \A i \in s : i <= n + 1
    OBVIOUS
  <1>2. s \in SUBSET Int
    BY <1>1, InInt
  <1> QED
    BY <1>1, <1>2, MaxIs

(* The recursive function that FoldLeft chooses exists, for a list of any  *)
(* length.                                                                 *)
LEMMA FoldExists ==
  ASSUME NEW k, NEW base, NEW els
  PROVE  \A n \in Nat : \E f : FoldsOn(f, k, base, els, n)
  <1> DEFINE T == {n \in Nat : \E f : FoldsOn(f, k, base, els, n)}
  <1>1. 0 \in T
    <2> DEFINE f == [s \in SUBSET (1 .. 0) |-> base]
    <2>1. SUBSET (1 .. 0) = {{}}
      OBVIOUS
    <2>2. FoldsOn(f, k, base, els, 0)
      BY <2>1 DEF FoldsOn
    <2> HIDE DEF f
    <2> QED
      BY <2>2
  <1>2. ASSUME NEW n \in Nat, n \in T PROVE n + 1 \in T
    <2>1. PICK f : FoldsOn(f, k, base, els, n)
      BY <1>2
    <2> DEFINE g == [s \in SUBSET (1 .. n + 1) |->
                       IF n + 1 \in s THEN Op(k, f[s \ {n + 1}], els[n + 1]) ELSE f[s]]
    <2>2. \A s \in SUBSET (1 .. n) : s \in SUBSET (1 .. n + 1) /\ g[s] = f[s]
      OBVIOUS
    <2>3. \A s \in SUBSET (1 .. n + 1) :
            g[s] = IF s = {} THEN base ELSE Op(k, g[s \ {Max(s)}], els[Max(s)])
      <3> TAKE s \in SUBSET (1 .. n + 1)
      <3>1. CASE n + 1 \in s
        <4>1. Max(s) = n + 1 /\ s # {} /\ s \ {n + 1} \in SUBSET (1 .. n)
          BY <3>1, MaxOf
        <4>2. g[s] = Op(k, f[s \ {n + 1}], els[n + 1])
          BY <3>1
        <4> HIDE DEF g
        <4> QED
          BY <2>2, <4>1, <4>2
      <3>2. CASE n + 1 \notin s
        <4>1. s \in SUBSET (1 .. n)
          BY <3>2
        <4>2. f[s] = IF s = {} THEN base ELSE Op(k, f[s \ {Max(s)}], els[Max(s)])
          BY <2>1, <4>1 DEF FoldsOn
        <4>3. s \ {Max(s)} \in SUBSET (1 .. n)
          BY <4>1
        <4> HIDE DEF g
        <4> QED
          BY <2>2, <4>1, <4>2, <4>3
      <3> QED
        BY <3>1, <3>2
    <2>4. FoldsOn(g, k, base, els, n + 1)
      <3>1. g = [s \in SUBSET (1 .. n + 1) |-> g[s]]
        OBVIOUS
      <3> HIDE DEF g
      <3> QED
        BY <2>3, <3>1 DEF FoldsOn
    <2> HIDE DEF g
    <2> QED
      BY <2>4
  <1>3. Nat \subseteq T
    <2> HIDE DEF T
    <2> QED
      BY <1>1, <1>2, Induction
  <1> QED
    BY <1>3

(* A fold step by step.                                                    *)
Steps(g, k, base, els) ==
  g[0] = base /\ \A i \in 1 .. Len(els) : g[i] = Op(k, g[i - 1], els[i])

LEMMA UptoNumber ==
  ASSUME NEW n \in Nat, NEW i \in 1 .. n
  PROVE  Max(1 .. i) = i /\ 1 .. i # {} /\ (1 .. i) \ {i} = 1 .. i - 1
  <1>1. i \in Nat /\ i \in 1 .. i /\ \A j \in 1 .. i : j <= i
    OBVIOUS
  <1>2. 1 .. i \in SUBSET Int
    OBVIOUS
  <1>3. Max(1 .. i) = i
    BY <1>1, <1>2, MaxIs
  <1>4. (1 .. i) \ {i} = 1 .. i - 1
    OBVIOUS
  <1> QED
    BY <1>1, <1>3, <1>4

(* A fold is the last of its steps.                                        *)
LEMMA FoldIs ==
  ASSUME NEW k, NEW base, NEW V, NEW els \in Seq(V)
  PROVE  \E g : Steps(g, k, base, els) /\ Fold(k, base, els) = g[Len(els)]
  <1> DEFINE f == FoldTo(k, base, els)
             n == Len(els)
  <1>1. n \in Nat /\ DOMAIN els = 1 .. n
    OBVIOUS
  <1>2. Fold(k, base, els) = f[1 .. n]
    BY <1>1, Zenon DEF Fold, FoldTo, FoldLeft, MapThenFoldSet
  <1>3. FoldsOn(f, k, base, els, n)
    <2>1. PICK some : FoldsOn(some, k, base, els, n)
      BY <1>1, FoldExists
    <2>2. f = CHOOSE h : FoldsOn(h, k, base, els, n)
      BY <1>1, Zenon DEF FoldTo, FoldsOn
    <2> HIDE DEF f
    <2> QED
      BY <2>1, <2>2, Zenon
  <1> DEFINE g == [i \in 0 .. n |-> f[1 .. i]]
  <1> HIDE DEF f, n
  <1>4. \A i \in 0 .. n : 1 .. i \in SUBSET (1 .. n)
    BY <1>1
  <1>5. f[1 .. 0] = base
    BY <1>1, <1>3, <1>4 DEF FoldsOn
  <1>6. ASSUME NEW i \in 1 .. n PROVE f[1 .. i] = Op(k, f[1 .. i - 1], els[i])
    <2> HIDE DEF g
    <2>1. Max(1 .. i) = i /\ 1 .. i # {} /\ (1 .. i) \ {i} = 1 .. i - 1
      BY <1>1, UptoNumber
    <2>2. \A s \in SUBSET (1 .. n) :
            f[s] = IF s = {} THEN base ELSE Op(k, f[s \ {Max(s)}], els[Max(s)])
      BY <1>3 DEF FoldsOn
    <2>3. 1 .. i \in SUBSET (1 .. n)
      BY <1>4, <1>1
    <2>4. f[1 .. i] = IF 1 .. i = {} THEN base ELSE Op(k, f[(1 .. i) \ {Max(1 .. i)}], els[Max(1 .. i)])
      BY <2>2, <2>3
    <2> QED
      BY <2>1, <2>4
  <1>7. \A i \in 1 .. n : i \in 0 .. n /\ i - 1 \in 0 .. n
    BY <1>1
  <1>8. Steps(g, k, base, els) /\ Fold(k, base, els) = g[Len(els)]
    BY <1>1, <1>2, <1>5, <1>6, <1>7 DEF Steps, n
  <1> HIDE DEF g
  <1> QED
    BY <1>8

-----------------------------------------------------------------------------
(* The least and the greatest of some numbers.                             *)
LEMMA MinIs == ASSUME NEW s \in SUBSET Int, NEW m \in s, \A i \in s : m <= i PROVE Min(s) = m
  <1>1. \E x \in s : \A y \in s : x =< y
    OBVIOUS
  <1>2. Min(s) \in s /\ \A y \in s : Min(s) =< y
    BY <1>1 DEF Min
  <1>3. Min(s) \in Int /\ m \in Int
    BY <1>2
  <1> QED
    BY <1>2, <1>3

(* Arithmetic the provers find only by itself.                             *)
LEMMA NotBelow ==
  ASSUME NEW n \in Nat, NEW i \in 1 .. n, NEW j \in 1 .. n, i \notin 1 .. j - 1
  PROVE  j <= i
  OBVIOUS
LEMMA Above ==
  ASSUME NEW n \in Nat, NEW j \in 1 .. n, NEW i \in j + 1 .. n
  PROVE  i \in 1 .. n /\ ~(i <= j)
  OBVIOUS
(* A set of numbers up to n has a greatest.                                *)
LEMMA Greatest ==
  ASSUME NEW n \in Nat, NEW s \in SUBSET (1 .. n), s # {}
  PROVE  Max(s) \in s /\ \A i \in s : i <= Max(s)
  <1> DEFINE T == {m \in Nat : m <= n => \A r \in SUBSET (1 .. m) : r # {} =>
                                  \E j \in r : \A i \in r : i <= j}
  <1>1. 0 \in T
    <2>1. \A r \in SUBSET (1 .. 0) : r = {}
      OBVIOUS
    <2> QED
      BY <2>1
  <1>2. ASSUME NEW m \in Nat, m \in T PROVE m + 1 \in T
    <2> SUFFICES ASSUME m + 1 <= n, NEW r \in SUBSET (1 .. m + 1), r # {}
                 PROVE  \E j \in r : \A i \in r : i <= j
      OBVIOUS
    <2>1. CASE m + 1 \in r
      BY <2>1
    <2>2. CASE m + 1 \notin r
      <3>1. r \in SUBSET (1 .. m)
        BY <2>2
      <3> QED
        BY <1>2, <3>1
    <2> QED
      BY <2>1, <2>2
  <1>3. n \in T
    <2> HIDE DEF T
    <2> QED
      BY <1>1, <1>2, Induction
  <1>4. PICK j \in s : \A i \in s : i <= j
    BY <1>3
  <1> QED
    BY <1>4, MaxIs

-----------------------------------------------------------------------------
(* Parameters.  A prototype gives one its first value, settings the last.  *)

(* A parameter's fields.                                                   *)
Texts == {"value", "user", "text"}
IsParam(r) == Texts \subseteq DOMAIN r
IsFcn(f) == f = [x \in DOMAIN f |-> f[x]]
AreParams(ps) == IsFcn(ps) /\ \A p \in DOMAIN ps : IsParam(ps[p])

(* An item of a prototype, and one of settings, that is about a parameter. *)
Gives(c, p) == c.kind = "param" /\ c.name = p /\ p # "" /\ c.value # ""
Changes(c, p) == c.kind = "param" /\ c.name = p /\ p # ""

IsPut(g, f, key, v) ==
  /\ IsFcn(g) /\ DOMAIN g = DOMAIN f \cup {key} /\ g[key] = v
  /\ \A x \in DOMAIN f : x # key => g[x] = f[x]

LEMMA PutIs ==
  ASSUME NEW f, NEW key, NEW v
  PROVE  IsPut(Put(f, key, v), f, key, v)
  BY DEF Put, IsPut, IsFcn

AlikeParams(qs, ps) ==
  /\ AreParams(qs) /\ DOMAIN qs = DOMAIN ps
  /\ \A q \in DOMAIN ps : qs[q].value = ps[q].value /\ qs[q].user = ps[q].user

LEMMA SetTextIs ==
  ASSUME NEW ps, AreParams(ps), NEW p \in DOMAIN ps, NEW words
  PROVE  AlikeParams(SetText(ps, p, words), ps)
  BY DEF SetText, AlikeParams, AreParams, IsParam, Texts, IsFcn

WithParam(qs, ps, p, v) ==
  /\ AreParams(qs) /\ DOMAIN qs = DOMAIN ps \cup {p}
  /\ \A q \in DOMAIN ps : qs[q] = ps[q]
  /\ p \notin DOMAIN ps => qs[p].value = v /\ qs[p].user = NoText

LEMMA AddParamIs ==
  ASSUME NEW ps, AreParams(ps), NEW p, NEW v
  PROVE  WithParam(AddParam(ps, p, v), ps, p, v)
  <1> DEFINE r == [value |-> v, user |-> NoText, text |-> NoText]
  <1>1. CASE p \in DOMAIN ps
    <2>1. AddParam(ps, p, v) = ps
      BY <1>1 DEF AddParam
    <2> QED
      BY <1>1, <2>1 DEF WithParam
  <1>2. CASE p \notin DOMAIN ps
    <2>1. AddParam(ps, p, v) = Put(ps, p, r)
      BY <1>2 DEF AddParam
    <2>2. IsParam(r) /\ r.value = v /\ r.user = NoText
      BY DEF IsParam, Texts
    <2> HIDE DEF r
    <2> DEFINE qs == Put(ps, p, r)
    <2>3. IsPut(qs, ps, p, r)
      BY PutIs
    <2> HIDE DEF qs
    <2>4. \A x \in DOMAIN qs : IsParam(qs[x])
      BY <1>2, <2>2, <2>3 DEF AreParams, IsPut
    <2> QED
      BY <1>2, <2>1, <2>2, <2>3, <2>4 DEF AreParams, WithParam, qs, IsPut
  <1> QED
    BY <1>1, <1>2

(* The parameters the first n items give.                                  *)
Given(ps, items, n) ==
  /\ AreParams(ps)
  /\ \A p : p \in DOMAIN ps <=> \E j \in 1 .. n : Gives(items[j], p)
  /\ \A p \in DOMAIN ps :
       /\ ps[p].user = NoText
       /\ \E j \in 1 .. n : /\ Gives(items[j], p) /\ ps[p].value = items[j].value
                            /\ \A i \in 1 .. j - 1 : ~Gives(items[i], p)

(* One more item of a prototype.                                           *)
LEMMA GivenMore ==
  ASSUME NEW ps, NEW items, NEW n \in Nat, Given(ps, items, n)
  PROVE  Given(PrototypeParam(ps, items[n + 1]), items, n + 1)
  <1> DEFINE c == items[n + 1]
             p == c.name
             qs == AddParam(ps, p, c.value)
             rs == SetText(qs, p, c.text)
  <1>0. AreParams(ps)
    BY DEF Given
  <1>1. CASE c.kind # "param" \/ "" \in {c.name, c.value}
    <2>1. PrototypeParam(ps, c) = ps
      BY <1>1 DEF PrototypeParam
    <2>2. \A q : ~Gives(c, q)
      BY <1>1 DEF Gives
    <2>3. \A j : j \in 1 .. n + 1 <=> j \in 1 .. n \/ j = n + 1
      OBVIOUS
    <2> QED
      BY <2>1, <2>2, <2>3 DEF Given
  <1>2. CASE ~(c.kind # "param" \/ "" \in {c.name, c.value})
    <2>1. PrototypeParam(ps, c) = rs
      BY <1>2 DEF PrototypeParam
    <2>2. \A q : Gives(c, q) <=> q = p
      BY <1>2 DEF Gives
    <2>3. \A j : j \in 1 .. n + 1 <=> j \in 1 .. n \/ j = n + 1
      OBVIOUS
    <2>4. WithParam(qs, ps, p, c.value)
      BY <1>0, AddParamIs
    <2>5. AlikeParams(rs, qs)
      BY <2>4, SetTextIs DEF WithParam
    <2> HIDE DEF rs, qs
    <2>6. \A q : q \in DOMAIN rs <=> \E j \in 1 .. n + 1 : Gives(items[j], q)
      BY <2>2, <2>3, <2>4, <2>5 DEF Given, WithParam, AlikeParams
    <2>7. ASSUME NEW q \in DOMAIN rs
          PROVE  /\ rs[q].user = NoText
                 /\ \E j \in 1 .. n + 1 : /\ Gives(items[j], q) /\ rs[q].value = items[j].value
                                          /\ \A i \in 1 .. j - 1 : ~Gives(items[i], q)
      <3>1. CASE q \in DOMAIN ps
        BY <2>3, <2>4, <2>5, <3>1 DEF Given, WithParam, AlikeParams
      <3>2. CASE q \notin DOMAIN ps
        <4>1. q = p /\ rs[q].value = c.value /\ rs[q].user = NoText
          BY <2>4, <2>5, <3>2 DEF WithParam, AlikeParams
        <4>2. \A i \in 1 .. (n + 1) - 1 : ~Gives(items[i], q)
          BY <3>2 DEF Given
        <4>3. Gives(items[n + 1], q) /\ n + 1 \in 1 .. n + 1
          BY <2>2, <4>1
        <4> QED
          BY <4>1, <4>2, <4>3
      <3> QED
        BY <3>1, <3>2
    <2> QED
      BY <2>1, <2>5, <2>6, <2>7 DEF Given, AlikeParams
  <1> QED
    BY <1>1, <1>2

(* addPrototypeParameters: the first value a prototype names is the        *)
(* default.                                                                *)
LEMMA PrototypeGives ==
  ASSUME NEW V, NEW items \in Seq(V)
  PROVE  Given(FoldLeft(PrototypeParam, <<>>, items), items, Len(items))
  <1>1. PICK g : /\ Steps(g, [fold |-> "params"], <<>>, items)
                 /\ FoldLeft(PrototypeParam, <<>>, items) = g[Len(items)]
    <2> DEFINE k == [fold |-> "params"]
    <2>1. FoldLeft(PrototypeParam, <<>>, items) = Fold(k, <<>>, items)
      BY FoldsAre
    <2>2. \E g : Steps(g, k, <<>>, items) /\ Fold(k, <<>>, items) = g[Len(items)]
      BY FoldIs
    <2> QED
      BY <2>1, <2>2
  <1>2. \A a, b : Op([fold |-> "params"], a, b) = PrototypeParam(a, b)
    BY Zenon DEF Op
  <1>3. /\ g[0] = <<>>
        /\ \A i \in 1 .. Len(items) : g[i] = PrototypeParam(g[i - 1], items[i])
    BY <1>1, <1>2 DEF Steps
  <1> DEFINE T == {n \in Nat : n <= Len(items) => Given(g[n], items, n)}
  <1>4. 0 \in T
    <2>1. Given(<<>>, items, 0)
      BY DEF Given, AreParams, IsFcn
    <2> QED
      BY <1>3, <2>1
  <1>5. ASSUME NEW n \in Nat, n \in T PROVE n + 1 \in T
    <2> SUFFICES ASSUME n + 1 <= Len(items) PROVE Given(g[n + 1], items, n + 1)
      OBVIOUS
    <2>1. Len(items) \in Nat
      OBVIOUS
    <2>2. Given(g[n], items, n)
      BY <1>5, <2>1
    <2>3. g[n + 1] = PrototypeParam(g[n], items[n + 1])
      BY <1>3, <2>1
    <2> QED
      BY <2>2, <2>3, GivenMore
  <1>6. Len(items) \in T
    <2>1. Len(items) \in Nat
      OBVIOUS
    <2> HIDE DEF T
    <2> QED
      BY <1>4, <1>5, <2>1, Induction
  <1> QED
    BY <1>1, <1>6

(* Settings change a parameter, or add it.                                 *)
ChangedTo(qs, ps, p, v) ==
  /\ AreParams(qs) /\ DOMAIN qs = DOMAIN ps \cup {p}
  /\ qs[p].value = v /\ qs[p].user = IF p \in DOMAIN ps THEN ps[p].user ELSE NoText
  /\ \A q \in DOMAIN ps : q # p => qs[q].value = ps[q].value /\ qs[q].user = ps[q].user

LEMMA UpdateParamIs ==
  ASSUME NEW ps, AreParams(ps), NEW c, c.kind = "param", c.name # ""
  PROVE  ChangedTo(UpdateParam(ps, c), ps, c.name, c.value)
  <1> DEFINE p == c.name
             known == AddParam(ps, p, c.value)
             qs == [known EXCEPT ![p].value = c.value]
             rs == SetText(qs, p, c.text)
  <1>1. UpdateParam(ps, c) = rs
    BY DEF UpdateParam
  <1>2. WithParam(known, ps, p, c.value)
    BY AddParamIs
  <1> HIDE DEF known
  <1>3. /\ AreParams(qs) /\ DOMAIN qs = DOMAIN known /\ qs[p].value = c.value
        /\ qs[p].user = known[p].user
        /\ \A q \in DOMAIN known : q # p => qs[q] = known[q]
    BY <1>2 DEF WithParam, AreParams, IsParam, Texts, IsFcn
  <1> HIDE DEF qs
  <1>4. AlikeParams(rs, qs)
    BY <1>2, <1>3, SetTextIs DEF WithParam
  <1> HIDE DEF rs
  <1> HIDE DEF p
  <1>5. AreParams(rs) /\ DOMAIN rs = DOMAIN ps \cup {p} /\ p \in DOMAIN known
    BY <1>2, <1>3, <1>4 DEF WithParam, AlikeParams
  <1>6. rs[p].value = c.value /\ rs[p].user = known[p].user
    BY <1>3, <1>4, <1>5 DEF AlikeParams
  <1>7. known[p].user = IF p \in DOMAIN ps THEN ps[p].user ELSE NoText
    BY <1>2 DEF WithParam
  <1>8. \A q \in DOMAIN ps : q # p => rs[q].value = ps[q].value /\ rs[q].user = ps[q].user
    <2> TAKE q \in DOMAIN ps
    <2> HAVE q # p
    <2>1. q \in DOMAIN known /\ known[q] = ps[q]
      BY <1>2 DEF WithParam
    <2>2. q \in DOMAIN qs /\ qs[q] = known[q]
      BY <1>3, <2>1
    <2> QED
      BY <1>4, <2>1, <2>2 DEF AlikeParams
  <1>9. ChangedTo(rs, ps, p, c.value)
    BY <1>5, <1>6, <1>7, <1>8 DEF ChangedTo
  <1> QED
    BY <1>1, <1>9 DEF p

(* The parameters after the first n items of settings.                     *)
Changed(ps, base, items, n) ==
  /\ AreParams(ps)
  /\ \A p : p \in DOMAIN ps <=> p \in DOMAIN base \/ \E j \in 1 .. n : Changes(items[j], p)
  /\ \A p \in DOMAIN ps :
       /\ ps[p].user = IF p \in DOMAIN base THEN base[p].user ELSE NoText
       /\ (\A j \in 1 .. n : ~Changes(items[j], p)) => ps[p].value = base[p].value
       /\ \A j \in 1 .. n :
            Changes(items[j], p) /\ (\A i \in j + 1 .. n : ~Changes(items[i], p))
              => ps[p].value = items[j].value

LEMMA ChangedMore ==
  ASSUME NEW ps, NEW base, NEW items, NEW n \in Nat, Changed(ps, base, items, n)
  PROVE  Changed(UpdateParam(ps, items[n + 1]), base, items, n + 1)
  <1> DEFINE c == items[n + 1]
             p == c.name
             qs == UpdateParam(ps, c)
  <1>0. AreParams(ps) /\ \A j : j \in 1 .. n + 1 <=> j \in 1 .. n \/ j = n + 1
    BY DEF Changed
  <1>1. CASE c.kind # "param" \/ p = ""
    <2>1. qs = ps
      BY <1>1 DEF UpdateParam
    <2>2. \A q : ~Changes(c, q)
      BY <1>1 DEF Changes
    <2>3. \A j \in 1 .. n + 1 : \A q : Changes(items[j], q) => j \in 1 .. n
      BY <1>0, <2>2
    <2>4. \A j \in 1 .. n : \A i \in j + 1 .. n : i \in j + 1 .. n + 1
      OBVIOUS
    <2>5. \A q : q \in DOMAIN ps <=> q \in DOMAIN base \/ \E j \in 1 .. n + 1 : Changes(items[j], q)
      BY <1>0, <2>3 DEF Changed
    <2>6. ASSUME NEW q \in DOMAIN ps
          PROVE  /\ ps[q].user = IF q \in DOMAIN base THEN base[q].user ELSE NoText
                 /\ (\A j \in 1 .. n + 1 : ~Changes(items[j], q)) => ps[q].value = base[q].value
                 /\ \A j \in 1 .. n + 1 :
                      Changes(items[j], q) /\ (\A i \in j + 1 .. n + 1 : ~Changes(items[i], q))
                        => ps[q].value = items[j].value
      BY <1>0, <2>3, <2>4 DEF Changed
    <2>7. Changed(ps, base, items, n + 1)
      BY <1>0, <2>5, <2>6 DEF Changed
    <2> QED
      BY <2>1, <2>7
  <1>2. CASE ~(c.kind # "param" \/ p = "")
    <2>1. ChangedTo(qs, ps, p, c.value)
      BY <1>0, <1>2, UpdateParamIs
    <2>2. \A q : Changes(c, q) <=> q = p
      BY <1>2 DEF Changes
    <2> HIDE DEF qs
    <2>3. \A q : q \in DOMAIN qs <=> q \in DOMAIN base \/ \E j \in 1 .. n + 1 : Changes(items[j], q)
      BY <1>0, <2>1, <2>2 DEF Changed, ChangedTo
    <2>4. ASSUME NEW q \in DOMAIN qs
          PROVE  /\ qs[q].user = IF q \in DOMAIN base THEN base[q].user ELSE NoText
                 /\ (\A j \in 1 .. n + 1 : ~Changes(items[j], q)) => qs[q].value = base[q].value
                 /\ \A j \in 1 .. n + 1 :
                      Changes(items[j], q) /\ (\A i \in j + 1 .. n + 1 : ~Changes(items[i], q))
                        => qs[q].value = items[j].value
      <3>1. CASE q = p
        <4>1. qs[q].user = IF q \in DOMAIN base THEN base[q].user ELSE NoText
          BY <2>1, <3>1 DEF Changed, ChangedTo
        <4>2. Changes(items[n + 1], q) /\ n + 1 \in 1 .. n + 1
          BY <2>2, <3>1
        <4>3. ASSUME NEW j \in 1 .. n + 1, \A i \in j + 1 .. n + 1 : ~Changes(items[i], q)
              PROVE  j = n + 1
          BY <4>2, <4>3
        <4>4. qs[q].value = items[n + 1].value
          BY <2>1, <3>1 DEF ChangedTo
        <4> QED
          BY <4>1, <4>2, <4>3, <4>4
      <3>2. CASE q # p
        <4>1. q \in DOMAIN ps /\ qs[q].value = ps[q].value /\ qs[q].user = ps[q].user
          BY <2>1, <3>2 DEF ChangedTo
        <4>2. ~Changes(items[n + 1], q)
          BY <2>2, <3>2
        <4>3. \A j \in 1 .. n : j \in 1 .. n + 1 /\ \A i \in j + 1 .. n : i \in j + 1 .. n + 1
          OBVIOUS
        <4> QED
          BY <1>0, <4>1, <4>2, <4>3 DEF Changed
      <3> QED
        BY <3>1, <3>2
    <2>5. AreParams(qs)
      BY <2>1 DEF ChangedTo
    <2>6. Changed(qs, base, items, n + 1)
      BY <2>3, <2>4, <2>5 DEF Changed
    <2> QED
      BY <2>6 DEF qs
  <1> QED
    BY <1>1, <1>2

(* updatePrototypeParams: the last value settings name is the default.     *)
LEMMA SettingsChange ==
  ASSUME NEW V, NEW items \in Seq(V), NEW base, AreParams(base)
  PROVE  Changed(FoldLeft(UpdateParam, base, items), base, items, Len(items))
  <1>1. PICK g : /\ Steps(g, [fold |-> "updates"], base, items)
                 /\ FoldLeft(UpdateParam, base, items) = g[Len(items)]
    <2> DEFINE k == [fold |-> "updates"]
    <2>1. FoldLeft(UpdateParam, base, items) = Fold(k, base, items)
      BY FoldsAre
    <2>2. \E g : Steps(g, k, base, items) /\ Fold(k, base, items) = g[Len(items)]
      BY FoldIs
    <2> QED
      BY <2>1, <2>2
  <1>2. \A a, b : Op([fold |-> "updates"], a, b) = UpdateParam(a, b)
    BY Zenon DEF Op
  <1>3. /\ g[0] = base
        /\ \A i \in 1 .. Len(items) : g[i] = UpdateParam(g[i - 1], items[i])
    BY <1>1, <1>2 DEF Steps
  <1> DEFINE T == {n \in Nat : n <= Len(items) => Changed(g[n], base, items, n)}
  <1>4. 0 \in T
    <2>1. Changed(base, base, items, 0)
      BY DEF Changed
    <2> QED
      BY <1>3, <2>1
  <1>5. ASSUME NEW n \in Nat, n \in T PROVE n + 1 \in T
    <2> SUFFICES ASSUME n + 1 <= Len(items) PROVE Changed(g[n + 1], base, items, n + 1)
      OBVIOUS
    <2>1. Len(items) \in Nat
      OBVIOUS
    <2>2. Changed(g[n], base, items, n)
      BY <1>5, <2>1
    <2>3. g[n + 1] = UpdateParam(g[n], items[n + 1])
      BY <1>3, <2>1
    <2> QED
      BY <2>2, <2>3, ChangedMore
  <1>6. Len(items) \in T
    <2>1. Len(items) \in Nat
      OBVIOUS
    <2> HIDE DEF T
    <2> QED
      BY <1>4, <1>5, <2>1, Induction
  <1> QED
    BY <1>1, <1>6

-----------------------------------------------------------------------------
(* Lists: sequences of whatever they hold.                                 *)
LEMMA ListIs ==
  ASSUME NEW s, IsList(s)
  PROVE  /\ Len(s) \in Nat /\ DOMAIN s = 1 .. Len(s)
         /\ s \in Seq({s[i] : i \in DOMAIN s})
  BY DEF IsList

LEMMA ListMore ==
  ASSUME NEW s, IsList(s), NEW x
  PROVE  /\ IsList(Append(s, x)) /\ Len(Append(s, x)) = Len(s) + 1
         /\ Append(s, x)[Len(s) + 1] = x
         /\ \A i \in 1 .. Len(s) : Append(s, x)[i] = s[i]
  <1> DEFINE V == {s[i] : i \in DOMAIN s} \cup {x}
             t == Append(s, x)
  <1>1. s \in Seq({s[i] : i \in DOMAIN s}) /\ Len(s) \in Nat /\ DOMAIN s = 1 .. Len(s)
    BY ListIs
  <1>2. s \in Seq(V)
    <2>1. \A i \in 1 .. Len(s) : s[i] \in V
      BY <1>1
    <2> HIDE DEF V
    <2> QED
      BY <1>1, <2>1
  <1>3. x \in V
    OBVIOUS
  <1> HIDE DEF V
  <1>4. /\ t \in Seq(V) /\ Len(t) = Len(s) + 1 /\ t[Len(s) + 1] = x
        /\ \A i \in 1 .. Len(s) : t[i] = s[i]
    BY <1>2, <1>3
  <1> HIDE DEF t
  <1>5. IsList(t)
    <2>1. DOMAIN t = 1 .. Len(t)
      BY <1>4
    <2>2. \A i \in 1 .. Len(t) : t[i] \in {t[j] : j \in DOMAIN t}
      BY <2>1
    <2> DEFINE W == {t[j] : j \in DOMAIN t}
    <2>3. \A i \in 1 .. Len(t) : t[i] \in W
      BY <2>2
    <2> HIDE DEF W
    <2>4. t \in Seq(W)
      BY <1>4, <2>3
    <2> QED
      BY <2>4 DEF IsList, W
  <1> QED
    BY <1>4, <1>5 DEF t

-----------------------------------------------------------------------------
(* What some of the files say, said being the list of them all.            *)

About(log, kind, t) == {i \in DOMAIN log : log[i].kind = kind /\ log[i].of.name = t}
LaterSettings(log, t, p) ==
  {i \in About(log, "settings", t) : i > Max(About(log, "hrc", t)) /\ Items(log[i], p) # {}}
ValueAt(saying, i) == saying.of.items[i].value

Says(log, t, p) ==
  LET proto == Max(About(log, "hrc", t))
      later == LaterSettings(log, t, p)
  IN  IF "" \in {t, p} \/ About(log, "hrc", t) = {} THEN NoText
      ELSE IF later # {} THEN ValueAt(log[Max(later)], Max(Items(log[Max(later)], p)))
      ELSE IF log[proto].of.package \/ Items(log[proto], p) = {} THEN NoText
      ELSE ValueAt(log[proto], Min(Items(log[proto], p)))

(* The words of the property are these.                                    *)
LEMMA SaysIs == \A t, p : FilesSay(t, p) = Says(said, t, p)
  BY Zenon DEF FilesSay, Says, About, LaterSettings, ValueAt

(* A log of what was said.                                                 *)
IsSaying(s) ==
  /\ s.kind \in {"hrc", "settings"} /\ IsList(s.of.items)
  /\ \A j \in DOMAIN s.of.items : s.of.items[j].kind = "param" => s.of.items[j].value # NoText

IsLog(log) == IsList(log) /\ \A i \in DOMAIN log : IsSaying(log[i])

LEMMA LogMore ==
  ASSUME NEW log, IsLog(log), NEW x, IsSaying(x)
  PROVE  IsLog(Append(log, x))
  <1> DEFINE n == Len(log)
             l == Append(log, x)
  <1>1. n \in Nat /\ DOMAIN log = 1 .. n
    BY ListIs DEF IsLog
  <1>2. IsList(l) /\ Len(l) = n + 1 /\ l[n + 1] = x /\ \A i \in 1 .. n : l[i] = log[i]
    BY ListMore DEF IsLog
  <1> HIDE DEF l, n
  <1>3. DOMAIN l = 1 .. n + 1
    BY <1>2, ListIs
  <1>4. \A i \in 1 .. n + 1 : IsSaying(l[i])
    <2> TAKE i \in 1 .. n + 1
    <2>1. i = n + 1 \/ i \in 1 .. n
      BY <1>1
    <2> QED
      BY <1>1, <1>2, <2>1 DEF IsLog
  <1> QED
    BY <1>2, <1>3, <1>4 DEF IsLog, l

(* A log and one more saying.                                              *)
Extends(l, log, x) ==
  /\ Len(log) \in Nat /\ DOMAIN log = 1 .. Len(log) /\ DOMAIN l = 1 .. Len(log) + 1
  /\ l[Len(log) + 1] = x /\ \A i \in 1 .. Len(log) : l[i] = log[i]

LEMMA AppendExtends ==
  ASSUME NEW log, IsLog(log), NEW x
  PROVE  Extends(Append(log, x), log, x)
  <1>1. Len(log) \in Nat /\ DOMAIN log = 1 .. Len(log)
    BY ListIs DEF IsLog
  <1>2. /\ IsList(Append(log, x)) /\ Len(Append(log, x)) = Len(log) + 1
        /\ Append(log, x)[Len(log) + 1] = x
        /\ \A i \in 1 .. Len(log) : Append(log, x)[i] = log[i]
    BY ListMore DEF IsLog
  <1>3. DOMAIN Append(log, x) = 1 .. Len(Append(log, x))
    BY <1>2, ListIs
  <1> QED
    BY <1>1, <1>2, <1>3 DEF Extends

(* What it changes of what is said about a type.                           *)
AboutIs(l, log, x, kind, t) ==
  /\ About(log, kind, t) \in SUBSET (1 .. Len(log))
  /\ x.kind = kind /\ x.of.name = t =>
       About(l, kind, t) = About(log, kind, t) \cup {Len(log) + 1}
  /\ ~(x.kind = kind /\ x.of.name = t) => About(l, kind, t) = About(log, kind, t)

LEMMA AboutMore ==
  ASSUME NEW l, NEW log, NEW x, Extends(l, log, x), NEW kind, NEW t
  PROVE  AboutIs(l, log, x, kind, t)
  <1> DEFINE n == Len(log)
  <1>1. \A i : i \in 1 .. n + 1 <=> i \in 1 .. n \/ i = n + 1
    BY DEF Extends
  <1> QED
    BY <1>1 DEF About, Extends, AboutIs

LEMMA BothAbout ==
  ASSUME NEW l, NEW log, NEW x, Extends(l, log, x), NEW t
  PROVE  AboutIs(l, log, x, "hrc", t) /\ AboutIs(l, log, x, "settings", t)
  <1>1. \A kind : AboutIs(l, log, x, kind, t)
    BY AboutMore
  <1> QED
    BY <1>1

(* A file that does not name the parameter changes nothing.                *)
LEMMA SaysSame ==
  ASSUME NEW log, NEW x, NEW l, Extends(l, log, x), NEW t, NEW p,
         x.of.name # t \/ (x.kind = "settings" /\ Items(x, p) = {})
  PROVE  Says(l, t, p) = Says(log, t, p)
  <1> DEFINE n == Len(log)
             A == About(log, "hrc", t)
             B == About(log, "settings", t)
             L == LaterSettings(log, t, p)
  <1>1. n \in Nat /\ l[n + 1] = x /\ \A i \in 1 .. n : l[i] = log[i]
    BY DEF Extends
  <1>a. AboutIs(l, log, x, "hrc", t) /\ AboutIs(l, log, x, "settings", t)
    BY BothAbout
  <1>2. A \in SUBSET (1 .. n) /\ B \in SUBSET (1 .. n)
    BY <1>a DEF AboutIs
  <1>3. About(l, "hrc", t) = A
    <2>1. ~(x.kind = "hrc" /\ x.of.name = t)
      OBVIOUS
    <2> QED
      BY <2>1, <1>a DEF AboutIs
  <1>4. L \in SUBSET (1 .. n)
    BY <1>2 DEF LaterSettings
  <1>5. LaterSettings(l, t, p) = L
    <2>1. CASE x.of.name # t
      <3>1. About(l, "settings", t) = B
        BY <2>1, <1>a DEF AboutIs
      <3> HIDE DEF A, B
      <3>2. \A i \in B : l[i] = log[i]
        BY <1>1, <1>2
      <3> QED
        BY <1>3, <3>1, <3>2 DEF LaterSettings, A, B
    <2>2. CASE x.of.name = t
      <3>0. x.kind = "settings" /\ Items(x, p) = {}
        BY <2>2
      <3>1. About(l, "settings", t) = B \cup {n + 1}
        BY <1>a, <2>2, <3>0 DEF AboutIs
      <3>3. Items(l[n + 1], p) = {}
        BY <1>1, <3>0
      <3> HIDE DEF A, B
      <3>2. \A i \in B : l[i] = log[i]
        BY <1>1, <1>2
      <3> QED
        BY <1>3, <3>1, <3>2, <3>3 DEF LaterSettings, A, B
    <2> QED
      BY <2>1, <2>2
  <1> HIDE DEF L, A
  <1>6. L # {} => Max(L) \in 1 .. n
    BY <1>1, <1>4, Greatest
  <1>7. A # {} => Max(A) \in 1 .. n
    BY <1>1, <1>2, Greatest
  <1>8. CASE A = {}
    BY <1>3, <1>8 DEF Says, A
  <1>9. CASE A # {} /\ L # {}
    <2>1. l[Max(L)] = log[Max(L)]
      BY <1>1, <1>6, <1>9
    <2> QED
      BY <1>3, <1>5, <1>9, <2>1 DEF Says, A, L
  <1>10. CASE A # {} /\ L = {}
    <2>1. l[Max(A)] = log[Max(A)]
      BY <1>1, <1>7, <1>10
    <2> QED
      BY <1>3, <1>5, <1>10, <2>1 DEF Says, A, L
  <1> QED
    BY <1>8, <1>9, <1>10

LEMMA MaxWith ==
  ASSUME NEW n \in Nat, NEW s \in SUBSET (1 .. n)
  PROVE  Max(s \cup {n + 1}) = n + 1
  <1>1. s \cup {n + 1} \in SUBSET (1 .. n + 1)
    OBVIOUS
  <1> QED
    BY <1>1, MaxOf

LEMMA NextAbove == ASSUME NEW n \in Nat, NEW m \in 1 .. n PROVE n + 1 > m /\ ~(m > n + 1)
  OBVIOUS

LEMMA NextWithin == ASSUME NEW n \in Nat PROVE 1 .. n \in SUBSET (1 .. n + 1) /\ n + 1 \in 1 .. n + 1
  OBVIOUS

(* A prototype is the last word until there are settings after it.         *)
LEMMA SaysPrototype ==
  ASSUME NEW log, NEW x, NEW l, Extends(l, log, x), x.kind = "hrc",
         NEW t, t = x.of.name, NEW p, "" \notin {t, p}
  PROVE  Says(l, t, p) =
           IF x.of.package \/ Items(x, p) = {} THEN NoText ELSE ValueAt(x, Min(Items(x, p)))
  <1> DEFINE n == Len(log)
  <1>1. n \in Nat /\ l[n + 1] = x
    BY DEF Extends
  <1>a. AboutIs(l, log, x, "hrc", t) /\ AboutIs(l, log, x, "settings", t)
    BY BothAbout
  <1>b. About(l, "hrc", t) = About(log, "hrc", t) \cup {n + 1}
        /\ About(log, "hrc", t) \in SUBSET (1 .. n)
    BY <1>a DEF AboutIs
  <1>2. Max(About(l, "hrc", t)) = n + 1 /\ About(l, "hrc", t) # {}
    <2> HIDE DEF n
    <2> QED
      BY <1>1, <1>b, MaxWith
  <1>3. About(l, "settings", t) \in SUBSET (1 .. n)
    <2>1. ~(x.kind = "settings")
      OBVIOUS
    <2> QED
      BY <1>a, <2>1 DEF AboutIs
  <1>4. LaterSettings(l, t, p) = {}
    <2> HIDE DEF n
    <2>1. \A i \in About(l, "settings", t) : ~(i > n + 1)
      <3> SUFFICES ASSUME NEW i \in About(l, "settings", t) PROVE ~(i > n + 1)
        OBVIOUS
      <3>1. i \in 1 .. n
        BY <1>3
      <3> QED
        BY <1>1, <3>1, NextAbove
    <2> QED
      BY <1>2, <2>1 DEF LaterSettings
  <1> QED
    BY <1>1, <1>2, <1>4 DEF Says

(* Settings that name the parameter of a type that is there are the last   *)
(* word.                                                                   *)
SettingsFor(l, log, x, t, p) ==
  /\ Extends(l, log, x) /\ x.kind = "settings" /\ x.of.name = t /\ t # "" /\ p # ""
  /\ Items(x, p) # {} /\ About(log, "hrc", t) # {}

LEMMA SaysSettings ==
  ASSUME NEW log, NEW x, NEW l, NEW t, NEW p, SettingsFor(l, log, x, t, p)
  PROVE  Says(l, t, p) = ValueAt(x, Max(Items(x, p)))
  <1> DEFINE n == Len(log)
             A == About(log, "hrc", t)
             L == LaterSettings(l, t, p)
  <1>0. /\ Extends(l, log, x) /\ x.kind = "settings" /\ x.of.name = t /\ t # "" /\ p # ""
        /\ Items(x, p) # {} /\ About(log, "hrc", t) # {}
    BY DEF SettingsFor
  <1>1. n \in Nat /\ l[n + 1] = x
    BY <1>0 DEF Extends
  <1>a. AboutIs(l, log, x, "hrc", t) /\ AboutIs(l, log, x, "settings", t)
    BY <1>0, BothAbout
  <1>2. About(l, "hrc", t) = A /\ A \in SUBSET (1 .. n) /\ A # {}
    <2>1. ~(x.kind = "hrc")
      BY <1>0
    <2> QED
      BY <1>0, <1>a, <2>1 DEF AboutIs
  <1>3. /\ About(l, "settings", t) = About(log, "settings", t) \cup {n + 1}
        /\ About(log, "settings", t) \in SUBSET (1 .. n)
    BY <1>0, <1>a DEF AboutIs
  <1>4. Max(A) \in 1 .. n
    <2> HIDE DEF A, n
    <2> QED
      BY <1>1, <1>2, Greatest
  <1>5. n + 1 > Max(A)
    <2> HIDE DEF A, n
    <2> QED
      BY <1>1, <1>4, NextAbove
  <1> HIDE DEF n, A
  <1>6. n + 1 \in L /\ L \in SUBSET (1 .. n + 1)
    <2>1. n + 1 \in About(l, "settings", t)
      BY <1>3
    <2>3. 1 .. n \in SUBSET (1 .. n + 1) /\ n + 1 \in 1 .. n + 1
      BY <1>1, NextWithin
    <2>4. About(l, "settings", t) \in SUBSET (1 .. n + 1)
      BY <1>3, <2>3
    <2>2. n + 1 > Max(About(l, "hrc", t)) /\ Items(l[n + 1], p) # {}
      BY <1>0, <1>1, <1>2, <1>5
    <2> QED
      BY <2>1, <2>2, <2>4 DEF LaterSettings
  <1> HIDE DEF L
  <1>7. Max(L) = n + 1
    BY <1>1, <1>6, MaxOf
  <1> QED
    BY <1>0, <1>1, <1>2, <1>6, <1>7 DEF Says, L

LEMMA SaysNothing ==
  ASSUME NEW log, NEW t, NEW p, "" \in {t, p} \/ About(log, "hrc", t) = {}
  PROVE  Says(log, t, p) = NoText
  BY DEF Says

-----------------------------------------------------------------------------
(* The library the files make.                                             *)
IsLibrary(l) ==
  /\ {"order", "types", "loaded", "compiled"} \subseteq DOMAIN l /\ IsFcn(l.types)
  /\ \A t \in DOMAIN l.types : "params" \in DOMAIN l.types[t] /\ AreParams(l.types[t].params)

(* A parameter is there if the files give it a value, and has that value.  *)
AgreeOn(params, log, t, p) ==
  /\ p \in DOMAIN params <=> Says(log, t, p) # NoText
  /\ p \in DOMAIN params => params[p].user = NoText /\ params[p].value = Says(log, t, p)

(* The library is what the files say.                                      *)
FilesAgree(l, log) ==
  /\ IsLibrary(l) /\ IsLog(log)
  /\ \A t : t \in DOMAIN l.types <=> t # "" /\ About(log, "hrc", t) # {}
  /\ \A t \in DOMAIN l.types : \A p : AgreeOn(l.types[t].params, log, t, p)

-----------------------------------------------------------------------------
(* One prototype. *)

(* What a prototype gives a parameter is what it says of it.               *)
LEMMA ItemsOfPrototype ==
  ASSUME NEW x, IsSaying(x), x.kind = "hrc", NEW ps, Given(ps, x.of.items, Len(x.of.items)),
         NEW p, p # ""
  PROVE  /\ p \in DOMAIN ps <=> Items(x, p) # {}
         /\ p \in DOMAIN ps =>
              /\ ps[p].user = NoText /\ ps[p].value = ValueAt(x, Min(Items(x, p)))
              /\ ps[p].value # NoText
  <1> DEFINE items == x.of.items
             n == Len(items)
  <1>1. n \in Nat /\ DOMAIN items = 1 .. n
    BY ListIs DEF IsSaying
  <1>2. Items(x, p) = {j \in 1 .. n : Gives(items[j], p)}
    BY <1>1 DEF Items, Gives
  <1>3. p \in DOMAIN ps <=> Items(x, p) # {}
    <2> HIDE DEF items, n
    <2>1. p \in DOMAIN ps <=> \E j \in 1 .. n : Gives(items[j], p)
      BY DEF Given, n, items
    <2> QED
      BY <1>2, <2>1
  <1>4. ASSUME p \in DOMAIN ps
        PROVE  /\ ps[p].user = NoText /\ ps[p].value = ValueAt(x, Min(Items(x, p)))
               /\ ps[p].value # NoText
    <2>1. PICK j \in 1 .. n : /\ Gives(items[j], p) /\ ps[p].value = items[j].value
                              /\ \A i \in 1 .. j - 1 : ~Gives(items[i], p)
      BY <1>4 DEF Given
    <2>2. Min(Items(x, p)) = j
      <3> DEFINE S == Items(x, p)
      <3>1. S \in SUBSET (1 .. n) /\ j \in S
        BY <1>2, <2>1
      <3>2. \A i \in S : i \in 1 .. n /\ i \notin 1 .. j - 1
        BY <1>2, <2>1
      <3> HIDE DEF S, n
      <3>3. \A i \in S : j <= i
        <4> SUFFICES ASSUME NEW i \in S PROVE j <= i
          OBVIOUS
        <4> QED
          BY <1>1, <3>2, NotBelow
      <3>4. S \in SUBSET Int
        BY <1>1, <3>1, InInt
      <3> QED
        BY <3>1, <3>3, <3>4, MinIs DEF S
    <2>3. ps[p].user = NoText
      BY <1>4 DEF Given
    <2>4. items[j].value # NoText
      BY <1>1, <2>1 DEF IsSaying, Gives
    <2> QED
      BY <2>1, <2>2, <2>3, <2>4 DEF ValueAt
  <1> QED
    BY <1>3, <1>4

(* Another type or package in the table, by its parameters.                *)
Retyped(m, l, t, ps) ==
  /\ IsLibrary(m) /\ DOMAIN m.types = DOMAIN l.types \cup {t} /\ m.types[t].params = ps
  /\ \A u \in DOMAIN l.types : u # t => m.types[u].params = l.types[u].params

LEMMA AddPrototypeIs ==
  ASSUME NEW l, IsLibrary(l), NEW e, e.name # "", AreParams(PrototypeBlock(e).params)
  PROVE  Retyped(AddPrototype(l, e), l, e.name, PrototypeBlock(e).params)
  <1> DEFINE t == e.name
             left == UnloadFileType(l, t)
             b == PrototypeBlock(e)
             m == AddPrototype(l, e)
  <1>1. "params" \in DOMAIN b
    BY DEF PrototypeBlock
  <1>2. /\ {"order", "types", "loaded", "compiled"} \subseteq DOMAIN left
        /\ DOMAIN left.types = DOMAIN l.types \ {t}
        /\ \A u \in DOMAIN l.types : u # t => left.types[u] = l.types[u]
    BY DEF UnloadFileType, Restrict, IsLibrary
  <1> HIDE DEF left, b
  <1>3. /\ m.types = Put(left.types, t, b)
        /\ {"order", "types", "loaded", "compiled"} \subseteq DOMAIN m
    BY <1>2 DEF AddPrototype, left, b
  <1> HIDE DEF m
  <1>4. IsPut(m.types, left.types, t, b)
    BY <1>3, PutIs
  <1> HIDE DEF t
  <1>5. DOMAIN m.types = DOMAIN l.types \cup {t} /\ m.types[t] = b
    BY <1>2, <1>4 DEF IsPut
  <1>6. \A u \in DOMAIN l.types : u # t => m.types[u] = l.types[u]
    BY <1>2, <1>4 DEF IsPut
  <1>7. IsLibrary(m)
    <2>1. \A u \in DOMAIN m.types : "params" \in DOMAIN m.types[u] /\ AreParams(m.types[u].params)
      <3> TAKE u \in DOMAIN m.types
      <3>1. CASE u = t
        BY <1>1, <1>5, <3>1 DEF b
      <3>2. CASE u # t
        BY <1>5, <1>6, <3>2 DEF IsLibrary
      <3> QED
        BY <3>1, <3>2
    <2> QED
      BY <1>3, <1>4, <2>1 DEF IsLibrary, IsPut
  <1>8. Retyped(m, l, t, b.params)
    BY <1>5, <1>6, <1>7 DEF Retyped
  <1> QED
    BY <1>8 DEF m, t, b

(* A package has no parameters, another prototype those it gives.          *)
LEMMA BlockGives ==
  ASSUME NEW x, IsSaying(x)
  PROVE  LET ps == PrototypeBlock(x.of).params
         IN  /\ AreParams(ps)
             /\ x.of.package => DOMAIN ps = {}
             /\ ~x.of.package => Given(ps, x.of.items, Len(x.of.items))
  <1> DEFINE e == x.of
             items == IF e.package THEN <<>> ELSE e.items
             ps == FoldLeft(PrototypeParam, <<>>, items)
  <1>1. PrototypeBlock(e).params = ps
    BY DEF PrototypeBlock
  <1>2. items \in Seq({items[i] : i \in DOMAIN items})
    <2>1. CASE e.package
      <3>1. items = <<>>
        BY <2>1
      <3> HIDE DEF items
      <3> QED
        BY <3>1
    <2>2. CASE ~e.package
      <3>1. items = e.items
        BY <2>2
      <3> HIDE DEF items
      <3> QED
        BY <3>1 DEF IsSaying, IsList
    <2> QED
      BY <2>1, <2>2
  <1> HIDE DEF ps
  <1>3. Given(ps, items, Len(items))
    <2> DEFINE V == {items[i] : i \in DOMAIN items}
    <2>1. items \in Seq(V)
      BY <1>2
    <2> HIDE DEF V, items
    <2> QED
      BY <2>1, PrototypeGives DEF ps
  <1>4. AreParams(ps)
    BY <1>3 DEF Given
  <1>5. e.package => DOMAIN ps = {}
    <2> SUFFICES ASSUME e.package PROVE DOMAIN ps = {}
      OBVIOUS
    <2>1. items = <<>>
      OBVIOUS
    <2> HIDE DEF items
    <2>2. Given(ps, <<>>, 0)
      BY <1>3, <2>1
    <2> QED
      BY <2>2 DEF Given
  <1>6. ~e.package => Given(ps, e.items, Len(e.items))
    BY <1>3
  <1> QED
    BY <1>1, <1>4, <1>5, <1>6

(* addPrototype keeps the library what the files say, a duplicate          *)
(* included.                                                               *)
LEMMA PrototypeAgrees ==
  ASSUME NEW l, NEW log, FilesAgree(l, log), NEW x, IsSaying(x), x.kind = "hrc"
  PROVE  FilesAgree(AddPrototype(l, x.of), Append(log, x))
  <1> DEFINE t == x.of.name
             m == AddPrototype(l, x.of)
             new == Append(log, x)
             ps == PrototypeBlock(x.of).params
  <1>1. IsLog(new) /\ Extends(new, log, x)
    BY LogMore, AppendExtends DEF FilesAgree
  <1>2. AreParams(ps) /\ (x.of.package => DOMAIN ps = {})
        /\ (~x.of.package => Given(ps, x.of.items, Len(x.of.items)))
    BY BlockGives
  <1> HIDE DEF new, ps
  <1>3. \A u : AboutIs(new, log, x, "hrc", u)
    BY <1>1, AboutMore
  <1>4. \A u : u # t => About(new, "hrc", u) = About(log, "hrc", u)
    BY <1>3 DEF AboutIs
  <1>5. About(new, "hrc", t) # {}
    BY <1>3 DEF AboutIs
  <1>6. \A u, p : u # t => Says(new, u, p) = Says(log, u, p)
    BY <1>1, SaysSame
  <1>7. CASE t = ""
    <2>1. m = l
      BY <1>7 DEF AddPrototype
    <2>2. \A u : u \in DOMAIN l.types <=> u # "" /\ About(new, "hrc", u) # {}
      BY <1>4, <1>7 DEF FilesAgree
    <2>3. \A u \in DOMAIN l.types : \A p : AgreeOn(l.types[u].params, new, u, p)
      BY <1>6, <1>7 DEF FilesAgree, AgreeOn
    <2> HIDE DEF m
    <2> QED
      BY <1>1, <2>1, <2>2, <2>3 DEF FilesAgree, m, new
  <1>8. CASE t # ""
    <2>1. Retyped(m, l, t, ps)
      BY <1>2, <1>8, AddPrototypeIs DEF ps, FilesAgree
    <2> HIDE DEF m
    <2>2. \A u : u \in DOMAIN m.types <=> u # "" /\ About(new, "hrc", u) # {}
      BY <1>4, <1>5, <1>8, <2>1 DEF FilesAgree, Retyped
    <2>3. ASSUME NEW u \in DOMAIN m.types, NEW p PROVE AgreeOn(m.types[u].params, new, u, p)
      <3>1. CASE u # t
        <4>1. u \in DOMAIN l.types /\ m.types[u].params = l.types[u].params
          BY <2>1, <3>1 DEF Retyped
        <4>2. AgreeOn(l.types[u].params, log, u, p)
          BY <4>1 DEF FilesAgree
        <4> QED
          BY <1>6, <3>1, <4>1, <4>2 DEF AgreeOn
      <3>2. CASE u = t /\ p = ""
        <4>1. Says(new, u, p) = NoText
          BY <3>2, SaysNothing
        <4>2. p \notin DOMAIN ps
          BY <1>2, <3>2 DEF Given, Gives
        <4> QED
          BY <2>1, <3>2, <4>1, <4>2 DEF AgreeOn, Retyped
      <3>3. CASE u = t /\ p # ""
        <4>1. Says(new, t, p) = IF x.of.package \/ Items(x, p) = {} THEN NoText
                                ELSE ValueAt(x, Min(Items(x, p)))
          BY <1>1, <1>8, <3>3, SaysPrototype
        <4>2. m.types[t].params = ps
          BY <2>1 DEF Retyped
        <4>3. CASE x.of.package
          BY <1>2, <3>3, <4>1, <4>2, <4>3 DEF AgreeOn
        <4>4. CASE ~x.of.package
          <5>1. /\ p \in DOMAIN ps <=> Items(x, p) # {}
                /\ p \in DOMAIN ps =>
                     /\ ps[p].user = NoText /\ ps[p].value = ValueAt(x, Min(Items(x, p)))
                     /\ ps[p].value # NoText
            BY <1>2, <3>3, <4>4, ItemsOfPrototype
          <5> QED
            BY <3>3, <4>1, <4>2, <4>4, <5>1 DEF AgreeOn
        <4> QED
          BY <4>3, <4>4
      <3> QED
        BY <3>1, <3>2, <3>3
    <2>4. IsLibrary(m)
      BY <2>1 DEF Retyped
    <2> QED
      BY <1>1, <2>2, <2>3, <2>4 DEF FilesAgree, m, new
  <1> QED
    BY <1>7, <1>8

-----------------------------------------------------------------------------
(* Settings of one prototype. *)

(* What settings make of a parameter is what they say of it.               *)
SettingsItems(ps, base, x, p) ==
  /\ Items(x, p) = {} =>
       /\ p \in DOMAIN ps <=> p \in DOMAIN base
       /\ p \in DOMAIN ps => ps[p].value = base[p].value /\ ps[p].user = base[p].user
  /\ Items(x, p) # {} =>
       /\ p \in DOMAIN ps /\ ps[p].value = ValueAt(x, Max(Items(x, p)))
       /\ ps[p].user = (IF p \in DOMAIN base THEN base[p].user ELSE NoText)
       /\ ps[p].value # NoText

LEMMA ItemsOfSettings ==
  ASSUME NEW x, IsSaying(x), x.kind = "settings", NEW base, AreParams(base), NEW ps,
         Changed(ps, base, x.of.items, Len(x.of.items)), NEW p, p # ""
  PROVE  SettingsItems(ps, base, x, p)
  <1> DEFINE items == x.of.items
             n == Len(items)
             S == Items(x, p)
  <1>1. n \in Nat /\ DOMAIN items = 1 .. n
    BY ListIs DEF IsSaying
  <1>2. S = {j \in 1 .. n : Changes(items[j], p)}
    BY <1>1 DEF Items, Changes
  <1> HIDE DEF S
  <1>3. p \in DOMAIN ps <=> p \in DOMAIN base \/ S # {}
    <2> HIDE DEF n, items
    <2>1. p \in DOMAIN ps <=> p \in DOMAIN base \/ \E j \in 1 .. n : Changes(items[j], p)
      BY DEF Changed, n, items
    <2> QED
      BY <1>2, <2>1
  <1>4. CASE S = {}
    <2>1. \A j \in 1 .. n : ~Changes(items[j], p)
      BY <1>2, <1>4
    <2>2. p \in DOMAIN ps <=> p \in DOMAIN base
      BY <1>3, <1>4
    <2>3. p \in DOMAIN ps => ps[p].value = base[p].value /\ ps[p].user = base[p].user
      BY <2>1, <2>2 DEF Changed
    <2> QED
      BY <1>4, <2>2, <2>3 DEF S, SettingsItems
  <1>5. CASE S # {}
    <2> DEFINE j == Max(S)
    <2> HIDE DEF n
    <2>1. j \in S /\ \A i \in S : i <= j
      BY <1>1, <1>2, <1>5, Greatest
    <2> HIDE DEF j
    <2>2. j \in 1 .. n /\ Changes(items[j], p)
      BY <1>2, <2>1
    <2>3. \A i \in j + 1 .. n : i \notin S /\ i \in 1 .. n
      <3> SUFFICES ASSUME NEW i \in j + 1 .. n PROVE i \notin S /\ i \in 1 .. n
        OBVIOUS
      <3>1. i \in 1 .. n /\ ~(i <= j)
        BY <1>1, <2>2, Above
      <3> QED
        BY <2>1, <3>1
    <2>4. \A i \in j + 1 .. n : ~Changes(items[i], p)
      BY <1>2, <2>3
    <2>5. p \in DOMAIN ps
      BY <1>3, <1>5
    <2>6. ps[p].value = items[j].value
      BY <2>2, <2>4, <2>5 DEF Changed, n
    <2>7. ps[p].user = (IF p \in DOMAIN base THEN base[p].user ELSE NoText)
      BY <2>5 DEF Changed
    <2>8. items[j].value # NoText
      BY <1>1, <2>2 DEF IsSaying, Changes
    <2> QED
      BY <1>5, <2>5, <2>6, <2>7, <2>8 DEF ValueAt, S, j, SettingsItems
  <1> QED
    BY <1>4, <1>5

LEMMA UpdatePrototypeIs ==
  ASSUME NEW l, IsLibrary(l), NEW e, e.name \in DOMAIN l.types,
         AreParams(FoldLeft(UpdateParam, l.types[e.name].params, e.items))
  PROVE  Retyped(UpdatePrototype(l, e), l, e.name,
                 FoldLeft(UpdateParam, l.types[e.name].params, e.items))
  <1> DEFINE t == e.name
             type == l.types[t]
             ps == FoldLeft(UpdateParam, type.params, e.items)
             detects == \E i \in DOMAIN e.items : e.items[i].kind # "param"
             new == [type EXCEPT !.params = FoldLeft(UpdateParam, @, e.items),
                     !.choosers = IF detects THEN FoldLeft(DetectParam, <<>>, e.items) ELSE @]
             m == UpdatePrototype(l, e)
  <1>1. m = [l EXCEPT !.types[t] = new]
    BY DEF UpdatePrototype, Has
  <1>2. "params" \in DOMAIN type
    BY DEF IsLibrary
  <1>3. "params" \in DOMAIN new /\ new.params = ps
    BY <1>2
  <1> HIDE DEF new, m
  <1>4. /\ {"order", "types", "loaded", "compiled"} \subseteq DOMAIN m
        /\ m.types = [l.types EXCEPT ![t] = new]
    BY <1>1 DEF IsLibrary
  <1> HIDE DEF ps
  <1>5. /\ IsFcn(m.types) /\ DOMAIN m.types = DOMAIN l.types /\ m.types[t] = new
        /\ \A u \in DOMAIN l.types : u # t => m.types[u] = l.types[u]
    BY <1>4 DEF IsFcn, IsLibrary
  <1>6. IsLibrary(m)
    BY <1>3, <1>4, <1>5 DEF IsLibrary, ps
  <1>7. Retyped(m, l, t, ps)
    BY <1>3, <1>5, <1>6 DEF Retyped
  <1> QED
    BY <1>7 DEF m, ps

(* updatePrototype keeps the library what the files say.                   *)
LEMMA SettingsAgree ==
  ASSUME NEW l, NEW log, FilesAgree(l, log), NEW x, IsSaying(x), x.kind = "settings"
  PROVE  FilesAgree(UpdatePrototype(l, x.of), Append(log, x))
  <1> DEFINE t == x.of.name
             m == UpdatePrototype(l, x.of)
             new == Append(log, x)
  <1>1. IsLog(new) /\ Extends(new, log, x)
    BY LogMore, AppendExtends DEF FilesAgree
  <1> HIDE DEF new
  <1>3. \A u : AboutIs(new, log, x, "hrc", u)
    BY <1>1, AboutMore
  <1>4. \A u : About(new, "hrc", u) = About(log, "hrc", u)
    <2>1. ~(x.kind = "hrc")
      OBVIOUS
    <2> QED
      BY <1>3, <2>1 DEF AboutIs
  <1>6. \A u, p : u # t => Says(new, u, p) = Says(log, u, p)
    BY <1>1, SaysSame
  <1>7. CASE t \notin DOMAIN l.types
    <2>1. m = l
      BY <1>7 DEF UpdatePrototype, Has
    <2>2. \A u : u \in DOMAIN l.types <=> u # "" /\ About(new, "hrc", u) # {}
      BY <1>4 DEF FilesAgree
    <2>3. \A u \in DOMAIN l.types : \A p : AgreeOn(l.types[u].params, new, u, p)
      BY <1>6, <1>7 DEF FilesAgree, AgreeOn
    <2> HIDE DEF m
    <2> QED
      BY <1>1, <2>1, <2>2, <2>3 DEF FilesAgree, m, new
  <1>8. CASE t \in DOMAIN l.types
    <2> DEFINE base == l.types[t].params
               ps == FoldLeft(UpdateParam, base, x.of.items)
    <2>0. AreParams(base) /\ t # "" /\ About(log, "hrc", t) # {}
      BY <1>8 DEF FilesAgree, IsLibrary
    <2>a. Changed(ps, base, x.of.items, Len(x.of.items))
      <3> DEFINE V == {x.of.items[i] : i \in DOMAIN x.of.items}
      <3>1. x.of.items \in Seq(V)
        BY DEF IsSaying, IsList
      <3> HIDE DEF V, base
      <3> QED
        BY <2>0, <3>1, SettingsChange
    <2>b. AreParams(ps)
      BY <2>a DEF Changed
    <2>1. Retyped(m, l, t, ps)
      BY <1>8, <2>b, UpdatePrototypeIs DEF FilesAgree
    <2> HIDE DEF m, ps, base
    <2>2. \A u : u \in DOMAIN m.types <=> u # "" /\ About(new, "hrc", u) # {}
      BY <1>4, <1>8, <2>1 DEF FilesAgree, Retyped
    <2>3. ASSUME NEW u \in DOMAIN m.types, NEW p PROVE AgreeOn(m.types[u].params, new, u, p)
      <3>1. CASE u # t
        <4>1. u \in DOMAIN l.types /\ m.types[u].params = l.types[u].params
          BY <2>1, <3>1 DEF Retyped
        <4>2. AgreeOn(l.types[u].params, log, u, p)
          BY <4>1 DEF FilesAgree
        <4> QED
          BY <1>6, <3>1, <4>1, <4>2 DEF AgreeOn
      <3>a. AgreeOn(base, log, t, p)
        BY <1>8 DEF FilesAgree, base
      <3>b. m.types[t].params = ps
        BY <2>1 DEF Retyped
      <3>2. CASE u = t /\ p = ""
        <4>1. Says(new, u, p) = NoText /\ Says(log, u, p) = NoText
          BY <3>2, SaysNothing
        <4>2. p \notin DOMAIN base
          BY <3>2, <3>a, <4>1 DEF AgreeOn
        <4>3. p \notin DOMAIN ps
          BY <2>a, <3>2, <4>2 DEF Changed, Changes
        <4> QED
          BY <3>2, <3>b, <4>1, <4>3 DEF AgreeOn
      <3>3. CASE u = t /\ p # ""
        <4>0. SettingsItems(ps, base, x, p)
          BY <2>0, <2>a, <3>3, ItemsOfSettings
        <4>2. CASE Items(x, p) = {}
          <5>1. Says(new, t, p) = Says(log, t, p)
            BY <1>1, <4>2, SaysSame
          <5> QED
            BY <3>3, <3>a, <3>b, <4>0, <4>2, <5>1 DEF AgreeOn, SettingsItems
        <4>3. CASE Items(x, p) # {}
          <5>1. Says(new, t, p) = ValueAt(x, Max(Items(x, p)))
            <6>1. SettingsFor(new, log, x, t, p)
              BY <1>1, <2>0, <3>3, <4>3 DEF SettingsFor
            <6> QED
              BY <6>1, SaysSettings
          <5> QED
            BY <3>3, <3>a, <3>b, <4>0, <4>3, <5>1 DEF AgreeOn, SettingsItems
        <4> QED
          BY <4>2, <4>3
      <3> QED
        BY <3>1, <3>2, <3>3
    <2>4. IsLibrary(m)
      BY <2>1 DEF Retyped
    <2> QED
      BY <1>1, <2>2, <2>3, <2>4 DEF FilesAgree, m, new
  <1> QED
    BY <1>7, <1>8

-----------------------------------------------------------------------------
(* The files, element by element. *)

Saying(kind, e) == [kind |-> kind, of |-> e]

(* What was said before, and the first n elements of a file.               *)
Upto(log, kind, els, n) ==
  [i \in 1 .. Len(log) + n |-> IF i <= Len(log) THEN log[i] ELSE Saying(kind, els[i - Len(log)])]

UptoIs(log, kind, els, n, m) ==
  /\ Upto(log, kind, els, 0) = log
  /\ Append(Upto(log, kind, els, n), Saying(kind, els[m])) = Upto(log, kind, els, m)

LEMMA UptoIsList ==
  ASSUME NEW log, IsList(log), NEW kind, NEW els, NEW n \in Nat
  PROVE  UptoIs(log, kind, els, n, n + 1)
  <1> DEFINE a == Len(log)
             U(m) == Upto(log, kind, els, m)
             x == Saying(kind, els[n + 1])
  <1>1. a \in Nat /\ DOMAIN log = 1 .. a
    BY ListIs
  <1>2. \A m \in Nat : U(m) \in Seq({U(m)[i] : i \in DOMAIN U(m)}) /\ Len(U(m)) = a + m
                       /\ DOMAIN U(m) = 1 .. a + m
    <2> TAKE m \in Nat
    <2> DEFINE u == U(m)
               V == {u[i] : i \in 1 .. a + m}
    <2>1. DOMAIN u = 1 .. a + m /\ u = [i \in 1 .. a + m |-> u[i]]
      BY DEF Upto
    <2>3. \A i \in 1 .. a + m : u[i] \in V
      OBVIOUS
    <2>4. a + m \in Nat
      BY <1>1
    <2> HIDE DEF u, V
    <2>5. u \in Seq(V) /\ Len(u) = a + m
      BY <2>1, <2>3, <2>4
    <2> QED
      BY <2>1, <2>5 DEF u, V
  <1>3. U(0) = log
    <2>1. log = [i \in 1 .. a |-> log[i]]
      <3> DEFINE V == {log[i] : i \in DOMAIN log}
      <3>1. log \in Seq(V)
        BY DEF IsList
      <3> HIDE DEF V
      <3> QED
        BY <1>1, <3>1
    <2>2. U(0) = [i \in 1 .. a |-> log[i]]
      BY <1>1 DEF Upto
    <2> QED
      BY <2>1, <2>2
  <1>4. Append(U(n), x) = U(n + 1)
    <2> DEFINE s == U(n)
               t == U(n + 1)
    <2>1. /\ \A i \in 1 .. a + n : s[i] = t[i]
          /\ t[a + n + 1] = x
          /\ t = [i \in 1 .. a + n + 1 |-> t[i]]
      <3>1. /\ \A i \in 1 .. a + n : s[i] = t[i]
            /\ t = [i \in 1 .. a + n + 1 |-> t[i]]
        BY <1>1 DEF Upto
      <3>2. a + n + 1 \in 1 .. a + n + 1 /\ ~(a + n + 1 <= a) /\ (a + n + 1) - a = n + 1
            /\ a + n + 1 = a + (n + 1)
        BY <1>1
      <3>3. t[a + n + 1] = x
        BY <3>2 DEF Upto
      <3> QED
        BY <3>1, <3>3
    <2>2. IsList(s) /\ Len(s) = a + n
      BY <1>2 DEF IsList
    <2> HIDE DEF s, t, x
    <2>3. /\ IsList(Append(s, x)) /\ Len(Append(s, x)) = a + n + 1
          /\ Append(s, x)[a + n + 1] = x
          /\ \A i \in 1 .. a + n : Append(s, x)[i] = s[i]
      BY <2>2, ListMore
    <2> DEFINE w == Append(s, x)
    <2>4. w = [i \in 1 .. a + n + 1 |-> w[i]]
      <3> DEFINE V == {w[i] : i \in DOMAIN w}
      <3>1. w \in Seq(V) /\ Len(w) = a + n + 1
        BY <2>3 DEF IsList
      <3> HIDE DEF V, w
      <3> QED
        BY <3>1
    <2>5. \A i \in 1 .. a + n + 1 : w[i] = t[i]
      <3> TAKE i \in 1 .. a + n + 1
      <3>1. i \in 1 .. a + n \/ i = a + n + 1
        BY <1>1
      <3> QED
        BY <2>1, <2>3, <3>1
    <2> HIDE DEF w
    <2>6. w = t
      BY <2>1, <2>4, <2>5
    <2> QED
      BY <2>6 DEF s, t, w
  <1> QED
    BY <1>3, <1>4 DEF UptoIs

LEMMA UptoIsAll ==
  ASSUME NEW log, IsList(log), NEW kind, NEW els, IsList(els)
  PROVE  Upto(log, kind, els, Len(els)) = log \o Sayings(kind, els)
  <1> DEFINE a == Len(log)
             b == Len(els)
             s == Sayings(kind, els)
             V == {log[i] : i \in DOMAIN log} \cup {s[i] : i \in DOMAIN s}
             u == Upto(log, kind, els, b)
             w == log \o s
  <1>1. a \in Nat /\ DOMAIN log = 1 .. a /\ b \in Nat /\ DOMAIN els = 1 .. b
    BY ListIs
  <1>2. DOMAIN s = 1 .. b /\ s = [i \in 1 .. b |-> s[i]] /\ \A i \in 1 .. b : s[i] = Saying(kind, els[i])
    BY <1>1 DEF Sayings, Saying
  <1>3. \A i \in 1 .. a : log[i] \in V
    BY <1>1
  <1>4. \A i \in 1 .. b : s[i] \in V
    BY <1>2
  <1>5. log = [i \in 1 .. a |-> log[i]]
    <2> DEFINE W == {log[i] : i \in DOMAIN log}
    <2>1. log \in Seq(W)
      BY DEF IsList
    <2> HIDE DEF W
    <2> QED
      BY <1>1, <2>1
  <1> HIDE DEF V, s
  <1>6. log \in Seq(V) /\ s \in Seq(V) /\ Len(s) = b
    BY <1>1, <1>2, <1>3, <1>4, <1>5
  <1>7. /\ w \in Seq(V) /\ Len(w) = a + b
        /\ \A i \in 1 .. a + b : w[i] = IF i <= a THEN log[i] ELSE s[i - a]
    BY <1>6, ConcatProperties
  <1> HIDE DEF w
  <1>8. w = [i \in 1 .. a + b |-> w[i]]
    BY <1>7
  <1>9. /\ u = [i \in 1 .. a + b |-> u[i]]
        /\ \A i \in 1 .. a + b : u[i] = IF i <= a THEN log[i] ELSE Saying(kind, els[i - a])
    BY <1>1 DEF Upto
  <1> HIDE DEF u
  <1>10. \A i \in 1 .. a + b : w[i] = u[i]
    <2> TAKE i \in 1 .. a + b
    <2>1. ~(i <= a) => i - a \in 1 .. b
      BY <1>1
    <2> QED
      BY <1>2, <1>7, <1>9, <2>1
  <1>11. w = u
    BY <1>8, <1>9, <1>10
  <1> QED
    BY <1>11 DEF w, s, u

LEMMA EachIsSaying ==
  ASSUME NEW els, AreElements(els), NEW kind \in {"hrc", "settings"}
  PROVE  /\ Len(els) \in Nat /\ DOMAIN els = 1 .. Len(els) /\ els \in Seq({els[i] : i \in DOMAIN els})
         /\ \A i \in DOMAIN els : LET x == Saying(kind, els[i])
                                  IN  IsSaying(x) /\ x.kind = kind /\ x.of = els[i]
  <1>1. IsList(els)
    BY DEF AreElements
  <1>2. Len(els) \in Nat /\ DOMAIN els = 1 .. Len(els) /\ els \in Seq({els[i] : i \in DOMAIN els})
    BY <1>1, ListIs
  <1>3. ASSUME NEW i \in DOMAIN els PROVE IsSaying(Saying(kind, els[i]))
    BY DEF AreElements, IsSaying, Saying
  <1> QED
    BY <1>2, <1>3 DEF Saying

(* A whole HRC file, whole settings and the catalog.                       *)
LEMMA HrcAgrees ==
  ASSUME NEW l, NEW log, FilesAgree(l, log), NEW els, AreElements(els)
  PROVE  FilesAgree(LoadHrc(l, els), log \o Sayings("hrc", els))
  <1> DEFINE k == [fold |-> "prototypes"]
             b == Len(els)
             U(n) == Upto(log, "hrc", els, n)
  <1>1. PICK g : Steps(g, k, l, els) /\ LoadHrc(l, els) = g[b]
    <2> DEFINE V == {els[i] : i \in DOMAIN els}
    <2>1. LoadHrc(l, els) = Fold(k, l, els)
      BY FoldsAre
    <2>2. els \in Seq(V)
      BY EachIsSaying
    <2> HIDE DEF V, k
    <2>3. \E g : Steps(g, k, l, els) /\ Fold(k, l, els) = g[Len(els)]
      BY <2>2, FoldIs
    <2> QED
      BY <2>1, <2>3
  <1>2. \A x, y : Op(k, x, y) = AddPrototype(x, y)
    BY Zenon DEF Op
  <1>3. /\ g[0] = l
        /\ \A i \in 1 .. b : g[i] = AddPrototype(g[i - 1], els[i])
    BY <1>1, <1>2 DEF Steps
  <1>4. b \in Nat /\ DOMAIN els = 1 .. b /\ IsList(log) /\ IsList(els)
    BY EachIsSaying DEF FilesAgree, IsLog, AreElements
  <1> HIDE DEF b
  <1> DEFINE T == {n \in Nat : n <= b => FilesAgree(g[n], U(n))}
  <1>5. 0 \in T
    <2>1. U(0) = log
      BY <1>4, UptoIsList DEF UptoIs
    <2> QED
      BY <1>3, <2>1
  <1>6. ASSUME NEW n \in Nat, n \in T PROVE n + 1 \in T
    <2> SUFFICES ASSUME n + 1 <= b PROVE FilesAgree(g[n + 1], U(n + 1))
      OBVIOUS
    <2> DEFINE x == Saying("hrc", els[n + 1])
    <2>1. n <= b /\ n + 1 \in 1 .. b /\ (n + 1) - 1 = n
      BY <1>4
    <2>2. FilesAgree(g[n], U(n))
      BY <1>6, <2>1
    <2>3. g[n + 1] = AddPrototype(g[n], els[n + 1])
      BY <1>3, <2>1
    <2>4. IsSaying(x) /\ x.kind = "hrc" /\ x.of = els[n + 1]
      BY <1>4, <2>1, EachIsSaying
    <2>5. Append(U(n), x) = U(n + 1)
      <3>1. UptoIs(log, "hrc", els, n, n + 1)
        BY <1>4, UptoIsList
      <3> QED
        BY <3>1 DEF UptoIs
    <2> HIDE DEF x, U
    <2>6. FilesAgree(AddPrototype(g[n], x.of), Append(U(n), x))
      BY <2>2, <2>4, PrototypeAgrees
    <2> QED
      BY <2>3, <2>4, <2>5, <2>6
  <1>7. b \in T
    <2> HIDE DEF T
    <2> QED
      BY <1>4, <1>5, <1>6, Induction
  <1>8. FilesAgree(g[b], U(b))
    BY <1>4, <1>7
  <1>9. U(b) = log \o Sayings("hrc", els)
    BY <1>4, UptoIsAll DEF b
  <1> QED
    BY <1>1, <1>8, <1>9 DEF b

LEMMA FileSettingsAgree ==
  ASSUME NEW l, NEW log, FilesAgree(l, log), NEW els, AreElements(els)
  PROVE  FilesAgree(LoadHrcSettings(l, els), log \o Sayings("settings", els))
  <1> DEFINE k == [fold |-> "settings"]
             b == Len(els)
             U(n) == Upto(log, "settings", els, n)
  <1>1. PICK g : Steps(g, k, l, els) /\ LoadHrcSettings(l, els) = g[b]
    <2> DEFINE V == {els[i] : i \in DOMAIN els}
    <2>1. LoadHrcSettings(l, els) = Fold(k, l, els)
      BY FoldsAre
    <2>2. els \in Seq(V)
      BY EachIsSaying
    <2> HIDE DEF V, k
    <2>3. \E g : Steps(g, k, l, els) /\ Fold(k, l, els) = g[Len(els)]
      BY <2>2, FoldIs
    <2> QED
      BY <2>1, <2>3
  <1>2. \A x, y : Op(k, x, y) = UpdatePrototype(x, y)
    BY Zenon DEF Op
  <1>3. /\ g[0] = l
        /\ \A i \in 1 .. b : g[i] = UpdatePrototype(g[i - 1], els[i])
    BY <1>1, <1>2 DEF Steps
  <1>4. b \in Nat /\ DOMAIN els = 1 .. b /\ IsList(log) /\ IsList(els)
    BY EachIsSaying DEF FilesAgree, IsLog, AreElements
  <1> HIDE DEF b
  <1> DEFINE T == {n \in Nat : n <= b => FilesAgree(g[n], U(n))}
  <1>5. 0 \in T
    <2>1. U(0) = log
      BY <1>4, UptoIsList DEF UptoIs
    <2> QED
      BY <1>3, <2>1
  <1>6. ASSUME NEW n \in Nat, n \in T PROVE n + 1 \in T
    <2> SUFFICES ASSUME n + 1 <= b PROVE FilesAgree(g[n + 1], U(n + 1))
      OBVIOUS
    <2> DEFINE x == Saying("settings", els[n + 1])
    <2>1. n <= b /\ n + 1 \in 1 .. b /\ (n + 1) - 1 = n
      BY <1>4
    <2>2. FilesAgree(g[n], U(n))
      BY <1>6, <2>1
    <2>3. g[n + 1] = UpdatePrototype(g[n], els[n + 1])
      BY <1>3, <2>1
    <2>4. IsSaying(x) /\ x.kind = "settings" /\ x.of = els[n + 1]
      BY <1>4, <2>1, EachIsSaying
    <2>5. Append(U(n), x) = U(n + 1)
      <3>1. UptoIs(log, "settings", els, n, n + 1)
        BY <1>4, UptoIsList
      <3> QED
        BY <3>1 DEF UptoIs
    <2> HIDE DEF x, U
    <2>6. FilesAgree(UpdatePrototype(g[n], x.of), Append(U(n), x))
      BY <2>2, <2>4, SettingsAgree
    <2> QED
      BY <2>3, <2>4, <2>5, <2>6
  <1>7. b \in T
    <2> HIDE DEF T
    <2> QED
      BY <1>4, <1>5, <1>6, Induction
  <1>8. FilesAgree(g[b], U(b))
    BY <1>4, <1>7
  <1>9. U(b) = log \o Sayings("settings", els)
    BY <1>4, UptoIsAll DEF b
  <1> QED
    BY <1>1, <1>8, <1>9 DEF b

LEMMA CatalogAgrees ==
  FilesAgree(LoadCatalog, Sayings("hrc", Catalog.types))
  <1>1. FilesAgree(EmptyLibrary, <<>>)
    <2>1. IsLibrary(EmptyLibrary) /\ DOMAIN EmptyLibrary.types = {}
      BY DEF IsLibrary, EmptyLibrary, IsFcn
    <2>2. IsLog(<<>>) /\ \A t : About(<<>>, "hrc", t) = {}
      BY DEF IsLog, IsList, About
    <2> QED
      BY <2>1, <2>2 DEF FilesAgree
  <1>2. AreElements(Catalog.types)
    BY FilesAssumption
  <1>3. FilesAgree(LoadCatalog, <<>> \o Sayings("hrc", Catalog.types))
    BY <1>1, <1>2, HrcAgrees DEF LoadCatalog
  <1> DEFINE s == Sayings("hrc", Catalog.types)
             V == {s[i] : i \in DOMAIN s}
  <1>4. Len(Catalog.types) \in Nat /\ DOMAIN Catalog.types = 1 .. Len(Catalog.types)
    BY <1>2, ListIs DEF AreElements
  <1>5. s = [i \in 1 .. Len(Catalog.types) |-> s[i]] /\ \A i \in 1 .. Len(Catalog.types) : s[i] \in V
    BY <1>4 DEF Sayings
  <1> HIDE DEF s, V
  <1>6. s \in Seq(V)
    BY <1>4, <1>5
  <1>7. <<>> \o s = s
    BY <1>6, ConcatEmptySeq
  <1> QED
    BY <1>3, <1>7 DEF s

-----------------------------------------------------------------------------
(* The parameters of an open session. *)

(* What was set last, and what "default" has or had, as operators on       *)
(* lists.                                                                  *)
SetIn(ss, t, p) ==
  LET at == {i \in DOMAIN ss : ss[i][1] = t /\ ss[i][2] = p}
  IN  IF at = {} THEN NoText ELSE ss[Max(at)][3]

SomeDefaults(log, ss, p) ==
  {Says(log, "default", p)} \cup {s[3] : s \in {s \in ToSet(ss) : s[1] = "default" /\ s[2] = p}}

SetNow == \A t, p : SetTo(t, p) = SetIn(sets, t, p)
LEMMA SetToIs == SetNow
  BY Zenon DEF SetTo, SetIn, SetNow
LEMMA DefaultsAre == \A p : DefaultsOf(p) = SomeDefaults(said, sets, p)
  <1>1. \A p : FilesSay("default", p) = Says(said, "default", p)
    BY SaysIs
  <1> QED
    BY <1>1 DEF DefaultsOf, SomeDefaults

(* A parameter of an open session: what the files give the type it has;    *)
(* what it has without them was given by "default" when it was set; and    *)
(* its user value is the last set.                                         *)
Holds(params, log, ss, t, p) ==
  /\ Says(log, t, p) # NoText => p \in DOMAIN params /\ params[p].value = Says(log, t, p)
  /\ Says(log, t, p) = NoText /\ p \in DOMAIN params =>
       /\ t # "default" /\ Says(log, "default", p) # NoText
       /\ params[p].value \in SomeDefaults(log, ss, p) \ {NoText}
  /\ p \in DOMAIN params => params[p].user = SetIn(ss, t, p)
  /\ p \notin DOMAIN params => SetIn(ss, t, p) = NoText

SetsAgree(l, log, ss) ==
  /\ IsLibrary(l) /\ IsList(ss)
  /\ \A t : t \in DOMAIN l.types <=> t # "" /\ About(log, "hrc", t) # {}
  /\ \A t \in DOMAIN l.types : \A p : Holds(l.types[t].params, log, ss, t, p)

(* One more value set.                                                     *)
LEMMA SetMore ==
  ASSUME NEW ss, IsList(ss), NEW t, NEW p, NEW v
  PROVE  /\ \A u, q : SetIn(Append(ss, <<t, p, v>>), u, q) =
                        IF u = t /\ q = p THEN v ELSE SetIn(ss, u, q)
         /\ \A log, q : SomeDefaults(log, ss, q) \subseteq SomeDefaults(log, Append(ss, <<t, p, v>>), q)
         /\ t = "default" => \A log : v \in SomeDefaults(log, Append(ss, <<t, p, v>>), p)
  <1> DEFINE x == <<t, p, v>>
             n == Len(ss)
             w == Append(ss, x)
  <1>1. n \in Nat /\ DOMAIN ss = 1 .. n
    BY ListIs
  <1>2. /\ IsList(w) /\ Len(w) = n + 1 /\ w[n + 1] = x
        /\ \A i \in 1 .. n : w[i] = ss[i]
    BY ListMore
  <1>3. x[1] = t /\ x[2] = p /\ x[3] = v
    OBVIOUS
  <1> HIDE DEF w, x, n
  <1>4. DOMAIN w = 1 .. n + 1
    BY <1>2, ListIs
  <1>5. \A i : i \in 1 .. n + 1 <=> i \in 1 .. n \/ i = n + 1
    BY <1>1
  <1>6. ASSUME NEW u, NEW q PROVE SetIn(w, u, q) = IF u = t /\ q = p THEN v ELSE SetIn(ss, u, q)
    <2> DEFINE A == {i \in DOMAIN ss : ss[i][1] = u /\ ss[i][2] = q}
               B == {i \in DOMAIN w : w[i][1] = u /\ w[i][2] = q}
    <2>1. A \in SUBSET (1 .. n)
      BY <1>1
    <2>2. CASE u = t /\ q = p
      <3>1. B = A \cup {n + 1}
        BY <1>1, <1>2, <1>3, <1>4, <1>5, <2>2
      <3> HIDE DEF A, B
      <3>2. Max(B) = n + 1 /\ B # {}
        BY <1>1, <2>1, <3>1, MaxWith
      <3>3. w[Max(B)][3] = v
        BY <1>2, <1>3, <3>2
      <3>4. SetIn(w, u, q) = w[Max(B)][3]
        BY <3>2 DEF SetIn, B
      <3> QED
        BY <2>2, <3>3, <3>4
    <2>3. CASE ~(u = t /\ q = p)
      <3>1. B = A
        BY <1>1, <1>2, <1>3, <1>4, <1>5, <2>3
      <3>2. CASE A = {}
        BY <2>3, <3>1, <3>2 DEF SetIn
      <3>3. CASE A # {}
        <4> DEFINE m == Max(A)
        <4>a. SetIn(ss, u, q) = ss[m][3] /\ SetIn(w, u, q) = w[Max(B)][3]
          BY <3>1, <3>3 DEF SetIn
        <4> HIDE DEF A, B
        <4>1. m \in 1 .. n
          BY <1>1, <2>1, <3>3, Greatest
        <4> HIDE DEF m
        <4>2. w[m] = ss[m]
          BY <1>2, <4>1
        <4> QED
          BY <2>3, <3>1, <4>2, <4>a DEF m
      <3> QED
        BY <3>2, <3>3
    <2> QED
      BY <2>2, <2>3
  <1>7. ToSet(ss) \subseteq ToSet(w) /\ x \in ToSet(w)
    BY <1>1, <1>2, <1>4, <1>5 DEF ToSet
  <1>8. \A log, q : SomeDefaults(log, ss, q) \subseteq SomeDefaults(log, w, q)
    BY <1>7 DEF SomeDefaults
  <1>9. t = "default" => \A log : v \in SomeDefaults(log, w, p)
    BY <1>3, <1>7 DEF SomeDefaults
  <1> QED
    BY <1>6, <1>8, <1>9 DEF w, x

-----------------------------------------------------------------------------
(* Writing the parameters of a type. *)

LEMMA WithParamsIs ==
  ASSUME NEW l, IsLibrary(l), NEW t \in DOMAIN l.types, NEW ps, AreParams(ps)
  PROVE  Retyped(WithParams(l, t, ps), l, t, ps)
  <1> DEFINE r == [l.types[t] EXCEPT !.params = ps]
             m == WithParams(l, t, ps)
  <1>1. m = [l EXCEPT !.types[t].params = ps]
    BY DEF WithParams
  <1>2. /\ {"order", "types", "loaded", "compiled"} \subseteq DOMAIN m
        /\ m.types = [l.types EXCEPT ![t] = r]
    BY <1>1 DEF IsLibrary
  <1>3. "params" \in DOMAIN r /\ r.params = ps
    BY DEF IsLibrary
  <1> HIDE DEF m, r
  <1>4. /\ IsFcn(m.types) /\ DOMAIN m.types = DOMAIN l.types /\ m.types[t] = r
        /\ \A u \in DOMAIN l.types : u # t => m.types[u] = l.types[u]
    BY <1>2 DEF IsFcn, IsLibrary
  <1>5. IsLibrary(m)
    BY <1>2, <1>3, <1>4 DEF IsLibrary
  <1> QED
    BY <1>3, <1>4, <1>5 DEF Retyped, m

LEMMA SetValueIs ==
  ASSUME NEW l, IsLibrary(l), NEW t \in DOMAIN l.types, NEW p \in DOMAIN l.types[t].params, NEW v
  PROVE  Retyped(SetParamValue(l, t, p, v), l, t, [l.types[t].params EXCEPT ![p].user = v])
  <1> DEFINE ps == [l.types[t].params EXCEPT ![p].user = v]
  <1>1. SetParamValue(l, t, p, v) = [l EXCEPT !.types[t].params = ps]
    BY DEF SetParamValue
  <1>2. AreParams(ps)
    <2>1. AreParams(l.types[t].params)
      BY DEF IsLibrary
    <2> QED
      BY <2>1 DEF AreParams, IsParam, Texts, IsFcn
  <1>3. SetParamValue(l, t, p, v) = WithParams(l, t, ps)
    BY <1>1 DEF WithParams
  <1> HIDE DEF ps
  <1>4. Retyped(WithParams(l, t, ps), l, t, ps)
    BY <1>2, WithParamsIs
  <1> QED
    BY <1>3, <1>4 DEF ps

(* A value set.                                                            *)
UserSet(qs, ps, p, v) ==
  /\ AreParams(qs) /\ DOMAIN qs = DOMAIN ps /\ qs[p].user = v /\ qs[p].value = ps[p].value
  /\ \A q \in DOMAIN ps : q # p => qs[q] = ps[q]

LEMMA UserSetIs ==
  ASSUME NEW ps, AreParams(ps), NEW p \in DOMAIN ps, NEW v
  PROVE  UserSet([ps EXCEPT ![p].user = v], ps, p, v)
  BY DEF AreParams, IsParam, Texts, IsFcn, UserSet

Sets(m, l, t, p, v, qs) ==
  \E ps : UserSet(ps, qs, p, v) /\ Retyped(m, l, t, ps)

LEMMA ResetIs ==
  ASSUME NEW l, IsLibrary(l), NEW t \in DOMAIN l.types, NEW p \in DOMAIN l.types[t].params
  PROVE  Sets(ResetFileTypeParam(l, t, p), l, t, p, NoText, l.types[t].params)
  <1> DEFINE ps == l.types[t].params
             rs == [ps EXCEPT ![p].user = NoText]
  <1>1. UserSet(rs, ps, p, NoText)
    BY UserSetIs DEF IsLibrary
  <1>2. Retyped(ResetFileTypeParam(l, t, p), l, t, rs)
    BY SetValueIs DEF ResetFileTypeParam
  <1> QED
    BY <1>1, <1>2 DEF Sets

LEMMA SetIs ==
  ASSUME NEW l, IsLibrary(l), NEW t \in DOMAIN l.types, NEW p, NEW v
  PROVE  LET qs == AddParam(l.types[t].params, p, GetParamValue(l, "default", p))
         IN  Sets(SetFileTypeParam(l, t, p, v), l, t, p, v, qs)
  <1> DEFINE ps == l.types[t].params
             d == GetParamValue(l, "default", p)
             qs == AddParam(ps, p, d)
             m == WithParams(l, t, qs)
             w == SetParamValue(m, t, p, v)
             rs == [qs EXCEPT ![p].user = v]
  <1>1. w = SetFileTypeParam(l, t, p, v)
    BY DEF SetFileTypeParam, ParamsOf
  <1>2. WithParam(qs, ps, p, d)
    BY AddParamIs DEF IsLibrary
  <1> HIDE DEF qs
  <1>3. AreParams(qs) /\ p \in DOMAIN qs
    BY <1>2 DEF WithParam
  <1>4. Retyped(m, l, t, qs)
    BY <1>3, WithParamsIs
  <1>5. UserSet(rs, qs, p, v)
    BY <1>3, UserSetIs
  <1> HIDE DEF m
  <1>6. IsLibrary(m) /\ t \in DOMAIN m.types /\ m.types[t].params = qs
    BY <1>4 DEF Retyped
  <1>7. Retyped(w, m, t, [m.types[t].params EXCEPT ![p].user = v])
    BY <1>3, <1>6, SetValueIs
  <1>8. Retyped(w, m, t, rs)
    BY <1>6, <1>7
  <1> HIDE DEF w, rs
  <1>9. Retyped(w, l, t, rs)
    BY <1>4, <1>8 DEF Retyped
  <1>10. Sets(w, l, t, p, v, qs)
    BY <1>5, <1>9 DEF Sets
  <1> QED
    BY <1>1, <1>10 DEF qs

LEMMA SetIsDefault ==
  ASSUME NEW log, NEW ss, IsList(ss), NEW p, SetIn(ss, "default", p) # NoText
  PROVE  SetIn(ss, "default", p) \in SomeDefaults(log, ss, p)
  <1> DEFINE A == {i \in DOMAIN ss : ss[i][1] = "default" /\ ss[i][2] = p}
             m == Max(A)
  <1>1. A # {} /\ SetIn(ss, "default", p) = ss[m][3]
    BY DEF SetIn
  <1>2. Len(ss) \in Nat /\ A \in SUBSET (1 .. Len(ss))
    BY ListIs
  <1>3. m \in A
    <2> HIDE DEF A
    <2> QED
      BY <1>1, <1>2, Greatest
  <1> HIDE DEF m
  <1>4. ss[m] \in ToSet(ss) /\ ss[m][1] = "default" /\ ss[m][2] = p
    BY <1>3 DEF ToSet
  <1> QED
    BY <1>1, <1>4 DEF SomeDefaults

(* What "default" has is what a type may be given.                         *)
LEMMA DefaultGives ==
  ASSUME NEW l, NEW log, NEW ss, SetsAgree(l, log, ss), NEW p,
         GetParamValue(l, "default", p) # NoText
  PROVE  /\ "default" \in DOMAIN l.types /\ p \in DOMAIN l.types["default"].params
         /\ Says(log, "default", p) # NoText
         /\ GetParamValue(l, "default", p) \in SomeDefaults(log, ss, p) \ {NoText}
  <1> DEFINE ps == l.types["default"].params
  <1>1. /\ "default" \in DOMAIN l.types /\ p \in DOMAIN ps
        /\ GetParamValue(l, "default", p) = IF ps[p].user # NoText THEN ps[p].user ELSE ps[p].value
    BY DEF GetParamValue, Has, ParamsOf
  <1>2. Holds(ps, log, ss, "default", p) /\ IsList(ss)
    BY <1>1 DEF SetsAgree
  <1>3. Says(log, "default", p) # NoText /\ ps[p].value = Says(log, "default", p)
        /\ ps[p].user = SetIn(ss, "default", p)
    BY <1>1, <1>2 DEF Holds
  <1>4. ps[p].value \in SomeDefaults(log, ss, p)
    BY <1>3 DEF SomeDefaults
  <1>5. ps[p].user # NoText => ps[p].user \in SomeDefaults(log, ss, p)
    BY <1>2, <1>3, SetIsDefault
  <1> QED
    BY <1>1, <1>3, <1>4, <1>5

(* A parameter is written and the writing is remembered.                   *)
LEMMA WrittenAgrees ==
  ASSUME NEW l, NEW log, NEW ss, SetsAgree(l, log, ss), NEW t \in DOMAIN l.types, NEW p, NEW v,
         NEW qs, NEW m, Sets(m, l, t, p, v, qs), NEW d, WithParam(qs, l.types[t].params, p, d),
         p \notin DOMAIN l.types[t].params =>
           t # "default" /\ Says(log, "default", p) # NoText /\ d \in SomeDefaults(log, ss, p) \ {NoText}
  PROVE  SetsAgree(m, log, Append(ss, <<t, p, v>>))
  <1> DEFINE ps == l.types[t].params
             w == Append(ss, <<t, p, v>>)
  <1>1. PICK rs : UserSet(rs, qs, p, v) /\ Retyped(m, l, t, rs)
    BY DEF Sets
  <1>2. IsList(ss) /\ IsList(w)
    BY ListMore DEF SetsAgree
  <1>3. \A u, q : SetIn(w, u, q) = IF u = t /\ q = p THEN v ELSE SetIn(ss, u, q)
    BY <1>2, SetMore
  <1>4. \A q : SomeDefaults(log, ss, q) \subseteq SomeDefaults(log, w, q)
    BY <1>2, SetMore
  <1> HIDE DEF w, ps
  <1>5. IsLibrary(m) /\ \A u : u \in DOMAIN m.types <=> u # "" /\ About(log, "hrc", u) # {}
    BY <1>1 DEF Retyped, SetsAgree
  <1>6. ASSUME NEW u \in DOMAIN m.types, NEW q PROVE Holds(m.types[u].params, log, w, u, q)
    <2>1. CASE u # t
      <3>1. u \in DOMAIN l.types /\ m.types[u].params = l.types[u].params
        BY <1>1, <2>1 DEF Retyped
      <3>2. Holds(l.types[u].params, log, ss, u, q)
        BY <3>1 DEF SetsAgree
      <3> QED
        BY <1>3, <1>4, <2>1, <3>1, <3>2 DEF Holds
    <2>a. m.types[t].params = rs /\ Holds(ps, log, ss, t, q)
      BY <1>1 DEF Retyped, SetsAgree, ps
    <2>b. /\ DOMAIN rs = DOMAIN ps \cup {p} /\ \A r \in DOMAIN ps : qs[r] = ps[r]
          /\ rs[p].user = v /\ rs[p].value = qs[p].value
          /\ p \notin DOMAIN ps => qs[p].value = d
          /\ \A r \in DOMAIN ps : r # p => rs[r] = ps[r]
      BY <1>1 DEF UserSet, WithParam, ps
    <2>2. CASE u = t /\ q # p
      <3>1. q \in DOMAIN rs <=> q \in DOMAIN ps
        BY <2>2, <2>b
      <3>2. q \in DOMAIN ps => rs[q] = ps[q]
        BY <2>2, <2>b
      <3>3. Holds(rs, log, w, t, q)
        BY <1>3, <1>4, <2>2, <2>a, <3>1, <3>2 DEF Holds
      <3> QED
        BY <2>2, <2>a, <3>3
    <2>3. CASE u = t /\ q = p
      <3>1. p \in DOMAIN rs /\ rs[p].user = SetIn(w, t, p)
        BY <1>3, <2>b
      <3>2. CASE p \in DOMAIN ps
        <4>1. rs[p].value = ps[p].value
          BY <2>b, <3>2
        <4>2. Holds(rs, log, w, t, p)
          BY <1>4, <2>3, <2>a, <3>1, <3>2, <4>1 DEF Holds
        <4> QED
          BY <2>3, <2>a, <4>2
      <3>3. CASE p \notin DOMAIN ps
        <4>1. rs[p].value = d
          BY <2>b, <3>3
        <4>2. Says(log, t, p) = NoText
          BY <2>3, <2>a, <3>3 DEF Holds
        <4>3. t # "default" /\ Says(log, "default", p) # NoText /\ d \in SomeDefaults(log, w, p) \ {NoText}
          BY <1>4, <3>3 DEF ps
        <4>4. Holds(rs, log, w, t, p)
          BY <3>1, <4>1, <4>2, <4>3 DEF Holds
        <4> QED
          BY <2>3, <2>a, <4>4
      <3> QED
        BY <3>2, <3>3
    <2> QED
      BY <2>1, <2>2, <2>3
  <1> QED
    BY <1>2, <1>5, <1>6 DEF SetsAgree, w

(* colorer_set_file_type_param: one the type lacks gets the value of       *)
(* "default" as its default.                                               *)
LEMMA SetAgrees ==
  ASSUME NEW l, NEW log, NEW ss, SetsAgree(l, log, ss), NEW t \in DOMAIN l.types, NEW p, NEW v,
         ~(Lacks(l, t, p) /\ Lacks(l, "default", p))
  PROVE  SetsAgree(SetFileTypeParam(l, t, p, v), log, Append(ss, <<t, p, v>>))
  <1> DEFINE ps == l.types[t].params
             d == GetParamValue(l, "default", p)
             qs == AddParam(ps, p, d)
             m == SetFileTypeParam(l, t, p, v)
  <1>1. IsLibrary(l) /\ AreParams(ps)
    BY DEF SetsAgree, IsLibrary
  <1>2. Sets(m, l, t, p, v, qs)
    BY <1>1, SetIs
  <1>3. WithParam(qs, ps, p, d)
    BY <1>1, AddParamIs
  <1>4. ASSUME p \notin DOMAIN ps
        PROVE  t # "default" /\ Says(log, "default", p) # NoText
               /\ d \in SomeDefaults(log, ss, p) \ {NoText}
    <2>1. Lacks(l, t, p)
      BY <1>4 DEF Lacks, GetParamValue, ParamsOf
    <2>2. d # NoText
      BY <2>1 DEF Lacks
    <2>3. /\ p \in DOMAIN l.types["default"].params
          /\ Says(log, "default", p) # NoText /\ d \in SomeDefaults(log, ss, p) \ {NoText}
      BY <2>2, DefaultGives
    <2> QED
      BY <1>4, <2>3
  <1> HIDE DEF m, qs, d
  <1> QED
    BY <1>2, <1>3, <1>4, WrittenAgrees DEF m

(* The value is taken back, the parameter stays.                           *)
LEMMA ResetAgrees ==
  ASSUME NEW l, NEW log, NEW ss, SetsAgree(l, log, ss), NEW t \in DOMAIN l.types, NEW p,
         ~Lacks(l, t, p)
  PROVE  SetsAgree(ResetFileTypeParam(l, t, p), log, Append(ss, <<t, p, NoText>>))
  <1> DEFINE ps == l.types[t].params
             m == ResetFileTypeParam(l, t, p)
  <1>1. IsLibrary(l) /\ AreParams(ps)
    BY DEF SetsAgree, IsLibrary
  <1>2. p \in DOMAIN ps
    BY DEF Lacks, GetParamValue, ParamsOf
  <1>3. Sets(m, l, t, p, NoText, ps)
    BY <1>1, <1>2, ResetIs
  <1>4. WithParam(ps, ps, p, NoText)
    BY <1>1, <1>2 DEF WithParam
  <1> HIDE DEF m
  <1> QED
    BY <1>2, <1>3, <1>4, WrittenAgrees DEF m

(* Loading a type changes no parameter.                                    *)
LEMMA LoadAgrees ==
  ASSUME NEW l, NEW log, NEW ss, SetsAgree(l, log, ss), NEW t
  PROVE  SetsAgree(LoadFileType(l, t), log, ss)
  <1> DEFINE m == LoadFileType(l, t)
  <1>1. m.types = l.types /\ {"order", "types", "loaded", "compiled"} \subseteq DOMAIN m
    BY DEF LoadFileType, SetsAgree, IsLibrary
  <1> HIDE DEF m
  <1>2. IsLibrary(m)
    BY <1>1 DEF SetsAgree, IsLibrary
  <1> QED
    BY <1>1, <1>2 DEF SetsAgree, m

(* A session that opens has set nothing.                                   *)
LEMMA OpenAgrees ==
  ASSUME NEW l, NEW log, FilesAgree(l, log)
  PROVE  SetsAgree(l, log, <<>>)
  <1>1. IsList(<<>>) /\ \A t, p : SetIn(<<>>, t, p) = NoText
    BY DEF IsList, SetIn
  <1>2. ASSUME NEW t \in DOMAIN l.types, NEW p PROVE Holds(l.types[t].params, log, <<>>, t, p)
    <2>1. AgreeOn(l.types[t].params, log, t, p)
      BY DEF FilesAgree
    <2> QED
      BY <1>1, <2>1 DEF AgreeOn, Holds
  <1> QED
    BY <1>1, <1>2 DEF FilesAgree, SetsAgree

-----------------------------------------------------------------------------
(* The user's files that wait are files that parse, or are not.            *)
IsLoad(u) ==
  /\ u.option \in {"settings", "hrd", "hrc", "userSettings"}
  /\ u.option # "hrd" => u.path.content = Bad \/ AreElements(u.path.content)
  /\ u.option = "hrd" => u.path.content = Bad \/ AreStyles(u.path.content)
AreLoads(us) == IsList(us) /\ \A i \in DOMAIN us : IsLoad(us[i])

LEMMA LoadsMore ==
  ASSUME NEW us, AreLoads(us), NEW u, IsLoad(u)
  PROVE  AreLoads(Append(us, u))
  <1> DEFINE n == Len(us)
             w == Append(us, u)
  <1>1. n \in Nat /\ DOMAIN us = 1 .. n
    BY ListIs DEF AreLoads
  <1>2. /\ IsList(w) /\ Len(w) = n + 1 /\ w[n + 1] = u
        /\ \A i \in 1 .. n : w[i] = us[i]
    BY ListMore DEF AreLoads
  <1> HIDE DEF w, n
  <1>3. DOMAIN w = 1 .. n + 1
    BY <1>2, ListIs
  <1>4. \A i : i \in 1 .. n + 1 <=> i \in 1 .. n \/ i = n + 1
    BY <1>1
  <1> QED
    BY <1>1, <1>2, <1>3, <1>4 DEF AreLoads, w

LEMMA LoadsLess ==
  ASSUME NEW us, AreLoads(us), us # <<>>
  PROVE  IsLoad(Head(us)) /\ AreLoads(Tail(us))
  <1> DEFINE V == {us[i] : i \in DOMAIN us}
             w == Tail(us)
  <1>1. us \in Seq(V)
    BY DEF AreLoads, IsList
  <1>2. \A v \in V : IsLoad(v)
    BY DEF AreLoads
  <1> HIDE DEF V
  <1>3. Head(us) \in V /\ w \in Seq(V)
    BY <1>1
  <1> HIDE DEF w
  <1>4. DOMAIN w = 1 .. Len(w) /\ \A i \in DOMAIN w : w[i] \in V
    BY <1>3
  <1>5. IsList(w)
    <2> DEFINE W == {w[j] : j \in DOMAIN w}
    <2>1. \A i \in 1 .. Len(w) : w[i] \in W
      BY <1>4
    <2> HIDE DEF W
    <2>2. w \in Seq(W)
      BY <1>3, <2>1
    <2> QED
      BY <2>2 DEF IsList, W
  <1> QED
    BY <1>2, <1>3, <1>4, <1>5 DEF AreLoads, w

(* What is mounted is what the host gave.                                  *)
LEMMA MountsAreLoads ==
  ASSUME NEW given \in Paths
  PROVE  AreLoads(Mounts(given))
  <1> DEFINE k == [fold |-> "mounts", given |-> given]
             all == {"settings", "hrd", "hrc", "userSettings"}
  <1>0. Options \in Seq(all) /\ Len(Options) = 4 /\ \A i \in 1 .. 4 : Options[i] \in all
    BY DEF Options
  <1>1. PICK g : Steps(g, k, <<>>, Options) /\ Mounts(given) = g[4]
    <2>1. Mounts(given) = Fold(k, <<>>, Options)
      BY FoldsAre
    <2> HIDE DEF k, all
    <2>2. \E g : Steps(g, k, <<>>, Options) /\ Fold(k, <<>>, Options) = g[Len(Options)]
      BY <1>0, FoldIs
    <2> QED
      BY <1>0, <2>1, <2>2
  <1>2. \A a, b : Op(k, a, b) =
                    IF Mounted(b, given[b]) THEN Append(a, [option |-> b, path |-> given[b]]) ELSE a
    BY DEF Op
  <1> HIDE DEF k
  <1>3. g[0] = <<>> /\ \A i \in 1 .. 4 : g[i] = Op(k, g[i - 1], Options[i])
    BY <1>0, <1>1 DEF Steps
  <1>4. ASSUME NEW a, AreLoads(a), NEW o \in all PROVE AreLoads(Op(k, a, o))
    <2> DEFINE u == [option |-> o, path |-> given[o]]
    <2>1. CASE ~Mounted(o, given[o])
      BY <1>2, <1>4, <2>1
    <2>2. CASE Mounted(o, given[o])
      <3>1. given[o] # NoPath
        BY <2>2 DEF Mounted
      <3>2. o # "hrd" => given[o].content = Bad \/ AreElements(given[o].content)
        BY <3>1, FilesAssumption
      <3>s. o = "hrd" => given[o].content = Bad \/ AreStyles(given[o].content)
        BY <3>1, StylesAssumption
      <3>3. IsLoad(u)
        BY <3>2, <3>s DEF IsLoad
      <3> HIDE DEF u
      <3>4. AreLoads(Append(a, u))
        BY <1>4, <3>3, LoadsMore
      <3> QED
        BY <1>2, <2>2, <3>4 DEF u
    <2> QED
      BY <2>1, <2>2
  <1> HIDE DEF all
  <1>5. AreLoads(<<>>)
    BY DEF AreLoads, IsList
  <1>6. \A i \in 1 .. 4 : AreLoads(g[i - 1]) => AreLoads(g[i])
    BY <1>0, <1>3, <1>4
  <1>7. AreLoads(g[0])
    BY <1>3, <1>5
  <1>8. AreLoads(g[1])
    <2>1. 1 \in 1 .. 4 /\ 1 - 1 = 0
      OBVIOUS
    <2> QED
      BY <1>6, <1>7, <2>1
  <1>9. AreLoads(g[2])
    <2>1. 2 \in 1 .. 4 /\ 2 - 1 = 1
      OBVIOUS
    <2> QED
      BY <1>6, <1>8, <2>1
  <1>10. AreLoads(g[3])
    <2>1. 3 \in 1 .. 4 /\ 3 - 1 = 2
      OBVIOUS
    <2> QED
      BY <1>6, <1>9, <2>1
  <1>11. AreLoads(g[4])
    <2>1. 4 \in 1 .. 4 /\ 4 - 1 = 3
      OBVIOUS
    <2> QED
      BY <1>6, <1>10, <2>1
  <1> QED
    BY <1>1, <1>11

-----------------------------------------------------------------------------
(* The invariant of a session.                                             *)

ParamsInv ==
  /\ stage \in {"new", "loading", "failed"} => answer = Nil
  /\ stage \in {"new", "loading"} => sets = <<>>
  /\ stage = "loading" => FilesAgree(lib, said) /\ AreLoads(loads)
  /\ stage = "open" => SetsAgree(lib, said, sets) /\ IsList(said)
  /\ stage \in {"new", "loading", "open", "failed"}

(* A parameter the files give a value is one they name.                    *)
LEMMA SaidNames ==
  ASSUME NEW t, NEW p, IsList(said), FilesSay(t, p) # NoText
  PROVE  p \in ParamsSaid
  <1> DEFINE A == About(said, "hrc", t)
             L == LaterSettings(said, t, p)
             n == Len(said)
  <1>1. /\ n \in Nat /\ DOMAIN said = 1 .. n /\ A \in SUBSET (1 .. n) /\ L \in SUBSET (1 .. n)
    <2>1. n \in Nat /\ DOMAIN said = 1 .. n
      BY ListIs
    <2> QED
      BY <2>1 DEF About, LaterSettings
  <1>2. /\ A # {}
        /\ L # {} \/ Items(said[Max(A)], p) # {}
    BY SaysIs DEF Says
  <1>3. \E i \in DOMAIN said : Items(said[i], p) # {}
    <2>1. CASE L # {}
      BY <1>1, <2>1 DEF LaterSettings
    <2>2. CASE L = {}
      <3> HIDE DEF A, L, n
      <3>1. Max(A) \in 1 .. n
        BY <1>1, <1>2, Greatest
      <3> QED
        BY <1>1, <1>2, <2>2, <3>1
    <2> QED
      BY <2>1, <2>2
  <1>4. PICK i \in DOMAIN said : Items(said[i], p) # {}
    BY <1>3
  <1>5. PICK j \in DOMAIN said[i].of.items : said[i].of.items[j].name = p
    BY <1>4 DEF Items
  <1> QED
    BY <1>5 DEF ParamsSaid

(* What one parameter answers.                                             *)
LEMMA ValueExpected ==
  ASSUME SetsAgree(lib, said, sets), NEW t \in DOMAIN lib.types, NEW p \in DOMAIN lib.types[t].params
  PROVE  /\ GetParamValue(lib, t, p) # NoText => Expected(t, p, GetParamValue(lib, t, p))
         /\ GetParamValue(lib, t, p) # NoText
         /\ GetParamUserValue(lib, t, p) = SetTo(t, p)
         /\ FilesSay(t, p) # NoText => GetParamDefaultValue(lib, t, p) = FilesSay(t, p)
         /\ FilesSay(t, p) = NoText => FilesSay("default", p) # NoText
  <1> DEFINE ps == lib.types[t].params
  <1>1. Holds(ps, said, sets, t, p)
    BY DEF SetsAgree
  <1>2. /\ Says(said, t, p) = FilesSay(t, p) /\ Says(said, "default", p) = FilesSay("default", p)
        /\ SetIn(sets, t, p) = SetTo(t, p) /\ SomeDefaults(said, sets, p) = DefaultsOf(p)
    BY SaysIs, SetToIs, DefaultsAre DEF SetNow
  <1>3. /\ GetParamValue(lib, t, p) = IF ps[p].user # NoText THEN ps[p].user ELSE ps[p].value
        /\ GetParamUserValue(lib, t, p) = ps[p].user /\ GetParamDefaultValue(lib, t, p) = ps[p].value
    BY DEF GetParamValue, GetParamUserValue, GetParamDefaultValue, Has, ParamsOf
  <1>4. /\ FilesSay(t, p) # NoText => ps[p].value = FilesSay(t, p)
        /\ FilesSay(t, p) = NoText =>
             t # "default" /\ FilesSay("default", p) # NoText /\ ps[p].value \in DefaultsOf(p) \ {NoText}
        /\ ps[p].user = SetTo(t, p)
    BY <1>1, <1>2 DEF Holds
  <1>5. ps[p].value # NoText
    BY <1>4
  <1> HIDE DEF ps
  <1> QED
    BY <1>3, <1>4, <1>5 DEF Expected

(* What the list answers.                                                  *)
LEMMA ListAgrees ==
  ASSUME SetsAgree(lib, said, sets), IsList(said), NEW t \in DOMAIN lib.types
  PROVE  LET list == FileTypeParams(lib, t)
         IN  /\ DOMAIN list = {p \in ParamsSaid : {FilesSay(t, p), FilesSay("default", p)} # {NoText}}
             /\ \A p \in DOMAIN list :
                  /\ Expected(t, p, list[p].value)
                  /\ list[p].userSet = (SetTo(t, p) # NoText)
                  /\ FilesSay(t, p) # NoText => list[p].default = FilesSay(t, p)
  <1> DEFINE list == FileTypeParams(lib, t)
             ps == lib.types[t].params
             D == IF "default" \in DOMAIN lib.types THEN DOMAIN lib.types["default"].params ELSE {}
  <1>1. DOMAIN list = DOMAIN ps \cup D
    BY DEF FileTypeParams, ListedParams, ParamsOf, Has
  <1>2. \A u, p : /\ Says(said, u, p) = FilesSay(u, p)
                  /\ SetIn(sets, u, p) = SetTo(u, p) /\ SomeDefaults(said, sets, p) = DefaultsOf(p)
    BY SaysIs, SetToIs, DefaultsAre DEF SetNow
  <1>3. \A u \in DOMAIN lib.types : \A p : Holds(lib.types[u].params, said, sets, u, p)
    BY DEF SetsAgree
  <1>4. \A u, p : FilesSay(u, p) # NoText => u \in DOMAIN lib.types
    <2>1. \A u, p : Says(said, u, p) # NoText => u # "" /\ About(said, "hrc", u) # {}
      BY DEF Says
    <2> QED
      BY <1>2, <2>1 DEF SetsAgree
  <1>5. \A p : p \in D <=> FilesSay("default", p) # NoText
    BY <1>2, <1>3, <1>4 DEF Holds
  <1>6. \A p : p \in DOMAIN ps \/ p \in D <=> FilesSay(t, p) # NoText \/ FilesSay("default", p) # NoText
    BY <1>2, <1>3, <1>5 DEF Holds
  <1>7. \A p : FilesSay(t, p) # NoText \/ FilesSay("default", p) # NoText => p \in ParamsSaid
    BY SaidNames
  <1>8. DOMAIN list = {p \in ParamsSaid : {FilesSay(t, p), FilesSay("default", p)} # {NoText}}
    <2>1. \A p : {FilesSay(t, p), FilesSay("default", p)} # {NoText}
                   <=> FilesSay(t, p) # NoText \/ FilesSay("default", p) # NoText
      OBVIOUS
    <2> HIDE DEF D, list, ps
    <2> QED
      BY <1>1, <1>6, <1>7, <2>1
  <1>9. ASSUME NEW p \in DOMAIN list
        PROVE  /\ Expected(t, p, list[p].value)
               /\ list[p].userSet = (SetTo(t, p) # NoText)
               /\ FilesSay(t, p) # NoText => list[p].default = FilesSay(t, p)
    <2> DEFINE v == GetParamValue(lib, t, p)
               d == GetParamValue(lib, "default", p)
    <2>1. list[p] = ParamInfo(lib, t, p)
      BY DEF FileTypeParams
    <2> HIDE DEF list
    <2>2. /\ list[p].value = Or(v, d) /\ list[p].default = Or(GetParamDefaultValue(lib, t, p), d)
          /\ list[p].userSet = (GetParamUserValue(lib, t, p) # NoText)
      BY <2>1 DEF ParamInfo
    <2>3. CASE p \in DOMAIN ps
      <3>1. /\ v # NoText /\ Expected(t, p, v) /\ GetParamUserValue(lib, t, p) = SetTo(t, p)
            /\ FilesSay(t, p) # NoText => GetParamDefaultValue(lib, t, p) = FilesSay(t, p)
        BY <2>3, ValueExpected
      <3> QED
        BY <2>2, <3>1 DEF Or
    <2>4. CASE p \notin DOMAIN ps
      <3>1. /\ v = NoText /\ GetParamUserValue(lib, t, p) = NoText
            /\ GetParamDefaultValue(lib, t, p) = NoText
        BY <2>4 DEF GetParamValue, GetParamUserValue, GetParamDefaultValue, ParamsOf
      <3>2. SetTo(t, p) = NoText /\ FilesSay(t, p) = NoText
        BY <1>2, <1>3, <2>4 DEF Holds
      <3>3. "default" \in DOMAIN lib.types /\ p \in DOMAIN lib.types["default"].params
        BY <1>1, <2>4
      <3>4. d # NoText
        BY <3>3, ValueExpected
      <3>5. d \in DefaultsOf(p)
        BY <1>2, <3>4, DefaultGives
      <3> QED
        BY <2>2, <3>1, <3>2, <3>4, <3>5 DEF Or, Expected
    <2> QED
      BY <2>3, <2>4
  <1> QED
    BY <1>8, <1>9

-----------------------------------------------------------------------------
(* The methods that leave parameters alone.                                *)
Quiet ==
  /\ stage = "open" /\ said' = said /\ sets' = sets
  /\ stage' = "open" \/ (stage' = "failed" /\ answer' = Nil)
  /\ lib' = lib \/ \E t : lib' = LoadFileType(lib, t)
  /\ answer'.call \notin {"params", "param"}

(* They keep the invariant.                                                *)
LEMMA QuietKeeps ==
  ASSUME ParamsInv, Quiet
  PROVE  ParamsInv' /\ ParamsReported'
  <1>1. SetsAgree(lib', said', sets')
    <2>1. SetsAgree(lib, said, sets)
      BY DEF ParamsInv, Quiet
    <2>2. CASE lib' = lib
      BY <2>1, <2>2 DEF Quiet
    <2>3. CASE \E t : lib' = LoadFileType(lib, t)
      BY <2>1, <2>3, LoadAgrees DEF Quiet
    <2> QED
      BY <2>2, <2>3 DEF Quiet
  <1>2. IsList(said')
    BY DEF ParamsInv, Quiet
  <1>3. ParamsInv'
    <2>1. CASE stage' = "open"
      BY <1>1, <1>2, <2>1 DEF ParamsInv
    <2>2. CASE stage' = "failed" /\ answer' = Nil
      BY <2>2 DEF ParamsInv
    <2> QED
      BY <2>1, <2>2 DEF Quiet
  <1>4. ParamsReported'
    BY DEF ParamsReported, Quiet
  <1> QED
    BY <1>3, <1>4

(* Which methods these are.                                                *)
LEMMA QuietMethods ==
  ASSUME \/ \E class \in Names.class :
              EnumHRDInstances(class) \/ \E name \in Names.style : SetHRD(class, name)
         \/ \E region \in Names.region : GetRegionDefineOf(region)
         \/ \E file \in Names.file, first \in Names.first : SelectType(file, first)
         \/ FileType \/ Types
         \/ \E t \in Names.type : SetFileType(t) \/ LoadType(t)
         \/ \E line \in Lines : ParseLine(line)
         \/ LineOutline \/ Reset
  PROVE  Quiet
  <1>1. ASSUME NEW class, EnumHRDInstances(class) PROVE Quiet
    BY <1>1 DEF EnumHRDInstances, Method, Returns, Answer, Quiet
  <1>2. ASSUME NEW class, NEW name, SetHRD(class, name) PROVE Quiet
    BY <1>2 DEF SetHRD, Method, Returns, Answer, Fatal, Nil, Quiet
  <1>3. ASSUME NEW region, GetRegionDefineOf(region) PROVE Quiet
    BY <1>3 DEF GetRegionDefineOf, Method, Returns, Answer, Quiet
  <1>4. ASSUME NEW file, NEW first, SelectType(file, first) PROVE Quiet
    BY <1>4 DEF SelectType, Method, Returns, Answer, Fatal, Nil, GiveType, Quiet
  <1>5. ASSUME FileType \/ Types PROVE Quiet
    BY <1>5 DEF FileType, Types, Method, Returns, Answer, Quiet
  <1>6. ASSUME NEW t, SetFileType(t) PROVE Quiet
    BY <1>6 DEF SetFileType, Method, Returns, Answer, Fatal, Nil, GiveType, Quiet
  <1>7. ASSUME NEW t, LoadType(t) PROVE Quiet
    BY <1>7 DEF LoadType, Method, Returns, Answer, Fatal, Nil, Quiet
  <1>8. ASSUME NEW line, ParseLine(line) PROVE Quiet
    BY <1>8 DEF ParseLine, Method, Returns, Answer, Quiet
  <1>9. ASSUME LineOutline PROVE Quiet
    BY <1>9 DEF LineOutline, Method, Returns, Answer, Quiet
  <1>10. ASSUME Reset PROVE Quiet
    BY <1>10 DEF Reset, Method, Returns, Answer, Quiet
  <1> QED
    BY <1>1, <1>2, <1>3, <1>4, <1>5, <1>6, <1>7, <1>8, <1>9, <1>10

(* A file loaded.                                                          *)
LEMMA PathAgrees ==
  ASSUME FilesAgree(lib, said), NEW u, IsLoad(u), u.option # "hrd", u.path.content # Bad
  PROVE  FilesAgree(
           CASE u.option = "hrc" -> LoadHrcPath(lib, u.path)
             [] u.option = "hrd" -> lib
             [] OTHER -> LoadSettings(lib, u.path),
           said \o Sayings(IF u.option = "hrc" THEN "hrc" ELSE "settings", u.path.content))
  <1>1. AreElements(u.path.content)
    BY DEF IsLoad
  <1>2. CASE u.option = "hrc"
    <2>1. FilesAgree(LoadHrcPath(lib, u.path), said \o Sayings("hrc", u.path.content))
      BY <1>1, HrcAgrees DEF LoadHrcPath
    <2> QED
      BY <1>2, <2>1
  <1>3. CASE u.option # "hrc"
    <2>1. FilesAgree(LoadSettings(lib, u.path), said \o Sayings("settings", u.path.content))
      BY <1>1, FileSettingsAgree DEF LoadSettings
    <2> QED
      BY <1>3, <2>1
  <1> QED
    BY <1>2, <1>3

(* What was said and set is what the answers are measured by.              *)
LEMMA SaidAndSet ==
  ASSUME said' = said, sets' = sets
  PROVE  /\ \A t, p : FilesSay(t, p)' = FilesSay(t, p)
         /\ \A t, p : SetTo(t, p)' = SetTo(t, p)
         /\ ParamsSaid' = ParamsSaid
         /\ \A t, p, x : Expected(t, p, x)' = Expected(t, p, x)
  <1>1. \A t, p : FilesSay(t, p)' = FilesSay(t, p)
    BY DEF FilesSay
  <1>2. \A t, p : SetTo(t, p)' = SetTo(t, p)
    BY DEF SetTo
  <1>3. ParamsSaid' = ParamsSaid
    BY DEF ParamsSaid
  <1>4. \A p : DefaultsOf(p)' = DefaultsOf(p)
    BY <1>1 DEF DefaultsOf
  <1>5. \A t, p, x : Expected(t, p, x)' = Expected(t, p, x)
    BY <1>1, <1>2, <1>4 DEF Expected
  <1> QED
    BY <1>1, <1>2, <1>3, <1>5

(* The invariant holds at first, and every step keeps it.                  *)
LEMMA ParamsInit == Init => ParamsInv /\ ParamsReported
  BY DEF Init, ParamsInv, ParamsReported, Nil

LEMMA ParamsNext ==
  ASSUME ParamsInv, ParamsReported, [Next]_vars
  PROVE  ParamsInv' /\ ParamsReported'
  <1>1. CASE NewSession
    <2>1. /\ stage' = "loading" /\ answer' = Nil /\ sets' = <<>>
          /\ lib' = LoadCatalog /\ said' = Sayings("hrc", Catalog.types)
      BY <1>1 DEF NewSession, ParamsInv
    <2>2. AreLoads(loads')
      BY <1>1, MountsAreLoads DEF NewSession
    <2>3. FilesAgree(lib', said')
      BY <2>1, CatalogAgrees
    <2> QED
      BY <2>1, <2>2, <2>3 DEF ParamsInv, ParamsReported, Nil
  <1>2. CASE LoadUserPath
    <2> DEFINE u == Head(loads)
    <2>1. /\ stage = "loading" /\ answer' = Nil /\ sets' = <<>>
          /\ IsLoad(u) /\ AreLoads(Tail(loads)) /\ FilesAgree(lib, said)
      BY <1>2, LoadsLess DEF LoadUserPath, ParamsInv
    <2>2. CASE Torn(u)
      <3>1. stage' = "failed"
        BY <1>2, <2>2 DEF LoadUserPath
      <3> QED
        BY <2>1, <3>1 DEF ParamsInv, ParamsReported, Nil
    <2>3. CASE ~Torn(u)
      <3> HIDE DEF u
      <3>1. /\ stage' = "loading" /\ loads' = Tail(loads)
            /\ lib' = CASE u.option = "hrc" -> LoadHrcPath(lib, u.path)
                        [] u.option = "hrd" -> lib
                        [] OTHER -> LoadSettings(lib, u.path)
            /\ said' = IF u.option = "hrd" THEN said
                       ELSE said \o Sayings(IF u.option = "hrc" THEN "hrc" ELSE "settings", u.path.content)
        BY <1>2, <2>3 DEF LoadUserPath, u
      <3>2. FilesAgree(lib', said')
        <4>1. CASE u.option = "hrd"
          <5>1. lib' = lib /\ said' = said
            BY <3>1, <4>1
          <5> QED
            BY <2>1, <5>1
        <4>2. CASE u.option # "hrd"
          <5>1. u.path.content # Bad
            BY <2>3 DEF Torn
          <5>2. FilesAgree(
                  CASE u.option = "hrc" -> LoadHrcPath(lib, u.path)
                    [] u.option = "hrd" -> lib
                    [] OTHER -> LoadSettings(lib, u.path),
                  said \o Sayings(IF u.option = "hrc" THEN "hrc" ELSE "settings", u.path.content))
            BY <2>1, <4>2, <5>1, PathAgrees
          <5> QED
            BY <3>1, <4>2, <5>2
        <4> QED
          BY <4>1, <4>2
      <3> QED
        BY <2>1, <3>1, <3>2 DEF ParamsInv, ParamsReported, Nil
    <2> QED
      BY <2>2, <2>3
  <1>3. CASE Opened
    <2>1. stage = "loading" /\ stage' = "open" /\ UNCHANGED <<lib, said, sets, answer>>
      BY <1>3 DEF Opened
    <2>2. SetsAgree(lib, said, sets) /\ IsList(said)
      BY <2>1, OpenAgrees DEF ParamsInv, FilesAgree, IsLog
    <2>3. ParamsInv'
      BY <2>1, <2>2 DEF ParamsInv
    <2>4. ParamsReported'
      BY <2>1 DEF ParamsInv, ParamsReported, Nil
    <2> QED
      BY <2>3, <2>4
  <1>4. ASSUME NEW t, NEW p, FileTypeParam(t, p) PROVE ParamsInv' /\ ParamsReported'
    <2> DEFINE v == GetParamValue(lib, t, p)
    <2>1. /\ stage = "open" /\ stage' = "open" /\ UNCHANGED <<lib, said, sets>>
          /\ answer'.call = "param"
          /\ answer'.value = [type |-> t, param |-> p, value |-> v]
      BY <1>4 DEF FileTypeParam, Method, Returns, Answer
    <2>2. SetsAgree(lib, said, sets) /\ IsList(said)
      BY <2>1 DEF ParamsInv
    <2>3. ParamsInv'
      BY <2>1, <2>2 DEF ParamsInv
    <2>4. v # NoText => Expected(t, p, v)
      <3> SUFFICES ASSUME v # NoText PROVE Expected(t, p, v)
        OBVIOUS
      <3>1. t \in DOMAIN lib.types /\ p \in DOMAIN lib.types[t].params
        BY DEF GetParamValue, Has, ParamsOf
      <3> QED
        BY <2>2, <3>1, ValueExpected
    <2> HIDE DEF v
    <2>a. /\ answer'.value.type = t /\ answer'.value.param = p /\ answer'.value.value = v
          /\ answer'.call # "params"
      BY <2>1
    <2>5. \A x : Expected(t, p, x)' = Expected(t, p, x)
      BY <2>1, SaidAndSet
    <2>6. ParamsReported'
      BY <2>1, <2>a, <2>4, <2>5 DEF ParamsReported
    <2> QED
      BY <2>3, <2>6
  <1>5. ASSUME NEW t, ListParams(t) PROVE ParamsInv' /\ ParamsReported'
    <2> DEFINE list == FileTypeParams(lib, t)
    <2>1. /\ stage = "open" /\ stage' = "open" /\ UNCHANGED <<lib, said, sets>>
          /\ answer'.call = "params"
          /\ answer'.value = IF t \in DOMAIN lib.types THEN [type |-> t, list |-> list] ELSE NoType
      BY <1>5 DEF ListParams, Method, Returns, Answer, Has
    <2>2. SetsAgree(lib, said, sets) /\ IsList(said)
      BY <2>1 DEF ParamsInv
    <2>3. ParamsInv'
      BY <2>1, <2>2 DEF ParamsInv
    <2>4. CASE t \notin DOMAIN lib.types
      <3>1. ParamsReported'
        BY <2>1, <2>4 DEF ParamsReported
      <3> QED
        BY <2>3, <3>1
    <2>5. CASE t \in DOMAIN lib.types
      <3>1. /\ DOMAIN list = {p \in ParamsSaid : {FilesSay(t, p), FilesSay("default", p)} # {NoText}}
            /\ \A p \in DOMAIN list :
                 /\ Expected(t, p, list[p].value)
                 /\ list[p].userSet = (SetTo(t, p) # NoText)
                 /\ FilesSay(t, p) # NoText => list[p].default = FilesSay(t, p)
        BY <2>2, <2>5, ListAgrees
      <3> HIDE DEF list
      <3>2. /\ answer'.value.type = t /\ answer'.value.list = list
        BY <2>1, <2>5
      <3>3. /\ \A p : FilesSay(t, p)' = FilesSay(t, p) /\ SetTo(t, p)' = SetTo(t, p)
            /\ \A p : FilesSay("default", p)' = FilesSay("default", p)
            /\ ParamsSaid' = ParamsSaid /\ \A p, v : Expected(t, p, v)' = Expected(t, p, v)
        BY <2>1, SaidAndSet
      <3>4. ParamsReported'
        BY <2>1, <3>1, <3>2, <3>3 DEF ParamsReported
      <3> QED
        BY <2>3, <3>4
    <2> QED
      BY <2>4, <2>5
  <1>6. ASSUME NEW t, NEW p, NEW v, SetParam(t, p, v) PROVE ParamsInv' /\ ParamsReported'
    <2>1. /\ stage = "open" /\ stage' = "open" /\ said' = said /\ answer'.call = "set"
          /\ SetsAgree(lib, said, sets) /\ IsList(said)
      BY <1>6 DEF SetParam, Method, Returns, Answer, ParamsInv
    <2>2. SetsAgree(lib', said', sets')
      <3>1. CASE ~Has(lib, t) \/ (Lacks(lib, t, p) /\ Lacks(lib, "default", p))
        <4>1. lib' = lib /\ sets' = sets
          BY <1>6, <3>1 DEF SetParam
        <4> QED
          BY <2>1, <4>1
      <3>2. CASE ~(~Has(lib, t) \/ (Lacks(lib, t, p) /\ Lacks(lib, "default", p)))
        <4>1. lib' = SetFileTypeParam(lib, t, p, v) /\ sets' = Append(sets, <<t, p, v>>)
          BY <1>6, <3>2 DEF SetParam
        <4>2. SetsAgree(SetFileTypeParam(lib, t, p, v), said, Append(sets, <<t, p, v>>))
          BY <2>1, <3>2, SetAgrees DEF Has
        <4> QED
          BY <2>1, <4>1, <4>2
      <3> QED
        BY <3>1, <3>2
    <2> QED
      BY <2>1, <2>2 DEF ParamsInv, ParamsReported
  <1>7. ASSUME NEW t, NEW p, ResetParam(t, p) PROVE ParamsInv' /\ ParamsReported'
    <2>1. /\ stage = "open" /\ stage' = "open" /\ said' = said /\ answer'.call = "set"
          /\ SetsAgree(lib, said, sets) /\ IsList(said)
      BY <1>7 DEF ResetParam, Method, Returns, Answer, ParamsInv
    <2>2. SetsAgree(lib', said', sets')
      <3>1. CASE ~Has(lib, t) \/ Lacks(lib, t, p)
        <4>1. lib' = lib /\ sets' = sets
          BY <1>7, <3>1 DEF ResetParam
        <4> QED
          BY <2>1, <4>1
      <3>2. CASE ~(~Has(lib, t) \/ Lacks(lib, t, p))
        <4>1. lib' = ResetFileTypeParam(lib, t, p) /\ sets' = Append(sets, <<t, p, NoText>>)
          BY <1>7, <3>2 DEF ResetParam
        <4>2. SetsAgree(ResetFileTypeParam(lib, t, p), said, Append(sets, <<t, p, NoText>>))
          BY <2>1, <3>2, ResetAgrees DEF Has
        <4> QED
          BY <2>1, <4>1, <4>2
      <3> QED
        BY <3>1, <3>2
    <2> QED
      BY <2>1, <2>2 DEF ParamsInv, ParamsReported
  <1>8. ASSUME Quiet PROVE ParamsInv' /\ ParamsReported'
    BY <1>8, QuietKeeps
  <1>9. CASE UNCHANGED vars
    <2>1. ParamsInv'
      BY <1>9 DEF vars, ParamsInv
    <2>2. UNCHANGED <<answer, said, sets>>
      BY <1>9 DEF vars
    <2>3. ParamsReported'
      <3>1. /\ \A t, p : FilesSay(t, p)' = FilesSay(t, p) /\ SetTo(t, p)' = SetTo(t, p)
            /\ ParamsSaid' = ParamsSaid /\ \A t, p, v : Expected(t, p, v)' = Expected(t, p, v)
        BY <2>2, SaidAndSet
      <3> QED
        BY <2>2, <3>1 DEF ParamsReported
    <2> QED
      BY <2>1, <2>3
  <1> QED
    BY <1>1, <1>2, <1>3, <1>4, <1>5, <1>6, <1>7, <1>8, <1>9, QuietMethods DEF Next

(* The parameters a client is told of are those the files and the client   *)
(* gave, with the values they gave last: ParamsReported, for every         *)
(* catalog, every set of user files, and every sequence of methods.        *)
THEOREM ParametersAreReported == Spec => []ParamsReported
  <1>1. Init => ParamsInv /\ ParamsReported
    BY ParamsInit
  <1>2. ParamsInv /\ ParamsReported /\ [Next]_vars => ParamsInv' /\ ParamsReported'
    BY ParamsNext
  <1> QED
    BY <1>1, <1>2, PTL DEF Spec

-----------------------------------------------------------------------------
(* Regions and what they are derived from. *)

(* Induction from a region to those derived from it.                       *)
LEMMA Ancestry ==
  ASSUME NEW S \in SUBSET Regions,
         \A r \in Regions : Parent[r] = NoRegion \/ Parent[r] \in S => r \in S
  PROVE  S = Regions
  <1> DEFINE B == Regions \ S
  <1>1. ASSUME B # {} PROVE FALSE
    <2>1. B \in (SUBSET Regions) \ {{}}
      BY <1>1
    <2>2. PICK r \in B : Parent[r] \notin B
      BY <2>1, RegionsAssumption
    <2>3. Parent[r] \in Regions \cup {NoRegion}
      BY <2>2, RegionsAssumption
    <2> QED
      BY <2>2, <2>3
  <1> QED
    BY <1>1

(* The recursive functions from a region upwards.                          *)
UpOp(k, f, r) ==
  CASE k.up = "lineage" -> {r} \cup IF Parent[r] = NoRegion THEN {} ELSE f[Parent[r]]
    [] k.up = "define" ->
         IF k.mapper.cache[r] # NoDefine THEN k.mapper.cache[r]
         ELSE IF Named(k.mapper, r) # NoDefine THEN Named(k.mapper, r)
         ELSE IF Parent[r] = NoRegion THEN NoDefine ELSE f[Parent[r]]
    [] k.up = "asked" ->
         {r} \cup IF k.mapper.cache[r] # NoDefine \/ Named(k.mapper, r) # NoDefine
                      \/ Parent[r] = NoRegion
                  THEN {} ELSE f[Parent[r]]

LEMMA UpSame ==
  ASSUME NEW k, NEW f, NEW g, NEW r, Parent[r] = NoRegion \/ f[Parent[r]] = g[Parent[r]]
  PROVE  UpOp(k, f, r) = UpOp(k, g, r)
  BY DEF UpOp

(* A function on some regions that is as it has to be.                     *)
Attempt(k, f) ==
  /\ DOMAIN f \subseteq Regions
  /\ \A r \in DOMAIN f :
       /\ Parent[r] # NoRegion => Parent[r] \in DOMAIN f
       /\ f[r] = UpOp(k, f, r)

LEMMA AttemptsAgree ==
  ASSUME NEW k, NEW f, NEW g, Attempt(k, f), Attempt(k, g), NEW r \in DOMAIN f \cap DOMAIN g
  PROVE  f[r] = g[r]
  <1> DEFINE S == {x \in Regions : x \in DOMAIN f \cap DOMAIN g => f[x] = g[x]}
  <1>1. ASSUME NEW x \in Regions, Parent[x] = NoRegion \/ Parent[x] \in S PROVE x \in S
    <2> SUFFICES ASSUME x \in DOMAIN f \cap DOMAIN g PROVE f[x] = g[x]
      OBVIOUS
    <2>1. Parent[x] = NoRegion \/ f[Parent[x]] = g[Parent[x]]
      BY <1>1 DEF Attempt
    <2>2. UpOp(k, f, x) = UpOp(k, g, x)
      BY <2>1, UpSame
    <2> QED
      BY <2>2 DEF Attempt
  <1>2. S = Regions
    <2>1. S \in SUBSET Regions
      OBVIOUS
    <2> HIDE DEF S
    <2> QED
      BY <1>1, <2>1, Ancestry
  <1> QED
    BY <1>2 DEF Attempt

LEMMA Attempted ==
  ASSUME NEW k, NEW r \in Regions
  PROVE  \E f : Attempt(k, f) /\ r \in DOMAIN f
  <1> DEFINE S == {x \in Regions : \E f : Attempt(k, f) /\ x \in DOMAIN f}
  <1>1. ASSUME NEW x \in Regions, Parent[x] = NoRegion \/ Parent[x] \in S PROVE x \in S
    <2>1. PICK f : Attempt(k, f) /\ (Parent[x] = NoRegion \/ Parent[x] \in DOMAIN f)
      <3>1. CASE Parent[x] = NoRegion
        <4> DEFINE f == [y \in {} |-> y]
        <4>1. Attempt(k, f)
          BY DEF Attempt
        <4> HIDE DEF f
        <4> QED
          BY <3>1, <4>1
      <3> QED
        BY <1>1, <3>1
    <2> DEFINE g == [y \in DOMAIN f \cup {x} |-> IF y \in DOMAIN f THEN f[y] ELSE UpOp(k, f, x)]
    <2>2. /\ DOMAIN g = DOMAIN f \cup {x} /\ \A y \in DOMAIN f : g[y] = f[y]
          /\ x \notin DOMAIN f => g[x] = UpOp(k, f, x)
      OBVIOUS
    <2> HIDE DEF g
    <2>3. \A y \in DOMAIN f : UpOp(k, g, y) = UpOp(k, f, y)
      <3> TAKE y \in DOMAIN f
      <3>1. Parent[y] = NoRegion \/ g[Parent[y]] = f[Parent[y]]
        BY <2>1, <2>2 DEF Attempt
      <3> QED
        BY <3>1, UpSame
    <2>4. UpOp(k, g, x) = UpOp(k, f, x)
      <3>1. Parent[x] = NoRegion \/ g[Parent[x]] = f[Parent[x]]
        BY <2>1, <2>2
      <3> QED
        BY <3>1, UpSame
    <2>5. Attempt(k, g)
      <3>1. DOMAIN g \subseteq Regions
        BY <2>1, <2>2 DEF Attempt
      <3>2. ASSUME NEW y \in DOMAIN g
            PROVE  (Parent[y] # NoRegion => Parent[y] \in DOMAIN g) /\ g[y] = UpOp(k, g, y)
        <4>1. CASE y \in DOMAIN f
          BY <2>1, <2>2, <2>3, <4>1 DEF Attempt
        <4>2. CASE y \notin DOMAIN f
          BY <2>1, <2>2, <2>4, <3>2, <4>2
        <4> QED
          BY <4>1, <4>2
      <3> QED
        BY <3>1, <3>2 DEF Attempt
    <2> QED
      BY <2>2, <2>5
  <1>2. S = Regions
    <2>1. S \in SUBSET Regions
      OBVIOUS
    <2> HIDE DEF S
    <2> QED
      BY <1>1, <2>1, Ancestry
  <1> QED
    BY <1>2

LEMMA UpExists ==
  ASSUME NEW k
  PROVE  \E f : f = [r \in Regions |-> UpOp(k, f, r)]
  <1> DEFINE At(r) == CHOOSE f : Attempt(k, f) /\ r \in DOMAIN f
             g == [r \in Regions |-> At(r)[r]]
  <1>1. \A r \in Regions : Attempt(k, At(r)) /\ r \in DOMAIN At(r)
    BY Attempted
  <1>2. \A r \in Regions : g[r] = At(r)[r]
    OBVIOUS
  <1>3. g = [r \in Regions |-> g[r]]
    OBVIOUS
  <1> HIDE DEF g, At
  <1>4. ASSUME NEW r \in Regions PROVE g[r] = UpOp(k, g, r)
    <2>1. At(r)[r] = UpOp(k, At(r), r)
      BY <1>1 DEF Attempt
    <2>2. Parent[r] = NoRegion \/ g[Parent[r]] = At(r)[Parent[r]]
      <3> SUFFICES ASSUME Parent[r] # NoRegion PROVE g[Parent[r]] = At(r)[Parent[r]]
        OBVIOUS
      <3> DEFINE p == Parent[r]
      <3>1. p \in Regions /\ p \in DOMAIN At(r)
        BY <1>1 DEF Attempt
      <3> HIDE DEF p
      <3>2. At(p)[p] = At(r)[p]
        BY <1>1, <3>1, AttemptsAgree
      <3> QED
        BY <1>2, <3>1, <3>2 DEF p
    <2> QED
      BY <1>2, <2>1, <2>2, UpSame
  <1> QED
    BY <1>3, <1>4

LEMMA LineageIs ==
  \A r \in Regions : Lineage[r] = {r} \cup IF Parent[r] = NoRegion THEN {} ELSE Lineage[Parent[r]]
  <1> DEFINE k == [up |-> "lineage"]
             P(f) == f = [r \in Regions |-> {r} \cup IF Parent[r] = NoRegion THEN {} ELSE f[Parent[r]]]
  <1>1. PICK f : f = [r \in Regions |-> UpOp(k, f, r)]
    BY UpExists
  <1>2. P(f)
    BY <1>1 DEF UpOp
  <1>3. Lineage = CHOOSE g : P(g)
    BY DEF Lineage
  <1>4. P(Lineage)
    BY <1>2, <1>3
  <1> QED
    BY <1>4

LEMMA DefineInIs ==
  ASSUME NEW mapper
  PROVE  \A r \in Regions :
           DefineIn(mapper)[r] =
             IF mapper.cache[r] # NoDefine THEN mapper.cache[r]
             ELSE IF Named(mapper, r) # NoDefine THEN Named(mapper, r)
             ELSE IF Parent[r] = NoRegion THEN NoDefine ELSE DefineIn(mapper)[Parent[r]]
  <1> DEFINE k == [up |-> "define", mapper |-> mapper]
             P(f) == f = [r \in Regions |->
                            IF mapper.cache[r] # NoDefine THEN mapper.cache[r]
                            ELSE IF Named(mapper, r) # NoDefine THEN Named(mapper, r)
                            ELSE IF Parent[r] = NoRegion THEN NoDefine ELSE f[Parent[r]]]
  <1>1. PICK f : f = [r \in Regions |-> UpOp(k, f, r)]
    BY UpExists
  <1>2. P(f)
    BY <1>1 DEF UpOp
  <1>3. DefineIn(mapper) = CHOOSE g : P(g)
    BY Zenon DEF DefineIn
  <1>4. P(DefineIn(mapper))
    BY <1>2, <1>3
  <1> QED
    BY <1>4

(* What Remember's walk upwards meets.                                     *)
AskedOf(mapper) ==
  CHOOSE asked : asked = [s \in Regions |->
    {s} \cup IF mapper.cache[s] # NoDefine \/ Named(mapper, s) # NoDefine
                 \/ Parent[s] = NoRegion
             THEN {} ELSE asked[Parent[s]]]

LEMMA AskedIs ==
  ASSUME NEW mapper
  PROVE  \A r \in Regions :
           AskedOf(mapper)[r] =
             {r} \cup IF mapper.cache[r] # NoDefine \/ Named(mapper, r) # NoDefine
                          \/ Parent[r] = NoRegion
                      THEN {} ELSE AskedOf(mapper)[Parent[r]]
  <1> DEFINE k == [up |-> "asked", mapper |-> mapper]
             P(f) == f = [s \in Regions |->
                            {s} \cup IF mapper.cache[s] # NoDefine \/ Named(mapper, s) # NoDefine
                                         \/ Parent[s] = NoRegion
                                     THEN {} ELSE f[Parent[s]]]
  <1>1. PICK f : f = [r \in Regions |-> UpOp(k, f, r)]
    BY UpExists
  <1>2. P(f)
    BY <1>1 DEF UpOp
  <1>3. AskedOf(mapper) = CHOOSE g : P(g)
    BY DEF AskedOf
  <1>4. P(AskedOf(mapper))
    BY <1>2, <1>3
  <1> QED
    BY <1>4

LEMMA RememberIs ==
  ASSUME NEW mapper, NEW r
  PROVE  Remember(mapper, r) = [mapper EXCEPT !.cache = [s \in Regions |->
           IF s \in AskedOf(mapper)[r] THEN DefineIn(mapper)[r] ELSE @[s]]]
  BY Zenon DEF Remember, AskedOf

(* A lineage is closed, and nobody is derived from itself.                 *)
LEMMA LineageClosed ==
  /\ \A r \in Regions : r \in Lineage[r] /\ Lineage[r] \subseteq Regions
  /\ \A r \in Regions : \A s \in Lineage[r] : Lineage[s] \subseteq Lineage[r]
  <1> DEFINE S == {r \in Regions : /\ Lineage[r] \subseteq Regions
                                   /\ \A s \in Lineage[r] : Lineage[s] \subseteq Lineage[r]}
  <1>1. ASSUME NEW r \in Regions, Parent[r] = NoRegion \/ Parent[r] \in S PROVE r \in S
    <2>1. Lineage[r] = {r} \cup IF Parent[r] = NoRegion THEN {} ELSE Lineage[Parent[r]]
      BY LineageIs
    <2>2. CASE Parent[r] = NoRegion
      BY <2>1, <2>2
    <2>3. CASE Parent[r] # NoRegion
      <3> DEFINE p == Parent[r]
      <3>1. Lineage[r] = {r} \cup Lineage[p] /\ p \in S
        BY <1>1, <2>1, <2>3
      <3> HIDE DEF p
      <3>2. Lineage[p] \subseteq Regions /\ \A s \in Lineage[p] : Lineage[s] \subseteq Lineage[p]
        BY <3>1
      <3>3. ASSUME NEW s \in Lineage[r] PROVE Lineage[s] \subseteq Lineage[r]
        <4>1. s = r \/ s \in Lineage[p]
          BY <3>1
        <4> QED
          BY <3>1, <3>2, <4>1
      <3> QED
        BY <3>1, <3>2, <3>3
    <2> QED
      BY <2>2, <2>3
  <1>2. S = Regions
    <2>1. S \in SUBSET Regions
      OBVIOUS
    <2> HIDE DEF S
    <2> QED
      BY <1>1, <2>1, Ancestry
  <1>3. \A r \in Regions : r \in Lineage[r]
    BY LineageIs
  <1> QED
    BY <1>2, <1>3

LEMMA NotOwnParent ==
  ASSUME NEW r \in Regions, Parent[r] # NoRegion
  PROVE  r \notin Lineage[Parent[r]]
  <1> DEFINE p == Parent[r]
             C == {x \in Lineage[p] : r \in Lineage[x]}
  <1>1. p \in Regions
    BY RegionsAssumption
  <1>2. Lineage[r] = {r} \cup Lineage[p]
    BY LineageIs
  <1>p. Parent[r] = p
    OBVIOUS
  <1> HIDE DEF p
  <1>3. p \in Lineage[p] /\ Lineage[p] \subseteq Regions
    BY <1>1, LineageClosed
  <1>4. ASSUME r \in Lineage[p] PROVE FALSE
    <2>1. C \in (SUBSET Regions) \ {{}}
      BY <1>3, <1>4
    <2>2. PICK x \in C : Parent[x] \notin C
      BY <2>1, RegionsAssumption
    <2>3. x \in Regions /\ x \in Lineage[p] /\ r \in Lineage[x]
      BY <1>3, <2>2
    <2>4. CASE x = r
      <3>1. p \in C
        BY <1>3, <1>4
      <3> QED
        BY <1>p, <2>2, <2>4, <3>1
    <2>5. CASE x # r
      <3>1. Lineage[x] = {x} \cup IF Parent[x] = NoRegion THEN {} ELSE Lineage[Parent[x]]
        BY <2>3, LineageIs
      <3>2. Parent[x] # NoRegion /\ r \in Lineage[Parent[x]]
        BY <2>3, <2>5, <3>1
      <3>3. Parent[x] \in Regions
        BY <2>3, <3>2, RegionsAssumption
      <3>4. Parent[x] \in Lineage[x] /\ Lineage[x] \subseteq Lineage[p]
        <4>1. Parent[x] \in Lineage[Parent[x]]
          BY <3>3, LineageClosed
        <4>2. Lineage[x] \subseteq Lineage[p]
          BY <1>1, <2>3, LineageClosed
        <4> QED
          BY <3>1, <3>2, <4>1, <4>2
      <3> QED
        BY <2>2, <3>2, <3>4
    <2> QED
      BY <2>4, <2>5
  <1> QED
    BY <1>4 DEF p

-----------------------------------------------------------------------------
(* Colour schemes. *)

(* What a mapper with nothing in its cache says.                           *)
Plainly(defines) == DefineIn(NewMapper(defines))

LEMMA PlainlyIs ==
  ASSUME NEW m
  PROVE  \A r \in Regions :
           Plainly(m.defines)[r] =
             IF Named(m, r) # NoDefine THEN Named(m, r)
             ELSE IF Parent[r] = NoRegion THEN NoDefine ELSE Plainly(m.defines)[Parent[r]]
  <1> DEFINE n == NewMapper(m.defines)
  <1>1. \A r \in Regions : n.cache[r] = NoDefine /\ Named(n, r) = Named(m, r)
    BY DEF NewMapper, Named
  <1> HIDE DEF n
  <1>2. \A r \in Regions :
           DefineIn(n)[r] =
             IF n.cache[r] # NoDefine THEN n.cache[r]
             ELSE IF Named(n, r) # NoDefine THEN Named(n, r)
             ELSE IF Parent[r] = NoRegion THEN NoDefine ELSE DefineIn(n)[Parent[r]]
    BY DefineInIs
  <1> QED
    BY <1>1, <1>2 DEF Plainly, n

(* A style, or none; a mapper of such styles whose cache is what it would  *)
(* find without.                                                           *)
IsStyle(d) == d = NoDefine \/ IsDefine(d)
AreStyled(defines) == \A r \in DOMAIN defines : IsStyle(defines[r])
Cached(m) ==
  /\ m = [defines |-> m.defines, cache |-> m.cache]
  /\ m.cache = [r \in Regions |-> m.cache[r]]
  /\ \A r \in Regions : m.cache[r] # NoDefine => m.cache[r] = Plainly(m.defines)[r]
IsMapper(m) == AreStyled(m.defines) /\ (m = NoMapper \/ Cached(m))

LEMMA CachedIs ==
  ASSUME NEW m, Cached(m)
  PROVE  \A r \in Regions : DefineIn(m)[r] = Plainly(m.defines)[r]
  <1> DEFINE S == {r \in Regions : DefineIn(m)[r] = Plainly(m.defines)[r]}
  <1>1. ASSUME NEW r \in Regions, Parent[r] = NoRegion \/ Parent[r] \in S PROVE r \in S
    <2>1. /\ DefineIn(m)[r] =
               IF m.cache[r] # NoDefine THEN m.cache[r]
               ELSE IF Named(m, r) # NoDefine THEN Named(m, r)
               ELSE IF Parent[r] = NoRegion THEN NoDefine ELSE DefineIn(m)[Parent[r]]
          /\ Plainly(m.defines)[r] =
               IF Named(m, r) # NoDefine THEN Named(m, r)
               ELSE IF Parent[r] = NoRegion THEN NoDefine ELSE Plainly(m.defines)[Parent[r]]
      BY DefineInIs, PlainlyIs
    <2>2. m.cache[r] # NoDefine => m.cache[r] = Plainly(m.defines)[r]
      BY DEF Cached
    <2> QED
      BY <1>1, <2>1, <2>2
  <1>2. S = Regions
    <2>1. S \in SUBSET Regions
      OBVIOUS
    <2> HIDE DEF S
    <2> QED
      BY <1>1, <2>1, Ancestry
  <1> QED
    BY <1>2

(* Whoever is asked on the way up has the same answer.                     *)
LEMMA AskedSame ==
  ASSUME NEW m
  PROVE  \A r \in Regions : \A s \in AskedOf(m)[r] \cap Regions : DefineIn(m)[s] = DefineIn(m)[r]
  <1> DEFINE S == {r \in Regions : \A s \in AskedOf(m)[r] \cap Regions : DefineIn(m)[s] = DefineIn(m)[r]}
  <1>1. ASSUME NEW r \in Regions, Parent[r] = NoRegion \/ Parent[r] \in S PROVE r \in S
    <2>1. /\ DefineIn(m)[r] =
               IF m.cache[r] # NoDefine THEN m.cache[r]
               ELSE IF Named(m, r) # NoDefine THEN Named(m, r)
               ELSE IF Parent[r] = NoRegion THEN NoDefine ELSE DefineIn(m)[Parent[r]]
          /\ AskedOf(m)[r] =
               {r} \cup IF m.cache[r] # NoDefine \/ Named(m, r) # NoDefine \/ Parent[r] = NoRegion
                        THEN {} ELSE AskedOf(m)[Parent[r]]
      BY DefineInIs, AskedIs
    <2>2. CASE m.cache[r] # NoDefine \/ Named(m, r) # NoDefine \/ Parent[r] = NoRegion
      <3>1. AskedOf(m)[r] = {r}
        BY <2>1, <2>2
      <3> QED
        BY <3>1
    <2>3. CASE ~(m.cache[r] # NoDefine \/ Named(m, r) # NoDefine \/ Parent[r] = NoRegion)
      <3>1. /\ AskedOf(m)[r] = {r} \cup AskedOf(m)[Parent[r]] /\ DefineIn(m)[r] = DefineIn(m)[Parent[r]]
            /\ Parent[r] \in S
        BY <1>1, <2>1, <2>3
      <3>2. \A s \in AskedOf(m)[Parent[r]] \cap Regions : DefineIn(m)[s] = DefineIn(m)[Parent[r]]
        BY <3>1
      <3> QED
        BY <3>1, <3>2
    <2> QED
      BY <2>2, <2>3
  <1>2. S = Regions
    <2>1. S \in SUBSET Regions
      OBVIOUS
    <2> HIDE DEF S
    <2> QED
      BY <1>1, <2>1, Ancestry
  <1> QED
    BY <1>2

LEMMA AskedKnows ==
  ASSUME NEW m, IsMapper(m), NEW r \in Regions \cup {NoRegion}
  PROVE  IsMapper(Asked(m, r)) /\ Asked(m, r).defines = m.defines
  <1>1. CASE m = NoMapper \/ r = NoRegion
    BY <1>1 DEF Asked
  <1>2. CASE ~(m = NoMapper \/ r = NoRegion)
    <2> DEFINE c == [s \in Regions |-> IF s \in AskedOf(m)[r] THEN DefineIn(m)[r] ELSE m.cache[s]]
               n == [defines |-> m.defines, cache |-> c]
    <2>1. r \in Regions /\ Cached(m) /\ Asked(m, r) = Remember(m, r)
      BY <1>2 DEF Asked, IsMapper
    <2>2. m = [defines |-> m.defines, cache |-> m.cache]
      BY <2>1 DEF Cached
    <2>3. Remember(m, r) = [m EXCEPT !.cache = c]
      BY RememberIs
    <2>4. [m EXCEPT !.cache = c] = n
      <3> HIDE DEF c
      <3> QED
        BY <2>2
    <2>5. ASSUME NEW s \in Regions, c[s] # NoDefine PROVE c[s] = Plainly(m.defines)[s]
      <3>1. CASE s \in AskedOf(m)[r]
        <4>1. DefineIn(m)[s] = DefineIn(m)[r]
          BY <2>1, <3>1, AskedSame
        <4>2. DefineIn(m)[s] = Plainly(m.defines)[s]
          BY <2>1, CachedIs
        <4> QED
          BY <3>1, <4>1, <4>2
      <3>2. CASE s \notin AskedOf(m)[r]
        BY <2>1, <2>5, <3>2 DEF Cached
      <3> QED
        BY <3>1, <3>2
    <2>6. c = [s \in Regions |-> c[s]]
      OBVIOUS
    <2> HIDE DEF c
    <2>7. n.defines = m.defines /\ n.cache = c /\ n = [defines |-> n.defines, cache |-> n.cache]
      OBVIOUS
    <2> HIDE DEF n
    <2>8. Cached(n)
      BY <2>5, <2>6, <2>7 DEF Cached
    <2> QED
      BY <2>1, <2>3, <2>4, <2>7, <2>8 DEF IsMapper
  <1> QED
    BY <1>1, <1>2

(* The nearest region of a lineage that has a style.                       *)
Nearest(m, r) ==
  {s \in Lineage[r] : Named(m, s) # NoDefine
                        /\ \A q \in Lineage[r] \ Lineage[s] : Named(m, q) = NoDefine}

LEMMA NearestIs ==
  ASSUME NEW m
  PROVE  \A r \in Regions :
           \/ Nearest(m, r) = {} /\ Plainly(m.defines)[r] = NoDefine
           \/ \E s : /\ Nearest(m, r) = {s} /\ Plainly(m.defines)[r] = Named(m, s)
                     /\ Named(m, s) # NoDefine
  <1> DEFINE P(r) == \/ Nearest(m, r) = {} /\ Plainly(m.defines)[r] = NoDefine
                     \/ \E s : /\ Nearest(m, r) = {s} /\ Plainly(m.defines)[r] = Named(m, s)
                               /\ Named(m, s) # NoDefine
             S == {r \in Regions : P(r)}
  <1>1. ASSUME NEW r \in Regions, Parent[r] = NoRegion \/ Parent[r] \in S PROVE r \in S
    <2>1. /\ Plainly(m.defines)[r] =
               IF Named(m, r) # NoDefine THEN Named(m, r)
               ELSE IF Parent[r] = NoRegion THEN NoDefine ELSE Plainly(m.defines)[Parent[r]]
          /\ Lineage[r] = {r} \cup IF Parent[r] = NoRegion THEN {} ELSE Lineage[Parent[r]]
      BY PlainlyIs, LineageIs
    <2>2. CASE Named(m, r) # NoDefine
      <3>1. r \in Nearest(m, r)
        BY <2>1, <2>2 DEF Nearest
      <3>2. ASSUME NEW s \in Nearest(m, r), s # r PROVE FALSE
        <4>1. s \in Lineage[r] /\ \A q \in Lineage[r] \ Lineage[s] : Named(m, q) = NoDefine
          BY <3>2 DEF Nearest
        <4>2. Parent[r] # NoRegion /\ s \in Lineage[Parent[r]]
          BY <2>1, <3>2, <4>1
        <4>3. Lineage[s] \subseteq Lineage[Parent[r]]
          BY <4>2, LineageClosed, RegionsAssumption
        <4>4. r \notin Lineage[s]
          BY <4>2, <4>3, NotOwnParent
        <4>5. r \in Lineage[r]
          BY <2>1
        <4> QED
          BY <2>2, <4>1, <4>4, <4>5
      <3>3. Nearest(m, r) = {r}
        BY <3>1, <3>2
      <3>4. P(r)
        BY <2>1, <2>2, <3>3
      <3> QED
        BY <3>4
    <2>3. CASE Named(m, r) = NoDefine /\ Parent[r] = NoRegion
      <3>1. Nearest(m, r) = {}
        BY <2>1, <2>3 DEF Nearest
      <3> QED
        BY <2>1, <2>3, <3>1
    <2>4. CASE Named(m, r) = NoDefine /\ Parent[r] # NoRegion
      <3> DEFINE p == Parent[r]
      <3>1. /\ Lineage[r] = {r} \cup Lineage[p] /\ P(p)
            /\ Plainly(m.defines)[r] = Plainly(m.defines)[p]
        BY <1>1, <2>1, <2>4
      <3> HIDE DEF p
      <3>2. ASSUME NEW s PROVE s \in Nearest(m, r) <=> s \in Nearest(m, p)
        <4>1. s \in Lineage[r] /\ Named(m, s) # NoDefine <=> s \in Lineage[p] /\ Named(m, s) # NoDefine
          BY <2>4, <3>1
        <4>2. (\A q \in Lineage[r] \ Lineage[s] : Named(m, q) = NoDefine)
                <=> (\A q \in Lineage[p] \ Lineage[s] : Named(m, q) = NoDefine)
          BY <2>4, <3>1
        <4> QED
          BY <4>1, <4>2 DEF Nearest
      <3>3. Nearest(m, r) = Nearest(m, p)
        BY <3>2
      <3>4. P(r)
        BY <3>1, <3>3
      <3> QED
        BY <3>4
    <2> QED
      BY <2>2, <2>3, <2>4
  <1>2. S = Regions
    <2>1. S \in SUBSET Regions
      OBVIOUS
    <2> HIDE DEF S
    <2> QED
      BY <1>1, <2>1, Ancestry
  <1> QED
    BY <1>2

(* SchemeSays for a given mapper; a null region says nothing.              *)
Over(d, outer) ==
  [fore |-> IF d.fore = Unset THEN outer.fore ELSE d.fore,
   back |-> IF d.back = Unset THEN outer.back ELSE d.back,
   style |-> d.style \cup outer.style]

SaysOf(m, r, outer) ==
  IF Nearest(m, r) = {} THEN outer
  ELSE LET d == Named(m, CHOOSE s \in Nearest(m, r) : TRUE)
       IN  IF outer = NoDefine THEN d ELSE Over(d, outer)

Says0(m, r, outer) == IF r = NoRegion THEN outer ELSE SaysOf(m, r, outer)

LEMMA SchemeSaysIs == \A m, r, outer : SchemeSays(m, r, outer) = SaysOf(m, r, outer)
  BY Zenon DEF SchemeSays, SaysOf, Nearest, Over

LEMMA SameDefines ==
  ASSUME NEW m, NEW n, m.defines = n.defines
  PROVE  \A r, outer : Says0(m, r, outer) = Says0(n, r, outer)
  <1>1. \A r : Named(m, r) = Named(n, r)
    BY DEF Named
  <1>2. \A r : Nearest(m, r) = Nearest(n, r)
    BY <1>1 DEF Nearest
  <1>3. ASSUME NEW r, NEW outer PROVE Says0(m, r, outer) = Says0(n, r, outer)
    <2>1. (CHOOSE s \in Nearest(m, r) : TRUE) = (CHOOSE s \in Nearest(n, r) : TRUE)
      BY <1>2
    <2> QED
      BY <1>1, <1>2, <2>1 DEF Says0, SaysOf
  <1> QED
    BY <1>3

LEMMA NamedIsStyle ==
  ASSUME NEW m, AreStyled(m.defines)
  PROVE  \A r : IsStyle(Named(m, r))
  BY DEF AreStyled, Named, IsStyle

(* What a region gets: its mapper's word, completed from around it.        *)
LEMMA StyledIs ==
  ASSUME NEW h, IsMapper(h.mapper), NEW r \in Regions \cup {NoRegion}, NEW outer,
         outer = Last(h.stack).define, IsStyle(outer), h.mapper = NoMapper => outer = NoDefine
  PROVE  Styled(h, r) = Says0(h.mapper, r, outer) /\ IsStyle(Styled(h, r))
  <1> DEFINE m == h.mapper
             own == GetRegionDefine(m, r)
             d == IF own = NoDefine THEN outer ELSE own
  <1>1. CASE m = NoMapper
    <2>1. Styled(h, r) = NoDefine /\ outer = NoDefine
      BY <1>1 DEF Styled, ApplyRegionDefine, ReplaceRdef
    <2>2. \A s : Named(NoMapper, s) = NoDefine
      BY DEF Named, NoMapper
    <2>3. Nearest(m, r) = {}
      BY <1>1, <2>2 DEF Nearest
    <2> QED
      BY <2>1, <2>3 DEF Says0, SaysOf, IsStyle
  <1>2. CASE m # NoMapper
    <2>1. Styled(h, r) = IF NoDefine \in {d, outer} THEN d ELSE AssignParent(d, outer)
      BY <1>2 DEF Styled, ApplyRegionDefine, ReplaceRdef
    <2>2. Cached(m) /\ AreStyled(m.defines)
      BY <1>2 DEF IsMapper
    <2>3. CASE own = NoDefine
      <3>1. d = outer
        BY <2>3
      <3>2. outer # NoDefine => AssignParent(outer, outer) = outer
        <4> SUFFICES ASSUME outer # NoDefine PROVE AssignParent(outer, outer) = outer
          OBVIOUS
        <4>1. outer = [fore |-> outer.fore, back |-> outer.back, style |-> outer.style]
          BY DEF IsStyle, IsDefine
        <4>2. AssignParent(outer, outer) = [fore |-> outer.fore, back |-> outer.back, style |-> outer.style]
          BY DEF AssignParent
        <4> QED
          BY <4>1, <4>2
      <3>3. Styled(h, r) = outer
        <4> HIDE DEF d
        <4> QED
          BY <2>1, <3>1, <3>2
      <3>4. Says0(m, r, outer) = outer
        <4>1. CASE r = NoRegion
          BY <4>1 DEF Says0
        <4>2. CASE r # NoRegion
          <5>1. Plainly(m.defines)[r] = NoDefine
            BY <1>2, <2>2, <2>3, <4>2, CachedIs DEF GetRegionDefine
          <5>2. Nearest(m, r) = {}
            BY <4>2, <5>1, NearestIs
          <5> QED
            BY <4>2, <5>2 DEF Says0, SaysOf
        <4> QED
          BY <4>1, <4>2
      <3> QED
        BY <3>3, <3>4
    <2>4. CASE own # NoDefine
      <3>1. r \in Regions /\ own = DefineIn(m)[r]
        BY <2>4 DEF GetRegionDefine
      <3>2. own = Plainly(m.defines)[r]
        BY <2>2, <3>1, CachedIs
      <3>3. PICK s : Nearest(m, r) = {s} /\ own = Named(m, s)
        BY <2>4, <3>1, <3>2, NearestIs
      <3>4. (CHOOSE x \in Nearest(m, r) : TRUE) = s
        BY <3>3
      <3>5. SaysOf(m, r, outer) = IF outer = NoDefine THEN own ELSE Over(own, outer)
        BY <3>3, <3>4 DEF SaysOf
      <3>6. r # NoRegion
        BY <3>1, RegionsAssumption
      <3>7. Styled(h, r) = IF outer = NoDefine THEN own ELSE AssignParent(own, outer)
        BY <2>1, <2>4
      <3>8. AssignParent(own, outer) = Over(own, outer)
        BY DEF AssignParent, Over
      <3>9. IsStyle(own)
        BY <2>2, <3>3, NamedIsStyle
      <3>10. IsStyle(Over(own, outer))
        BY DEF IsStyle, IsDefine, Over
      <3> HIDE DEF own, m, d
      <3> QED
        BY <3>5, <3>6, <3>7, <3>8, <3>9, <3>10 DEF Says0, m
    <2> QED
      BY <2>3, <2>4
  <1> QED
    BY <1>1, <1>2

-----------------------------------------------------------------------------
(* More folds. *)

LEMMA PaintFoldsAre ==
  /\ \A ns, set : LoadHrdSets(ns, set) = Fold([fold |-> "classes"], ns, set)
  /\ \A ns, nodes : FoldLeft(LoadHrd, ns, nodes) = Fold([fold |-> "folder"], ns, nodes)
  /\ \A node : FillMapper(node) = NewMapper(Fold([fold |-> "files"], <<>>, node.locations))
  /\ \A ds, file : LoadRegionMappings(ds, file) = Fold([fold |-> "assigns"], ds, file)
  /\ \A h, bs : Resume(h, bs) = Fold([fold |-> "resume"], h, bs)
  /\ \A h : Harvested(h) = Fold([fold |-> "harvest"], <<>>, h.line)
  /\ \A bs, tokens : FoldLeft(After, bs, tokens) = Fold([fold |-> "tokens"], bs, tokens)
  /\ \A rs, i : PaintedAt(rs, i) = Fold([fold |-> "paint", at |-> i], NoDefine, rs)
  BY DEF LoadHrdSets, FillMapper, LoadRegionMappings, Resume, Harvested, PaintedAt,
         FoldLeft, MapThenFoldSet, Fold, Op

(* Those that depend on the state.                                         *)
Numbers(s) == [i \in DOMAIN s |-> i]
LEMMA ScanIs ==
  ASSUME NEW h, NEW line
  PROVE  Parsed(h, line) = Fold([fold |-> "scan", tokens |-> TokensOf(line)],
                                [h |-> Resume(ClearLine(StartParsing(h)), open), open |-> open],
                                Numbers(TokensOf(line)))
  BY DEF Parsed, FoldLeftDomain, FoldLeft, MapThenFoldSet, Fold, Op, Numbers

-----------------------------------------------------------------------------
(* Lists and folds. *)

LEMMA ListOf ==
  ASSUME NEW n \in Nat, NEW s, s = [i \in 1 .. n |-> s[i]]
  PROVE  IsList(s) /\ Len(s) = n /\ DOMAIN s = 1 .. n
  <1> DEFINE W == {s[i] : i \in DOMAIN s}
  <1>1. DOMAIN s = 1 .. n
    OBVIOUS
  <1>2. \A i \in 1 .. n : s[i] \in W
    BY <1>1
  <1> HIDE DEF W
  <1>3. s \in Seq(W) /\ Len(s) = n
    BY <1>2
  <1> QED
    BY <1>1, <1>3 DEF IsList, W

LEMMA ListFcn ==
  ASSUME NEW s, IsList(s)
  PROVE  s = [i \in 1 .. Len(s) |-> s[i]]
  BY DEF IsList

LEMMA ListSame ==
  ASSUME NEW s, NEW t, IsList(s), IsList(t), Len(s) = Len(t), \A i \in 1 .. Len(s) : s[i] = t[i]
  PROVE  s = t
  <1>1. s = [i \in 1 .. Len(s) |-> s[i]] /\ t = [i \in 1 .. Len(t) |-> t[i]]
    BY ListFcn
  <1> QED
    BY <1>1

LEMMA ListPart ==
  ASSUME NEW s, IsList(s), NEW m \in 0 .. Len(s)
  PROVE  /\ IsList(SubSeq(s, 1, m)) /\ Len(SubSeq(s, 1, m)) = m
         /\ \A i \in 1 .. m : SubSeq(s, 1, m)[i] = s[i]
  <1>1. Len(s) \in Nat /\ DOMAIN s = 1 .. Len(s)
    BY ListIs
  <1>2. SubSeq(s, 1, m) = [i \in 1 .. m |-> s[i]]
    <2> DEFINE V == {s[i] : i \in DOMAIN s}
    <2>1. s \in Seq(V)
      BY ListIs
    <2> HIDE DEF V
    <2>2. SubSeq(s, 1, m) = [i \in 1 .. (m - 1 + 1) |-> s[i + 1 - 1]]
      BY <1>1, <2>1, SubSeqProperties
    <2>3. m - 1 + 1 = m /\ \A i \in 1 .. m : i + 1 - 1 = i
      BY <1>1
    <2> QED
      BY <2>2, <2>3
  <1> DEFINE t == SubSeq(s, 1, m)
  <1>3. t = [i \in 1 .. m |-> t[i]] /\ \A i \in 1 .. m : t[i] = s[i]
    BY <1>2
  <1> HIDE DEF t
  <1>4. m \in Nat
    BY <1>1
  <1>5. IsList(t) /\ Len(t) = m
    BY <1>3, <1>4, ListOf
  <1> QED
    BY <1>3, <1>5 DEF t

LEMMA StepsOne ==
  ASSUME NEW k, NEW base, NEW els, Len(els) \in Nat, NEW f, NEW g,
         Steps(f, k, base, els), Steps(g, k, base, els)
  PROVE  \A i \in 0 .. Len(els) : f[i] = g[i]
  <1> DEFINE T == {i \in Nat : i <= Len(els) => f[i] = g[i]}
  <1>1. 0 \in T
    BY DEF Steps
  <1>2. ASSUME NEW i \in Nat, i \in T PROVE i + 1 \in T
    <2> SUFFICES ASSUME i + 1 <= Len(els) PROVE f[i + 1] = g[i + 1]
      OBVIOUS
    <2>1. i + 1 \in 1 .. Len(els) /\ (i + 1) - 1 = i /\ f[i] = g[i]
      BY <1>2
    <2> QED
      BY <2>1 DEF Steps
  <1>3. Nat \subseteq T
    <2> HIDE DEF T
    <2> QED
      BY <1>1, <1>2, Induction
  <1> QED
    BY <1>3

LEMMA FoldOf ==
  ASSUME NEW k, NEW base, NEW els, IsList(els), NEW g, Steps(g, k, base, els)
  PROVE  Fold(k, base, els) = g[Len(els)]
  <1>1. els \in Seq({els[i] : i \in DOMAIN els}) /\ Len(els) \in Nat
    BY ListIs
  <1>2. PICK f : Steps(f, k, base, els) /\ Fold(k, base, els) = f[Len(els)]
    BY <1>1, FoldIs
  <1>3. \A i \in 0 .. Len(els) : f[i] = g[i]
    BY <1>1, <1>2, StepsOne
  <1>4. Len(els) \in 0 .. Len(els)
    BY <1>1
  <1> QED
    BY <1>2, <1>3, <1>4

LEMMA FoldSteps ==
  ASSUME NEW k, NEW base, NEW els, IsList(els)
  PROVE  \E g : /\ Steps(g, k, base, els) /\ Fold(k, base, els) = g[Len(els)]
                /\ \A i \in 0 .. Len(els) : Fold(k, base, SubSeq(els, 1, i)) = g[i]
  <1>1. els \in Seq({els[i] : i \in DOMAIN els}) /\ Len(els) \in Nat
    BY ListIs
  <1>2. PICK g : Steps(g, k, base, els) /\ Fold(k, base, els) = g[Len(els)]
    BY <1>1, FoldIs
  <1>3. ASSUME NEW i \in 0 .. Len(els) PROVE Fold(k, base, SubSeq(els, 1, i)) = g[i]
    <2> DEFINE t == SubSeq(els, 1, i)
    <2>1. IsList(t) /\ Len(t) = i /\ \A j \in 1 .. i : t[j] = els[j]
      BY ListPart
    <2> HIDE DEF t
    <2>2. Steps(g, k, base, t)
      <3>1. \A j \in 1 .. i : j \in 1 .. Len(els)
        BY <1>1
      <3> QED
        BY <1>2, <2>1, <3>1 DEF Steps
    <2>3. Fold(k, base, t) = g[i]
      BY <2>1, <2>2, FoldOf
    <2> QED
      BY <2>3 DEF t
  <1> QED
    BY <1>2, <1>3

LEMMA FoldNone ==
  ASSUME NEW k, NEW base, NEW els, IsList(els), Len(els) = 0
  PROVE  Fold(k, base, els) = base
  <1>1. PICK g : Steps(g, k, base, els) /\ Fold(k, base, els) = g[Len(els)]
    BY FoldSteps
  <1> QED
    BY <1>1 DEF Steps

LEMMA FoldMore ==
  ASSUME NEW k, NEW base, NEW els, IsList(els), NEW x
  PROVE  Fold(k, base, Append(els, x)) = Op(k, Fold(k, base, els), x)
  <1> DEFINE n == Len(els)
             w == Append(els, x)
  <1>1. n \in Nat /\ IsList(w) /\ Len(w) = n + 1 /\ w[n + 1] = x /\ \A i \in 1 .. n : w[i] = els[i]
    BY ListIs, ListMore
  <1> HIDE DEF w
  <1>2. PICK g : Steps(g, k, base, w) /\ Fold(k, base, w) = g[Len(w)]
    BY <1>1, FoldSteps
  <1>3. Steps(g, k, base, els)
    <2>1. \A i \in 1 .. n : i \in 1 .. n + 1
      BY <1>1
    <2> QED
      BY <1>1, <1>2, <2>1 DEF Steps
  <1>4. Fold(k, base, els) = g[n]
    BY <1>3, FoldOf
  <1>5. n + 1 \in 1 .. n + 1 /\ (n + 1) - 1 = n
    BY <1>1
  <1>6. g[n + 1] = Op(k, g[n], x)
    BY <1>1, <1>2, <1>5 DEF Steps
  <1> QED
    BY <1>1, <1>2, <1>4, <1>6 DEF w

-----------------------------------------------------------------------------
(* The styles a session knows. *)

IsAssigns(file) == IsList(file) /\ \A i \in DOMAIN file : IsDefine(file[i].define)

LEMMA AssignsStyled ==
  ASSUME NEW ds, AreStyled(ds), NEW file, IsAssigns(file)
  PROVE  AreStyled(LoadRegionMappings(ds, file))
  <1> DEFINE k == [fold |-> "assigns"]
             n == Len(file)
  <1>1. n \in Nat /\ DOMAIN file = 1 .. n
    BY ListIs DEF IsAssigns
  <1>2. PICK g : Steps(g, k, ds, file) /\ Fold(k, ds, file) = g[n]
    BY FoldSteps DEF IsAssigns
  <1> DEFINE T == {i \in Nat : i <= n => AreStyled(g[i])}
  <1>3. 0 \in T
    BY <1>2 DEF Steps
  <1>4. ASSUME NEW i \in Nat, i \in T PROVE i + 1 \in T
    <2> SUFFICES ASSUME i + 1 <= n PROVE AreStyled(g[i + 1])
      OBVIOUS
    <2> DEFINE b == file[i + 1]
    <2>1. i + 1 \in 1 .. n /\ (i + 1) - 1 = i /\ AreStyled(g[i])
      BY <1>1, <1>4
    <2>2. g[i + 1] = Op(k, g[i], b)
      BY <1>2, <2>1 DEF Steps
    <2>3. IsDefine(b.define)
      BY <1>1, <2>1 DEF IsAssigns
    <2>4. Op(k, g[i], b) = IF b.name = "" THEN g[i] ELSE Put(g[i], b.name, b.define)
      BY DEF Op
    <2> HIDE DEF b
    <2>5. AreStyled(Put(g[i], b.name, b.define))
      BY <2>1, <2>3 DEF Put, AreStyled, IsStyle
    <2> QED
      BY <2>1, <2>2, <2>4, <2>5
  <1>5. Nat \subseteq T
    <2> HIDE DEF T
    <2> QED
      BY <1>3, <1>4, Induction
  <1>6. AreStyled(g[n])
    BY <1>1, <1>5
  <1> QED
    BY <1>2, <1>6, PaintFoldsAre

(* A node of a style, in a list.                                           *)
IsNode(node) == IsList(node.locations) /\ ToSet(node.locations) \subseteq {""} \cup DOMAIN HrdFiles

LEMMA FillMapperIs ==
  ASSUME NEW node, IsNode(node), Loadable(node)
  PROVE  IsMapper(FillMapper(node))
  <1> DEFINE k == [fold |-> "files"]
             ls == node.locations
             n == Len(ls)
  <1>1. n \in Nat /\ DOMAIN ls = 1 .. n /\ IsList(ls)
    BY ListIs DEF IsNode
  <1>2. PICK g : Steps(g, k, <<>>, ls) /\ Fold(k, <<>>, ls) = g[n]
    BY <1>1, FoldSteps
  <1>3. \A i \in 1 .. n : ls[i] # "" => IsAssigns(HrdFiles[ls[i]])
    <2> SUFFICES ASSUME NEW i \in 1 .. n, ls[i] # "" PROVE IsAssigns(HrdFiles[ls[i]])
      OBVIOUS
    <2>1. ls[i] \in ToSet(ls)
      BY <1>1 DEF ToSet
    <2>2. ls[i] \in DOMAIN HrdFiles
      BY <2>1 DEF IsNode
    <2>3. HrdFiles[ls[i]] # Bad
      BY <2>1 DEF Loadable
    <2> QED
      BY <2>2, <2>3, StylesAssumption DEF IsAssigns
  <1> DEFINE T == {i \in Nat : i <= n => AreStyled(g[i])}
  <1>4. 0 \in T
    BY <1>2 DEF Steps, AreStyled
  <1>5. ASSUME NEW i \in Nat, i \in T PROVE i + 1 \in T
    <2> SUFFICES ASSUME i + 1 <= n PROVE AreStyled(g[i + 1])
      OBVIOUS
    <2> DEFINE b == ls[i + 1]
    <2>1. i + 1 \in 1 .. n /\ (i + 1) - 1 = i /\ AreStyled(g[i])
      BY <1>1, <1>5
    <2>2. g[i + 1] = Op(k, g[i], b)
      BY <1>2, <2>1 DEF Steps
    <2>3. Op(k, g[i], b) = IF b = "" THEN g[i] ELSE LoadRegionMappings(g[i], HrdFiles[b])
      BY DEF Op
    <2>4. b # "" => IsAssigns(HrdFiles[b])
      BY <1>3, <2>1
    <2> HIDE DEF b
    <2>5. b # "" => AreStyled(LoadRegionMappings(g[i], HrdFiles[b]))
      BY <2>1, <2>4, AssignsStyled
    <2> QED
      BY <2>1, <2>2, <2>3, <2>5
  <1>6. Nat \subseteq T
    <2> HIDE DEF T
    <2> QED
      BY <1>4, <1>5, Induction
  <1>7. AreStyled(g[n])
    BY <1>1, <1>6
  <1>8. FillMapper(node) = NewMapper(g[n])
    BY <1>2, PaintFoldsAre
  <1>9. ASSUME NEW ds, AreStyled(ds) PROVE IsMapper(NewMapper(ds))
    BY <1>9 DEF IsMapper, Cached, NewMapper
  <1> QED
    BY <1>7, <1>8, <1>9

(* The styles of the classes.                                              *)
AreNodes(nodes) == IsList(nodes) /\ \A i \in DOMAIN nodes : IsNode(nodes[i])
AreClasses(hs) == \A class \in DOMAIN hs : AreNodes(hs[class])

LEMMA NodesMore ==
  ASSUME NEW nodes, AreNodes(nodes), NEW node, IsNode(node)
  PROVE  AreNodes(Append(nodes, node))
  <1> DEFINE n == Len(nodes)
             w == Append(nodes, node)
  <1>1. n \in Nat /\ DOMAIN nodes = 1 .. n
    BY ListIs DEF AreNodes
  <1>2. /\ IsList(w) /\ Len(w) = n + 1 /\ w[n + 1] = node
        /\ \A i \in 1 .. n : w[i] = nodes[i]
    BY ListMore DEF AreNodes
  <1> HIDE DEF w, n
  <1>3. DOMAIN w = 1 .. n + 1
    BY <1>2, ListIs
  <1>4. \A i : i \in 1 .. n + 1 <=> i \in 1 .. n \/ i = n + 1
    BY <1>1
  <1> QED
    BY <1>1, <1>2, <1>3, <1>4 DEF AreNodes, w

LEMMA AddHrdKeeps ==
  ASSUME NEW hs, AreClasses(hs), NEW node, IsNode(node)
  PROVE  AreClasses(AddHrd(hs, node))
  <1>1. CASE node.class \in DOMAIN hs
    <2> DEFINE w == Append(hs[node.class], node)
    <2>1. AreNodes(w)
      BY <1>1, NodesMore DEF AreClasses
    <2>2. AddHrd(hs, node) = [hs EXCEPT ![node.class] = w]
      BY <1>1 DEF AddHrd
    <2> HIDE DEF w
    <2> QED
      BY <2>1, <2>2 DEF AreClasses
  <1>2. CASE node.class \notin DOMAIN hs
    <2> DEFINE w == <<node>>
    <2>1. AreNodes(w)
      <3>1. w = [i \in 1 .. 1 |-> w[i]] /\ w[1] = node
        OBVIOUS
      <3> HIDE DEF w
      <3>2. IsList(w) /\ DOMAIN w = 1 .. 1
        BY <3>1, ListOf
      <3> QED
        BY <3>1, <3>2 DEF AreNodes
    <2>2. AddHrd(hs, node) = Put(hs, node.class, w)
      BY <1>2 DEF AddHrd
    <2> HIDE DEF w
    <2> QED
      BY <2>1, <2>2 DEF AreClasses, Put
  <1> QED
    BY <1>1, <1>2

LEMMA HrdsKept ==
  ASSUME NEW hs, AreClasses(hs), NEW nodes, AreNodes(nodes),
         NEW k, k \in {[fold |-> "classes"], [fold |-> "folder"]}
  PROVE  AreClasses(Fold(k, hs, nodes))
  <1> DEFINE n == Len(nodes)
  <1>1. n \in Nat /\ DOMAIN nodes = 1 .. n
    BY ListIs DEF AreNodes
  <1>2. PICK g : Steps(g, k, hs, nodes) /\ Fold(k, hs, nodes) = g[n]
    BY FoldSteps DEF AreNodes
  <1> DEFINE T == {i \in Nat : i <= n => AreClasses(g[i])}
  <1>3. 0 \in T
    BY <1>2 DEF Steps
  <1>4. ASSUME NEW i \in Nat, i \in T PROVE i + 1 \in T
    <2> SUFFICES ASSUME i + 1 <= n PROVE AreClasses(g[i + 1])
      OBVIOUS
    <2> DEFINE b == nodes[i + 1]
    <2>1. i + 1 \in 1 .. n /\ (i + 1) - 1 = i /\ AreClasses(g[i])
      BY <1>1, <1>4
    <2>2. g[i + 1] = Op(k, g[i], b) /\ IsNode(b)
      BY <1>1, <1>2, <2>1 DEF Steps, AreNodes
    <2>3. Op(k, g[i], b) = g[i] \/ Op(k, g[i], b) = AddHrd(g[i], b)
      <3>1. CASE k = [fold |-> "classes"]
        BY <3>1 DEF Op
      <3>2. CASE k = [fold |-> "folder"]
        <4>1. Op(k, g[i], b) = LoadHrd(g[i], b)
          BY <3>2 DEF Op
        <4> QED
          BY <4>1 DEF LoadHrd
      <3> QED
        BY <3>1, <3>2
    <2> HIDE DEF b
    <2>4. AreClasses(AddHrd(g[i], b))
      BY <2>1, <2>2, AddHrdKeeps
    <2> QED
      BY <2>1, <2>2, <2>3, <2>4
  <1>5. Nat \subseteq T
    <2> HIDE DEF T
    <2> QED
      BY <1>3, <1>4, Induction
  <1>6. AreClasses(g[n])
    BY <1>1, <1>5
  <1> QED
    BY <1>2, <1>6

LEMMA HrdsRead ==
  ASSUME NEW nodes, AreNodes(nodes)
  PROVE  /\ \A hs : AreClasses(hs) => AreClasses(LoadHrdSets(hs, nodes))
         /\ \A hs : AreClasses(hs) => AreClasses(FoldLeft(LoadHrd, hs, nodes))
  BY HrdsKept, PaintFoldsAre

LEMMA Least ==
  ASSUME NEW n \in Nat, NEW s \in SUBSET (1 .. n), s # {}
  PROVE  Min(s) \in s /\ \A i \in s : Min(s) <= i
  <1> DEFINE T == {m \in Nat : \A j \in s : m < j}
  <1>1. ASSUME \A j \in s : \E i \in s : i < j PROVE FALSE
    <2>1. 0 \in T
      OBVIOUS
    <2>2. ASSUME NEW m \in Nat, m \in T PROVE m + 1 \in T
      <3>1. ASSUME NEW j \in s PROVE m + 1 < j
        <4>1. PICK i \in s : i < j
          BY <1>1
        <4>2. m < i /\ i \in Nat /\ j \in Nat
          BY <2>2
        <4> QED
          BY <4>1, <4>2
      <3> QED
        BY <3>1
    <2>3. Nat \subseteq T
      <3> HIDE DEF T
      <3> QED
        BY <2>1, <2>2, Induction
    <2>4. PICK j \in s : TRUE
      OBVIOUS
    <2>5. j \in Nat
      OBVIOUS
    <2>6. j < j
      BY <2>3, <2>5
    <2> QED
      BY <2>5, <2>6
  <1>2. PICK j \in s : \A i \in s : ~(i < j)
    BY <1>1
  <1>3. j \in Int /\ s \in SUBSET Int /\ \A i \in s : j <= i
    BY <1>2
  <1>4. Min(s) = j
    BY <1>3, MinIs
  <1> QED
    BY <1>3, <1>4

(* A style that is found is one of them.                                   *)
LEMMA NodeFound ==
  ASSUME NEW hs, AreClasses(hs), NEW class, NEW name, GetHrdNode(hs, class, name) # <<>>
  PROVE  IsNode(GetHrdNode(hs, class, name)[1])
  <1> DEFINE ns == EnumHrdInstances(hs, class)
             found == {i \in DOMAIN ns : ns[i].name = name}
  <1>1. found # {} /\ GetHrdNode(hs, class, name) = <<ns[Min(found)]>>
    BY DEF GetHrdNode
  <1>2. class \in DOMAIN hs /\ ns = hs[class]
    <2>1. class \notin DOMAIN hs => ns = <<>>
      BY DEF EnumHrdInstances
    <2>2. ns # <<>>
      <3> SUFFICES ASSUME ns = <<>> PROVE FALSE
        OBVIOUS
      <3>1. DOMAIN ns = {}
        BY <2>2
      <3> QED
        BY <1>1, <3>1
    <2> QED
      BY <2>1, <2>2 DEF EnumHrdInstances
  <1>3. AreNodes(ns)
    BY <1>2 DEF AreClasses
  <1>4. Len(ns) \in Nat /\ DOMAIN ns = 1 .. Len(ns)
    BY <1>3, ListIs DEF AreNodes
  <1> HIDE DEF ns
  <1>5. Min(found) \in found
    <2>1. found \in SUBSET (1 .. Len(ns))
      BY <1>4
    <2> HIDE DEF found
    <2> QED
      BY <1>1, <1>4, <2>1, Least
  <1>6. IsNode(ns[Min(found)])
    BY <1>3, <1>5 DEF AreNodes
  <1> QED
    BY <1>1, <1>6

-----------------------------------------------------------------------------
(* Painting. *)

Paint(rs, i) == Fold([fold |-> "paint", at |-> i], NoDefine, rs)

(* What the reported regions of a list paint.                              *)
Shown(line, i) == Fold([fold |-> "shown", at |-> i], NoDefine, line)

LEMMA PaintOps ==
  \A i, a, r :
    /\ Op([fold |-> "paint", at |-> i], a, r) = IF Covers(r, i) THEN r.define ELSE a
    /\ Op([fold |-> "shown", at |-> i], a, r) = IF Reported(r) /\ Covers(r, i) THEN r.define ELSE a
    /\ Op([fold |-> "harvest"], a, r) = IF Reported(r) THEN Append(a, r) ELSE a
  BY DEF Op, Covers

LEMMA ShownMore ==
  ASSUME NEW line, IsList(line), NEW r, NEW i
  PROVE  Shown(Append(line, r), i) = IF Reported(r) /\ Covers(r, i) THEN r.define ELSE Shown(line, i)
  <1> DEFINE k == [fold |-> "shown", at |-> i]
  <1>1. \A a : Op(k, a, r) = IF Reported(r) /\ Covers(r, i) THEN r.define ELSE a
    BY PaintOps
  <1> HIDE DEF k
  <1>2. Fold(k, NoDefine, Append(line, r)) = Op(k, Fold(k, NoDefine, line), r)
    BY FoldMore
  <1> QED
    BY <1>1, <1>2 DEF Shown, k

(* Two lists that show alike.                                              *)
LEMMA ShownSame ==
  ASSUME NEW a, NEW b, IsList(a), IsList(b), Len(a) = Len(b), NEW i,
         \A j \in 1 .. Len(a) : /\ (Reported(a[j]) /\ Covers(a[j], i)) <=> (Reported(b[j]) /\ Covers(b[j], i))
                                /\ a[j].define = b[j].define
  PROVE  Shown(a, i) = Shown(b, i)
  <1> DEFINE k == [fold |-> "shown", at |-> i]
  <1>1. PICK g : Steps(g, k, NoDefine, a) /\ Fold(k, NoDefine, a) = g[Len(a)]
    BY FoldSteps
  <1>p. \A x, r : Op(k, x, r) = IF Reported(r) /\ Covers(r, i) THEN r.define ELSE x
    BY PaintOps
  <1>2. \A x : \A j \in 1 .. Len(a) : Op(k, x, a[j]) = Op(k, x, b[j])
    <2> HIDE DEF k
    <2> QED
      BY <1>p
  <1> HIDE DEF k
  <1>3. Steps(g, k, NoDefine, b)
    BY <1>1, <1>2 DEF Steps
  <1>4. Fold(k, NoDefine, b) = g[Len(b)]
    BY <1>3, FoldOf
  <1> QED
    BY <1>1, <1>4 DEF Shown, k

(* Where one piece covers alone, it is what shows.                         *)
LEMMA ShownOne ==
  ASSUME NEW line, IsList(line), NEW f \in 1 .. Len(line), NEW i, Covers(line[f], i), ~line[f].special,
         \A j \in 1 .. Len(line) : j # f => ~Covers(line[j], i)
  PROVE  Shown(line, i) = line[f].define
  <1> DEFINE k == [fold |-> "shown", at |-> i]
             n == Len(line)
             d == line[f].define
  <1>1. n \in Nat
    BY ListIs
  <1>2. PICK g : Steps(g, k, NoDefine, line) /\ Fold(k, NoDefine, line) = g[n]
    BY FoldSteps
  <1>3. \A x, r : Op(k, x, r) = IF Reported(r) /\ Covers(r, i) THEN r.define ELSE x
    BY PaintOps
  <1>4. ~Reported(line[f]) => d = NoDefine
    BY DEF Reported
  <1> HIDE DEF k, d
  <1> DEFINE T == {j \in Nat : j <= n => g[j] = IF j < f THEN NoDefine ELSE d}
  <1>5. 0 \in T
    BY <1>1, <1>2 DEF Steps
  <1>6. ASSUME NEW j \in Nat, j \in T PROVE j + 1 \in T
    <2> SUFFICES ASSUME j + 1 <= n PROVE g[j + 1] = IF j + 1 < f THEN NoDefine ELSE d
      OBVIOUS
    <2>1. j + 1 \in 1 .. n /\ (j + 1) - 1 = j /\ g[j] = IF j < f THEN NoDefine ELSE d
      BY <1>1, <1>6
    <2>2. g[j + 1] = Op(k, g[j], line[j + 1])
      BY <1>2, <2>1 DEF Steps
    <2>3. CASE j + 1 = f
      <3>1. g[j] = NoDefine /\ g[j + 1] = IF Reported(line[f]) THEN d ELSE g[j]
        BY <1>1, <1>3, <2>1, <2>2, <2>3 DEF d
      <3>2. g[j + 1] = d /\ ~(j + 1 < f)
        BY <1>1, <1>4, <2>3, <3>1
      <3> QED
        BY <3>2
    <2>4. CASE j + 1 # f
      <3>1. g[j + 1] = g[j]
        BY <1>3, <2>1, <2>2, <2>4
      <3>2. j + 1 < f <=> j < f
        BY <1>1, <2>4
      <3> QED
        BY <2>1, <3>1, <3>2
    <2> QED
      BY <2>3, <2>4
  <1>7. Nat \subseteq T
    <2> HIDE DEF T
    <2> QED
      BY <1>5, <1>6, Induction
  <1>8. g[n] = d
    <2>1. ~(n < f)
      BY <1>1
    <2> QED
      BY <1>1, <1>7, <2>1
  <1> QED
    BY <1>2, <1>8 DEF Shown, k, d

(* What is harvested and read by Go paints what shows.                     *)
LEMMA HarvestShows ==
  ASSUME NEW h, IsList(h.line), NEW i
  PROVE  PaintedAt(Result(h).regions, i) = Shown(h.line, i)
  <1> DEFINE k == [fold |-> "harvest"]
             s == [fold |-> "shown", at |-> i]
             n == Len(h.line)
             rs == Harvested(h)
             out == Result(h).regions
  <1>1. n \in Nat
    BY ListIs
  <1>2. PICK g : Steps(g, k, <<>>, h.line) /\ Fold(k, <<>>, h.line) = g[n]
    BY FoldSteps
  <1>3. PICK f : Steps(f, s, NoDefine, h.line) /\ Fold(s, NoDefine, h.line) = f[n]
    BY FoldSteps
  <1> DEFINE T == {j \in Nat : j <= n => IsList(g[j]) /\ Paint(g[j], i) = f[j]}
  <1>4. 0 \in T
    <2>1. IsList(<<>>) /\ Len(<<>>) = 0
      BY DEF IsList
    <2>2. Paint(<<>>, i) = NoDefine
      BY <2>1, FoldNone DEF Paint
    <2> QED
      BY <1>2, <1>3, <2>1, <2>2 DEF Steps
  <1>5. ASSUME NEW j \in Nat, j \in T PROVE j + 1 \in T
    <2> SUFFICES ASSUME j + 1 <= n PROVE IsList(g[j + 1]) /\ Paint(g[j + 1], i) = f[j + 1]
      OBVIOUS
    <2> DEFINE r == h.line[j + 1]
    <2>1. j + 1 \in 1 .. n /\ (j + 1) - 1 = j /\ IsList(g[j]) /\ Paint(g[j], i) = f[j]
      BY <1>1, <1>5
    <2>2. g[j + 1] = Op(k, g[j], r) /\ f[j + 1] = Op(s, f[j], r)
      BY <1>2, <1>3, <2>1 DEF Steps
    <2> HIDE DEF r
    <2>p. /\ \A a : Op(k, a, r) = IF Reported(r) THEN Append(a, r) ELSE a
          /\ \A a : Op(s, a, r) = IF Reported(r) /\ Covers(r, i) THEN r.define ELSE a
      BY PaintOps
    <2>3. /\ g[j + 1] = IF Reported(r) THEN Append(g[j], r) ELSE g[j]
          /\ f[j + 1] = IF Reported(r) /\ Covers(r, i) THEN r.define ELSE f[j]
      BY <2>2, <2>p
    <2>4. IsList(Append(g[j], r)) /\ Paint(Append(g[j], r), i) = IF Covers(r, i) THEN r.define ELSE f[j]
      <3> DEFINE p == [fold |-> "paint", at |-> i]
      <3>1. \A a : Op(p, a, r) = IF Covers(r, i) THEN r.define ELSE a
        BY PaintOps
      <3> HIDE DEF p
      <3>2. Fold(p, NoDefine, Append(g[j], r)) = Op(p, Fold(p, NoDefine, g[j]), r)
        BY <2>1, FoldMore
      <3> QED
        BY <2>1, <3>1, <3>2, ListMore DEF Paint, p
    <2> QED
      BY <2>1, <2>3, <2>4
  <1>6. Nat \subseteq T
    <2> HIDE DEF T
    <2> QED
      BY <1>4, <1>5, Induction
  <1>7. IsList(rs) /\ Paint(rs, i) = Shown(h.line, i)
    <2>1. rs = g[n] /\ Shown(h.line, i) = f[n]
      BY <1>2, <1>3, PaintFoldsAre DEF Shown
    <2> QED
      BY <1>1, <1>6, <2>1
  <1>8. out = [j \in DOMAIN rs |-> Region(rs[j])]
    BY DEF Result
  <1> HIDE DEF rs, out
  <1>9. /\ IsList(out) /\ Len(out) = Len(rs)
        /\ \A j \in 1 .. Len(rs) : out[j].define = rs[j].define /\ (Covers(out[j], i) <=> Covers(rs[j], i))
    <2>1. Len(rs) \in Nat /\ DOMAIN rs = 1 .. Len(rs)
      BY <1>7, ListIs
    <2>2. out = [j \in 1 .. Len(rs) |-> out[j]] /\ \A j \in 1 .. Len(rs) : out[j] = Region(rs[j])
      BY <1>8, <2>1
    <2>3. IsList(out) /\ Len(out) = Len(rs)
      BY <2>1, <2>2, ListOf
    <2> QED
      BY <2>2, <2>3 DEF Region, Covers
  <1>10. PaintedAt(out, i) = Paint(rs, i)
    <2> DEFINE p == [fold |-> "paint", at |-> i]
    <2>1. PICK q : Steps(q, p, NoDefine, rs) /\ Fold(p, NoDefine, rs) = q[Len(rs)]
      BY <1>7, FoldSteps
    <2>p. \A x, r : Op(p, x, r) = IF Covers(r, i) THEN r.define ELSE x
      BY PaintOps
    <2>2. \A x : \A j \in 1 .. Len(rs) : Op(p, x, rs[j]) = Op(p, x, out[j])
      <3> HIDE DEF p
      <3> QED
        BY <1>9, <2>p
    <2> HIDE DEF p
    <2>3. Steps(q, p, NoDefine, out)
      BY <1>9, <2>1, <2>2 DEF Steps
    <2>4. Fold(p, NoDefine, out) = q[Len(out)]
      BY <1>9, <2>3, FoldOf
    <2>5. PaintedAt(out, i) = Fold(p, NoDefine, out)
      BY PaintFoldsAre DEF p
    <2> QED
      BY <1>9, <2>1, <2>4, <2>5 DEF Paint, p
  <1> QED
    BY <1>7, <1>10 DEF out

-----------------------------------------------------------------------------
(* The handler. *)

HandlerFields ==
  {"mapper", "background", "special", "stack", "line", "flow", "pool", "marks", "level",
   "started", "outline"}
IsHandler(h) == HandlerFields \subseteq DOMAIN h

PieceFields == {"start", "end", "region", "special", "define"}
IsPiece(p) == PieceFields \subseteq DOMAIN p
Maybe == Regions \cup {NoRegion}

(* A handler that differs in what a line does to it.                       *)
Kept(g, h) == IsHandler(g) /\ g.special = h.special /\ g.background = h.background

LEMMA SwitchIs ==
  ASSUME NEW h, IsHandler(h), NEW entry, NEW s, NEW g, g = Switch(h, entry, s)
  PROVE  /\ Kept(g, h) /\ g.stack = h.stack /\ g.mapper = h.mapper
         /\ g.line = Append([h.line EXCEPT ![h.flow].end = s], Flow(h.pool, entry, s))
         /\ g.flow = Len(h.line) + 1
  BY DEF Switch, IsHandler, HandlerFields, Kept

Piece(h, s, e, r) ==
  [start |-> s, end |-> e, region |-> r, special |-> HasParent(r, h.special), define |-> Styled(h, r)]

LEMMA AddRegionIs ==
  ASSUME NEW h, IsHandler(h), NEW s, NEW e, NEW r, NEW g, g = AddRegion(h, s, e, r)
  PROVE  /\ Kept(g, h) /\ g.stack = h.stack /\ g.mapper = Asked(h.mapper, r)
         /\ g.line = Append(h.line, Piece(h, s, e, r)) /\ g.flow = h.flow
  <1> DEFINE p == Piece(h, s, e, r)
             added == [h EXCEPT !.line = Append(@, p), !.pool = Alloc(@), !.mapper = Asked(@, r)]
  <1>1. g = Collect(added, s, e, r)
    BY DEF AddRegion, Piece
  <1> HIDE DEF p
  <1>2. /\ Kept(added, h) /\ added.stack = h.stack /\ added.mapper = Asked(h.mapper, r)
        /\ added.line = Append(h.line, p) /\ added.flow = h.flow
    BY DEF IsHandler, HandlerFields, Kept
  <1> HIDE DEF added
  <1>3. \E x, y : g = [added EXCEPT !.outline = x, !.started = y]
    BY <1>1, Zenon DEF Collect
  <1>4. PICK x, y : g = [added EXCEPT !.outline = x, !.started = y]
    BY <1>3
  <1>5. /\ Kept(g, added) /\ g.stack = added.stack /\ g.mapper = added.mapper
        /\ g.line = added.line /\ g.flow = added.flow
    BY <1>2, <1>4 DEF IsHandler, HandlerFields, Kept
  <1> QED
    BY <1>2, <1>5 DEF p, Kept

(* The line gets a new background at s.                                    *)
Switched(w, line, f, pool, entry, s) == w = Append([line EXCEPT ![f].end = s], Flow(pool, entry, s))

Entered(g, h, s, r, entry, pool) ==
  /\ entry = Entry(r, Styled(h, r))
  /\ Kept(g, h) /\ g.stack = Append(h.stack, entry) /\ g.mapper = Asked(h.mapper, r)
  /\ IF r = NoRegion THEN g.line = h.line /\ g.flow = h.flow
     ELSE Switched(g.line, h.line, h.flow, pool, entry, s) /\ g.flow = Len(h.line) + 1

LEMMA EnterSchemeIs ==
  ASSUME NEW h, IsHandler(h), NEW s, NEW r, NEW g, g = EnterScheme(h, s, r)
  PROVE  \E entry, pool : Entered(g, h, s, r, entry, pool)
  <1> DEFINE entry == Entry(r, Styled(h, r))
             opened == [h EXCEPT !.stack = Append(@, entry), !.pool = Alloc(@),
                                 !.mapper = Asked(@, r), !.level = @ + 1]
  <1>1. g = IF r = NoRegion THEN opened ELSE Switch(opened, entry, s)
    BY DEF EnterScheme
  <1> HIDE DEF entry
  <1>2. /\ Kept(opened, h) /\ opened.stack = Append(h.stack, entry)
        /\ opened.mapper = Asked(h.mapper, r) /\ opened.line = h.line /\ opened.flow = h.flow
    BY DEF IsHandler, HandlerFields, Kept
  <1> HIDE DEF opened
  <1>3. CASE r = NoRegion
    BY <1>1, <1>2, <1>3 DEF entry, Entered
  <1>4. CASE r # NoRegion
    <2>1. g = Switch(opened, entry, s) /\ IsHandler(opened)
      BY <1>1, <1>2, <1>4 DEF Kept
    <2>2. /\ Kept(g, opened) /\ g.stack = opened.stack /\ g.mapper = opened.mapper
          /\ g.line = Append([opened.line EXCEPT ![opened.flow].end = s], Flow(opened.pool, entry, s))
          /\ g.flow = Len(opened.line) + 1
      BY <2>1, SwitchIs
    <2>3. /\ Kept(g, h) /\ g.stack = Append(h.stack, entry) /\ g.mapper = Asked(h.mapper, r)
          /\ g.line = Append([h.line EXCEPT ![h.flow].end = s], Flow(opened.pool, entry, s))
          /\ g.flow = Len(h.line) + 1
      BY <1>2, <2>2 DEF Kept
    <2> QED
      BY <1>4, <2>3 DEF entry, Entered, Switched
  <1> QED
    BY <1>3, <1>4

Left(g, h, s, pool) ==
  /\ Kept(g, h) /\ g.stack = Front(h.stack) /\ g.mapper = h.mapper
  /\ IF Last(h.stack).region = NoRegion THEN g.line = h.line /\ g.flow = h.flow
     ELSE /\ Switched(g.line, h.line, h.flow, pool, Last(Front(h.stack)), s)
          /\ g.flow = Len(h.line) + 1

LEMMA LeaveSchemeIs ==
  ASSUME NEW h, IsHandler(h), NEW s, NEW g, g = LeaveScheme(h, s)
  PROVE  \E pool : Left(g, h, s, pool)
  <1> DEFINE closed == [h EXCEPT !.stack = Front(@), !.level = @ - 1,
                          !.pool = Free(@, <<Last(h.stack)>>)]
             last == Last(h.stack)
  <1>1. g = IF last.region = NoRegion THEN closed ELSE Switch(closed, Last(closed.stack), s)
    BY DEF LeaveScheme
  <1>2. /\ Kept(closed, h) /\ closed.stack = Front(h.stack) /\ closed.mapper = h.mapper
        /\ closed.line = h.line /\ closed.flow = h.flow
    BY DEF IsHandler, HandlerFields, Kept
  <1> HIDE DEF closed
  <1>3. CASE last.region = NoRegion
    BY <1>1, <1>2, <1>3 DEF Left
  <1>4. CASE last.region # NoRegion
    <2>1. g = Switch(closed, Last(closed.stack), s) /\ IsHandler(closed)
      BY <1>1, <1>2, <1>4 DEF Kept
    <2>2. /\ Kept(g, closed) /\ g.stack = closed.stack /\ g.mapper = closed.mapper
          /\ g.line = Append([closed.line EXCEPT ![closed.flow].end = s],
                             Flow(closed.pool, Last(closed.stack), s))
          /\ g.flow = Len(closed.line) + 1
      BY <2>1, SwitchIs
    <2>3. /\ Kept(g, h) /\ g.stack = Front(h.stack) /\ g.mapper = h.mapper
          /\ g.line = Append([h.line EXCEPT ![h.flow].end = s], Flow(closed.pool, Last(Front(h.stack)), s))
          /\ g.flow = Len(h.line) + 1
      BY <1>2, <2>2 DEF Kept
    <2> QED
      BY <1>4, <2>3 DEF Left, Switched
  <1> QED
    BY <1>3, <1>4

(* The pieces of a line up to column n: the background runs, the others    *)
(* have ended.                                                             *)
Ended(p, n) == p.end \in Nat /\ p.end <= n
Pieces(line, f, n) ==
  /\ IsList(line) /\ f \in 1 .. Len(line)
  /\ \A j \in 1 .. Len(line) : IsPiece(line[j])
  /\ line[f].start \in Nat /\ line[f].start <= n /\ line[f].end = -1 /\ line[f].special = FALSE
  /\ \A j \in 1 .. Len(line) : j # f => Ended(line[j], n)

LEMMA EndedNot ==
  ASSUME NEW n \in Nat, NEW p, Ended(p, n), NEW i \in Nat, i > n
  PROVE  ~Covers(p, i)
  BY DEF Ended, Covers

(* The next column shows the background.                                   *)
LEMMA PiecesWiden ==
  ASSUME NEW n \in Nat, NEW line, NEW f, Pieces(line, f, n)
  PROVE  Pieces(line, f, n + 1) /\ Shown(line, n + 1) = line[f].define
  <1>1. Pieces(line, f, n + 1)
    BY DEF Pieces, Ended
  <1>2. Covers(line[f], n + 1) /\ ~line[f].special
    BY DEF Pieces, Covers
  <1>3. \A j \in 1 .. Len(line) : j # f => ~Covers(line[j], n + 1)
    BY EndedNot DEF Pieces
  <1>4. IsList(line) /\ f \in 1 .. Len(line) /\ n + 1 \in Nat
    BY DEF Pieces
  <1>5. Shown(line, n + 1) = line[f].define
    BY <1>2, <1>3, <1>4, ShownOne
  <1> QED
    BY <1>1, <1>5

(* A region of one column.                                                 *)
InColumn(p, n) == IsPiece(p) /\ p.start = n /\ p.end = n + 1
Coloured(w, line, f, n, p) ==
  /\ Pieces(w, f, n + 1) /\ w[f] = line[f]
  /\ \A i \in 1 .. n : Shown(w, i) = Shown(line, i)
  /\ Shown(w, n + 1) = IF Reported(p) THEN p.define ELSE line[f].define

LEMMA PiecesMore ==
  ASSUME NEW n \in Nat, NEW line, NEW f, Pieces(line, f, n), NEW p, InColumn(p, n)
  PROVE  Coloured(Append(line, p), line, f, n, p)
  <1> DEFINE w == Append(line, p)
             m == Len(line)
  <1>1. /\ m \in Nat /\ IsList(w) /\ Len(w) = m + 1 /\ w[m + 1] = p
        /\ \A j \in 1 .. m : w[j] = line[j]
    BY ListIs, ListMore DEF Pieces
  <1>2. \A i : Shown(w, i) = IF Reported(p) /\ Covers(p, i) THEN p.define ELSE Shown(line, i)
    BY ShownMore DEF Pieces
  <1>p. IsPiece(p) /\ p.start = n /\ p.end = n + 1
    BY DEF InColumn
  <1> HIDE DEF w, m
  <1>3. \A i \in 1 .. n : ~Covers(p, i)
    BY <1>p DEF Covers
  <1>4. Covers(p, n + 1)
    BY <1>p DEF Covers
  <1>5. Shown(line, n + 1) = line[f].define /\ Pieces(line, f, n + 1)
    BY PiecesWiden
  <1>6. Ended(p, n + 1)
    BY <1>p DEF Ended
  <1>7. f \in 1 .. m /\ \A j \in 1 .. m + 1 : j \in 1 .. m \/ j = m + 1
    BY <1>1 DEF Pieces, m
  <1>8. f \in 1 .. m + 1 /\ f # m + 1
    BY <1>1, <1>7
  <1>9. Pieces(w, f, n + 1)
    BY <1>p, <1>1, <1>5, <1>6, <1>7, <1>8 DEF Pieces, m
  <1> QED
    BY <1>1, <1>2, <1>3, <1>4, <1>5, <1>7, <1>9 DEF w, Coloured

(* The background changes.                                                 *)
Continued(w, line, n, entry) ==
  /\ Pieces(w, Len(line) + 1, n) /\ w[Len(line) + 1].define = entry.define
  /\ \A i \in 1 .. n : Shown(w, i) = Shown(line, i)

LEMMA PiecesSwitch ==
  ASSUME NEW n \in Nat, NEW line, NEW f, Pieces(line, f, n), NEW pool, NEW entry, NEW w,
         Switched(w, line, f, pool, entry, n)
  PROVE  Continued(w, line, n, entry)
  <1> DEFINE cut == [line EXCEPT ![f].end = n]
             m == Len(line)
             p == Flow(pool, entry, n)
             old == line[f]
  <1>1. m \in Nat /\ DOMAIN line = 1 .. m /\ line = [j \in 1 .. m |-> line[j]] /\ f \in 1 .. m
    BY ListIs, ListFcn DEF Pieces
  <1>2. /\ IsPiece(p) /\ p.start = n /\ p.end = -1 /\ p.special = FALSE /\ p.define = entry.define
    BY DEF Flow, ReplaceRdef, IsPiece, PieceFields
  <1>3. /\ cut = [j \in 1 .. m |-> cut[j]] /\ \A j \in 1 .. m : j # f => cut[j] = line[j]
        /\ cut[f] = [old EXCEPT !.end = n]
    BY <1>1
  <1>4. IsPiece(old) /\ old.start \in Nat /\ old.start <= n /\ old.end = -1 /\ old.special = FALSE
    BY DEF Pieces
  <1> HIDE DEF cut, p
  <1>5. /\ IsPiece(cut[f]) /\ cut[f].start = old.start /\ cut[f].end = n
        /\ cut[f].special = old.special /\ cut[f].define = old.define /\ cut[f].region = old.region
    BY <1>3, <1>4 DEF IsPiece, PieceFields
  <1>6. IsList(cut) /\ Len(cut) = m /\ DOMAIN cut = 1 .. m
    BY <1>1, <1>3, ListOf
  <1>7. IsList(w) /\ Len(w) = m + 1 /\ w[m + 1] = p /\ \A j \in 1 .. m : w[j] = cut[j]
    BY <1>6, ListMore DEF cut, p, Switched
  <1>8. \A i : Shown(w, i) = IF Reported(p) /\ Covers(p, i) THEN p.define ELSE Shown(cut, i)
    BY <1>6, ShownMore DEF cut, p, Switched
  <1>9. ASSUME NEW i \in 1 .. n PROVE Shown(w, i) = Shown(line, i)
    <2>1. ~Covers(p, i)
      BY <1>2 DEF Covers
    <2>2. Covers(cut[f], i) <=> Covers(old, i)
      BY <1>4, <1>5 DEF Covers
    <2>3. Reported(cut[f]) <=> Reported(old)
      BY <1>5 DEF Reported
    <2>4. \A j \in 1 .. m : /\ (Reported(cut[j]) /\ Covers(cut[j], i)) <=> (Reported(line[j]) /\ Covers(line[j], i))
                            /\ cut[j].define = line[j].define
      BY <1>3, <1>5, <2>2, <2>3
    <2>5. Shown(cut, i) = Shown(line, i)
      BY <1>6, <2>4, ShownSame DEF Pieces
    <2> QED
      BY <1>8, <2>1, <2>5
  <1>10. Ended(cut[f], n)
    BY <1>5 DEF Ended
  <1>11. \A j \in 1 .. m + 1 : j \in 1 .. m \/ j = m + 1
    BY <1>1
  <1>12. m + 1 \in 1 .. m + 1 /\ \A j \in 1 .. m : j # m + 1
    BY <1>1
  <1>13. \A j \in 1 .. m : IsPiece(cut[j]) /\ Ended(cut[j], n)
    BY <1>3, <1>5, <1>10 DEF Pieces
  <1>14. Pieces(w, m + 1, n)
    <2>1. \A j \in 1 .. m + 1 : IsPiece(w[j]) /\ (j # m + 1 => Ended(w[j], n))
      BY <1>2, <1>7, <1>11, <1>13
    <2>2. n <= n
      OBVIOUS
    <2> HIDE DEF m
    <2> QED
      BY <1>2, <1>7, <1>12, <2>1, <2>2 DEF Pieces
  <1> QED
    BY <1>2, <1>7, <1>9, <1>14 DEF m, Continued

-----------------------------------------------------------------------------
(* The schemes a handler is in. *)

IsBlock(b) == b.region \in Maybe /\ b.first \in Maybe /\ b.last \in Maybe
AreBlocks(bs) == IsList(bs) /\ \A i \in DOMAIN bs : IsBlock(bs[i])

Background(m) == Named(m, "def:Text")

(* The stack is the background and, for every block, what the scheme makes *)
(* of its region in the style below it.                                    *)
Framed(stack, m, bs) ==
  /\ IsList(stack) /\ Len(stack) = Len(bs) + 1
  /\ \A i \in 1 .. Len(stack) : /\ IsStyle(stack[i].define)
                                /\ m.defines = <<>> => stack[i].define = NoDefine
  /\ stack[1].define = Background(m)
  /\ \A i \in 1 .. Len(bs) : /\ stack[i + 1].region = bs[i].region
                             /\ stack[i + 1].define = Says0(m, bs[i].region, stack[i].define)

(* The style around what lies in some blocks.                              *)
Around(m, bs) == Fold([fold |-> "styles", mapper |-> m], Background(m), bs)

LEMMA LastIs ==
  ASSUME NEW s, IsList(s), Len(s) # 0
  PROVE  Len(s) \in Nat \ {0} /\ Last(s) = s[Len(s)] /\ Len(s) \in 1 .. Len(s)
  BY ListIs DEF Last

LEMMA FrontIs ==
  ASSUME NEW s, IsList(s), NEW n \in Nat, Len(s) = n + 1
  PROVE  IsList(Front(s)) /\ Len(Front(s)) = n /\ \A i \in 1 .. n : Front(s)[i] = s[i]
  <1>1. n \in 0 .. Len(s) /\ Front(s) = SubSeq(s, 1, n)
    BY DEF Front
  <1> QED
    BY <1>1, ListPart

LEMMA FramedAround ==
  ASSUME NEW stack, NEW m, NEW bs, AreBlocks(bs), Framed(stack, m, bs)
  PROVE  Last(stack).define = Around(m, bs)
  <1> DEFINE k == [fold |-> "styles", mapper |-> m]
             n == Len(bs)
             g == [i \in 0 .. n |-> stack[i + 1].define]
  <1>1. n \in Nat /\ IsList(bs)
    BY ListIs DEF AreBlocks
  <1>2. \A a, b : Op(k, a, b) = Says0(m, b.region, a)
    BY SchemeSaysIs DEF Op, Says0
  <1>3. /\ g[0] = stack[1].define /\ g[n] = stack[n + 1].define
        /\ \A i \in 1 .. n : g[i] = stack[i + 1].define /\ g[i - 1] = stack[i].define
    <2>1. 0 \in 0 .. n /\ n \in 0 .. n /\ 0 + 1 = 1
      BY <1>1
    <2>2. \A i \in 1 .. n : i \in 0 .. n /\ i - 1 \in 0 .. n /\ (i - 1) + 1 = i
      BY <1>1
    <2> QED
      BY <2>1, <2>2
  <1> HIDE DEF k, g
  <1>4. Steps(g, k, Background(m), bs)
    BY <1>2, <1>3 DEF Steps, Framed
  <1>5. Fold(k, Background(m), bs) = g[n]
    BY <1>1, <1>4, FoldOf
  <1>6. Last(stack) = stack[n + 1]
    BY <1>1, LastIs DEF Framed
  <1> QED
    BY <1>3, <1>5, <1>6 DEF Around, k

(* A handler in the middle of a line.                                      *)
Good(h, bs, n) ==
  /\ IsHandler(h) /\ IsMapper(h.mapper) /\ AreBlocks(bs)
  /\ Framed(h.stack, h.mapper, bs) /\ Pieces(h.line, h.flow, n)
  /\ h.line[h.flow].define = Last(h.stack).define

(* What a step on the line leaves of it.                                   *)
Painted(g, h, n) ==
  /\ g.special = h.special /\ g.background = h.background /\ g.mapper.defines = h.mapper.defines
  /\ \A i \in 1 .. n : Shown(g.line, i) = Shown(h.line, i)

(* What is asked of a mapper changes nothing of the stack.                 *)
LEMMA FramedSame ==
  ASSUME NEW stack, NEW m, NEW l, NEW bs, Framed(stack, m, bs), m.defines = l.defines
  PROVE  Framed(stack, l, bs)
  <1>1. \A r, outer : Says0(m, r, outer) = Says0(l, r, outer)
    BY SameDefines
  <1>2. Background(m) = Background(l)
    BY DEF Background, Named
  <1> QED
    BY <1>1, <1>2 DEF Framed

LEMMA AroundSame ==
  ASSUME NEW m, NEW l, m.defines = l.defines, NEW bs, AreBlocks(bs)
  PROVE  Around(m, bs) = Around(l, bs)
  <1> DEFINE j == [fold |-> "styles", mapper |-> m]
             k == [fold |-> "styles", mapper |-> l]
  <1>1. \A r, outer : Says0(m, r, outer) = Says0(l, r, outer)
    BY SameDefines
  <1>2. Background(m) = Background(l)
    BY DEF Background, Named
  <1>3. \A a, b : Op(j, a, b) = Says0(m, b.region, a) /\ Op(k, a, b) = Says0(l, b.region, a)
    BY SchemeSaysIs DEF Op, Says0
  <1>4. PICK g : Steps(g, j, Background(m), bs) /\ Fold(j, Background(m), bs) = g[Len(bs)]
    BY FoldSteps DEF AreBlocks
  <1> HIDE DEF j, k
  <1>5. Steps(g, k, Background(m), bs)
    BY <1>1, <1>3, <1>4 DEF Steps
  <1>6. Fold(k, Background(m), bs) = g[Len(bs)]
    BY <1>5, FoldOf DEF AreBlocks
  <1> QED
    BY <1>2, <1>4, <1>6 DEF Around, j, k

(* The top of the stack and the style of a region there.                   *)
LEMMA GoodStyle ==
  ASSUME NEW h, NEW bs, NEW n, Good(h, bs, n), NEW r \in Maybe
  PROVE  /\ Styled(h, r) = Says0(h.mapper, r, Last(h.stack).define)
         /\ IsStyle(Styled(h, r)) /\ (h.mapper.defines = <<>> => Styled(h, r) = NoDefine)
         /\ IsMapper(Asked(h.mapper, r)) /\ Asked(h.mapper, r).defines = h.mapper.defines
         /\ Last(h.stack) = h.stack[Len(bs) + 1]
  <1> DEFINE m == h.mapper
             outer == Last(h.stack).define
  <1>1. Len(bs) \in Nat
    BY ListIs DEF Good, AreBlocks
  <1>2. Last(h.stack) = h.stack[Len(bs) + 1] /\ Len(bs) + 1 \in 1 .. Len(h.stack)
    BY <1>1, LastIs DEF Good, Framed
  <1>3. IsStyle(outer) /\ (m.defines = <<>> => outer = NoDefine)
    BY <1>2 DEF Good, Framed
  <1>4. m = NoMapper => m.defines = <<>>
    BY DEF NoMapper
  <1>5. IsMapper(m)
    BY DEF Good
  <1>6. Styled(h, r) = Says0(m, r, outer) /\ IsStyle(Styled(h, r))
    BY <1>3, <1>4, <1>5, StyledIs DEF Maybe
  <1>7. m.defines = <<>> => Says0(m, r, outer) = outer
    <2> SUFFICES ASSUME m.defines = <<>> PROVE Says0(m, r, outer) = outer
      OBVIOUS
    <2>1. \A s : Named(m, s) = NoDefine
      BY DEF Named
    <2>2. Nearest(m, r) = {}
      BY <2>1 DEF Nearest
    <2> QED
      BY <2>2 DEF Says0, SaysOf
  <1>8. IsMapper(Asked(m, r)) /\ Asked(m, r).defines = m.defines
    BY <1>5, AskedKnows DEF Maybe
  <1> QED
    BY <1>2, <1>3, <1>6, <1>7, <1>8

LEMMA WidenShows ==
  ASSUME NEW n \in Nat, NEW h, NEW bs, Good(h, bs, n)
  PROVE  Good(h, bs, n + 1) /\ Shown(h.line, n + 1) = Last(h.stack).define
  BY PiecesWiden DEF Good

(* The region of a match at the next symbol.                               *)
ShownAs(h, r) ==
  IF r = NoRegion \/ HasParent(r, h.special) THEN Last(h.stack).define
  ELSE SaysOf(h.mapper, r, Last(h.stack).define)

LEMMA AddRegionShows ==
  ASSUME NEW n \in Nat, NEW h, NEW bs, Good(h, bs, n), NEW r \in Maybe, NEW g,
         g = AddRegion(h, n, n + 1, r)
  PROVE  /\ Good(g, bs, n + 1) /\ Painted(g, h, n) /\ g.stack = h.stack
         /\ Shown(g.line, n + 1) = ShownAs(h, r)
  <1> DEFINE p == Piece(h, n, n + 1, r)
             outer == Last(h.stack).define
  <1>1. /\ Kept(g, h) /\ g.stack = h.stack /\ g.mapper = Asked(h.mapper, r)
        /\ g.line = Append(h.line, p) /\ g.flow = h.flow
    BY AddRegionIs DEF Good
  <1>2. /\ Styled(h, r) = Says0(h.mapper, r, outer)
        /\ IsMapper(g.mapper) /\ g.mapper.defines = h.mapper.defines
    BY <1>1, GoodStyle
  <1>3. /\ IsPiece(p) /\ p.start = n /\ p.end = n + 1 /\ p.define = Styled(h, r)
        /\ p.special = HasParent(r, h.special) /\ p.region = r
    BY DEF Piece, IsPiece, PieceFields
  <1> HIDE DEF p
  <1>4. Pieces(h.line, h.flow, n) /\ h.line[h.flow].define = outer
    BY DEF Good
  <1>5. /\ Pieces(g.line, g.flow, n + 1) /\ g.line[g.flow] = h.line[h.flow]
        /\ \A i \in 1 .. n : Shown(g.line, i) = Shown(h.line, i)
        /\ Shown(g.line, n + 1) = IF Reported(p) THEN p.define ELSE h.line[h.flow].define
    <2> DEFINE line == h.line
               f == h.flow
    <2>1. Pieces(line, f, n) /\ g.line = Append(line, p) /\ g.flow = f
      BY <1>1, <1>4
    <2> HIDE DEF line, f
    <2>2. Coloured(Append(line, p), line, f, n, p)
      BY <1>3, <2>1, PiecesMore DEF InColumn
    <2>3. /\ Pieces(g.line, g.flow, n + 1) /\ g.line[g.flow] = line[f]
          /\ \A i \in 1 .. n : Shown(g.line, i) = Shown(line, i)
          /\ Shown(g.line, n + 1) = IF Reported(p) THEN p.define ELSE line[f].define
      BY <2>1, <2>2 DEF Coloured
    <2> QED
      BY <2>3 DEF line, f
  <1>6. Framed(g.stack, g.mapper, bs)
    BY <1>1, <1>2, FramedSame DEF Good
  <1>7. Good(g, bs, n + 1)
    BY <1>1, <1>2, <1>4, <1>5, <1>6 DEF Good, Kept
  <1>8. Painted(g, h, n)
    BY <1>1, <1>2, <1>5 DEF Painted, Kept
  <1>9. Shown(g.line, n + 1) = ShownAs(h, r)
    BY <1>2, <1>3, <1>4, <1>5 DEF Reported, ShownAs, Says0
  <1> QED
    BY <1>1, <1>7, <1>8, <1>9

LEMMA BlocksMore ==
  ASSUME NEW bs, AreBlocks(bs), NEW b, IsBlock(b)
  PROVE  /\ AreBlocks(Append(bs, b)) /\ Len(Append(bs, b)) = Len(bs) + 1
         /\ Append(bs, b)[Len(bs) + 1] = b /\ \A i \in 1 .. Len(bs) : Append(bs, b)[i] = bs[i]
  <1> DEFINE n == Len(bs)
             w == Append(bs, b)
  <1>1. n \in Nat /\ DOMAIN bs = 1 .. n
    BY ListIs DEF AreBlocks
  <1>2. IsList(w) /\ Len(w) = n + 1 /\ w[n + 1] = b /\ \A i \in 1 .. n : w[i] = bs[i]
    BY ListMore DEF AreBlocks
  <1> HIDE DEF w, n
  <1>3. DOMAIN w = 1 .. n + 1
    BY <1>2, ListIs
  <1>4. \A i : i \in 1 .. n + 1 <=> i \in 1 .. n \/ i = n + 1
    BY <1>1
  <1> QED
    BY <1>1, <1>2, <1>3, <1>4 DEF AreBlocks, w, n

LEMMA BlocksLess ==
  ASSUME NEW bs, AreBlocks(bs), bs # <<>>
  PROVE  /\ Len(bs) \in Nat \ {0} /\ AreBlocks(Front(bs)) /\ Len(Front(bs)) = Len(bs) - 1
         /\ \A i \in 1 .. Len(bs) - 1 : Front(bs)[i] = bs[i]
         /\ Last(bs) = bs[Len(bs)] /\ IsBlock(Last(bs))
  <1>1. Len(bs) \in Nat /\ DOMAIN bs = 1 .. Len(bs) /\ bs = [i \in 1 .. Len(bs) |-> bs[i]]
    BY ListIs, ListFcn DEF AreBlocks
  <1>2. Len(bs) # 0
    <2> SUFFICES ASSUME Len(bs) = 0 PROVE FALSE
      OBVIOUS
    <2>1. DOMAIN bs = {}
      BY <1>1
    <2>2. bs = <<>>
      BY <1>1, <2>1
    <2> QED
      BY <2>2
  <1> DEFINE n == Len(bs) - 1
  <1>3. n \in Nat /\ Len(bs) = n + 1
    BY <1>1, <1>2
  <1>4. IsList(Front(bs)) /\ Len(Front(bs)) = n /\ \A i \in 1 .. n : Front(bs)[i] = bs[i]
    BY <1>3, FrontIs DEF AreBlocks
  <1>5. Last(bs) = bs[Len(bs)] /\ Len(bs) \in 1 .. Len(bs)
    BY <1>2, LastIs DEF AreBlocks
  <1>6. AreBlocks(Front(bs))
    <2>1. DOMAIN Front(bs) = 1 .. n
      BY <1>4, ListIs
    <2>2. \A i \in 1 .. n : i \in DOMAIN bs
      BY <1>1, <1>3
    <2> QED
      BY <1>4, <2>1, <2>2 DEF AreBlocks
  <1> QED
    BY <1>1, <1>2, <1>3, <1>4, <1>5, <1>6 DEF AreBlocks

LEMMA EnterShows ==
  ASSUME NEW n \in Nat, NEW h, NEW bs, Good(h, bs, n), NEW b, IsBlock(b), NEW g,
         g = EnterScheme(h, n, b.region)
  PROVE  Good(g, Append(bs, b), n) /\ Painted(g, h, n)
  <1> DEFINE r == b.region
             outer == Last(h.stack).define
             l == Len(bs)
             cs == Append(bs, b)
  <1>0. IsHandler(h) /\ r \in Maybe /\ AreBlocks(bs) /\ g = EnterScheme(h, n, r) /\ r = b.region
    BY DEF Good, IsBlock
  <1> HIDE DEF r
  <1>1. PICK entry, pool : Entered(g, h, n, r, entry, pool)
    BY <1>0, EnterSchemeIs
  <1>2. /\ Styled(h, r) = Says0(h.mapper, r, outer)
        /\ IsStyle(Styled(h, r)) /\ (h.mapper.defines = <<>> => Styled(h, r) = NoDefine)
        /\ IsMapper(g.mapper) /\ g.mapper.defines = h.mapper.defines
        /\ Last(h.stack) = h.stack[l + 1]
    BY <1>0, <1>1, GoodStyle DEF Entered
  <1>3. entry.region = r /\ entry.define = Styled(h, r)
    BY <1>1 DEF Entry, Entered
  <1>4. /\ AreBlocks(cs) /\ Len(cs) = l + 1 /\ cs[l + 1] = b /\ \A i \in 1 .. l : cs[i] = bs[i]
    BY <1>0, BlocksMore
  <1>5. l \in Nat
    BY <1>0, ListIs DEF AreBlocks
  <1>6. IsList(h.stack) /\ Len(h.stack) = l + 1
    BY DEF Good, Framed
  <1>7. /\ IsList(g.stack) /\ Len(g.stack) = (l + 1) + 1 /\ g.stack[(l + 1) + 1] = entry
        /\ \A i \in 1 .. l + 1 : g.stack[i] = h.stack[i]
    BY <1>1, <1>6, ListMore DEF Entered
  <1> HIDE DEF cs, l, outer
  <1>8. Framed(g.stack, h.mapper, cs)
    <2>1. Framed(h.stack, h.mapper, bs)
      BY DEF Good
    <2>2. \A i \in 1 .. (l + 1) + 1 : i \in 1 .. l + 1 \/ i = (l + 1) + 1
      BY <1>5
    <2>3. \A i \in 1 .. l + 1 : i \in 1 .. l \/ i = l + 1
      BY <1>5
    <2>4. \A i \in 1 .. l : i \in 1 .. l + 1 /\ i + 1 \in 1 .. l + 1
      BY <1>5
    <2>5. 1 \in 1 .. l + 1 /\ l + 1 \in 1 .. l + 1
      BY <1>5
    <2>6. \A i \in 1 .. (l + 1) + 1 : /\ IsStyle(g.stack[i].define)
                                      /\ h.mapper.defines = <<>> => g.stack[i].define = NoDefine
      <3>1. \A i \in 1 .. l + 1 : /\ IsStyle(h.stack[i].define)
                                  /\ h.mapper.defines = <<>> => h.stack[i].define = NoDefine
        BY <1>6, <2>1 DEF Framed
      <3> QED
        BY <1>2, <1>3, <1>7, <2>2, <3>1
    <2>7. g.stack[1].define = Background(h.mapper)
      BY <1>7, <2>1, <2>5 DEF Framed
    <2>8. ASSUME NEW i \in 1 .. l + 1
          PROVE  /\ g.stack[i + 1].region = cs[i].region
                 /\ g.stack[i + 1].define = Says0(h.mapper, cs[i].region, g.stack[i].define)
      <3>1. CASE i \in 1 .. l
        BY <1>4, <1>7, <2>1, <2>4, <3>1 DEF Framed, l
      <3>2. CASE i = l + 1
        <4>1. g.stack[i + 1] = entry /\ g.stack[i] = Last(h.stack) /\ cs[i] = b
          BY <1>2, <1>4, <1>7, <2>5, <3>2
        <4> QED
          BY <1>0, <1>2, <1>3, <4>1 DEF outer
      <3> QED
        BY <2>3, <3>1, <3>2
    <2> QED
      BY <1>4, <1>7, <2>6, <2>7, <2>8 DEF Framed
  <1>9. Framed(g.stack, g.mapper, cs)
    BY <1>2, <1>8, FramedSame
  <1>10. Last(g.stack) = entry
    BY <1>5, <1>7, LastIs
  <1>11. /\ Pieces(g.line, g.flow, n) /\ g.line[g.flow].define = entry.define
         /\ \A i \in 1 .. n : Shown(g.line, i) = Shown(h.line, i)
    <2>1. Pieces(h.line, h.flow, n) /\ h.line[h.flow].define = outer
      BY DEF Good, outer
    <2>2. CASE r = NoRegion
      BY <1>1, <1>2, <1>3, <2>1, <2>2 DEF Says0, Entered
    <2>3. CASE r # NoRegion
      <3> DEFINE line == h.line
                 f == h.flow
                 w == g.line
      <3>1. Pieces(line, f, n) /\ Switched(w, line, f, pool, entry, n)
        BY <1>1, <2>1, <2>3 DEF Entered, Left
      <3>2. g.flow = Len(line) + 1
        BY <1>1, <2>3 DEF Entered, Left
      <3> HIDE DEF line, f, w
      <3>3. Continued(w, line, n, entry)
        BY <3>1, PiecesSwitch
      <3> QED
        BY <3>2, <3>3 DEF w, line, Continued
    <2> QED
      BY <2>2, <2>3
  <1> QED
    BY <1>1, <1>2, <1>4, <1>9, <1>10, <1>11 DEF Good, Painted, Kept, cs, Entered

LEMMA LeaveShows ==
  ASSUME NEW n \in Nat, NEW h, NEW bs, Good(h, bs, n), bs # <<>>, NEW g, g = LeaveScheme(h, n)
  PROVE  Good(g, Front(bs), n) /\ Painted(g, h, n)
  <1> DEFINE l == Len(bs) - 1
             cs == Front(bs)
             last == Last(h.stack)
  <1>0. IsHandler(h) /\ AreBlocks(bs) /\ Framed(h.stack, h.mapper, bs)
    BY DEF Good
  <1>1. PICK pool : Left(g, h, n, pool)
    BY <1>0, LeaveSchemeIs
  <1>2. /\ l \in Nat /\ Len(bs) = l + 1 /\ AreBlocks(cs) /\ Len(cs) = l
        /\ \A i \in 1 .. l : cs[i] = bs[i]
    BY <1>0, BlocksLess
  <1>3. IsList(h.stack) /\ Len(h.stack) = (l + 1) + 1
    BY <1>0, <1>2 DEF Framed
  <1>4. /\ IsList(g.stack) /\ Len(g.stack) = l + 1 /\ \A i \in 1 .. l + 1 : g.stack[i] = h.stack[i]
    <2> DEFINE s == h.stack
    <2>1. IsList(s) /\ Len(s) = (l + 1) + 1 /\ l + 1 \in Nat /\ g.stack = Front(s)
      BY <1>1, <1>2, <1>3 DEF Left
    <2> HIDE DEF s, l
    <2>2. IsList(Front(s)) /\ Len(Front(s)) = l + 1 /\ \A i \in 1 .. l + 1 : Front(s)[i] = s[i]
      BY <2>1, FrontIs
    <2> QED
      BY <2>1, <2>2 DEF s
  <1>5. last = h.stack[(l + 1) + 1]
    BY <1>2, <1>3, LastIs
  <1> HIDE DEF cs, l
  <1>6. Framed(g.stack, g.mapper, cs)
    <2>1. \A i \in 1 .. l : i \in 1 .. l + 1 /\ i + 1 \in 1 .. l + 1
      BY <1>2
    <2>2. \A i \in 1 .. l + 1 : i \in 1 .. (l + 1) + 1
      BY <1>2
    <2>3. 1 \in 1 .. l + 1
      BY <1>2
    <2>4. \A i \in 1 .. l + 1 : /\ IsStyle(g.stack[i].define)
                                /\ g.mapper.defines = <<>> => g.stack[i].define = NoDefine
      BY <1>0, <1>1, <1>3, <1>4, <2>2 DEF Framed, Left
    <2>5. g.stack[1].define = Background(g.mapper)
      BY <1>0, <1>1, <1>4, <2>3 DEF Framed, Left
    <2>6. \A i \in 1 .. l : /\ g.stack[i + 1].region = cs[i].region
                            /\ g.stack[i + 1].define = Says0(g.mapper, cs[i].region, g.stack[i].define)
      BY <1>0, <1>1, <1>2, <1>4, <2>1 DEF Framed, Left
    <2> QED
      BY <1>2, <1>4, <2>4, <2>5, <2>6 DEF Framed
  <1>7. Last(g.stack) = g.stack[l + 1] /\ g.stack[l + 1] = h.stack[l + 1]
    BY <1>2, <1>4, LastIs
  <1>8. /\ Pieces(g.line, g.flow, n) /\ g.line[g.flow].define = Last(g.stack).define
        /\ \A i \in 1 .. n : Shown(g.line, i) = Shown(h.line, i)
    <2>1. Pieces(h.line, h.flow, n) /\ h.line[h.flow].define = last.define
      BY DEF Good
    <2>2. CASE last.region = NoRegion
      <3>1. /\ h.stack[(l + 1) + 1].region = bs[l + 1].region
            /\ h.stack[(l + 1) + 1].define = Says0(h.mapper, bs[l + 1].region, h.stack[l + 1].define)
        BY <1>0, <1>2 DEF Framed
      <3>2. last.define = h.stack[l + 1].define
        BY <1>5, <2>2, <3>1 DEF Says0
      <3> QED
        BY <1>1, <1>7, <2>1, <2>2, <3>2 DEF Left
    <2>3. CASE last.region # NoRegion
      <3> DEFINE line == h.line
                 f == h.flow
                 w == g.line
                 entry == Last(g.stack)
      <3>1. Pieces(line, f, n) /\ Switched(w, line, f, pool, entry, n)
        BY <1>1, <2>1, <2>3 DEF Entered, Left
      <3>2. g.flow = Len(line) + 1
        BY <1>1, <2>3 DEF Entered, Left
      <3> HIDE DEF line, f, w, entry
      <3>3. Continued(w, line, n, entry)
        BY <3>1, PiecesSwitch
      <3> QED
        BY <3>2, <3>3 DEF w, line, entry, Continued
    <2> QED
      BY <2>2, <2>3
  <1>9. IsMapper(g.mapper)
    BY <1>1 DEF Good, Left
  <1> QED
    BY <1>1, <1>2, <1>6, <1>8, <1>9 DEF Good, Painted, Kept, cs, Left

-----------------------------------------------------------------------------
(* A line. *)

(* The blocks around a symbol, the region of its match, and its style.     *)
At(before, token) ==
  IF token.kind = "open" /\ ~token.block.inner THEN Append(before, token.block)
  ELSE IF token.kind = "close" /\ before # <<>> /\ Last(before).inner THEN Front(before)
  ELSE before

RegionOf(before, token) ==
  CASE token.kind = "mark" -> token.region
    [] token.kind = "open" -> token.block.first
    [] token.kind = "close" /\ before # <<>> -> Last(before).last
    [] OTHER -> NoRegion

StyleOf(m, special, bs, r) ==
  IF r = NoRegion \/ HasParent(r, special) THEN Around(m, bs) ELSE SaysOf(m, r, Around(m, bs))

Wanted(m, special, before, token) == StyleOf(m, special, At(before, token), RegionOf(before, token))

IsToken(token) ==
  /\ token.kind = "mark" => token.region \in Maybe
  /\ token.kind = "open" => IsBlock(token.block)

LEMMA StyleOfSame ==
  ASSUME NEW m, NEW l, m.defines = l.defines, NEW special, NEW bs, AreBlocks(bs), NEW r
  PROVE  StyleOf(m, special, bs, r) = StyleOf(l, special, bs, r)
  <1>1. Around(m, bs) = Around(l, bs)
    BY AroundSame
  <1>2. \A outer : r # NoRegion => SaysOf(m, r, outer) = SaysOf(l, r, outer)
    BY SameDefines DEF Says0
  <1> QED
    BY <1>1, <1>2 DEF StyleOf

LEMMA ShownAsIs ==
  ASSUME NEW n, NEW h, NEW bs, Good(h, bs, n), NEW r, NEW m, m.defines = h.mapper.defines
  PROVE  ShownAs(h, r) = StyleOf(m, h.special, bs, r)
  <1>1. AreBlocks(bs) /\ Framed(h.stack, h.mapper, bs)
    BY DEF Good
  <1>2. Last(h.stack).define = Around(h.mapper, bs)
    BY <1>1, FramedAround
  <1>3. ShownAs(h, r) = StyleOf(h.mapper, h.special, bs, r)
    BY <1>2 DEF ShownAs, StyleOf
  <1>4. StyleOf(h.mapper, h.special, bs, r) = StyleOf(m, h.special, bs, r)
    BY <1>1, StyleOfSame
  <1> QED
    BY <1>3, <1>4

LEMMA PaintedBoth ==
  ASSUME NEW n \in Nat, NEW e, NEW g, NEW h, NEW k \in Nat, n <= k, Painted(g, e, k), Painted(e, h, n)
  PROVE  Painted(g, h, n)
  <1>1. \A i \in 1 .. n : i \in 1 .. k
    OBVIOUS
  <1> QED
    BY <1>1 DEF Painted

IsState(s) == s = [h |-> s.h, open |-> s.open]

(* What a symbol makes of a handler that is where it should be.            *)
Scanned(g, s, n, token) ==
  /\ IsState(g) /\ Good(g.h, g.open, n + 1) /\ g.open = After(s.open, token)
  /\ Painted(g.h, s.h, n)
  /\ Shown(g.h.line, n + 1) = Wanted(s.h.mapper, s.h.special, s.open, token)

LEMMA ScanMark ==
  ASSUME NEW n \in Nat, NEW s, IsState(s), Good(s.h, s.open, n), NEW token, IsToken(token),
         token.kind = "mark", NEW g, g = Scan(s, n + 1, token)
  PROVE  Scanned(g, s, n, token)
  <1> DEFINE e == AddRegion(s.h, n, n + 1, token.region)
  <1>1. (n + 1) - 1 = n
    OBVIOUS
  <1>2. g = [s EXCEPT !.h = AddRegion(s.h, (n + 1) - 1, n + 1, token.region)]
    BY DEF Scan
  <1>3. g.h = e /\ g.open = s.open /\ IsState(g)
    <2>1. g = [s EXCEPT !.h = e]
      BY <1>1, <1>2
    <2> HIDE DEF e
    <2> QED
      BY <2>1 DEF IsState
  <1>4. token.region \in Maybe
    BY DEF IsToken
  <1> HIDE DEF e
  <1>5. /\ Good(e, s.open, n + 1) /\ Painted(e, s.h, n)
        /\ Shown(e.line, n + 1) = ShownAs(s.h, token.region)
    BY <1>4, AddRegionShows DEF e
  <1>6. ShownAs(s.h, token.region) = StyleOf(s.h.mapper, s.h.special, s.open, token.region)
    BY ShownAsIs
  <1>7. At(s.open, token) = s.open /\ RegionOf(s.open, token) = token.region /\ After(s.open, token) = s.open
    BY DEF At, RegionOf, After
  <1> QED
    BY <1>3, <1>5, <1>6, <1>7 DEF Scanned, Wanted

LEMMA ScanOpen ==
  ASSUME NEW n \in Nat, NEW s, IsState(s), Good(s.h, s.open, n), NEW token, IsToken(token),
         token.kind = "open", NEW g, g = Scan(s, n + 1, token)
  PROVE  Scanned(g, s, n, token)
  <1> DEFINE b == token.block
             h == s.h
             bs == s.open
             m == h.mapper
             special == h.special
  <1>1. (n + 1) - 1 = n /\ n + 1 \in Nat /\ n <= n /\ n <= n + 1 /\ n + 1 \in 1 .. n + 1
    OBVIOUS
  <1>2. g = [h |-> Enter(h, n + 1, b), open |-> Append(bs, b)]
    BY DEF Scan
  <1>3. g.h = Enter(h, n + 1, b) /\ g.open = Append(bs, b) /\ IsState(g)
    BY <1>2 DEF IsState
  <1>4. IsBlock(b) /\ b.first \in Maybe
    BY DEF IsToken, IsBlock
  <1>5. RegionOf(bs, token) = b.first /\ After(bs, token) = Append(bs, b)
    BY DEF RegionOf, After
  <1>6. Good(h, bs, n) /\ AreBlocks(bs)
    BY DEF Good
  <1>7. b.inner => At(bs, token) = bs
    BY DEF At
  <1>8. ~b.inner => At(bs, token) = Append(bs, b)
    BY DEF At
  <1>9. IF b.inner THEN g.h = EnterScheme(AddRegion(h, n, n + 1, b.first), n + 1, b.region)
        ELSE g.h = AddRegion(EnterScheme(h, n, b.region), n, n + 1, b.first)
    BY <1>1, <1>3 DEF Enter
  <1> HIDE DEF b, h, bs
  <1>10. CASE b.inner
    <2> DEFINE e == AddRegion(h, n, n + 1, b.first)
    <2>1. g.h = EnterScheme(e, n + 1, b.region)
      BY <1>9, <1>10
    <2> HIDE DEF e
    <2>2. Good(e, bs, n + 1) /\ Painted(e, h, n) /\ Shown(e.line, n + 1) = ShownAs(h, b.first)
      BY <1>4, <1>6, AddRegionShows DEF e
    <2>3. Good(g.h, Append(bs, b), n + 1) /\ Painted(g.h, e, n + 1)
      BY <1>1, <1>4, <2>1, <2>2, EnterShows
    <2>4. Painted(g.h, h, n)
      BY <1>1, <2>2, <2>3, PaintedBoth
    <2>5. Shown(g.h.line, n + 1) = ShownAs(h, b.first)
      BY <1>1, <2>2, <2>3 DEF Painted
    <2>6. ShownAs(h, b.first) = StyleOf(m, special, bs, b.first)
      BY <1>6, ShownAsIs
    <2> QED
      BY <1>3, <1>5, <1>7, <1>10, <2>3, <2>4, <2>5, <2>6 DEF Scanned, Wanted, h, bs
  <1>11. CASE ~b.inner
    <2> DEFINE e == EnterScheme(h, n, b.region)
               cs == Append(bs, b)
    <2>1. g.h = AddRegion(e, n, n + 1, b.first)
      BY <1>9, <1>11
    <2> HIDE DEF e
    <2>2. Good(e, cs, n) /\ Painted(e, h, n)
      BY <1>4, <1>6, EnterShows DEF e
    <2> HIDE DEF cs
    <2>3. Good(g.h, cs, n + 1) /\ Painted(g.h, e, n) /\ Shown(g.h.line, n + 1) = ShownAs(e, b.first)
      BY <1>4, <2>1, <2>2, AddRegionShows
    <2>4. Painted(g.h, h, n)
      BY <1>1, <2>2, <2>3, PaintedBoth
    <2>5. e.special = special /\ m.defines = e.mapper.defines
      BY <2>2 DEF Painted
    <2>6. ShownAs(e, b.first) = StyleOf(m, e.special, cs, b.first)
      BY <2>2, <2>5, ShownAsIs
    <2> QED
      BY <1>3, <1>5, <1>8, <1>11, <2>3, <2>4, <2>5, <2>6 DEF Scanned, Wanted, h, bs, cs
  <1> QED
    BY <1>10, <1>11

LEMMA ScanClose ==
  ASSUME NEW n \in Nat, NEW s, IsState(s), Good(s.h, s.open, n), NEW token, IsToken(token),
         token.kind = "close", s.open # <<>>, NEW g, g = Scan(s, n + 1, token)
  PROVE  Scanned(g, s, n, token)
  <1> DEFINE h == s.h
             bs == s.open
             b == Last(bs)
             m == h.mapper
             special == h.special
  <1>1. (n + 1) - 1 = n /\ n + 1 \in Nat /\ n <= n /\ n <= n + 1 /\ n + 1 \in 1 .. n + 1
    OBVIOUS
  <1>2. g = [h |-> Leave(h, n + 1, b), open |-> Front(bs)]
    BY DEF Scan
  <1>3. g.h = Leave(h, n + 1, b) /\ g.open = Front(bs) /\ IsState(g)
    BY <1>2 DEF IsState
  <1>4. Good(h, bs, n) /\ AreBlocks(bs) /\ bs # <<>>
    BY DEF Good
  <1>5. RegionOf(bs, token) = b.last /\ After(bs, token) = Front(bs)
    BY DEF RegionOf, After
  <1>6. b.inner => At(bs, token) = Front(bs)
    BY DEF At
  <1>7. ~b.inner => At(bs, token) = bs
    BY DEF At
  <1>8. IF b.inner THEN g.h = AddRegion(LeaveScheme(h, n), n, n + 1, b.last)
        ELSE g.h = LeaveScheme(AddRegion(h, n, n + 1, b.last), n + 1)
    BY <1>1, <1>3 DEF Leave
  <1> HIDE DEF h, bs
  <1>9. b.last \in Maybe
    BY <1>4, BlocksLess DEF IsBlock
  <1> HIDE DEF b
  <1>10. CASE ~b.inner
    <2> DEFINE e == AddRegion(h, n, n + 1, b.last)
    <2>1. g.h = LeaveScheme(e, n + 1)
      BY <1>8, <1>10
    <2> HIDE DEF e
    <2>2. Good(e, bs, n + 1) /\ Painted(e, h, n) /\ Shown(e.line, n + 1) = ShownAs(h, b.last)
      BY <1>4, <1>9, AddRegionShows DEF e
    <2>3. Good(g.h, Front(bs), n + 1) /\ Painted(g.h, e, n + 1)
      BY <1>1, <1>4, <2>1, <2>2, LeaveShows
    <2>4. Painted(g.h, h, n)
      BY <1>1, <2>2, <2>3, PaintedBoth
    <2>5. Shown(g.h.line, n + 1) = ShownAs(h, b.last)
      BY <1>1, <2>2, <2>3 DEF Painted
    <2>6. ShownAs(h, b.last) = StyleOf(m, special, bs, b.last)
      BY <1>4, ShownAsIs
    <2> QED
      BY <1>3, <1>5, <1>7, <1>10, <2>3, <2>4, <2>5, <2>6 DEF Scanned, Wanted, h, bs
  <1>11. CASE b.inner
    <2> DEFINE e == LeaveScheme(h, n)
               cs == Front(bs)
    <2>1. g.h = AddRegion(e, n, n + 1, b.last)
      BY <1>8, <1>11
    <2> HIDE DEF e
    <2>2. Good(e, cs, n) /\ Painted(e, h, n)
      BY <1>4, LeaveShows DEF e
    <2> HIDE DEF cs
    <2>3. Good(g.h, cs, n + 1) /\ Painted(g.h, e, n) /\ Shown(g.h.line, n + 1) = ShownAs(e, b.last)
      BY <1>9, <2>1, <2>2, AddRegionShows
    <2>4. Painted(g.h, h, n)
      BY <1>1, <2>2, <2>3, PaintedBoth
    <2>5. e.special = special /\ m.defines = e.mapper.defines
      BY <2>2 DEF Painted
    <2>6. ShownAs(e, b.last) = StyleOf(m, e.special, cs, b.last)
      BY <2>2, <2>5, ShownAsIs
    <2> QED
      BY <1>3, <1>5, <1>6, <1>11, <2>3, <2>4, <2>5, <2>6 DEF Scanned, Wanted, h, bs, cs
  <1> QED
    BY <1>10, <1>11

LEMMA ScanShows ==
  ASSUME NEW n \in Nat, NEW s, IsState(s), Good(s.h, s.open, n), NEW token, IsToken(token)
  PROVE  Scanned(Scan(s, n + 1, token), s, n, token)
  <1>1. CASE token.kind = "mark"
    BY <1>1, ScanMark
  <1>2. CASE token.kind = "open"
    BY <1>2, ScanOpen
  <1>3. CASE token.kind = "close" /\ s.open # <<>>
    BY <1>3, ScanClose
  <1>4. CASE ~(token.kind = "mark" \/ token.kind = "open" \/ (token.kind = "close" /\ s.open # <<>>))
    <2>1. Scan(s, n + 1, token) = s
      BY <1>4 DEF Scan
    <2>2. /\ At(s.open, token) = s.open /\ RegionOf(s.open, token) = NoRegion
          /\ After(s.open, token) = s.open
      BY <1>4 DEF At, RegionOf, After
    <2>3. Good(s.h, s.open, n + 1) /\ Shown(s.h.line, n + 1) = Last(s.h.stack).define
      BY WidenShows
    <2>4. Last(s.h.stack).define = Around(s.h.mapper, s.open)
      BY FramedAround DEF Good
    <2>5. Painted(s.h, s.h, n)
      BY DEF Painted
    <2> QED
      BY <2>1, <2>2, <2>3, <2>4, <2>5 DEF Scanned, Wanted, StyleOf
  <1> QED
    BY <1>1, <1>2, <1>3, <1>4

(* A list up to an element, and one further.                               *)
LEMMA PartMore ==
  ASSUME NEW s, IsList(s), NEW i \in Nat, i + 1 \in 1 .. Len(s)
  PROVE  SubSeq(s, 1, i + 1) = Append(SubSeq(s, 1, i), s[i + 1])
  <1> DEFINE t == SubSeq(s, 1, i)
             w == SubSeq(s, 1, i + 1)
             x == s[i + 1]
             v == Append(t, x)
  <1>1. Len(s) \in Nat
    BY ListIs
  <1>2. i \in 0 .. Len(s) /\ i + 1 \in 0 .. Len(s)
    BY <1>1
  <1>3. IsList(t) /\ Len(t) = i /\ \A j \in 1 .. i : t[j] = s[j]
    BY <1>2, ListPart
  <1>4. IsList(w) /\ Len(w) = i + 1 /\ \A j \in 1 .. i + 1 : w[j] = s[j]
    BY <1>2, ListPart
  <1> HIDE DEF t, w
  <1>5. IsList(v) /\ Len(v) = i + 1 /\ v[i + 1] = x /\ \A j \in 1 .. i : v[j] = t[j]
    BY <1>3, ListMore
  <1> HIDE DEF v
  <1>6. ASSUME NEW j \in 1 .. i + 1 PROVE w[j] = v[j]
    <2>1. j \in 1 .. i \/ j = i + 1
      OBVIOUS
    <2> QED
      BY <1>3, <1>4, <1>5, <2>1
  <1>7. w = v
    BY <1>4, <1>5, <1>6, ListSame
  <1> QED
    BY <1>7 DEF w, v, t, x

LEMMA PartAll ==
  ASSUME NEW s, IsList(s)
  PROVE  SubSeq(s, 1, Len(s)) = s
  <1>1. Len(s) \in 0 .. Len(s)
    BY ListIs
  <1> DEFINE t == SubSeq(s, 1, Len(s))
  <1>2. IsList(t) /\ Len(t) = Len(s) /\ \A j \in 1 .. Len(s) : t[j] = s[j]
    BY <1>1, ListPart
  <1> HIDE DEF t
  <1>3. t = s
    BY <1>2, ListSame
  <1> QED
    BY <1>3 DEF t

LEMMA PartNone ==
  ASSUME NEW s, IsList(s)
  PROVE  SubSeq(s, 1, 0) = <<>>
  <1>1. 0 \in 0 .. Len(s)
    BY ListIs
  <1> DEFINE t == SubSeq(s, 1, 0)
  <1>2. IsList(t) /\ Len(t) = 0
    BY <1>1, ListPart
  <1>3. IsList(<<>>) /\ Len(<<>>) = 0
    BY DEF IsList
  <1> HIDE DEF t
  <1>4. t = <<>>
    BY <1>2, <1>3, ListSame
  <1> QED
    BY <1>4 DEF t

(* A handler before a line.                                                *)
Ready(h) == IsHandler(h) /\ IsMapper(h.mapper) /\ h.background = Background(h.mapper)

LEMMA NoBlocks == AreBlocks(<<>>) /\ Len(<<>>) = 0
  BY DEF AreBlocks, IsList

LEMMA LineStarts ==
  ASSUME NEW h, Ready(h), NEW g, g = ClearLine(StartParsing(h))
  PROVE  Good(g, <<>>, 0) /\ Painted(g, h, 0)
  <1> DEFINE first == Entry(NoRegion, h.background)
             stack == <<first>>
             e == StartParsing(h)
  <1>1. /\ IsHandler(e) /\ e.stack = stack /\ e.mapper = h.mapper /\ e.special = h.special
        /\ e.background = h.background
    BY DEF StartParsing, Ready, IsHandler, HandlerFields
  <1> HIDE DEF e
  <1>2. PICK p : \E pool : p = Flow(pool, Last(e.stack), 0) /\ g.line = <<p>>
    BY <1>1 DEF ClearLine, IsHandler, HandlerFields, e
  <1>3. /\ IsHandler(g) /\ g.stack = e.stack /\ g.mapper = e.mapper /\ g.special = e.special
        /\ g.background = e.background /\ g.flow = 1
    BY <1>1 DEF ClearLine, IsHandler, HandlerFields, e
  <1>4. first.define = h.background
    BY DEF Entry
  <1> HIDE DEF first
  <1>5. stack = [i \in 1 .. 1 |-> stack[i]] /\ stack[1] = first
    OBVIOUS
  <1> HIDE DEF stack
  <1>6. IsList(stack) /\ Len(stack) = 1 /\ Last(stack) = first
    <2>1. IsList(stack) /\ Len(stack) = 1
      BY <1>5, ListOf
    <2> QED
      BY <1>5, <2>1, LastIs
  <1>7. IsPiece(p) /\ p.start = 0 /\ p.end = -1 /\ p.special = FALSE /\ p.define = first.define
    BY <1>1, <1>2, <1>6 DEF Flow, ReplaceRdef, IsPiece, PieceFields
  <1> DEFINE line == <<p>>
  <1>8. line = [i \in 1 .. 1 |-> line[i]] /\ line[1] = p
    OBVIOUS
  <1>9. g.line = line
    BY <1>2
  <1> HIDE DEF line
  <1>10. IsList(line) /\ Len(line) = 1
    BY <1>8, ListOf
  <1>11. Pieces(line, 1, 0)
    <2>1. \A j \in 1 .. 1 : j = 1
      OBVIOUS
    <2> QED
      BY <1>7, <1>8, <1>10, <2>1 DEF Pieces
  <1>12. Framed(stack, h.mapper, <<>>)
    <2>1. \A i \in 1 .. 1 : i = 1
      OBVIOUS
    <2>2. IsStyle(h.background)
      BY NamedIsStyle DEF Ready, IsMapper, Background
    <2>3. h.mapper.defines = <<>> => h.background = NoDefine
      BY DEF Ready, Background, Named
    <2>4. h.background = Background(h.mapper)
      BY DEF Ready
    <2> QED
      BY <1>4, <1>5, <1>6, <2>1, <2>2, <2>3, <2>4, NoBlocks DEF Framed
  <1>13. Good(g, <<>>, 0)
    BY <1>1, <1>3, <1>6, <1>7, <1>8, <1>9, <1>11, <1>12, NoBlocks DEF Good, Ready
  <1>14. Painted(g, h, 0)
    BY <1>1, <1>3 DEF Painted
  <1> QED
    BY <1>13, <1>14

(* What is open is told to the handler.                                    *)
LEMMA ResumeShows ==
  ASSUME NEW h, Good(h, <<>>, 0), NEW bs, AreBlocks(bs)
  PROVE  Good(Resume(h, bs), bs, 0) /\ Painted(Resume(h, bs), h, 0)
  <1> DEFINE k == [fold |-> "resume"]
             n == Len(bs)
  <1>1. n \in Nat /\ IsList(bs) /\ DOMAIN bs = 1 .. n
    BY ListIs DEF AreBlocks
  <1>2. PICK g : Steps(g, k, h, bs) /\ Fold(k, h, bs) = g[n]
    BY <1>1, FoldSteps
  <1>3. \A a, b : Op(k, a, b) = EnterScheme(a, 0, b.region)
    BY DEF Op
  <1>4. Resume(h, bs) = g[n]
    BY <1>2, PaintFoldsAre
  <1> HIDE DEF k
  <1> DEFINE T == {i \in Nat : i <= n => Good(g[i], SubSeq(bs, 1, i), 0) /\ Painted(g[i], h, 0)}
  <1>5. 0 \in T
    <2>1. SubSeq(bs, 1, 0) = <<>> /\ g[0] = h
      BY <1>1, <1>2, PartNone DEF Steps
    <2>2. Painted(h, h, 0)
      BY DEF Painted
    <2> QED
      BY <2>1, <2>2
  <1>6. ASSUME NEW i \in Nat, i \in T PROVE i + 1 \in T
    <2> SUFFICES ASSUME i + 1 <= n
                 PROVE  Good(g[i + 1], SubSeq(bs, 1, i + 1), 0) /\ Painted(g[i + 1], h, 0)
      OBVIOUS
    <2> DEFINE b == bs[i + 1]
               cs == SubSeq(bs, 1, i)
    <2>1. /\ i + 1 \in 1 .. n /\ (i + 1) - 1 = i /\ 0 \in Nat /\ 0 <= 0
          /\ Good(g[i], cs, 0) /\ Painted(g[i], h, 0)
      BY <1>1, <1>6
    <2>2. g[i + 1] = EnterScheme(g[i], 0, b.region) /\ IsBlock(b)
      BY <1>1, <1>2, <1>3, <2>1 DEF Steps, AreBlocks
    <2>3. SubSeq(bs, 1, i + 1) = Append(cs, b)
      BY <1>1, <2>1, PartMore
    <2> HIDE DEF b, cs
    <2>4. Good(g[i + 1], Append(cs, b), 0) /\ Painted(g[i + 1], g[i], 0)
      BY <2>1, <2>2, EnterShows
    <2>5. Painted(g[i + 1], h, 0)
      BY <2>1, <2>4, PaintedBoth
    <2> QED
      BY <2>3, <2>4, <2>5
  <1>7. Nat \subseteq T
    <2> HIDE DEF T
    <2> QED
      BY <1>5, <1>6, Induction
  <1>8. Good(g[n], SubSeq(bs, 1, n), 0) /\ Painted(g[n], h, 0)
    BY <1>1, <1>7
  <1> QED
    BY <1>1, <1>4, <1>8, PartAll

(* The blocks before a symbol of a line.                                   *)
Before(bs, tokens, i) == Fold([fold |-> "tokens"], bs, SubSeq(tokens, 1, i - 1))

AreTokens(tokens) == IsList(tokens) /\ \A i \in DOMAIN tokens : IsToken(tokens[i])

ScanOf(h, bs, tokens) ==
  Fold([fold |-> "scan", tokens |-> tokens], [h |-> Resume(ClearLine(StartParsing(h)), bs), open |-> bs],
       Numbers(tokens))

(* A line gives every symbol its style.                                    *)
LineShown(h, bs, tokens, s) ==
  /\ IsState(s) /\ Good(s.h, s.open, Len(tokens)) /\ Painted(s.h, h, 0)
  /\ s.open = Fold([fold |-> "tokens"], bs, tokens)
  /\ \A i \in 1 .. Len(tokens) :
       /\ AreBlocks(Before(bs, tokens, i))
       /\ Shown(s.h.line, i) = Wanted(s.h.mapper, h.special, Before(bs, tokens, i), tokens[i])

LEMMA WantedSame ==
  ASSUME NEW m, NEW l, m.defines = l.defines, NEW special, NEW bs, AreBlocks(bs),
         NEW token, IsToken(token)
  PROVE  Wanted(m, special, bs, token) = Wanted(l, special, bs, token)
  <1>1. AreBlocks(At(bs, token))
    <2>1. CASE token.kind = "open" /\ ~token.block.inner
      BY <2>1, BlocksMore DEF At, IsToken
    <2>2. CASE token.kind = "close" /\ bs # <<>> /\ Last(bs).inner
      BY <2>2, BlocksLess DEF At
    <2> QED
      BY <2>1, <2>2 DEF At
  <1> QED
    BY <1>1, StyleOfSame DEF Wanted

(* A line symbol by symbol: g what the handler and the open blocks are, f  *)
(* the open blocks by the text alone.                                      *)
LineAt(h, tokens, g, f, i) ==
  /\ IsState(g[i]) /\ Good(g[i].h, g[i].open, i) /\ Painted(g[i].h, h, 0)
  /\ g[i].open = f[i] /\ AreBlocks(f[i])
  /\ \A j \in 1 .. i : /\ AreBlocks(f[j - 1])
                       /\ Shown(g[i].h.line, j) = Wanted(h.mapper, h.special, f[j - 1], tokens[j])

LineRun(h, bs, tokens, g, f) ==
  /\ g[0].h = Resume(ClearLine(StartParsing(h)), bs) /\ g[0].open = bs
  /\ \A i \in 1 .. Len(tokens) : g[i] = Scan(g[i - 1], i, tokens[i]) /\ Before(bs, tokens, i) = f[i - 1]
  /\ ScanOf(h, bs, tokens) = g[Len(tokens)]
  /\ Fold([fold |-> "tokens"], bs, tokens) = f[Len(tokens)]
  /\ \A i \in 0 .. Len(tokens) : LineAt(h, tokens, g, f, i)

LEMMA LineSteps ==
  ASSUME NEW h, Ready(h), NEW bs, AreBlocks(bs), NEW tokens, AreTokens(tokens)
  PROVE  \E g, f : LineRun(h, bs, tokens, g, f)
  <1> DEFINE k == [fold |-> "scan", tokens |-> tokens]
             t == [fold |-> "tokens"]
             n == Len(tokens)
             e == Resume(ClearLine(StartParsing(h)), bs)
             base == [h |-> e, open |-> bs]
             nums == Numbers(tokens)
  <1>1. n \in Nat /\ IsList(tokens) /\ DOMAIN tokens = 1 .. n
    BY ListIs DEF AreTokens
  <1>2. IsList(nums) /\ Len(nums) = n /\ \A i \in 1 .. n : nums[i] = i
    <2>1. nums = [i \in 1 .. n |-> nums[i]] /\ \A i \in 1 .. n : nums[i] = i
      BY <1>1 DEF Numbers
    <2> HIDE DEF nums, n
    <2> QED
      BY <1>1, <2>1, ListOf
  <1> HIDE DEF nums
  <1>3. PICK g : Steps(g, k, base, nums) /\ Fold(k, base, nums) = g[n]
    BY <1>2, FoldSteps
  <1>4. PICK f : /\ Steps(f, t, bs, tokens) /\ Fold(t, bs, tokens) = f[n]
                 /\ \A i \in 0 .. n : Fold(t, bs, SubSeq(tokens, 1, i)) = f[i]
    BY <1>1, FoldSteps
  <1>5. /\ \A a, b : Op(k, a, b) = Scan(a, b, tokens[b])
        /\ \A a, b : Op(t, a, b) = After(a, b)
    BY DEF Op
  <1>6. g[0] = base /\ \A i \in 1 .. n : g[i] = Scan(g[i - 1], i, tokens[i])
    <2> HIDE DEF k, base
    <2> QED
      BY <1>2, <1>3, <1>5 DEF Steps
  <1>7. f[0] = bs /\ \A i \in 1 .. n : f[i] = After(f[i - 1], tokens[i])
    <2> HIDE DEF t
    <2> QED
      BY <1>4, <1>5 DEF Steps
  <1>8. Good(e, bs, 0) /\ Painted(e, h, 0)
    <2> DEFINE c == ClearLine(StartParsing(h))
    <2>1. Good(c, <<>>, 0) /\ Painted(c, h, 0)
      BY LineStarts
    <2> HIDE DEF c
    <2>2. Good(Resume(c, bs), bs, 0) /\ Painted(Resume(c, bs), c, 0)
      BY <2>1, ResumeShows
    <2>3. Painted(Resume(c, bs), h, 0)
      BY <2>1, <2>2, PaintedBoth
    <2> QED
      BY <2>2, <2>3 DEF c
  <1>9. g[0].h = e /\ g[0].open = bs /\ IsState(g[0])
    BY <1>6 DEF IsState
  <1>10. ScanOf(h, bs, tokens) = g[n]
    BY <1>3 DEF ScanOf, nums
  <1> HIDE DEF k, t, e, base
  <1> DEFINE P(i) == LineAt(h, tokens, g, f, i)
             T == {i \in Nat : i <= n => P(i)}
  <1>11. 0 \in T
    <2>1. P(0)
      BY <1>7, <1>8, <1>9 DEF LineAt
    <2> QED
      BY <2>1
  <1>12. ASSUME NEW i \in Nat, i \in T PROVE i + 1 \in T
    <2> SUFFICES ASSUME i + 1 <= n PROVE P(i + 1)
      OBVIOUS
    <2> DEFINE token == tokens[i + 1]
               s == g[i]
               r == g[i + 1]
    <2>1. i + 1 \in 1 .. n /\ (i + 1) - 1 = i /\ 0 <= i /\ 0 \in Nat /\ i <= i
      BY <1>1
    <2>2. P(i)
      BY <1>1, <1>12
    <2>3. r = Scan(s, i + 1, token) /\ IsToken(token) /\ f[i + 1] = After(f[i], token)
      BY <1>1, <1>6, <1>7, <2>1 DEF AreTokens
    <2>4. IsState(s) /\ Good(s.h, s.open, i) /\ Painted(s.h, h, 0) /\ s.open = f[i]
      BY <2>2 DEF LineAt
    <2> HIDE DEF token, s, r
    <2>5. Scanned(r, s, i, token)
      BY <2>3, <2>4, ScanShows
    <2>6. Painted(r.h, s.h, i)
      BY <2>5 DEF Scanned
    <2>7. Painted(r.h, h, 0)
      <3>1. Painted(r.h, s.h, 0)
        BY <2>1, <2>6 DEF Painted
      <3> QED
        BY <2>1, <2>4, <3>1, PaintedBoth
    <2>8. /\ IsState(r) /\ Good(r.h, r.open, i + 1) /\ r.open = f[i + 1] /\ AreBlocks(f[i + 1])
      BY <2>3, <2>4, <2>5 DEF Scanned, Good
    <2>9. Shown(r.h.line, i + 1) = Wanted(h.mapper, h.special, f[i], token) /\ AreBlocks(f[i])
      <3>1. s.h.special = h.special /\ s.h.mapper.defines = h.mapper.defines
        BY <2>4 DEF Painted
      <3>2. Shown(r.h.line, i + 1) = Wanted(s.h.mapper, h.special, f[i], token)
        BY <2>4, <2>5, <3>1 DEF Scanned
      <3>3. AreBlocks(f[i])
        BY <2>4 DEF Good
      <3>4. Wanted(s.h.mapper, h.special, f[i], token) = Wanted(h.mapper, h.special, f[i], token)
        BY <2>3, <3>1, <3>3, WantedSame
      <3> QED
        BY <3>2, <3>3, <3>4
    <2>10. ASSUME NEW j \in 1 .. i + 1
           PROVE  /\ AreBlocks(f[j - 1])
                  /\ Shown(r.h.line, j) = Wanted(h.mapper, h.special, f[j - 1], tokens[j])
      <3>1. CASE j \in 1 .. i
        <4>1. /\ AreBlocks(f[j - 1])
              /\ Shown(s.h.line, j) = Wanted(h.mapper, h.special, f[j - 1], tokens[j])
          BY <2>2, <3>1 DEF s, LineAt
        <4>2. Shown(r.h.line, j) = Shown(s.h.line, j)
          BY <2>6, <3>1 DEF Painted
        <4> QED
          BY <4>1, <4>2
      <3>2. CASE j = i + 1
        BY <2>1, <2>9, <3>2 DEF token
      <3> QED
        BY <3>1, <3>2
    <2> QED
      BY <2>7, <2>8, <2>10 DEF r, LineAt
  <1>13. \A i \in 0 .. n : LineAt(h, tokens, g, f, i)
    <2>1. Nat \subseteq T
      <3> HIDE DEF T
      <3> QED
        BY <1>11, <1>12, Induction
    <2> QED
      BY <1>1, <2>1
  <1>14. ASSUME NEW i \in 1 .. n PROVE Before(bs, tokens, i) = f[i - 1]
    <2>1. i - 1 \in 0 .. n
      BY <1>1
    <2> QED
      BY <1>4, <2>1 DEF Before, t
  <1>15. LineRun(h, bs, tokens, g, f)
    BY <1>4, <1>6, <1>9, <1>10, <1>13, <1>14 DEF LineRun, t, e
  <1> QED
    BY <1>15

LEMMA LineShows ==
  ASSUME NEW h, Ready(h), NEW bs, AreBlocks(bs), NEW tokens, AreTokens(tokens)
  PROVE  LineShown(h, bs, tokens, ScanOf(h, bs, tokens))
  <1> DEFINE n == Len(tokens)
  <1>1. PICK g, f : LineRun(h, bs, tokens, g, f)
    BY LineSteps
  <1> DEFINE s == g[n]
  <1>2. n \in Nat /\ DOMAIN tokens = 1 .. n /\ n \in 0 .. n
    BY ListIs DEF AreTokens
  <1>3. LineAt(h, tokens, g, f, n)
    BY <1>1, <1>2 DEF LineRun
  <1>4. IsState(s) /\ Good(s.h, s.open, n) /\ Painted(s.h, h, 0)
    BY <1>3 DEF LineAt
  <1>5. ASSUME NEW i \in 1 .. n
        PROVE  /\ AreBlocks(Before(bs, tokens, i))
               /\ Shown(s.h.line, i) = Wanted(s.h.mapper, h.special, Before(bs, tokens, i), tokens[i])
    <2>1. /\ AreBlocks(f[i - 1])
          /\ Shown(s.h.line, i) = Wanted(h.mapper, h.special, f[i - 1], tokens[i])
      BY <1>3 DEF LineAt
    <2>2. Before(bs, tokens, i) = f[i - 1]
      BY <1>1 DEF LineRun
    <2>3. s.h.mapper.defines = h.mapper.defines
      BY <1>4 DEF Painted
    <2>4. IsToken(tokens[i])
      BY <1>2 DEF AreTokens
    <2>5. Wanted(h.mapper, h.special, f[i - 1], tokens[i]) = Wanted(s.h.mapper, h.special, f[i - 1], tokens[i])
      BY <2>1, <2>3, <2>4, WantedSame
    <2> QED
      BY <2>1, <2>2, <2>5
  <1>6. s.open = Fold([fold |-> "tokens"], bs, tokens) /\ ScanOf(h, bs, tokens) = s
    BY <1>1, <1>3 DEF LineRun, LineAt
  <1> HIDE DEF s
  <1> QED
    BY <1>4, <1>5, <1>6 DEF LineShown

-----------------------------------------------------------------------------
(* What the text says, by what the state is made of. *)

TokenIn(compiled, t, symbol) ==
  IF t \in compiled /\ t \in DOMAIN Grammar /\ symbol \in DOMAIN Grammar[t]
  THEN Grammar[t][symbol] ELSE Plain
LineTokens(compiled, t, line) == [i \in DOMAIN line |-> TokenIn(compiled, t, line[i])]
TextTokens(compiled, t, lines) == [l \in DOMAIN lines |-> LineTokens(compiled, t, lines[l])]
OpenAfter(lines) == Fold([fold |-> "lines"], <<>>, lines)
AreLines(lines) == IsList(lines) /\ \A l \in DOMAIN lines : IsList(lines[l])

LEMMA TokensAre == Tokens = TextTokens(lib.compiled, current, text)
  BY DEF Tokens, TokensOf, Token, TextTokens, LineTokens, TokenIn

LEMMA TokensOfIs == \A line : TokensOf(line) = LineTokens(lib.compiled, current, line)
  BY DEF TokensOf, Token, LineTokens, TokenIn

(* The style wanted at a symbol of the last of some lines.                 *)
StyleIn(m, special, lines, i) ==
  IF m = NoMapper THEN NoDefine
  ELSE Wanted(m, special, Before(OpenAfter(Front(lines)), Last(lines), i), Last(lines)[i])

OpenBeforeIs == \A i : OpenBefore(i) = Before(OpenAfter(Front(Tokens)), Last(Tokens), i)
LEMMA OpenBeforeNow == OpenBeforeIs
  <1>1. \A ls : FoldLeft(LAMBDA blocks, line : FoldLeft(After, blocks, line), <<>>, ls) = OpenAfter(ls)
    BY DEF OpenAfter, FoldLeft, MapThenFoldSet, Fold, Op
  <1>2. \A i : OpenBefore(i) =
          FoldLeft(After,
                   FoldLeft(LAMBDA blocks, line : FoldLeft(After, blocks, line), <<>>, Front(Tokens)),
                   SubSeq(Last(Tokens), 1, i - 1))
    BY DEF OpenBefore
  <1>3. \A i : OpenBefore(i) = FoldLeft(After, OpenAfter(Front(Tokens)), SubSeq(Last(Tokens), 1, i - 1))
    BY <1>1, <1>2
  <1> QED
    BY <1>3, PaintFoldsAre DEF OpenBeforeIs, Before

AroundIs == \A i : StyleAround(i) = Around(handler.mapper, BlocksAt(i))
LEMMA AroundNow == AroundIs
  BY DEF AroundIs, StyleAround, Around, Background, FoldLeft, MapThenFoldSet, Fold, Op

StyleAtIs == \A i : StyleAt(i) = StyleIn(handler.mapper, handler.special, Tokens, i)
LEMMA StyleAtNow == StyleAtIs
  <1> SUFFICES ASSUME NEW i PROVE StyleAt(i) = StyleIn(handler.mapper, handler.special, Tokens, i)
    BY DEF StyleAtIs
  <1> DEFINE token == Last(Tokens)[i]
             before == Before(OpenAfter(Front(Tokens)), Last(Tokens), i)
  <1>1. OpenBefore(i) = before
    BY OpenBeforeNow DEF OpenBeforeIs
  <1>2. BlocksAt(i) = At(before, token)
    BY <1>1 DEF BlocksAt, At
  <1>3. TokenRegion(i) = RegionOf(before, token)
    BY <1>1 DEF TokenRegion, RegionOf
  <1>4. StyleAround(i) = Around(handler.mapper, BlocksAt(i))
    BY AroundNow DEF AroundIs
  <1>5. \A r, outer : SchemeSays(handler.mapper, r, outer) = SaysOf(handler.mapper, r, outer)
    BY SchemeSaysIs
  <1> HIDE DEF before, token
  <1> QED
    BY <1>2, <1>3, <1>4, <1>5 DEF StyleAt, StyleIn, Wanted, StyleOf, before, token

LEMMA StyleAtNext == StyleAtIs' /\ (Tokens = TextTokens(lib.compiled, current, text))'
  BY StyleAtNow, TokensAre, PTL

LEMMA TokensFit ==
  ASSUME NEW compiled, NEW t, NEW line, IsList(line)
  PROVE  AreTokens(LineTokens(compiled, t, line)) /\ Len(LineTokens(compiled, t, line)) = Len(line)
  <1> DEFINE n == Len(line)
             w == LineTokens(compiled, t, line)
  <1>1. n \in Nat /\ DOMAIN line = 1 .. n
    BY ListIs
  <1>2. w = [i \in 1 .. n |-> w[i]] /\ \A i \in 1 .. n : w[i] = TokenIn(compiled, t, line[i])
    BY <1>1 DEF LineTokens
  <1>3. \A symbol : IsToken(TokenIn(compiled, t, symbol))
    <2> SUFFICES ASSUME NEW symbol PROVE IsToken(TokenIn(compiled, t, symbol))
      OBVIOUS
    <2>1. CASE t \in compiled /\ t \in DOMAIN Grammar /\ symbol \in DOMAIN Grammar[t]
      BY <2>1, GrammarAssumption DEF TokenIn, IsToken, IsBlock, Maybe
    <2>2. CASE ~(t \in compiled /\ t \in DOMAIN Grammar /\ symbol \in DOMAIN Grammar[t])
      BY <2>2 DEF TokenIn, Plain, IsToken
    <2> QED
      BY <2>1, <2>2
  <1> HIDE DEF w, n
  <1>4. IsList(w) /\ Len(w) = n /\ DOMAIN w = 1 .. n
    BY <1>1, <1>2, ListOf
  <1> QED
    BY <1>2, <1>3, <1>4 DEF AreTokens, w, n

(* A text with one more line.                                              *)
TextWith(compiled, t, lines, line, w, b) ==
  /\ AreLines(w) /\ w # <<>> /\ b = Append(TextTokens(compiled, t, lines), LineTokens(compiled, t, line))
  /\ Front(b) = TextTokens(compiled, t, lines) /\ Last(b) = LineTokens(compiled, t, line)
  /\ IsList(TextTokens(compiled, t, lines)) /\ Last(w) = line

LEMMA TextMore ==
  ASSUME NEW compiled, NEW t, NEW lines, AreLines(lines), NEW line, IsList(line)
  PROVE  TextWith(compiled, t, lines, line, Append(lines, line), TextTokens(compiled, t, Append(lines, line)))
  <1> DEFINE n == Len(lines)
             w == Append(lines, line)
             a == TextTokens(compiled, t, lines)
             b == TextTokens(compiled, t, w)
             x == LineTokens(compiled, t, line)
             c == Append(a, x)
  <1>1. n \in Nat /\ DOMAIN lines = 1 .. n /\ n + 1 \in Nat
    BY ListIs DEF AreLines
  <1>2. IsList(w) /\ Len(w) = n + 1 /\ w[n + 1] = line /\ \A i \in 1 .. n : w[i] = lines[i]
    BY ListMore DEF AreLines
  <1> HIDE DEF w, n
  <1>3. DOMAIN w = 1 .. n + 1
    BY <1>2, ListIs
  <1>4. /\ a = [i \in 1 .. n |-> a[i]] /\ \A i \in 1 .. n : a[i] = LineTokens(compiled, t, lines[i])
        /\ b = [i \in 1 .. n + 1 |-> b[i]] /\ \A i \in 1 .. n + 1 : b[i] = LineTokens(compiled, t, w[i])
    BY <1>1, <1>3 DEF TextTokens
  <1> HIDE DEF a, b, x
  <1>5. IsList(a) /\ Len(a) = n /\ IsList(b) /\ Len(b) = n + 1
    BY <1>1, <1>4, ListOf
  <1>6. IsList(c) /\ Len(c) = n + 1 /\ c[n + 1] = x /\ \A i \in 1 .. n : c[i] = a[i]
    BY <1>5, ListMore
  <1> HIDE DEF c
  <1>7. \A i \in 1 .. n + 1 : i \in 1 .. n \/ i = n + 1
    BY <1>1
  <1>8. \A i \in 1 .. n + 1 : b[i] = c[i]
    <2> TAKE i \in 1 .. n + 1
    <2>1. CASE i \in 1 .. n
      BY <1>2, <1>4, <1>6, <2>1
    <2>2. CASE i = n + 1
      BY <1>2, <1>4, <1>6, <2>2 DEF x
    <2> QED
      BY <1>7, <2>1, <2>2
  <1>9. b = c
    BY <1>5, <1>6, <1>8, ListSame
  <1>10. IsList(Front(b)) /\ Len(Front(b)) = n /\ \A i \in 1 .. n : Front(b)[i] = b[i]
    BY <1>1, <1>5, FrontIs
  <1>11. Front(b) = a
    BY <1>5, <1>6, <1>9, <1>10, ListSame
  <1>12. Last(b) = x /\ Last(w) = line
    BY <1>1, <1>2, <1>5, <1>6, <1>9, LastIs
  <1>13. AreLines(w)
    <2>1. \A i \in 1 .. n : IsList(w[i])
      BY <1>1, <1>2 DEF AreLines
    <2> QED
      BY <1>2, <1>3, <1>7, <2>1 DEF AreLines
  <1>14. w # <<>>
    <2>1. 1 \in DOMAIN w
      BY <1>1, <1>3
    <2> QED
      BY <2>1
  <1> QED
    BY <1>5, <1>9, <1>11, <1>12, <1>13, <1>14 DEF TextWith, a, b, c, w, x

(* The blocks after one more line.                                         *)
LEMMA OpenMore ==
  ASSUME NEW lines, IsList(lines), NEW x
  PROVE  OpenAfter(Append(lines, x)) = Fold([fold |-> "tokens"], OpenAfter(lines), x)
  <1> DEFINE k == [fold |-> "lines"]
  <1>1. \A a, b : Op(k, a, b) = FoldLeft(After, a, b)
    BY DEF Op
  <1> HIDE DEF k
  <1>2. Fold(k, <<>>, Append(lines, x)) = Op(k, Fold(k, <<>>, lines), x)
    BY FoldMore
  <1> QED
    BY <1>1, <1>2, PaintFoldsAre DEF OpenAfter, k

LEMMA OpenNone ==
  \A compiled, t : OpenAfter(TextTokens(compiled, t, <<>>)) = <<>>
  <1> TAKE compiled, t
  <1>1. TextTokens(compiled, t, <<>>) = <<>>
    BY DEF TextTokens
  <1>2. IsList(<<>>) /\ Len(<<>>) = 0
    BY DEF IsList
  <1> QED
    BY <1>1, <1>2, FoldNone DEF OpenAfter

LEMMA TextSame ==
  ASSUME NEW c, NEW d, NEW t, t \in c <=> t \in d
  PROVE  \A lines : TextTokens(c, t, lines) = TextTokens(d, t, lines)
  <1>1. \A symbol : TokenIn(c, t, symbol) = TokenIn(d, t, symbol)
    BY DEF TokenIn
  <1> QED
    BY <1>1 DEF TextTokens, LineTokens

-----------------------------------------------------------------------------
(* The library of an open session. *)

Settled(l, t) == t \in l.loaded \/ ~Has(l, t)
Keeps(m, l, t) == Settled(l, t) => Settled(m, t) /\ (t \in m.compiled <=> t \in l.compiled)

LEMMA LoadKeeps ==
  ASSUME NEW l, IsLibrary(l), NEW t
  PROVE  /\ Settled(LoadFileType(l, t), t) /\ \A u : Keeps(LoadFileType(l, t), l, u)
  <1> DEFINE new == {s \in {t} \cup Needs[t] : Has(l, s)} \ l.loaded
             on == {s \in new : SchemeOn(l, s)}
             m == LoadFileType(l, t)
  <1>1. CASE t \in l.loaded
    <2>1. m = l
      BY <1>1 DEF LoadFileType
    <2> QED
      BY <1>1, <2>1 DEF Settled, Keeps
  <1>2. CASE t \notin l.loaded
    <2>1. m = [l EXCEPT !.loaded = @ \cup new, !.compiled = @ \cup on]
      BY <1>2 DEF LoadFileType
    <2>2. on \subseteq new /\ (Has(l, t) => t \in new) /\ \A s \in new : Has(l, s) /\ s \notin l.loaded
      BY <1>2
    <2> HIDE DEF on, new
    <2>3. m.types = l.types /\ m.loaded = l.loaded \cup new /\ m.compiled = l.compiled \cup on
      BY <2>1 DEF IsLibrary
    <2> QED
      BY <2>2, <2>3 DEF Settled, Keeps, Has
  <1> QED
    BY <1>1, <1>2

LEMMA WriteKeeps ==
  ASSUME NEW l, IsLibrary(l), NEW t \in DOMAIN l.types, NEW p
  PROVE  /\ \A v, u : Keeps(SetFileTypeParam(l, t, p, v), l, u)
         /\ p \in DOMAIN l.types[t].params => \A u : Keeps(ResetFileTypeParam(l, t, p), l, u)
  <1>1. ASSUME NEW v, NEW u PROVE Keeps(SetFileTypeParam(l, t, p, v), l, u)
    <2> DEFINE m == SetFileTypeParam(l, t, p, v)
    <2>1. m.loaded = l.loaded /\ m.compiled = l.compiled
      BY DEF SetFileTypeParam, SetParamValue, WithParams, IsLibrary
    <2>2. DOMAIN m.types = DOMAIN l.types
      <3>1. \E qs : Sets(m, l, t, p, v, qs)
        BY SetIs
      <3> HIDE DEF m
      <3> QED
        BY <3>1 DEF Sets, Retyped
    <2> QED
      BY <2>1, <2>2 DEF Keeps, Settled, Has
  <1>2. ASSUME p \in DOMAIN l.types[t].params, NEW u PROVE Keeps(ResetFileTypeParam(l, t, p), l, u)
    <2> DEFINE m == ResetFileTypeParam(l, t, p)
    <2>1. m.loaded = l.loaded /\ m.compiled = l.compiled
      BY DEF ResetFileTypeParam, SetParamValue, IsLibrary
    <2>2. DOMAIN m.types = DOMAIN l.types
      <3>1. \E qs : Sets(m, l, t, p, NoText, qs)
        BY <1>2, ResetIs
      <3> HIDE DEF m
      <3> QED
        BY <3>1 DEF Sets, Retyped
    <2> QED
      BY <2>1, <2>2 DEF Keeps, Settled, Has
  <1> QED
    BY <1>1, <1>2

(* Without styles nothing is wanted anywhere.                              *)
LEMMA WantedNone ==
  ASSUME NEW m, m.defines = <<>>, NEW special, NEW bs, AreBlocks(bs), NEW token, IsToken(token)
  PROVE  Wanted(m, special, bs, token) = NoDefine
  <1>1. \A r : Named(m, r) = NoDefine
    BY DEF Named
  <1>2. \A r : Nearest(m, r) = {}
    BY <1>1 DEF Nearest
  <1>3. \A r, outer : SaysOf(m, r, outer) = outer
    BY <1>2 DEF SaysOf
  <1>4. ASSUME NEW on, AreBlocks(on) PROVE Around(m, on) = NoDefine
    <2> DEFINE k == [fold |-> "styles", mapper |-> m]
               n == Len(on)
               g == [i \in 0 .. n |-> NoDefine]
    <2>1. n \in Nat /\ IsList(on)
      BY <1>4, ListIs DEF AreBlocks
    <2>2. \A a, b : Op(k, a, b) = a
      BY <1>3, SchemeSaysIs DEF Op
    <2>3. g[0] = NoDefine /\ g[n] = NoDefine /\ \A i \in 1 .. n : g[i] = NoDefine /\ g[i - 1] = NoDefine
      <3>1. 0 \in 0 .. n /\ n \in 0 .. n /\ \A i \in 1 .. n : i \in 0 .. n /\ i - 1 \in 0 .. n
        BY <2>1
      <3> QED
        BY <3>1
    <2> HIDE DEF k, g
    <2>4. Background(m) = NoDefine
      BY <1>1 DEF Background
    <2>5. Steps(g, k, Background(m), on)
      BY <2>2, <2>3, <2>4 DEF Steps
    <2>6. Fold(k, Background(m), on) = g[n]
      BY <2>1, <2>5, FoldOf
    <2> QED
      BY <2>3, <2>6 DEF Around, k
  <1>5. AreBlocks(At(bs, token))
    <2>1. CASE token.kind = "open" /\ ~token.block.inner
      BY <2>1, BlocksMore DEF At, IsToken
    <2>2. CASE token.kind = "close" /\ bs # <<>> /\ Last(bs).inner
      BY <2>2, BlocksLess DEF At
    <2> QED
      BY <2>1, <2>2 DEF At
  <1>6. Around(m, At(bs, token)) = NoDefine
    BY <1>4, <1>5
  <1> QED
    BY <1>3, <1>6 DEF Wanted, StyleOf

-----------------------------------------------------------------------------
(* The invariant of a session, as far as colours go.                       *)

PaintInv ==
  /\ AreClasses(hrds) /\ Ready(handler) /\ AreLines(text) /\ AreBlocks(open)
  /\ stage = "open" => current = NoType \/ Settled(lib, current)
  /\ stage \in {"new", "loading"} => current = NoType
  /\ current \notin Schemeless \cup {NoType} =>
       open = OpenAfter(TextTokens(lib.compiled, current, text))

(* A line that is fed.                                                     *)
ReadyNow == [Clear(handler) EXCEPT !.marks = ResolveRegions]
TokensRead(line) == LineTokens(lib.compiled, current, line)
TokensBefore == TextTokens(lib.compiled, current, text)

LineFed(line) ==
  /\ stage = "open" /\ stage' = "open" /\ hrds' = hrds /\ current' = current
  /\ handler' = AfterLine(line).h /\ open' = AfterLine(line).open
  /\ answer' = Answer("line", Result(AfterLine(line).h))
  /\ lib' = LoadFileType(lib, "def") /\ text' = Append(text, line)
  /\ Ready(ReadyNow) /\ ReadyNow.special = handler.special
  /\ ReadyNow.marks = ResolveRegions /\ ReadyNow.outline = <<>>
  /\ AreBlocks(open) /\ IsList(line) /\ AreLines(text') /\ Last(text') = line
  /\ IsList(TokensBefore)
  /\ TextTokens(lib.compiled, current, text') = Append(TokensBefore, TokensRead(line))
  /\ Front(Append(TokensBefore, TokensRead(line))) = TokensBefore
  /\ Last(Append(TokensBefore, TokensRead(line))) = TokensRead(line)
  /\ current = NoType \/ (Settled(lib', current) /\ (current \in lib'.compiled <=> current \in lib.compiled))

LEMMA LineIsFed ==
  ASSUME PaintInv, ParamsInv, NEW line \in Lines, ParseLine(line)
  PROVE  LineFed(line)
  <1> DEFINE ready == ReadyNow
             c == lib.compiled
             d == lib'.compiled
             tokens == TokensRead(line)
             old == TokensBefore
  <1>1. /\ stage = "open" /\ stage' = "open" /\ hrds' = hrds /\ current' = current
        /\ handler' = AfterLine(line).h /\ open' = AfterLine(line).open
        /\ answer' = Answer("line", Result(AfterLine(line).h))
        /\ lib' = LoadFileType(lib, "def") /\ text' = Append(text, line)
    BY DEF ParseLine, Method, Returns
  <1>2. Ready(ready) /\ ready.special = handler.special /\ ready.marks = ResolveRegions /\ ready.outline = <<>>
    <2>1. IsHandler(handler) /\ IsHandler(Clear(handler))
      BY DEF PaintInv, Ready, Clear, IsHandler, HandlerFields
    <2>2. /\ Clear(handler).mapper = handler.mapper /\ Clear(handler).background = handler.background
          /\ Clear(handler).special = handler.special /\ Clear(handler).outline = <<>>
      BY <2>1 DEF Clear, IsHandler, HandlerFields
    <2>3. ready.mapper = handler.mapper /\ ready.background = handler.background /\ IsHandler(ready)
          /\ ready.special = handler.special /\ ready.marks = ResolveRegions /\ ready.outline = <<>>
      BY <2>1, <2>2 DEF IsHandler, HandlerFields, ReadyNow
    <2> HIDE DEF ready
    <2> QED
      BY <2>3 DEF PaintInv, Ready
  <1>3. AreBlocks(open) /\ AreLines(text) /\ IsList(line)
    BY LinesAssumption DEF PaintInv
  <1>4. IsLibrary(lib)
    BY <1>1 DEF ParamsInv, SetsAgree
  <1>5. current = NoType \/ (Settled(lib', current) /\ (current \in d <=> current \in c))
    <2>1. \A u : Keeps(lib', lib, u)
      BY <1>1, <1>4, LoadKeeps
    <2> QED
      BY <1>1, <2>1 DEF PaintInv, Keeps
  <1>6. /\ AreLines(text') /\ TextTokens(c, current, text') = Append(old, tokens)
        /\ Front(Append(old, tokens)) = old /\ Last(Append(old, tokens)) = tokens
        /\ IsList(old) /\ Last(text') = line
    <2>1. TextWith(c, current, text, line, Append(text, line), TextTokens(c, current, Append(text, line)))
      BY <1>3, TextMore
    <2> HIDE DEF c
    <2>2. TextWith(c, current, text, line, text', TextTokens(c, current, text'))
      BY <1>1, <2>1
    <2> QED
      BY <2>2 DEF TextWith, TokensRead, TokensBefore, c
  <1> HIDE DEF ready, tokens, old
  <1> QED
    BY <1>1, <1>2, <1>3, <1>5, <1>6 DEF LineFed, ready, tokens, old

(* A line the parser reads.                                                *)
LineOpen == OpenAfter(Front(Tokens))
LineRead(line, tokens, s) ==
  /\ AreTokens(tokens) /\ s = ScanOf(ReadyNow, open, tokens) /\ LineShown(ReadyNow, open, tokens, s)
  /\ handler' = s.h /\ open' = s.open /\ answer'.call = "line" /\ answer'.value = Result(s.h)
  /\ Ready(s.h) /\ AreBlocks(s.open) /\ IsList(s.h.line) /\ s.h.special = handler.special
  /\ LineOpen' = open /\ Last(Tokens') = tokens /\ DOMAIN Last(text') = 1 .. Len(tokens)
  /\ s.open = OpenAfter(TextTokens(lib'.compiled, current', text'))

LEMMA LineIsRead ==
  ASSUME PaintInv, NEW line, LineFed(line), current \notin Schemeless \cup {NoType}
  PROVE  LineRead(line, TokensRead(line), ScanOf(ReadyNow, open, TokensRead(line)))
  <1> DEFINE ready == ReadyNow
             c == lib.compiled
             d == lib'.compiled
             tokens == TokensRead(line)
             old == TokensBefore
             s == ScanOf(ready, open, tokens)
             n == Len(tokens)
  <1>1. /\ current' = current /\ handler' = AfterLine(line).h /\ open' = AfterLine(line).open
        /\ answer' = Answer("line", Result(AfterLine(line).h))
        /\ Ready(ready) /\ ready.special = handler.special /\ AreBlocks(open) /\ IsList(line)
        /\ AreLines(text') /\ Last(text') = line /\ IsList(old)
        /\ TextTokens(c, current, text') = Append(old, tokens)
        /\ Front(Append(old, tokens)) = old /\ Last(Append(old, tokens)) = tokens
        /\ current \in d <=> current \in c
    BY DEF LineFed
  <1>2. AreTokens(tokens) /\ n = Len(line)
    BY <1>1, TokensFit DEF TokensRead
  <1>3. AfterLine(line) = s
    <2>1. AfterLine(line) = Parsed(ready, line)
      BY DEF AfterLine, ReadyNow
    <2>2. TokensOf(line) = tokens
      BY TokensOfIs DEF TokensRead
    <2> HIDE DEF ready, tokens
    <2>3. Parsed(ready, line) = s
      BY <2>2, ScanIs DEF ScanOf
    <2> QED
      BY <2>1, <2>3
  <1> HIDE DEF ready, tokens
  <1>4. LineShown(ready, open, tokens, s)
    BY <1>1, <1>2, LineShows
  <1> HIDE DEF s, n
  <1>5. handler' = s.h /\ open' = s.open /\ answer'.call = "line" /\ answer'.value = Result(s.h)
    BY <1>1, <1>3 DEF Answer
  <1>6. /\ Good(s.h, s.open, n) /\ Painted(s.h, ready, 0)
        /\ s.open = Fold([fold |-> "tokens"], open, tokens)
    BY <1>4 DEF LineShown, n
  <1>7. Ready(s.h) /\ AreBlocks(s.open) /\ IsList(s.h.line) /\ s.h.special = ready.special
    <2>1. s.h.background = ready.background /\ s.h.mapper.defines = ready.mapper.defines
      BY <1>6 DEF Painted
    <2>2. Background(s.h.mapper) = Background(ready.mapper)
      BY <2>1 DEF Background, Named
    <2> QED
      BY <1>1, <1>6, <2>1, <2>2 DEF Ready, Good, Pieces, Painted
  <1>8. open = OpenAfter(old)
    BY DEF PaintInv, TokensBefore
  <1>9. TextTokens(d, current, text') = Append(old, tokens)
    BY <1>1, TextSame
  <1> HIDE DEF old
  <1>10. s.open = OpenAfter(TextTokens(d, current', text'))
    BY <1>1, <1>6, <1>8, <1>9, OpenMore
  <1>11. Tokens' = TextTokens(d, current, text')
    BY <1>1, StyleAtNext
  <1>12. Front(Tokens') = old /\ Last(Tokens') = tokens
    BY <1>1, <1>9, <1>11
  <1>13. LineOpen' = open
    BY <1>8, <1>12 DEF LineOpen
  <1>14. DOMAIN Last(text') = 1 .. n
    BY <1>1, <1>2, ListIs
  <1> QED
    BY <1>1, <1>2, <1>4, <1>5, <1>7, <1>8, <1>10, <1>12, <1>13, <1>14 DEF LineRead, ready, tokens, s, n

(* What is painted of it.                                                  *)
LEMMA LinePaints ==
  ASSUME PaintInv, ParamsInv, NEW line \in Lines, ParseLine(line)
  PROVE  PaintInv' /\ LinePainted'
  <1> DEFINE tokens == TokensRead(line)
             s == ScanOf(ReadyNow, open, tokens)
             n == Len(tokens)
  <1>1. LineFed(line)
    BY LineIsFed
  <1>2. /\ stage' = "open" /\ hrds' = hrds /\ current' = current /\ AreLines(text')
        /\ current = NoType \/ Settled(lib', current)
    BY <1>1 DEF LineFed
  <1>3. CASE current \in Schemeless \cup {NoType}
    <2>1. AfterLine(line) = [h |-> ReadyNow, open |-> open]
      BY <1>3 DEF AfterLine, ReadyNow
    <2>2. handler' = AfterLine(line).h /\ open' = AfterLine(line).open /\ Ready(ReadyNow) /\ AreBlocks(open)
      BY <1>1 DEF LineFed
    <2>3. handler' = ReadyNow /\ open' = open
      BY <2>1, <2>2
    <2>4. PaintInv'
      BY <1>2, <1>3, <2>2, <2>3 DEF PaintInv
    <2>5. LinePainted'
      BY <1>2, <1>3 DEF LinePainted, LineKnown
    <2> QED
      BY <2>4, <2>5
  <1>4. CASE current \notin Schemeless \cup {NoType}
    <2>1. LineRead(line, tokens, s)
      BY <1>1, <1>4, LineIsRead
    <2> HIDE DEF tokens, s, n
    <2>2. /\ AreTokens(tokens) /\ LineShown(ReadyNow, open, tokens, s) /\ ReadyNow.special = handler.special
          /\ handler' = s.h /\ open' = s.open /\ answer'.value = Result(s.h)
          /\ Ready(s.h) /\ AreBlocks(s.open) /\ IsList(s.h.line) /\ s.h.special = handler.special
          /\ LineOpen' = open /\ Last(Tokens') = tokens /\ DOMAIN Last(text') = 1 .. n
          /\ s.open = OpenAfter(TextTokens(lib'.compiled, current', text'))
      BY <1>1, <2>1 DEF LineRead, LineFed, n
    <2>3. \A i \in 1 .. n :
            /\ AreBlocks(Before(open, tokens, i))
            /\ Shown(s.h.line, i) = Wanted(s.h.mapper, handler.special, Before(open, tokens, i), tokens[i])
      BY <2>2 DEF LineShown, n
    <2>4. PaintInv'
      BY <1>2, <2>2 DEF PaintInv
    <2>5. DOMAIN tokens = 1 .. n
      BY <2>2, ListIs DEF AreTokens, n
    <2>6. ASSUME NEW i \in 1 .. n
          PROVE  PaintedAt(answer'.value.regions, i) = StyleAt(i)'
      <3>1. PaintedAt(answer'.value.regions, i) = Shown(s.h.line, i)
        BY <2>2, HarvestShows
      <3>2. StyleAt(i)' = StyleIn(s.h.mapper, s.h.special, Tokens', i)
        BY <2>2, StyleAtNext DEF StyleAtIs
      <3>3. CASE s.h.mapper = NoMapper
        <4>1. StyleAt(i)' = NoDefine
          BY <3>2, <3>3 DEF StyleIn
        <4>2. Shown(s.h.line, i) = NoDefine
          <5>1. s.h.mapper.defines = <<>>
            BY <3>3 DEF NoMapper
          <5>2. IsToken(tokens[i])
            BY <2>2, <2>5 DEF AreTokens
          <5> QED
            BY <2>3, <5>1, <5>2, WantedNone
        <4> QED
          BY <3>1, <4>1, <4>2
      <3>4. CASE s.h.mapper # NoMapper
        <4>1. OpenAfter(Front(Tokens')) = open
          BY <2>2 DEF LineOpen
        <4>2. StyleAt(i)' = Wanted(s.h.mapper, s.h.special, Before(open, tokens, i), tokens[i])
          BY <2>2, <3>2, <3>4, <4>1 DEF StyleIn
        <4> QED
          BY <2>2, <2>3, <3>1, <4>2
      <3> QED
        BY <3>3, <3>4
    <2>7. LinePainted'
      BY <2>2, <2>6 DEF LinePainted
    <2> QED
      BY <2>4, <2>7
  <1> QED
    BY <1>3, <1>4

-----------------------------------------------------------------------------
(* The other methods. *)

LEMMA ClearReady ==
  ASSUME NEW h, Ready(h)
  PROVE  Ready(Clear(h))
  <1>1. IsHandler(h) /\ IsHandler(Clear(h))
    BY DEF Ready, Clear, IsHandler, HandlerFields
  <1>2. Clear(h).mapper = h.mapper /\ Clear(h).background = h.background
    BY <1>1 DEF Clear, IsHandler, HandlerFields
  <1> QED
    BY <1>1, <1>2 DEF Ready

LEMMA MapperReady ==
  ASSUME NEW h, IsHandler(h), NEW m, IsMapper(m)
  PROVE  Ready(PutMapper(h, m))
  <1> DEFINE g == PutMapper(h, m)
  <1>1. IsHandler(g) /\ g.mapper = m /\ g.background = Named(m, "def:Text")
    BY DEF PutMapper, IsHandler, HandlerFields
  <1> HIDE DEF g
  <1> QED
    BY <1>1 DEF Ready, Background, g

(* A step that reads no line: it leaves the text alone, or starts it anew. *)
Unpainted ==
  /\ stage = "open" /\ hrds' = hrds /\ Ready(handler')
  /\ (stage' = "open" /\ answer'.call # "line") \/ (stage' = "failed" /\ answer' = Nil)
  /\ \/ open' = open /\ text' = text /\ current' = current /\ Keeps(lib', lib, current)
     \/ open' = <<>> /\ text' = <<>> /\ current' = current /\ lib' = lib
     \/ open' = <<>> /\ text' = <<>> /\ Settled(lib', current')

LEMMA UnpaintedKeeps ==
  ASSUME PaintInv, Unpainted
  PROVE  PaintInv' /\ LinePainted'
  <1>1. answer'.call # "line"
    BY DEF Unpainted, Nil
  <1>2. LinePainted'
    BY <1>1 DEF LinePainted
  <1>3. stage' \notin {"new", "loading"} /\ AreClasses(hrds') /\ Ready(handler')
    BY DEF Unpainted, PaintInv
  <1>4. current = NoType \/ Settled(lib, current)
    BY DEF Unpainted, PaintInv
  <1>5. IsList(<<>>) /\ AreLines(<<>>)
    BY DEF IsList, AreLines
  <1>6. CASE open' = open /\ text' = text /\ current' = current /\ Keeps(lib', lib, current)
    <2>1. AreLines(text') /\ AreBlocks(open') /\ (current' = NoType \/ Settled(lib', current'))
      BY <1>4, <1>6 DEF PaintInv, Keeps
    <2>2. ASSUME current' \notin Schemeless \cup {NoType}
          PROVE  open' = OpenAfter(TextTokens(lib'.compiled, current', text'))
      <3>1. current \in lib.compiled <=> current \in lib'.compiled
        BY <1>4, <1>6, <2>2 DEF Keeps
      <3>2. TextTokens(lib.compiled, current, text) = TextTokens(lib'.compiled, current, text)
        BY <3>1, TextSame
      <3> QED
        BY <1>6, <2>2, <3>2 DEF PaintInv
    <2>3. PaintInv'
      BY <1>3, <2>1, <2>2 DEF PaintInv
    <2> QED
      BY <1>2, <2>3
  <1>7. CASE open' = <<>> /\ text' = <<>> /\ (current' = NoType \/ Settled(lib', current'))
    <2>1. AreLines(text') /\ AreBlocks(open')
      BY <1>5, <1>7, NoBlocks
    <2>2. open' = OpenAfter(TextTokens(lib'.compiled, current', text'))
      BY <1>7, OpenNone
    <2>3. PaintInv'
      BY <1>3, <1>7, <2>1, <2>2 DEF PaintInv
    <2> QED
      BY <1>2, <2>3
  <1> QED
    BY <1>4, <1>6, <1>7 DEF Unpainted

LEMMA SameKeeps == \A l, t : Keeps(l, l, t)
  BY DEF Keeps

(* Which methods these are.                                                *)
LEMMA UnpaintedMethods ==
  ASSUME PaintInv, ParamsInv,
         \/ \E class \in Names.class :
              EnumHRDInstances(class) \/ \E name \in Names.style : SetHRD(class, name)
         \/ \E region \in Names.region : GetRegionDefineOf(region)
         \/ \E file \in Names.file, first \in Names.first : SelectType(file, first)
         \/ FileType \/ Types
         \/ \E t \in Names.type :
              \/ SetFileType(t) \/ LoadType(t) \/ ListParams(t)
              \/ \E p \in Names.param :
                   FileTypeParam(t, p) \/ ResetParam(t, p) \/ \E v \in Names.value : SetParam(t, p, v)
         \/ LineOutline \/ Reset
  PROVE  Unpainted
  <1>1. Ready(handler) /\ AreClasses(hrds) /\ Keeps(lib, lib, current)
    BY SameKeeps DEF PaintInv
  <1>2. stage = "open" => IsLibrary(lib)
    BY DEF ParamsInv, SetsAgree
  <1>3. ASSUME NEW class, EnumHRDInstances(class) PROVE Unpainted
    BY <1>1, <1>3 DEF EnumHRDInstances, Method, Returns, Answer, Unpainted
  <1>4. ASSUME NEW region, GetRegionDefineOf(region) PROVE Unpainted
    BY <1>1, <1>4 DEF GetRegionDefineOf, Method, Returns, Answer, Unpainted
  <1>5. ASSUME FileType \/ Types \/ LineOutline PROVE Unpainted
    BY <1>1, <1>5 DEF FileType, Types, LineOutline, Method, Returns, Answer, Unpainted
  <1>6. ASSUME NEW t, ListParams(t) PROVE Unpainted
    BY <1>1, <1>6 DEF ListParams, Method, Returns, Answer, Unpainted
  <1>7. ASSUME NEW t, NEW p, FileTypeParam(t, p) PROVE Unpainted
    BY <1>1, <1>7 DEF FileTypeParam, Method, Returns, Answer, Unpainted
  <1>8. ASSUME Reset PROVE Unpainted
    BY <1>1, <1>8, ClearReady DEF Reset, Method, Returns, Answer, Unpainted
  <1>9. ASSUME NEW class, NEW name, SetHRD(class, name) PROVE Unpainted
    <2> DEFINE node == GetHrdNode(hrds, class, name)
               fails == node = <<>> \/ (node # <<>> /\ ~Loadable(node[1]))
    <2>1. stage = "open" /\ hrds' = hrds /\ open' = open /\ text' = text /\ current' = current
      BY <1>9 DEF SetHRD, Method
    <2>2. CASE fails
      <3>1. stage' = "failed" /\ answer' = Nil /\ lib' = lib /\ handler' = handler
        BY <1>9, <2>2 DEF SetHRD, Fatal
      <3> QED
        BY <1>1, <2>1, <3>1 DEF Unpainted
    <2>3. CASE ~fails
      <3>1. /\ handler' = PutMapper(handler, FillMapper(node[1])) /\ lib' = LoadFileType(lib, "def")
            /\ stage' = "open" /\ answer'.call = "set"
        BY <1>9, <2>1, <2>3 DEF SetHRD, Returns, Answer
      <3>2. IsNode(node[1])
        BY <1>1, <2>3, NodeFound
      <3>3. IsMapper(FillMapper(node[1]))
        BY <2>3, <3>2, FillMapperIs
      <3> HIDE DEF node
      <3>4. Ready(handler')
        BY <1>1, <3>1, <3>3, MapperReady DEF Ready
      <3>5. \A u : Keeps(LoadFileType(lib, "def"), lib, u)
        BY <1>2, <2>1, LoadKeeps
      <3>6. Keeps(lib', lib, current)
        BY <3>1, <3>5
      <3> QED
        BY <2>1, <3>1, <3>4, <3>6 DEF Unpainted
    <2> QED
      BY <2>2, <2>3
  <1>10. ASSUME NEW t, GiveType(t), stage = "open", stage' = "open", answer'.call # "line",
                hrds' = hrds, handler' = handler
         PROVE  Unpainted
    <2>1. lib' = LoadFileType(lib, t) /\ current' = t /\ open' = <<>> /\ text' = <<>>
      BY <1>10 DEF GiveType
    <2>2. Settled(lib', current')
      BY <1>2, <1>10, <2>1, LoadKeeps
    <2> QED
      BY <1>1, <1>10, <2>1, <2>2 DEF Unpainted
  <1>11. ASSUME NEW file, NEW first, SelectType(file, first) PROVE Unpainted
    <2> DEFINE t == ChooseFileType(lib, file, first)
    <2>1. stage = "open" /\ hrds' = hrds /\ handler' = handler
      BY <1>11 DEF SelectType, Method
    <2>2. CASE t = NoType
      BY <1>1, <1>11, <2>1, <2>2 DEF SelectType, Returns, Answer, Unpainted
    <2>3. CASE t # NoType /\ t \in Unreadable
      BY <1>1, <1>11, <2>1, <2>3 DEF SelectType, Fatal, Unpainted
    <2>4. CASE t # NoType /\ t \notin Unreadable
      <3>1. stage' = "open" /\ answer'.call = "type" /\ GiveType(t)
        BY <1>11, <2>1, <2>4 DEF SelectType, Returns, Answer
      <3> QED
        BY <1>10, <2>1, <3>1
    <2> QED
      BY <2>2, <2>3, <2>4
  <1>12. ASSUME NEW t, SetFileType(t) PROVE Unpainted
    <2>1. stage = "open" /\ hrds' = hrds /\ handler' = handler
      BY <1>12 DEF SetFileType, Method
    <2>2. CASE ~Has(lib, t)
      BY <1>1, <1>12, <2>1, <2>2 DEF SetFileType, Returns, Answer, Unpainted
    <2>3. CASE Has(lib, t) /\ t \in Unreadable
      BY <1>1, <1>12, <2>1, <2>3 DEF SetFileType, Fatal, Unpainted
    <2>4. CASE Has(lib, t) /\ t \notin Unreadable
      <3>1. stage' = "open" /\ answer'.call = "type" /\ GiveType(t)
        BY <1>12, <2>1, <2>4 DEF SetFileType, Returns, Answer
      <3> QED
        BY <1>10, <2>1, <3>1
    <2> QED
      BY <2>2, <2>3, <2>4
  <1>13. ASSUME NEW t, LoadType(t) PROVE Unpainted
    <2>1. /\ stage = "open" /\ hrds' = hrds /\ handler' = handler
          /\ open' = open /\ text' = text /\ current' = current
      BY <1>13 DEF LoadType, Method
    <2>2. CASE ~Has(lib, t)
      BY <1>1, <1>13, <2>1, <2>2 DEF LoadType, Returns, Answer, Unpainted
    <2>3. CASE Has(lib, t) /\ t \in Unreadable
      BY <1>1, <1>13, <2>1, <2>3 DEF LoadType, Fatal, Unpainted
    <2>4. CASE Has(lib, t) /\ t \notin Unreadable
      <3>1. stage' = "open" /\ answer'.call = "loaded" /\ lib' = LoadFileType(lib, t)
        BY <1>13, <2>1, <2>4 DEF LoadType, Returns, Answer
      <3>2. \A u : Keeps(LoadFileType(lib, t), lib, u)
        BY <1>2, <2>1, LoadKeeps
      <3>3. Keeps(lib', lib, current)
        BY <3>1, <3>2
      <3> QED
        BY <1>1, <2>1, <3>1, <3>3 DEF Unpainted
    <2> QED
      BY <2>2, <2>3, <2>4
  <1>14. ASSUME NEW t, NEW p, NEW v, SetParam(t, p, v) PROVE Unpainted
    <2>1. /\ stage = "open" /\ hrds' = hrds /\ handler' = handler /\ stage' = "open"
          /\ open' = open /\ text' = text /\ current' = current /\ answer'.call = "set"
      BY <1>14 DEF SetParam, Method, Returns, Answer
    <2>2. lib' = lib \/ (t \in DOMAIN lib.types /\ lib' = SetFileTypeParam(lib, t, p, v))
      BY <1>14 DEF SetParam, Has
    <2>3. Keeps(lib', lib, current)
      <3>1. CASE lib' = lib
        BY <1>1, <3>1
      <3>2. CASE t \in DOMAIN lib.types /\ lib' = SetFileTypeParam(lib, t, p, v)
        <4>1. \A u : Keeps(SetFileTypeParam(lib, t, p, v), lib, u)
          BY <1>2, <2>1, <3>2, WriteKeeps
        <4> QED
          BY <3>2, <4>1
      <3> QED
        BY <2>2, <3>1, <3>2
    <2> QED
      BY <1>1, <2>1, <2>3 DEF Unpainted
  <1>15. ASSUME NEW t, NEW p, ResetParam(t, p) PROVE Unpainted
    <2>1. /\ stage = "open" /\ hrds' = hrds /\ handler' = handler /\ stage' = "open"
          /\ open' = open /\ text' = text /\ current' = current /\ answer'.call = "set"
      BY <1>15 DEF ResetParam, Method, Returns, Answer
    <2>2. \/ lib' = lib
          \/ t \in DOMAIN lib.types /\ ~Lacks(lib, t, p) /\ lib' = ResetFileTypeParam(lib, t, p)
      BY <1>15 DEF ResetParam, Has
    <2>3. Keeps(lib', lib, current)
      <3>1. CASE lib' = lib
        BY <1>1, <3>1
      <3>2. CASE t \in DOMAIN lib.types /\ ~Lacks(lib, t, p) /\ lib' = ResetFileTypeParam(lib, t, p)
        <4>1. p \in DOMAIN lib.types[t].params
          BY <3>2 DEF Lacks, GetParamValue, ParamsOf
        <4>2. \A u : Keeps(ResetFileTypeParam(lib, t, p), lib, u)
          BY <1>2, <2>1, <3>2, <4>1, WriteKeeps
        <4> QED
          BY <3>2, <4>2
      <3> QED
        BY <2>2, <3>1, <3>2
    <2> QED
      BY <1>1, <2>1, <2>3 DEF Unpainted
  <1> QED
    BY <1>3, <1>4, <1>5, <1>6, <1>7, <1>8, <1>9, <1>11, <1>12, <1>13, <1>14, <1>15

-----------------------------------------------------------------------------
(* The invariant holds at first, and every step keeps it. *)

LEMMA PaintInit == Init => PaintInv /\ LinePainted
  <1> SUFFICES ASSUME Init PROVE PaintInv /\ LinePainted
    OBVIOUS
  <1>1. /\ stage = "new" /\ hrds = <<>> /\ handler = NewHandler /\ current = NoType
        /\ open = <<>> /\ text = <<>> /\ answer = Nil
    BY DEF Init
  <1>2. AreClasses(hrds)
    BY <1>1 DEF AreClasses
  <1>3. Ready(NewHandler)
    <2>1. IsHandler(NewHandler) /\ NewHandler.mapper = NoMapper /\ NewHandler.background = NoDefine
      BY DEF NewHandler, IsHandler, HandlerFields
    <2>2. IsMapper(NoMapper) /\ Background(NoMapper) = NoDefine
      BY DEF NoMapper, IsMapper, AreStyled, Background, Named
    <2> HIDE DEF NewHandler
    <2> QED
      BY <2>1, <2>2 DEF Ready
  <1>4. AreLines(text) /\ AreBlocks(open)
    BY <1>1, NoBlocks DEF AreLines, IsList
  <1>5. PaintInv
    BY <1>1, <1>2, <1>3, <1>4 DEF PaintInv
  <1>6. LinePainted
    BY <1>1 DEF LinePainted, Nil
  <1> QED
    BY <1>5, <1>6

(* The steps that set a session up.                                        *)
SetUp ==
  /\ stage \in {"new", "loading"} /\ AreClasses(hrds')
  /\ UNCHANGED <<handler, current, open, text, answer>>
  /\ stage' \in {"loading", "open", "failed"}

LEMMA SetUpKeeps ==
  ASSUME PaintInv, ParamsInv, SetUp
  PROVE  PaintInv' /\ LinePainted'
  <1>1. current' = NoType /\ answer' = Nil
    BY DEF PaintInv, ParamsInv, SetUp
  <1>2. PaintInv'
    BY <1>1 DEF PaintInv, SetUp
  <1>3. LinePainted'
    BY <1>1 DEF LinePainted, Nil
  <1> QED
    BY <1>2, <1>3

LEMMA SetUpSteps ==
  ASSUME PaintInv, ParamsInv, NewSession \/ LoadUserPath \/ Opened
  PROVE  SetUp
  <1>1. AreClasses(hrds)
    BY DEF PaintInv
  <1>2. CASE NewSession
    <2>1. hrds' = LoadHrdSets(<<>>, Catalog.styles)
      BY <1>2 DEF NewSession, ReadCatalog
    <2>2. AreNodes(Catalog.styles)
      BY StylesAssumption DEF AreStyles, AreNodes, IsNode
    <2>3. AreClasses(<<>>)
      BY DEF AreClasses
    <2>4. AreClasses(hrds')
      BY <2>1, <2>2, <2>3, HrdsRead
    <2> QED
      BY <1>2, <2>4 DEF NewSession, SetUp
  <1>3. CASE LoadUserPath
    <2> DEFINE u == Head(loads)
    <2>1. /\ stage = "loading" /\ loads # <<>> /\ UNCHANGED <<handler, current, open, text, answer>>
      BY <1>3 DEF LoadUserPath
    <2>2. IsLoad(u)
      BY <2>1, LoadsLess DEF ParamsInv
    <2>3. CASE Torn(u)
      <3>1. stage' = "failed" /\ hrds' = hrds
        BY <1>3, <2>3 DEF LoadUserPath
      <3> QED
        BY <1>1, <2>1, <3>1 DEF SetUp
    <2>4. CASE ~Torn(u)
      <3>1. stage' = "loading" /\ hrds' = IF u.option = "hrd" THEN LoadHrdPath(hrds, u.path) ELSE hrds
        BY <1>3, <2>1, <2>4 DEF LoadUserPath
      <3> HIDE DEF u
      <3>2. u.option = "hrd" => AreNodes(u.path.content)
        BY <2>2, <2>4 DEF Torn, IsLoad, AreStyles, AreNodes, IsNode
      <3>3. u.option = "hrd" => AreClasses(LoadHrdPath(hrds, u.path))
        BY <1>1, <3>2, HrdsRead DEF LoadHrdPath
      <3>4. AreClasses(hrds')
        BY <1>1, <3>1, <3>3
      <3> QED
        BY <2>1, <3>1, <3>4 DEF SetUp
    <2> QED
      BY <2>3, <2>4
  <1>4. CASE Opened
    BY <1>1, <1>4 DEF Opened, SetUp
  <1> QED
    BY <1>2, <1>3, <1>4

(* A step that changes nothing.                                            *)
LEMMA PaintStutters ==
  ASSUME PaintInv, LinePainted, UNCHANGED vars
  PROVE  PaintInv' /\ LinePainted'
  <1>1. /\ stage' = stage /\ hrds' = hrds /\ handler' = handler /\ text' = text /\ open' = open
        /\ current' = current /\ lib' = lib /\ answer' = answer
    BY DEF vars
  <1>2. PaintInv'
    BY <1>1 DEF PaintInv
  <1>3. Tokens' = Tokens
    BY <1>1, StyleAtNext, TokensAre
  <1>4. \A i : StyleAt(i)' = StyleAt(i)
    <2> SUFFICES ASSUME NEW i PROVE StyleAt(i)' = StyleAt(i)
      OBVIOUS
    <2>2. StyleAt(i)' = StyleIn(handler'.mapper, handler'.special, Tokens', i)
      BY StyleAtNext DEF StyleAtIs
    <2>3. StyleAt(i) = StyleIn(handler.mapper, handler.special, Tokens, i)
      BY StyleAtNow DEF StyleAtIs
    <2> QED
      BY <1>1, <1>3, <2>2, <2>3
  <1>5. LinePainted'
    BY <1>1, <1>4 DEF LinePainted, LineKnown
  <1> QED
    BY <1>2, <1>5

LEMMA PaintNext ==
  ASSUME PaintInv, ParamsInv, LinePainted, [Next]_vars
  PROVE  PaintInv' /\ LinePainted'
  <1>1. CASE NewSession \/ LoadUserPath \/ Opened
    BY <1>1, SetUpSteps, SetUpKeeps
  <1>2. ASSUME NEW line \in Lines, ParseLine(line) PROVE PaintInv' /\ LinePainted'
    BY <1>2, LinePaints
  <1>3. ASSUME Unpainted PROVE PaintInv' /\ LinePainted'
    BY <1>3, UnpaintedKeeps
  <1>4. CASE UNCHANGED vars
    BY <1>4, PaintStutters
  <1> QED
    BY <1>1, <1>2, <1>3, <1>4, UnpaintedMethods DEF Next

(* The regions a client paints with colour every character as the colour   *)
(* scheme says: LinePainted, for every catalog, every set of user files,   *)
(* every grammar of marks and blocks, and every sequence of methods,       *)
(* however long.                                                           *)
THEOREM LinesArePainted == Spec => []LinePainted
  <1>1. Init => ParamsInv /\ ParamsReported /\ PaintInv /\ LinePainted
    BY ParamsInit, PaintInit
  <1>2. ParamsInv /\ ParamsReported /\ PaintInv /\ LinePainted /\ [Next]_vars
          => ParamsInv' /\ ParamsReported' /\ PaintInv' /\ LinePainted'
    BY ParamsNext, PaintNext
  <1> QED
    BY <1>1, <1>2, PTL DEF Spec

-----------------------------------------------------------------------------
(* What a line tells of pairs and outlines. *)

LEMMA TellFoldsAre ==
  /\ \A h : Pairs(h) = Fold([fold |-> "pairs", marks |-> h.marks], <<>>, h.line)
  /\ \A spans : FoldLeft(Joined, <<>>, spans) = Fold([fold |-> "joined"], <<>>, spans)
  BY DEF Pairs, IsPair, PairKind, FoldLeft, MapThenFoldSet, Fold, Op

LEMMA TellOps ==
  /\ \A marks, a, p : Op([fold |-> "pairs", marks |-> marks], a, p) =
                        IF IsPair([marks |-> marks], p) THEN Append(a, p) ELSE a
  /\ \A hit, a, i : Op([fold |-> "matches", hit |-> hit], a, i) = IF hit[i] THEN Append(a, i) ELSE a
  /\ \A a, b : Op([fold |-> "joined"], a, b) = Joined(a, b)
  BY DEF Op, IsPair, PairKind

(* The pairs of a line, and what is collected for the outlines.            *)
PairsIn(marks, line) == Fold([fold |-> "pairs", marks |-> marks], <<>>, line)

Heard(h) == [outline |-> h.outline, started |-> h.started]

Note(x, kind, n, lv, r) ==
  [kind |-> kind, start |-> n, end |-> n + 1, level |-> lv,
   starts |-> kind \notin x.started, name |-> r]

Noted(x, marks, kind, n, lv, r) ==
  IF ~HasParent(r, marks[kind]) THEN x
  ELSE [outline |-> Append(x.outline, Note(x, kind, n, lv, r)), started |-> x.started \cup {kind}]

Notes(x, marks, n, lv, r) ==
  Noted(Noted(x, marks, "outlined", n, lv, r), marks, "error", n, lv, r)

IsHeard(x) == x = [outline |-> x.outline, started |-> x.started] /\ IsList(x.outline)

LEMMA HeardIs ==
  ASSUME NEW h, IsList(h.outline)
  PROVE  IsHeard(Heard(h))
  BY DEF IsHeard, Heard

LEMMA OneMore ==
  ASSUME NEW s, IsList(s), NEW x
  PROVE  s \o <<x>> = Append(s, x)
  <1> DEFINE V == {s[i] : i \in DOMAIN s} \cup {x}
  <1>1. s \in Seq(V) /\ x \in V
    <2>1. s \in Seq({s[i] : i \in DOMAIN s})
      BY DEF IsList
    <2> DEFINE W == {s[i] : i \in DOMAIN s}
    <2> HIDE DEF W
    <2>2. ASSUME s \in Seq(W) PROVE s \in Seq(W \cup {x})
      BY <2>2
    <2> QED
      BY <2>1, <2>2 DEF W
  <1> HIDE DEF V
  <1> QED
    BY <1>1

LEMMA TwoMore ==
  ASSUME NEW s, IsList(s), NEW x, NEW y
  PROVE  s \o <<x, y>> = Append(Append(s, x), y)
  <1> DEFINE V == {s[i] : i \in DOMAIN s} \cup {x, y}
  <1>1. s \in Seq(V) /\ x \in V /\ y \in V
    <2>1. s \in Seq({s[i] : i \in DOMAIN s})
      BY DEF IsList
    <2> DEFINE W == {s[i] : i \in DOMAIN s}
    <2> HIDE DEF W
    <2>2. ASSUME s \in Seq(W) PROVE s \in Seq(W \cup {x, y})
      BY <2>2
    <2> QED
      BY <2>1, <2>2 DEF W
  <1> HIDE DEF V
  <1> QED
    BY <1>1

LEMMA TwoAre ==
  ASSUME NEW x, NEW y
  PROVE  <<x>> \o <<y>> = <<x, y>>
  <1> DEFINE V == {x, y}
             s == <<x>>
             t == <<y>>
  <1>1. s \in Seq(V) /\ t \in Seq(V) /\ Len(s) = 1 /\ Len(t) = 1 /\ s[1] = x /\ t[1] = y
    OBVIOUS
  <1> HIDE DEF V, s, t
  <1>2. s \o t \in Seq(V) /\ Len(s \o t) = 2 /\ (s \o t)[1] = x /\ (s \o t)[2] = y
    <2>1. /\ s \o t \in Seq(V) /\ Len(s \o t) = Len(s) + Len(t)
          /\ \A i \in 1 .. Len(s) + Len(t) :
               (s \o t)[i] = IF i <= Len(s) THEN s[i] ELSE t[i - Len(s)]
      BY <1>1, ConcatProperties
    <2>2. 1 + 1 = 2 /\ 1 \in 1 .. 2 /\ 2 \in 1 .. 2 /\ 2 - 1 = 1 /\ 1 <= 1 /\ ~(2 <= 1)
      OBVIOUS
    <2> QED
      BY <1>1, <2>1, <2>2
  <1> DEFINE u == s \o t
             w == <<x, y>>
  <1>3. IsList(w) /\ Len(w) = 2 /\ w[1] = x /\ w[2] = y
    <2>1. w = [i \in 1 .. 2 |-> w[i]]
      OBVIOUS
    <2>2. w[1] = x /\ w[2] = y
      OBVIOUS
    <2> HIDE DEF w
    <2> QED
      BY <2>1, <2>2, ListOf
  <1>4. u = [i \in 1 .. 2 |-> u[i]]
    <2> HIDE DEF w
    <2>1. u \in Seq(V) /\ Len(u) = 2
      BY <1>2
    <2> HIDE DEF u
    <2> QED
      BY <2>1
  <1> HIDE DEF u, w
  <1>5. IsList(u) /\ Len(u) = 2
    BY <1>4, ListOf
  <1>6. \A i \in 1 .. 2 : i = 1 \/ i = 2
    OBVIOUS
  <1>7. u = w
    BY <1>2, <1>3, <1>5, <1>6, ListSame DEF u
  <1> QED
    BY <1>7 DEF u, w, s, t

LEMMA CollectIs ==
  ASSUME NEW h, IsHandler(h), IsList(h.outline), NEW n \in Nat, NEW r, NEW g, g = Collect(h, n, n + 1, r)
  PROVE  /\ Kept(g, h) /\ g.stack = h.stack /\ g.mapper = h.mapper /\ g.line = h.line /\ g.flow = h.flow
         /\ g.level = h.level /\ g.marks = h.marks
         /\ Heard(g) = Notes(Heard(h), h.marks, n, h.level, r) /\ IsList(g.outline)
  <1> DEFINE on == HasParent(r, h.marks["outlined"])
             er == HasParent(r, h.marks["error"])
             Listed(kind) == IF HasParent(r, h.marks[kind]) THEN <<kind>> ELSE <<>>
             lists == Listed("outlined") \o Listed("error")
             Span(kind) == [kind |-> kind, start |-> n, end |-> n + 1, level |-> h.level,
                            starts |-> kind \notin h.started, name |-> r]
             spans == [i \in DOMAIN lists |-> Span(lists[i])]
             kinds == {lists[i] : i \in DOMAIN lists}
             out == h.outline
             a == Span("outlined")
             b == Span("error")
  <1>1. g = [h EXCEPT !.outline = @ \o spans, !.started = @ \cup kinds]
    BY Zenon DEF Collect
  <1>2. /\ on /\ er => spans = <<a, b>> /\ kinds = {"outlined", "error"}
        /\ on /\ ~er => spans = <<a>> /\ kinds = {"outlined"}
        /\ ~on /\ er => spans = <<b>> /\ kinds = {"error"}
        /\ ~on /\ ~er => spans = <<>> /\ kinds = {}
    <2>1. CASE on /\ er
      <3>1. Listed("outlined") = <<"outlined">> /\ Listed("error") = <<"error">>
        BY <2>1
      <3>2. <<"outlined">> \o <<"error">> = <<"outlined", "error">>
        BY TwoAre
      <3>3. lists = <<"outlined", "error">>
        BY <3>1, <3>2, Zenon
      <3> HIDE DEF lists, Span
      <3> QED
        BY <2>1, <3>3
    <2>2. CASE on /\ ~er
      <3>1. lists = <<"outlined">>
        BY <2>2
      <3> HIDE DEF lists, Span
      <3> QED
        BY <2>2, <3>1
    <2>3. CASE ~on /\ er
      <3>1. lists = <<"error">>
        BY <2>3
      <3> HIDE DEF lists, Span
      <3> QED
        BY <2>3, <3>1
    <2>4. CASE ~on /\ ~er
      <3>1. lists = <<>>
        BY <2>4
      <3> HIDE DEF lists, Span
      <3> QED
        BY <2>4, <3>1
    <2> QED
      BY <2>1, <2>2, <2>3, <2>4
  <1> HIDE DEF spans, kinds
  <1>3. /\ Kept(g, h) /\ g.stack = h.stack /\ g.mapper = h.mapper /\ g.line = h.line /\ g.flow = h.flow
        /\ g.level = h.level /\ g.marks = h.marks
        /\ g.outline = out \o spans /\ g.started = h.started \cup kinds
    BY <1>1 DEF IsHandler, HandlerFields, Kept
  <1> DEFINE x == Heard(h)
             y == Noted(x, h.marks, "outlined", n, h.level, r)
  <1>4. x.outline = out /\ x.started = h.started
    BY DEF Heard
  <1>5. Note(x, "outlined", n, h.level, r) = a
    BY <1>4 DEF Note
  <1>6. IF on THEN y.outline = Append(out, a) /\ y.started = h.started \cup {"outlined"}
        ELSE y = x
    <2> HIDE DEF x, a
    <2> QED
      BY <1>4, <1>5 DEF Noted
  <1>7. Note(y, "error", n, h.level, r) = b
    <2>1. "error" \in y.started <=> "error" \in h.started
      <3> HIDE DEF y
      <3> QED
        BY <1>4, <1>6
    <2> HIDE DEF y
    <2> QED
      BY <2>1 DEF Note
  <1> HIDE DEF a, b
  <1>8. Notes(x, h.marks, n, h.level, r) =
          IF er THEN [outline |-> Append(y.outline, b), started |-> y.started \cup {"error"}] ELSE y
    BY <1>7 DEF Notes, Noted
  <1>9. IsList(out \o <<>>) /\ out \o <<>> = out
    <2>1. out \in Seq({out[i] : i \in DOMAIN out})
      BY DEF IsList
    <2> DEFINE V == {out[i] : i \in DOMAIN out}
    <2> HIDE DEF V
    <2>2. ASSUME out \in Seq(V) PROVE out \o <<>> = out
      BY <2>2
    <2>3. out \o <<>> = out
      BY <2>1, <2>2 DEF V
    <2> QED
      BY <2>3
  <1>10. /\ out \o <<a>> = Append(out, a) /\ out \o <<b>> = Append(out, b)
         /\ out \o <<a, b>> = Append(Append(out, a), b)
    BY OneMore, TwoMore
  <1>11. IsList(Append(out, a)) /\ IsList(Append(out, b)) /\ IsList(Append(Append(out, a), b))
    BY ListMore
  <1>12. Heard(g) = [outline |-> out \o spans, started |-> h.started \cup kinds]
    BY <1>3 DEF Heard
  <1>13. x = [outline |-> out, started |-> h.started]
    BY DEF Heard
  <1> HIDE DEF x, y
  <1>14. Heard(g) = Notes(x, h.marks, n, h.level, r)
    <2>1. CASE on
      <3>1. y.outline = Append(out, a) /\ y.started = h.started \cup {"outlined"}
        BY <1>6, <2>1
      <3>2. CASE er
        <4>1. (h.started \cup {"outlined"}) \cup {"error"} = h.started \cup kinds
          BY <1>2, <2>1, <3>2
        <4> QED
          BY <1>2, <1>8, <1>10, <1>12, <2>1, <3>1, <3>2, <4>1
      <3>3. CASE ~er
        <4>1. y = [outline |-> Append(out, a), started |-> h.started \cup {"outlined"}]
          BY <1>4, <1>5, <2>1 DEF y, Noted
        <4> QED
          BY <1>2, <1>8, <1>10, <1>12, <2>1, <3>3, <4>1
      <3> QED
        BY <3>2, <3>3
    <2>2. CASE ~on
      <3>1. y = x
        BY <1>6, <2>2
      <3>2. CASE er
        BY <1>2, <1>4, <1>8, <1>10, <1>12, <2>2, <3>1, <3>2
      <3>3. CASE ~er
        <4>1. h.started \cup kinds = h.started
          BY <1>2, <2>2, <3>3
        <4> QED
          BY <1>2, <1>8, <1>9, <1>12, <1>13, <2>2, <3>1, <3>3, <4>1
      <3> QED
        BY <3>2, <3>3
    <2> QED
      BY <2>1, <2>2
  <1>15. IsList(g.outline)
    BY <1>2, <1>3, <1>9, <1>10, <1>11
  <1> QED
    BY <1>3, <1>14, <1>15 DEF x

LEMMA PairsMore ==
  ASSUME NEW line, IsList(line), NEW marks, NEW p
  PROVE  PairsIn(marks, Append(line, p)) =
           IF IsPair([marks |-> marks], p) THEN Append(PairsIn(marks, line), p) ELSE PairsIn(marks, line)
  <1> DEFINE k == [fold |-> "pairs", marks |-> marks]
  <1>1. \A a : Op(k, a, p) = IF IsPair([marks |-> marks], p) THEN Append(a, p) ELSE a
    BY TellOps
  <1> HIDE DEF k
  <1>2. Fold(k, <<>>, Append(line, p)) = Op(k, Fold(k, <<>>, line), p)
    BY FoldMore
  <1> QED
    BY <1>1, <1>2 DEF PairsIn, k

(* A background is no pair.                                                *)
LEMMA PairsSwitch ==
  ASSUME NEW n, NEW line, NEW f, Pieces(line, f, n), NEW pool, NEW entry, NEW s, NEW w,
         Switched(w, line, f, pool, entry, s), NEW marks
  PROVE  PairsIn(marks, w) = PairsIn(marks, line)
  <1> DEFINE cut == [line EXCEPT ![f].end = s]
             m == Len(line)
             p == Flow(pool, entry, s)
             k == [fold |-> "pairs", marks |-> marks]
  <1>1. m \in Nat /\ DOMAIN line = 1 .. m /\ f \in 1 .. m /\ line[f].special = FALSE /\ IsPiece(line[f])
    BY ListIs DEF Pieces
  <1>2. /\ cut = [j \in 1 .. m |-> cut[j]] /\ \A j \in 1 .. m : j # f => cut[j] = line[j]
        /\ cut[f] = [line[f] EXCEPT !.end = s]
    <2>1. line = [j \in 1 .. m |-> line[j]]
      BY ListFcn DEF Pieces
    <2> QED
      BY <1>1, <2>1
  <1>3. cut[f].special = FALSE
    <2> HIDE DEF cut
    <2> QED
      BY <1>1, <1>2 DEF IsPiece, PieceFields
  <1>4. p.special = FALSE
    BY DEF Flow
  <1> HIDE DEF cut, p
  <1>5. IsList(cut) /\ Len(cut) = m
    BY <1>1, <1>2, ListOf
  <1>6. w = Append(cut, p)
    BY DEF Switched, cut, p
  <1>7. PairsIn(marks, w) = PairsIn(marks, cut)
    BY <1>4, <1>5, <1>6, PairsMore DEF IsPair
  <1>8. PICK g : Steps(g, k, <<>>, line) /\ Fold(k, <<>>, line) = g[m]
    BY FoldSteps DEF Pieces
  <1>9. \A a, r : Op(k, a, r) = IF IsPair([marks |-> marks], r) THEN Append(a, r) ELSE a
    BY TellOps
  <1>10. \A a : Op(k, a, cut[f]) = a /\ Op(k, a, line[f]) = a
    <2> HIDE DEF k
    <2> QED
      BY <1>1, <1>3, <1>9 DEF IsPair
  <1> HIDE DEF k
  <1>11. Steps(g, k, <<>>, cut)
    <2>1. \A a : \A j \in 1 .. m : Op(k, a, cut[j]) = Op(k, a, line[j])
      BY <1>2, <1>10
    <2> QED
      BY <1>5, <1>8, <2>1 DEF Steps
  <1>12. Fold(k, <<>>, cut) = g[m]
    BY <1>5, <1>11, FoldOf
  <1> QED
    BY <1>7, <1>8, <1>12 DEF PairsIn, k

(* What a region adds: with the style it has among some blocks.            *)
PieceAs(m, special, on, r, n) ==
  [start |-> n, end |-> n + 1, region |-> r, special |-> HasParent(r, special),
   define |-> Says0(m, r, Around(m, on))]

Paired(ps, marks, p) == IF IsPair([marks |-> marks], p) THEN Append(ps, p) ELSE ps

Telling(h, bs) == h.level = Len(bs) /\ IsList(h.outline)

Told(g, h, m, on, n, r) ==
  /\ g.marks = h.marks
  /\ Heard(g) = Notes(Heard(h), h.marks, n, Len(on), r)
  /\ PairsIn(h.marks, g.line) = Paired(PairsIn(h.marks, h.line), h.marks, PieceAs(m, h.special, on, r, n))

(* A step that tells nothing.                                              *)
Silent(g, h) ==
  g.marks = h.marks /\ Heard(g) = Heard(h) /\ PairsIn(h.marks, g.line) = PairsIn(h.marks, h.line)

LEMMA AddRegionTells ==
  ASSUME NEW n \in Nat, NEW h, NEW bs, Good(h, bs, n), Telling(h, bs), NEW r \in Maybe, NEW g,
         g = AddRegion(h, n, n + 1, r)
  PROVE  Telling(g, bs) /\ Told(g, h, h.mapper, bs, n, r)
  <1> DEFINE p == Piece(h, n, n + 1, r)
             added == [h EXCEPT !.line = Append(@, p), !.pool = Alloc(@), !.mapper = Asked(@, r)]
             outer == Last(h.stack).define
  <1>1. g = Collect(added, n, n + 1, r)
    BY DEF AddRegion, Piece
  <1>2. Styled(h, r) = Says0(h.mapper, r, outer)
    BY GoodStyle
  <1>3. outer = Around(h.mapper, bs)
    BY FramedAround DEF Good
  <1>4. p = PieceAs(h.mapper, h.special, bs, r, n)
    BY <1>2, <1>3 DEF Piece, PieceAs
  <1> HIDE DEF p
  <1>5. IsHandler(h) /\ IsList(h.line) /\ IsList(h.outline) /\ h.level = Len(bs)
    BY DEF Good, Pieces, Telling
  <1>6. /\ IsHandler(added) /\ added.outline = h.outline /\ added.started = h.started
        /\ added.level = h.level /\ added.marks = h.marks /\ added.line = Append(h.line, p)
    BY <1>5 DEF IsHandler, HandlerFields
  <1> HIDE DEF added
  <1>7. /\ g.level = added.level /\ g.marks = added.marks /\ IsList(g.outline) /\ g.line = added.line
        /\ Heard(g) = Notes(Heard(added), added.marks, n, added.level, r)
    BY <1>1, <1>5, <1>6, CollectIs
  <1>8. Heard(added) = Heard(h)
    BY <1>6 DEF Heard
  <1>9. PairsIn(h.marks, g.line) = Paired(PairsIn(h.marks, h.line), h.marks, p)
    <2> DEFINE line == h.line
               ms == h.marks
    <2>1. g.line = Append(line, p) /\ IsList(line)
      BY <1>5, <1>6, <1>7
    <2> HIDE DEF line, ms
    <2>2. PairsIn(ms, Append(line, p)) = Paired(PairsIn(ms, line), ms, p)
      BY <2>1, PairsMore DEF Paired
    <2> QED
      BY <2>1, <2>2 DEF line, ms
  <1> QED
    BY <1>4, <1>5, <1>6, <1>7, <1>8, <1>9 DEF Telling, Told

LEMMA SwitchTells ==
  ASSUME NEW h, IsHandler(h), NEW entry, NEW s, NEW g, g = Switch(h, entry, s)
  PROVE  g.level = h.level /\ g.marks = h.marks /\ Heard(g) = Heard(h) /\ g.outline = h.outline
  BY DEF Switch, IsHandler, HandlerFields, Heard

LEMMA EnterTells ==
  ASSUME NEW n, NEW h, NEW bs, Good(h, bs, n), Telling(h, bs), NEW b, IsBlock(b), NEW s, NEW g,
         g = EnterScheme(h, s, b.region)
  PROVE  Telling(g, Append(bs, b)) /\ Silent(g, h)
  <1> DEFINE r == b.region
             entry == Entry(r, Styled(h, r))
             opened == [h EXCEPT !.stack = Append(@, entry), !.pool = Alloc(@),
                                 !.mapper = Asked(@, r), !.level = @ + 1]
  <1>0. IsHandler(h) /\ Pieces(h.line, h.flow, n) /\ AreBlocks(bs)
    BY DEF Good
  <1>1. g = IF r = NoRegion THEN opened ELSE Switch(opened, entry, s)
    BY DEF EnterScheme
  <1> HIDE DEF entry, r
  <1>2. /\ IsHandler(opened) /\ opened.level = h.level + 1 /\ opened.marks = h.marks
        /\ opened.outline = h.outline /\ opened.started = h.started /\ opened.line = h.line
    BY <1>0 DEF IsHandler, HandlerFields
  <1> HIDE DEF opened
  <1>3. Heard(opened) = Heard(h)
    BY <1>2 DEF Heard
  <1>4. g.level = h.level + 1 /\ g.marks = h.marks /\ Heard(g) = Heard(h) /\ g.outline = h.outline
    BY <1>1, <1>2, <1>3, SwitchTells
  <1>5. PICK e, pool : Entered(g, h, s, r, e, pool)
    BY <1>0, EnterSchemeIs DEF r
  <1>6. PairsIn(h.marks, g.line) = PairsIn(h.marks, h.line)
    <2>1. CASE r = NoRegion
      BY <1>5, <2>1 DEF Entered
    <2>2. CASE r # NoRegion
      <3>1. Switched(g.line, h.line, h.flow, pool, e, s)
        BY <1>5, <2>2 DEF Entered
      <3> QED
        BY <1>0, <3>1, PairsSwitch
    <2> QED
      BY <2>1, <2>2
  <1>7. Len(Append(bs, b)) = Len(bs) + 1
    BY <1>0, BlocksMore
  <1> QED
    BY <1>4, <1>6, <1>7 DEF Telling, Silent

LEMMA LeaveTells ==
  ASSUME NEW n, NEW h, NEW bs, Good(h, bs, n), Telling(h, bs), bs # <<>>, NEW s, NEW g,
         g = LeaveScheme(h, s)
  PROVE  Telling(g, Front(bs)) /\ Silent(g, h)
  <1> DEFINE closed == [h EXCEPT !.stack = Front(@), !.level = @ - 1,
                                 !.pool = Free(@, <<Last(h.stack)>>)]
             last == Last(h.stack)
  <1>0. IsHandler(h) /\ Pieces(h.line, h.flow, n) /\ AreBlocks(bs)
    BY DEF Good
  <1>1. g = IF last.region = NoRegion THEN closed ELSE Switch(closed, Last(closed.stack), s)
    BY DEF LeaveScheme
  <1>2. /\ IsHandler(closed) /\ closed.level = h.level - 1 /\ closed.marks = h.marks
        /\ closed.outline = h.outline /\ closed.started = h.started /\ closed.line = h.line
    BY <1>0 DEF IsHandler, HandlerFields
  <1> HIDE DEF closed
  <1>3. Heard(closed) = Heard(h)
    BY <1>2 DEF Heard
  <1>4. g.level = h.level - 1 /\ g.marks = h.marks /\ Heard(g) = Heard(h) /\ g.outline = h.outline
    BY <1>1, <1>2, <1>3, SwitchTells
  <1>5. PICK pool : Left(g, h, s, pool)
    BY <1>0, LeaveSchemeIs
  <1>6. PairsIn(h.marks, g.line) = PairsIn(h.marks, h.line)
    <2>1. CASE last.region = NoRegion
      BY <1>5, <2>1 DEF Left
    <2>2. CASE last.region # NoRegion
      <3>1. Switched(g.line, h.line, h.flow, pool, Last(Front(h.stack)), s)
        BY <1>5, <2>2 DEF Left
      <3> QED
        BY <1>0, <3>1, PairsSwitch
    <2> QED
      BY <2>1, <2>2
  <1>7. Len(Front(bs)) = Len(bs) - 1
    BY <1>0, BlocksLess
  <1> QED
    BY <1>4, <1>6, <1>7 DEF Telling, Silent

(* A step that tells, before or after one that does not.                   *)
LEMMA ToldThen ==
  ASSUME NEW h, NEW e, NEW g, NEW m, NEW on, NEW n, NEW r, Told(e, h, m, on, n, r), Silent(g, e)
  PROVE  Told(g, h, m, on, n, r)
  BY DEF Told, Silent

LEMMA ThenTold ==
  ASSUME NEW h, NEW e, NEW g, NEW k \in Nat, Painted(e, h, k), NEW on, AreBlocks(on), NEW n, NEW r,
         Silent(e, h), Told(g, e, e.mapper, on, n, r)
  PROVE  Told(g, h, h.mapper, on, n, r)
  <1>1. e.mapper.defines = h.mapper.defines /\ e.special = h.special
    BY DEF Painted
  <1>2. Around(e.mapper, on) = Around(h.mapper, on)
    BY <1>1, AroundSame
  <1>3. \A outer : Says0(e.mapper, r, outer) = Says0(h.mapper, r, outer)
    BY <1>1, SameDefines
  <1>4. PieceAs(e.mapper, e.special, on, r, n) = PieceAs(h.mapper, h.special, on, r, n)
    BY <1>1, <1>2, <1>3 DEF PieceAs
  <1>5. e.marks = h.marks /\ Heard(e) = Heard(h) /\ PairsIn(h.marks, e.line) = PairsIn(h.marks, h.line)
    BY DEF Silent
  <1> DEFINE p == PieceAs(e.mapper, e.special, on, r, n)
  <1>6. /\ g.marks = e.marks /\ Heard(g) = Notes(Heard(e), e.marks, n, Len(on), r)
        /\ PairsIn(e.marks, g.line) = Paired(PairsIn(e.marks, e.line), e.marks, p)
    BY DEF Told
  <1> HIDE DEF p
  <1>7. /\ g.marks = h.marks /\ Heard(g) = Notes(Heard(h), h.marks, n, Len(on), r)
        /\ PairsIn(h.marks, g.line) = Paired(PairsIn(h.marks, h.line), h.marks, p)
    BY <1>5, <1>6
  <1>8. p = PieceAs(h.mapper, h.special, on, r, n)
    BY <1>4 DEF p
  <1> QED
    BY <1>7, <1>8 DEF Told

(* No region tells nothing.                                                *)
LEMMA NothingTold ==
  ASSUME NEW h, NEW m, NEW on, NEW n
  PROVE  Told(h, h, m, on, n, NoRegion)
  <1>1. \A s : ~HasParent(NoRegion, s)
    BY DEF HasParent
  <1>2. Notes(Heard(h), h.marks, n, Len(on), NoRegion) = Heard(h)
    BY <1>1 DEF Notes, Noted
  <1>3. PieceAs(m, h.special, on, NoRegion, n).special = FALSE
    BY <1>1 DEF PieceAs
  <1>4. ~IsPair([marks |-> h.marks], PieceAs(m, h.special, on, NoRegion, n))
    BY <1>3 DEF IsPair
  <1> QED
    BY <1>2, <1>4 DEF Told, Paired

(* What a symbol of the line tells.                                        *)
ScanTold(g, s, n, token) ==
  /\ Telling(g.h, g.open)
  /\ Told(g.h, s.h, s.h.mapper, At(s.open, token), n, RegionOf(s.open, token))

LEMMA TellsMark ==
  ASSUME NEW n \in Nat, NEW s, IsState(s), Good(s.h, s.open, n), Telling(s.h, s.open),
         NEW token, IsToken(token), token.kind = "mark", NEW g, g = Scan(s, n + 1, token)
  PROVE  ScanTold(g, s, n, token)
  <1> DEFINE e == AddRegion(s.h, n, n + 1, token.region)
  <1>1. (n + 1) - 1 = n
    OBVIOUS
  <1>2. g = [s EXCEPT !.h = AddRegion(s.h, (n + 1) - 1, n + 1, token.region)]
    BY DEF Scan
  <1>3. g.h = e /\ g.open = s.open
    <2>1. g = [s EXCEPT !.h = e]
      BY <1>1, <1>2
    <2> HIDE DEF e
    <2> QED
      BY <2>1 DEF IsState
  <1>4. token.region \in Maybe
    BY DEF IsToken
  <1>5. Telling(e, s.open) /\ Told(e, s.h, s.h.mapper, s.open, n, token.region)
    BY <1>4, AddRegionTells
  <1>6. At(s.open, token) = s.open /\ RegionOf(s.open, token) = token.region
    BY DEF At, RegionOf
  <1> HIDE DEF e
  <1> QED
    BY <1>3, <1>5, <1>6 DEF ScanTold

LEMMA TellsOpen ==
  ASSUME NEW n \in Nat, NEW s, IsState(s), Good(s.h, s.open, n), Telling(s.h, s.open),
         NEW token, IsToken(token), token.kind = "open", NEW g, g = Scan(s, n + 1, token)
  PROVE  ScanTold(g, s, n, token)
  <1> DEFINE b == token.block
             h == s.h
             bs == s.open
             cs == Append(bs, b)
  <1>1. (n + 1) - 1 = n
    OBVIOUS
  <1>2. g = [h |-> Enter(h, n + 1, b), open |-> cs]
    BY DEF Scan
  <1>3. g.h = Enter(h, n + 1, b) /\ g.open = cs
    BY <1>2
  <1>4. IsBlock(b) /\ b.first \in Maybe
    BY DEF IsToken, IsBlock
  <1>5. RegionOf(bs, token) = b.first
    BY DEF RegionOf
  <1>6. Good(h, bs, n) /\ AreBlocks(bs) /\ Telling(h, bs)
    BY DEF Good
  <1>7. (b.inner => At(bs, token) = bs) /\ (~b.inner => At(bs, token) = cs)
    BY DEF At
  <1>8. IF b.inner THEN g.h = EnterScheme(AddRegion(h, n, n + 1, b.first), n + 1, b.region)
        ELSE g.h = AddRegion(EnterScheme(h, n, b.region), n, n + 1, b.first)
    BY <1>1, <1>3 DEF Enter
  <1> HIDE DEF b, h, bs
  <1>9. CASE b.inner
    <2> DEFINE e == AddRegion(h, n, n + 1, b.first)
    <2>1. g.h = EnterScheme(e, n + 1, b.region)
      BY <1>8, <1>9
    <2> HIDE DEF e
    <2>2. Good(e, bs, n + 1)
      BY <1>4, <1>6, AddRegionShows DEF e
    <2>3. Telling(e, bs) /\ Told(e, h, h.mapper, bs, n, b.first)
      BY <1>4, <1>6, AddRegionTells DEF e
    <2>4. Telling(g.h, cs) /\ Silent(g.h, e)
      BY <1>4, <2>1, <2>2, <2>3, EnterTells
    <2>5. Told(g.h, h, h.mapper, bs, n, b.first)
      BY <2>3, <2>4, ToldThen
    <2> QED
      BY <1>3, <1>5, <1>7, <1>9, <2>4, <2>5 DEF ScanTold, h, bs
  <1>10. CASE ~b.inner
    <2> DEFINE e == EnterScheme(h, n, b.region)
    <2>1. g.h = AddRegion(e, n, n + 1, b.first)
      BY <1>8, <1>10
    <2> HIDE DEF e
    <2>2. Good(e, cs, n) /\ Painted(e, h, n)
      BY <1>4, <1>6, EnterShows DEF e
    <2>3. Telling(e, cs) /\ Silent(e, h)
      BY <1>4, <1>6, EnterTells DEF e
    <2> HIDE DEF cs
    <2>4. Telling(g.h, cs) /\ Told(g.h, e, e.mapper, cs, n, b.first)
      BY <1>4, <2>1, <2>2, <2>3, AddRegionTells
    <2>5. AreBlocks(cs)
      BY <2>2 DEF Good
    <2>6. Told(g.h, h, h.mapper, cs, n, b.first)
      BY <2>2, <2>3, <2>4, <2>5, ThenTold
    <2> QED
      BY <1>3, <1>5, <1>7, <1>10, <2>4, <2>6 DEF ScanTold, h, bs
  <1> QED
    BY <1>9, <1>10

LEMMA TellsClose ==
  ASSUME NEW n \in Nat, NEW s, IsState(s), Good(s.h, s.open, n), Telling(s.h, s.open),
         NEW token, IsToken(token), token.kind = "close", s.open # <<>>, NEW g, g = Scan(s, n + 1, token)
  PROVE  ScanTold(g, s, n, token)
  <1> DEFINE h == s.h
             bs == s.open
             b == Last(bs)
             cs == Front(bs)
  <1>1. (n + 1) - 1 = n
    OBVIOUS
  <1>2. g = [h |-> Leave(h, n + 1, b), open |-> cs]
    BY DEF Scan
  <1>3. g.h = Leave(h, n + 1, b) /\ g.open = cs
    BY <1>2
  <1>4. Good(h, bs, n) /\ AreBlocks(bs) /\ bs # <<>> /\ Telling(h, bs)
    BY DEF Good
  <1>5. RegionOf(bs, token) = b.last
    BY DEF RegionOf
  <1>6. (b.inner => At(bs, token) = cs) /\ (~b.inner => At(bs, token) = bs)
    BY DEF At
  <1>7. IF b.inner THEN g.h = AddRegion(LeaveScheme(h, n), n, n + 1, b.last)
        ELSE g.h = LeaveScheme(AddRegion(h, n, n + 1, b.last), n + 1)
    BY <1>1, <1>3 DEF Leave
  <1> HIDE DEF h, bs
  <1>8. b.last \in Maybe
    BY <1>4, BlocksLess DEF IsBlock
  <1> HIDE DEF b
  <1>9. CASE ~b.inner
    <2> DEFINE e == AddRegion(h, n, n + 1, b.last)
    <2>1. g.h = LeaveScheme(e, n + 1)
      BY <1>7, <1>9
    <2> HIDE DEF e
    <2>2. Good(e, bs, n + 1)
      BY <1>4, <1>8, AddRegionShows DEF e
    <2>3. Telling(e, bs) /\ Told(e, h, h.mapper, bs, n, b.last)
      BY <1>4, <1>8, AddRegionTells DEF e
    <2>4. Telling(g.h, cs) /\ Silent(g.h, e)
      BY <1>4, <2>1, <2>2, <2>3, LeaveTells
    <2>5. Told(g.h, h, h.mapper, bs, n, b.last)
      BY <2>3, <2>4, ToldThen
    <2> QED
      BY <1>3, <1>5, <1>6, <1>9, <2>4, <2>5 DEF ScanTold, h, bs
  <1>10. CASE b.inner
    <2> DEFINE e == LeaveScheme(h, n)
    <2>1. g.h = AddRegion(e, n, n + 1, b.last)
      BY <1>7, <1>10
    <2> HIDE DEF e
    <2>2. Good(e, cs, n) /\ Painted(e, h, n)
      BY <1>4, LeaveShows DEF e
    <2>3. Telling(e, cs) /\ Silent(e, h)
      BY <1>4, LeaveTells DEF e
    <2> HIDE DEF cs
    <2>4. Telling(g.h, cs) /\ Told(g.h, e, e.mapper, cs, n, b.last)
      BY <1>8, <2>1, <2>2, <2>3, AddRegionTells
    <2>5. AreBlocks(cs)
      BY <2>2 DEF Good
    <2>6. Told(g.h, h, h.mapper, cs, n, b.last)
      BY <2>2, <2>3, <2>4, <2>5, ThenTold
    <2> QED
      BY <1>3, <1>5, <1>6, <1>10, <2>4, <2>6 DEF ScanTold, h, bs
  <1> QED
    BY <1>9, <1>10

LEMMA ScanTells ==
  ASSUME NEW n \in Nat, NEW s, IsState(s), Good(s.h, s.open, n), Telling(s.h, s.open),
         NEW token, IsToken(token)
  PROVE  ScanTold(Scan(s, n + 1, token), s, n, token)
  <1>1. CASE token.kind = "mark"
    BY <1>1, TellsMark
  <1>2. CASE token.kind = "open"
    BY <1>2, TellsOpen
  <1>3. CASE token.kind = "close" /\ s.open # <<>>
    BY <1>3, TellsClose
  <1>4. CASE ~(token.kind = "mark" \/ token.kind = "open" \/ (token.kind = "close" /\ s.open # <<>>))
    <2>1. Scan(s, n + 1, token) = s
      BY <1>4 DEF Scan
    <2>2. RegionOf(s.open, token) = NoRegion
      BY <1>4 DEF RegionOf
    <2> QED
      BY <2>1, <2>2, NothingTold DEF ScanTold
  <1> QED
    BY <1>1, <1>2, <1>3, <1>4

LEMMA EmptyList == IsList(<<>>) /\ Len(<<>>) = 0
  BY DEF IsList

(* A line before its first symbol.                                         *)
LEMMA StartTells ==
  ASSUME NEW h, IsHandler(h), h.outline = <<>>, NEW g, g = ClearLine(StartParsing(h))
  PROVE  /\ g.level = 0 /\ g.marks = h.marks /\ g.outline = <<>> /\ g.started = {}
         /\ PairsIn(h.marks, g.line) = <<>>
  <1> DEFINE e == StartParsing(h)
  <1>1. IsHandler(e) /\ e.level = 0 /\ e.marks = h.marks /\ e.outline = <<>>
    BY DEF StartParsing, IsHandler, HandlerFields
  <1> HIDE DEF e
  <1>2. PICK p : p.special = FALSE /\ g.line = <<p>>
    <2>1. \A pool, entry : Flow(pool, entry, 0).special = FALSE
      BY DEF Flow
    <2>2. g.line = <<Flow(Free(e.pool, e.line), Last(e.stack), 0)>>
      BY <1>1 DEF ClearLine, IsHandler, HandlerFields, e
    <2> QED
      BY <2>1, <2>2
  <1>3. g.level = 0 /\ g.marks = h.marks /\ g.outline = <<>> /\ g.started = {}
    BY <1>1 DEF ClearLine, IsHandler, HandlerFields, e
  <1> DEFINE k == [fold |-> "pairs", marks |-> h.marks]
  <1>4. PairsIn(h.marks, <<>>) = <<>>
    BY EmptyList, FoldNone DEF PairsIn
  <1>5. Append(<<>>, p) = <<p>>
    OBVIOUS
  <1>6. ~IsPair([marks |-> h.marks], p)
    BY <1>2 DEF IsPair
  <1>7. PairsIn(h.marks, Append(<<>>, p)) = <<>>
    BY <1>4, <1>6, EmptyList, PairsMore
  <1> QED
    BY <1>2, <1>3, <1>5, <1>7

LEMMA ResumeTells ==
  ASSUME NEW h, Good(h, <<>>, 0), Telling(h, <<>>), NEW bs, AreBlocks(bs)
  PROVE  Telling(Resume(h, bs), bs) /\ Silent(Resume(h, bs), h)
  <1> DEFINE k == [fold |-> "resume"]
             n == Len(bs)
  <1>1. n \in Nat /\ IsList(bs) /\ DOMAIN bs = 1 .. n
    BY ListIs DEF AreBlocks
  <1>2. PICK g : Steps(g, k, h, bs) /\ Fold(k, h, bs) = g[n]
    BY <1>1, FoldSteps
  <1>3. \A a, b : Op(k, a, b) = EnterScheme(a, 0, b.region)
    BY DEF Op
  <1>4. Resume(h, bs) = g[n]
    BY <1>2, PaintFoldsAre
  <1> HIDE DEF k
  <1> DEFINE P(i) == /\ Good(g[i], SubSeq(bs, 1, i), 0) /\ Telling(g[i], SubSeq(bs, 1, i)) /\ Silent(g[i], h)
             T == {i \in Nat : i <= n => P(i)}
  <1>5. 0 \in T
    <2>1. SubSeq(bs, 1, 0) = <<>> /\ g[0] = h
      BY <1>1, <1>2, PartNone DEF Steps
    <2> QED
      BY <2>1 DEF Silent
  <1>6. ASSUME NEW i \in Nat, i \in T PROVE i + 1 \in T
    <2> SUFFICES ASSUME i + 1 <= n PROVE P(i + 1)
      OBVIOUS
    <2> DEFINE b == bs[i + 1]
               cs == SubSeq(bs, 1, i)
    <2>1. /\ i + 1 \in 1 .. n /\ (i + 1) - 1 = i /\ 0 \in Nat
          /\ Good(g[i], cs, 0) /\ Telling(g[i], cs) /\ Silent(g[i], h)
      BY <1>1, <1>6
    <2>2. g[i + 1] = EnterScheme(g[i], 0, b.region) /\ IsBlock(b)
      BY <1>1, <1>2, <1>3, <2>1 DEF Steps, AreBlocks
    <2>3. SubSeq(bs, 1, i + 1) = Append(cs, b)
      BY <1>1, <2>1, PartMore
    <2> HIDE DEF b, cs
    <2>4. Good(g[i + 1], Append(cs, b), 0)
      BY <2>1, <2>2, EnterShows
    <2>5. Telling(g[i + 1], Append(cs, b)) /\ Silent(g[i + 1], g[i])
      BY <2>1, <2>2, EnterTells
    <2>6. Silent(g[i + 1], h)
      BY <2>1, <2>5 DEF Silent
    <2> QED
      BY <2>3, <2>4, <2>5, <2>6
  <1>7. Nat \subseteq T
    <2> HIDE DEF T
    <2> QED
      BY <1>5, <1>6, Induction
  <1>8. Telling(g[n], SubSeq(bs, 1, n)) /\ Silent(g[n], h)
    BY <1>1, <1>7
  <1> QED
    BY <1>1, <1>4, <1>8, PartAll

(* What a line tells, symbol by symbol: x of outlines, p of pairs.         *)
AroundSymbol(bs, tokens, i) == At(Before(bs, tokens, i), tokens[i])
RegionOfSymbol(bs, tokens, i) == RegionOf(Before(bs, tokens, i), tokens[i])
PieceOfSymbol(h, bs, tokens, i) ==
  PieceAs(h.mapper, h.special, AroundSymbol(bs, tokens, i), RegionOfSymbol(bs, tokens, i), i - 1)

Tale(h, bs, tokens, x, p) ==
  /\ x[0] = [outline |-> <<>>, started |-> {}] /\ p[0] = <<>>
  /\ \A i \in 1 .. Len(tokens) :
       /\ x[i] = Notes(x[i - 1], h.marks, i - 1, Len(AroundSymbol(bs, tokens, i)), RegionOfSymbol(bs, tokens, i))
       /\ p[i] = Paired(p[i - 1], h.marks, PieceOfSymbol(h, bs, tokens, i))

LineTale(h, bs, tokens, s, x, p) ==
  /\ Tale(h, bs, tokens, x, p) /\ s.h.marks = h.marks /\ IsList(s.h.line)
  /\ s.h.mapper.defines = h.mapper.defines /\ s.h.special = h.special
  /\ x[Len(tokens)] = Heard(s.h) /\ p[Len(tokens)] = PairsIn(h.marks, s.h.line)

LEMMA PieceAsSame ==
  ASSUME NEW m, NEW l, m.defines = l.defines, NEW special, NEW on, AreBlocks(on), NEW r, NEW n
  PROVE  PieceAs(m, special, on, r, n) = PieceAs(l, special, on, r, n)
  <1>1. Around(m, on) = Around(l, on)
    BY AroundSame
  <1>2. \A outer : Says0(m, r, outer) = Says0(l, r, outer)
    BY SameDefines
  <1> QED
    BY <1>1, <1>2 DEF PieceAs

LEMMA AtBlocks ==
  ASSUME NEW bs, AreBlocks(bs), NEW token, IsToken(token)
  PROVE  AreBlocks(At(bs, token))
  <1>1. CASE token.kind = "open" /\ ~token.block.inner
    BY <1>1, BlocksMore DEF At, IsToken
  <1>2. CASE token.kind = "close" /\ bs # <<>> /\ Last(bs).inner
    BY <1>2, BlocksLess DEF At
  <1> QED
    BY <1>1, <1>2 DEF At

LEMMA LineTells ==
  ASSUME NEW h, Ready(h), h.outline = <<>>, NEW bs, AreBlocks(bs), NEW tokens, AreTokens(tokens)
  PROVE  \E x, p : LineTale(h, bs, tokens, ScanOf(h, bs, tokens), x, p)
  <1> DEFINE n == Len(tokens)
             c == ClearLine(StartParsing(h))
             ms == h.marks
  <1>1. PICK g, f : LineRun(h, bs, tokens, g, f)
    BY LineSteps
  <1>2. n \in Nat /\ DOMAIN tokens = 1 .. n
    BY ListIs DEF AreTokens
  <1>3. Good(c, <<>>, 0) /\ Painted(c, h, 0)
    BY LineStarts
  <1>4. /\ c.level = 0 /\ c.marks = ms /\ c.outline = <<>> /\ c.started = {}
        /\ PairsIn(ms, c.line) = <<>>
    BY StartTells DEF Ready
  <1> HIDE DEF c
  <1>5. Telling(c, <<>>)
    BY <1>4, EmptyList DEF Telling
  <1>6. Telling(Resume(c, bs), bs) /\ Silent(Resume(c, bs), c)
    BY <1>3, <1>5, ResumeTells
  <1>7. g[0].h = Resume(c, bs) /\ g[0].open = bs
    BY <1>1 DEF LineRun, c
  <1>8. Telling(g[0].h, g[0].open) /\ g[0].h.marks = ms
    BY <1>4, <1>6, <1>7 DEF Silent
  <1>9. Heard(g[0].h) = [outline |-> <<>>, started |-> {}] /\ PairsIn(ms, g[0].h.line) = <<>>
    BY <1>4, <1>6, <1>7 DEF Silent, Heard
  <1>10. \A i \in 0 .. n : LineAt(h, tokens, g, f, i)
    BY <1>1 DEF LineRun
  <1> DEFINE Here(i) == Telling(g[i].h, g[i].open) /\ g[i].h.marks = ms
             Next0(i) == Told(g[i].h, g[i - 1].h, h.mapper, AroundSymbol(bs, tokens, i), i - 1,
                              RegionOfSymbol(bs, tokens, i))
             T == {i \in Nat : i <= n => Here(i)}
  <1>11. ASSUME NEW i \in Nat, i + 1 <= n, Here(i) PROVE Here(i + 1) /\ Next0(i + 1)
    <2> DEFINE token == tokens[i + 1]
               s == g[i]
               r == g[i + 1]
               on == AroundSymbol(bs, tokens, i + 1)
               region == RegionOfSymbol(bs, tokens, i + 1)
    <2>1. i + 1 \in 1 .. n /\ (i + 1) - 1 = i /\ i \in 0 .. n
      BY <1>2, <1>11
    <2>2. r = Scan(s, i + 1, token) /\ Before(bs, tokens, i + 1) = f[i] /\ IsToken(token)
      BY <1>1, <1>2, <2>1 DEF LineRun, AreTokens
    <2>3. LineAt(h, tokens, g, f, i)
      BY <1>10, <2>1
    <2>4. IsState(s) /\ Good(s.h, s.open, i) /\ Painted(s.h, h, 0) /\ s.open = f[i] /\ AreBlocks(f[i])
      BY <2>3 DEF LineAt
    <2>5. Telling(s.h, s.open) /\ s.h.marks = ms
      BY <1>11
    <2>6. on = At(s.open, token) /\ region = RegionOf(s.open, token)
      BY <2>2, <2>4 DEF AroundSymbol, RegionOfSymbol
    <2>7. AreBlocks(on)
      BY <2>2, <2>4, <2>6, AtBlocks
    <2> HIDE DEF token, s, r, on, region
    <2>8. ScanTold(r, s, i, token)
      BY <2>2, <2>4, <2>5, ScanTells
    <2>9. Telling(r.h, r.open) /\ Told(r.h, s.h, s.h.mapper, on, i, region)
      BY <2>6, <2>8 DEF ScanTold
    <2>10. s.h.mapper.defines = h.mapper.defines
      BY <2>4 DEF Painted
    <2>11. PieceAs(s.h.mapper, s.h.special, on, region, i) = PieceAs(h.mapper, s.h.special, on, region, i)
      BY <2>7, <2>10, PieceAsSame
    <2>12. Told(r.h, s.h, h.mapper, on, i, region)
      BY <2>9, <2>11 DEF Told
    <2>13. r.h.marks = ms
      BY <2>5, <2>9 DEF Told
    <2> QED
      BY <2>1, <2>9, <2>12, <2>13 DEF r, s, on, region
  <1> HIDE DEF Next0
  <1>12. \A i \in 0 .. n : Here(i)
    <2>1. 0 \in T
      BY <1>8
    <2>2. ASSUME NEW i \in Nat, i \in T PROVE i + 1 \in T
      <3> SUFFICES ASSUME i + 1 <= n PROVE Here(i + 1)
        OBVIOUS
      <3>1. Here(i)
        BY <1>2, <2>2
      <3> HIDE DEF Here
      <3> QED
        BY <1>11, <3>1
    <2>3. Nat \subseteq T
      <3> HIDE DEF T
      <3> QED
        BY <2>1, <2>2, Induction
    <2> QED
      BY <1>2, <2>3
  <1>13. ASSUME NEW i \in 1 .. n PROVE Next0(i)
    <2> DEFINE j == i - 1
    <2>1. j \in Nat /\ j + 1 <= n /\ j \in 0 .. n /\ j + 1 = i
      BY <1>2
    <2> HIDE DEF j
    <2>2. Here(j)
      BY <1>12, <2>1
    <2> HIDE DEF Here
    <2>3. Next0(j + 1)
      BY <1>11, <2>1, <2>2
    <2> QED
      BY <2>1, <2>3
  <1> DEFINE x == [i \in 0 .. n |-> Heard(g[i].h)]
             p == [i \in 0 .. n |-> PairsIn(ms, g[i].h.line)]
  <1>14. /\ 0 \in 0 .. n /\ n \in 0 .. n
         /\ \A i \in 1 .. n : i \in 0 .. n /\ i - 1 \in 0 .. n
    BY <1>2
  <1>15. x[0] = Heard(g[0].h) /\ p[0] = PairsIn(ms, g[0].h.line)
    BY <1>14
  <1>16. x[n] = Heard(g[n].h) /\ p[n] = PairsIn(ms, g[n].h.line)
    BY <1>14
  <1>17. ASSUME NEW i \in 1 .. n
         PROVE  /\ x[i] = Notes(x[i - 1], ms, i - 1, Len(AroundSymbol(bs, tokens, i)), RegionOfSymbol(bs, tokens, i))
                /\ p[i] = Paired(p[i - 1], ms, PieceOfSymbol(h, bs, tokens, i))
    <2>1. /\ x[i] = Heard(g[i].h) /\ x[i - 1] = Heard(g[i - 1].h)
          /\ p[i] = PairsIn(ms, g[i].h.line) /\ p[i - 1] = PairsIn(ms, g[i - 1].h.line)
      BY <1>14
    <2> HIDE DEF x, p
    <2>2. Next0(i)
      BY <1>13
    <2>3. g[i - 1].h.marks = ms
      BY <1>12, <1>14
    <2>4. g[i - 1].h.special = h.special
      <3>1. LineAt(h, tokens, g, f, i - 1)
        BY <1>10, <1>14
      <3> QED
        BY <3>1 DEF LineAt, Painted
    <2> QED
      BY <2>1, <2>2, <2>3, <2>4 DEF Next0, Told, PieceOfSymbol
  <1> HIDE DEF x, p
  <1>18. Tale(h, bs, tokens, x, p)
    BY <1>9, <1>15, <1>17 DEF Tale
  <1>19. LineAt(h, tokens, g, f, n) /\ Here(n)
    BY <1>10, <1>12, <1>14
  <1>20. /\ g[n].h.marks = ms /\ IsList(g[n].h.line) /\ g[n].h.special = h.special
         /\ g[n].h.mapper.defines = h.mapper.defines
    BY <1>19 DEF LineAt, Painted, Good, Pieces
  <1>21. ScanOf(h, bs, tokens) = g[n]
    BY <1>1 DEF LineRun
  <1>22. LineTale(h, bs, tokens, ScanOf(h, bs, tokens), x, p)
    BY <1>16, <1>18, <1>20, <1>21 DEF LineTale
  <1> QED
    BY <1>22

(* The symbols that hit.                                                   *)
HitRun(c, hit, n) ==
  c[0] = <<>> /\ \A i \in 1 .. n : c[i] = IF hit[i] THEN Append(c[i - 1], i) ELSE c[i - 1]

HitsOf(hit) == Fold([fold |-> "matches", hit |-> hit], <<>>, Numbers(hit))

LEMMA NumbersAre ==
  ASSUME NEW n \in Nat, NEW hit, DOMAIN hit = 1 .. n
  PROVE  IsList(Numbers(hit)) /\ Len(Numbers(hit)) = n /\ \A i \in 1 .. n : Numbers(hit)[i] = i
  <1> DEFINE s == Numbers(hit)
  <1>1. s = [i \in 1 .. n |-> s[i]] /\ \A i \in 1 .. n : s[i] = i
    BY DEF Numbers
  <1> HIDE DEF s
  <1> QED
    BY <1>1, ListOf DEF s

LEMMA HitSteps ==
  ASSUME NEW n \in Nat, NEW hit, DOMAIN hit = 1 .. n
  PROVE  \E c : HitRun(c, hit, n) /\ HitsOf(hit) = c[n]
  <1> DEFINE k == [fold |-> "matches", hit |-> hit]
             s == Numbers(hit)
  <1>1. IsList(s) /\ Len(s) = n /\ \A i \in 1 .. n : s[i] = i
    BY NumbersAre
  <1> HIDE DEF s
  <1>2. PICK c : Steps(c, k, <<>>, s) /\ Fold(k, <<>>, s) = c[n]
    BY <1>1, FoldSteps
  <1>3. \A a, i : Op(k, a, i) = IF hit[i] THEN Append(a, i) ELSE a
    BY TellOps
  <1> HIDE DEF k
  <1>4. HitRun(c, hit, n)
    <2>1. c[0] = <<>>
      BY <1>2 DEF Steps
    <2>2. ASSUME NEW i \in 1 .. n
          PROVE  c[i] = IF hit[i] THEN Append(c[i - 1], i) ELSE c[i - 1]
      <3>1. i \in 1 .. Len(s) /\ s[i] = i
        BY <1>1
      <3>2. c[i] = Op(k, c[i - 1], s[i])
        BY <1>2, <3>1 DEF Steps
      <3>3. Op(k, c[i - 1], i) = IF hit[i] THEN Append(c[i - 1], i) ELSE c[i - 1]
        BY <1>3
      <3> QED
        BY <3>1, <3>2, <3>3
    <2> QED
      BY <2>1, <2>2 DEF HitRun
  <1> QED
    BY <1>2, <1>4 DEF HitsOf, k, s

AreHits(at, n) == IsList(at) /\ \A y \in 1 .. Len(at) : at[y] \in 1 .. n

(* Each pair is one of a symbol that hits.                                 *)
PairRun(p, marks, piece, n) ==
  p[0] = <<>> /\ \A i \in 1 .. n : p[i] = Paired(p[i - 1], marks, piece[i])

PairsHit(marks, piece, hit, n) ==
  \A i \in 1 .. n : IsPair([marks |-> marks], piece[i]) <=> hit[i]

Listed(ps, at, piece) ==
  IsList(ps) /\ Len(ps) = Len(at) /\ \A y \in 1 .. Len(at) : ps[y] = piece[at[y]]

LEMMA PairsListed ==
  ASSUME NEW n \in Nat, NEW c, NEW hit, HitRun(c, hit, n), NEW p, NEW marks, NEW piece,
         PairRun(p, marks, piece, n), PairsHit(marks, piece, hit, n)
  PROVE  AreHits(c[n], n) /\ Listed(p[n], c[n], piece)
  <1> DEFINE P(i) == AreHits(c[i], i) /\ Listed(p[i], c[i], piece)
             T == {i \in Nat : i <= n => P(i)}
  <1>1. 0 \in T
    <2>1. P(0)
      <3>1. c[0] = <<>> /\ p[0] = <<>>
        BY DEF HitRun, PairRun
      <3> QED
        BY <3>1, EmptyList DEF AreHits, Listed
    <2> QED
      BY <2>1
  <1>2. ASSUME NEW i \in Nat, i \in T PROVE i + 1 \in T
    <2> SUFFICES ASSUME i + 1 <= n PROVE P(i + 1)
      OBVIOUS
    <2> DEFINE a == c[i]
               q == p[i]
               x == piece[i + 1]
               l == Len(a)
    <2>1. i + 1 \in 1 .. n /\ (i + 1) - 1 = i /\ AreHits(a, i) /\ Listed(q, a, piece)
      BY <1>2
    <2>2. /\ c[i + 1] = IF hit[i + 1] THEN Append(a, i + 1) ELSE a
          /\ p[i + 1] = IF hit[i + 1] THEN Append(q, x) ELSE q
      BY <2>1 DEF HitRun, PairRun, PairsHit, Paired
    <2> HIDE DEF a, q, x
    <2>3. IsList(a) /\ l \in Nat /\ \A y \in 1 .. l : a[y] \in 1 .. i
      BY <2>1, ListIs DEF AreHits
    <2>4. IsList(q) /\ Len(q) = l /\ \A y \in 1 .. l : q[y] = piece[a[y]]
      BY <2>1 DEF Listed
    <2>5. CASE ~hit[i + 1]
      <3>1. \A y \in 1 .. l : a[y] \in 1 .. i + 1
        BY <2>3
      <3> QED
        BY <2>2, <2>3, <2>4, <2>5, <3>1 DEF AreHits, Listed
    <2>6. CASE hit[i + 1]
      <3> DEFINE b == Append(a, i + 1)
                 r == Append(q, x)
      <3>1. IsList(b) /\ Len(b) = l + 1 /\ b[l + 1] = i + 1 /\ \A y \in 1 .. l : b[y] = a[y]
        BY <2>3, ListMore
      <3>2. IsList(r) /\ Len(r) = l + 1 /\ r[l + 1] = x /\ \A y \in 1 .. l : r[y] = q[y]
        BY <2>4, ListMore
      <3> HIDE DEF b, r
      <3>3. \A y \in 1 .. l + 1 : y \in 1 .. l \/ y = l + 1
        BY <2>3
      <3>4. \A y \in 1 .. l + 1 : b[y] \in 1 .. i + 1
        BY <2>3, <3>1, <3>3
      <3>5. \A y \in 1 .. l + 1 : r[y] = piece[b[y]]
        BY <2>4, <3>1, <3>2, <3>3 DEF x
      <3>6. c[i + 1] = b /\ p[i + 1] = r
        BY <2>2, <2>6 DEF b, r
      <3> QED
        BY <3>1, <3>2, <3>4, <3>5, <3>6 DEF AreHits, Listed
    <2> QED
      BY <2>5, <2>6
  <1>3. Nat \subseteq T
    <2> HIDE DEF T
    <2> QED
      BY <1>1, <1>2, Induction
  <1> QED
    BY <1>3

-----------------------------------------------------------------------------
(* The items of an outline. *)

PartAt(j) == [start |-> j - 1, end |-> j]
SpansAt(at) == [i \in DOMAIN at |-> PartAt(at[i])]

(* The item of a kind, by the symbols that hit.                            *)
ItemAt(kind, at, region, level) ==
  [kind |-> kind, region |-> region[at[1]], start |-> at[1] - 1, level |-> level[at[1]],
   spans |-> SpansAt(at)]

ItemsIn(x) == Fold([fold |-> "joined"], <<>>, x.outline)

(* What is collected makes one item of a kind, if there is one to make.    *)
Heeds(x, kind, at, region, level) ==
  LET items == ItemsIn(x)
  IN  /\ IsHeard(x) /\ IsList(items) /\ IsList(at)
      /\ kind \in x.started <=> at # <<>>
      /\ \A y \in DOMAIN items :
           items[y].kind = kind => at # <<>> /\ items[y] = ItemAt(kind, at, region, level)
      /\ at # <<>> => \E y \in DOMAIN items : items[y].kind = kind
      /\ \A y, z \in DOMAIN items : items[y].kind = kind /\ items[z].kind = kind => y = z

LEMMA NotEmpty ==
  ASSUME NEW s, IsList(s)
  PROVE  s # <<>> <=> Len(s) # 0
  <1>1. ASSUME Len(s) = 0 PROVE s = <<>>
    BY <1>1, EmptyList, ListIs, ListSame
  <1> QED
    BY <1>1, EmptyList

LEMMA ItemMore ==
  ASSUME NEW kind, NEW at, IsList(at), NEW j, NEW region, NEW level
  PROVE  /\ IsList(Append(at, j)) /\ Append(at, j) # <<>>
         /\ SpansAt(Append(at, j)) = Append(SpansAt(at), PartAt(j))
         /\ at # <<>> => Append(at, j)[1] = at[1]
         /\ at = <<>> => Append(at, j)[1] = j /\ SpansAt(Append(at, j)) = <<PartAt(j)>>
  <1> DEFINE n == Len(at)
             w == Append(at, j)
             a == SpansAt(at)
             b == SpansAt(w)
             c == Append(a, PartAt(j))
  <1>1. n \in Nat /\ DOMAIN at = 1 .. n
    BY ListIs
  <1>2. IsList(w) /\ Len(w) = n + 1 /\ w[n + 1] = j /\ \A i \in 1 .. n : w[i] = at[i]
    BY ListMore
  <1> HIDE DEF w
  <1>3. w # <<>>
    BY <1>1, <1>2, NotEmpty
  <1>4. DOMAIN w = 1 .. n + 1
    BY <1>2, ListIs
  <1>5. /\ a = [i \in 1 .. n |-> a[i]] /\ \A i \in 1 .. n : a[i] = PartAt(at[i])
        /\ b = [i \in 1 .. n + 1 |-> b[i]] /\ \A i \in 1 .. n + 1 : b[i] = PartAt(w[i])
    BY <1>1, <1>4 DEF SpansAt
  <1> HIDE DEF a, b, n
  <1>6. n + 1 \in Nat
    BY <1>1
  <1>7. IsList(a) /\ Len(a) = n /\ IsList(b) /\ Len(b) = n + 1
    BY <1>1, <1>5, <1>6, ListOf
  <1>8. IsList(c) /\ Len(c) = n + 1 /\ c[n + 1] = PartAt(j) /\ \A i \in 1 .. n : c[i] = a[i]
    BY <1>7, ListMore
  <1> HIDE DEF c
  <1>9. ASSUME NEW i \in 1 .. n + 1 PROVE b[i] = c[i]
    <2>1. i \in 1 .. n \/ i = n + 1
      BY <1>1
    <2> QED
      BY <1>2, <1>5, <1>8, <2>1
  <1>10. b = c
    BY <1>7, <1>8, <1>9, ListSame
  <1>11. ASSUME at # <<>> PROVE w[1] = at[1]
    <2>1. 1 \in 1 .. n
      BY <1>1, <1>11, NotEmpty DEF n
    <2> QED
      BY <1>2, <2>1
  <1>12. ASSUME at = <<>> PROVE w[1] = j /\ b = <<PartAt(j)>>
    <2>1. n = 0
      BY <1>12, EmptyList DEF n
    <2>2. a = <<>>
      BY <1>7, <2>1, NotEmpty
    <2> QED
      BY <1>2, <1>10, <2>1, <2>2 DEF c
  <1> QED
    BY <1>2, <1>3, <1>10, <1>11, <1>12 DEF w, a, b, c

LEMMA ItemsMore ==
  ASSUME NEW x, IsHeard(x), NEW note
  PROVE  Fold([fold |-> "joined"], <<>>, Append(x.outline, note)) = Joined(ItemsIn(x), note)
  <1> DEFINE k == [fold |-> "joined"]
             out == x.outline
  <1>1. \A a, b : Op(k, a, b) = Joined(a, b)
    BY TellOps
  <1>2. IsList(out)
    BY DEF IsHeard
  <1> HIDE DEF k, out
  <1>3. Fold(k, <<>>, Append(out, note)) = Op(k, Fold(k, <<>>, out), note)
    BY <1>2, FoldMore
  <1> QED
    BY <1>1, <1>3 DEF ItemsIn, k, out

(* What a span makes of the items: one more, or one more part of an item   *)
(* of its kind.                                                            *)
SpanPart(span) == [start |-> span.start, end |-> span.end]
SpanItem(span) ==
  [kind |-> span.kind, region |-> span.name, start |-> span.start,
   level |-> span.level, spans |-> <<SpanPart(span)>>]

Lengthens(b, items, m, part) ==
  /\ IsList(b) /\ Len(b) = Len(items) /\ \A y \in 1 .. Len(items) : y # m => b[y] = items[y]
  /\ b[m] = [items[m] EXCEPT !.spans = Append(@, part)]

LEMMA JoinedNew ==
  ASSUME NEW items, NEW span, span.starts \/ \A y \in DOMAIN items : items[y].kind # span.kind
  PROVE  Joined(items, span) = Append(items, SpanItem(span))
  BY DEF Joined, SpanItem, SpanPart

LEMMA JoinedOld ==
  ASSUME NEW items, IsList(items), NEW span, ~span.starts,
         NEW z \in DOMAIN items, items[z].kind = span.kind
  PROVE  \E m \in DOMAIN items : items[m].kind = span.kind /\ Lengthens(Joined(items, span), items, m, SpanPart(span))
  <1> DEFINE n == Len(items)
             mine == {i \in DOMAIN items : items[i].kind = span.kind}
             m == Max(mine)
             b == Joined(items, span)
  <1>1. n \in Nat /\ DOMAIN items = 1 .. n
    BY ListIs
  <1>2. mine \in SUBSET (1 .. n) /\ mine # {}
    BY <1>1
  <1>3. m \in mine
    <2> HIDE DEF mine
    <2> QED
      BY <1>1, <1>2, Greatest
  <1>4. b = [items EXCEPT ![m].spans = Append(@, SpanPart(span))]
    BY <1>2 DEF Joined, SpanPart
  <1>5. m \in 1 .. n /\ items[m].kind = span.kind
    BY <1>1, <1>3
  <1> HIDE DEF m, mine
  <1>6. items = [i \in 1 .. n |-> items[i]]
    BY ListFcn
  <1>7. /\ b = [i \in 1 .. n |-> b[i]] /\ \A y \in 1 .. n : y # m => b[y] = items[y]
        /\ b[m] = [items[m] EXCEPT !.spans = Append(@, SpanPart(span))]
    <2> HIDE DEF b, n
    <2>1. b = [i \in 1 .. n |-> IF i = m THEN [items[m] EXCEPT !.spans = Append(@, SpanPart(span))] ELSE items[i]]
      BY <1>4, <1>5, <1>6
    <2> QED
      BY <1>5, <2>1
  <1> HIDE DEF b, n
  <1>8. IsList(b) /\ Len(b) = n
    BY <1>1, <1>7, ListOf
  <1>9. Lengthens(b, items, m, SpanPart(span))
    BY <1>7, <1>8 DEF Lengthens, n
  <1> QED
    BY <1>1, <1>5, <1>9 DEF b

-----------------------------------------------------------------------------
(* One more match of a kind, or of another. *)

LEMMA NotedIs ==
  ASSUME NEW x, IsHeard(x), NEW marks, NEW kind, NEW n, NEW lv, NEW r, HasParent(r, marks[kind]),
         NEW w, w = Noted(x, marks, kind, n, lv, r)
  PROVE  IsHeard(w) /\ w.started = x.started \cup {kind} /\ ItemsIn(w) = Joined(ItemsIn(x), Note(x, kind, n, lv, r))
  <1> DEFINE note == Note(x, kind, n, lv, r)
             out == x.outline
  <1>1. w = [outline |-> Append(out, note), started |-> x.started \cup {kind}]
    BY DEF Noted
  <1>2. IsList(out)
    BY DEF IsHeard
  <1> HIDE DEF note
  <1>3. IsList(Append(out, note))
    <2> HIDE DEF out
    <2> QED
      BY <1>2, ListMore
  <1>4. w.outline = Append(out, note) /\ w.started = x.started \cup {kind}
    BY <1>1
  <1>5. IsHeard(w)
    BY <1>1, <1>3, <1>4 DEF IsHeard
  <1>6. ItemsIn(w) = Joined(ItemsIn(x), note)
    BY <1>4, ItemsMore DEF ItemsIn
  <1> QED
    BY <1>4, <1>5, <1>6 DEF note

LEMMA NoteOwn ==
  ASSUME NEW x, NEW kind, NEW at, NEW region, NEW level, Heeds(x, kind, at, region, level),
         NEW marks, NEW n \in Nat, NEW lv, NEW r, region[n + 1] = r, level[n + 1] = lv
  PROVE  Heeds(Noted(x, marks, kind, n, lv, r), kind,
               IF HasParent(r, marks[kind]) THEN Append(at, n + 1) ELSE at, region, level)
  <1> DEFINE w == Noted(x, marks, kind, n, lv, r)
             note == Note(x, kind, n, lv, r)
             items == ItemsIn(x)
             l == Len(items)
             b == ItemsIn(w)
             now == Append(at, n + 1)
             part == PartAt(n + 1)
  <1>1. CASE ~HasParent(r, marks[kind])
    BY <1>1 DEF Noted
  <1>2. CASE HasParent(r, marks[kind])
    <2>1. IsHeard(x) /\ IsList(at) /\ IsList(items) /\ (kind \in x.started <=> at # <<>>)
      BY DEF Heeds
    <2>2. IsHeard(w) /\ w.started = x.started \cup {kind} /\ b = Joined(items, note)
      BY <1>2, <2>1, NotedIs
    <2>3. l \in Nat /\ DOMAIN items = 1 .. l
      BY <2>1, ListIs
    <2>4. /\ IsList(now) /\ now # <<>> /\ SpansAt(now) = Append(SpansAt(at), part)
          /\ at # <<>> => now[1] = at[1]
          /\ at = <<>> => now[1] = n + 1 /\ SpansAt(now) = <<part>>
      BY <2>1, ItemMore
    <2>5. (n + 1) - 1 = n
      OBVIOUS
    <2>6. /\ note.kind = kind /\ note.name = r /\ note.start = n /\ note.level = lv
          /\ SpanPart(note) = part /\ (note.starts <=> at = <<>>)
      BY <2>1, <2>5 DEF Note, SpanPart, PartAt
    <2>7. SpanItem(note) = [kind |-> kind, region |-> r, start |-> n, level |-> lv, spans |-> <<part>>]
      BY <2>6 DEF SpanItem
    <2>8. /\ \A y \in 1 .. l : items[y].kind = kind => at # <<>> /\ items[y] = ItemAt(kind, at, region, level)
          /\ at # <<>> => \E y \in 1 .. l : items[y].kind = kind
          /\ \A y, z \in 1 .. l : items[y].kind = kind /\ items[z].kind = kind => y = z
      BY <2>3 DEF Heeds
    <2> DEFINE item == ItemAt(kind, now, region, level)
    <2>9. item = [kind |-> kind, region |-> region[now[1]], start |-> now[1] - 1, level |-> level[now[1]],
                  spans |-> SpansAt(now)]
      BY DEF ItemAt
    <2>10. item.kind = kind
      BY <2>9
    <2> DEFINE Only(m) ==
          /\ IsList(b) /\ m \in DOMAIN b /\ b[m] = item /\ \A y \in DOMAIN b : b[y].kind = kind => y = m
    <2>11. ASSUME NEW m, Only(m) PROVE Heeds(w, kind, now, region, level)
      <3> HIDE DEF item, b, w, now
      <3> QED
        BY <2>2, <2>4, <2>10, <2>11 DEF Heeds, b, item
    <2> HIDE DEF w, note, items, now, part
    <2>12. CASE at = <<>>
      <3>1. b = Append(items, SpanItem(note))
        BY <2>2, <2>6, <2>12, JoinedNew
      <3>2. SpanItem(note) = item
        BY <2>4, <2>5, <2>7, <2>9, <2>12
      <3> HIDE DEF item, l
      <3>3. /\ IsList(b) /\ Len(b) = l + 1 /\ b[l + 1] = item /\ \A y \in 1 .. l : b[y] = items[y]
        BY <2>1, <3>1, <3>2, ListMore DEF l
      <3> HIDE DEF b
      <3>4. DOMAIN b = 1 .. l + 1
        BY <3>3, ListIs
      <3>5. \A y \in 1 .. l + 1 : y \in 1 .. l \/ y = l + 1
        BY <2>3
      <3>6. Only(l + 1)
        BY <2>3, <2>8, <2>12, <3>3, <3>4, <3>5
      <3> QED
        BY <1>2, <2>11, <3>6 DEF w, now
    <2>13. CASE at # <<>>
      <3>1. PICK z \in 1 .. l : items[z].kind = kind
        BY <2>8, <2>13
      <3>2. PICK m \in DOMAIN items : items[m].kind = kind /\ Lengthens(b, items, m, part)
        <4>1. \E m \in DOMAIN items :
                items[m].kind = note.kind /\ Lengthens(Joined(items, note), items, m, SpanPart(note))
          BY <2>1, <2>3, <2>6, <2>13, <3>1, JoinedOld
        <4> QED
          BY <2>2, <2>6, <4>1
      <3>3. m \in 1 .. l /\ items[m] = ItemAt(kind, at, region, level)
        BY <2>3, <2>8, <3>2
      <3>4. b[m] = item
        <4>1. b[m] = [items[m] EXCEPT !.spans = Append(@, part)]
          BY <3>2 DEF Lengthens
        <4> HIDE DEF b, item
        <4>2. b[m] = [kind |-> kind, region |-> region[at[1]], start |-> at[1] - 1, level |-> level[at[1]],
                      spans |-> Append(SpansAt(at), part)]
          BY <3>3, <4>1 DEF ItemAt
        <4> QED
          BY <2>4, <2>9, <2>13, <4>2
      <3>5. IsList(b) /\ Len(b) = l /\ \A y \in 1 .. l : y # m => b[y] = items[y]
        BY <3>2 DEF Lengthens
      <3> HIDE DEF b, item, l
      <3>6. DOMAIN b = 1 .. l
        BY <3>5, ListIs
      <3>7. \A y \in 1 .. l : b[y].kind = kind => y = m
        BY <2>8, <3>2, <3>3, <3>5
      <3>8. Only(m)
        BY <3>3, <3>4, <3>5, <3>6, <3>7
      <3> QED
        BY <1>2, <2>11, <3>8 DEF w, now
    <2> QED
      BY <2>12, <2>13
  <1> QED
    BY <1>1, <1>2

(* What a match of a kind leaves alone.                                    *)
Spares(w, x, kind) ==
  LET items == ItemsIn(x)
      b == ItemsIn(w)
  IN  /\ IsHeard(w) /\ IsList(b) /\ \A k : k # kind => (k \in w.started <=> k \in x.started)
      /\ \A y \in DOMAIN b : b[y].kind = kind \/ (y \in DOMAIN items /\ b[y] = items[y])
      /\ \A y \in DOMAIN items : items[y].kind # kind => y \in DOMAIN b /\ b[y] = items[y]

LEMMA NoteSpares ==
  ASSUME NEW x, NEW kind, NEW at, NEW region, NEW level, Heeds(x, kind, at, region, level),
         NEW marks, NEW n, NEW lv, NEW r
  PROVE  Spares(Noted(x, marks, kind, n, lv, r), x, kind)
  <1> DEFINE w == Noted(x, marks, kind, n, lv, r)
             note == Note(x, kind, n, lv, r)
             items == ItemsIn(x)
             l == Len(items)
             b == ItemsIn(w)
  <1>1. IsHeard(x) /\ IsList(items) /\ (kind \in x.started <=> at # <<>>)
    BY DEF Heeds
  <1>2. CASE ~HasParent(r, marks[kind])
    BY <1>1, <1>2 DEF Noted, Spares
  <1>3. CASE HasParent(r, marks[kind])
    <2>1. IsHeard(w) /\ w.started = x.started \cup {kind} /\ b = Joined(items, note)
      BY <1>1, <1>3, NotedIs
    <2>2. l \in Nat /\ DOMAIN items = 1 .. l
      BY <1>1, ListIs
    <2>3. note.kind = kind /\ (note.starts <=> at = <<>>)
      BY <1>1 DEF Note
    <2>4. \A y \in 1 .. l : items[y].kind = kind => items[y] = ItemAt(kind, at, region, level)
      BY <2>2 DEF Heeds
    <2>5. at # <<>> => \E y \in 1 .. l : items[y].kind = kind
      BY <2>2 DEF Heeds
    <2> HIDE DEF w, note, items
    <2> DEFINE Now(m) == /\ IsList(b) /\ b[m].kind = kind
                         /\ \A y \in DOMAIN b : y = m \/ (y \in 1 .. l /\ b[y] = items[y])
                         /\ \A y \in 1 .. l : y # m \/ items[m].kind = kind
                         /\ \A y \in 1 .. l : y \in DOMAIN b /\ (y # m => b[y] = items[y])
    <2>6. ASSUME NEW m, Now(m) PROVE Spares(w, x, kind)
      <3> HIDE DEF b, l
      <3> QED
        BY <2>1, <2>2, <2>6 DEF Spares, b, items
    <2>7. CASE at = <<>>
      <3>1. b = Append(items, SpanItem(note))
        BY <2>1, <2>3, <2>7, JoinedNew
      <3>2. SpanItem(note).kind = kind
        BY <2>3 DEF SpanItem
      <3> DEFINE item == SpanItem(note)
      <3> HIDE DEF item, l
      <3>3. /\ IsList(b) /\ Len(b) = l + 1 /\ b[l + 1] = item /\ \A y \in 1 .. l : b[y] = items[y]
        BY <1>1, <3>1, ListMore DEF l, item, items
      <3> HIDE DEF b
      <3>4. DOMAIN b = 1 .. l + 1
        BY <3>3, ListIs
      <3>5. (\A y \in 1 .. l + 1 : y \in 1 .. l \/ y = l + 1) /\ \A y \in 1 .. l : y # l + 1 /\ y \in 1 .. l + 1
        BY <2>2
      <3>6. Now(l + 1)
        BY <3>2, <3>3, <3>4, <3>5 DEF item
      <3> QED
        BY <2>6, <3>6 DEF w
    <2>8. CASE at # <<>>
      <3>1. PICK z \in 1 .. l : items[z].kind = kind
        BY <2>5, <2>8
      <3>2. \E m \in DOMAIN items :
              items[m].kind = note.kind /\ Lengthens(Joined(items, note), items, m, SpanPart(note))
        BY <1>1, <2>2, <2>3, <2>8, <3>1, JoinedOld DEF items
      <3>3. PICK m \in 1 .. l : items[m].kind = kind /\ Lengthens(b, items, m, SpanPart(note))
        BY <2>1, <2>2, <2>3, <3>2
      <3> DEFINE part == SpanPart(note)
      <3> HIDE DEF part
      <3>4. b[m].kind = kind
        <4>1. b[m] = [items[m] EXCEPT !.spans = Append(@, part)]
          BY <3>3 DEF Lengthens, part
        <4>2. items[m] = ItemAt(kind, at, region, level)
          BY <2>4, <3>3
        <4> HIDE DEF b
        <4> QED
          BY <4>1, <4>2 DEF ItemAt
      <3>5. IsList(b) /\ Len(b) = l /\ \A y \in 1 .. l : y # m => b[y] = items[y]
        BY <3>3 DEF Lengthens
      <3> HIDE DEF b, l
      <3>6. DOMAIN b = 1 .. l
        BY <3>5, ListIs
      <3>7. Now(m)
        BY <3>3, <3>4, <3>5, <3>6
      <3> QED
        BY <2>6, <3>7 DEF w
    <2> QED
      BY <2>7, <2>8
  <1> QED
    BY <1>2, <1>3

LEMMA NoteOther ==
  ASSUME NEW x, NEW kind, NEW at, NEW region, NEW level, Heeds(x, kind, at, region, level),
         NEW w, NEW other, other # kind, Spares(w, x, other)
  PROVE  Heeds(w, kind, at, region, level)
  <1> DEFINE items == ItemsIn(x)
             b == ItemsIn(w)
  <1>1. /\ IsHeard(w) /\ IsList(b) /\ (kind \in w.started <=> kind \in x.started)
        /\ \A y \in DOMAIN b : b[y].kind = kind => y \in DOMAIN items /\ b[y] = items[y]
        /\ \A y \in DOMAIN items : items[y].kind = kind => y \in DOMAIN b /\ b[y] = items[y]
    BY DEF Spares
  <1>2. /\ IsHeard(x) /\ IsList(at) /\ (kind \in x.started <=> at # <<>>)
        /\ \A y \in DOMAIN items : items[y].kind = kind => at # <<>> /\ items[y] = ItemAt(kind, at, region, level)
        /\ at # <<>> => \E y \in DOMAIN items : items[y].kind = kind
        /\ \A y, z \in DOMAIN items : items[y].kind = kind /\ items[z].kind = kind => y = z
    BY DEF Heeds
  <1> HIDE DEF items, b
  <1>3. \A y \in DOMAIN b : b[y].kind = kind => at # <<>> /\ b[y] = ItemAt(kind, at, region, level)
    BY <1>1, <1>2
  <1>4. at # <<>> => \E y \in DOMAIN b : b[y].kind = kind
    BY <1>1, <1>2
  <1>5. \A y, z \in DOMAIN b : b[y].kind = kind /\ b[z].kind = kind => y = z
    BY <1>1, <1>2
  <1> QED
    BY <1>1, <1>2, <1>3, <1>4, <1>5 DEF Heeds, b

(* The items of a line, of two kinds.                                      *)
Kinds == {"outlined", "error"}
Outlined(x, a, b, region, level) ==
  /\ Heeds(x, "outlined", a, region, level) /\ Heeds(x, "error", b, region, level)
  /\ \A y \in DOMAIN ItemsIn(x) : ItemsIn(x)[y].kind \in Kinds

LEMMA NotesOutlined ==
  ASSUME NEW x, NEW a, NEW b, NEW region, NEW level, Outlined(x, a, b, region, level),
         NEW marks, NEW n \in Nat, NEW lv, NEW r, region[n + 1] = r, level[n + 1] = lv
  PROVE  Outlined(Notes(x, marks, n, lv, r),
                  IF HasParent(r, marks["outlined"]) THEN Append(a, n + 1) ELSE a,
                  IF HasParent(r, marks["error"]) THEN Append(b, n + 1) ELSE b, region, level)
  <1> DEFINE c == IF HasParent(r, marks["outlined"]) THEN Append(a, n + 1) ELSE a
             d == IF HasParent(r, marks["error"]) THEN Append(b, n + 1) ELSE b
             y == Noted(x, marks, "outlined", n, lv, r)
             z == Noted(y, marks, "error", n, lv, r)
  <1>1. Heeds(x, "outlined", a, region, level) /\ Heeds(x, "error", b, region, level)
    BY DEF Outlined
  <1>2. Heeds(y, "outlined", c, region, level) /\ Spares(y, x, "outlined")
    BY <1>1, NoteOwn, NoteSpares
  <1> HIDE DEF y, c
  <1>3. Heeds(y, "error", b, region, level)
    BY <1>1, <1>2, NoteOther
  <1>4. Heeds(z, "error", d, region, level) /\ Spares(z, y, "error")
    BY <1>3, NoteOwn, NoteSpares
  <1> HIDE DEF z, d
  <1>5. Heeds(z, "outlined", c, region, level)
    BY <1>2, <1>4, NoteOther
  <1>6. \A i \in DOMAIN ItemsIn(x) : ItemsIn(x)[i].kind \in Kinds
    BY DEF Outlined
  <1>7. \A i \in DOMAIN ItemsIn(y) : ItemsIn(y)[i].kind \in Kinds
    BY <1>2, <1>6 DEF Spares, Kinds
  <1>8. \A i \in DOMAIN ItemsIn(z) : ItemsIn(z)[i].kind \in Kinds
    BY <1>4, <1>7 DEF Spares, Kinds
  <1>9. Outlined(z, c, d, region, level)
    BY <1>4, <1>5, <1>8 DEF Outlined
  <1> QED
    BY <1>9 DEF y, z, c, d, Notes

-----------------------------------------------------------------------------
(* What the marks say of the regions of a grammar. *)

LEMMA OfMaybe ==
  ASSUME NEW bs, AreBlocks(bs), NEW token, IsToken(token)
  PROVE  RegionOf(bs, token) \in Maybe
  <1>1. NoRegion \in Maybe
    BY DEF Maybe
  <1>2. CASE token.kind = "close" /\ bs # <<>>
    <2>1. IsList(bs) /\ Len(bs) # 0
      BY <1>2, NotEmpty DEF AreBlocks
    <2>2. Last(bs) = bs[Len(bs)] /\ Len(bs) \in DOMAIN bs
      BY <2>1, LastIs, ListIs
    <2>3. Last(bs).last \in Maybe
      BY <2>2 DEF AreBlocks, IsBlock
    <2> QED
      BY <1>2, <2>3 DEF RegionOf
  <1>3. CASE ~(token.kind = "close" /\ bs # <<>>)
    BY <1>1, <1>3 DEF RegionOf, IsToken, IsBlock
  <1> QED
    BY <1>2, <1>3

(* What marks recognise is what is derived from the regions they name.     *)
MarksOf(marks, kind, root) == marks[kind] = IF root \in Regions THEN root ELSE NoRegion

LEMMA MarkIs ==
  ASSUME NEW marks, NEW kind, NEW root, MarksOf(marks, kind, root), NEW r \in Maybe
  PROVE  HasParent(r, marks[kind]) <=> HasParent(r, root)
  <1>1. r # NoRegion => Lineage[r] \subseteq Regions
    BY LineageClosed DEF Maybe
  <1>2. NoRegion \notin Regions
    BY RegionsAssumption
  <1> QED
    BY <1>1, <1>2 DEF MarksOf, HasParent

PairMarks(marks) == MarksOf(marks, "start", Starts) /\ MarksOf(marks, "end", Ends)

(* The pieces that are pairs.                                              *)
LEMMA PairRegion ==
  ASSUME NEW marks, PairMarks(marks), NEW r \in Maybe, NEW p, p.region = r,
         p.special <=> HasParent(r, "def:Special")
  PROVE  /\ IsPair([marks |-> marks], p) <=> \E m \in {Starts, Ends} : HasParent(r, m)
         /\ HasParent(r, Starts) <=> PairKind([marks |-> marks], r) = "opens"
  <1>1. HasParent(r, marks["start"]) <=> HasParent(r, Starts)
    BY MarkIs DEF PairMarks
  <1>2. HasParent(r, marks["end"]) <=> HasParent(r, Ends)
    BY MarkIs DEF PairMarks
  <1>3. ASSUME NEW s \in {Starts, Ends}, HasParent(r, s) PROVE HasParent(r, "def:Special")
    <2>1. r \in Regions /\ s \in Lineage[r]
      BY <1>3 DEF HasParent, Maybe
    <2>2. s \in Regions /\ Lineage[s] \subseteq Lineage[r]
      BY <2>1, LineageClosed
    <2>3. "def:Special" \in Lineage[s]
      BY <2>2, PairsAssumption DEF Starts, Ends
    <2> QED
      BY <2>1, <2>2, <2>3, RegionsAssumption DEF HasParent
  <1>4. PairKind([marks |-> marks], r) # "none" <=> HasParent(r, Starts) \/ HasParent(r, Ends)
    BY <1>1, <1>2 DEF PairKind
  <1>5. HasParent(r, Starts) <=> PairKind([marks |-> marks], r) = "opens"
    BY <1>1 DEF PairKind
  <1>6. IsPair([marks |-> marks], p) <=> \E m \in {Starts, Ends} : HasParent(r, m)
    <2>1. IsPair([marks |-> marks], p) <=> (p.special /\ PairKind([marks |-> marks], r) # "none")
      BY DEF IsPair
    <2> QED
      BY <1>3, <1>4, <2>1
  <1> QED
    BY <1>5, <1>6

-----------------------------------------------------------------------------
(* A line's items, by the symbols that hit. *)

OneItem(kind, at, region, level) == IF at = <<>> THEN <<>> ELSE <<ItemAt(kind, at, region, level)>>

LEMMA SetOfTwo ==
  ASSUME NEW a, NEW b, NEW x, NEW y, a = <<>> \/ a = <<x>>, b = <<>> \/ b = <<y>>
  PROVE  \A z : z \in ToSet(a \o b) <=> (a # <<>> /\ z = x) \/ (b # <<>> /\ z = y)
  <1>1. <<>> \o <<>> = <<>> /\ <<x>> \o <<>> = <<x>> /\ <<>> \o <<y>> = <<y>>
    OBVIOUS
  <1>2. <<x>> \o <<y>> = <<x, y>>
    BY TwoAre
  <1>3. <<x>> # <<>> /\ <<y>> # <<>>
    OBVIOUS
  <1>4. ToSet(<<>>) = {} /\ ToSet(<<x>>) = {x} /\ ToSet(<<y>>) = {y} /\ ToSet(<<x, y>>) = {x, y}
    <2>1. \A s : ToSet(s) = {s[i] : i \in DOMAIN s}
      BY DEF ToSet
    <2>2. DOMAIN <<>> = {} /\ DOMAIN <<x>> = {1} /\ DOMAIN <<y>> = {1} /\ DOMAIN <<x, y>> = {1, 2}
      OBVIOUS
    <2>3. <<x>>[1] = x /\ <<y>>[1] = y /\ <<x, y>>[1] = x /\ <<x, y>>[2] = y
      OBVIOUS
    <2>4. ToSet(<<>>) = {}
      BY <2>1, <2>2
    <2> DEFINE u == <<x>>
               v == <<y>>
               w == <<x, y>>
    <2> HIDE DEF u, v, w
    <2>5. ToSet(u) = {x} /\ ToSet(v) = {y}
      BY <2>1, <2>2, <2>3 DEF u, v
    <2>6. ToSet(w) = {x, y}
      BY <2>1, <2>2, <2>3 DEF w
    <2> QED
      BY <2>4, <2>5, <2>6 DEF u, v, w
  <1>5. CASE a = <<>> /\ b = <<>>
    BY <1>1, <1>3, <1>4, <1>5
  <1>6. CASE a = <<x>> /\ b = <<>>
    <2>1. ToSet(a \o b) = {x}
      BY <1>1, <1>4, <1>6
    <2> QED
      BY <1>3, <1>6, <2>1
  <1>7. CASE a = <<>> /\ b = <<y>>
    <2>1. ToSet(a \o b) = {y}
      BY <1>1, <1>4, <1>7
    <2> QED
      BY <1>3, <1>7, <2>1
  <1>8. CASE a = <<x>> /\ b = <<y>>
    <2>1. ToSet(a \o b) = {x, y}
      BY <1>2, <1>4, <1>8
    <2> QED
      BY <1>3, <1>8, <2>1
  <1> QED
    BY <1>5, <1>6, <1>7, <1>8

LEMMA OutlinedSet ==
  ASSUME NEW x, NEW a, NEW b, NEW region, NEW level, Outlined(x, a, b, region, level)
  PROVE  ToSet(ItemsIn(x)) = ToSet(OneItem("outlined", a, region, level) \o OneItem("error", b, region, level))
  <1> DEFINE items == ItemsIn(x)
             u == ItemAt("outlined", a, region, level)
             v == ItemAt("error", b, region, level)
             s == OneItem("outlined", a, region, level)
             t == OneItem("error", b, region, level)
  <1>1. /\ \A y \in DOMAIN items : items[y].kind = "outlined" => a # <<>> /\ items[y] = u
        /\ a # <<>> => \E y \in DOMAIN items : items[y].kind = "outlined"
    BY DEF Outlined, Heeds
  <1>2. /\ \A y \in DOMAIN items : items[y].kind = "error" => b # <<>> /\ items[y] = v
        /\ b # <<>> => \E y \in DOMAIN items : items[y].kind = "error"
    BY DEF Outlined, Heeds
  <1>3. \A y \in DOMAIN items : items[y].kind = "outlined" \/ items[y].kind = "error"
    BY DEF Outlined, Kinds
  <1>4. (s = <<>> \/ s = <<u>>) /\ (t = <<>> \/ t = <<v>>) /\ (s # <<>> <=> a # <<>>) /\ (t # <<>> <=> b # <<>>)
    BY DEF OneItem
  <1> HIDE DEF items, u, v, s, t
  <1>5. \A z : z \in ToSet(s \o t) <=> (a # <<>> /\ z = u) \/ (b # <<>> /\ z = v)
    BY <1>4, SetOfTwo
  <1>6. ToSet(items) = {items[y] : y \in DOMAIN items}
    BY DEF ToSet
  <1>7. \A z : z \in ToSet(items) <=> (a # <<>> /\ z = u) \/ (b # <<>> /\ z = v)
    BY <1>1, <1>2, <1>3, <1>6
  <1>8. ToSet(items) = ToSet(s \o t)
    BY <1>5, <1>7
  <1> QED
    BY <1>8 DEF items, s, t

OutlineMarks(marks) == MarksOf(marks, "outlined", "def:Outlined") /\ MarksOf(marks, "error", "def:Error")

(* The symbols of a line derived from one of some regions.                 *)
RegionsOf(bs, tokens) == [i \in 1 .. Len(tokens) |-> RegionOfSymbol(bs, tokens, i)]
LevelsOf(bs, tokens) == [i \in 1 .. Len(tokens) |-> Len(AroundSymbol(bs, tokens, i))]
HitBy(bs, tokens, roots) ==
  [i \in 1 .. Len(tokens) |-> \E m \in roots : HasParent(RegionOfSymbol(bs, tokens, i), m)]

(* Every symbol's region is one of the grammar.                            *)
Fit(bs, tokens) ==
  Len(tokens) \in Nat /\ \A i \in 1 .. Len(tokens) : RegionOfSymbol(bs, tokens, i) \in Maybe

LEMMA OutlineTold ==
  ASSUME NEW h, NEW bs, NEW tokens, NEW x, NEW p, Tale(h, bs, tokens, x, p), Fit(bs, tokens),
         OutlineMarks(h.marks)
  PROVE  Outlined(x[Len(tokens)], HitsOf(HitBy(bs, tokens, {"def:Outlined"})),
                  HitsOf(HitBy(bs, tokens, {"def:Error"})), RegionsOf(bs, tokens), LevelsOf(bs, tokens))
  <1> DEFINE n == Len(tokens)
             hit(root) == HitBy(bs, tokens, {root})
             region == RegionsOf(bs, tokens)
             level == LevelsOf(bs, tokens)
             ms == h.marks
  <1>1. n \in Nat
    BY DEF Fit
  <1>2. /\ DOMAIN hit("def:Outlined") = 1 .. n /\ DOMAIN hit("def:Error") = 1 .. n
        /\ \A i \in 1 .. n : /\ region[i] = RegionOfSymbol(bs, tokens, i)
                             /\ level[i] = Len(AroundSymbol(bs, tokens, i))
                             /\ hit("def:Outlined")[i] <=> HasParent(region[i], "def:Outlined")
                             /\ hit("def:Error")[i] <=> HasParent(region[i], "def:Error")
    BY DEF HitBy, RegionsOf, LevelsOf
  <1>3. \A i \in 1 .. n : region[i] \in Maybe
    BY <1>2 DEF Fit
  <1>4. /\ x[0] = [outline |-> <<>>, started |-> {}]
        /\ \A i \in 1 .. n : x[i] = Notes(x[i - 1], ms, i - 1, level[i], region[i])
    BY <1>2 DEF Tale
  <1> DEFINE ha == hit("def:Outlined")
             hb == hit("def:Error")
  <1> HIDE DEF region, level, n, hit, ha, hb
  <1>5. PICK a : HitRun(a, ha, n) /\ HitsOf(ha) = a[n]
    BY <1>1, <1>2, HitSteps DEF ha
  <1>6. PICK b : HitRun(b, hb, n) /\ HitsOf(hb) = b[n]
    BY <1>1, <1>2, HitSteps DEF hb
  <1>7. ASSUME NEW i \in 1 .. n
        PROVE  /\ a[i] = IF HasParent(region[i], ms["outlined"]) THEN Append(a[i - 1], i) ELSE a[i - 1]
               /\ b[i] = IF HasParent(region[i], ms["error"]) THEN Append(b[i - 1], i) ELSE b[i - 1]
    <2>1. HasParent(region[i], ms["outlined"]) <=> HasParent(region[i], "def:Outlined")
      BY <1>3, MarkIs DEF OutlineMarks
    <2>2. HasParent(region[i], ms["error"]) <=> HasParent(region[i], "def:Error")
      BY <1>3, MarkIs DEF OutlineMarks
    <2>3. (ha[i] <=> HasParent(region[i], "def:Outlined")) /\ (hb[i] <=> HasParent(region[i], "def:Error"))
      BY <1>2 DEF ha, hb
    <2> QED
      BY <1>5, <1>6, <2>1, <2>2, <2>3 DEF HitRun
  <1> DEFINE P(i) == Outlined(x[i], a[i], b[i], region, level)
             T == {i \in Nat : i <= n => P(i)}
  <1>8. 0 \in T
    <2>1. x[0].outline = <<>> /\ x[0].started = {} /\ a[0] = <<>> /\ b[0] = <<>>
      BY <1>4, <1>5, <1>6 DEF HitRun
    <2>2. IsHeard(x[0])
      BY <1>4, <2>1, EmptyList DEF IsHeard
    <2>3. ItemsIn(x[0]) = <<>>
      BY <2>1, EmptyList, FoldNone DEF ItemsIn
    <2>4. DOMAIN <<>> = {}
      OBVIOUS
    <2>5. P(0)
      BY <2>1, <2>2, <2>3, <2>4, EmptyList DEF Outlined, Heeds
    <2> HIDE DEF P
    <2> QED
      BY <2>5
  <1>9. ASSUME NEW i \in Nat, i \in T PROVE i + 1 \in T
    <2> SUFFICES ASSUME i + 1 <= n PROVE P(i + 1)
      OBVIOUS
    <2>1. i + 1 \in 1 .. n /\ (i + 1) - 1 = i /\ P(i)
      BY <1>1, <1>9
    <2> DEFINE r == region[i + 1]
               lv == level[i + 1]
    <2>2. /\ x[i + 1] = Notes(x[i], ms, i, lv, r)
          /\ a[i + 1] = IF HasParent(r, ms["outlined"]) THEN Append(a[i], i + 1) ELSE a[i]
          /\ b[i + 1] = IF HasParent(r, ms["error"]) THEN Append(b[i], i + 1) ELSE b[i]
      BY <1>4, <1>7, <2>1
    <2>3. Outlined(Notes(x[i], ms, i, lv, r), IF HasParent(r, ms["outlined"]) THEN Append(a[i], i + 1) ELSE a[i],
                   IF HasParent(r, ms["error"]) THEN Append(b[i], i + 1) ELSE b[i], region, level)
      BY <2>1, NotesOutlined
    <2> HIDE DEF r, lv
    <2> QED
      BY <2>2, <2>3
  <1>10. Nat \subseteq T
    <2> HIDE DEF T
    <2> QED
      BY <1>8, <1>9, Induction
  <1>11. P(n)
    <2> HIDE DEF P
    <2> QED
      BY <1>1, <1>10
  <1> QED
    BY <1>5, <1>6, <1>11 DEF n, ha, hb, hit, region, level

LEMMA HitsIn ==
  ASSUME NEW n \in Nat, NEW hit, DOMAIN hit = 1 .. n
  PROVE  /\ AreHits(HitsOf(hit), n)
         /\ \A y \in DOMAIN HitsOf(hit) : hit[HitsOf(hit)[y]]
  <1>1. PICK c : HitRun(c, hit, n) /\ HitsOf(hit) = c[n]
    BY HitSteps
  <1> DEFINE Hits(a, i) == IsList(a) /\ \A y \in 1 .. Len(a) : a[y] \in 1 .. i /\ hit[a[y]]
             T == {i \in Nat : i <= n => Hits(c[i], i)}
  <1>2. 0 \in T
    BY <1>1, EmptyList DEF HitRun
  <1>3. ASSUME NEW i \in Nat, i \in T PROVE i + 1 \in T
    <2> SUFFICES ASSUME i + 1 <= n PROVE Hits(c[i + 1], i + 1)
      OBVIOUS
    <2> DEFINE a == c[i]
               l == Len(a)
               b == Append(a, i + 1)
    <2>1. i + 1 \in 1 .. n /\ (i + 1) - 1 = i /\ Hits(a, i)
      BY <1>3
    <2>2. c[i + 1] = IF hit[i + 1] THEN b ELSE a
      BY <1>1, <2>1 DEF HitRun
    <2>3. l \in Nat /\ \A y \in 1 .. l : a[y] \in 1 .. i + 1 /\ hit[a[y]]
      BY <2>1, ListIs
    <2>4. IsList(b) /\ Len(b) = l + 1 /\ b[l + 1] = i + 1 /\ \A y \in 1 .. l : b[y] = a[y]
      BY <2>1, ListMore
    <2> HIDE DEF a, b
    <2>5. CASE ~hit[i + 1]
      BY <2>1, <2>2, <2>3, <2>5
    <2>6. CASE hit[i + 1]
      <3>1. \A y \in 1 .. l + 1 : y \in 1 .. l \/ y = l + 1
        BY <2>3
      <3>2. \A y \in 1 .. l + 1 : b[y] \in 1 .. i + 1 /\ hit[b[y]]
        BY <2>3, <2>4, <2>6, <3>1
      <3> QED
        BY <2>2, <2>4, <2>6, <3>2
    <2> QED
      BY <2>5, <2>6
  <1>4. Nat \subseteq T
    <2> HIDE DEF T
    <2> QED
      BY <1>2, <1>3, Induction
  <1> DEFINE at == HitsOf(hit)
  <1>5. Hits(at, n)
    <2> HIDE DEF Hits
    <2> QED
      BY <1>1, <1>4
  <1> HIDE DEF at
  <1>6. DOMAIN at = 1 .. Len(at)
    BY <1>5, ListIs
  <1> QED
    BY <1>5, <1>6 DEF AreHits, at

(* The pair a symbol makes, and the item some symbols make.                *)
PairOf(m, bs, tokens, i) ==
  [start |-> i - 1, end |-> i, opens |-> HasParent(RegionOfSymbol(bs, tokens, i), Starts),
   define |-> SaysOf(m, RegionOfSymbol(bs, tokens, i), Around(m, AroundSymbol(bs, tokens, i)))]

ItemIn(kind, at, bs, tokens) ==
  IF at = <<>> THEN <<>>
  ELSE <<[kind |-> kind, region |-> RegionOfSymbol(bs, tokens, Head(at)), start |-> Head(at) - 1,
          level |-> Len(AroundSymbol(bs, tokens, Head(at))), spans |-> SpansAt(at)]>>

LEMMA ItemInIs ==
  ASSUME NEW tokens, Len(tokens) \in Nat, NEW at, AreHits(at, Len(tokens)), NEW kind, NEW bs
  PROVE  ItemIn(kind, at, bs, tokens) = OneItem(kind, at, RegionsOf(bs, tokens), LevelsOf(bs, tokens))
  <1>1. CASE at = <<>>
    BY <1>1 DEF ItemIn, OneItem
  <1>2. CASE at # <<>>
    <2>1. IsList(at) /\ Len(at) \in Nat /\ Len(at) # 0
      BY <1>2, NotEmpty, ListIs DEF AreHits
    <2>2. at[1] \in 1 .. Len(tokens)
      BY <2>1 DEF AreHits
    <2>3. Head(at) = at[1]
      OBVIOUS
    <2>4. /\ RegionsOf(bs, tokens)[at[1]] = RegionOfSymbol(bs, tokens, at[1])
          /\ LevelsOf(bs, tokens)[at[1]] = Len(AroundSymbol(bs, tokens, at[1]))
      BY <2>2 DEF RegionsOf, LevelsOf
    <2> QED
      BY <1>2, <2>3, <2>4 DEF ItemIn, OneItem, ItemAt
  <1> QED
    BY <1>1, <1>2

LEMMA OnePair ==
  ASSUME NEW h, NEW g, g.marks = h.marks, g.mapper.defines = h.mapper.defines, PairMarks(h.marks),
         NEW bs, NEW tokens, NEW i \in Nat, RegionOfSymbol(bs, tokens, i) \in Maybe,
         AreBlocks(AroundSymbol(bs, tokens, i)),
         \E m \in {Starts, Ends} : HasParent(RegionOfSymbol(bs, tokens, i), m)
  PROVE  Pair(g, PieceOfSymbol(h, bs, tokens, i)) = PairOf(g.mapper, bs, tokens, i)
  <1> DEFINE r == RegionOfSymbol(bs, tokens, i)
             on == AroundSymbol(bs, tokens, i)
             p == PieceOfSymbol(h, bs, tokens, i)
             outer == Around(g.mapper, on)
  <1>1. p = PieceAs(g.mapper, h.special, on, r, i - 1)
    BY PieceAsSame DEF PieceOfSymbol
  <1>2. p = [start |-> i - 1, end |-> (i - 1) + 1, region |-> r, special |-> HasParent(r, h.special),
             define |-> Says0(g.mapper, r, outer)]
    BY <1>1 DEF PieceAs
  <1>3. r # NoRegion
    BY DEF HasParent
  <1>4. Says0(g.mapper, r, outer) = SaysOf(g.mapper, r, outer)
    BY <1>3 DEF Says0
  <1>5. (i - 1) + 1 = i
    OBVIOUS
  <1> HIDE DEF p, outer
  <1>6. p.start = i - 1 /\ p.end = i /\ p.region = r /\ p.define = SaysOf(g.mapper, r, outer)
    BY <1>2, <1>4, <1>5
  <1>7. (PairKind(g, r) = "opens") = HasParent(r, Starts)
    <2>1. HasParent(r, g.marks["start"]) <=> HasParent(r, Starts)
      <3> HIDE DEF r
      <3> QED
        BY MarkIs DEF PairMarks, r
    <2> HIDE DEF r
    <2>2. PairKind(g, r) = "opens" <=> HasParent(r, Starts)
      BY <2>1 DEF PairKind
    <2>3. HasParent(r, Starts) \in BOOLEAN
      BY DEF HasParent
    <2> QED
      BY <2>2, <2>3
  <1> HIDE DEF r, on
  <1>8. Pair(g, p) = [start |-> i - 1, end |-> i, opens |-> HasParent(r, Starts), define |-> SaysOf(g.mapper, r, outer)]
    <2>1. Pair(g, p) = [start |-> p.start, end |-> p.end, opens |-> (PairKind(g, p.region) = "opens"), define |-> p.define]
      BY DEF Pair
    <2>2. PairKind(g, p.region) = PairKind(g, r)
      BY <1>6
    <2> QED
      BY <1>6, <1>7, <2>1, <2>2
  <1> QED
    BY <1>8 DEF PairOf, r, on, p, outer

AllBlocks(bs, tokens) == \A i \in 1 .. Len(tokens) : AreBlocks(AroundSymbol(bs, tokens, i))

(* A line's pairs, said of the symbols that hit.                           *)
PairsSaid(g, ps, bs, tokens) ==
  LET at == HitsOf(HitBy(bs, tokens, {Starts, Ends}))
  IN  [y \in DOMAIN ps |-> Pair(g, ps[y])] = [y \in DOMAIN at |-> PairOf(g.mapper, bs, tokens, at[y])]

LEMMA PairsTold ==
  ASSUME NEW h, NEW bs, NEW tokens, NEW x, NEW p, Tale(h, bs, tokens, x, p), Fit(bs, tokens),
         AllBlocks(bs, tokens), PairMarks(h.marks), h.special = "def:Special",
         NEW g, g.marks = h.marks, g.mapper.defines = h.mapper.defines,
         NEW ps, ps = p[Len(tokens)]
  PROVE  PairsSaid(g, ps, bs, tokens)
  <1> DEFINE n == Len(tokens)
             hit == HitBy(bs, tokens, {Starts, Ends})
             at == HitsOf(hit)
             piece == [i \in 1 .. n |-> PieceOfSymbol(h, bs, tokens, i)]
             ms == h.marks
  <1>1. n \in Nat /\ \A i \in 1 .. n : RegionOfSymbol(bs, tokens, i) \in Maybe
    BY DEF Fit
  <1>2. DOMAIN hit = 1 .. n
    BY DEF HitBy
  <1>3. \A i \in 1 .. n : hit[i] <=> \E m \in {Starts, Ends} : HasParent(RegionOfSymbol(bs, tokens, i), m)
    BY DEF HitBy
  <1>4. \A i \in 1 .. n : piece[i] = PieceOfSymbol(h, bs, tokens, i)
    OBVIOUS
  <1> HIDE DEF hit, piece, n, ms, at
  <1>5. PairRun(p, ms, piece, n)
    BY <1>4 DEF Tale, PairRun, n, ms
  <1>6. ASSUME NEW i \in 1 .. n PROVE IsPair([marks |-> ms], piece[i]) <=> hit[i]
    <2> DEFINE r == RegionOfSymbol(bs, tokens, i)
               q == piece[i]
    <2>1. q = PieceAs(h.mapper, h.special, AroundSymbol(bs, tokens, i), r, i - 1)
      BY <1>4 DEF PieceOfSymbol
    <2>2. r \in Maybe
      BY <1>1
    <2> HIDE DEF r, q
    <2>3. q.region = r /\ (q.special <=> HasParent(r, "def:Special"))
      BY <2>1 DEF PieceAs
    <2>4. IsPair([marks |-> ms], q) <=> \E m \in {Starts, Ends} : HasParent(r, m)
      BY <2>2, <2>3, PairRegion DEF ms
    <2> QED
      BY <1>3, <2>4 DEF r, q
  <1>7. PairsHit(ms, piece, hit, n)
    BY <1>6 DEF PairsHit
  <1>8. PICK c : HitRun(c, hit, n) /\ HitsOf(hit) = c[n]
    BY <1>1, <1>2, HitSteps
  <1>9. at = c[n] /\ ps = p[n]
    BY <1>8 DEF at, n
  <1>10. AreHits(at, n) /\ Listed(ps, at, piece)
    BY <1>1, <1>5, <1>7, <1>8, <1>9, PairsListed
  <1>11. \A y \in DOMAIN at : hit[at[y]]
    BY <1>1, <1>2, HitsIn DEF at
  <1>12. DOMAIN ps = DOMAIN at /\ DOMAIN at = 1 .. Len(at)
    BY <1>10, ListIs DEF Listed, AreHits
  <1>13. ASSUME NEW y \in DOMAIN at PROVE Pair(g, ps[y]) = PairOf(g.mapper, bs, tokens, at[y])
    <2> DEFINE i == at[y]
    <2>1. i \in 1 .. n /\ hit[i] /\ ps[y] = piece[i]
      BY <1>10, <1>11, <1>12 DEF AreHits, Listed
    <2> HIDE DEF i
    <2>2. ps[y] = PieceOfSymbol(h, bs, tokens, i)
      BY <1>4, <2>1
    <2>3. i \in Nat /\ \E m \in {Starts, Ends} : HasParent(RegionOfSymbol(bs, tokens, i), m)
      BY <1>1, <1>3, <2>1
    <2>4. RegionOfSymbol(bs, tokens, i) \in Maybe /\ AreBlocks(AroundSymbol(bs, tokens, i))
      BY <1>1, <2>1 DEF AllBlocks, n
    <2>5. Pair(g, PieceOfSymbol(h, bs, tokens, i)) = PairOf(g.mapper, bs, tokens, i)
      BY <2>3, <2>4, OnePair
    <2> QED
      BY <2>2, <2>5 DEF i
  <1>14. [y \in DOMAIN ps |-> Pair(g, ps[y])] = [y \in DOMAIN at |-> PairOf(g.mapper, bs, tokens, at[y])]
    BY <1>12, <1>13
  <1> QED
    BY <1>14 DEF PairsSaid, at, hit

-----------------------------------------------------------------------------
(* What the text says of pairs and outlines, by what the state is made of. *)

HitsNow(roots) ==
  HitsOf([i \in DOMAIN Last(text) |-> \E m \in roots : HasParent(RegionOfSymbol(LineOpen, Last(Tokens), i), m)])

TellIs ==
  /\ \A roots : Matches(roots) = HitsNow(roots)
  /\ \A i : PairAt(i) = PairOf(handler.mapper, LineOpen, Last(Tokens), i)
  /\ \A kind, root : ItemOf(kind, root) = ItemIn(kind, Matches({root}), LineOpen, Last(Tokens))

LEMMA MatchesFold ==
  \A hit : FoldLeftDomain(LAMBDA at, i : IF hit[i] THEN Append(at, i) ELSE at, <<>>, hit) = HitsOf(hit)
  BY DEF HitsOf, FoldLeftDomain, FoldLeft, MapThenFoldSet, Fold, Op, Numbers

LEMMA TellNow == TellIs
  <1>1. \A i : OpenBefore(i) = Before(LineOpen, Last(Tokens), i)
    BY OpenBeforeNow DEF OpenBeforeIs, LineOpen
  <1>2. \A i : BlocksAt(i) = AroundSymbol(LineOpen, Last(Tokens), i)
    BY <1>1 DEF BlocksAt, At, AroundSymbol
  <1>3. \A i : TokenRegion(i) = RegionOfSymbol(LineOpen, Last(Tokens), i)
    BY <1>1 DEF TokenRegion, RegionOf, RegionOfSymbol
  <1>4. \A i : StyleAround(i) = Around(handler.mapper, BlocksAt(i))
    BY AroundNow DEF AroundIs
  <1>5. \A roots : Matches(roots) =
          HitsOf([i \in DOMAIN Last(text) |-> \E m \in roots : HasParent(TokenRegion(i), m)])
    <2> TAKE roots
    <2> DEFINE hit == [i \in DOMAIN Last(text) |-> \E m \in roots : HasParent(TokenRegion(i), m)]
    <2>1. Matches(roots) = FoldLeftDomain(LAMBDA at, i : IF hit[i] THEN Append(at, i) ELSE at, <<>>, hit)
      BY DEF Matches
    <2> HIDE DEF hit
    <2> QED
      BY <2>1, MatchesFold DEF hit
  <1>6. \A roots : Matches(roots) = HitsNow(roots)
    BY <1>3, <1>5 DEF HitsNow
  <1>7. \A i : PairAt(i) = PairOf(handler.mapper, LineOpen, Last(Tokens), i)
    BY <1>2, <1>3, <1>4, SchemeSaysIs DEF PairAt, PairOf
  <1>8. \A kind, root : ItemOf(kind, root) = ItemIn(kind, Matches({root}), LineOpen, Last(Tokens))
    <2> SUFFICES ASSUME NEW kind, NEW root
                 PROVE  ItemOf(kind, root) = ItemIn(kind, Matches({root}), LineOpen, Last(Tokens))
      OBVIOUS
    <2> DEFINE at == Matches({root})
    <2>1. ItemOf(kind, root) =
            IF at = <<>> THEN <<>>
            ELSE <<[kind |-> kind, region |-> TokenRegion(Head(at)), start |-> Head(at) - 1,
                    level |-> Len(BlocksAt(Head(at))),
                    spans |-> [i \in DOMAIN at |-> [start |-> at[i] - 1, end |-> at[i]]]]>>
      BY DEF ItemOf
    <2> HIDE DEF at
    <2>2. SpansAt(at) = [i \in DOMAIN at |-> [start |-> at[i] - 1, end |-> at[i]]]
      BY DEF SpansAt, PartAt
    <2> QED
      BY <1>2, <1>3, <2>1, <2>2 DEF ItemIn, at
  <1> QED
    BY <1>6, <1>7, <1>8 DEF TellIs

LEMMA TellNext == TellIs' /\ (Tokens = TextTokens(lib.compiled, current, text))'
  BY TellNow, TokensAre, PTL

(* What is reported of pairs and outlines, for a text, the blocks before   *)
(* its last line and the symbols of that line.                             *)
OutlineSaid(outline, bs, tokens) ==
  ToSet(Fold([fold |-> "joined"], <<>>, outline)) =
    ToSet(ItemIn("outlined", HitsOf(HitBy(bs, tokens, {"def:Outlined"})), bs, tokens)
          \o ItemIn("error", HitsOf(HitBy(bs, tokens, {"def:Error"})), bs, tokens))

LEMMA OutlineSays ==
  ASSUME NEW h, NEW bs, NEW tokens, NEW x, NEW p, Tale(h, bs, tokens, x, p), Fit(bs, tokens),
         OutlineMarks(h.marks), NEW g, x[Len(tokens)] = Heard(g)
  PROVE  OutlineSaid(g.outline, bs, tokens)
  <1> DEFINE n == Len(tokens)
             a == HitsOf(HitBy(bs, tokens, {"def:Outlined"}))
             b == HitsOf(HitBy(bs, tokens, {"def:Error"}))
             region == RegionsOf(bs, tokens)
             level == LevelsOf(bs, tokens)
  <1>1. n \in Nat
    BY DEF Fit
  <1>2. DOMAIN HitBy(bs, tokens, {"def:Outlined"}) = 1 .. n /\ DOMAIN HitBy(bs, tokens, {"def:Error"}) = 1 .. n
    BY DEF HitBy
  <1>3. AreHits(a, n) /\ AreHits(b, n)
    BY <1>1, <1>2, HitsIn
  <1>4. Outlined(x[n], a, b, region, level)
    BY OutlineTold
  <1>5. ItemIn("outlined", a, bs, tokens) = OneItem("outlined", a, region, level)
    BY <1>1, <1>3, ItemInIs
  <1>6. ItemIn("error", b, bs, tokens) = OneItem("error", b, region, level)
    BY <1>1, <1>3, ItemInIs
  <1> HIDE DEF a, b, region, level
  <1>7. ToSet(ItemsIn(x[n])) = ToSet(OneItem("outlined", a, region, level) \o OneItem("error", b, region, level))
    BY <1>4, OutlinedSet
  <1>8. x[n].outline = g.outline
    BY DEF Heard
  <1>9. ItemsIn(x[n]) = Fold([fold |-> "joined"], <<>>, g.outline)
    BY <1>8 DEF ItemsIn
  <1> QED
    BY <1>5, <1>6, <1>7, <1>9 DEF OutlineSaid, a, b

-----------------------------------------------------------------------------
(* The invariant of a session, as far as pairs and outlines go: the        *)
(* special region is the library's, and what was collected is the outline  *)
(* of the last line.                                                       *)

SpecialKnown ==
  handler.special # NoRegion => stage = "failed" \/ (handler.special = "def:Special" /\ Has(lib, "def"))

OutlineKnown ==
  stage = "open" /\ LineKnown /\ Has(lib, "def") => OutlineSaid(handler.outline, LineOpen, Last(Tokens))

TokensInv ==
  /\ stage \in {"new", "loading"} => handler.special = NoRegion /\ text = <<>>
  /\ SpecialKnown /\ OutlineKnown

(* Nothing a method does takes a type out of the library.                  *)
SameTypes(m, l) == \A t : Has(m, t) <=> Has(l, t)

LEMMA LoadTypes ==
  ASSUME NEW l, IsLibrary(l), NEW t
  PROVE  SameTypes(LoadFileType(l, t), l)
  <1> DEFINE m == LoadFileType(l, t)
  <1>1. m.types = l.types
    BY DEF LoadFileType, IsLibrary
  <1> QED
    BY <1>1 DEF SameTypes, Has

LEMMA WriteTypes ==
  ASSUME NEW l, IsLibrary(l), NEW t \in DOMAIN l.types, NEW p
  PROVE  /\ \A v : SameTypes(SetFileTypeParam(l, t, p, v), l)
         /\ p \in DOMAIN l.types[t].params => SameTypes(ResetFileTypeParam(l, t, p), l)
  <1>1. ASSUME NEW v PROVE SameTypes(SetFileTypeParam(l, t, p, v), l)
    <2> DEFINE m == SetFileTypeParam(l, t, p, v)
    <2>1. \E qs : Sets(m, l, t, p, v, qs)
      BY SetIs
    <2> HIDE DEF m
    <2>2. DOMAIN m.types = DOMAIN l.types
      BY <2>1 DEF Sets, Retyped
    <2>3. SameTypes(m, l)
      BY <2>2 DEF SameTypes, Has
    <2> QED
      BY <2>3 DEF m
  <1>2. ASSUME p \in DOMAIN l.types[t].params PROVE SameTypes(ResetFileTypeParam(l, t, p), l)
    <2> DEFINE m == ResetFileTypeParam(l, t, p)
    <2>1. \E qs : Sets(m, l, t, p, NoText, qs)
      BY <1>2, ResetIs
    <2> HIDE DEF m
    <2>2. DOMAIN m.types = DOMAIN l.types
      BY <2>1 DEF Sets, Retyped
    <2>3. SameTypes(m, l)
      BY <2>2 DEF SameTypes, Has
    <2> QED
      BY <2>3 DEF m
  <1> QED
    BY <1>1, <1>2

LEMMA MarksAre ==
  ASSUME Has(lib, "def")
  PROVE  PairMarks(ResolveRegions) /\ OutlineMarks(ResolveRegions)
  <1>1. ASSUME NEW r PROVE (IF Marked(r) THEN r ELSE NoRegion) = IF r \in Regions THEN r ELSE NoRegion
    BY DEF Marked
  <1> QED
    BY <1>1 DEF ResolveRegions, PairMarks, OutlineMarks, MarksOf, Starts, Ends

(* Everything a line is read with fits the grammar.                        *)
LEMMA LineFits ==
  ASSUME NEW h, NEW bs, NEW tokens, AreTokens(tokens), NEW s, LineShown(h, bs, tokens, s)
  PROVE  Fit(bs, tokens) /\ AllBlocks(bs, tokens)
  <1> DEFINE n == Len(tokens)
  <1>1. n \in Nat /\ DOMAIN tokens = 1 .. n
    BY ListIs DEF AreTokens
  <1>2. ASSUME NEW i \in 1 .. n
        PROVE  RegionOfSymbol(bs, tokens, i) \in Maybe /\ AreBlocks(AroundSymbol(bs, tokens, i))
    <2>1. AreBlocks(Before(bs, tokens, i)) /\ IsToken(tokens[i])
      BY <1>1 DEF LineShown, AreTokens
    <2> QED
      BY <2>1, OfMaybe, AtBlocks DEF RegionOfSymbol, AroundSymbol
  <1> QED
    BY <1>1, <1>2 DEF Fit, AllBlocks

(* What the client is told of a line the parser reads.                     *)
LEMMA LineReadTells ==
  ASSUME NEW line, LineFed(line), NEW tokens, NEW s, LineRead(line, tokens, s), Has(lib, "def")
  PROVE  /\ OutlineSaid(handler'.outline, open, tokens)
         /\ handler.special = "def:Special" =>
              answer'.value.pairs =
                [y \in DOMAIN HitsOf(HitBy(open, tokens, {Starts, Ends})) |->
                   PairOf(handler'.mapper, open, tokens, HitsOf(HitBy(open, tokens, {Starts, Ends}))[y])]
  <1> DEFINE h == ReadyNow
             n == Len(tokens)
             g == s.h
             ps == Pairs(g)
             at == HitsOf(HitBy(open, tokens, {Starts, Ends}))
  <1>1. /\ Ready(h) /\ h.special = handler.special /\ h.marks = ResolveRegions /\ h.outline = <<>>
        /\ AreBlocks(open)
    BY DEF LineFed
  <1>2. /\ AreTokens(tokens) /\ s = ScanOf(h, open, tokens) /\ LineShown(h, open, tokens, s)
        /\ handler' = g /\ answer'.value = Result(g)
    BY DEF LineRead
  <1>3. Fit(open, tokens) /\ AllBlocks(open, tokens)
    BY <1>2, LineFits
  <1>4. PairMarks(h.marks) /\ OutlineMarks(h.marks)
    BY <1>1, MarksAre
  <1> HIDE DEF h
  <1>5. PICK x, p : LineTale(h, open, tokens, s, x, p)
    BY <1>1, <1>2, LineTells
  <1>6. /\ Tale(h, open, tokens, x, p) /\ g.marks = h.marks /\ g.mapper.defines = h.mapper.defines
        /\ x[n] = Heard(g) /\ p[n] = PairsIn(h.marks, g.line)
    BY <1>5 DEF LineTale
  <1>7. OutlineSaid(g.outline, open, tokens)
    BY <1>3, <1>4, <1>6, OutlineSays
  <1>8. ps = p[n]
    BY <1>6, TellFoldsAre DEF PairsIn
  <1>9. Result(g).pairs = [y \in DOMAIN ps |-> Pair(g, ps[y])]
    BY DEF Result
  <1>10. ASSUME handler.special = "def:Special"
         PROVE  answer'.value.pairs = [y \in DOMAIN at |-> PairOf(g.mapper, open, tokens, at[y])]
    <2> HIDE DEF ps, at, g, n
    <2>1. h.special = "def:Special" /\ ps = p[Len(tokens)]
      BY <1>1, <1>8, <1>10 DEF n
    <2>2. PairsSaid(g, ps, open, tokens)
      BY <1>3, <1>4, <1>6, <2>1, PairsTold
    <2>3. [y \in DOMAIN ps |-> Pair(g, ps[y])] = [y \in DOMAIN at |-> PairOf(g.mapper, open, tokens, at[y])]
      BY <2>2 DEF PairsSaid, at
    <2> QED
      BY <1>2, <1>9, <2>3
  <1> QED
    BY <1>2, <1>7, <1>10

LEMMA LineTellsTokens ==
  ASSUME PaintInv, ParamsInv, TokensInv, NEW line \in Lines, ParseLine(line)
  PROVE  TokensInv' /\ TokensReported'
  <1> DEFINE tokens == TokensRead(line)
             s == ScanOf(ReadyNow, open, tokens)
             n == Len(tokens)
  <1>1. LineFed(line)
    BY LineIsFed
  <1>2. /\ stage = "open" /\ stage' = "open" /\ current' = current /\ lib' = LoadFileType(lib, "def")
        /\ handler' = AfterLine(line).h /\ answer'.call = "line" /\ ReadyNow.special = handler.special
    BY <1>1 DEF LineFed, Answer
  <1>3. IsLibrary(lib)
    BY <1>2 DEF ParamsInv, SetsAgree
  <1>4. Has(lib', "def") <=> Has(lib, "def")
    BY <1>2, <1>3, LoadTypes DEF SameTypes
  <1>5. SpecialKnown /\ (handler.special # NoRegion => handler.special = "def:Special" /\ Has(lib, "def"))
    BY <1>2 DEF TokensInv, SpecialKnown
  <1>6. CASE current \in Schemeless \cup {NoType}
    <2>1. AfterLine(line) = [h |-> ReadyNow, open |-> open]
      BY <1>6 DEF AfterLine, ReadyNow
    <2>2. handler' = ReadyNow
      BY <1>2, <2>1
    <2>3. ~LineKnown'
      BY <1>2, <1>6 DEF LineKnown
    <2>4. SpecialKnown'
      BY <1>2, <1>4, <1>5, <2>2 DEF SpecialKnown
    <2> QED
      BY <1>2, <2>3, <2>4 DEF TokensInv, OutlineKnown, TokensReported
  <1>7. CASE current \notin Schemeless \cup {NoType}
    <2>1. LineRead(line, tokens, s)
      BY <1>1, <1>7, LineIsRead
    <2> HIDE DEF tokens, s, n
    <2>2. /\ handler' = s.h /\ s.h.special = handler.special /\ LineOpen' = open /\ Last(Tokens') = tokens
          /\ DOMAIN Last(text') = 1 .. n
      BY <2>1 DEF LineRead, n
    <2>3. SpecialKnown'
      BY <1>2, <1>4, <1>5, <2>2 DEF SpecialKnown
    <2>4. ASSUME Has(lib, "def") PROVE OutlineSaid(handler'.outline, open, tokens)
      BY <1>1, <2>1, <2>4, LineReadTells
    <2>5. OutlineKnown'
      BY <1>4, <2>2, <2>4 DEF OutlineKnown
    <2>6. TokensInv'
      BY <1>2, <2>3, <2>5 DEF TokensInv
    <2> DEFINE at == HitsOf(HitBy(open, tokens, {Starts, Ends}))
    <2>7. Matches({Starts, Ends})' = at
      <3>1. Matches({Starts, Ends})' = HitsNow({Starts, Ends})'
        BY TellNext DEF TellIs
      <3>2. HitsNow({Starts, Ends})' = at
        BY <2>2 DEF HitsNow, HitBy, n
      <3> QED
        BY <3>1, <3>2
    <2>8. \A i : PairAt(i)' = PairOf(handler'.mapper, open, tokens, i)
      BY <2>2, TellNext DEF TellIs
    <2>9. ASSUME handler'.special # NoRegion
          PROVE  answer'.value.pairs = [i \in DOMAIN at |-> PairOf(handler'.mapper, open, tokens, at[i])]
      BY <1>1, <1>5, <2>1, <2>2, <2>9, LineReadTells
    <2> HIDE DEF at
    <2>10. TokensReported'
      BY <1>2, <2>7, <2>8, <2>9 DEF TokensReported
    <2> QED
      BY <2>6, <2>10
  <1> QED
    BY <1>6, <1>7

(* A step that reads no line and answers no outline.                       *)
Untold ==
  /\ Unpainted /\ answer'.call # "outline" /\ SameTypes(lib', lib)
  /\ text' = <<>> \/ handler'.outline = handler.outline
  /\ \/ handler'.special = handler.special
     \/ handler'.special # NoRegion => handler'.special = "def:Special" /\ Has(lib, "def")

LEMMA TokensSame ==
  ASSUME PaintInv, current \notin Schemeless \cup {NoType}, stage = "open",
         text' = text, current' = current, Keeps(lib', lib, current)
  PROVE  Tokens' = Tokens /\ LineOpen' = LineOpen
  <1>1. Settled(lib, current)
    BY DEF PaintInv
  <1>2. current \in lib.compiled <=> current \in lib'.compiled
    BY <1>1 DEF Keeps
  <1>3. TextTokens(lib.compiled, current, text) = TextTokens(lib'.compiled, current, text)
    BY <1>2, TextSame
  <1>4. Tokens' = Tokens
    BY <1>3, TellNext, TokensAre
  <1> QED
    BY <1>4 DEF LineOpen

LEMMA UntoldKeeps ==
  ASSUME PaintInv, TokensInv, Untold
  PROVE  TokensInv' /\ TokensReported'
  <1>1. answer'.call # "line" /\ answer'.call # "outline" /\ stage = "open" /\ stage' \in {"open", "failed"}
    BY DEF Untold, Unpainted, Nil
  <1>2. TokensReported'
    BY <1>1 DEF TokensReported
  <1>3. Has(lib', "def") <=> Has(lib, "def")
    BY DEF Untold, SameTypes
  <1>4. SpecialKnown /\ OutlineKnown
    BY DEF TokensInv
  <1>5. SpecialKnown'
    BY <1>1, <1>3, <1>4 DEF SpecialKnown, Untold
  <1>6. OutlineKnown'
    <2>1. CASE text' = <<>>
      BY <2>1 DEF OutlineKnown, LineKnown
    <2>2. CASE text' # <<>>
      <3>1. text' = text /\ current' = current /\ Keeps(lib', lib, current)
        BY <2>2 DEF Untold, Unpainted
      <3>2. handler'.outline = handler.outline
        BY <2>2 DEF Untold
      <3>3. ASSUME LineKnown', Has(lib', "def") PROVE OutlineSaid(handler'.outline, LineOpen', Last(Tokens'))
        <4>1. current \notin Schemeless \cup {NoType} /\ LineKnown
          BY <3>1, <3>3 DEF LineKnown
        <4>2. Tokens' = Tokens /\ LineOpen' = LineOpen
          BY <1>1, <3>1, <4>1, TokensSame
        <4> QED
          BY <1>1, <1>3, <1>4, <3>2, <3>3, <4>1, <4>2 DEF OutlineKnown
      <3> QED
        BY <3>3 DEF OutlineKnown
    <2> QED
      BY <2>1, <2>2
  <1> QED
    BY <1>1, <1>2, <1>5, <1>6 DEF TokensInv

LEMMA LastTokens ==
  ASSUME NEW compiled, NEW t, NEW lines, AreLines(lines), lines # <<>>
  PROVE  DOMAIN Last(lines) = 1 .. Len(Last(TextTokens(compiled, t, lines)))
  <1> DEFINE n == Len(lines)
             a == TextTokens(compiled, t, lines)
             line == lines[n]
  <1>1. IsList(lines) /\ n \in Nat /\ n # 0 /\ DOMAIN lines = 1 .. n
    BY NotEmpty, ListIs DEF AreLines
  <1>2. Last(lines) = line /\ n \in 1 .. n
    BY <1>1, LastIs
  <1>3. IsList(line)
    BY <1>1, <1>2 DEF AreLines
  <1>4. a = [l \in 1 .. n |-> a[l]] /\ a[n] = LineTokens(compiled, t, line)
    BY <1>1, <1>2 DEF TextTokens
  <1> HIDE DEF a, line, n
  <1>5. IsList(a) /\ Len(a) = n
    BY <1>1, <1>4, ListOf
  <1>6. Last(a) = LineTokens(compiled, t, line)
    BY <1>1, <1>4, <1>5, LastIs
  <1>7. Len(Last(a)) = Len(line) /\ DOMAIN line = 1 .. Len(line)
    BY <1>3, <1>6, TokensFit, ListIs
  <1> QED
    BY <1>2, <1>7 DEF a

(* The outline of the last line.                                           *)
LEMMA OutlineTells ==
  ASSUME PaintInv, TokensInv, LineOutline
  PROVE  TokensInv' /\ TokensReported'
  <1>1. /\ stage = "open" /\ stage' = "open" /\ lib' = lib /\ handler' = handler /\ current' = current
        /\ open' = open /\ text' = text
        /\ answer' = Answer("outline", FoldLeft(Joined, <<>>, handler.outline))
    BY DEF LineOutline, Method, Returns
  <1>2. Tokens' = Tokens
    BY <1>1, TellNext, TokensAre
  <1>3. LineOpen' = LineOpen
    BY <1>2 DEF LineOpen
  <1>4. TokensInv'
    BY <1>1, <1>2, <1>3 DEF TokensInv, SpecialKnown, OutlineKnown, LineKnown
  <1>5. answer'.call = "outline" /\ answer'.value = Fold([fold |-> "joined"], <<>>, handler.outline)
    BY <1>1, TellFoldsAre DEF Answer
  <1>6. ASSUME LineKnown', Has(lib', "def")
        PROVE  ToSet(answer'.value) = ToSet(ItemOf("outlined", "def:Outlined")' \o ItemOf("error", "def:Error")')
    <2> DEFINE bs == LineOpen
               tokens == Last(Tokens)
    <2>1. OutlineSaid(handler.outline, bs, tokens)
      BY <1>1, <1>6 DEF TokensInv, OutlineKnown, LineKnown
    <2>2. \A roots : Matches(roots)' = HitsNow(roots)
      BY <1>1, <1>2, <1>3, TellNext DEF TellIs, HitsNow
    <2>3. \A kind, root : ItemOf(kind, root)' = ItemIn(kind, HitsNow({root}), bs, tokens)
      BY <1>2, <1>3, <2>2, TellNext DEF TellIs
    <2>4. DOMAIN Last(text) = 1 .. Len(tokens)
      BY <1>1, <1>6, TokensAre, LastTokens DEF PaintInv, LineKnown
    <2> HIDE DEF bs, tokens
    <2>5. \A roots : HitsNow(roots) = HitsOf(HitBy(bs, tokens, roots))
      BY <2>4 DEF HitsNow, HitBy, bs, tokens
    <2>6. \A kind, root : ItemOf(kind, root)' = ItemIn(kind, HitsOf(HitBy(bs, tokens, {root})), bs, tokens)
      BY <2>3, <2>5
    <2> QED
      BY <1>5, <2>1, <2>6 DEF OutlineSaid
  <1>7. TokensReported'
    BY <1>1, <1>5, <1>6 DEF TokensReported
  <1> QED
    BY <1>4, <1>7

LEMMA SameTypesSelf == \A l : SameTypes(l, l)
  BY DEF SameTypes

(* Which methods tell nothing.                                             *)
LEMMA UntoldMethods ==
  ASSUME PaintInv, ParamsInv, Unpainted,
         \/ \E class \in Names.class :
              EnumHRDInstances(class) \/ \E name \in Names.style : SetHRD(class, name)
         \/ \E region \in Names.region : GetRegionDefineOf(region)
         \/ \E file \in Names.file, first \in Names.first : SelectType(file, first)
         \/ FileType \/ Types
         \/ \E t \in Names.type :
              \/ SetFileType(t) \/ LoadType(t) \/ ListParams(t)
              \/ \E p \in Names.param :
                   FileTypeParam(t, p) \/ ResetParam(t, p) \/ \E v \in Names.value : SetParam(t, p, v)
         \/ Reset
  PROVE  Untold
  <1>1. SameTypes(lib, lib)
    BY SameTypesSelf
  <1>2. IsLibrary(lib)
    BY DEF ParamsInv, SetsAgree, Unpainted
  <1>3. ASSUME NEW class, EnumHRDInstances(class) PROVE Untold
    BY <1>1, <1>3 DEF EnumHRDInstances, Returns, Answer, Untold
  <1>4. ASSUME NEW region, GetRegionDefineOf(region) PROVE Untold
    BY <1>1, <1>4 DEF GetRegionDefineOf, Returns, Answer, Untold
  <1>5. ASSUME FileType \/ Types PROVE Untold
    BY <1>1, <1>5 DEF FileType, Types, Returns, Answer, Untold
  <1>6. ASSUME NEW t, ListParams(t) PROVE Untold
    BY <1>1, <1>6 DEF ListParams, Returns, Answer, Untold
  <1>7. ASSUME NEW t, NEW p, FileTypeParam(t, p) PROVE Untold
    BY <1>1, <1>7 DEF FileTypeParam, Returns, Answer, Untold
  <1>8. ASSUME Reset PROVE Untold
    <2>1. IsHandler(handler)
      BY DEF PaintInv, Ready
    <2>2. Clear(handler).special = handler.special
      BY <2>1 DEF Clear, IsHandler, HandlerFields
    <2> QED
      BY <1>1, <1>8, <2>2 DEF Reset, Returns, Answer, Untold
  <1>9. ASSUME NEW class, NEW name, SetHRD(class, name) PROVE Untold
    <2> DEFINE node == GetHrdNode(hrds, class, name)
               fails == node = <<>> \/ (node # <<>> /\ ~Loadable(node[1]))
               m == FillMapper(node[1])
    <2>1. CASE fails
      <3>1. answer' = Nil /\ lib' = lib /\ handler' = handler
        BY <1>9, <2>1 DEF SetHRD, Fatal
      <3> QED
        BY <1>1, <3>1 DEF Untold, Nil
    <2>2. CASE ~fails
      <3>1. handler' = PutMapper(handler, m) /\ lib' = LoadFileType(lib, "def") /\ answer'.call = "set"
        BY <1>9, <2>2 DEF SetHRD, Returns, Answer
      <3> HIDE DEF m, node
      <3>2. IsHandler(handler)
        BY DEF PaintInv, Ready
      <3>3. handler'.outline = handler.outline /\ handler'.special = Declared("def:Special")
        BY <3>1, <3>2 DEF PutMapper, IsHandler, HandlerFields
      <3>4. SameTypes(lib', lib)
        BY <1>2, <3>1, LoadTypes
      <3> QED
        BY <3>1, <3>3, <3>4 DEF Untold, Declared
    <2> QED
      BY <2>1, <2>2
  <1>10. ASSUME NEW t, lib' = LoadFileType(lib, t) PROVE SameTypes(lib', lib)
    BY <1>2, <1>10, LoadTypes
  <1>11. ASSUME NEW file, NEW first, SelectType(file, first) PROVE Untold
    <2>1. handler' = handler /\ answer'.call # "outline"
      BY <1>11 DEF SelectType, Returns, Answer, Fatal, Nil
    <2>2. SameTypes(lib', lib)
      BY <1>1, <1>10, <1>11 DEF SelectType, GiveType
    <2> QED
      BY <2>1, <2>2 DEF Untold
  <1>12. ASSUME NEW t, SetFileType(t) PROVE Untold
    <2>1. handler' = handler /\ answer'.call # "outline"
      BY <1>12 DEF SetFileType, Returns, Answer, Fatal, Nil
    <2>2. SameTypes(lib', lib)
      BY <1>1, <1>10, <1>12 DEF SetFileType, GiveType
    <2> QED
      BY <2>1, <2>2 DEF Untold
  <1>13. ASSUME NEW t, LoadType(t) PROVE Untold
    <2>1. handler' = handler /\ answer'.call # "outline"
      BY <1>13 DEF LoadType, Returns, Answer, Fatal, Nil
    <2>2. SameTypes(lib', lib)
      BY <1>1, <1>10, <1>13 DEF LoadType
    <2> QED
      BY <2>1, <2>2 DEF Untold
  <1>14. ASSUME NEW t, NEW p, NEW v, SetParam(t, p, v) PROVE Untold
    <2>1. handler' = handler /\ answer'.call # "outline"
      BY <1>14 DEF SetParam, Returns, Answer
    <2>2. lib' = lib \/ (t \in DOMAIN lib.types /\ lib' = SetFileTypeParam(lib, t, p, v))
      BY <1>14 DEF SetParam, Has
    <2>3. SameTypes(lib', lib)
      BY <1>1, <1>2, <2>2, WriteTypes
    <2> QED
      BY <2>1, <2>3 DEF Untold
  <1>15. ASSUME NEW t, NEW p, ResetParam(t, p) PROVE Untold
    <2>1. handler' = handler /\ answer'.call # "outline"
      BY <1>15 DEF ResetParam, Returns, Answer
    <2>2. \/ lib' = lib
          \/ t \in DOMAIN lib.types /\ ~Lacks(lib, t, p) /\ lib' = ResetFileTypeParam(lib, t, p)
      BY <1>15 DEF ResetParam, Has
    <2>3. ~Lacks(lib, t, p) => p \in DOMAIN lib.types[t].params
      BY DEF Lacks, GetParamValue, ParamsOf
    <2>4. SameTypes(lib', lib)
      BY <1>1, <1>2, <2>2, <2>3, WriteTypes
    <2> QED
      BY <2>1, <2>4 DEF Untold
  <1> QED
    BY <1>3, <1>4, <1>5, <1>6, <1>7, <1>8, <1>9, <1>11, <1>12, <1>13, <1>14, <1>15

-----------------------------------------------------------------------------
(* The invariant holds at first, and every step keeps it. *)

LEMMA TokensInit == Init => TokensInv /\ TokensReported
  <1> SUFFICES ASSUME Init PROVE TokensInv /\ TokensReported
    OBVIOUS
  <1>1. stage = "new" /\ handler = NewHandler /\ text = <<>>
    BY DEF Init
  <1>2. handler.special = NoRegion
    BY <1>1 DEF NewHandler
  <1> QED
    BY <1>1, <1>2 DEF TokensInv, SpecialKnown, OutlineKnown, TokensReported, LineKnown

LEMMA TokensSetUp ==
  ASSUME TokensInv, SetUp
  PROVE  TokensInv' /\ TokensReported'
  <1>1. handler' = handler /\ handler.special = NoRegion /\ text' = <<>>
    BY DEF TokensInv, SetUp
  <1> QED
    BY <1>1 DEF TokensInv, SpecialKnown, OutlineKnown, TokensReported, LineKnown

(* A step that changes nothing.                                            *)
LEMMA TokensStutter ==
  ASSUME TokensInv, TokensReported, UNCHANGED vars
  PROVE  TokensInv' /\ TokensReported'
  <1>1. /\ stage' = stage /\ handler' = handler /\ text' = text /\ current' = current /\ lib' = lib
        /\ answer' = answer
    BY DEF vars
  <1>2. Tokens' = Tokens
    BY <1>1, TellNext, TokensAre
  <1>3. LineOpen' = LineOpen
    BY <1>2 DEF LineOpen
  <1>4. TokensInv'
    BY <1>1, <1>2, <1>3 DEF TokensInv, SpecialKnown, OutlineKnown, LineKnown
  <1>5. \A roots : Matches(roots)' = Matches(roots)
    BY <1>1, <1>2, <1>3, TellNow, TellNext DEF TellIs, HitsNow
  <1>6. \A i : PairAt(i)' = PairAt(i)
    BY <1>1, <1>2, <1>3, TellNow, TellNext DEF TellIs
  <1>7. \A kind, root : ItemOf(kind, root)' = ItemOf(kind, root)
    BY <1>2, <1>3, <1>5, TellNow, TellNext DEF TellIs
  <1>8. TokensReported'
    BY <1>1, <1>5, <1>6, <1>7 DEF TokensReported, LineKnown
  <1> QED
    BY <1>4, <1>8

LEMMA TokensNext ==
  ASSUME PaintInv, ParamsInv, TokensInv, TokensReported, [Next]_vars
  PROVE  TokensInv' /\ TokensReported'
  <1>1. CASE NewSession \/ LoadUserPath \/ Opened
    BY <1>1, SetUpSteps, TokensSetUp
  <1>2. ASSUME NEW line \in Lines, ParseLine(line) PROVE TokensInv' /\ TokensReported'
    BY <1>2, LineTellsTokens
  <1>3. CASE LineOutline
    BY <1>3, OutlineTells
  <1>4. ASSUME Untold PROVE TokensInv' /\ TokensReported'
    BY <1>4, UntoldKeeps
  <1>5. CASE UNCHANGED vars
    BY <1>5, TokensStutter
  <1> QED
    BY <1>1, <1>2, <1>3, <1>4, <1>5, UnpaintedMethods, UntoldMethods DEF Next

(* A client is told every pair of a line and every function and error of   *)
(* its outline: TokensReported, for every catalog, every set of user       *)
(* files, every grammar of marks and blocks, and every sequence of         *)
(* methods, however long.                                                  *)
THEOREM TokensAreReported == Spec => []TokensReported
  <1>1. Init => ParamsInv /\ ParamsReported /\ PaintInv /\ LinePainted /\ TokensInv /\ TokensReported
    BY ParamsInit, PaintInit, TokensInit
  <1>2. /\ ParamsInv /\ ParamsReported /\ PaintInv /\ LinePainted /\ TokensInv /\ TokensReported
        /\ [Next]_vars
        => /\ ParamsInv' /\ ParamsReported' /\ PaintInv' /\ LinePainted'
           /\ TokensInv' /\ TokensReported'
    BY ParamsNext, PaintNext, TokensNext
  <1> QED
    BY <1>1, <1>2, PTL DEF Spec
=============================================================================
