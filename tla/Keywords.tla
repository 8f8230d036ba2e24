------------------------------ MODULE Keywords ------------------------------
(***************************************************************************)
(* The keyword lists of a scheme: how the <keywords> elements become       *)
(* sorted lists (parseSchemeKeywords, KeywordList), how neighbouring lists *)
(* are merged (mergeSearchKeywords), and the binary search for a keyword   *)
(* at a place of a line (searchKW), one round of it a step.                *)
(*                                                                         *)
(* An element is [words, ignorecase, worddiv]; a keyword [word, region,    *)
(* symbol], its word a sequence of characters and its region the address   *)
(* of a Region.  Positions of a list count from one, 0 is no keyword.      *)
(***************************************************************************)
EXTENDS Integers, Sequences, FiniteSets, SequencesExt, TLC

CONSTANTS
  Rank,        \* character -> its place in the order of code units
  SmallLetter, \* character -> the same in lower case
  WordChars,   \* letters, digits and the underscore
  SevenBit,    \* characters below 128
  NoDiv,       \* an element without worddiv
  Schemes,     \* schemes: sequences of elements
  Texts        \* lines

VARIABLES
  scheme,      \* the elements
  nodes,       \* searchNodes
  text, gx, low, \* the line, the place and the end the search may use
  node,        \* which of the nodes is tried
  left, right, \* the keywords still in question
  found,       \* [region, length] or <<>>
  at           \* "idle", "next", "search" or "done"

kwVars == <<scheme, nodes, text, gx, low, node, left, right, found, at>>

-----------------------------------------------------------------------------
(* Lists. *)

(* UnicodeString::compare: -1, 0 or 1.                                     *)
Compare(a, b) ==
  LET Shorter == IF Len(a) < Len(b) THEN Len(a) ELSE Len(b)
      differ == SelectInSeq([i \in 1 .. Shorter |-> a[i] # b[i]], LAMBDA d : d)
      Sign(x, y) == IF x < y THEN -1 ELSE IF x = y THEN 0 ELSE 1
  IN  IF differ > 0 THEN Sign(Rank[a[differ]], Rank[b[differ]]) ELSE Sign(Len(a), Len(b))

LowerCase(word) == [i \in DOMAIN word |-> SmallLetter[word[i]]]

(* std::stable_sort and std::unique.                                       *)
Sorted(list, Before(_, _)) ==
  LET Earlier(i, j) ==
        Before(list[i], list[j]) \/ (~Before(list[j], list[i]) /\ i < j)
      order == SortSeq([i \in DOMAIN list |-> i], Earlier)
  IN  [i \in DOMAIN list |-> list[order[i]]]

Unique(list, Same(_, _)) ==
  LET keep == SelectSeq([i \in DOMAIN list |-> i], LAMBDA i : i = 1 \/ ~Same(list[i - 1], list[i]))
  IN  [i \in DOMAIN keep |-> list[keep[i]]]

(* addSchemeKeyword                                                        *)
AddSchemeKeyword(list, k, ignorecase) ==
  IF k.word = <<>> THEN list
  ELSE Append(list, [k EXCEPT !.word = IF ignorecase THEN LowerCase(@) ELSE @])

(* sortList                                                                *)
SortList(list) ==
  LET Key(a, b) ==
        LET cmp == Compare(a.word, b.word)
        IN  cmp < 0 \/ (cmp = 0 /\ (a.region < b.region
                                     \/ (a.region = b.region /\ ~a.symbol /\ b.symbol)))
  IN  Unique(Sorted(list, Key), LAMBDA a, b : a = b)

(* Mutant: only the keyword right before counts.                           *)
ShorterBefore(list, i) ==
  IF i > 1 /\ IsStrictPrefix(list[i - 1].word, list[i].word) THEN i - 1 ELSE 0

(* substrIndex: the last keyword before that this one begins with.         *)
IndexOfShorter(list, i) ==
  SelectLastInSubSeq(list, 1, i - 1, LAMBDA k : IsStrictPrefix(k.word, list[i].word))

(* A list with what substrIndex works out.                                 *)
Indexed(list, ignorecase, worddiv) ==
  [list |-> list, ignorecase |-> ignorecase, worddiv |-> worddiv,
   shorter |-> [i \in DOMAIN list |-> IndexOfShorter(list, i)]]

ParseSchemeKeywords(e) ==
  Indexed(SortList(FoldLeft(LAMBDA l, k : AddSchemeKeyword(l, k, e.ignorecase), <<>>, e.words)),
          e.ignorecase, e.worddiv)

-----------------------------------------------------------------------------
(* Merged lists. *)

KeywordsMergeable(a, b) ==
  a.ignorecase = b.ignorecase /\ a.worddiv = NoDiv /\ b.worddiv = NoDiv

(* The first of two keywords that are the same wins, whatever its region.  *)
MergeKeywordNodes(a, b) ==
  LET Key(k, l) ==
        LET cmp == Compare(k.word, l.word) IN cmp < 0 \/ (cmp = 0 /\ ~k.symbol /\ l.symbol)
      Same(k, l) == k.word = l.word /\ k.symbol = l.symbol
  IN  Indexed(Unique(Sorted(a.list \o b.list, Key), Same), a.ignorecase, NoDiv)

(* mergeSearchKeywords: runs of lists that may be merged; an empty one is  *)
(* left out.  (Merging a run two by two gives what merging all does.)      *)
MergeSearchKeywords(ns) ==
  FoldLeft(LAMBDA done, n :
             IF n.list = <<>> THEN done
             ELSE IF done # <<>> /\ KeywordsMergeable(Last(done), n)
                  THEN Append(Front(done), MergeKeywordNodes(Last(done), n))
             ELSE Append(done, n),
           <<>>, ns)

KeywordNodes(s) == MergeSearchKeywords([i \in DOMAIN s |-> ParseSchemeKeywords(s[i])])

-----------------------------------------------------------------------------
(* searchKW. *)

current_node == nodes[node]

(* str, or str_lowercase.                                                  *)
UseStr(n) == IF n.ignorecase THEN LowerCase(text) ELSE text

(* A character next to a word that cuts it short.                          *)
JoinsWord(n, c) == IF n.worddiv = NoDiv THEN c \in WordChars ELSE c \notin n.worddiv

LeftBoundBad(n) == gx > 0 /\ JoinsWord(n, UseStr(n)[gx])

RightBoundBad(n, length) == gx + length < low /\ JoinsWord(n, UseStr(n)[gx + length + 1])

MinKeywordLength(n) ==
  CHOOSE l \in {Len(n.list[i].word) : i \in DOMAIN n.list} :
    \A i \in DOMAIN n.list : l <= Len(n.list[i].word)

(* asciiBegin and asciiEnd: the keywords that begin with a character.      *)
Slice(n, c) ==
  LET Begins(k) == k.word[1] = c
  IN  IF c \in SevenBit
      THEN <<SelectInSeq(n.list, Begins), SelectLastInSeq(n.list, Begins) + 1>>
      ELSE <<1, Len(n.list) + 1>>

(* The tests before the search.                                            *)
Excluded(n) ==
  \/ MinKeywordLength(n) + gx > low
  \/ LeftBoundBad(n) /\ \A i \in DOMAIN n.list : ~n.list[i].symbol
  \/ \A i \in DOMAIN n.list : n.list[i].word[1] # UseStr(n)[gx + 1]

BeginSearchKW ==
  /\ at = "next" /\ node <= Len(nodes)
  /\ IF Excluded(current_node)
     THEN node' = node + 1 /\ UNCHANGED <<left, right, at>>
     ELSE /\ LET slice == Slice(current_node, UseStr(current_node)[gx + 1])
             IN  left' = slice[1] /\ right' = slice[2]
          /\ at' = "search" /\ UNCHANGED node
  /\ UNCHANGED <<scheme, nodes, text, gx, low, found>>

(* One round: the keyword in the middle against the line.                  *)
SearchKW ==
  /\ at = "search"
  /\ LET n == current_node
         pos == left + (right - left) \div 2
         k == n.list[pos]
         length == IF low < gx + Len(k.word) THEN low - gx ELSE Len(k.word)
         cmp == Compare(SubSeq(UseStr(n), gx + 1, gx + length), k.word)
         one == right - left = 1
         matched == cmp = 0 /\ one /\ (k.symbol \/ ~(LeftBoundBad(n) \/ RightBoundBad(n, length)))
     IN  CASE matched ->
                /\ found' = <<k.region, length>> /\ at' = "done"
                /\ UNCHANGED <<left, right, node>>
           [] ~matched /\ one /\ n.shorter[pos] = 0 ->
                /\ node' = node + 1 /\ at' = "next" /\ UNCHANGED <<left, right, found>>
           [] ~matched /\ one /\ n.shorter[pos] # 0 ->
                /\ left' = n.shorter[pos] /\ right' = n.shorter[pos] + 1
                /\ UNCHANGED <<node, at, found>>
           [] ~one ->
                /\ IF cmp < 0 THEN right' = pos /\ UNCHANGED left ELSE left' = pos /\ UNCHANGED right
                /\ UNCHANGED <<node, at, found>>
  /\ UNCHANGED <<scheme, nodes, text, gx, low>>

(* No list has a keyword here.                                             *)
NoKeyword ==
  /\ at = "next" /\ node > Len(nodes) /\ at' = "done"
  /\ UNCHANGED <<scheme, nodes, text, gx, low, node, left, right, found>>

NoSearch ==
  /\ scheme = <<>> /\ nodes = <<>> /\ text = <<>> /\ gx = 0 /\ low = 0
  /\ node = 1 /\ left = 0 /\ right = 0 /\ found = <<>> /\ at = "idle"

InitSearch ==
  /\ scheme \in Schemes /\ text \in Texts
  /\ \E ns \in {KeywordNodes(scheme)} : nodes = ns
  /\ gx \in 0 .. Len(text) - 1 /\ low \in gx + 1 .. Len(text)
  /\ node = 1 /\ left = 0 /\ right = 0 /\ found = <<>> /\ at = "next"

NextSearch == BeginSearchKW \/ SearchKW \/ NoKeyword

-----------------------------------------------------------------------------
(* Properties. *)

(* A keyword of an element stands at gx.                                   *)
Stands(e, k) ==
  LET Case(s) == IF e.ignorecase THEN LowerCase(s) ELSE s
      end == gx + Len(k.word)
  IN  /\ k.word # <<>> /\ end <= low /\ Case(SubSeq(text, gx + 1, end)) = Case(k.word)
      /\ \/ k.symbol
         \/ /\ gx > 0 => ~JoinsWord(e, Case(text)[gx])
            /\ end < low => ~JoinsWord(e, Case(text)[end + 1])

(* The keywords of an element that stand there.                            *)
Standing(i) ==
  {[element |-> i, keyword |-> k] : k \in {k \in ToSet(scheme[i].words) : Stands(scheme[i], k)}}

(* One spelling, one region: where an element gives a word two regions,    *)
(* their addresses decide which is found.                                  *)
Spelled(e, k) == IF e.ignorecase THEN LowerCase(k.word) ELSE k.word
OneRegion ==
  \A i \in DOMAIN scheme : \A k, l \in ToSet(scheme[i].words) :
    Spelled(scheme[i], k) = Spelled(scheme[i], l) => k.region = l.region

(* The search with its slices, early returns and indexes finds what the    *)
(* lists say: the longest keyword that stands at the place with bounds     *)
(* where it needs them, from the first run of lists that has one, a symbol *)
(* rather than a word and the region of the element that lists it first    *)
(* (KeywordList::substrIndex: "Searches previous elements num with same    *)
(* partial name").                                                         *)
KeywordsAsListed ==
  at = "done" /\ OneRegion =>
    LET hits == {i \in DOMAIN scheme : Standing(i) # {}}
        first == CHOOSE i \in hits : \A j \in hits : i <= j
        run == {j \in DOMAIN scheme :
                  \A x \in (IF j < first THEN j ELSE first) .. (IF j < first THEN first ELSE j) :
                    x = first \/ scheme[x].words = <<>> \/ KeywordsMergeable(scheme[x], scheme[first])}
        all == UNION {Standing(j) : j \in run}
        longest == {h \in all : \A g \in all : Len(g.keyword.word) <= Len(h.keyword.word)}
        symbols == {h \in longest : h.keyword.symbol}
        best == IF symbols # {} THEN symbols ELSE longest
    IN  IF hits = {} THEN found = <<>>
        ELSE \E h \in best :
               /\ \A g \in best : h.element <= g.element
               /\ found = <<h.keyword.region, Len(h.keyword.word)>>
=============================================================================
