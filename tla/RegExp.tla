------------------------------- MODULE RegExp -------------------------------
(***************************************************************************)
(* CRegExp: how a pattern becomes a tree (setStructs), what is worked out  *)
(* about the tree to reject a text early (optimize), and the matcher that  *)
(* walks the tree with an explicit stack (lowParse) at one position or at  *)
(* each in turn (parseRE).                                                 *)
(*                                                                         *)
(* A pattern is the sequence of its tokens, each a string: a character, a  *)
(* class, a meta symbol, a bracket or a postfix operator.  A chain is a    *)
(* sequence of nodes; a node is named by its path from the root, the null  *)
(* pointer is <<>>.  Every parse is done twice, first without and then     *)
(* with the early rejections.                                              *)
(***************************************************************************)
EXTENDS Integers, Sequences, FiniteSets, SequencesExt, Functions

CONSTANTS
  Alphabet, Ascii, Letters, Breaks, \* characters; the others are their subsets
  Lower, Upper, \* Alphabet -> Alphabet: toLowerCase, toUpperCase
  Classes,    \* character classes: token -> set of characters
  Patterns,   \* the patterns, sequences of tokens
  Flags,      \* sets of flags "i", "s", "m"
  Lines,      \* the texts
  Traces,     \* what group 1 of the back traced expression matched
  Shrink,     \* eol is at most this much before the end of the line
  MaxGroups,  \* MATCHES_NUM
  MaxRequired, \* MAX_REQUIRED_SETS
  StepLimit   \* parseStepLimit

VARIABLES
  tree, flags, groups,                 \* the compiled expression
  line, eol, start, schemeStart, trace, moves, \* arguments of parse()
  pc, fast, pos,                       \* where parseRE is
  re, toParse, leftenter, action, stack, counters, \* lowParse
  s, e, startChange, endChange,        \* SMatches of each group
  steps,                               \* parseSteps
  plain                                \* the outcome without early rejections

expression == <<tree, flags, groups>>
arguments == <<line, eol, start, schemeStart, trace, moves>>
matches == <<s, e, startChange, endChange>>
machine == <<re, toParse, leftenter, action, stack, counters>>
regexpVars == <<expression, arguments, pc, fast, pos, machine, matches, steps, plain>>

Has(flag) == flag \in flags

-----------------------------------------------------------------------------
(* setStructs. *)

Node(op, arg, lo, hi) == [op |-> op, arg |-> arg, s |-> lo, e |-> hi, sub |-> <<>>]
Empty == Node("Empty", 0, 0, 0)

Metas == {".", "^", "~", "$", "\\w", "\\W", "\\b", "\\B", "\\c", "\\m", "\\M"}

(* Postfix operators; a look behind carries its distance in arg.           *)
Operators ==
  [t \in {"|", "*", "+", "{2,}", "?", "{2}", "{1,2}", "*?", "+?", "??", "{1,2}?",
          "?=", "?!", "?#1", "?~1"} |->
     CASE t = "|" -> Node("Or", 0, 0, 0)
       [] t = "*" -> Node("RangeN", 0, 0, -1)
       [] t = "+" -> Node("RangeN", 0, 1, -1)
       [] t = "{2,}" -> Node("RangeN", 0, 2, -1)
       [] t = "?" -> Node("RangeNM", 0, 0, 1)
       [] t = "{2}" -> Node("RangeNM", 0, 2, 2)
       [] t = "{1,2}" -> Node("RangeNM", 0, 1, 2)
       [] t = "*?" -> Node("NGRangeN", 0, 0, -1)
       [] t = "+?" -> Node("NGRangeN", 0, 1, -1)
       [] t = "??" -> Node("NGRangeNM", 0, 0, 1)
       [] t = "{1,2}?" -> Node("NGRangeNM", 0, 1, 2)
       [] t = "?=" -> Node("Ahead", 0, 0, 0)
       [] t = "?!" -> Node("NAhead", 0, 0, 0)
       [] t = "?#1" -> Node("Behind", 1, 0, 0)
       [] t = "?~1" -> Node("NBehind", 1, 0, 0)]

Lexeme(t) ==
  CASE t \in DOMAIN Operators -> Operators[t]
    [] t \in Metas -> Node("MetaSymb", t, 0, 0)
    [] t \in DOMAIN Classes -> Node("Enum", t, 0, 0)
    [] t = "\\1" -> Node("BkBrack", 1, 0, 0)
    [] t = "\\y1" -> Node("BkTrace", 1, 0, 0)
    [] t = "\\Y1" -> Node("BkTraceN", 1, 0, 0)
    [] OTHER -> Node("Symb", t, 0, 0)

Postfix(x) == x.op \in {"Or", "RangeN", "RangeNM", "NGRangeN", "NGRangeNM", "Ahead", "NAhead",
                        "Behind", "NBehind"}
Groups == {"Brackets", "NamedBrackets"}
Ranges == {"RangeN", "RangeNM", "NGRangeN", "NGRangeNM"}
Looks == {"Ahead", "NAhead", "Behind", "NBehind"}

(* Two symbols or more become a word, without the one an operator takes.   *)
RECURSIVE Words(_)
Words(xs) ==
  LET other == {i \in DOMAIN xs : xs[i].op # "Symb"}
      run == IF other = {} THEN Len(xs) ELSE (CHOOSE i \in other : \A j \in other : i <= j) - 1
      size == IF run < Len(xs) /\ Postfix(xs[run + 1]) THEN run - 1 ELSE run
  IN  IF xs = <<>> THEN <<>>
      ELSE IF size > 1
      THEN <<Node("Word", [i \in 1 .. size |-> xs[i].arg], 0, 0)>>
             \o Words(SubSeq(xs, size + 1, Len(xs)))
      ELSE <<Head(xs)>> \o Words(Tail(xs))

(* An alternative left out is empty.                                       *)
Alternatives(xs) ==
  FlattenSeq([i \in DOMAIN xs |->
    IF xs[i].op # "Or" THEN <<xs[i]>>
    ELSE (IF i = 1 THEN <<Empty>> ELSE <<>>) \o <<xs[i]>>
           \o (IF i = Len(xs) \/ Postfix(xs[i + 1]) THEN <<Empty>> ELSE <<>>)])

(* An operator takes the element before it, | all since the last |.        *)
Taken(chain, x) ==
  LET ors == {i \in DOMAIN chain : chain[i].op = "Or"}
      kept == IF x.op = "Or" THEN (IF ors = {} THEN 0 ELSE CHOOSE i \in ors : \A j \in ors : j <= i)
              ELSE Len(chain) - 1
  IN  IF ~Postfix(x) THEN Append(chain, x)
      ELSE Append(SubSeq(chain, 1, kept), [x EXCEPT !.sub = SubSeq(chain, kept + 1, Len(chain))])

(* The chain of the elements; <<>> is an error (EOP).                      *)
Chain(xs) ==
  LET filled == Alternatives(Words(xs))
  IN  IF xs = <<>> THEN <<Empty>>
      ELSE IF Postfix(filled[1]) THEN <<>> ELSE FoldLeft(Taken, <<>>, filled)

(* The elements up to the closing bracket; the number of groups so far.    *)
RECURSIVE Structs(_, _, _, _)
Structs(tokens, i, n, xs) ==
  IF i > Len(tokens) \/ tokens[i] = ")"
  THEN [at |-> i, groups |-> n, chain |-> Chain(xs)]
  ELSE IF tokens[i] \in {"(", "(?:"}
  THEN LET group == tokens[i] = "(" /\ n < MaxGroups
           in == Structs(tokens, i + 1, IF group THEN n + 1 ELSE n, <<>>)
           op == IF tokens[i] = "(" THEN "Brackets" ELSE "NamedBrackets"
           node == [Node(op, IF group THEN n ELSE -1, 0, 0) EXCEPT !.sub = in.chain]
       IN  IF in.chain = <<>> \/ in.at > Len(tokens) THEN [in EXCEPT !.chain = <<>>]
           ELSE Structs(tokens, in.at + 1, in.groups, Append(xs, node))
  ELSE Structs(tokens, i + 1, n, Append(xs, Lexeme(tokens[i])))

(* setRELow: the whole is group 0; <<>> if the pattern is not correct.     *)
Compiled(tokens) ==
  LET all == Structs(tokens, 1, 1, <<>>)
  IN  [tree |-> IF all.chain = <<>> \/ all.at <= Len(tokens) THEN <<>>
                ELSE <<[Node("Brackets", 0, 0, 0) EXCEPT !.sub = all.chain]>>,
       groups |-> all.groups]

-----------------------------------------------------------------------------
(* Characters and meta symbols. *)

MatchChars(a, b) == a = b \/ (Has("i") /\ Lower[a] = Lower[b])
Class(token) ==
  LET c == Classes[token]
  IN  IF Has("i") THEN c \cup {Lower[x] : x \in c} \cup {Upper[x] : x \in c} ELSE c

Char(i) == line[i + 1]
LetterAt(i) == i >= 0 /\ i < eol /\ Char(i) \in Letters

(* The characters a consuming meta symbol takes.                           *)
Consuming == {".", "\\w", "\\W"}
Takes(meta) ==
  CASE meta = "." -> IF Has("s") THEN Alphabet ELSE Alphabet \ Breaks
    [] meta = "\\w" -> Letters
    [] meta = "\\W" -> Alphabet \ Letters

(* Zero-width meta symbols; \m and \M hold anywhere, and have an effect.   *)
Holds(meta, at) ==
  CASE meta = "^" -> at = 0 \/ (Has("m") /\ Char(at - 1) \in Breaks)
    [] meta = "$" -> at = eol \/ (Has("m") /\ at > 0 /\ at < eol /\ Char(at - 1) \in Breaks)
    [] meta = "~" -> at = schemeStart
    [] meta = "\\b" -> LetterAt(at - 1) # LetterAt(at)
    [] meta = "\\B" -> LetterAt(at - 1) = LetterAt(at)
    [] meta = "\\c" -> at = 0 \/ at >= eol \/ ~LetterAt(at - 1)
    [] OTHER -> TRUE

(* How far a node of one character or more gets from at; -1: it does not.  *)
Span(node, at) ==
  LET one(set) == IF at < eol /\ Char(at) \in set THEN at + 1 ELSE -1
      copy(word, same(_, _)) ==
        IF at + Len(word) <= eol /\ \A i \in DOMAIN word : same(Char(at + i - 1), word[i])
        THEN at + Len(word) ELSE -1
      exact(a, b) == a = b
      folded(a, b) == Lower[a] = Lower[b]
  IN  CASE node.op = "Symb" -> one({c \in Alphabet : MatchChars(c, node.arg)})
        [] node.op = "Enum" -> one(Class(node.arg))
        [] node.op = "MetaSymb" -> one(Takes(node.arg))
        [] node.op = "Word" -> copy(node.arg, MatchChars)
        [] node.op = "BkTrace" -> copy(trace, exact)
        [] node.op = "BkTraceN" -> copy(trace, folded)

Atoms == {"Symb", "Enum", "Word", "BkTrace", "BkTraceN"}
IsAtom(node) == node.op \in Atoms \/ (node.op = "MetaSymb" /\ node.arg \in Consuming)

-----------------------------------------------------------------------------
(* optimize: what is worked out about a chain. *)

(* The first characters of a match, and whether it may take none.          *)
FirstOf(node) ==
  LET letter(c) == (IF Has("i") THEN {c, Lower[c], Upper[c]} ELSE {c}) \cap Ascii
  IN  CASE node.op = "Symb" -> [mask |-> IF node.arg \in Ascii THEN letter(node.arg) ELSE {},
                                nullable |-> FALSE]
        [] node.op = "Word" -> [mask |-> IF node.arg[1] \in Ascii THEN letter(node.arg[1]) ELSE {},
                                nullable |-> FALSE]
        [] node.op = "Enum" -> [mask |-> Class(node.arg) \cap Ascii, nullable |-> FALSE]
        [] node.op = "MetaSymb" ->
             IF node.arg \in Consuming THEN [mask |-> Takes(node.arg) \cap Ascii, nullable |-> FALSE]
             ELSE [mask |-> {}, nullable |-> TRUE]
        [] node.op \in Looks \cup {"Empty"} -> [mask |-> {}, nullable |-> TRUE]
        [] OTHER -> [mask |-> Ascii, nullable |-> FALSE]

RECURSIVE FirstChars(_)
FirstChars(chain) ==
  LET node == chain[1]
      in == FirstChars(node.sub)
      rest == FirstChars(Tail(chain))
      first == IF node.op \in Groups \/ node.op = "Or" THEN in
               ELSE IF node.op \in Ranges THEN [in EXCEPT !.nullable = @ \/ node.s = 0]
               ELSE FirstOf(node)
  IN  IF chain = <<>> THEN [mask |-> {}, nullable |-> TRUE]
      ELSE IF node.op = "Or"
      THEN [mask |-> first.mask \cup rest.mask, nullable |-> first.nullable \/ rest.nullable]
      ELSE IF first.nullable
      THEN [mask |-> first.mask \cup rest.mask, nullable |-> rest.nullable]
      ELSE first

Useful(first) == ~first.nullable /\ first.mask # Ascii

(* branchFirst of an alternative: it is used only if what the alternative  *)
(* begins with, brackets aside, takes a character.                         *)
RECURSIVE Leading(_)
Leading(chain) ==
  IF chain[1].op \in Groups THEN Leading(chain[1].sub)
  ELSE IF chain[1].op = "Or" THEN chain ELSE <<chain[1]>>

BranchExcludes(node, c) ==
  LET first == FirstChars(node.sub)
  IN  /\ Useful(first) /\ ~FirstChars(Leading(node.sub)).nullable
      /\ c \in Ascii \ first.mask

(* firstNode, to be looked at before the matcher is started: the first     *)
(* that takes a character, or the last before something else.              *)
RECURSIVE FirstNode(_, _)
FirstNode(chain, found) ==
  LET node == chain[1]
  IN  IF chain = <<>> THEN found
      ELSE IF node.op = "Brackets" THEN FirstNode(node.sub, found)
      ELSE IF node.op \in Looks THEN FirstNode(Tail(chain), found)
      ELSE IF node.op = "MetaSymb" /\ node.arg \notin Consuming THEN FirstNode(Tail(chain), node)
      ELSE IF node.op \in {"MetaSymb", "Symb", "Word", "Enum"} THEN node
      ELSE found

RECURSIVE StartAnchor(_)
StartAnchor(chain) ==
  IF chain[1].op \in Groups THEN StartAnchor(chain[1].sub)
  ELSE IF chain[1].op # "MetaSymb" THEN "None"
  ELSE IF chain[1].arg = "^" /\ ~Has("m") THEN "LineStart"
  ELSE IF chain[1].arg = "~" THEN "SchemeStart" ELSE "None"

(* Mutant: the last branch decides for all of them.                        *)
RECURSIVE EndsLast(_)
EndsLast(chain) ==
  IF Last(chain).op \in Groups THEN EndsLast(Last(chain).sub)
  ELSE Last(chain).op = "MetaSymb" /\ Last(chain).arg = "$"

RECURSIVE EndAnchor(_)
EndAnchor(chain) ==
  /\ ~Has("m") /\ \A i \in DOMAIN chain : chain[i].op # "Or"
  /\ IF Last(chain).op \in Groups THEN EndAnchor(Last(chain).sub)
     ELSE Last(chain).op = "MetaSymb" /\ Last(chain).arg = "$"

Unbounded == -1
AddBounded(a, b) == IF a = Unbounded \/ b = Unbounded THEN Unbounded ELSE a + b

RECURSIVE MaxLen(_)
MaxLen(chain) ==
  LET node == chain[1]
      in == MaxLen(node.sub)
      rest == MaxLen(Tail(chain))
      longer == IF in > rest THEN in ELSE rest
      len == CASE node.op \in {"Symb", "Enum"} -> 1
               [] node.op = "Word" -> Len(node.arg)
               [] node.op = "MetaSymb" -> IF node.arg \in Consuming THEN 1 ELSE 0
               [] node.op \in Groups -> in
               [] node.op \in {"RangeNM", "NGRangeNM"} ->
                    IF in = Unbounded THEN Unbounded ELSE node.e * in
               [] node.op \in Looks \cup {"Empty"} -> 0
               [] OTHER -> Unbounded
  IN  IF chain = <<>> THEN 0
      ELSE IF node.op = "Or"
      THEN IF in = Unbounded \/ rest = Unbounded THEN Unbounded ELSE longer
      ELSE AddBounded(len, rest)

(* The sets of characters of each of which every match has one.  Under /i  *)
(* a letter may stand for another outside of Ascii.                        *)
Selective(sets) ==
  LET by == SortSeq(SetToSeq(sets), LAMBDA a, b : Cardinality(a) < Cardinality(b))
  IN  ToSet(SubSeq(by, 1, IF Len(by) < MaxRequired THEN Len(by) ELSE MaxRequired))

RECURSIVE Required(_)
Required(chain) ==
  LET node == chain[1]
      in == Required(node.sub)
      rest == Required(Tail(chain))
      letter(c) == IF c \in Ascii /\ ~(Has("i") /\ c \in Letters) THEN {{c}} ELSE {}
      own == CASE node.op = "Symb" -> letter(node.arg)
               [] node.op = "Word" -> UNION {letter(c) : c \in ToSet(node.arg)}
               [] node.op \in Groups \cup {"Ahead", "Behind"} -> in
               [] node.op \in Ranges -> IF node.s > 0 THEN in ELSE {}
               [] OTHER -> {}
  IN  IF chain = <<>> THEN {}
      ELSE IF node.op = "Or" THEN Selective({a \cup b : a \in in, b \in rest})
      ELSE own \cup rest

-----------------------------------------------------------------------------
(* lowParse: one turn of its loop is one step. *)

NodeAt(p) ==
  LET f[i \in 1 .. Len(p)] == IF i = 1 THEN tree[p[1]] ELSE f[i - 1].sub[p[i]]
  IN  f[Len(p)]
ChainLen(p) == IF Len(p) = 1 THEN 1 ELSE Len(NodeAt(Front(p)).sub)
HasNext(p) == Last(p) < ChainLen(p)
Sibling(p, i) == Append(Front(p), i)

(* The node after p, or its parent, which is then left; <<>> is the end.   *)
Onward(p) ==
  IF HasNext(p) THEN re' = Sibling(p, Last(p) + 1) /\ leftenter' = TRUE
  ELSE re' = Front(p) /\ leftenter' = FALSE

Into(p) == re' = Append(p, 1) /\ leftenter' = TRUE

(* insert_stack: what to do when the part begun now succeeds, or fails.    *)
Insert(ifTrue, ifFalse) ==
  stack' = Append(stack, [re |-> re, toParse |-> toParse, leftenter |-> leftenter,
                          yes |-> ifTrue, no |-> ifFalse])

(* check_stack: the part begun last succeeds or fails.                     *)
Check(result) ==
  IF stack = <<>>
  THEN /\ action' = IF result THEN "True" ELSE "False"
       /\ UNCHANGED <<re, toParse, leftenter, stack>>
  ELSE LET top == Last(stack)
       IN  /\ stack' = Front(stack) /\ action' = IF result THEN top.yes ELSE top.no
           /\ re' = top.re /\ toParse' = top.toParse /\ leftenter' = top.leftenter

Running == pc = "run" /\ action = "None" /\ re # <<>>
At(ops) == Running /\ NodeAt(re).op \in ops
current == NodeAt(re)
Count == counters[re]
outside == <<expression, arguments, pc, fast, pos, plain>>

(* The end of the expression, or of all that a choice led to.              *)
EndOfChain ==
  /\ pc = "run" /\ action = "None" /\ re = <<>>
  /\ Check(TRUE) /\ UNCHANGED <<outside, counters, matches>>

EmptyNode ==
  At({"Empty"}) /\ Onward(re) /\ UNCHANGED <<outside, toParse, action, stack, counters, matches>>

(* A group keeps where it began in its node, and is noted when it is left. *)
Brackets ==
  /\ At(Groups) /\ UNCHANGED <<outside, toParse, action, stack>>
  /\ LET g == current.arg
         from == IF g = 0 /\ startChange THEN s[g] ELSE Count.begin
         to == IF g = 0 /\ endChange THEN e[g] ELSE toParse
     IN  IF leftenter
         THEN /\ counters' = [counters EXCEPT ![re].begin = toParse]
              /\ Into(re) /\ UNCHANGED matches
         ELSE /\ IF g = -1 THEN UNCHANGED matches
                 ELSE /\ e' = [e EXCEPT ![g] = to]
                      /\ s' = [s EXCEPT ![g] = IF to < from THEN to ELSE from]
                      /\ UNCHANGED <<startChange, endChange>>
              /\ Onward(re) /\ UNCHANGED counters

(* Symbols, words, classes, meta symbols, back traces.                     *)
Consume ==
  /\ Running /\ IsAtom(current)
  /\ IF Span(current, toParse) = -1 THEN Check(FALSE)
     ELSE toParse' = Span(current, toParse) /\ Onward(re) /\ UNCHANGED <<action, stack>>
  /\ UNCHANGED <<outside, counters, matches>>

ZeroWidth ==
  /\ At({"MetaSymb"}) /\ ~IsAtom(current)
  /\ IF Holds(current.arg, toParse) THEN Onward(re) /\ UNCHANGED <<toParse, action, stack>>
     ELSE Check(FALSE)
  /\ s' = IF current.arg = "\\m" THEN [s EXCEPT ![0] = toParse] ELSE s
  /\ e' = IF current.arg = "\\M" THEN [e EXCEPT ![0] = toParse] ELSE e
  /\ startChange' = (startChange \/ current.arg = "\\m")
  /\ endChange' = (endChange \/ current.arg = "\\M")
  /\ UNCHANGED <<outside, counters>>

BackReference ==
  /\ At({"BkBrack"}) /\ UNCHANGED <<outside, counters, matches>>
  /\ LET g == current.arg
         word == SubSeq(line, s[g] + 1, e[g])
         fits == /\ g < groups /\ s[g] # -1 /\ e[g] # -1
                 /\ toParse + Len(word) <= eol
                 /\ \A i \in DOMAIN word : Char(toParse + i - 1) = word[i]
     IN  IF fits THEN toParse' = toParse + Len(word) /\ Onward(re) /\ UNCHANGED <<action, stack>>
         ELSE Check(FALSE)

LookAround ==
  LET ahead == current.op \in {"Ahead", "NAhead"}
      wanted == current.op \in {"Ahead", "Behind"}
      from == IF ahead THEN toParse ELSE toParse - current.arg
  IN  /\ At(Looks) /\ UNCHANGED <<outside, counters, matches>>
      /\ IF ~leftenter THEN Check(TRUE)
         ELSE IF from < 0
         THEN IF wanted THEN Check(FALSE) ELSE Onward(re) /\ UNCHANGED <<toParse, action, stack>>
         ELSE /\ Insert(IF wanted THEN "Break" ELSE "False", IF wanted THEN "False" ELSE "Break")
              /\ Into(re) /\ toParse' = from /\ UNCHANGED action

(* A branch that succeeded goes on after the last one.                     *)
Or ==
  LET skipped == fast /\ toParse < eol /\ BranchExcludes(current, Char(toParse))
      last == Sibling(re, ChainLen(re))
  IN  /\ At({"Or"}) /\ UNCHANGED <<outside, toParse, action, counters, matches>>
      /\ IF ~leftenter THEN Onward(last) /\ UNCHANGED stack
         ELSE IF skipped THEN Onward(re) /\ UNCHANGED stack
         ELSE Insert("True", "Break") /\ Into(re)

(* {n,}: the body took nothing the last time.                              *)
Stuck(count) == count.param0 = 0 /\ count.oldParse = toParse

(* Mutant: the count is not set when the repetition is entered.            *)
EnteredKept(node) == Count

Entered(node) ==
  IF leftenter
  THEN [Count EXCEPT !.param0 = node.s, !.oldParse = -1,
                     !.param1 = IF node.e = -1 THEN 0 ELSE node.e - node.s]
  ELSE Count

RangeN ==
  LET greedy == current.op = "RangeN"
      count == Entered(current)
  IN  /\ At({"RangeN", "NGRangeN"}) /\ UNCHANGED <<outside, toParse, action, matches>>
      /\ IF Stuck(count)
         THEN counters' = [counters EXCEPT ![re] = count] /\ Onward(re) /\ UNCHANGED stack
         ELSE /\ counters' = [counters EXCEPT ![re] =
                    [count EXCEPT !.oldParse = toParse,
                                  !.param0 = IF @ = 0 THEN 0 ELSE @ - 1]]
              /\ IF count.param0 > 0 THEN Into(re) /\ UNCHANGED stack
                 ELSE IF greedy THEN Insert("True", "RangeN_step2") /\ Into(re)
                 ELSE Insert("True", "NGRangeN_step2") /\ Onward(re)

RangeNM ==
  LET greedy == current.op = "RangeNM"
      count == Entered(current)
      next(c) == counters' = [counters EXCEPT ![re] = c]
  IN  /\ At({"RangeNM", "NGRangeNM"}) /\ UNCHANGED <<outside, toParse, action, matches>>
      /\ IF count.param0 > 0
         THEN next([count EXCEPT !.param0 = @ - 1]) /\ Into(re) /\ UNCHANGED stack
         ELSE IF count.param1 = 0
         THEN next(count) /\ Insert("True", "False") /\ Onward(re)
         ELSE /\ next([count EXCEPT !.param1 = @ - 1])
              /\ IF greedy THEN Insert("True", "RangeNM_step2") /\ Into(re)
                 ELSE Insert("True", "NGRangeNM_step2") /\ Onward(re)

(* What a frame asked for once its part had succeeded or failed.           *)
React ==
  LET none == action' = "None"
  IN  /\ pc = "run" /\ action # "None" /\ UNCHANGED <<outside, matches>>
      /\ \/ /\ action \in {"True", "False"} /\ stack # <<>>
            /\ Check(action = "True") /\ UNCHANGED counters
         \/ /\ action = "Break" /\ none /\ Onward(re) /\ UNCHANGED <<toParse, stack, counters>>
         \/ /\ action = "RangeN_step2" /\ none /\ Insert("True", "False") /\ Onward(re)
            /\ UNCHANGED <<toParse, counters>>
         \/ /\ action = "RangeNM_step2" /\ none /\ Insert("True", "RangeNM_step3") /\ Onward(re)
            /\ UNCHANGED <<toParse, counters>>
         \/ /\ action \in {"RangeNM_step3", "NGRangeNM_step3"}
            /\ counters' = [counters EXCEPT ![re].param1 = @ + 1] /\ Check(FALSE)
         \/ /\ action = "NGRangeN_step2" /\ none /\ Into(re)
            /\ counters' = [counters EXCEPT ![re].param0 = IF @ = 0 THEN 0 ELSE @ - 1]
            /\ UNCHANGED <<toParse, stack>>
         \/ /\ action = "NGRangeNM_step2" /\ none /\ Insert("True", "NGRangeNM_step3") /\ Into(re)
            /\ UNCHANGED <<toParse, counters>>

lowParse ==
  \/ EndOfChain /\ UNCHANGED steps
  \/ /\ steps < StepLimit /\ steps' = steps + 1
     /\ \/ EmptyNode \/ Brackets \/ Consume \/ ZeroWidth \/ BackReference \/ LookAround
        \/ Or \/ RangeN \/ RangeNM \/ React

-----------------------------------------------------------------------------
(* parseRE. *)

NoMatch == [g \in 0 .. groups - 1 |-> -1]

(* quickCheck of what the expression begins with.                          *)
QuickCheck(at) ==
  LET first == FirstNode(tree, Empty)
      with(set) == at < eol /\ Char(at) \in set
  IN  CASE first.op = "Word" -> with({c \in Alphabet : MatchChars(c, first.arg[1])})
        [] IsAtom(first) /\ first.op # "Word" -> Span(first, at) # -1
        [] first.op = "MetaSymb" /\ ~IsAtom(first) -> Holds(first.arg, at)
        [] OTHER -> TRUE

CanBeginAt(at) ==
  LET first == FirstChars(tree)
  IN  /\ Useful(first) => at < eol /\ Char(at) \notin Ascii \ first.mask
      /\ QuickCheck(at)

Anchored == StartAnchor(tree) # "None"

(* A character the line must have, or the only place to begin at.          *)
Hopeless ==
  \/ \E set \in Selective(Required(tree)) : set \cap ToSet(line) = {}
  \/ StartAnchor(tree) = "LineStart" /\ start # 0
  \/ StartAnchor(tree) = "SchemeStart" /\ start # schemeStart

(* An expression that ends with the line begins this close to its end.     *)
FirstPlace ==
  IF EndAnchor(tree) /\ MaxLen(tree) # Unbounded /\ moves /\ ~Anchored
     /\ eol - MaxLen(tree) > start
  THEN eol - MaxLen(tree) ELSE start
TooFarFromEnd == EndAnchor(tree) /\ MaxLen(tree) # Unbounded /\ eol - FirstPlace > MaxLen(tree)

(* What TextParser asks before it calls parse().                           *)
MayMatch ==
  ~Hopeless /\ (moves \/ ~EndAnchor(tree) \/ MaxLen(tree) = Unbounded \/ eol - start <= MaxLen(tree))

(* What the dispatch of a scheme's nodes asks when it is made.             *)
CanStartWith(c) ==
  LET first == FirstChars(tree)
      node == FirstNode(tree, Empty)
  IN  IF Useful(first) /\ c \in Ascii THEN c \in first.mask
      ELSE CASE node.op = "Symb" -> MatchChars(c, node.arg)
             [] node.op = "Word" -> MatchChars(c, node.arg[1])
             [] node.op = "Enum" -> c \in Class(node.arg)
             [] node.op = "MetaSymb" /\ node.arg \in Consuming -> c \in Takes(node.arg)
             [] OTHER -> TRUE

Idle == UNCHANGED <<expression, arguments, fast, plain>>
Stopped == [found |-> FALSE, s |-> NoMatch, e |-> NoMatch, gaveUp |-> FALSE]
Exceeded == steps = StepLimit

(* parse() is over: the same is parsed once more, with early rejections.   *)
Finish(outcome) ==
  /\ UNCHANGED <<expression, arguments, pos, machine>>
  /\ s' = outcome.s /\ e' = outcome.e /\ UNCHANGED <<startChange, endChange>>
  /\ IF fast THEN pc' = (IF outcome.found THEN "found" ELSE "failed") /\ UNCHANGED <<fast, plain>>
     ELSE pc' = "begin" /\ fast' = TRUE /\ plain' = outcome

Begin ==
  /\ pc = "begin" /\ steps' = 0
  /\ IF fast /\ (Hopeless \/ TooFarFromEnd \/ (~moves /\ ~CanBeginAt(FirstPlace)))
     THEN Finish(Stopped)
     ELSE /\ pos' = (IF fast THEN FirstPlace ELSE start) /\ pc' = "try"
          /\ Idle /\ UNCHANGED <<machine, matches>>

NextPlace ==
  IF ~moves \/ pos = eol \/ (fast /\ Anchored) THEN Finish(Stopped)
  ELSE pos' = pos + 1 /\ pc' = "try" /\ Idle /\ UNCHANGED <<machine, matches>>

TryAt ==
  /\ pc = "try" /\ UNCHANGED steps
  /\ IF fast /\ ~CanBeginAt(pos) THEN NextPlace
     ELSE /\ pc' = "run" /\ Idle /\ UNCHANGED <<pos, counters>>
          /\ re' = <<1>> /\ toParse' = pos /\ leftenter' = TRUE /\ action' = "None" /\ stack' = <<>>
          /\ s' = NoMatch /\ e' = NoMatch /\ startChange' = FALSE /\ endChange' = FALSE

EndTry ==
  /\ pc = "run" /\ stack = <<>> /\ action \in {"True", "False"} /\ UNCHANGED steps
  /\ IF action = "True" THEN Finish([found |-> TRUE, s |-> s, e |-> e, gaveUp |-> FALSE]) ELSE NextPlace

(* stepBudgetExceeded: the place is left, and no other is tried.           *)
GiveUp ==
  /\ pc = "run" /\ Exceeded /\ ~(stack = <<>> /\ action \in {"True", "False"}) /\ UNCHANGED steps
  /\ Finish([Stopped EXCEPT !.gaveUp = TRUE])

(* The paths of all nodes of a chain.                                      *)
RECURSIVE Nodes(_, _)
Nodes(chain, path) ==
  UNION {{Append(path, i)} \cup Nodes(chain[i].sub, Append(path, i)) : i \in DOMAIN chain}

(* setRE of a pattern, then parse() of a line.                             *)
InitParse ==
  /\ flags \in Flags /\ line \in Lines /\ trace \in Traces
  /\ \E p \in Patterns : \E c \in {Compiled(p)} :
       c.tree # <<>> /\ tree = c.tree /\ groups = c.groups
  /\ moves \in BOOLEAN
  /\ \E cut \in 0 .. Shrink : eol = Len(line) - cut /\ eol >= 0
  /\ start \in 0 .. eol /\ schemeStart \in {0, start}
  /\ pc = "begin" /\ fast = FALSE /\ pos = start /\ plain = Stopped /\ steps = 0
  /\ re = <<>> /\ toParse = start /\ leftenter = TRUE /\ action = "None" /\ stack = <<>>
  /\ counters = [p \in Nodes(tree, <<>>) |-> [begin |-> 0, param0 |-> 0, param1 |-> 0, oldParse |-> 0]]
  /\ s = NoMatch /\ e = NoMatch /\ startChange = FALSE /\ endChange = FALSE

NextParse == Begin \/ TryAt \/ lowParse \/ EndTry \/ GiveUp

SpecParse == InitParse /\ [][NextParse]_regexpVars

-----------------------------------------------------------------------------
(* What an expression means, without a machine: all the ways a chain can   *)
(* match at a place, the preferred ones first.                             *)

RECURSIVE Ways(_, _, _)
RECURSIVE Repeated(_, _, _, _, _)
Ways(chain, at, caps) ==
  LET node == chain[1]
      in(from) == Ways(node.sub, from, caps)
      goOn(ways) == FlattenSeq([i \in DOMAIN ways |-> Ways(Tail(chain), ways[i].at, ways[i].caps)])
      here == <<[at |-> at, caps |-> caps]>>
      grouped(w) == [w EXCEPT !.caps = IF node.arg = -1 THEN @ ELSE [@ EXCEPT ![node.arg] = <<at, w.at>>]]
      word == SubSeq(line, caps[node.arg][1] + 1, caps[node.arg][2])
      from == IF node.op \in {"Ahead", "NAhead"} THEN at ELSE at - node.arg
      seen == from >= 0 /\ in(from) # <<>>
  IN  CASE chain = <<>> -> here
        [] IsAtom(node) /\ chain # <<>> ->
             IF Span(node, at) = -1 THEN <<>> ELSE Ways(Tail(chain), Span(node, at), caps)
        [] node.op = "MetaSymb" /\ ~IsAtom(node) -> IF Holds(node.arg, at) THEN goOn(here) ELSE <<>>
        [] node.op = "Empty" -> goOn(here)
        [] node.op \in Groups -> LET ways == in(at) IN goOn([i \in DOMAIN ways |-> grouped(ways[i])])
        [] node.op = "Or" -> in(at) \o Ways(Tail(chain), at, caps)
        [] node.op \in Ranges -> goOn(Repeated(node, node.s, node.e, at, caps))
        [] node.op \in {"Ahead", "Behind"} ->
             IF seen THEN goOn(<<[at |-> at, caps |-> in(from)[1].caps]>>) ELSE <<>>
        [] node.op \in {"NAhead", "NBehind"} -> IF seen THEN <<>> ELSE goOn(here)
        [] node.op = "BkBrack" ->
             IF /\ node.arg < groups /\ caps[node.arg][1] # -1 /\ at + Len(word) <= eol
                /\ \A i \in DOMAIN word : Char(at + i - 1) = word[i]
             THEN goOn(<<[at |-> at + Len(word), caps |-> caps]>>) ELSE <<>>

(* least times or more, at most most times if that is not -1; a body that  *)
(* takes nothing is not tried again for nothing.                           *)
Repeated(node, least, most, at, caps) ==
  LET once == Ways(node.sub, at, caps)
      less == IF least = 0 THEN 0 ELSE least - 1
      further(w) == IF w.at = at /\ least = 0 THEN <<w>>
                    ELSE Repeated(node, less, IF most = -1 THEN -1 ELSE most - 1, w.at, w.caps)
      more == IF most = 0 THEN <<>> ELSE FlattenSeq([i \in DOMAIN once |-> further(once[i])])
      stop == IF least = 0 THEN <<[at |-> at, caps |-> caps]>> ELSE <<>>
  IN  IF node.op \in {"RangeN", "RangeNM"} THEN more \o stop ELSE stop \o more

(* A choice under a counted repetition: its count is not put back when the *)
(* choice is revised.                                                      *)
RECURSIVE Choice(_)
Choice(chain) ==
  \E i \in DOMAIN chain :
    chain[i].op \in Ranges \cup {"Or"} \/ Choice(chain[i].sub)

RECURSIVE Tangled(_, _)
Tangled(chain, looped) ==
  \E i \in DOMAIN chain :
    LET node == chain[i]
        again == node.op \in Ranges /\ node.e # 1
    IN  \/ /\ node.op \in Ranges /\ Choice(node.sub)
           /\ \/ node.s >= 2 \/ (node.e > node.s /\ looped)
              \/ again /\ FirstChars(node.sub).nullable
        \/ Tangled(node.sub, looped \/ again)

Marked(chain) == \E p \in Nodes(chain, <<>>) :
  LET f[i \in 1 .. Len(p)] == IF i = 1 THEN chain[p[1]] ELSE f[i - 1].sub[p[i]]
  IN  f[Len(p)].op = "MetaSymb" /\ f[Len(p)].arg \in {"\\m", "\\M"}

(* A marker that is met before a character is taken.                       *)
RECURSIVE MarksFirst(_)
MarksFirst(chain) ==
  chain # <<>> /\
    LET node == chain[1]
    IN  \/ node.op = "MetaSymb" /\ node.arg \in {"\\m", "\\M"}
        \/ MarksFirst(node.sub)
        \/ (node.op = "Or" \/ FirstChars(<<node>>).nullable) /\ MarksFirst(Tail(chain))

(* An alternative may be skipped that would have met a marker: it begins   *)
(* with a choice whose first way takes a character and a later one marks.  *)
RECURSIVE MarkerSkipped(_)
MarkerSkipped(chain) ==
  \E i \in DOMAIN chain :
    LET node == chain[i]
    IN  \/ /\ node.op = "Or" /\ MarksFirst(node.sub)
           /\ Useful(FirstChars(node.sub)) /\ ~FirstChars(Leading(node.sub)).nullable
        \/ MarkerSkipped(node.sub)

-----------------------------------------------------------------------------
(* Properties. *)

Over == pc \in {"found", "failed"}

(* The rejections before and inside the matcher (cregexp.h:237) change     *)
(* nothing: whatever they are told of the line, parse() finds the same     *)
(* match with the same groups as without them, mayMatch() is true of a     *)
(* place where a match is found, and canStartWith() of the character there.*)
(* Only the bounds of the whole match may move, and only where an          *)
(* alternative with a marker may be skipped: see MarkersKept.              *)
FastPathsSound ==
  Over /\ ~plain.gaveUp =>
    /\ plain.found = (pc = "found")
    /\ \A g \in 0 .. groups - 1 :
         g > 0 \/ ~MarkerSkipped(tree) => plain.s[g] = s[g] /\ plain.e[g] = e[g]
    /\ plain.found => MayMatch
    /\ plain.found /\ ~moves /\ start < eol => CanStartWith(Char(start))

(* A branch whose failed attempt has side effects is not skipped (cregexp.h:*)
(* 249, "\\M bounds group 0 for a later alternative"): the whole match has  *)
(* the bounds it has when every branch is tried.  It has not: only what a  *)
(* branch begins with is looked at, and (a|\Mb) begins with a character.   *)
MarkersKept ==
  Over /\ ~plain.gaveUp => plain.s[0] = s[0] /\ plain.e[0] = e[0]

(* A match is the first way the expression can match, at the first place   *)
(* where there is one, and no parse of an expression whose repetitions     *)
(* keep their counts is given up at the limit of steps (cregexp.h:258).    *)
MatchesAsSaid ==
  Over /\ ~Tangled(tree, FALSE) =>
    LET none == [g \in 0 .. groups - 1 |-> <<-1, -1>>]
        places == IF moves THEN start .. eol ELSE {start}
        good == {p \in places : Ways(tree, p, none) # <<>>}
        first == CHOOSE p \in good : \A q \in good : p <= q
        way == Ways(tree, first, none)[1]
    IN  /\ ~plain.gaveUp
        /\ plain.found <=> good # {}
        /\ plain.found /\ ~Marked(tree) => <<plain.s[0], plain.e[0]>> = way.caps[0]
=============================================================================
