----------------------------- MODULE MCMatchers -----------------------------
(* Patterns of groups, quantifiers and anchors over three ASCII letters,   *)
(* a space, a line break and a letter outside of ASCII; keyword            *)
(* lists of up to three keywords, alone and two in a row; libraries of six *)
(* schemes that inherit and replace one another.                           *)
EXTENDS Matchers

MCAlphabet == {"a", "b", "A", " ", "nl", "u"}
MCAscii == MCAlphabet \ {"u"}
MCLetters == {"a", "b", "A", "u"}
MCLower == [c \in MCAlphabet |-> IF c = "A" THEN "a" ELSE c]
MCUpper == [c \in MCAlphabet |-> IF c = "a" THEN "A" ELSE c]
MCClasses == ("[ab]" :> {"a", "b"}) @@ ("[^a]" :> MCAlphabet \ {"a"})

Symbols == {<<"a">>, <<"[^a]">>, <<".">>, <<"u">>, <<"\\W">>}
Bodies == {<<"(", "a", "|", "a", "b", ")">>, <<"(", "b", "?", ")">>, <<"(", "a", "*", ")">>,
            <<"(?:", "^", "|", "b", ")">>, <<"(", "\\M", "a", "|", "u", ")">>,
            <<"(", "a", "|", ")">>, <<"(", "\\b", ")">>, <<"(", "a", "+", "?", "b", ")">>}
Quantifiers == {<<>>, <<"*">>, <<"+">>, <<"{2,}">>, <<"?">>, <<"{2}">>, <<"{1,2}">>, <<"*?">>, <<"+?">>, <<"??">>,
                <<"{1,2}?">>}
Curated ==
  {<<"a", "b">>, <<"a", "b", "$">>, <<"\\m", "a", "\\M", "b">>, <<"b", "|", "a", "$">>,
   <<"a", "|", "(", "b", "$", ")">>, <<"(", "a", "|", "b", ")", "?=", "\\w">>,
   <<"(", "a", "b", ")", "?!", ".">>, <<"a", "?#1", "b">>, <<"(?:", "a", ")", "?~1", "b">>,
   <<"\\y1", "b">>, <<"\\Y1", "$">>, <<"\\c", "a", "*", "$">>, <<"a", "b", "|", "u", "b">>,
   <<"(", "a", ")", "\\1", "b">>, <<"\\B", ".">>, <<>>,
   <<"(", "(", "a", "|", "\\M", "b", ")", "|", ".", ")">>,
   <<"(", "(", "a", "|", "\\m", "u", ")", "+", "|", "b", ")">>}

MCPatterns ==
  Curated
  \cup {h \o a \o q \o t : h \in {<<>>, <<"^">>, <<"~">>}, a \in Symbols, q \in {<<>>, <<"+">>, <<"??">>}, t \in {<<>>, <<"$">>}}
  \cup {c \o q \o t : c \in Bodies, q \in Quantifiers, t \in {<<>>, <<"b">>, <<"$">>}}
MCFlags == {{}, {"i"}, {"m", "s"}}
MCLines == {<<>>, <<"a">>, <<"A", "b">>, <<"a", "a", "b">>, <<"u", "nl", "a">>, <<"b", " ", "b">>}
MCTraces == {<<"a">>}

MCRank == [c \in {"-", "A", "a", "b", "u"} |->
             CASE c = "-" -> 45 [] c = "A" -> 65 [] c = "a" -> 97 [] c = "b" -> 98 [] c = "u" -> 1091]
MCSmall == [c \in DOMAIN MCRank |-> IF c = "A" THEN "a" ELSE c]

Keyword(word, region, symbol) == [word |-> word, region |-> region, symbol |-> symbol]
Element(words, ignorecase, worddiv) == [words |-> words, ignorecase |-> ignorecase, worddiv |-> worddiv]
Vocabulary ==
  {Keyword(<<"a">>, 1, FALSE), Keyword(<<"a">>, 1, TRUE), Keyword(<<"a", "b">>, 2, FALSE),
   Keyword(<<"a", "-">>, 2, TRUE), Keyword(<<"a", "-", "b">>, 1, FALSE), Keyword(<<"A", "b">>, 3, FALSE),
   Keyword(<<"u", "a">>, 2, FALSE), Keyword(<<"b">>, 3, TRUE), Keyword(<<"a">>, 0, TRUE), Keyword(<<"u">>, 3, FALSE)}
Lists(n) == {SetToSeq(l) : l \in {l \in SUBSET Vocabulary : Cardinality(l) <= n}}
Second ==
  {<<Keyword(<<"a">>, 3, FALSE), Keyword(<<"a", "-">>, 3, TRUE)>>,
   <<Keyword(<<"b">>, 1, FALSE), Keyword(<<>>, 1, FALSE), Keyword(<<"A", "b">>, 1, TRUE)>>}
MCSchemes ==
  {<<Element(l, FALSE, NoDiv)>> : l \in Lists(3)}
  \cup {<<Element(l, TRUE, NoDiv)>> : l \in Lists(2)}
  \cup {<<Element(l, FALSE, {"-", "a"})>> : l \in Lists(2)}
  \cup {<<Element(l, FALSE, NoDiv), Element(<<>>, TRUE, {"b"}), Element(m, i, d)>> :
           l \in Lists(2), m \in Second, i \in {FALSE}, d \in {NoDiv, {"-"}}}
MCTexts ==
  {<<"a">>, <<"a", "b">>, <<"a", "-", "b">>, <<"A", "b", "a">>, <<"u", "a", "b">>, <<"b", "a", "-">>,
   <<"-", "a", "-", "b">>, <<"a", "-", "a">>, <<"A", "u", "-">>, <<"u", "-", "u">>}

Leaf(name, c) == [tag |-> "leaf", name |-> name, starts |-> {c}, at |-> {c}, to |-> NoScheme, virtual |-> <<>>]
Node3(tag, name, on, to, virtual) == [tag |-> tag, name |-> name, starts |-> on, at |-> on, to |-> to, virtual |-> virtual]
Block(name, c, to) == Node3("block", name, {c}, to, <<>>)
Inherit(to, virtual) == Node3("inherit", "inherit", {}, to, virtual)
MCTables == {<<>>, <<<<"y", "z">>>>, <<<<"z", "q">>, <<"y", "z">>>>, <<<<"w", "q">>, <<"y", NoScheme>>>>, <<<<"y", "q">>>>}
MCLibraries ==
  {"main" :> <<Inherit("x", v), Inherit("y", <<>>), Block("to w", "b", "w")>>
   @@ "x" :> <<Inherit("w", w), Inherit("z", <<>>)>>
   @@ "w" :> (IF first THEN <<Inherit("y", u), Inherit("z", <<>>), Block("to main", "a", "main")>>
              ELSE <<Leaf("w", "a"), Inherit("z", u), Block("to y", "b", "y")>>)
   @@ "y" :> <<Leaf("y", "a"), Block("out of y", "u", "z"), Inherit(NoScheme, <<>>)>>
   @@ "z" :> <<Leaf("z", "b"), Block("out of z", "u", "w")>>
   @@ "q" :> <<Leaf("q", "u"), Inherit("y", <<>>)>> :
     v \in MCTables, w \in MCTables, u \in MCTables, first \in BOOLEAN}
=============================================================================
