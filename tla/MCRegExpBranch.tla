--------------------------- MODULE MCRegExpBranch ---------------------------
(* One expression with a marker behind the first way of an alternative,    *)
(* on lines that the alternative does and does not match.                  *)
EXTENDS RegExp

MCAlphabet == {"a", "b", " "}
MCSame == [c \in MCAlphabet |-> c]
MCClasses == [token \in {} |-> {}]
MCPatterns == {<<"(", "(", "a", "|", "\\M", "b", ")", "|", " ", ")">>}
MCFlags == {{}}
MCTraces == {<<>>}
MCLines == {<<"a">>, <<"b">>, <<"b", " ", "b">>}
=============================================================================
