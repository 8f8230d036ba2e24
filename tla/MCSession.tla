----------------------------- MODULE MCSession -----------------------------
(* Session on the language of MCTextParser: a here-document H closed by    *)
(* the word that matches its start.                                        *)
EXTENDS Session

MCSymbols == {"a", "A", "b", "B"}
MCContent == [x \in {"H", "base"} |-> <<"H">>]
MCStarts == [n \in {"H"} |-> {"a", "b"}]
MCEnds == [n \in {"H"} |-> [s \in MCSymbols |->
             CASE s = "a" -> {"A"} [] s = "b" -> {"B"} [] OTHER -> {}]]

MCLines == {<<"a">>, <<"b", "a">>, <<"A", "a">>, <<"A", "B">>}

(* Below, inside and beyond the window.                                    *)
MCForgetArgs == {-1, 1, 2, 5}
=============================================================================
