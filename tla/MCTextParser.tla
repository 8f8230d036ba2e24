---------------------------- MODULE MCTextParser ----------------------------
(***************************************************************************)
(* A small language for TextParser: a here-document H closed by the word   *)
(* that matches its start, nesting in itself, and a quoted string Q with   *)
(* a plain escape and one of low priority.                                 *)
(***************************************************************************)
EXTENDS TextParser

MCSymbols == {"a", "A", "b", "B", "q", "e", "l"}
MCBlocks == {"H", "Q"}
MCRegexps == {"esc", "low"}
MCContent == [x \in {"H", "Q", "base"} |->
                CASE x = "base" -> <<"H", "Q">>
                  [] x = "H" -> <<"H", "Q">>
                  [] x = "Q" -> <<"esc", "low">>]
MCStarts == [n \in MCBlocks \cup MCRegexps |->
               CASE n = "H" -> {"a", "b"} [] n = "Q" -> {"q"} [] n = "esc" -> {"e"}
                 [] n = "low" -> {"l"}]
MCEnds == [b \in MCBlocks |->
             [s \in MCSymbols |->
                CASE b = "Q" -> {"q"}
                  [] b = "H" /\ s = "a" -> {"A"}
                  [] b = "H" /\ s = "b" -> {"B"}
                  [] OTHER -> {}]]
MCBackTraced == {"H"}

(* Lines that open, close and re-open blocks, alone and mixed.             *)
NestLines == {<<"a">>, <<"b", "a">>, <<"A", "a">>, <<"A", "B">>}
QuoteLines == {<<"a", "q">>, <<"q", "A", "q">>, <<"e", "q", "l", "q">>}

(* At most one line that getLine cannot return.                            *)
OneMissing == {{}} \cup {{l} : l \in LineNos}

(* Between two parses only the text, the cache and the client's knowledge  *)
(* matter: parse() overwrites every other variable before it reads it, so  *)
(* states that differ only in these leftovers behave alike.                *)
View == IF phase = "idle"
        THEN <<env, cache, invalidLine, valid, try,
               IF try.result = "none" THEN 0 ELSE endLine>>
        ELSE <<vars>>
=============================================================================
