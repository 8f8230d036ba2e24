------------------------------ MODULE MCEditor ------------------------------
(* Instances of Editor: windows of one and two lines, texts of two to four; *)
(* a longer text in a window of two lines that is made one line higher; and *)
(* a text without items, in a window of three lines, that gets some.        *)
EXTENDS Editor

MCTexts == {<<"open", "item", "open", "close">>, <<"open", "close">>}
MCHeights == {1, 2}

LongText == {<<"open", "item", "plain", "plain", "plain", "close", "item">>}
EvenText == {<<"plain", "plain", "plain", "plain", "plain">>}
=============================================================================
