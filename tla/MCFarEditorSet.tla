-------------------------- MODULE MCFarEditorSet --------------------------
EXTENDS FarEditorSet, TLC

CONSTANTS t1, t2

MCTypes == {t1, t2}
MCParams == <<"show-cross", "favorite">>

\* Types and files are told apart by nothing but their names.
Same == Permutations(MCTypes) \cup Permutations(Files)
=============================================================================
