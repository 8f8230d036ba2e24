----------------------------- MODULE PluginParts -----------------------------
(***************************************************************************)
(* The plugin's set of editors (FarEditorSet), which is the outermost part *)
(* of the plugin, and the matchers (Matchers), the innermost one.  Side by *)
(* side: they meet only through the parts between them, so a behaviour of  *)
(* this module is one of either.                                           *)
(***************************************************************************)
EXTENDS FarEditorSet, Matchers

(* The set of editors is not used: it was made and loaded its base.        *)
OnlyLoaded == Init /\ host.palette /\ plugin.base # None

InitParts ==
  \/ Init /\ NoExpression /\ NoSearch /\ NoNesting
  \/ OnlyLoaded /\ InitMatchers

(* In a behaviour of the matchers the editors do not move, and the other   *)
(* way round.                                                              *)
Matching == pc # "idle" \/ at # "idle" \/ phase # "idle"

NextParts ==
  \/ ~Matching /\ Next /\ UNCHANGED matcherVars
  \/ Matching /\ NextMatchers /\ UNCHANGED vars

SpecParts == InitParts /\ [][NextParts]_<<vars, matcherVars>>
=============================================================================
