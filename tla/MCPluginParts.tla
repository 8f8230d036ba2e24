--------------------------- MODULE MCPluginParts ---------------------------
(* The instances of the plugin and of the matchers side by side.           *)
EXTENDS PluginParts, MCFarEditorSet, MCMatchers
=============================================================================
