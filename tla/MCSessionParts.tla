--------------------------- MODULE MCSessionParts ---------------------------
(* The instances of the three parts side by side.                          *)
EXTENDS SessionParts, MCHostCalls, MCSession, MCHrcLibrary
=============================================================================
