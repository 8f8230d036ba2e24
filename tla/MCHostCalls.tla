---------------------------- MODULE MCHostCalls ----------------------------
(* HostCalls with the shapes the methods of Session come in.               *)
EXTENDS HostCalls

MCMethods == {"Reset", "ParseLinePairs", "SelectType", "SetFileTypeParam"}
MCStrings == [m \in MCMethods |->
               CASE m = "SelectType" -> 2 [] m = "SetFileTypeParam" -> 3
                 [] OTHER -> 0]
MCCalls == [m \in MCMethods |-> IF m = "ParseLinePairs" THEN 5 ELSE 1]
=============================================================================
