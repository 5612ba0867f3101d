---------------------------- MODULE MCBuildVerify ----------------------------
(* A text with lines of ML_val, which are not written, and one without a     *)
(* header.                                                                   *)
EXTENDS BuildVerify
CONSTANTS probed, headless, clean, bare, n1, main
MCDeclares == [t \in Texts |-> IF t = probed THEN n1 ELSE None]
MCImportsOf == [t \in Texts |-> {main}]
MCWritten == [t \in Texts |-> IF t = probed THEN clean ELSE bare]
=============================================================================
