------------------------------ MODULE MCLspPool ------------------------------
(* Calls and sessions are interchangeable: nothing orders them.            *)
EXTENDS LspPool, TLC
Symmetry == Permutations(Calls) \cup Permutations(Sessions)
=============================================================================
