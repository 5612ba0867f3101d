----------------------------- MODULE MCHeapPool -----------------------------
(* Two groups that share a project, and one name both default to.          *)
EXTENDS HeapPool
CONSTANTS g1, g2, p1, n1, n2
MCDefaultName == [p \in Projects |-> n1]
=============================================================================
