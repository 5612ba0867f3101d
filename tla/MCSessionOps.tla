---------------------------- MODULE MCSessionOps ----------------------------
(* Three requests on one session. *)
EXTENDS SessionOps, TLC

CONSTANTS r1, r2, r3

Meet(a, b, c) == {(r1 :> x) @@ (r2 :> y) @@ (r3 :> z) : x \in a, y \in b, z \in c}

\* A load or a big step against two of the short operations; and two loads, or
\* a load and a big step, with a restore.
AsksShort == Meet({"load", "big"}, {"exec", "save", "enter"},
                  {"restore", "rollback", "verify", "query"})
             \cup Meet({"load", "big"}, {"load"}, {"restore"})

\* The theories are interchangeable.
Symmetry == Permutations(Theories)
=============================================================================
