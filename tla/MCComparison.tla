----------------------------- MODULE MCComparison -----------------------------
(* Comparison for TLC: two attempts where something can outlive the first. *)
EXTENDS Comparison

MCRepeats == [stepwise |-> 1, lsp |-> 2, isabelle |-> 2, container |-> 2, iq |-> 2]

\* No final theory, or one that was solved.
MCLeftovers == {Absent, [by |-> 0, theorem |-> "posed", proof |-> "finished"]}
=============================================================================
