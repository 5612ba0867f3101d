------------------------------ MODULE Comparison ------------------------------
(***************************************************************************)
(* The comparison of evaluation/MCP-comparison: any one of the harnesses,  *)
(* the stepwise one together with the MCP server it talks to.              *)
(***************************************************************************)
EXTENDS AttemptRunner, FileRunner

vars == <<stepwiseVars, fileVars, loopVars>>

Init == harness \in DOMAIN Repeats /\ LoopInit /\ StepwiseInit /\ FileInit

Serve(k) == Handler(k) /\ UNCHANGED <<wait, fileVars, loopVars>>

Harness == \/ Stepwise /\ UNCHANGED fileVars
           \/ FileHarness /\ UNCHANGED stepwiseVars

Next == \/ Harness
        \/ \E k \in Slots : Serve(k)
        \/ \E s \in Sessions : Reap(s) /\ UNCHANGED <<wait, fileVars, loopVars>>

Spec == Init /\ [][Next]_vars
-----------------------------------------------------------------------------
\* The inductive invariant of the comparison.
IInv == LoopInv /\ FileInv /\ PoolInv /\ wait \in Slots \cup {None}
=============================================================================
