--------------------------- MODULE MCSessionPool ---------------------------
(* SessionPool for TLC. *)
EXTENDS SessionPool, TLC

\* The ids are interchangeable (safety runs only).
Symmetry == Permutations(Sessions) \cup Permutations(Requests)

\* Liveness of creation and closing.  The operations on sessions and their reuse take
\* the event loop for one step and _gateway_lock never, so that leaving them out
\* removes no waiting; everything else stays.
LiveEnvironment ==
  \/ \E r \in Requests : PostSession(r) \/ CreateTimeout(r) \/ CreateTimeoutLate(r)
  \/ \E s \in Sessions, t \in Leases : Release(s, t)
  \/ \E r \in Requests, s \in Sessions, t \in Leases : DeleteStart(r, s, t)
  \/ CleanupCollect
  \/ \E g \in 1..MaxGateways : JvmDies(g)
  \/ Shutdown
LiveSpec == Init /\ [][LiveEnvironment \/ Server]_vars /\ Fairness
=============================================================================
