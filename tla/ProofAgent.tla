------------------------------ MODULE ProofAgent ------------------------------
(***************************************************************************)
(* The agents of evaluation/local_gym that prove theorems one command at a *)
(* time (isabelle_agent_interface.py), alone or wrapped by the agent that  *)
(* collects training data (training_data_system.py).  An agent object is   *)
(* used for several theorems.  Nothing runs concurrently: an iteration of  *)
(* the loop is one step.                                                   *)
(*                                                                         *)
(* SimpleIsabelleAgent always works on the first subgoal.                  *)
(***************************************************************************)
EXTENDS IsabelleGym, Sequences, FiniteSets

CONSTANTS NumTactics,           \* tactics the agent knows for a subgoal
          MaxSteps, MaxDepth,   \* arguments of prove_theorem
          MaxProofs             \* bound: theorems

VARIABLES kind,      \* "plain" or "training"
          proof,     \* number of the theorem in work
          pc,        \* "idle", "search", "save", "save_error"
          ctx,       \* ProofContext.subgoals
          log,       \* the tactics tried: attempted_tactics, tactic_invocations
          counter,   \* goal_tactic_counters, kept from theorem to theorem
          stats,     \* the agent's totals
          results,   \* what prove_theorem returned, an exception being a failure
          sessions,  \* ProofSession objects
          collected  \* collected_sessions

vars == <<kind, proof, pc, gymVars, ctx, log, counter, stats, results, sessions, collected>>

Init == /\ kind \in {"plain", "training"}
        /\ proof = 0 /\ pc = "idle"
        /\ GymInit /\ ctx = Closed /\ log = <<>>
        /\ counter = [g \in Goals |-> 0]
        /\ stats = [attempted |-> 0, succeeded |-> 0, tried |-> 0, won |-> 0]
        /\ results = <<>> /\ sessions = <<>> /\ collected = <<>>

-----------------------------------------------------------------------------
(* Ends of an attempt.                                                     *)

\* proof_depth: the tactics that made progress.
Depth(l) == Cardinality({i \in 1..Len(l) : l[i].success})

\* _create_success_result, _create_failure_result, _create_timeout_result.  `proved`
\* is the truth: accepted commands discharged every subgoal of the theorem.
Result(success, depth) ==
  [success |-> success, depth |-> depth, theorem |-> proof',
   proved |-> gym' = Closed /\ origin' = proof' /\ ~forked']

\* end_session up to the file: the record is filled in and collected.
Collect(success) ==
  /\ sessions' = Append(sessions, [success |-> success, recs |-> log'])
  /\ collected' = Append(collected, proof')

\* prove_theorem returns; the training agent goes on to end_session, from the
\* except branch when it was an exception that ended the search.
End(success, depth, save) ==
  /\ results' = Append(results, Result(success, depth))
  /\ \/ kind = "plain" /\ pc' = "idle" /\ UNCHANGED <<sessions, collected>>
     \/ kind = "training" /\ pc' = save /\ Collect(success)

\* The training agent asks for the source before it returns, which may raise an exception.
Finish(success, depth) ==
  \/ End(success, depth, "save")
  \/ kind = "training" /\ End(FALSE, 0, "save_error")

\* _save_session wrote the file, or failed within the except branch: raised again.
Saved ==
  /\ pc \in {"save", "save_error"}
  /\ pc' = "idle"
  /\ UNCHANGED <<kind, proof, gymVars, ctx, log, counter, stats, results, sessions, collected>>

\* It failed: the except branch ends the session a second time, with an error, and raises.
SaveFails ==
  /\ pc = "save"
  /\ results' = [results EXCEPT ![proof].success = FALSE]
  /\ sessions' = [sessions EXCEPT ![proof].success = FALSE]
  /\ collected' = Append(collected, proof)
  /\ pc' = "save_error"
  /\ UNCHANGED <<kind, proof, gymVars, ctx, log, counter, stats>>

-----------------------------------------------------------------------------
(* prove_theorem: the statement, then the loop.                            *)

Attempt == /\ pc = "idle" /\ proof < MaxProofs
           /\ proof' = proof + 1 /\ log' = <<>>
           /\ stats' = IF kind = "plain" THEN [stats EXCEPT !.attempted = @ + 1] ELSE stats
           /\ UNCHANGED <<kind, counter>>

Start ==
  /\ Attempt /\ Stated(proof') /\ Accepted /\ gym' # Closed
  /\ ctx' = gym' /\ pc' = "search"
  /\ UNCHANGED <<results, sessions, collected>>

\* Judged rejected, or without subgoals, or the gym raised an exception.
StartFails ==
  /\ Attempt
  /\ \/ Stated(proof') \/ Refused \/ UNCHANGED gymVars
  /\ ctx' = Closed
  /\ \E save \in {"save", "save_error"} : End(FALSE, 0, save)

Loop == pc = "search" /\ UNCHANGED <<kind, proof>>

Timeout ==
  /\ Loop
  /\ UNCHANGED <<gymVars, ctx, log, counter, stats>>
  /\ Finish(FALSE, Depth(log))

Complete ==
  /\ Loop /\ Len(log) < MaxSteps /\ ctx = Closed
  /\ UNCHANGED <<gymVars, ctx, log, counter>>
  /\ stats' = IF kind = "plain" THEN [stats EXCEPT !.succeeded = @ + 1] ELSE stats
  /\ Finish(TRUE, Depth(log))

\* Steps or depth used up, or no tactic left.
Exhausted ==
  /\ Loop
  /\ \/ Len(log) >= MaxSteps
     \/ ctx # Closed /\ (Depth(log) >= MaxDepth \/ counter[ctx] >= NumTactics)
  /\ UNCHANGED <<gymVars, ctx, log, counter, stats>>
  /\ Finish(FALSE, Depth(log))

\* recommend_tactic of SimpleIsabelleAgent: each tactic once for each list of subgoals.
Recommend == /\ Len(log) < MaxSteps /\ ctx # Closed /\ Depth(log) < MaxDepth
             /\ counter[ctx] < NumTactics
             /\ counter' = [counter EXCEPT ![ctx] = @ + 1]

\* Mutant: the record starts from the gym's subgoals.
InvocationOfGym(after, success) ==
  [before |-> gym, tactic |-> counter'[ctx], after |-> after, success |-> success]

Invocation(after, success) ==
  [before |-> ctx, tactic |-> counter'[ctx], after |-> after, success |-> success]

\* Mutant: progress is judged by the subgoals alone.
TriedAnyChange(accepted) ==
  LET success == gym' # ctx IN
  /\ log' = Append(log, Invocation(gym', success))
  /\ ctx' = gym'
  /\ stats' = IF kind = "plain"
                THEN [stats EXCEPT !.tried = @ + 1, !.won = IF success THEN @ + 1 ELSE @]
                ELSE stats

\* The tactic was run: it is recorded, counted, and made progress when Isabelle
\* accepted it and the subgoals are others than before.
Tried(accepted) ==
  LET success == accepted /\ gym' # ctx IN
  /\ log' = Append(log, Invocation(gym', success))
  /\ ctx' = IF success THEN gym' ELSE ctx
  /\ stats' = IF kind = "plain"
                THEN [stats EXCEPT !.tried = @ + 1, !.won = IF success THEN @ + 1 ELSE @]
                ELSE stats

\* gym.step(tactic) and open_subgoals().  Judged rejected is also what Isabelle executes
\* after an error.
TacticAccepted ==
  /\ Loop /\ Recommend
  /\ Executed /\ Accepted
  /\ Tried(TRUE)
  /\ UNCHANGED <<pc, results, sessions, collected>>

TacticRejected ==
  /\ Loop /\ Recommend
  /\ Executed \/ Refused \/ RefusedForked
  /\ ~Accepted
  /\ Tried(FALSE)
  /\ UNCHANGED <<pc, results, sessions, collected>>

\* The gym raises an exception; the command may have been executed.
Raised ==
  /\ Loop /\ Recommend
  /\ Unknown
  /\ UNCHANGED <<ctx, log, stats>>
  /\ End(FALSE, 0, "save_error")

\* The caller's gym.reset() between two theorems.
CallerResets ==
  /\ pc = "idle" /\ proof < MaxProofs
  /\ ResetGym
  /\ UNCHANGED <<kind, proof, pc, ctx, log, counter, stats, results, sessions, collected>>

\* All theorems were attempted.
Over == pc = "idle" /\ proof = MaxProofs /\ UNCHANGED vars

Work == Complete \/ Exhausted \/ TacticAccepted \/ TacticRejected \/ Raised

Next == Start \/ StartFails \/ Timeout \/ Work \/ Saved \/ SaveFails \/ CallerResets \/ Over

Spec == Init /\ [][Next]_vars

-----------------------------------------------------------------------------
(* Properties.                                                             *)

Invocations == [before : Goals, tactic : 1..NumTactics, after : States, success : BOOLEAN]

TypeOK ==
  /\ kind \in {"plain", "training"} /\ proof \in 0..MaxProofs
  /\ pc \in {"idle", "search", "save", "save_error"}
  /\ GymTypeOK(MaxProofs) /\ ctx \in States
  /\ log \in Seq(Invocations)
  /\ counter \in [Goals -> 0..NumTactics]
  /\ stats \in [attempted : Nat, succeeded : Nat, tried : Nat, won : Nat]
  /\ results \in Seq([success : BOOLEAN, depth : Nat, theorem : 1..MaxProofs, proved : BOOLEAN])
  /\ sessions \in Seq([success : BOOLEAN, recs : Seq(Invocations)])
  /\ collected \in Seq(1..MaxProofs)

\* Each record starts where the one before it left the proof: where it led, if it
\* made progress, and where it started, if not.
Chain(l) == \A i \in 1..Len(l)-1 :
              l[i+1].before = IF l[i].success THEN l[i].after ELSE l[i].before

\* Followed from the theorem, the records get to no subgoal.
Concludes(l) == Len(l) > 0 /\ l[Len(l)].success /\ l[Len(l)].after = Closed

\* What is kept is what happened.  The training data can be replayed: the invocations
\* record_tactic_invocation stored form a chain, and those of a session marked successful
\* lead to the proof.  Each theorem has one result; its session is collected, a second
\* time when the file could not be written, and never marked successful when
\* prove_theorem failed.  total_proofs_succeeded counts the successes.
RecordsExact ==
  /\ Chain(log)
  /\ \A i \in 1..Len(sessions) : /\ Chain(sessions[i].recs)
                                 /\ sessions[i].success => Concludes(sessions[i].recs)
                                 /\ sessions[i].success => results[i].success
                                 /\ \E k \in 1..Len(collected) : collected[k] = i
  /\ Len(results) = IF pc = "search" THEN proof - 1 ELSE proof
  /\ kind = "plain" => stats.succeeded = Cardinality({i \in 1..Len(results) : results[i].success})
  /\ kind = "training" => Len(sessions) = Len(results)
  /\ \A k \in 1..Len(collected)-1 : collected[k+1] \in {collected[k], collected[k] + 1}

=============================================================================
