------------------------------ MODULE Evaluation ------------------------------
(***************************************************************************)
(* The programs of evaluation/ that are clients of the gym, without the    *)
(* comparison of MCP servers (Comparison): a benchmark script, an agent    *)
(* that proves theorems one command at a time (with or without the         *)
(* collection of training data), the tree search, or a competition of      *)
(* agents.  One program runs; what the others would use stays as it is.    *)
(***************************************************************************)
EXTENDS Naturals

CONSTANTS NumFiles, Length, NumWorkers, Sessions, NoSession,         \* Benchmark
          Goals, Closed, NumTactics, MaxSteps, MaxDepth, MaxProofs,  \* ProofAgent
          MaxTrials, MaxIterations,                                  \* MctsAgent
          Agents, None, MaxWorkers                                   \* SharedGym

\* A theory has a header and an end, at least.
ASSUME EvaluationAssumption ==
  /\ NumFiles \in Nat \ {0} /\ Length \in Nat \ {0, 1} /\ NumWorkers \in Nat \ {0}
  /\ NoSession \notin Sessions /\ Closed \notin Goals /\ None \notin Agents
  /\ {NumTactics, MaxSteps, MaxDepth, MaxProofs, MaxTrials, MaxIterations} \subseteq Nat
  /\ MaxWorkers \in Nat \ {0}

VARIABLES program,   \* which program runs
          script, phase, queue, job, verdicts, leased, thy, late, doc, lost,
          kind, proof, pc, gym, origin, forked, errors, ctx, log, counter, stats, results, sessions, collected,
          step, idx, tree, target,
          task, open, current, seen, files, warned, earlier, reached, outcome, reported, winner

scriptVars == <<script, phase, queue, job, verdicts, leased, thy, late, doc, lost>>
gymVars    == <<proof, pc, gym, origin, forked, errors, results>>
agentVars  == <<kind, ctx, log, counter, stats, sessions, collected>>
treeVars   == <<step, idx, tree, target>>
taskVars   == <<task, open, current, seen, files, warned, earlier, reached, outcome, reported,
                winner>>
vars       == <<program, scriptVars, gymVars, agentVars, treeVars, taskVars>>

Script      == INSTANCE Benchmark WITH results <- verdicts
Agent       == INSTANCE ProofAgent
Mcts        == INSTANCE MctsAgent WITH MaxSteps <- MaxIterations
Competition == INSTANCE SharedGym WITH pc <- task, sessions <- open, results <- reported

Init ==
  /\ program \in {"script", "agent", "mcts", "competition"}
  /\ Script!Init /\ Agent!Init /\ Mcts!Init /\ Competition!Init
  /\ program # "script" => script = "local"
  /\ program # "agent" => kind = "plain"

RunScript == /\ program = "script" /\ Script!Next
             /\ UNCHANGED <<program, gymVars, agentVars, treeVars, taskVars>>

RunAgent == /\ program = "agent" /\ Agent!Next
            /\ UNCHANGED <<program, scriptVars, treeVars, taskVars>>

RunMcts == /\ program = "mcts" /\ Mcts!Next
           /\ UNCHANGED <<program, scriptVars, agentVars, taskVars>>

RunCompetition == /\ program = "competition" /\ Competition!Next
                  /\ UNCHANGED <<program, scriptVars, gymVars, agentVars, treeVars>>

Next == RunScript \/ RunAgent \/ RunMcts \/ RunCompetition

Spec == Init /\ [][Next]_vars

-----------------------------------------------------------------------------
(* Properties.                                                             *)

\* Benchmark scripts: a theory reported as ok was executed whole, each command once and in
\* order, in one session, although sessions are reused in which a command that timed out
\* may still run; and an error in it comes after a warning that hides all that follows.
OkComplete == Script!OkComplete

\* Benchmark scripts: every leased session belongs to one file in progress, unless an answer
\* of the server was lost; a script that is over has given back every other one.
LeasesReturned == Script!LeasesReturned

\* prove_theorem of every agent reports success only for a theorem all of whose subgoals
\* were discharged by commands Isabelle accepted: neither a failing `by` that emptied the
\* list, nor a stale context, nor a search that goes on from a node the gym was never
\* taken back to, counts as a proof.  It is the theorem the attempt was called for, except
\* that the tree search takes what it finds open; but never is a theorem that was stated
\* once reported as proved twice, by the attempt that left it open and by a later one.
SuccessSound ==
  \A i \in DOMAIN results : results[i].success =>
    /\ results[i].proved
    /\ program = "agent" => results[i].theorem = i
    /\ results[i].theorem # 0 =>
         \A j \in DOMAIN results \ {i} : results[j].success => results[j].theorem # results[i].theorem

\* The agents' records are what happened: the training data can be replayed and says
\* success only of proofs, every theorem has one result, every session is collected, also
\* when writing its file failed, and the totals count the successes.
RecordsExact == program = "agent" => Agent!RecordsExact

\* The tree search: visit counts, the divisors of all scores, are exact, and a part that
\* select never enters again holds nothing worth trying and no finished proof.
TreeExact == Mcts!TreeExact

\* The competition: the current session of the shared client is open; a task that is over
\* has no session, and leaves a wrapper on disk only if it could not be deleted or nothing
\* was executed; and no command reaches the session of a task that was over before.
TaskCleansUp == Competition!TaskCleansUp

=============================================================================
