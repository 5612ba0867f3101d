------------------------------- MODULE MctsAgent -------------------------------
(***************************************************************************)
(* The tree search of evaluation/local_gym/mcts_agent.py.  A node is the   *)
(* context after a tactic: its subgoals, the tactics tried, its statistics *)
(* and two flags that keep spent parts of the tree out of the selection.   *)
(* An iteration of the loop (selection, tactic, expansion, backup) is one  *)
(* step; nothing runs concurrently.                                        *)
(*                                                                         *)
(* Left out are the values: random estimates and UCB scores leave select   *)
(* free to stop at any node that is not exhausted, or to go on to any      *)
(* available child.  The priorities of all subgoals are equal, so that the *)
(* first one is always the target.  The gym is never taken back to the     *)
(* state of the selected node.                                             *)
(***************************************************************************)
EXTENDS IsabelleGym, Sequences, FiniteSets

CONSTANTS NumTactics,    \* primary_tactics and those a subclass adds
          MaxTrials,     \* max_trials_per_goal
          MaxSteps,      \* max_steps
          MaxProofs      \* bound: theorems

VARIABLES pc,       \* "idle" or "search"
          proof,    \* theorems begun
          step,     \* i_step
          idx,      \* goal_tactic_id_map, kept from theorem to theorem
          tree,     \* the nodes in the order of their creation; the first is the root
          target,   \* the attempt that stated the theorem the search is about
          results   \* what prove_theorem returned after a search

vars == <<pc, proof, step, gymVars, idx, tree, target, results>>

\* `path` is the trajectory from the root to the node.
Node(goals, parent, path) ==
  [goals |-> goals, parent |-> parent, path |-> path, exhausted |-> FALSE,
   subtree_exhausted |-> FALSE, trials |-> 0, visit_count |-> 1]

Nodes == 1..Len(tree)

Children(t, n) == {k \in 1..Len(t) : t[k].parent = n}

Init == /\ pc = "idle" /\ proof = 0 /\ step = 0
        /\ GymInit /\ target = 0
        /\ idx = [g \in Goals |-> 0]
        /\ tree = <<>> /\ results = <<>>

-----------------------------------------------------------------------------
(* prove_theorem: the root.                                                *)

Attempt == pc = "idle" /\ proof < MaxProofs /\ proof' = proof + 1 /\ UNCHANGED <<idx, results>>

\* Open subgoals are taken as they are, whatever theorem they belong to, and the
\* statement is executed only when there is none.
Start ==
  /\ Attempt
  /\ \/ gym # Closed /\ target' = origin /\ UNCHANGED gymVars
     \/ Stated(proof') /\ Accepted /\ gym' # Closed /\ target' = proof'
  /\ tree' = <<Node(gym', 0, {1})>>
  /\ step' = 0 /\ pc' = "search"

\* The statement is judged rejected or leaves no subgoal, or the gym raises an exception:
\* a failure or no result at all.
StartFails ==
  /\ Attempt
  /\ \/ UNCHANGED gymVars
     \/ Stated(proof')
     \/ gym = Closed /\ Refused
  /\ UNCHANGED <<pc, step, tree, target>>

-----------------------------------------------------------------------------
(* The loop.                                                               *)

Available(n) == {k \in Children(tree, n) : ~tree[k].subtree_exhausted}

\* select: down through available children, to a node without one or to one that is
\* not exhausted.
Selectable(n) ==
  /\ \A k \in tree[n].path \ {1} : ~tree[k].subtree_exhausted
  /\ tree[n].exhausted => Available(n) = {}

\* recommend_tactic is asked, and knows a tactic it has not given for these subgoals:
\* attempted_tactics of the node are all among those.
HasTactic(n) == tree[n].trials <= MaxTrials /\ idx[tree[n].goals] < NumTactics

Iteration(n) ==
  pc = "search" /\ step < MaxSteps /\ Selectable(n) /\ UNCHANGED <<proof, target>>

\* prove_theorem returns, unless get_source raises an exception.  `theorem`: the one whose
\* subgoals were searched; `proved`: accepted commands discharged all of them.
Return(success) ==
  /\ pc' = "idle"
  /\ \/ results' = Append(results, [success |-> success, theorem |-> target, attempt |-> proof,
                                    proved |-> gym = Closed /\ origin = target /\ ~forked])
     \/ UNCHANGED results
  /\ UNCHANGED <<step, gymVars, idx, tree>>

Complete(n) ==
  /\ Iteration(n) /\ tree[n].goals = Closed
  /\ Return(TRUE)

\* Mutant: the subtree is given up with the node.
SpendSubtree(n) ==
  /\ Iteration(n) /\ tree[n].goals # Closed /\ ~HasTactic(n)
  /\ tree' = [tree EXCEPT ![n].exhausted = TRUE, ![n].subtree_exhausted = TRUE]
  /\ step' = step + 1
  /\ UNCHANGED <<pc, gymVars, idx, results>>

\* No tactic: the node is spent, with its subtree if all children are.
Spend(n) ==
  /\ Iteration(n) /\ tree[n].goals # Closed /\ ~HasTactic(n)
  /\ tree' = [tree EXCEPT ![n].exhausted = TRUE,
                          ![n].subtree_exhausted = (Available(n) = {})]
  /\ step' = step + 1
  /\ UNCHANGED <<pc, gymVars, idx, results>>

\* The tactic of this iteration: counted before it runs.
Try(n) ==
  /\ Iteration(n) /\ tree[n].goals # Closed /\ HasTactic(n)
  /\ idx' = [idx EXCEPT ![tree[n].goals] = @ + 1]
  /\ step' = step + 1
  /\ UNCHANGED <<pc, results>>

Tried(n) == [tree EXCEPT ![n].trials = @ + 1]

\* backup along the trajectory.
Backup(t, path) ==
  [m \in 1..Len(t) |->
     IF m \in path
       THEN [t[m] EXCEPT !.visit_count = @ + 1,
                         !.subtree_exhausted =
                            /\ \A k \in Children(t, m) : t[k].subtree_exhausted
                            /\ t[m].exhausted]
       ELSE t[m]]

Child(n) == LET new == Len(tree) + 1
            IN  Backup(Append(Tried(n), Node(gym', n, tree[n].path \cup {new})), tree[n].path)

\* Accepted: the gym's subgoals become a child of the selected node.
Expand(n) == Try(n) /\ Executed /\ Accepted /\ tree' = Child(n)

\* Mutant: the answer of Isabelle is not looked at.
RejectedExpands(n) ==
  /\ Try(n)
  /\ Executed \/ Refused \/ RefusedForked
  /\ ~Accepted
  /\ tree' = Child(n)

\* Judged rejected, as is what Isabelle executes after an error.
Rejected(n) ==
  /\ Try(n)
  /\ Executed \/ Refused \/ RefusedForked
  /\ ~Accepted
  /\ tree' = Tried(n)

\* The gym raises an exception; the tactic may have been executed.
Raised(n) == Try(n) /\ Unknown /\ tree' = Tried(n)

Exhausted == pc = "search" /\ step = MaxSteps /\ Return(FALSE) /\ UNCHANGED <<proof, target>>

\* Between two theorems the caller resets the gym, states a theorem of its own, or goes
\* on with the one that is open; it does not take a proof back.
CallerUsesGym ==
  /\ pc = "idle" /\ proof < MaxProofs
  /\ ResetGym \/ Stated(0) \/ Executed
  /\ UNCHANGED <<pc, proof, step, idx, tree, target, results>>

\* All theorems were attempted.
Over == pc = "idle" /\ proof = MaxProofs /\ UNCHANGED vars

Search == \/ \E n \in Nodes : Complete(n) \/ Spend(n) \/ Expand(n) \/ Rejected(n) \/ Raised(n)
          \/ Exhausted

Next == Start \/ StartFails \/ Search \/ CallerUsesGym \/ Over

Spec == Init /\ [][Next]_vars

-----------------------------------------------------------------------------
(* Properties.                                                             *)

NodeType(len) ==
  [goals : States, parent : 0..len, path : SUBSET (1..len), exhausted : BOOLEAN,
   subtree_exhausted : BOOLEAN, trials : 0..MaxTrials + 1, visit_count : Nat]

TypeOK ==
  /\ pc \in {"idle", "search"} /\ proof \in 0..MaxProofs /\ step \in 0..MaxSteps
  /\ GymTypeOK(MaxProofs) /\ target \in 0..MaxProofs
  /\ idx \in [Goals -> 0..NumTactics]
  /\ tree \in Seq(NodeType(Len(tree)))
  /\ results \in Seq([success : BOOLEAN, theorem : 0..MaxProofs, attempt : 1..MaxProofs,
                      proved : BOOLEAN])

\* The nodes that descend from n, n included.
Subtree(n) == {k \in Nodes : n \in tree[k].path}

\* backup: the visits of a node, the divisor of its mean value and of the UCB scores
\* of its children, are one for each node of its subtree.  What select never enters
\* again (subtree_exhausted) holds nothing worth trying: every node below is out of
\* tactics, and none is a finished proof.
TreeExact ==
  \A n \in Nodes :
    /\ tree[n].visit_count = Cardinality(Subtree(n))
    /\ tree[n].subtree_exhausted =>
         \A k \in Subtree(n) : tree[k].goals # Closed /\ ~HasTactic(k)

=============================================================================
