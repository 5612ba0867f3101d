------------------------------ MODULE IsabelleGym ------------------------------
(***************************************************************************)
(* The gym as an agent of evaluation/local_gym sees it: the open subgoals  *)
(* of the theory in work, and whether the answer to a command shows an     *)
(* error.  A command is not taken back when Isabelle rejects it, and an    *)
(* answer shows the errors and warnings of all commands of the theory, so  *)
(* that every command after the first error is judged rejected, also the   *)
(* ones that Isabelle accepts.                                             *)
(*                                                                         *)
(* A list of open subgoals is one of Goals, or Closed when there is none.  *)
(***************************************************************************)
EXTENDS Naturals

CONSTANTS Goals, Closed

VARIABLES gym,     \* the open subgoals
          origin,  \* the attempt that stated the theorem they belong to; 0: the caller
          forked,  \* a failing `by` closed them
          errors   \* some command of the theory gave an error or a warning

gymVars == <<gym, origin, forked, errors>>

States == Goals \cup {Closed}

GymInit == gym = Closed /\ origin = 0 /\ forked = FALSE /\ errors = FALSE

\* The statement of attempt n, which Isabelle accepts outside of proofs only.
Stated(n) == /\ gym = Closed /\ gym' \in States
             /\ origin' = n /\ forked' = FALSE /\ errors' \in {errors, TRUE}

\* Isabelle executes a proof command, maybe with a warning.
Executed == /\ gym # Closed /\ gym' \in States
            /\ errors' \in {errors, TRUE} /\ UNCHANGED <<origin, forked>>

\* Isabelle rejects a command.
Refused == errors' = TRUE /\ UNCHANGED <<gym, origin, forked>>

\* It rejects a `by` whose proof it has forked, and which has left the proof.
RefusedForked == /\ gym # Closed /\ gym' = Closed /\ forked' = TRUE
                 /\ errors' = TRUE /\ UNCHANGED origin

\* is_syntax_successful, asked of the answer to a step.
Accepted == ~errors'

\* What a step may have done when it raises an exception.
Unknown == UNCHANGED gymVars \/ Executed \/ Refused \/ RefusedForked

\* Between two theorems the caller may reset the gym.
ResetGym == gym' = Closed /\ origin' = 0 /\ forked' = FALSE /\ errors' = FALSE

GymTypeOK(MaxProofs) ==
  gym \in States /\ origin \in 0..MaxProofs /\ forked \in BOOLEAN /\ errors \in BOOLEAN
=============================================================================
