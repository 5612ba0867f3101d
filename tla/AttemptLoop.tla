----------------------------- MODULE AttemptLoop -----------------------------
(***************************************************************************)
(* What the four comparison harnesses of evaluation/MCP-comparison share   *)
(* (each script has its own copy of the loop; common/model.py, arbiter.py  *)
(* and metrics.py are common): one attempt after another, in each a model  *)
(* that may do anything for a bounded number of rounds, a final theory     *)
(* file, the arbiter's verdict on the file, one line of results.           *)
(*                                                                         *)
(* A text says who wrote it (0: no attempt of this run of the script),     *)
(* what it states under the name of the target theorem (nothing, the       *)
(* statement posed, or another one), and how far its proof is.             *)
(***************************************************************************)
EXTENDS Naturals, Sequences

CONSTANTS Repeats,     \* how many attempts each harness makes
          MaxRounds, NudgeLimit, DoneNudgeLimit,
          Leftovers,   \* what an earlier run of the script may have left in a file
          MaxCalls     \* bound: tool calls of one round

ProofStates == {"open", "finished", "sorry"}
Statements  == {"none", "posed", "other"}
Text(a)  == [by : {a}, theorem : Statements, proof : ProofStates]
Absent   == [by |-> 0, theorem |-> "none", proof |-> "open"]
Template == [by |-> 0, theorem |-> "posed", proof |-> "sorry"]

ASSUME LoopAssumption ==
  /\ MaxRounds \in Nat /\ NudgeLimit \in Nat /\ DoneNudgeLimit \in Nat /\ MaxCalls \in Nat \ {0}
  /\ \A h \in DOMAIN Repeats : Repeats[h] \in Nat \ {0}
  /\ Leftovers \subseteq Text(0)

VARIABLES harness,  \* the script that runs
          now,      \* the attempt in progress
          pc,       \* where it is
          budget,   \* rounds and nudges used
          todo,     \* tool calls of this round not yet answered
          files,    \* the final theories on disk, one per attempt
          error,    \* result.error is set: an exception ended the attempt
          results   \* the lines this run adds to results.jsonl, by attempt

loopVars == <<harness, now, pc, budget, todo, files, error, results>>

Unused   == [rounds |-> 0, nudges |-> 0, done |-> 0]

Attempts == 1..Repeats[harness]

LoopInit == /\ now = 1 /\ pc = "connect" /\ budget = Unused /\ todo = 0
            /\ files \in [Attempts -> Leftovers] /\ error = FALSE
            /\ results = [a \in Attempts |-> <<>>]

-----------------------------------------------------------------------------
(* Rounds.                                                                 *)

Counted == [budget EXCEPT !.rounds = @ + 1]

\* no_tool_call_action: the model says DONE (checked while there are nudges for it),
\* or neither calls a tool nor says so.
Silent ==
  \/ /\ pc' = IF budget.done < DoneNudgeLimit THEN "gate" ELSE "source"
     /\ budget' = Counted
  \/ budget.nudges >= NudgeLimit /\ pc' = "source" /\ budget' = Counted
  \/ /\ budget.nudges < NudgeLimit /\ UNCHANGED pc
     /\ budget' = [Counted EXCEPT !.nudges = @ + 1]

\* The loop: the rounds or the wall cap are used up, the model cannot be reached, or
\* it answers with tool calls or without.
Round ==
  /\ pc = "round"
  /\ \/ pc' = "source" /\ UNCHANGED <<budget, todo>>
     \/ /\ budget.rounds < MaxRounds
        /\ \/ pc' = "raise" /\ UNCHANGED <<budget, todo>>
           \/ \E n \in 1..MaxCalls : todo' = n /\ pc' = "tools" /\ budget' = Counted
           \/ Silent /\ UNCHANGED todo
  /\ UNCHANGED <<harness, now, files, error, results>>

\* The DONE gate sends the model back with a reason; a nudge is used.
SentBack == budget' = [budget EXCEPT !.done = @ + 1]

-----------------------------------------------------------------------------
(* The end of an attempt.                                                  *)

\* check: no sorry, a theorem of the name is there, and the build goes through.  The
\* statement is not compared.
Verdict(f) == f.theorem # "none" /\ f.proof = "finished"

Append1(r) == results' = [results EXCEPT ![now] = Append(@, r)]

Goto(s) == pc' = s /\ UNCHANGED <<harness, now, budget, todo, files, error>>

NextAttempt ==
  /\ budget' = Unused /\ error' = FALSE
  /\ IF now + 1 \in Attempts THEN now' = now + 1 /\ pc' = "connect"
     ELSE now' = now /\ pc' = "end"
  /\ UNCHANGED <<harness, todo, files>>

\* The line of the `finally` block: the build that the arbiter asks for may fail for reasons
\* of its own.  `sound` is the truth about a solved attempt.
Line(built) ==
  LET f == files[now] IN
  [from   |-> "finally",
   solved |-> built /\ f # Absent /\ Verdict(f),
   sound  |-> Verdict(f) /\ (f.by = now \/ (f.by = 0 /\ error))]

\* (bug: an attempt without a final file leaves no result)
JudgeFiles ==
  /\ pc = "judge"
  /\ IF files[now] = Absent THEN UNCHANGED results ELSE Append1(Line(TRUE))
  /\ Goto("closing")

\* The `finally` block: the arbiter judges the file if there is one, and the result is
\* appended, unless one of both raises an exception.
Judge ==
  /\ pc = "judge"
  /\ \/ \E built \in BOOLEAN : Append1(Line(built)) /\ Goto("closing")
     \/ Goto("failed") /\ UNCHANGED results

\* The log is closed and a summary printed, which may raise an exception.
Closing ==
  /\ pc = "closing"
  /\ NextAttempt \/ Goto("failed")
  /\ UNCHANGED results

\* What run_attempt does before its `try` may raise an exception too.
BeginFails == pc = "connect" /\ Goto("failed") /\ UNCHANGED results

\* main appends a failure for every exception, also when the attempt has its line; if it
\* cannot, the script ends.
MainRecords ==
  /\ pc = "failed"
  /\ \/ Append1([from |-> "main", solved |-> FALSE, sound |-> FALSE]) /\ NextAttempt
     \/ Goto("crashed") /\ UNCHANGED results

Record == Judge \/ Closing \/ BeginFails \/ MainRecords

-----------------------------------------------------------------------------
(* Properties.                                                             *)

\* An attempt that is counted as solved (arbiter_solved, "ground truth" in metrics.py)
\* was judged by a theory that has a theorem of the target's name and proves all it states.
\* It is the theory the attempt wrote itself: no proof of another attempt, left in a file, a
\* session or an editor's buffer, is counted again, and one of an earlier run of the
\* script only for an attempt that an exception ended, in a line with that error.
SolvedSound ==
  \A a \in DOMAIN results : \A i \in DOMAIN results[a] :
    results[a][i].solved => results[a][i].sound

\* The lines of an attempt: one of its own and one of main at most, the latter last and a
\* failure.
Once(l) ==
  /\ \A i, j \in DOMAIN l : l[i].from = l[j].from => i = j
  /\ \A i \in DOMAIN l : l[i].from = "main" => i = Len(l) /\ ~l[i].solved

\* No attempt is without a line in results.jsonl, on whatever path it ended, unless the
\* script ended there; and none is counted as solved twice or judged twice, although an
\* exception after its line adds another one.
OneResult ==
  \A a \in DOMAIN results :
    /\ (a < now \/ pc = "end") => results[a] # <<>>
    /\ a > now => results[a] = <<>>
    /\ Once(results[a])

\* The inductive invariant of the loop.  A final theory that would be accepted was
\* written in its own attempt or by an earlier run, in its own when it is judged without
\* an error; and the line of an attempt is written once.
Contents == [by : Nat, theorem : Statements, proof : ProofStates]
Own(t) == Verdict(t) => t.by = now
FilesOwn == /\ \A a \in Attempts : Verdict(files[a]) => files[a].by \in {0, a}
            /\ (pc \in {"close", "leave", "judge"} /\ ~error) => Own(files[now])
            /\ error => pc \in {"judge", "closing", "failed", "crashed"}

Lines == [from : {"finally", "main"}, solved : BOOLEAN, sound : BOOLEAN]
Judged == [from : {"finally"}, solved : BOOLEAN, sound : BOOLEAN]

Recorded(a) ==
  IF a < now \/ pc = "end" THEN results[a] # <<>>
  ELSE IF a = now /\ pc \in {"closing", "failed", "crashed"}
    THEN /\ pc = "closing" => results[a] # <<>>
         /\ results[a] # <<>> => Len(results[a]) = 1 /\ results[a][1] \in Judged
  ELSE results[a] = <<>>

LoopType ==
  /\ harness \in DOMAIN Repeats /\ now \in Attempts /\ error \in BOOLEAN
  /\ budget \in [rounds : Nat, nudges : Nat, done : Nat]
  /\ todo \in Nat /\ (pc \in {"tool", "tool_enter", "reseed"} => todo > 0)
  /\ files \in [Attempts -> Contents]
  /\ results \in [Attempts -> Seq(Lines)]

LoopInv == LoopType /\ FilesOwn /\ SolvedSound /\ OneResult /\ \A a \in Attempts : Recorded(a)
=============================================================================
