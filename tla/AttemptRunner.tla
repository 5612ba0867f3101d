---------------------------- MODULE AttemptRunner ----------------------------
(***************************************************************************)
(* The stepwise harness (evaluation/MCP-comparison/run_isabellegym.py):    *)
(* each attempt has its own stdio connection to the stepwise MCP server,   *)
(* sets its session up, lets the model call tools, and reads the final     *)
(* source out of the session.                                              *)
(***************************************************************************)
EXTENDS StepwisePool, AttemptLoop

ASSUME RunnerAssumption == Conns = 1..Repeats["stepwise"]

VARIABLE wait      \* the handler whose answer the harness awaits

stepwiseVars == <<poolVars, wait>>

StepwiseInit == PoolInit /\ wait = None

-----------------------------------------------------------------------------
(* Tool calls.                                                             *)

\* call_tool: what each place of the attempt asks for.
Tool == [enter |-> "enter", warm |-> "look", seed |-> "seed", hammer |-> "look",
         gate |-> "look", gate_source |-> "look", reseed |-> "seed",
         source |-> "look", close |-> "close"]

Ask(k, t) == Arrive(k, now, t) /\ wait' = k

CallTool ==
  /\ wait = None /\ pc \in DOMAIN Tool
  /\ \E k \in Slots : Ask(k, Tool[pc])
  /\ UNCHANGED <<gym, current, lost, loopVars>>

\* Going on at s with the answer of the awaited call ("ok" or "error").
Answer(places, answers) ==
  pc \in places /\ wait # None /\ call[wait].pc \in answers

GoOn(s) == /\ Heard(wait) /\ wait' = None /\ pc' = s
           /\ UNCHANGED <<gym, current, lost>>

\* wait_for gives up; the handler does not.
GiveUp(places, s) ==
  /\ pc \in places /\ wait # None /\ call[wait].pc \notin {"ok", "error"}
  /\ Unheard(wait) /\ wait' = None /\ pc' = s
  /\ UNCHANGED <<gym, current, lost>>

-----------------------------------------------------------------------------
(* Setup.                                                                  *)

Connect ==
  /\ pc = "connect"
  /\ pc' \in {"enter", "raise"}
  /\ UNCHANGED <<stepwiseVars, harness, now, budget, todo, files, error, results>>

\* enter_theory and the seeding must succeed in time, the warm-ups need not.
Setup ==
  /\ \/ Answer({"enter"}, {"ok"}) /\ GoOn("warm")
     \/ Answer({"enter", "seed"}, {"error"}) /\ GoOn("raise")
     \/ GiveUp({"enter", "seed"}, "raise")
     \/ Answer({"warm"}, {"ok", "error"}) /\ GoOn("seed")
     \/ GiveUp({"warm"}, "seed")
     \/ Answer({"seed"}, {"ok"}) /\ GoOn("hammer")
     \/ Answer({"hammer"}, {"ok", "error"}) /\ GoOn("round")
     \/ GiveUp({"hammer"}, "round")
  /\ UNCHANGED <<harness, now, budget, todo, files, error, results>>

-----------------------------------------------------------------------------
(* Rounds.                                                                 *)

StepwiseRound == Round /\ UNCHANGED stepwiseVars

\* check_done_readiness: the goal is open, or the source says sorry; what cannot be
\* read is left to the arbiter.
Gate ==
  /\ \/ Answer({"gate"}, {"ok"}) /\ call[wait].text.proof # "open"
        /\ GoOn("gate_source") /\ UNCHANGED budget
     \/ Answer({"gate"}, {"ok"}) /\ call[wait].text.proof = "open"
        /\ GoOn("round") /\ SentBack
     \/ Answer({"gate_source"}, {"ok"}) /\ call[wait].text.proof = "sorry"
        /\ GoOn("round") /\ SentBack
     \/ Answer({"gate_source"}, {"ok"}) /\ call[wait].text.proof # "sorry"
        /\ GoOn("source") /\ UNCHANGED budget
     \/ Answer({"gate", "gate_source"}, {"error"}) /\ GoOn("source") /\ UNCHANGED budget
  /\ UNCHANGED <<harness, now, todo, files, error, results>>

\* The tool calls of a round, one after the other; arguments that are no JSON are
\* answered by the harness.
Begin ==
  /\ pc = "tools" /\ wait = None
  /\ \/ /\ todo = 0 /\ pc' = "round"
        /\ UNCHANGED <<call, wait, todo>>
     \/ /\ todo > 0 /\ todo' = todo - 1
        /\ UNCHANGED <<call, wait, pc>>
     \/ /\ todo > 0
        /\ \E k \in Slots, t \in {"enter", "edit", "look", "close", "batch"} :
             /\ Ask(k, t)
             /\ pc' = IF t = "enter" THEN "tool_enter" ELSE "tool"
        /\ UNCHANGED todo
  /\ UNCHANGED <<gym, current, lost, harness, now, budget, files, error, results>>

\* An enter_theory that did not report an error (one that timed out did not) is
\* followed by the statement, for better or worse.
Answered ==
  /\ \/ /\ Answer({"tool", "reseed"}, {"ok", "error"}) \/ Answer({"tool_enter"}, {"error"})
        /\ GoOn("tools") /\ todo' = todo - 1
     \/ GiveUp({"tool", "reseed"}, "tools") /\ todo' = todo - 1
     \/ Answer({"tool_enter"}, {"ok"}) /\ GoOn("reseed") /\ UNCHANGED todo
     \/ GiveUp({"tool_enter"}, "reseed") /\ UNCHANGED todo
  /\ UNCHANGED <<harness, now, budget, files, error, results>>

-----------------------------------------------------------------------------
(* The end of an attempt.                                                  *)

\* The source is written, even if it is an error message, unless that raises an exception;
\* the theory is closed.
Final ==
  /\ \/ /\ Answer({"source"}, {"ok", "error"})
        /\ files' = [files EXCEPT ![now] = [by |-> now, theorem |-> call[wait].text.theorem,
                                            proof |-> call[wait].text.proof]]
        /\ GoOn("close")
     \/ Answer({"source"}, {"ok", "error"}) /\ GoOn("raise") /\ UNCHANGED files
     \/ Answer({"close"}, {"ok", "error"}) /\ GoOn("leave") /\ UNCHANGED files
  /\ UNCHANGED <<harness, now, budget, todo, error, results>>

\* The `async with` is left, normally or by the exception, or with one; the close_theory
\* calls of the handlers after it find no connection.
Disconnect ==
  /\ pc \in {"leave", "raise"}
  /\ Drop(now)
  /\ wait' = None /\ pc' = "judge" /\ todo' = 0
  /\ error' \in {TRUE, pc = "raise"}
  /\ UNCHANGED <<harness, now, budget, files, results>>

StepwiseRecord == Record /\ UNCHANGED stepwiseVars

Stepwise ==
  /\ harness = "stepwise"
  /\ \/ CallTool \/ Connect \/ Setup \/ StepwiseRound \/ Gate \/ Begin \/ Answered
     \/ Final \/ Disconnect \/ StepwiseRecord
=============================================================================
