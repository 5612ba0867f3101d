------------------------------ MODULE SharedGym ------------------------------
(***************************************************************************)
(* run_competition of evaluation/local_gym/multi_session_agent_framework:  *)
(* agents prove one theorem in the threads of an executor, each in a       *)
(* session of its own, through one gym.  The gym's client                  *)
(* (repl/src/python/isabelle_client.py) has one current session, to which  *)
(* every call goes.  A thread may be interrupted between any two accesses  *)
(* to the client.                                                          *)
(*                                                                         *)
(* What the agents do is left open: calls of the gym, then a result.       *)
(* Agents have different names; the name is the key of the results.        *)
(***************************************************************************)
EXTENDS Naturals, FiniteSets

CONSTANTS Agents, None,
          MaxWorkers     \* min(len(agents), max_concurrent_sessions)

\* The session of an agent's task is named by the agent.
VARIABLES pc,        \* where the task of an agent is
          sessions,  \* client.sessions
          current,   \* client.current_session_id
          seen,      \* the session id that a call of the task has read
          files,     \* the theory wrappers on disk
          warned,    \* history: agents whose wrapper could not be deleted
          earlier,   \* history: the tasks that were over when a task began
          reached,   \* history: the sessions in which the agent's commands were executed
          outcome,   \* result of the agent's future
          results,   \* all_results
          winner

clientVars == <<sessions, current, files, warned>>
vars == <<pc, clientVars, seen, earlier, reached, outcome, results, winner>>

Init == /\ pc = [a \in Agents |-> "queued"]
        /\ sessions = {} /\ current = None /\ files = {} /\ warned = {}
        /\ seen = [a \in Agents |-> None]
        /\ earlier = [a \in Agents |-> {}] /\ reached = [a \in Agents |-> {}]
        /\ outcome = [a \in Agents |-> None] /\ results = [a \in Agents |-> None]
        /\ winner = None

Goto(a, from, to) == pc[a] = from /\ pc' = [pc EXCEPT ![a] = to]

Over == {a \in Agents : pc[a] \in {"done", "collected"}}
Working == {a \in Agents : pc[a] # "queued"} \ Over

-----------------------------------------------------------------------------
(* _run_single_agent_task.  A thread of the executor takes the task.       *)

Begin(a) ==
  /\ Cardinality(Working) < MaxWorkers
  /\ Goto(a, "queued", "create")
  /\ earlier' = [earlier EXCEPT ![a] = Over]
  /\ UNCHANGED <<clientVars, seen, reached, outcome, results, winner>>

\* create_session: the wrapper is written, the backend created and the session registered.
Create(a) ==
  /\ Goto(a, "create", "adopt")
  /\ sessions' = sessions \cup {a} /\ files' = files \cup {a}
  /\ UNCHANGED <<current, warned, seen, earlier, reached, outcome, results, winner>>

\* An exception before that, with or without a wrapper: the finally branch follows.
CreateFails(a) ==
  /\ Goto(a, "create", "close")
  /\ files' \in {files, files \cup {a}}
  /\ outcome' = [outcome EXCEPT ![a] = "failure"]
  /\ UNCHANGED <<sessions, current, warned, seen, earlier, reached, results, winner>>

\* The end of create_session finds no current session, and then sets it.
Adopt(a) ==
  /\ Goto(a, "adopt", IF current = None THEN "select" ELSE "switch")
  /\ UNCHANGED <<clientVars, seen, earlier, reached, outcome, results, winner>>

Select(a, from, to) ==
  /\ Goto(a, from, to)
  /\ current' = a
  /\ UNCHANGED <<sessions, files, warned, seen, earlier, reached, outcome, results, winner>>

\* switch_session of a session that is there.
SwitchSession(a) == a \in sessions /\ Select(a, "switch", "work")

\* enter_thy, step or a query of the gym, by the task or by its agent: get_current_session
\* finds a current session (without one it raises, and nothing happens), reads its id once
\* more, and looks it up.
Ask(a) ==
  /\ Goto(a, "work", "asked") /\ current # None
  /\ UNCHANGED <<clientVars, seen, earlier, reached, outcome, results, winner>>

ReadCurrent(a) ==
  /\ Goto(a, "asked", "read")
  /\ seen' = [seen EXCEPT ![a] = current]
  /\ UNCHANGED <<clientVars, earlier, reached, outcome, results, winner>>

\* KeyError if there is no such session by now.  Otherwise the call is executed; its
\* backend is not exited when the session is closed.
Call(a) ==
  /\ Goto(a, "read", "work")
  /\ reached' = [reached EXCEPT ![a] = @ \cup ({seen[a]} \cap sessions)]
  /\ seen' = [seen EXCEPT ![a] = None]
  /\ UNCHANGED <<clientVars, earlier, outcome, results, winner>>

\* The agent succeeded; it made calls.
Success(a) ==
  /\ Goto(a, "work", "close") /\ reached[a] # {}
  /\ outcome' = [outcome EXCEPT ![a] = "success"]
  /\ UNCHANGED <<clientVars, seen, earlier, reached, results, winner>>

\* It gave up, or a call raised an exception that nobody caught.
Failure(a) ==
  /\ Goto(a, "work", "close")
  /\ outcome' = [outcome EXCEPT ![a] = "failure"]
  /\ UNCHANGED <<clientVars, seen, earlier, reached, results, winner>>

\* close_session: nothing to close, or deselected if it is the current one, and then
\* forgotten.  The backend itself is left to the gateway.
CloseMissing(a) ==
  /\ Goto(a, "close", "done") /\ a \notin sessions
  /\ UNCHANGED <<clientVars, seen, earlier, reached, outcome, results, winner>>

\* Mutant: the session is forgotten, not deselected.
CloseKeepsCurrent(a) ==
  /\ Goto(a, "close", "pop") /\ a \in sessions
  /\ UNCHANGED <<clientVars, seen, earlier, reached, outcome, results, winner>>

CloseSession(a) ==
  /\ Goto(a, "close", IF current = a THEN "deselect" ELSE "pop") /\ a \in sessions
  /\ UNCHANGED <<clientVars, seen, earlier, reached, outcome, results, winner>>

\* Whatever is current by now.
Deselect(a) ==
  /\ Goto(a, "deselect", "pop")
  /\ current' = None
  /\ UNCHANGED <<sessions, files, warned, seen, earlier, reached, outcome, results, winner>>

Pop(a) ==
  /\ Goto(a, "pop", "delete")
  /\ sessions' = sessions \ {a}
  /\ UNCHANGED <<current, files, warned, seen, earlier, reached, outcome, results, winner>>

\* The wrapper is deleted, or the failure to do so printed.
DeleteWrapper(a) ==
  /\ Goto(a, "delete", "done")
  /\ \/ files' = files \ {a} /\ UNCHANGED warned
     \/ warned' = warned \cup {a} /\ UNCHANGED files
  /\ UNCHANGED <<sessions, current, seen, earlier, reached, outcome, results, winner>>

-----------------------------------------------------------------------------
(* run_competition, in the caller's thread.                                *)

\* A future is completed: its result, and the first success wins.
Collect(a) ==
  /\ Goto(a, "done", "collected")
  /\ results' = [results EXCEPT ![a] = outcome[a]]
  /\ winner' = IF outcome[a] = "success" /\ winner = None THEN a ELSE winner
  /\ UNCHANGED <<clientVars, seen, earlier, reached, outcome>>

\* The CollaborationResult is returned.
Returned == (\A a \in Agents : pc[a] = "collected") /\ UNCHANGED vars

Task(a) == \/ Begin(a) \/ Create(a) \/ CreateFails(a)
           \/ Adopt(a) \/ Select(a, "select", "switch") \/ SwitchSession(a)
           \/ Ask(a) \/ ReadCurrent(a) \/ Call(a) \/ Success(a) \/ Failure(a)
           \/ CloseMissing(a) \/ CloseSession(a) \/ Deselect(a) \/ Pop(a) \/ DeleteWrapper(a)

Next == (\E a \in Agents : Task(a) \/ Collect(a)) \/ Returned

Spec == Init /\ [][Next]_vars

-----------------------------------------------------------------------------
(* Properties.                                                             *)

TypeOK ==
  /\ pc \in [Agents -> {"queued", "create", "adopt", "select", "switch", "work", "asked", "read",
                        "close", "deselect", "pop", "delete", "done", "collected"}]
  /\ sessions \subseteq Agents /\ current \in Agents \cup {None}
  /\ files \subseteq Agents /\ warned \subseteq Agents
  /\ seen \in [Agents -> Agents \cup {None}]
  /\ earlier \in [Agents -> SUBSET Agents] /\ reached \in [Agents -> SUBSET Agents]
  /\ outcome \in [Agents -> {None, "success", "failure"}]
  /\ results \in [Agents -> {None, "success", "failure"}]
  /\ winner \in Agents \cup {None}

\* However the threads of the tasks create, switch and close over one another, the
\* current session of the client is one that is open.  Whatever failed on the way, a task
\* that is over has no session, and leaves a wrapper on disk only if it could not be
\* deleted or if the task never executed anything.  And although a task may execute its
\* commands in the session of another one, it never does in the session of a task that
\* was over when it began: no current session survives its task.
TaskCleansUp ==
  /\ current # None => current \in sessions
  /\ \A a \in Over :
       a \notin sessions
       /\ (a \in files => a \in warned \/ (outcome[a] = "failure" /\ reached[a] = {}))
  /\ \A a \in Agents : reached[a] \cap earlier[a] = {}

=============================================================================
