--------------------------- MODULE ThreadedBackend ---------------------------
(***************************************************************************)
(* One session's worker thread and its job queue                           *)
(* (server/app/services/threaded_backend.py), the callers that block on a  *)
(* job's future (session.py, _call_backend) and the one thread that closes *)
(* the backend.  Every call into the JVM goes through this queue.          *)
(* Each caller submits one job; the job is named after its caller.         *)
(***************************************************************************)
EXTENDS Naturals, Sequences

CONSTANTS Callers,   \* threads in a session operation
          Patient,   \* the ones that wait without a timeout (timeout=None)
          Exit,      \* the job close() submits: backend.exit
          NoJob

Jobs == Callers \cup {Exit}

ASSUME CallerAssumption == /\ Patient \subseteq Callers
                           /\ Exit \notin Callers /\ NoJob \notin Jobs

VARIABLES q,            \* _q, oldest job first
          shuttingDown, \* _shutting_down
          stop,         \* _stop
          fut,          \* state of each job's future
          caller,       \* where each caller is
          worker,       \* where the worker thread is
          cur,          \* the job it runs
          closer,       \* where close() is
          exited        \* backend.exit has been called: the JVM side is gone

workerVars == <<q, shuttingDown, stop, fut, caller, worker, cur, closer, exited>>
closeVars == <<shuttingDown, stop, closer, exited>>

Elements(s) == {s[i] : i \in 1..Len(s)}
Queued == Elements(q)

WorkerInit == /\ q = <<>> /\ shuttingDown = FALSE /\ stop = FALSE
              /\ fut = [j \in Jobs |-> "none"]
              /\ caller = [c \in Callers |-> "idle"]
              /\ worker = "check" /\ cur = NoJob
              /\ closer = "open" /\ exited = FALSE

-----------------------------------------------------------------------------
(* submit(): the guard and the put are two steps.                          *)

SubmitRejected(c) ==
  /\ caller[c] = "idle" /\ shuttingDown
  /\ fut' = [fut EXCEPT ![c] = "failed"]
  /\ caller' = [caller EXCEPT ![c] = "waiting"]
  /\ UNCHANGED <<q, worker, cur, closeVars>>

SubmitChecked(c) ==
  /\ caller[c] = "idle" /\ ~shuttingDown
  /\ caller' = [caller EXCEPT ![c] = "checked"]
  /\ UNCHANGED <<q, fut, worker, cur, closeVars>>

\* _submit_unchecked
Put(j) == /\ fut' = [fut EXCEPT ![j] = "pending"]
          /\ q' = Append(q, j)

SubmitPut(c) ==
  /\ caller[c] = "checked"
  /\ Put(c)
  /\ caller' = [caller EXCEPT ![c] = "waiting"]
  /\ UNCHANGED <<worker, cur, closeVars>>

\* fut.result(timeout): the caller gets the result or the error, or gives up
\* and leaves its job where it is.
CallerReturns(c) ==
  /\ caller[c] = "waiting" /\ fut[c] \in {"done", "failed"}
  /\ caller' = [caller EXCEPT ![c] = "returned"]
  /\ UNCHANGED <<q, fut, worker, cur, closeVars>>

CallerTimesOut(c) ==
  /\ caller[c] = "waiting" /\ c \notin Patient /\ fut[c] = "pending"
  /\ caller' = [caller EXCEPT ![c] = "returned"]
  /\ UNCHANGED <<q, fut, worker, cur, closeVars>>

-----------------------------------------------------------------------------
(* _run()                                                                  *)

WorkerCheck ==
  /\ worker = "check"
  /\ worker' = IF stop THEN "stopped" ELSE "poll"
  /\ UNCHANGED <<q, fut, caller, cur, closeVars>>

\* _q.get returns a job and the worker starts it
WorkerTake ==
  /\ worker = "poll" /\ q # <<>>
  /\ cur' = Head(q) /\ q' = Tail(q)
  /\ worker' = "run"
  /\ exited' = (exited \/ Head(q) = Exit)
  /\ UNCHANGED <<shuttingDown, stop, fut, caller, closer>>

WorkerPollTimeout ==
  /\ worker = "poll" /\ q = <<>>
  /\ worker' = "check"
  /\ UNCHANGED <<q, fut, caller, cur, closeVars>>

WorkerResolves(outcome) ==
  /\ worker = "run"
  /\ fut' = [fut EXCEPT ![cur] = outcome]
  /\ cur' = NoJob
  /\ worker' = "check"
  /\ UNCHANGED <<q, caller, closeVars>>

-----------------------------------------------------------------------------
(* close()                                                                 *)

\* Mutant: the worker is told to stop first.
CloseStops ==
  /\ closer = "open"
  /\ shuttingDown' = TRUE /\ stop' = TRUE
  /\ closer' = "drain"
  /\ UNCHANGED <<q, fut, caller, worker, cur, exited>>

\* Mutant: the queue is not drained.
CloseSkipsDrain ==
  /\ closer = "open"
  /\ shuttingDown' = TRUE
  /\ closer' = "exit"
  /\ UNCHANGED <<q, stop, fut, caller, worker, cur, exited>>

CloseSignal ==
  /\ closer = "open"
  /\ shuttingDown' = TRUE
  /\ closer' = "drain"
  /\ UNCHANGED <<q, stop, fut, caller, worker, cur, exited>>

\* Mutant: the drained job's future is left unresolved.
CloseDrops ==
  /\ closer = "drain" /\ q # <<>>
  /\ q' = Tail(q)
  /\ UNCHANGED <<fut, caller, worker, cur, closeVars>>

CloseDrain ==
  /\ closer = "drain" /\ q # <<>>
  /\ fut' = [fut EXCEPT ![Head(q)] = "failed"]
  /\ q' = Tail(q)
  /\ UNCHANGED <<caller, worker, cur, closeVars>>

CloseDrained ==
  /\ closer = "drain" /\ q = <<>>
  /\ closer' = "exit"
  /\ UNCHANGED <<q, shuttingDown, stop, fut, caller, worker, cur, exited>>

\* Mutant: exit goes through the guarded submit(), which rejects it.
CloseExitRejected ==
  /\ closer = "exit"
  /\ fut' = [fut EXCEPT ![Exit] = "failed"]
  /\ closer' = "wait"
  /\ UNCHANGED <<q, shuttingDown, stop, caller, worker, cur, exited>>

CloseSubmitsExit ==
  /\ closer = "exit"
  /\ Put(Exit)
  /\ closer' = "wait"
  /\ UNCHANGED <<shuttingDown, stop, caller, worker, cur, exited>>

CloseExitDone ==
  /\ closer = "wait" /\ fut[Exit] \in {"done", "failed"}
  /\ stop' = TRUE
  /\ closer' = "closed"
  /\ UNCHANGED <<q, shuttingDown, fut, caller, worker, cur, exited>>

\* EXIT_TIMEOUT: the worker is still busy with an earlier job
CloseExitTimeout ==
  /\ closer = "wait" /\ fut[Exit] = "pending"
  /\ stop' = TRUE
  /\ closer' = "gaveUp"
  /\ UNCHANGED <<q, shuttingDown, fut, caller, worker, cur, exited>>

\* Nothing left to do: callers that wait for ever are not finished.
Quiet == /\ worker = "stopped" /\ closer \in {"closed", "gaveUp"}
         /\ \A c \in Callers : caller[c] \in {"waiting", "returned"}
         /\ UNCHANGED workerVars

-----------------------------------------------------------------------------
Submit(c) == SubmitRejected(c) \/ SubmitChecked(c)
Caller(c) == SubmitPut(c) \/ CallerReturns(c) \/ CallerTimesOut(c)
Worker == \/ WorkerCheck \/ WorkerTake \/ WorkerPollTimeout
          \/ \E o \in {"done", "failed"} : WorkerResolves(o)
Close == \/ CloseDrain \/ CloseDrained \/ CloseSubmitsExit
         \/ CloseExitDone \/ CloseExitTimeout

WorkerNext == \/ \E c \in Callers : Submit(c) \/ Caller(c)
              \/ Worker \/ CloseSignal \/ Close \/ Quiet

WorkerSpec == WorkerInit /\ [][WorkerNext]_workerVars

(* Threads run, and every JVM call returns or fails within the Py4J read   *)
(* timeout.  Nobody is obliged to submit, to close or to time out.         *)
WorkerFairSpec == /\ WorkerSpec
                  /\ \A c \in Callers : /\ WF_workerVars(SubmitPut(c))
                                         /\ WF_workerVars(CallerReturns(c))
                  /\ WF_workerVars(Worker)
                  /\ WF_workerVars(CloseDrain \/ CloseDrained \/ CloseSubmitsExit \/ CloseExitDone)

-----------------------------------------------------------------------------
(* Properties.                                                             *)

\* Every variable has the type of the field it stands for.
WorkerTypeOK ==
  /\ q \in Seq(Jobs)
  /\ shuttingDown \in BOOLEAN /\ stop \in BOOLEAN /\ exited \in BOOLEAN
  /\ fut \in [Jobs -> {"none", "pending", "done", "failed"}]
  /\ caller \in [Callers -> {"idle", "checked", "waiting", "returned"}]
  /\ worker \in {"check", "poll", "run", "stopped"}
  /\ cur \in Jobs \cup {NoJob}
  /\ closer \in {"open", "drain", "exit", "wait", "closed", "gaveUp"}

Distinct(s) == \A i, k \in 1..Len(s) : s[i] = s[k] => i = k

\* A future is unresolved exactly while its job is queued once or running: the
\* worker and the draining closer never resolve the same future (set_result on a
\* resolved future raises and would kill the worker thread) and never drop one.
JobAccounted ==
  /\ \A j \in Jobs : fut[j] = "pending" <=> (j \in Queued \/ cur = j)
  /\ Distinct(q)
  /\ cur \notin Queued

\* close() gives up the wait for exit only through EXIT_TIMEOUT: when it returns
\* otherwise, backend.exit has really been called on the worker thread.
CloseMeansExited == closer = "closed" => exited

\* The inductive strengthening of JobAccounted and CloseMeansExited: a job is
\* submitted once, the worker holds a job while it runs, and Exit is taken from
\* the queue by the worker only.
Fresh == /\ \A c \in Callers : caller[c] \in {"idle", "checked"} => fut[c] = "none"
         /\ closer \in {"open", "drain", "exit"} => fut[Exit] = "none"
Occupied == worker = "run" <=> cur # NoJob
ExitRan == (cur = Exit \/ fut[Exit] \in {"done", "failed"}) => exited

QueueInv == WorkerTypeOK /\ Fresh /\ Occupied /\ ExitRan /\ JobAccounted /\ CloseMeansExited

\* close() always comes to an end.
CloseEnds == closer = "drain" ~> closer \in {"closed", "gaveUp"}

\* A job that was queued before the shutdown signal is resolved: its caller is
\* never left hanging, whether the worker runs it or the drain cancels it.
EarlyJobResolved ==
  \A c \in Callers : (fut[c] = "pending" /\ ~shuttingDown) ~> fut[c] # "pending"

=============================================================================
