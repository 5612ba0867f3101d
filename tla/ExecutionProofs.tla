-------------------------- MODULE ExecutionProofs --------------------------
(***************************************************************************)
(* What carries a text to Isabelle below a session, for every value of the *)
(* constants: the worker thread of the session (ThreadedBackend), the      *)
(* reply channels of the probes (MLChannel) and the strict verifier, which *)
(* starts processes of its own (BuildVerify).                              *)
(***************************************************************************)
EXTENDS ThreadedBackend, MLChannel, BuildVerify, SequenceTheorems, FiniteSetTheorems, TLAPS

-----------------------------------------------------------------------------
(***************************************************************************)
(* ThreadedBackend: the job queue of a session for every set of callers.   *)
(* QueueInv is inductive, so that no future is resolved twice or dropped   *)
(* and close() reports a clean end only after backend.exit.                *)
(***************************************************************************)

\* _q.put of a job that is not queued keeps the queue free of duplicates.
LEMMA AppendJob ==
  ASSUME NEW s \in Seq(Jobs), NEW j \in Jobs, Distinct(s), j \notin Elements(s)
  PROVE  /\ Append(s, j) \in Seq(Jobs) /\ Distinct(Append(s, j))
         /\ Elements(Append(s, j)) = Elements(s) \cup {j}
<1> DEFINE a == Append(s, j)
<1>1. a \in Seq(Jobs) /\ Len(a) = Len(s) + 1 /\ Len(s) \in Nat
  OBVIOUS
<1>2. a[Len(s) + 1] = j /\ \A i \in 1..Len(s) : a[i] = s[i]
  OBVIOUS
<1>3. 1..Len(a) = 1..Len(s) \cup {Len(s) + 1}
  BY <1>1
<1>4. Distinct(a)
  BY <1>1, <1>2, <1>3 DEF Distinct, Elements
<1>5. Elements(a) = Elements(s) \cup {j}
  BY <1>2, <1>3 DEF Elements
<1>6. QED BY <1>1, <1>4, <1>5

\* _q.get takes the oldest job and only that one.
LEMMA TakeJob ==
  ASSUME NEW s \in Seq(Jobs), s # <<>>, Distinct(s)
  PROVE  /\ Head(s) \in Jobs /\ Head(s) \in Elements(s)
         /\ Tail(s) \in Seq(Jobs) /\ Distinct(Tail(s))
         /\ Elements(Tail(s)) = Elements(s) \ {Head(s)}
<1> DEFINE t == Tail(s)
<1>1. Len(s) \in Nat /\ Len(s) >= 1 /\ Head(s) = s[1]
  OBVIOUS
<1>2. t \in Seq(Jobs) /\ Len(t) = Len(s) - 1 /\ \A i \in 1..Len(t) : t[i] = s[i + 1]
  BY <1>1
<1>3. Distinct(t)
  BY <1>1, <1>2 DEF Distinct
<1>4. Elements(t) \subseteq Elements(s) \ {Head(s)}
  BY <1>1, <1>2 DEF Elements, Distinct
<1>5. ASSUME NEW x \in Elements(s), x # Head(s) PROVE x \in Elements(t)
  <2>1. PICK i \in 1..Len(s) : s[i] = x
    BY DEF Elements
  <2>2. i - 1 \in 1..Len(t) /\ t[i - 1] = x
    BY <1>1, <1>2, <1>5, <2>1
  <2>3. QED BY <2>2 DEF Elements
<1>6. Head(s) \in Jobs /\ Head(s) \in Elements(s)
  BY <1>1 DEF Elements
<1>7. QED BY <1>2, <1>3, <1>4, <1>5, <1>6

\* The backend starts with an empty queue and nothing submitted.
LEMMA WorkerInitInv == WorkerInit => QueueInv
<1> SUFFICES ASSUME WorkerInit PROVE QueueInv
  OBVIOUS
<1>1. q = <<>> /\ Len(q) = 0
  BY DEF WorkerInit
<1>2. Queued = {} /\ Distinct(q)
  BY <1>1 DEF Queued, Elements, Distinct
<1>3. WorkerTypeOK
  <2>1. shuttingDown \in BOOLEAN /\ stop \in BOOLEAN /\ exited \in BOOLEAN
    BY Zenon DEF WorkerInit
  <2>2. q \in Seq(Jobs)
    BY <1>1
  <2>3. /\ fut \in [Jobs -> {"none", "pending", "done", "failed"}]
        /\ caller \in [Callers -> {"idle", "checked", "waiting", "returned"}]
        /\ worker \in {"check", "poll", "run", "stopped"} /\ cur \in Jobs \cup {NoJob}
        /\ closer \in {"open", "drain", "exit", "wait", "closed", "gaveUp"}
    BY DEF WorkerInit
  <2>4. QED BY <2>1, <2>2, <2>3 DEF WorkerTypeOK
<1>4. QED
  BY <1>1, <1>2, <1>3, CallerAssumption
  DEF WorkerInit, QueueInv, Fresh, Occupied, ExitRan, JobAccounted, CloseMeansExited, Jobs

\* A caller puts its job in the queue, is rejected, returns or gives up.
LEMMA CallerStep ==
  ASSUME QueueInv, NEW c \in Callers, Submit(c) \/ Caller(c)
  PROVE  QueueInv'
<1> USE CallerAssumption DEF closeVars, Jobs
<1>1. CASE SubmitRejected(c) \/ SubmitChecked(c) \/ CallerReturns(c) \/ CallerTimesOut(c)
  <2>1. q' = q /\ Queued' = Queued /\ cur' = cur
    BY <1>1 DEF SubmitRejected, SubmitChecked, CallerReturns, CallerTimesOut, Queued
  <2>2. WorkerTypeOK' /\ Fresh' /\ Occupied' /\ ExitRan' /\ CloseMeansExited'
    BY <1>1 DEF SubmitRejected, SubmitChecked, CallerReturns, CallerTimesOut,
       QueueInv, WorkerTypeOK, Fresh, Occupied, ExitRan, CloseMeansExited
  <2>3. JobAccounted'
    BY <1>1, <2>1 DEF SubmitRejected, SubmitChecked, CallerReturns, CallerTimesOut,
       QueueInv, WorkerTypeOK, Fresh, JobAccounted
  <2>4. QED BY <2>2, <2>3 DEF QueueInv
<1>2. CASE SubmitPut(c)
  <2>1. fut[c] = "none" /\ c \notin Queued /\ cur # c
    BY <1>2 DEF SubmitPut, QueueInv, Fresh, JobAccounted
  <2>2. q' \in Seq(Jobs) /\ Distinct(q') /\ Queued' = Queued \cup {c}
    BY <1>2, <2>1, AppendJob DEF SubmitPut, Put, QueueInv, WorkerTypeOK, JobAccounted, Queued
  <2>3. WorkerTypeOK' /\ Fresh' /\ Occupied' /\ ExitRan' /\ CloseMeansExited'
    BY <1>2, <2>2 DEF SubmitPut, Put, QueueInv, WorkerTypeOK, Fresh, Occupied, ExitRan,
       CloseMeansExited
  <2>4. JobAccounted'
    BY <1>2, <2>1, <2>2 DEF SubmitPut, Put, QueueInv, WorkerTypeOK, JobAccounted
  <2>5. QED BY <2>3, <2>4 DEF QueueInv
<1>3. QED BY <1>1, <1>2 DEF Submit, Caller

\* The worker takes the oldest job, runs it and resolves its future.
LEMMA WorkerStep ==
  ASSUME QueueInv, Worker
  PROVE  QueueInv'
<1> USE CallerAssumption DEF closeVars, Jobs
<1>1. CASE WorkerCheck \/ WorkerPollTimeout
  <2>1. q' = q /\ Queued' = Queued /\ cur' = cur
    BY <1>1 DEF WorkerCheck, WorkerPollTimeout, Queued
  <2>2. WorkerTypeOK' /\ Fresh' /\ Occupied' /\ ExitRan' /\ CloseMeansExited'
    BY <1>1 DEF WorkerCheck, WorkerPollTimeout, QueueInv, WorkerTypeOK, Fresh, Occupied, ExitRan,
       CloseMeansExited
  <2>3. JobAccounted'
    BY <1>1, <2>1 DEF WorkerCheck, WorkerPollTimeout, QueueInv, JobAccounted
  <2>4. QED BY <2>2, <2>3 DEF QueueInv
<1>2. CASE WorkerTake
  <2>1. /\ Head(q) \in Jobs /\ Head(q) \in Queued /\ cur = NoJob
        /\ q' \in Seq(Jobs) /\ Distinct(q') /\ Queued' = Queued \ {Head(q)}
    BY <1>2, TakeJob DEF WorkerTake, QueueInv, WorkerTypeOK, Occupied, JobAccounted, Queued
  <2>2. WorkerTypeOK' /\ Fresh' /\ Occupied' /\ ExitRan' /\ CloseMeansExited'
    BY <1>2, <2>1 DEF WorkerTake, QueueInv, WorkerTypeOK, Fresh, Occupied, ExitRan, CloseMeansExited
  <2>3. JobAccounted'
    BY <1>2, <2>1 DEF WorkerTake, QueueInv, WorkerTypeOK, JobAccounted
  <2>4. QED BY <2>2, <2>3 DEF QueueInv
<1>3. ASSUME NEW o \in {"done", "failed"}, WorkerResolves(o) PROVE QueueInv'
  <2>1. q' = q /\ Queued' = Queued /\ cur \in Jobs /\ cur \notin Queued /\ fut[cur] = "pending"
    BY <1>3 DEF WorkerResolves, QueueInv, WorkerTypeOK, Occupied, JobAccounted, Queued
  <2>2. WorkerTypeOK' /\ Fresh' /\ Occupied' /\ ExitRan' /\ CloseMeansExited'
    BY <1>3, <2>1 DEF WorkerResolves, QueueInv, WorkerTypeOK, Fresh, Occupied, ExitRan,
       CloseMeansExited
  <2>3. JobAccounted'
    <3>1. \A j \in Jobs : fut'[j] = IF j = cur THEN o ELSE fut[j]
      BY <1>3 DEF WorkerResolves, QueueInv, WorkerTypeOK
    <3>2. cur' = NoJob /\ NoJob \notin Queued
      BY <1>3 DEF WorkerResolves, QueueInv, WorkerTypeOK, Queued, Elements
    <3>3. QED BY <2>1, <3>1, <3>2 DEF QueueInv, JobAccounted
  <2>4. QED BY <2>2, <2>3 DEF QueueInv
<1>4. QED BY <1>1, <1>2, <1>3 DEF Worker

\* close() drains the queue, submits exit and waits for it.
LEMMA CloseStep ==
  ASSUME QueueInv, CloseSignal \/ Close
  PROVE  QueueInv'
<1> USE CallerAssumption DEF closeVars, Jobs
<1>1. CASE CloseSignal \/ CloseDrained \/ CloseExitDone \/ CloseExitTimeout
  <2>1. q' = q /\ Queued' = Queued /\ cur' = cur /\ fut' = fut
    BY <1>1 DEF CloseSignal, CloseDrained, CloseExitDone, CloseExitTimeout, Queued
  <2>2. WorkerTypeOK' /\ Fresh' /\ Occupied' /\ ExitRan' /\ CloseMeansExited'
    BY <1>1 DEF CloseSignal, CloseDrained, CloseExitDone, CloseExitTimeout, QueueInv, WorkerTypeOK,
       Fresh, Occupied, ExitRan, CloseMeansExited
  <2>3. JobAccounted'
    BY <2>1 DEF QueueInv, JobAccounted
  <2>4. QED BY <2>2, <2>3 DEF QueueInv
<1>2. CASE CloseDrain
  <2>1. /\ Head(q) \in Jobs /\ Head(q) \in Queued /\ cur # Head(q)
        /\ q' \in Seq(Jobs) /\ Distinct(q') /\ Queued' = Queued \ {Head(q)}
    BY <1>2, TakeJob DEF CloseDrain, QueueInv, WorkerTypeOK, JobAccounted, Queued
  <2>2. fut[Exit] = "none" /\ fut[Head(q)] = "pending" /\ Head(q) # Exit
    BY <1>2, <2>1 DEF CloseDrain, QueueInv, Fresh, JobAccounted
  <2>3. WorkerTypeOK' /\ Fresh' /\ Occupied' /\ ExitRan' /\ CloseMeansExited'
    BY <1>2, <2>1, <2>2 DEF CloseDrain, QueueInv, WorkerTypeOK, Fresh, Occupied, ExitRan,
       CloseMeansExited
  <2>4. JobAccounted'
    BY <1>2, <2>1 DEF CloseDrain, QueueInv, WorkerTypeOK, JobAccounted
  <2>5. QED BY <2>3, <2>4 DEF QueueInv
<1>3. CASE CloseSubmitsExit
  <2>1. fut[Exit] = "none" /\ Exit \notin Queued /\ cur # Exit
    BY <1>3 DEF CloseSubmitsExit, QueueInv, Fresh, JobAccounted
  <2>2. q' \in Seq(Jobs) /\ Distinct(q') /\ Queued' = Queued \cup {Exit}
    BY <1>3, <2>1, AppendJob DEF CloseSubmitsExit, Put, QueueInv, WorkerTypeOK, JobAccounted, Queued
  <2>3. WorkerTypeOK' /\ Fresh' /\ Occupied' /\ ExitRan' /\ CloseMeansExited'
    BY <1>3, <2>1, <2>2 DEF CloseSubmitsExit, Put, QueueInv, WorkerTypeOK, Fresh, Occupied, ExitRan,
       CloseMeansExited
  <2>4. JobAccounted'
    BY <1>3, <2>1, <2>2 DEF CloseSubmitsExit, Put, QueueInv, WorkerTypeOK, JobAccounted
  <2>5. QED BY <2>3, <2>4 DEF QueueInv
<1>4. QED BY <1>1, <1>2, <1>3 DEF Close

\* Every step of callers, worker and closer preserves the invariant.
LEMMA WorkerNextInv == QueueInv /\ [WorkerNext]_workerVars => QueueInv'
<1> SUFFICES ASSUME QueueInv, [WorkerNext]_workerVars PROVE QueueInv'
  OBVIOUS
<1>1. CASE UNCHANGED workerVars
  <2>1. UNCHANGED <<q, shuttingDown, stop, fut, caller, worker, cur, closer, exited>>
    BY <1>1 DEF workerVars
  <2>2. Queued' = Queued
    BY <2>1 DEF Queued
  <2>3. QED
    BY <2>1, <2>2 DEF QueueInv, WorkerTypeOK, Fresh, Occupied, ExitRan, JobAccounted,
       CloseMeansExited
<1>2. QED
  BY <1>1, CallerStep, WorkerStep, CloseStep DEF WorkerNext, Quiet

\* The inductive invariant holds in every reachable state.
THEOREM QueueInvariant == WorkerSpec => []QueueInv
<1>1. QED BY WorkerInitInv, WorkerNextInv, PTL DEF WorkerSpec

\* No future is resolved twice and none is dropped, whoever of the worker and the
\* draining close() gets to a job first.
THEOREM EveryJobAccounted == WorkerSpec => []JobAccounted
<1>1. QueueInv => JobAccounted BY DEF QueueInv
<1>2. QED BY <1>1, QueueInvariant, PTL

\* close() returns without its timeout only when backend.exit has been called.
THEOREM CleanCloseExited == WorkerSpec => []CloseMeansExited
<1>1. QueueInv => CloseMeansExited BY DEF QueueInv
<1>2. QED BY <1>1, QueueInvariant, PTL

-----------------------------------------------------------------------------
(***************************************************************************)
(* MLChannel: any number of backends, kinds of probes, document versions   *)
(* and probes.  ChannelInv is inductive, so that a backend never takes an  *)
(* old reply for the answer to a new question.                             *)
(***************************************************************************)

\* Nothing was sent and every queue is empty.
LEMMA ChannelInitInv == ChannelInit => ChannelInv
BY ChannelAssumption
DEF ChannelInit, ChannelInv, ChannelTypeOK, RetryTried, QueueFresh, ForkedOnce, AnswerFresh,
    NothingUnderWay, Excused, Idle, Versions, Flights

\* Every step of a backend keeps the types.
LEMMA BackendType ==
  ASSUME ChannelTypeOK, NEW b \in Backends,
         Edit(b) \/ Thread(b) \/ ExitBackend(b) \/ \E k \in Kinds : Begin(b, k)
  PROVE  ChannelTypeOK'
<1> USE ChannelAssumption DEF ChannelTypeOK, Versions, Idle
<1>1. CASE Edit(b)
  BY <1>1 DEF Edit
<1>2. CASE ExitBackend(b)
  <2>1. queue' \in [Backends -> [Kinds -> Versions \cup {Nothing}]]
    BY <1>2 DEF ExitBackend
  <2> DEFINE Calls == [pc : {"idle", "clear", "send", "poll", "settle", "closed"},
                       kind : Kinds \cup {Nothing}, attempt : 0..2, msg : Versions \cup {Nothing}]
             c0 == [call[b] EXCEPT !.pc = "closed"]
  <2>2. /\ call \in [Backends -> Calls] /\ call[b].pc = "idle" /\ call' = [call EXCEPT ![b] = c0]
        /\ call[b].kind = Nothing /\ call[b].msg = Nothing
    BY <1>2 DEF ExitBackend
  <2>3. c0 \in Calls /\ c0.pc = "closed" /\ c0.kind = Nothing /\ c0.msg = Nothing
    BY <2>2
  <2> HIDE DEF Calls, c0
  <2>4. call' \in [Backends -> Calls]
    BY <2>2, <2>3
  <2>5. \A c \in Backends : /\ call'[c].pc \notin {"idle", "closed"} <=> call'[c].kind # Nothing
                            /\ call'[c].pc = "settle" <=> call'[c].msg # Nothing
    BY <2>2, <2>3
  <2>6. QED BY <1>2, <2>1, <2>4, <2>5 DEF ExitBackend, Calls
<1>3. ASSUME NEW k \in Kinds, Begin(b, k) PROVE ChannelTypeOK'
  BY <1>3 DEF Begin
<1>4. CASE Clear(b)
  BY <1>4 DEF Clear
<1>5. CASE Send(b)
  <2>1. [to |-> b, kind |-> call[b].kind, ver |-> ver[b], id |-> sends] \in Flights
    BY <1>5 DEF Send, Flights
  <2>2. flight' \subseteq Flights /\ sends' \in 0..MaxSends
    BY <1>5, <2>1 DEF Send
  <2>3. QED BY <1>5, <2>2 DEF Send
<1>6. CASE Receive(b)
  BY <1>6 DEF Receive
<1>7. CASE FirstTimeout(b)
  BY <1>7 DEF FirstTimeout
<1>8. CASE SecondTimeout(b)
  BY <1>8 DEF SecondTimeout
<1>9. CASE Settle(b)
  BY <1>9 DEF Settle
<1>10. QED BY <1>1, <1>2, <1>3, <1>4, <1>5, <1>6, <1>7, <1>8, <1>9 DEF Thread

\* So does the end of a probe.
LEMMA FlightType ==
  ASSUME ChannelTypeOK, NEW f \in flight, Reply(f) \/ Lose(f)
  PROVE  ChannelTypeOK'
<1> USE ChannelAssumption DEF ChannelTypeOK, Versions
<1>1. f.to \in Backends /\ f.kind \in Kinds /\ f.ver \in Versions
  BY DEF Flights
<1>2. flight' \subseteq Flights
  BY DEF Reply, Lose
<1>3. queue' \in [Backends -> [Kinds -> Versions \cup {Nothing}]]
  <2> DEFINE v == IF queue[f.to][f.kind] = Nothing THEN f.ver ELSE queue[f.to][f.kind]
  <2>1. v \in Versions \cup {Nothing}
    BY <1>1
  <2> HIDE DEF v
  <2>2. queue' = queue \/ queue' = [queue EXCEPT ![f.to][f.kind] = v]
    BY DEF Reply, Lose, v
  <2>3. [queue[f.to] EXCEPT ![f.kind] = v] \in [Kinds -> Versions \cup {Nothing}]
    BY <1>1, <2>1
  <2>4. QED BY <1>1, <2>2, <2>3
<1>4. QED BY <1>2, <1>3 DEF Reply, Lose

\* A document is edited between two calls, when nothing undisturbed is under way.
LEMMA EditInv ==
  ASSUME ChannelInv, NEW b \in Backends, Edit(b)
  PROVE  ChannelInv'
<1> USE ChannelAssumption DEF Excused
<1>1. ChannelTypeOK'
  BY BackendType DEF ChannelInv
<1>2. \A f \in flight : f.to = b => Excused(b, f.kind)
  BY DEF Edit, ChannelInv, NothingUnderWay, ChannelTypeOK, Flights
<1>3. RetryTried' /\ QueueFresh' /\ ForkedOnce' /\ AnswerFresh' /\ NothingUnderWay'
  BY <1>2 DEF Edit, ChannelInv, RetryTried, QueueFresh, ForkedOnce, AnswerFresh, NothingUnderWay,
     ChannelTypeOK, Flights
<1>4. QED BY <1>1, <1>3 DEF ChannelInv

\* A call begins: its kind is new to the queue.
LEMMA BeginInv ==
  ASSUME ChannelInv, NEW b \in Backends, NEW k \in Kinds, Begin(b, k)
  PROVE  ChannelInv'
<1> USE ChannelAssumption DEF Excused
<1>1. ChannelTypeOK'
  BY BackendType DEF ChannelInv
<1>2. \A f \in flight : f.to = b => Excused(b, f.kind)
  BY DEF Begin, ChannelInv, NothingUnderWay, ChannelTypeOK, Flights
<1>3. RetryTried' /\ QueueFresh' /\ ForkedOnce' /\ AnswerFresh' /\ NothingUnderWay'
  BY <1>2 DEF Begin, ChannelInv, RetryTried, QueueFresh, ForkedOnce, AnswerFresh, NothingUnderWay,
     ChannelTypeOK, Flights
<1>4. QED BY <1>1, <1>3 DEF ChannelInv

\* clear_channel at the end of a backend.
LEMMA ExitBackendInv ==
  ASSUME ChannelInv, NEW b \in Backends, ExitBackend(b)
  PROVE  ChannelInv'
<1> USE ChannelAssumption DEF Excused
<1>1. ChannelTypeOK'
  BY BackendType DEF ChannelInv
<1>2. \A f \in flight : f.to = b => Excused(b, f.kind)
  BY DEF ExitBackend, ChannelInv, NothingUnderWay, ChannelTypeOK, Flights
<1>3. RetryTried' /\ QueueFresh' /\ ForkedOnce' /\ AnswerFresh' /\ NothingUnderWay'
  BY <1>2 DEF ExitBackend, ChannelInv, RetryTried, QueueFresh, ForkedOnce, AnswerFresh,
     NothingUnderWay, ChannelTypeOK, Flights
<1>4. QED BY <1>1, <1>3 DEF ChannelInv

\* q.clear() throws away what may be old; what is undisturbed and under way is not.
LEMMA ClearInv ==
  ASSUME ChannelInv, NEW b \in Backends, Clear(b)
  PROVE  ChannelInv'
<1> USE ChannelAssumption DEF Excused
<1>1. ChannelTypeOK'
  BY BackendType DEF ChannelInv, Thread
<1>2. call[b].kind \in Kinds
  BY DEF Clear, ChannelInv, ChannelTypeOK
<1>3. /\ queue'[b][call[b].kind] = Nothing
      /\ \A c \in Backends, k \in Kinds : queue'[c][k] \in {queue[c][k], Nothing}
  BY <1>2 DEF Clear, ChannelInv, ChannelTypeOK
<1>4. RetryTried' /\ AnswerFresh' /\ NothingUnderWay'
  BY <1>2 DEF Clear, ChannelInv, RetryTried, AnswerFresh, NothingUnderWay, ChannelTypeOK, Flights
<1>5. QueueFresh' /\ ForkedOnce'
  BY <1>2, <1>3 DEF Clear, ChannelInv, QueueFresh, ForkedOnce, ChannelTypeOK, Flights
<1>6. QED BY <1>1, <1>4, <1>5 DEF ChannelInv

\* The probe that is sent speaks of the document as it is.
LEMMA SendInv ==
  ASSUME ChannelInv, NEW b \in Backends, Send(b)
  PROVE  ChannelInv'
<1> USE ChannelAssumption DEF Excused
<1> DEFINE new == [to |-> b, kind |-> call[b].kind, ver |-> ver[b], id |-> sends]
<1>1. ChannelTypeOK'
  BY BackendType DEF ChannelInv, Thread
<1>2. call[b].kind \in Kinds /\ flight' = flight \cup {new} /\ queue' = queue
  BY DEF Send, ChannelInv, ChannelTypeOK
<1>3. RetryTried' /\ AnswerFresh' /\ NothingUnderWay' /\ QueueFresh'
  BY <1>2 DEF Send, ChannelInv, RetryTried, AnswerFresh, NothingUnderWay, QueueFresh,
     ChannelTypeOK, Flights
<1>4. ForkedOnce'
  BY <1>2 DEF Send, ChannelInv, ForkedOnce, ChannelTypeOK, Flights
<1>5. QED BY <1>1, <1>3, <1>4 DEF ChannelInv

\* offer_reply puts a reply into a queue that was empty, or drops it.
LEMMA ReplyInv ==
  ASSUME ChannelInv, NEW f \in flight, Reply(f)
  PROVE  ChannelInv'
<1> USE ChannelAssumption DEF Excused
<1>1. ChannelTypeOK'
  BY FlightType DEF ChannelInv
<1>2. f.to \in Backends /\ f.kind \in Kinds /\ f.ver \in Versions
  BY DEF ChannelInv, ChannelTypeOK, Flights
<1>3. \A c \in Backends, k \in Kinds :
        queue'[c][k] = IF c = f.to /\ k = f.kind /\ queue[c][k] = Nothing THEN f.ver
                                                                          ELSE queue[c][k]
  BY <1>2 DEF Reply, ChannelInv, ChannelTypeOK
<1>4. RetryTried' /\ AnswerFresh' /\ NothingUnderWay'
  BY DEF Reply, ChannelInv, RetryTried, AnswerFresh, NothingUnderWay
<1>5. QueueFresh'
  BY <1>2, <1>3 DEF Reply, ChannelInv, QueueFresh, NothingUnderWay, ChannelTypeOK
<1>6. ForkedOnce'
  BY <1>2, <1>3 DEF Reply, ChannelInv, ForkedOnce, NothingUnderWay, ChannelTypeOK, Flights
<1>7. QED BY <1>1, <1>4, <1>5, <1>6 DEF ChannelInv

\* A lost probe is one less.
LEMMA LoseInv ==
  ASSUME ChannelInv, NEW f \in flight, Lose(f)
  PROVE  ChannelInv'
<1>1. ChannelTypeOK'
  BY FlightType DEF ChannelInv
<1>2. RetryTried' /\ QueueFresh' /\ ForkedOnce' /\ AnswerFresh' /\ NothingUnderWay'
  BY DEF Lose, ChannelInv, RetryTried, QueueFresh, ForkedOnce, AnswerFresh, NothingUnderWay, Excused
<1>3. QED BY <1>1, <1>2 DEF ChannelInv

\* The reply that is taken was in a fresh queue.
LEMMA ReceiveInv ==
  ASSUME ChannelInv, NEW b \in Backends, Receive(b)
  PROVE  ChannelInv'
<1> USE ChannelAssumption DEF Excused
<1>1. ChannelTypeOK'
  BY BackendType DEF ChannelInv, Thread
<1>2. call[b].kind \in Kinds
  BY DEF Receive, ChannelInv, ChannelTypeOK
<1>3. \A c \in Backends, k \in Kinds : queue'[c][k] \in {queue[c][k], Nothing}
  BY <1>2 DEF Receive, ChannelInv, ChannelTypeOK
<1>4. RetryTried' /\ NothingUnderWay' /\ AnswerFresh'
  BY <1>2 DEF Receive, ChannelInv, RetryTried, AnswerFresh, NothingUnderWay, QueueFresh,
     ChannelTypeOK, Flights
<1>5. QueueFresh'
  BY <1>2, <1>3 DEF Receive, ChannelInv, QueueFresh, NothingUnderWay, ChannelTypeOK, Flights
<1>6. ForkedOnce'
  BY <1>2, <1>3 DEF Receive, ChannelInv, ForkedOnce, NothingUnderWay, ChannelTypeOK, Flights
<1>7. QED BY <1>1, <1>4, <1>5, <1>6 DEF ChannelInv

\* A timeout leaves a probe behind; its kind is excused, or the same call asks again.
LEMMA ProbeTimeoutInv ==
  ASSUME ChannelInv, NEW b \in Backends, FirstTimeout(b) \/ SecondTimeout(b)
  PROVE  ChannelInv'
<1> USE ChannelAssumption DEF Excused, Idle
<1>1. ChannelTypeOK'
  BY BackendType DEF ChannelInv, Thread
<1>2. call[b].kind \in Kinds
  BY DEF FirstTimeout, SecondTimeout, ChannelInv, ChannelTypeOK
<1>3. CASE FirstTimeout(b)
  <2>1. RetryTried' /\ NothingUnderWay' /\ AnswerFresh'
    BY <1>2, <1>3 DEF FirstTimeout, ChannelInv, RetryTried, AnswerFresh, NothingUnderWay,
       ChannelTypeOK, Flights
  <2>2. QueueFresh'
    BY <1>2, <1>3 DEF FirstTimeout, ChannelInv, QueueFresh, ChannelTypeOK
  <2>3. \A f \in flight : f.to = b /\ f.kind \in Forked => Excused(b, f.kind)'
    BY <1>2, <1>3 DEF FirstTimeout, ChannelInv, NothingUnderWay, ChannelTypeOK, Flights
  <2>4. /\ \A c \in Backends : c # b => call'[c] = call[c] /\ tried'[c] = tried[c]
        /\ call'[b].pc = "clear" /\ flight' = flight /\ queue' = queue /\ failed' = failed
    BY <1>2, <1>3 DEF FirstTimeout, ChannelInv, ChannelTypeOK
  <2>5. ASSUME NEW f \in flight', f.kind \in Forked, ~Excused(f.to, f.kind)'
        PROVE  /\ call'[f.to].pc = "poll" /\ queue'[f.to][f.kind] = Nothing
               /\ \A g \in flight' : g.to = f.to /\ g.kind = f.kind => g = f
    <3>1. f \in flight /\ f.to \in Backends /\ f.to # b
      BY <2>3, <2>4, <2>5 DEF ChannelInv, ChannelTypeOK, Flights
    <3>2. QED BY <2>4, <2>5, <3>1 DEF ChannelInv, ForkedOnce
  <2>6. \A c \in Backends :
          call'[c].pc = "send" /\ call'[c].kind \in Forked /\ ~Excused(c, call[c].kind)'
          => queue'[c][call'[c].kind] = Nothing
    BY <2>4 DEF ChannelInv, ForkedOnce
  <2>7. ForkedOnce'
    BY <2>5, <2>6 DEF ForkedOnce
  <2>8. QED BY <1>1, <2>1, <2>2, <2>7 DEF ChannelInv
<1>4. CASE SecondTimeout(b)
  <2>1. call[b].kind \in tried[b]
    BY <1>4 DEF SecondTimeout, ChannelInv, RetryTried
  <2>2. RetryTried' /\ NothingUnderWay' /\ AnswerFresh'
    BY <1>2, <1>4, <2>1 DEF SecondTimeout, ChannelInv, RetryTried, AnswerFresh, NothingUnderWay,
       ChannelTypeOK, Flights
  <2>3. QueueFresh' /\ ForkedOnce'
    BY <1>2, <1>4, <2>1 DEF SecondTimeout, ChannelInv, QueueFresh, ForkedOnce, NothingUnderWay,
       ChannelTypeOK, Flights
  <2>4. QED BY <1>1, <2>2, <2>3 DEF ChannelInv
<1>5. QED BY <1>3, <1>4

\* await_current_node_settled waits for what is not forked, and an undisturbed forked
\* probe has been answered.
LEMMA SettleInv ==
  ASSUME ChannelInv, NEW b \in Backends, Settle(b)
  PROVE  ChannelInv'
<1> USE ChannelAssumption DEF Excused, Idle
<1>1. ChannelTypeOK'
  BY BackendType DEF ChannelInv, Thread
<1>2. \A f \in flight : f.to = b => Excused(b, f.kind)
  BY DEF Settle, ChannelInv, Evaluating, ForkedOnce, ChannelTypeOK, Flights
<1>3. RetryTried' /\ QueueFresh' /\ ForkedOnce' /\ AnswerFresh' /\ NothingUnderWay'
  BY <1>2 DEF Settle, ChannelInv, RetryTried, QueueFresh, ForkedOnce, AnswerFresh, NothingUnderWay,
     ChannelTypeOK, Flights
<1>4. QED BY <1>1, <1>3 DEF ChannelInv

\* No step of a backend, of Isabelle/ML or of the network breaks the invariant.
LEMMA ChannelNextInv == ChannelInv /\ [ChannelNext]_channelVars => ChannelInv'
<1> SUFFICES ASSUME ChannelInv, [ChannelNext]_channelVars PROVE ChannelInv'
  OBVIOUS
<1>1. CASE UNCHANGED channelVars
  BY <1>1 DEF channelVars, ChannelInv, ChannelTypeOK, RetryTried, QueueFresh, ForkedOnce,
     AnswerFresh, NothingUnderWay, Excused
<1>2. ASSUME NEW b \in Backends, Thread(b) PROVE ChannelInv'
  BY <1>2, ClearInv, SendInv, ReceiveInv, ProbeTimeoutInv, SettleInv DEF Thread
<1>3. ASSUME NEW b \in Backends, Edit(b) \/ ExitBackend(b) \/ \E k \in Kinds : Begin(b, k)
      PROVE  ChannelInv'
  BY <1>3, EditInv, ExitBackendInv, BeginInv
<1>4. ASSUME NEW f \in flight, Reply(f) \/ Lose(f) PROVE ChannelInv'
  BY <1>4, ReplyInv, LoseInv
<1>5. QED BY <1>1, <1>2, <1>3, <1>4 DEF ChannelNext

\* The types hold.
THEOREM ChannelTyped == ChannelSpec => []ChannelTypeOK
<1>1. ChannelInv => ChannelTypeOK
  BY DEF ChannelInv
<1>2. QED BY ChannelInitInv, ChannelNextInv, <1>1, PTL DEF ChannelSpec

\* The answer a backend takes from its queue is about its document as it is now, for a
\* kind of probe no call of which has failed.
THEOREM AnswersAreFresh == ChannelSpec => []AnswerFresh
<1>1. ChannelInv => AnswerFresh
  BY DEF ChannelInv
<1>2. QED BY ChannelInitInv, ChannelNextInv, <1>1, PTL DEF ChannelSpec

\* Between the calls of a backend no undisturbed probe is under way.
THEOREM NothingLeftBehind == ChannelSpec => []NothingUnderWay
<1>1. ChannelInv => NothingUnderWay
  BY DEF ChannelInv
<1>2. QED BY ChannelInitInv, ChannelNextInv, <1>1, PTL DEF ChannelSpec

-----------------------------------------------------------------------------
(***************************************************************************)
(* BuildVerify: any requests, texts, parents and number of permits.  The   *)
(* inductive invariant says what a holder of a lock knows: nobody else     *)
(* holds it, and its theory is not in the cache, although the cache was    *)
(* looked at several awaits ago.                                           *)
(***************************************************************************)

\* One holder for each lock.
LocksExclusive == \A r, s \in Holding : HashOf(r) = HashOf(s) => r = s

\* The cache holds the texts whose file was built under the declared name, and all of them.
CacheTrue ==
  /\ \A h \in cache : <<h, Written[h[3]], Declares[h[3]]>> \in built
  /\ \A h \in Hashes, f \in Sources, n \in Names : <<h, f, n>> \in built => h \in cache

\* The second look at the cache stays true while the lock is held.
StillUnbuilt == \A r \in Holding : HashOf(r) \notin cache

\* Only a theory that declares the requested name is given to isabelle.
NameChecked == \A r \in InProcess : NameMatches(r)

\* Permits are counted.
Permits == IsFiniteSet(InProcess) /\ Cardinality(InProcess) <= MaxBuilds

VInv == /\ BuildTypeOK /\ LocksExclusive /\ CacheTrue /\ StillUnbuilt /\ NameChecked
        /\ Permits /\ SuccessWasBuilt

-----------------------------------------------------------------------------
\* The hash of a request is a hash, and its third component is the text.
LEMMA HashType ==
  ASSUME NEW a \in Args PROVE Hash(a) \in Hashes /\ Hash(a)[3] = a.text
BY VerifyAssumption DEF Hash, Hashes, Args, Parent, Deps

\* Initially nothing is asked, built or cached.
LEMMA VerifyInit == BuildInit => VInv
<1> SUFFICES ASSUME BuildInit PROVE VInv
  OBVIOUS
<1>1. BuildTypeOK
  BY DEF BuildInit, BuildTypeOK
<1>2. Holding = {} /\ InProcess = {}
  BY DEF BuildInit, Holding, InProcess
<1>3. Permits
  BY <1>2, FS_EmptySet, VerifyAssumption DEF Permits
<1>4. SuccessWasBuilt
  BY VerifyAssumption DEF BuildInit, SuccessWasBuilt
<1>5. QED
  BY <1>1, <1>2, <1>3, <1>4 DEF VInv, LocksExclusive, CacheTrue, StillUnbuilt, NameChecked,
     BuildInit

-----------------------------------------------------------------------------
\* A set of permits that loses one of its holders, or none, is still within the bound.
LEMMA PermitsKept ==
  ASSUME Permits, InProcess' \subseteq InProcess PROVE Permits'
<1>1. IsFiniteSet(InProcess')
  BY FS_Subset DEF Permits
<1>2. Cardinality(InProcess') <= Cardinality(InProcess)
  BY FS_Subset DEF Permits
<1>3. Cardinality(InProcess) \in Nat /\ Cardinality(InProcess') \in Nat
  BY <1>1, FS_CardinalityType DEF Permits
<1>4. QED
  BY <1>1, <1>2, <1>3, VerifyAssumption DEF Permits

\* A new request changes nothing for those that are there.
LEMMA ArriveInv ==
  ASSUME VInv, NEW r \in Requests, NEW a \in Args, Arrive(r, a) PROVE VInv'
<1> USE DEF Arrive
<1>1. BuildTypeOK'
  <2>1. a # None
    BY VerifyAssumption
  <2>2. CASE Hash(a) \in cache
    BY <2>1, <2>2, VerifyAssumption DEF VInv, BuildTypeOK, Return
  <2>3. CASE Hash(a) \notin cache
    BY <2>1, <2>3, VerifyAssumption DEF VInv, BuildTypeOK, Return
  <2>4. QED
    BY <2>2, <2>3
<1>2. \A s \in Requests : s # r => HashOf(s)' = HashOf(s) /\ NameMatches(s)' = NameMatches(s)
  BY DEF VInv, BuildTypeOK, HashOf, NameMatches
<1>3. Holding' = Holding /\ InProcess' = InProcess /\ r \notin Holding /\ r \notin InProcess
  BY DEF VInv, BuildTypeOK, Holding, InProcess, Return
<1>4. Holding \subseteq Requests /\ InProcess \subseteq Requests
  BY DEF Holding, InProcess
<1>5. LocksExclusive' /\ StillUnbuilt' /\ NameChecked'
  BY <1>2, <1>3, <1>4 DEF VInv, LocksExclusive, StillUnbuilt, NameChecked
<1>6. CacheTrue' /\ Permits'
  BY <1>3, PermitsKept DEF VInv, CacheTrue, Permits
<1>7. SuccessWasBuilt'
  <2> SUFFICES ASSUME NEW s \in Requests, answer'[s] = TRUE
               PROVE  <<HashOf(s)', Written[req'[s].text], Declares[req'[s].text]>> \in built
    BY DEF SuccessWasBuilt
  <2>1. CASE s = r
    <3>1. req'[s] = a
      BY <2>1 DEF VInv, BuildTypeOK
    <3>2. Hash(a) \in cache
      BY <2>1, VerifyAssumption DEF VInv, BuildTypeOK, Return
    <3>3. QED
      BY <3>1, <3>2, HashType DEF VInv, CacheTrue, HashOf
  <2>2. CASE s # r
    <3>1. answer[s] = TRUE /\ req'[s] = req[s]
      BY <2>2 DEF VInv, BuildTypeOK, Return
    <3>2. QED
      BY <2>2, <3>1, <1>2 DEF VInv, SuccessWasBuilt
  <2>3. QED
    BY <2>1, <2>2
<1>8. QED
  BY <1>1, <1>5, <1>6, <1>7 DEF VInv

\* A request keeps its arguments, so a step leaves all hashes and names alone.
LEMMA SameArgs ==
  ASSUME req' = req
  PROVE  /\ \A s \in Requests : HashOf(s)' = HashOf(s) /\ NameMatches(s)' = NameMatches(s)
         /\ Holding \subseteq Requests /\ InProcess \subseteq Requests
         /\ InProcess \subseteq Holding
BY DEF HashOf, NameMatches, Holding, InProcess

\* A step that returns without having built: it gives up its lock and its permit.
LEMMA ReturnsInv ==
  ASSUME VInv, NEW r \in Requests, pc[r] # "new", NEW ok \in BOOLEAN, Return(r, ok),
         UNCHANGED <<req, cache, built>>,
         ok = TRUE => HashOf(r) \in cache
  PROVE  VInv'
<1>1. BuildTypeOK'
  BY VerifyAssumption DEF VInv, BuildTypeOK, Return
<1>2. Holding' = Holding \ {r} /\ InProcess' = InProcess \ {r}
  BY DEF VInv, BuildTypeOK, Holding, InProcess, Return
<1>3. LocksExclusive' /\ StillUnbuilt' /\ NameChecked'
  BY <1>2, SameArgs DEF VInv, LocksExclusive, StillUnbuilt, NameChecked
<1>4. CacheTrue' /\ Permits'
  BY <1>2, PermitsKept DEF VInv, CacheTrue
<1>5. SuccessWasBuilt'
  <2> SUFFICES ASSUME NEW s \in Requests, answer'[s] = TRUE
               PROVE  <<HashOf(s), Written[req[s].text], Declares[req[s].text]>> \in built
    BY SameArgs DEF SuccessWasBuilt
  <2>1. CASE s = r
    <3>1. HashOf(r) \in cache
      BY <2>1 DEF VInv, BuildTypeOK, Return
    <3>2. req[r] \in Args
      BY DEF VInv, BuildTypeOK
    <3>3. QED
      BY <2>1, <3>1, <3>2, HashType DEF VInv, CacheTrue, HashOf
  <2>2. CASE s # r
    BY <2>2 DEF VInv, BuildTypeOK, Return, SuccessWasBuilt
  <2>3. QED
    BY <2>1, <2>2
<1>6. QED
  BY <1>1, <1>3, <1>4, <1>5 DEF VInv

\* The lock is free and the theory not in the cache.
LEMMA TakeLockInv ==
  ASSUME VInv, NEW r \in Requests, TakeLock(r) PROVE VInv'
<1> USE DEF TakeLock
<1>1. BuildTypeOK'
  BY VerifyAssumption DEF VInv, BuildTypeOK
<1>2. Holding' = Holding \cup {r} /\ InProcess' = InProcess
  BY DEF VInv, BuildTypeOK, Holding, InProcess
<1>3. LocksExclusive'
  BY <1>2, SameArgs DEF VInv, LocksExclusive, LockFree
<1>4. StillUnbuilt'
  BY <1>2, SameArgs DEF VInv, StillUnbuilt
<1>5. NameChecked' /\ CacheTrue' /\ Permits'
  BY <1>2, SameArgs, PermitsKept DEF VInv, NameChecked, CacheTrue
<1>6. SuccessWasBuilt'
  BY SameArgs DEF VInv, SuccessWasBuilt
<1>7. QED
  BY <1>1, <1>3, <1>4, <1>5, <1>6 DEF VInv

\* A permit is free.
LEMMA StartBuildInv ==
  ASSUME VInv, NEW r \in Requests, StartBuild(r) PROVE VInv'
<1> USE DEF StartBuild
<1>1. BuildTypeOK'
  BY VerifyAssumption DEF VInv, BuildTypeOK
<1>2. Holding' = Holding /\ InProcess' = InProcess \cup {r} /\ r \notin InProcess
  BY DEF VInv, BuildTypeOK, Holding, InProcess
<1>3. LocksExclusive' /\ StillUnbuilt' /\ NameChecked' /\ CacheTrue'
  BY <1>2, SameArgs DEF VInv, LocksExclusive, StillUnbuilt, NameChecked, CacheTrue
<1>4. Permits'
  <2>1. IsFiniteSet(InProcess)
    BY DEF VInv, Permits
  <2>2. IsFiniteSet(InProcess') /\ Cardinality(InProcess') = Cardinality(InProcess) + 1
    BY <2>1, <1>2, FS_AddElement
  <2>3. Cardinality(InProcess) \in Nat
    BY <2>1, FS_CardinalityType
  <2>4. QED
    BY <2>2, <2>3, VerifyAssumption DEF Permits
<1>5. SuccessWasBuilt'
  BY SameArgs DEF VInv, SuccessWasBuilt
<1>6. QED
  BY <1>1, <1>3, <1>4, <1>5 DEF VInv

\* The theory is built under the name it declares, and cached; no other request holds
\* the lock of its hash.
LEMMA SucceedsInv ==
  ASSUME VInv, NEW r \in Requests, BuildSucceeds(r) PROVE VInv'
<1> USE DEF BuildSucceeds
<1>1. req[r] \in Args /\ HashOf(r) \in Hashes /\ HashOf(r)[3] = req[r].text
  <2>1. req[r] \in Args
    BY DEF VInv, BuildTypeOK
  <2>2. QED
    BY <2>1, HashType DEF HashOf
<1>2. r \in InProcess /\ r \in Holding /\ Declares[req[r].text] = req[r].name
  BY DEF VInv, InProcess, Holding, NameChecked, NameMatches
<1>3. req[r].name \in Names /\ Written[req[r].text] \in Sources
  BY <1>1, VerifyAssumption DEF Args
<1>4. BuildTypeOK'
  <2>1. cache' \subseteq Hashes /\ built' \subseteq (Hashes \X Sources \X Names)
    BY <1>1, <1>3 DEF VInv, BuildTypeOK
  <2>2. pc' = [pc EXCEPT ![r] = "done"] /\ answer' = [answer EXCEPT ![r] = TRUE] /\ req' = req
    BY DEF Return
  <2>3. pc[r] = "building" /\ BuildTypeOK
    BY DEF VInv
  <2>4. QED
    BY <2>1, <2>2, <2>3, VerifyAssumption DEF BuildTypeOK
<1>5. Holding' = Holding \ {r} /\ InProcess' = InProcess \ {r}
  BY DEF VInv, BuildTypeOK, Holding, InProcess, Return
<1>6. LocksExclusive' /\ NameChecked'
  BY <1>5, SameArgs DEF VInv, LocksExclusive, NameChecked
<1>7. StillUnbuilt'
  BY <1>2, <1>5, SameArgs DEF VInv, StillUnbuilt, LocksExclusive
<1>8. CacheTrue'
  BY <1>1, <1>2 DEF VInv, CacheTrue
<1>9. Permits'
  BY <1>5, PermitsKept DEF VInv
<1>10. SuccessWasBuilt'
  <2> SUFFICES ASSUME NEW s \in Requests, answer'[s] = TRUE
               PROVE  <<HashOf(s), Written[req[s].text], Declares[req[s].text]>> \in built'
    BY SameArgs DEF SuccessWasBuilt
  <2>1. CASE s = r
    BY <2>1, <1>2
  <2>2. CASE s # r
    BY <2>2 DEF VInv, BuildTypeOK, Return, SuccessWasBuilt
  <2>3. QED
    BY <2>1, <2>2
<1>11. QED
  BY <1>4, <1>6, <1>7, <1>8, <1>9, <1>10 DEF VInv

\* A timed out build keeps its lock and its permit until the process is dead.
LEMMA BuildTimeoutInv ==
  ASSUME VInv, NEW r \in Requests, BuildTimeout(r) PROVE VInv'
<1> USE DEF BuildTimeout
<1>1. BuildTypeOK'
  BY VerifyAssumption DEF VInv, BuildTypeOK
<1>2. Holding' = Holding /\ InProcess' = InProcess
  BY DEF VInv, BuildTypeOK, Holding, InProcess
<1>3. LocksExclusive' /\ StillUnbuilt' /\ NameChecked' /\ CacheTrue' /\ Permits'
  BY <1>2, SameArgs, PermitsKept DEF VInv, LocksExclusive, StillUnbuilt, NameChecked, CacheTrue
<1>4. SuccessWasBuilt'
  BY SameArgs DEF VInv, SuccessWasBuilt
<1>5. QED
  BY <1>1, <1>3, <1>4 DEF VInv

\* Every step of the verifier preserves the invariant.
LEMMA VerifyNext == VInv /\ [BuildNext]_buildVars => VInv'
<1> SUFFICES ASSUME VInv, [BuildNext]_buildVars PROVE VInv'
  OBVIOUS
<1>1. ASSUME NEW r \in Requests, NEW a \in Args, Arrive(r, a) PROVE VInv'
  BY <1>1, ArriveInv
<1>2. ASSUME NEW r \in Requests, Step(r) PROVE VInv'
  <2>1. CASE TakeLock(r)
    BY <2>1, TakeLockInv
  <2>2. CASE FoundUnderLock(r)
    BY <2>2, ReturnsInv DEF FoundUnderLock
  <2>3. CASE RefuseName(r)
    BY <2>3, ReturnsInv DEF RefuseName
  <2>4. CASE StartBuild(r)
    BY <2>4, StartBuildInv
  <2>5. CASE BuildSucceeds(r)
    BY <2>5, SucceedsInv
  <2>6. CASE BuildFails(r)
    BY <2>6, ReturnsInv DEF BuildFails
  <2>7. CASE BuildTimeout(r)
    BY <2>7, BuildTimeoutInv
  <2>8. CASE Killed(r)
    BY <2>8, ReturnsInv DEF Killed
  <2>9. QED
    BY <1>2, <2>1, <2>2, <2>3, <2>4, <2>5, <2>6, <2>7, <2>8 DEF Step
<1>3. CASE UNCHANGED buildVars
  <2>1. Holding' = Holding /\ InProcess' = InProcess
    BY <1>3 DEF buildVars, Holding, InProcess
  <2>2. UNCHANGED <<req, pc, answer, cache, built>>
    BY <1>3 DEF buildVars
  <2>3. QED
    BY <2>1, <2>2, SameArgs DEF VInv, BuildTypeOK, LocksExclusive, CacheTrue, StillUnbuilt,
       NameChecked, Permits, SuccessWasBuilt
<1>4. QED
  BY <1>1, <1>2, <1>3 DEF BuildNext

\* The invariant of the build verifier (verify, _run_build) holds in every reachable state.
THEOREM VerifyInvariant == BuildSpec => []VInv
<1>1. QED
  BY VerifyInit, VerifyNext, PTL DEF BuildSpec

\* verify reports success only for a text whose file, stripped and normalised, isabelle
\* built under the declared name, also where the cache answers for another request.
THEOREM SuccessSound == BuildSpec => []SuccessWasBuilt
<1>1. VInv => SuccessWasBuilt
  BY DEF VInv
<1>2. QED
  BY <1>1, VerifyInvariant, PTL

\* The lock of a hash and the semaphore do what they are for: one build of a session at
\* a time, MaxBuilds processes in all, killed ones included.
THEOREM BuildsAreExclusive == BuildSpec => []BuildsExclusive
<1>1. VInv => BuildsExclusive
  BY SameArgs DEF VInv, BuildsExclusive, LocksExclusive, Permits, Holding, InProcess
<1>2. QED
  BY <1>1, VerifyInvariant, PTL

\* A build starts only for a theory that was never built: the look at the cache under
\* the lock is still true when the permit comes.
THEOREM NeverRebuilt == BuildSpec => NoRebuild
<1>1. ASSUME VInv, [BuildNext]_buildVars, NEW r \in Requests, pc'[r] = "building",
    pc[r] # "building",
             NEW f \in Sources, NEW n \in Names
      PROVE  <<HashOf(r), f, n>> \notin built
  <2>1. pc[r] = "queued"
    <3>1. ASSUME NEW s \in Requests, Step(s) PROVE pc[r] = "queued"
      BY <1>1, <3>1 DEF VInv, BuildTypeOK, Step, TakeLock, FoundUnderLock, RefuseName, StartBuild,
         BuildSucceeds, BuildFails, BuildTimeout, Killed, Return
    <3>2. ASSUME NEW s \in Requests, NEW a \in Args, Arrive(s, a) PROVE FALSE
      BY <1>1, <3>2 DEF VInv, BuildTypeOK, Arrive, Return
    <3>3. QED
      BY <1>1, <3>1, <3>2 DEF BuildNext, buildVars
  <2>2. r \in Holding /\ req[r] \in Args
    BY <2>1, <1>1 DEF VInv, BuildTypeOK, Holding
  <2>3. HashOf(r) \notin cache /\ HashOf(r) \in Hashes
    BY <2>2, <1>1, HashType DEF VInv, StillUnbuilt, HashOf
  <2>4. QED
    BY <2>3, <1>1 DEF VInv, CacheTrue
<1>2. VInv /\ [BuildNext]_buildVars
        => [\A r \in Requests : pc'[r] = "building" /\ pc[r] # "building"
                                  => \A f \in Sources, n \in Names : <<HashOf(r), f, n>> \notin built]_buildVars
  BY <1>1
<1>3. QED
  BY <1>2, VerifyInvariant, PTL DEF BuildSpec, NoRebuild

=============================================================================
