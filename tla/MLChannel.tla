------------------------------ MODULE MLChannel ------------------------------
(***************************************************************************)
(* The reply channels between Isabelle/ML and the Scala backends of one    *)
(* JVM (repl_ml_communication.scala, backend_probes.scala, ml/REPL.ML).  A *)
(* backend asks about its document by sending an ML_val probe; the probe's *)
(* ML code calls back into Scala, which leaves the reply in a queue for    *)
(* one message, per backend and kind of probe, where the backend's thread  *)
(* polls with a timeout.  A timed out probe is tried once more; nothing    *)
(* takes back the first one.                                               *)
(***************************************************************************)
EXTENDS Naturals

CONSTANTS Backends,
          Kinds,         \* subgoals, in_proof, local and global facts, sledgehammer
          Forked,        \* answered by a forked ML thread: sledgehammer
          Definitional,  \* answered at once after `end`
          MaxVersion,    \* bound: document changes of a backend
          MaxSends,      \* bound: probes sent
          Nothing

ASSUME ChannelAssumption ==
  /\ Forked \subseteq Kinds /\ Definitional \subseteq Kinds
  /\ MaxVersion \in Nat /\ MaxSends \in Nat /\ Nothing \notin Nat \cup Kinds

VARIABLES ver,     \* version of each backend's document
          thy,     \* its theory: not begun, open, ended
          call,    \* the probe the backend's thread is in
          queue,   \* the channels: the version a reply speaks of
          flight,  \* probes whose ML code has not answered
          sends,
          tried,   \* history: an attempt of this kind timed out
          failed   \* history: a call of this kind raised

channelVars == <<ver, thy, call, queue, flight, sends, tried, failed>>

Versions == 0..MaxVersion
Idle == [pc |-> "idle", kind |-> Nothing, attempt |-> 0, msg |-> Nothing]

ChannelInit == /\ ver = [b \in Backends |-> 0] /\ thy = [b \in Backends |-> "none"]
               /\ call = [b \in Backends |-> Idle]
               /\ queue = [b \in Backends |-> [k \in Kinds |-> Nothing]]
               /\ flight = {} /\ sends = 0
               /\ tried = [b \in Backends |-> {}] /\ failed = [b \in Backends |-> {}]

-----------------------------------------------------------------------------
\* Any operation that edits the document or replaces its session.
Edit(b) ==
  /\ call[b].pc = "idle" /\ ver[b] < MaxVersion
  /\ ver' = [ver EXCEPT ![b] = @ + 1]
  /\ \E s \in {"none", "open", "ended"} : thy' = [thy EXCEPT ![b] = s]
  /\ UNCHANGED <<call, queue, flight, sends, tried, failed>>

\* Without a begun theory, and for some kinds after `end`, nothing is sent.
Asks(b, k) == thy[b] = "open" \/ (thy[b] = "ended" /\ k \notin Definitional)

Begin(b, k) ==
  /\ call[b].pc = "idle" /\ Asks(b, k)
  /\ call' = [call EXCEPT ![b] = [pc |-> "clear", kind |-> k, attempt |-> 1, msg |-> Nothing]]
  /\ UNCHANGED <<ver, thy, queue, flight, sends, tried, failed>>

\* (bug: what is left in the queue is not discarded)
ClearNot(b) ==
  /\ call[b].pc = "clear"
  /\ call' = [call EXCEPT ![b].pc = "send"]
  /\ UNCHANGED <<ver, thy, queue, flight, sends, tried, failed>>

\* waiting_for_..._message: q.clear(), then the block that sends the probe.
Clear(b) ==
  /\ call[b].pc = "clear"
  /\ queue' = [queue EXCEPT ![b][call[b].kind] = Nothing]
  /\ call' = [call EXCEPT ![b].pc = "send"]
  /\ UNCHANGED <<ver, thy, flight, sends, tried, failed>>

Send(b) ==
  /\ call[b].pc = "send" /\ sends < MaxSends
  /\ sends' = sends + 1
  /\ flight' = flight \cup {[to |-> b, kind |-> call[b].kind, ver |-> ver[b], id |-> sends]}
  /\ call' = [call EXCEPT ![b].pc = "poll"]
  /\ UNCHANGED <<ver, thy, queue, tried, failed>>

\* offer_reply: a full queue drops the reply.
Reply(f) ==
  /\ queue' = [queue EXCEPT ![f.to][f.kind] = IF @ = Nothing THEN f.ver ELSE @]
  /\ flight' = flight \ {f}
  /\ UNCHANGED <<ver, thy, call, sends, tried, failed>>

\* The probe was cancelled, discarded or interrupted before it answered.
Lose(f) == /\ flight' = flight \ {f}
           /\ UNCHANGED <<ver, thy, call, queue, sends, tried, failed>>

Receive(b) ==
  LET k == call[b].kind
  IN  /\ call[b].pc = "poll" /\ queue[b][k] # Nothing
      /\ call' = [call EXCEPT ![b].pc = "settle", ![b].msg = queue[b][k]]
      /\ queue' = [queue EXCEPT ![b][k] = Nothing]
      /\ UNCHANGED <<ver, thy, flight, sends, tried, failed>>

\* poll returns null: with_probe_settle starts over, once.
FirstTimeout(b) ==
  /\ call[b].pc = "poll" /\ queue[b][call[b].kind] = Nothing /\ call[b].attempt = 1
  /\ tried' = [tried EXCEPT ![b] = @ \cup {call[b].kind}]
  /\ call' = [call EXCEPT ![b].pc = "clear", ![b].attempt = 2]
  /\ UNCHANGED <<ver, thy, queue, flight, sends, failed>>

SecondTimeout(b) ==
  /\ call[b].pc = "poll" /\ queue[b][call[b].kind] = Nothing /\ call[b].attempt = 2
  /\ failed' = [failed EXCEPT ![b] = @ \cup {call[b].kind}]
  /\ call' = [call EXCEPT ![b] = Idle]
  /\ UNCHANGED <<ver, thy, queue, flight, sends, tried>>

Evaluating(b) == {f \in flight : f.to = b /\ f.kind \notin Forked}

\* (bug: the probe is discarded as soon as its reply is there)
SettleAtOnce(b) ==
  /\ call[b].pc = "settle"
  /\ call' = [call EXCEPT ![b] = Idle]
  /\ UNCHANGED <<ver, thy, queue, flight, sends, tried, failed>>

\* await_current_node_settled: every command of the node was processed; a
\* forked thread is none of them.  Then the answer is returned.
Settle(b) ==
  /\ call[b].pc = "settle" /\ Evaluating(b) = {}
  /\ call' = [call EXCEPT ![b] = Idle]
  /\ UNCHANGED <<ver, thy, queue, flight, sends, tried, failed>>

\* exit(): clear_channel.  A later reply makes a new queue nobody polls.
ExitBackend(b) ==
  /\ call[b].pc = "idle"
  /\ queue' = [queue EXCEPT ![b] = [k \in Kinds |-> Nothing]]
  /\ call' = [call EXCEPT ![b].pc = "closed"]
  /\ UNCHANGED <<ver, thy, flight, sends, tried, failed>>

Thread(b) == \/ Clear(b) \/ Send(b) \/ Receive(b)
             \/ FirstTimeout(b) \/ SecondTimeout(b) \/ Settle(b)

ChannelNext == \/ \E b \in Backends : \/ Edit(b) \/ Thread(b) \/ ExitBackend(b)
                                      \/ \E k \in Kinds : Begin(b, k)
               \/ \E f \in flight : Reply(f) \/ Lose(f)

ChannelSpec == ChannelInit /\ [][ChannelNext]_channelVars

-----------------------------------------------------------------------------
Flights == [to : Backends, kind : Kinds, ver : Versions, id : 0..MaxSends]

\* The types of the variables.
ChannelTypeOK == /\ ver \in [Backends -> Versions]
                 /\ thy \in [Backends -> {"none", "open", "ended"}]
                 /\ call \in [Backends ->
                                [pc : {"idle", "clear", "send", "poll", "settle", "closed"},
                                 kind : Kinds \cup {Nothing}, attempt : 0..2,
                                 msg : Versions \cup {Nothing}]]
                 /\ \A b \in Backends :
                      /\ call[b].pc \notin {"idle", "closed"} <=> call[b].kind # Nothing
                      /\ call[b].pc = "settle" <=> call[b].msg # Nothing
                 /\ queue \in [Backends -> [Kinds -> Versions \cup {Nothing}]]
                 /\ flight \subseteq Flights /\ sends \in 0..MaxSends
                 /\ tried \in [Backends -> SUBSET Kinds] /\ failed \in [Backends -> SUBSET Kinds]

\* A late reply can only exist after a timeout; the barrier of a successful
\* retry waits for it unless a forked thread sends it.
Excused(b, k) == k \in IF k \in Forked THEN tried[b] ELSE failed[b]

\* The answer a backend takes describes its document as it is now: neither a
\* reply that came after its waiter left, nor one of a cancelled probe, nor
\* the second reply to a retried probe is taken for the answer to a later
\* question, unless a call of that kind failed before (sledgehammer: unless
\* one of its attempts timed out before).
AnswerFresh ==
  \A b \in Backends : call[b].pc = "settle" /\ ~Excused(b, call[b].kind)
                        => call[b].msg = ver[b]

\* Between calls nothing of an undisturbed kind is under way or left behind
\* that the next call could find in its queue after clearing it.
NothingUnderWay ==
  \A b \in Backends : \A f \in flight :
    f.to = b /\ ~Excused(b, f.kind) => f.kind = call[b].kind /\ f.ver = ver[b]

-----------------------------------------------------------------------------
(* What the two invariants rest on.                                        *)

\* A second attempt is made after a timeout.
RetryTried == \A b \in Backends : call[b].attempt = 2 => call[b].kind \in tried[b]

\* While its sender polls, a queue of an undisturbed kind holds nothing old.
QueueFresh ==
  \A b \in Backends : call[b].pc \in {"send", "poll"} /\ ~Excused(b, call[b].kind)
                        => queue[b][call[b].kind] \in {Nothing, ver[b]}

\* The barrier does not wait for a forked probe: here it matters that the call which
\* sent it takes its only reply.
ForkedOnce ==
  /\ \A f \in flight : f.kind \in Forked /\ ~Excused(f.to, f.kind) =>
       /\ call[f.to].pc = "poll" /\ queue[f.to][f.kind] = Nothing
       /\ \A g \in flight : g.to = f.to /\ g.kind = f.kind => g = f
  /\ \A b \in Backends : call[b].pc = "send" /\ call[b].kind \in Forked
                             /\ ~Excused(b, call[b].kind) => queue[b][call[b].kind] = Nothing

ChannelInv == /\ ChannelTypeOK /\ RetryTried /\ QueueFresh /\ ForkedOnce
              /\ AnswerFresh /\ NothingUnderWay
=============================================================================
