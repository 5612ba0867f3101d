----------------------------- MODULE SessionOps -----------------------------
(***************************************************************************)
(* The operations of one session (session.py, session_bigstep.py and the   *)
(* router's session endpoints).  Each request runs in a thread of its own; *)
(* an operation is a sequence of backend calls, each a job in the queue of *)
(* the session's only worker.  A caller waits for its job with a timeout;  *)
(* a job whose caller gave up stays in the queue and is executed all the   *)
(* same.  What a thread does between two calls is one step.                *)
(*                                                                         *)
(* The document of a theory is the sequence of the requests whose edits it *)
(* holds.  `book` is what the Python side keeps of a session: the command  *)
(* history, the checkpoints, the verified theories, the last report; every *)
(* entry carries the backend session (epoch) its answer came from.         *)
(***************************************************************************)
EXTENDS Naturals, Sequences, FiniteSets

CONSTANTS Reqs, NoReq,
          Asks,      \* bound: the operations that meet, one for each request
          Theories, NoThy,
          MaxId, None, \* bound: largest checkpoint id a request may name; no id
          MaxTimeouts  \* bound: calls given up

ASSUME OpsAssumption ==
  /\ NoReq \notin Reqs /\ NoThy \notin Theories
  /\ MaxTimeouts \in Nat /\ MaxId \in Nat /\ None \notin Nat /\ IsFiniteSet(Reqs)
  /\ Asks \subseteq [Reqs -> {"load", "exec", "verify", "query", "save", "restore",
                             "rollback", "enter", "big"}]

VARIABLES
  docs, thys, cur,  \* backend: texts, session_thys, the entered theory
  saved,            \* backend: saved states; id i is saved[i + 1]
  epoch,            \* backend: which Repl_Session this is
  queue,            \* jobs of the worker
  rq,               \* the requests
  book, entered_thy, active,
  timeouts,         \* calls given up so far
  resetter          \* history: the request whose reset made this epoch

vars == <<docs, thys, cur, saved, epoch, queue, rq, book, entered_thy, active, timeouts, resetter>>

Ids    == 0..MaxId
LoadCalls == {"reset", "enter", "header", "text"}
BigCalls  == {"name", "save", "enter", "header", "body", "end", "undo", "reenter"}
Stages == {"new", "done", "reset", "enter", "header", "text", "step", "probe", "verify", "save",
           "restore", "rollback", "name", "body", "end", "undo", "reenter"}

Fresh == [op |-> "none", pc |-> "new", thy |-> NoThy,
          ck |-> None,          \* the checkpoint: saved, or to be restored
          prev |-> NoThy,       \* big_step: previous_theory
          ans |-> "none",       \* the answer of the call it waits for
          at |-> 0,             \* and the epoch it comes from
          ok |-> FALSE,         \* what it told its client
          base |-> [t \in {} |-> <<>>], alone |-> FALSE,  \* history: the documents when it
                                \* began its work, and that nobody else has interfered since
          cleared |-> FALSE]    \* history: its _reset_bookkeeping is done

Init == /\ docs = [t \in Theories |-> <<>>] /\ thys = {} /\ cur = NoThy
        /\ saved = <<>> /\ epoch = 0 /\ queue = <<>>
        /\ rq = [r \in Reqs |-> Fresh]
        /\ book = {} /\ entered_thy = NoThy /\ active = 0 /\ timeouts = 0
        /\ resetter = NoReq

-----------------------------------------------------------------------------
(* Calls.                                                                  *)

Running(r) == rq[r].pc \notin {"new", "done"}

backendVars == <<docs, thys, cur, saved, epoch, resetter>>

\* Operations without _acquire_request / _release_request.
Uncounted == {"rollback", "enter"}

\* rollback, enter and current_thy are called without a timeout.
Patient(q) == q.op \in Uncounted \/ q.pc = "name"

Job(r, q) == [req |-> r, stage |-> q.pc, live |-> TRUE, id |-> q.ck,
              thy |-> IF q.pc = "reenter" THEN q.prev ELSE q.thy]

\* _call_backend of stage s; q is the request as it is when it calls.
Call(r, q, s) ==
  LET c == [q EXCEPT !.pc = s, !.ans = "none"]
  IN  rq' = [rq EXCEPT ![r] = c] /\ queue' = Append(queue, Job(r, c))

\* self.entered_thy = t, which others may go by; q is then the state of request r.
Renames(r, q, t) ==
  /\ entered_thy' = t
  /\ rq' = [x \in Reqs |-> IF x = r THEN q ELSE [rq[x] EXCEPT !.alone = FALSE]]

\* enter_thy notes the name before the call.
Enters(r, q, s, t) ==
  LET c == [q EXCEPT !.pc = s, !.ans = "none"]
  IN  Renames(r, c, t) /\ queue' = Append(queue, Job(r, c))

\* (bug: the request is counted out only where it returns an answer)
FinishReturns(r, q, ok) ==
  /\ rq' = [rq EXCEPT ![r] = [q EXCEPT !.pc = "done", !.ok = ok]]
  /\ active' = IF q.op \in Uncounted \/ ~ok THEN active ELSE active - 1

\* The operation returns (or raises) and leaves its `finally`; of the request, what
\* the history needs remains.
Finish(r, q, ok) ==
  /\ rq' = [rq EXCEPT ![r] =
              IF q.alone THEN [q EXCEPT !.pc = "done", !.ok = ok, !.ans = "none", !.at = 0,
                                        !.ck = None]
              ELSE [Fresh EXCEPT !.pc = "done", !.op = q.op, !.ok = ok,
                                 !.cleared = q.cleared]]
  /\ active' = IF q.op \in Uncounted THEN active ELSE active - 1

\* result(timeout) gives up; the job stays where it is.
Timeout(r) ==
  /\ Running(r) /\ rq[r].ans = "none" /\ ~Patient(rq[r])
  /\ timeouts < MaxTimeouts /\ timeouts' = timeouts + 1
  /\ rq' = [rq EXCEPT ![r].ans = "timeout"]
  /\ queue' = [k \in DOMAIN queue |-> IF queue[k].req = r THEN [queue[k] EXCEPT !.live = FALSE]
                                      ELSE queue[k]]
  /\ UNCHANGED <<backendVars, book, entered_thy, active>>

-----------------------------------------------------------------------------
(* The worker and the backend.                                             *)

\* What the caller finds when job j is done, if it still waits.
Answer(j, a) == IF j.live THEN [rq[j.req] EXCEPT !.ans = a, !.at = epoch] ELSE rq[j.req]

Quiet == {"probe", "name", "save"}
Reply(j, q) ==
  rq' = [x \in Reqs |-> IF x = j.req THEN q
                        ELSE [rq[x] EXCEPT !.alone = @ /\ j.stage \in Quiet]]

\* A step keeps the text it failed on, unless the edit was refused or its report
\* ran out of time; a failed verify_chunk is discarded.
Edit(j) ==
  /\ \E a \in {"ok", "failed"}, kept \in BOOLEAN :
       /\ a = "ok" => kept
       /\ j.stage = "verify" /\ a = "failed" => ~kept
       /\ cur = NoThy => a = "failed" /\ ~kept
       /\ docs' = IF kept THEN [docs EXCEPT ![cur] = Append(@, j.req)] ELSE docs
       /\ Reply(j, Answer(j, a))
  /\ UNCHANGED <<thys, cur, saved, epoch, resetter>>

Enter(j) ==
  /\ thys' = thys \cup {j.thy} /\ cur' = j.thy
  /\ Reply(j, Answer(j, "ok"))
  /\ UNCHANGED <<docs, saved, epoch, resetter>>

Save(j) ==
  /\ saved' = Append(saved, [t \in thys |-> docs[t]])
  /\ Reply(j, [Answer(j, "ok") EXCEPT !.ck = IF j.live THEN Len(saved) ELSE @])
  /\ UNCHANGED <<docs, thys, cur, epoch, resetter>>

\* An id up to the count is valid; theories that were not there stay as they are.
Holds(i) == i < Len(saved)

Restore(j) ==
  /\ docs' = [t \in Theories |-> IF Holds(j.id) /\ t \in DOMAIN saved[j.id + 1]
                                 THEN saved[j.id + 1][t] ELSE docs[t]]
  /\ Reply(j, Answer(j, "ok"))
  /\ UNCHANGED <<thys, cur, saved, epoch, resetter>>

Rollback(j) ==
  /\ docs' = IF cur # NoThy /\ docs[cur] # <<>>
             THEN [docs EXCEPT ![cur] = SubSeq(@, 1, Len(@) - 1)] ELSE docs
  /\ Reply(j, Answer(j, "ok"))
  /\ UNCHANGED <<thys, cur, saved, epoch, resetter>>

\* (bug: the session comes back from the cache with its theories)
ResetCached(j) ==
  /\ cur' = NoThy
  /\ saved' = <<>> /\ epoch' = epoch + 1 /\ resetter' = j.req
  /\ Reply(j, [Answer(j, "ok") EXCEPT !.alone = TRUE])
  /\ UNCHANGED <<docs, thys>>

\* A new Repl_Session: no theory, no saved state, ids from 0.
Reset(j) ==
  /\ docs' = [t \in Theories |-> <<>>] /\ thys' = {} /\ cur' = NoThy
  /\ saved' = <<>> /\ epoch' = epoch + 1 /\ resetter' = j.req
  /\ Reply(j, [Answer(j, "ok") EXCEPT !.alone = TRUE])

\* current_thy_name_string, the first call of a big step
Name(j) ==
  /\ Reply(j, [Answer(j, "ok") EXCEPT !.prev = cur, !.alone = TRUE,
                                      !.base = [t \in thys |-> docs[t]]])
  /\ UNCHANGED <<docs, thys, cur, saved, epoch, resetter>>

\* open_subgoals, in_proof, facts, diagnostics, sledgehammer, positions: transient.
Probe(j) ==
  /\ Reply(j, Answer(j, "ok"))
  /\ UNCHANGED <<docs, thys, cur, saved, epoch, resetter>>

Edits == {"header", "text", "step", "verify", "body", "end"}

Run(j) ==
  \/ j.stage \in Edits                 /\ Edit(j)
  \/ j.stage \in {"enter", "reenter"}  /\ Enter(j)
  \/ j.stage = "save"                  /\ Save(j)
  \/ j.stage \in {"restore", "undo"}   /\ Restore(j)
  \/ j.stage = "rollback"              /\ Rollback(j)
  \/ j.stage = "reset"                 /\ Reset(j)
  \/ j.stage = "name"                  /\ Name(j)
  \/ j.stage = "probe"                 /\ Probe(j)

Exec ==
  /\ queue # <<>>
  /\ Run(Head(queue))
  /\ queue' = Tail(queue)
  /\ UNCHANGED <<book, entered_thy, active, timeouts>>

-----------------------------------------------------------------------------
(* The operations.                                                         *)

First == [load |-> "reset", exec |-> "step", verify |-> "verify", query |-> "probe",
          save |-> "save", restore |-> "restore", rollback |-> "rollback", enter |-> "enter",
          big |-> "name"]

\* The bound on what is asked for.
Open(r) == {a[r] : a \in {b \in Asks : \A q \in Reqs : rq[q].pc # "new" => b[q] = rq[q].op}}

Known(i) == \E e \in book : e.kind = "checkpoint" /\ e.id = i

Begin(r) ==
  /\ rq[r].pc = "new"
  /\ \E o \in Open(r) \ {"restore", "enter"}, t \in Theories \cup {NoThy} :
       /\ (o \in {"load", "big"}) = (t # NoThy)
       /\ Call(r, [rq[r] EXCEPT !.op = o, !.thy = t], First[o])
       /\ active' = active + IF o \in Uncounted THEN 0 ELSE 1
  /\ UNCHANGED <<backendVars, book, entered_thy>>

BeginEnter(r) ==
  /\ rq[r].pc = "new" /\ "enter" \in Open(r)
  /\ \E t \in Theories : Enters(r, [rq[r] EXCEPT !.op = "enter", !.thy = t], "enter", t)
  /\ UNCHANGED <<backendVars, book, active>>

\* restore_checkpoint refuses an id it does not know.
BeginRestore(r) ==
  /\ rq[r].pc = "new" /\ "restore" \in Open(r)
  /\ \E i \in Ids :
       LET q == [rq[r] EXCEPT !.op = "restore", !.ck = i] IN
       \/ /\ Known(i)
          /\ Call(r, q, "restore")
          /\ active' = active + 1
       \/ /\ ~Known(i)
          /\ rq' = [rq EXCEPT ![r] = [q EXCEPT !.pc = "done"]]
          /\ UNCHANGED <<active, queue>>
  /\ UNCHANGED <<backendVars, book, entered_thy>>

Has(r, o, s, answers) == rq[r].op = o /\ rq[r].pc = s /\ rq[r].ans \in answers

\* (bug: the checkpoints survive a reset)
ClearedButCheckpoints == {e \in book : e.kind = "checkpoint"}

\* _reset_bookkeeping
Cleared == {}

\* load_document goes on after the reset: the theory is entered, or its name
\* cannot be told from the text.
LoadCleared(r) ==
  /\ Has(r, "load", "reset", {"ok"})
  /\ book' = Cleared
  /\ LET q == [rq[r] EXCEPT !.cleared = TRUE] IN
     \/ Enters(r, q, "enter", q.thy) /\ UNCHANGED active
     \/ /\ Renames(r, [q EXCEPT !.pc = "done"], NoThy)
        /\ active' = active - 1 /\ UNCHANGED queue
  /\ UNCHANGED backendVars

\* What follows a call that went well; a header only where the request gives
\* imports, a body only where there is one.
Flow == {<<"load", "enter", "header">>, <<"load", "enter", "text">>, <<"load", "header", "text">>,
         <<"enter", "enter", "header">>, <<"exec", "step", "probe">>,
         <<"big", "name", "save">>, <<"big", "enter", "header">>,
         <<"big", "header", "body">>, <<"big", "header", "end">>, <<"big", "body", "end">>}

Advance(r) ==
  /\ \E s \in Stages : /\ <<rq[r].op, rq[r].pc, s>> \in Flow
                       /\ Call(r, rq[r], s)
  /\ rq[r].ans = "ok" \/ Has(r, "exec", "step", {"failed"})
  /\ UNCHANGED <<backendVars, book, entered_thy, active>>

Entry(r, k) == [kind |-> k, id |-> IF k = "checkpoint" THEN rq[r].ck ELSE None,
                epoch |-> rq[r].at, crossed |-> rq[r].at # epoch]

Noted(r, kinds) ==
  {e \in book : \A k \in kinds : /\ k = "report" => e.kind # "report"
                                 /\ k = "checkpoint" => <<e.kind, e.id>> # <<k, rq[r].ck>>}
    \cup {Entry(r, k) : k \in kinds}

\* The last call of an operation has come back: what is written down, and the answer.
LoadReturns(r) ==
  /\ Has(r, "load", "text", {"ok", "failed"})
  /\ \E kinds \in {{"command"}, {"command", "report"}} : book' = Noted(r, kinds)
  /\ Finish(r, rq[r], rq[r].ans = "ok")

ExecReturns(r) ==
  /\ Has(r, "exec", "step", {"ok", "failed"}) \/ Has(r, "exec", "probe", {"ok", "timeout"})
  /\ book' = Noted(r, {"command"})
  /\ Finish(r, rq[r], TRUE)

VerifyReturns(r) ==
  /\ Has(r, "verify", "verify", {"ok", "failed"})
  /\ book' = Noted(r, {"report"})
  /\ Finish(r, rq[r], rq[r].ans = "ok")

SaveReturns(r) ==
  /\ Has(r, "save", "save", {"ok"})
  /\ book' = Noted(r, {"checkpoint"})
  /\ Finish(r, rq[r], TRUE)

\* restore_checkpoint does not look at what restore_state returned.
RestoreReturns(r) ==
  /\ Has(r, "restore", "restore", {"ok"})
  /\ UNCHANGED book
  /\ Finish(r, rq[r], TRUE)

\* run_diagnostic, sledgehammer, the positions: a query leaves no trace.
QueryReturns(r) ==
  /\ Has(r, "query", "probe", {"ok"})
  /\ UNCHANGED book
  /\ Finish(r, rq[r], TRUE)

RollbackReturns(r) ==
  /\ Has(r, "rollback", "rollback", {"ok"})
  /\ UNCHANGED book
  /\ Finish(r, rq[r], TRUE)

EnterReturns(r) ==
  /\ Has(r, "enter", "enter", {"ok"}) \/ Has(r, "enter", "header", {"ok"})
  /\ UNCHANGED book
  /\ Finish(r, rq[r], TRUE)

BigReturns(r) ==
  /\ Has(r, "big", "end", {"ok"})
  /\ book' = Noted(r, {"command", "verified"})
  /\ Finish(r, rq[r], TRUE)

Return(r) ==
  /\ \/ LoadReturns(r) \/ ExecReturns(r) \/ VerifyReturns(r) \/ SaveReturns(r)
     \/ RestoreReturns(r) \/ QueryReturns(r) \/ RollbackReturns(r) \/ EnterReturns(r)
     \/ BigReturns(r)
  /\ UNCHANGED <<backendVars, queue, entered_thy>>

\* A call timed out or a header failed: the exception leaves the operation.
Raise(r) ==
  /\ rq[r].pc # "done" /\ rq[r].op # "big"
  /\ \/ rq[r].ans = "timeout" /\ ~Has(r, "exec", "probe", {"timeout"})
     \/ rq[r].pc = "header" /\ rq[r].ans = "failed"
  /\ Finish(r, rq[r], FALSE)
  /\ UNCHANGED <<backendVars, queue, book, entered_thy>>

-----------------------------------------------------------------------------
(* big_step.                                                               *)

\* The name in the text is missing or another one.
BigRefused(r) ==
  /\ Has(r, "big", "name", {"ok"})
  /\ Finish(r, rq[r], FALSE)
  /\ UNCHANGED <<backendVars, queue, book, entered_thy>>

BigEnter(r) ==
  /\ Has(r, "big", "save", {"ok"})
  /\ Enters(r, rq[r], "enter", rq[r].thy)
  /\ UNCHANGED <<backendVars, book, active>>

\* The second half of _restore_big_step_state.
Reenter(r) ==
  \/ /\ rq[r].prev # NoThy /\ rq[r].prev # entered_thy
     /\ Enters(r, rq[r], "reenter", rq[r].prev)
     /\ UNCHANGED active
  \/ /\ rq[r].prev = NoThy \/ rq[r].prev = entered_thy
     /\ Finish(r, rq[r], FALSE)
     /\ UNCHANGED <<queue, entered_thy>>

\* The failures that restore: a part of the theory fails, a call times out, the
\* text cannot be split.
Fails(r) ==
  /\ rq[r].op = "big"
  /\ \/ rq[r].pc \in {"header", "body", "end"} /\ rq[r].ans = "failed"
     \/ rq[r].pc \in {"save", "enter", "header", "body", "end"} /\ rq[r].ans = "timeout"
     \/ rq[r].pc = "name" /\ rq[r].ans = "ok"

\* (bug: only an ordinary failure restores; an exception goes straight back)
BigFailsOrdinary(r) ==
  /\ Fails(r)
  /\ \/ rq[r].ans = "failed" /\ Call(r, rq[r], "undo") /\ UNCHANGED <<active, entered_thy>>
     \/ rq[r].ans # "failed" /\ Reenter(r)
  /\ UNCHANGED <<backendVars, book>>

BigFails(r) ==
  /\ Fails(r)
  /\ \/ rq[r].ck # None /\ Call(r, rq[r], "undo") /\ UNCHANGED <<active, entered_thy>>
     \/ rq[r].ck = None /\ Reenter(r)
  /\ UNCHANGED <<backendVars, book>>

\* Whatever the restore said, the previous theory is entered again.
BigUndone(r) ==
  /\ Has(r, "big", "undo", {"ok", "timeout"})
  /\ Reenter(r)
  /\ UNCHANGED <<backendVars, book>>

BigGivesUp(r) ==
  /\ Has(r, "big", "reenter", {"ok", "timeout"})
  /\ Finish(r, rq[r], FALSE)
  /\ UNCHANGED <<backendVars, queue, book, entered_thy>>

-----------------------------------------------------------------------------
Step(r) == \/ Begin(r) \/ BeginEnter(r) \/ BeginRestore(r)
           \/ LoadCleared(r) \/ Advance(r) \/ Return(r) \/ Raise(r)
           \/ BigRefused(r) \/ BigEnter(r) \/ BigFails(r) \/ BigUndone(r) \/ BigGivesUp(r)

Next == Exec \/ \E r \in Reqs : Timeout(r) \/ (Step(r) /\ UNCHANGED timeouts)

Spec == Init /\ [][Next]_vars

-----------------------------------------------------------------------------
(* Properties.                                                             *)

Texts    == UNION {[T -> Seq(Reqs)] : T \in SUBSET Theories}
Requests == [op : DOMAIN First \cup {"none"}, pc : Stages, thy : Theories \cup {NoThy},
             ck : Nat \cup {None}, prev : Theories \cup {NoThy},
             ans : {"none", "ok", "failed", "timeout"}, at : Nat, ok : BOOLEAN,
             base : Texts, alone : BOOLEAN, cleared : BOOLEAN]
Jobs     == [req : Reqs, stage : Stages, live : BOOLEAN, id : Nat \cup {None},
             thy : Theories \cup {NoThy}]

\* The types of the variables; an operation knows the theory it enters, and the state
\* it restores.
TypeOK ==
  /\ docs \in [Theories -> Seq(Reqs)] /\ thys \subseteq Theories /\ cur \in thys \cup {NoThy}
  /\ saved \in Seq(Texts) /\ epoch \in Nat /\ resetter \in Reqs \cup {NoReq}
  /\ queue \in Seq(Jobs) /\ rq \in [Reqs -> Requests]
  /\ \A k \in DOMAIN queue : /\ queue[k].stage \in {"enter", "reenter"} => queue[k].thy \in Theories
                             /\ queue[k].stage \in {"restore", "undo"} => queue[k].id \in Nat
  /\ \A r \in Reqs : Running(r) /\ rq[r].op \in {"load", "enter", "big"} => rq[r].thy \in Theories
  /\ book \subseteq [kind : {"command", "report", "checkpoint", "verified"}, id : Nat \cup {None},
                    epoch : Nat, crossed : BOOLEAN]
  /\ entered_thy \in Theories \cup {NoThy} /\ active \in Nat

Pending(r) == \E k \in DOMAIN queue : queue[k].req = r

\* Every operation that counts itself in counts itself out, whichever way it
\* leaves (_acquire_request and the `finally` blocks), and a caller waits for at
\* most one job.
RequestsCounted ==
  /\ \A r \in Reqs : Cardinality({k \in DOMAIN queue : queue[k].req = r /\ queue[k].live})
                       = IF Running(r) /\ rq[r].ans = "none" THEN 1 ELSE 0
  /\ active = Cardinality({r \in Reqs : Running(r) /\ rq[r].op \notin Uncounted})

\* What the Python side keeps belongs to the backend session of now ("Clear all
\* per-session Python-side bookkeeping after a backend reset", _reset_bookkeeping).
\* The exceptions are all there are: load_document has not come back from its reset,
\* or gave up waiting for it; or an answer was on its way when the reset was made.
BookkeepingCurrent ==
  \A e \in book : \/ e.epoch = epoch
                  \/ e.crossed
                  \/ resetter # NoReq /\ ~rq[resetter].cleared

-----------------------------------------------------------------------------
(* What these two rest on.                                                 *)

Waiting(r) == Running(r) /\ rq[r].ans = "none"

\* A request that waits has one live job in the queue, which is the call it made; no
\* other job is waited for.
OneLiveJob ==
  /\ \A k \in DOMAIN queue : /\ rq[queue[k].req].pc # "new"
                             /\ queue[k].live => /\ Waiting(queue[k].req)
                                                 /\ queue[k] = Job(queue[k].req, rq[queue[k].req])
  /\ \A r \in Reqs : Waiting(r) => \E k \in DOMAIN queue : queue[k].req = r /\ queue[k].live
  /\ \A j, k \in DOMAIN queue : queue[j].live /\ queue[k].live /\ queue[j].req = queue[k].req
                                 => j = k

CountedIn == {r \in Reqs : Running(r) /\ rq[r].op \notin Uncounted}
Counted == active = Cardinality(CountedIn)

\* A load asks for one reset, and its bookkeeping is not cleared before that is made.
OneReset ==
  /\ \A k \in DOMAIN queue : queue[k].stage = "reset" =>
       LET q == rq[queue[k].req]
       IN  ~q.cleared /\ (q.pc = "done" \/ (q.pc = "reset" /\ q.ans \in {"none", "timeout"}))
  /\ \A j, k \in DOMAIN queue : queue[j].stage = "reset" /\ queue[k].stage = "reset"
                                   /\ queue[j].req = queue[k].req => j = k
  /\ \A r \in Reqs : rq[r].pc \in {"new", "reset"} => ~rq[r].cleared

\* The calls an operation makes, in their order; what a load gave up waiting for, it
\* does not report as a success.
InOrder ==
  /\ \A r \in Reqs : /\ rq[r].op = "none" <=> rq[r].pc = "new"
                     /\ rq[r].pc = "new" => ~rq[r].alone /\ rq[r].ans = "none"
                     /\ rq[r].pc \in {"new", "name"} => rq[r].ck = None
                     /\ rq[r].pc # "done" => ~rq[r].ok
                     /\ rq[r].op = "load" => rq[r].pc \in LoadCalls \cup {"done"}
                     /\ rq[r].op = "big" => rq[r].pc \in BigCalls \cup {"done"}
  /\ \A k \in DOMAIN queue :
       LET q == rq[queue[k].req]
       IN  /\ q.op = "load" => queue[k].stage \in LoadCalls
           /\ q.op = "big" => queue[k].stage \in BigCalls
           /\ queue[k].stage = "reset" => q.op = "load"
           /\ queue[k].stage = "name" => q.op = "big" /\ queue[k].live
           /\ q.pc = "name" => queue[k].stage = "name"
           /\ q.op = "load" /\ ~queue[k].live => IF q.pc = "done" THEN ~q.ok ELSE q.ans = "timeout"

CountInv == TypeOK /\ OneLiveJob /\ Counted /\ OneReset /\ InOrder /\ BookkeepingCurrent

-----------------------------------------------------------------------------
\* A load_document that reports success leaves the backend with its text and nothing
\* else, whatever earlier requests left in the worker's queue, unless another
\* request interferes after the reset.
LoadExact ==
  \A r \in Reqs :
    rq[r].op = "load" /\ rq[r].pc = "done" /\ rq[r].ok /\ rq[r].alone =>
      /\ thys = {rq[r].thy} /\ cur = rq[r].thy /\ entered_thy = rq[r].thy
      /\ {docs[rq[r].thy][k] : k \in DOMAIN docs[rq[r].thy]} = {r}

\* Once the calls of a failed big_step are through (also those it gave up waiting
\* for), the theories that were there when it began are as they were, and the
\* theory it found entered is entered again.
BigStepAtomic ==
  \A r \in Reqs :
    rq[r].op = "big" /\ rq[r].pc = "done" /\ ~rq[r].ok /\ ~Pending(r) /\ rq[r].alone =>
      /\ \A t \in DOMAIN rq[r].base : docs[t] = rq[r].base[t]
      /\ rq[r].prev # NoThy => cur = rq[r].prev

-----------------------------------------------------------------------------
(* What these two rest on.                                                 *)

Mine(r) == {k \in DOMAIN queue : queue[k].req = r}

\* How far a load has come that nobody has disturbed since its reset, while it goes well.
LoadOnItsWay(r) ==
  LET q == rq[r] IN
  q.op = "load" /\ q.alone /\ (IF q.pc = "done" THEN q.ok ELSE q.ans # "timeout") =>
    /\ q.pc = "reset" => q.ans = "ok" /\ thys = {} /\ docs[q.thy] = <<>>
    /\ q.pc # "reset" => entered_thy = q.thy
    /\ q.pc = "enter" => docs[q.thy] = <<>> /\ (q.ans = "none" => thys = {})
    /\ q.pc \in {"header", "text", "done"} \/ (q.pc = "enter" /\ q.ans # "none") =>
         thys = {q.thy} /\ cur = q.thy /\ \A k \in DOMAIN docs[q.thy] : docs[q.thy][k] = r
    /\ q.pc = "done" \/ (q.pc = "text" /\ q.ans = "ok") => docs[q.thy] # <<>>

LoadProgress == \A r \in Reqs : LoadOnItsWay(r)

\* saved[i + 1] is what the big step found.
SavedBase(r, i) == i \in Nat /\ Holds(i) /\ saved[i + 1] = rq[r].base
Clean(r) == \A t \in DOMAIN rq[r].base : docs[t] = rq[r].base[t]

\* Once the jobs of request r are through, the theories are what it found ...
WillBeClean(r) ==
  \/ Clean(r) /\ \A k \in Mine(r) : queue[k].stage \notin Edits
  \/ \E k \in Mine(r) : /\ queue[k].stage = "undo"
                         /\ \A m \in Mine(r) : m > k => queue[m].stage \notin Edits

\* ... and t is entered.
WillBeEntered(r, t) ==
  LET enters == {k \in Mine(r) : queue[k].stage \in {"enter", "reenter"}}
  IN  \/ cur = t /\ enters = {}
      \/ \E k \in enters : queue[k].thy = t /\ \A m \in enters : m <= k

\* How far a big step has come that nobody has disturbed since its first call.
BigOnItsWay(r) ==
  LET q == rq[r] IN
  q.op = "big" /\ q.alone =>
    /\ \A k \in Mine(r) : queue[k].stage = "undo" => SavedBase(r, queue[k].id)
    /\ q.pc \in {"name", "save"} =>
         /\ thys = DOMAIN q.base /\ Clean(r) /\ cur = q.prev
         /\ \A k \in Mine(r) : queue[k].stage = "save"
         /\ IF q.pc = "save" /\ q.ans = "ok" THEN SavedBase(r, q.ck) ELSE q.ck = None
    /\ q.pc \in {"enter", "header", "body", "end"} => SavedBase(r, q.ck)
    /\ q.pc \in {"enter", "header", "body", "end", "undo"} =>
         entered_thy = q.thy /\ WillBeEntered(r, q.thy)
    /\ q.pc \in {"undo", "reenter"} \/ (q.pc = "done" /\ ~q.ok) => WillBeClean(r)
    /\ q.pc = "reenter" \/ (q.pc = "done" /\ ~q.ok /\ q.prev # NoThy) => WillBeEntered(r, q.prev)

BigProgress == \A r \in Reqs : BigOnItsWay(r)

IInv == CountInv /\ LoadProgress /\ BigProgress

=============================================================================
