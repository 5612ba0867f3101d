----------------------------- MODULE SessionPool -----------------------------
(***************************************************************************)
(* The session pool of the server: SessionManager with its helpers mixin   *)
(* (server/app/services/session_manager.py, session_manager_helpers.py)    *)
(* and the lease and busy accounting of a session                          *)
(* (server/app/services/session.py), driven by the HTTP handlers of        *)
(* server/app/api/v1/router.py.                                            *)
(*                                                                         *)
(* Three kinds of processes share the state:                               *)
(*  - the asyncio EVENT LOOP runs the synchronous stretches of the         *)
(*    handlers and of the cleanup task, one at a time.  `loop` names the   *)
(*    process that is inside a stretch of several steps;                   *)
(*  - WORKER THREADS (asyncio.to_thread) run gateway checks, memory        *)
(*    relief, backend creation, session operations and DELETEs, in any     *)
(*    order with the loop;                                                 *)
(*  - the gateway JVM may die at any time.                                 *)
(* A critical section under SessionManager._lock is one atomic step; the   *)
(* global _gateway_lock is held across steps and is the variable gwLock.   *)
(***************************************************************************)
EXTENDS Naturals, Sequences, FiniteSets

CONSTANTS Requests,       \* concurrent HTTP requests
          Cleanup, Main,  \* the cleanup task; the lifespan task that shuts down
          NoProc,
          Sessions,       \* session ids (uuid4) the server can draw
          NoSession,
          Keys, NoKey,    \* dependency keys
          PoolSize,       \* Server.DEFAULT_POOL_SIZE
          InitialSessions,\* Server.INITIAL_SESSIONS
          MaxLeases,      \* bound: lease tokens drawn
          MaxGateways,    \* bound: gateway processes started
          ProbeAnswers    \* what the probe of a live JVM may answer

NoLease == 0
Leases  == 1..MaxLeases
Procs   == Requests \cup {Cleanup, Main}

ASSUME PoolAssumption ==
  /\ PoolSize \in Nat \ {0}
  /\ InitialSessions \in Nat
  /\ MaxLeases \in Nat
  /\ MaxGateways \in Nat \ {0}
  /\ ProbeAnswers \in SUBSET BOOLEAN /\ ProbeAnswers # {}
ASSUME ProcAssumption ==
  /\ IsFiniteSet(Requests)
  /\ Cleanup \notin Requests /\ Main \notin Requests /\ Cleanup # Main
  /\ NoProc \notin Procs
  /\ NoSession \notin Sessions
  /\ NoKey \notin Keys

VARIABLES
  lru,      \* SessionManager._lru: session ids, oldest first
  lease,    \* _lease_id of each session, NoLease when not leased
  issued,   \* (session, token) pairs the clients have been given
  nextLease,\* next unused lease token
  status,   \* "unborn", then SessionStatus: "active", "closed"
  active,   \* _active_requests of each session
  history,  \* command_history is not empty
  key,      \* dependency_key
  gen,      \* the gateway process the session's backend lives in
  leaked,   \* live backends that no Python object refers to any more
  gateway,  \* SessionManager.gateway: 0 for None, else the gateway's number
  gens,     \* gateway processes started so far
  jvm,      \* gateway processes that are up
  gwLock,   \* holder of _gateway_lock
  loop,     \* process in a multi-step stretch on the event loop
  pc,       \* where each process is
  sid, tok, want,  \* a request's session, token and dependency key
  gaveUp,   \* requests answered by the creation timeout, thread still running
  toClose,  \* sessions a process has popped and not closed yet
  sweep,    \* to_close of cleanup_idle_sessions
  down      \* shutdown has begun

poolVars == <<lru, lease, issued, nextLease>>
sessVars == <<status, active, history, key, gen, leaked>>
gwVars   == <<gateway, gens, jvm, gwLock>>
reqVars  == <<sid, tok, want, gaveUp>>
procVars == <<pc, toClose, sweep, loop, down>>
vars     == <<poolVars, sessVars, gwVars, reqVars, procVars>>

-----------------------------------------------------------------------------
(* The OrderedDict _lru and the predicates the handlers evaluate on it.    *)

Ids(q) == {q[i] : i \in 1..Len(q)}

Position(q, s) == CHOOSE i \in 1..Len(q) : q[i] = s

\* _lru.pop(s)
Without(q, s) == [i \in 1..(Len(q) - 1) |-> IF i < Position(q, s) THEN q[i] ELSE q[i + 1]]

\* _lru.move_to_end(s, last=True)
MoveToEnd(q, s) == Append(Without(q, s), s)

Pooled == Ids(lru)

InUse(s)  == active[s] > 0
Leased(s) == lease[s] # NoLease

\* Mutant: eviction looks at active requests only.
IdleIgnoresLease(s) == ~InUse(s)

\* May be evicted.
Idle(s)   == ~InUse(s) /\ ~Leased(s)

\* s is the oldest pooled session that may be evicted (_pop_oldest_idle_locked).
OldestIdle(s) == \E i \in 1..Len(lru) : /\ lru[i] = s
                                        /\ Idle(s)
                                        /\ \A j \in 1..(i - 1) : ~Idle(lru[j])

NoneIdle == \A s \in Pooled : ~Idle(s)

\* require_lease(lease_id), on a session found in the pool
Holds(s, t) == s \in Pooled /\ status[s] = "active" /\ lease[s] = t

\* Mutant: a leased session is handed out again.
MatchesLeased(s, k, reuseDirty) == /\ status[s] = "active"
                                   /\ key[s] = k
                                   /\ reuseDirty \/ ~history[s]

\* The session a reuse lookup accepts, and the most recently used one of them
\* (_find_and_lease_session_locked).  in_use is not consulted.
Matches(s, k, reuseDirty) == /\ status[s] = "active"
                             /\ ~Leased(s)
                             /\ key[s] = k
                             /\ reuseDirty \/ ~history[s]

NewestMatch(s, k, reuseDirty) ==
  \E i \in 1..Len(lru) : /\ lru[i] = s
                         /\ Matches(s, k, reuseDirty)
                         /\ \A j \in (i + 1)..Len(lru) : ~Matches(lru[j], k, reuseDirty)

LoopFree == loop = NoProc /\ ~down

\* The request is answered (or its thread ends) and can be reused.
Finish(r) == /\ pc' = [pc EXCEPT ![r] = "idle"]
             /\ sid' = [sid EXCEPT ![r] = NoSession]
             /\ tok' = [tok EXCEPT ![r] = NoLease]
             /\ want' = [want EXCEPT ![r] = NoKey]
             /\ gaveUp' = gaveUp \ {r}

Goto(p, label) == pc' = [pc EXCEPT ![p] = label]

-----------------------------------------------------------------------------
(* startup(): the gateway is up and InitialSessions sessions have been     *)
(* pre-warmed, unleased, the pool evicting beyond PoolSize.                *)

Prewarmed == IF InitialSessions < PoolSize THEN InitialSessions ELSE PoolSize

Init ==
  /\ lru \in [1..Prewarmed -> Sessions]
  /\ \A i, j \in 1..Prewarmed : lru[i] = lru[j] => i = j
  /\ lease = [s \in Sessions |-> NoLease]
  /\ issued = {} /\ nextLease = 1
  /\ status = [s \in Sessions |-> IF s \in Pooled THEN "active" ELSE "unborn"]
  /\ active = [s \in Sessions |-> 0]
  /\ history = [s \in Sessions |-> FALSE]
  /\ \E k \in Keys : key = [s \in Sessions |-> IF s \in Pooled THEN k ELSE NoKey]
  /\ gen = [s \in Sessions |-> IF s \in Pooled THEN 1 ELSE 0]
  /\ leaked = {}
  /\ gateway = 1 /\ gens = 1 /\ jvm = {1} /\ gwLock = NoProc
  /\ loop = NoProc
  /\ pc = [p \in Procs |-> "idle"]
  /\ sid = [r \in Requests |-> NoSession]
  /\ tok = [r \in Requests |-> NoLease]
  /\ want = [r \in Requests |-> NoKey]
  /\ gaveUp = {}
  /\ toClose = [p \in Procs |-> {}]
  /\ sweep = {} /\ down = FALSE

-----------------------------------------------------------------------------
(* acquire_session and create_leased_session, up to their first await.     *)

\* acquire_session finds a session: lease it, move it to the end, answer.
AcquireReuse(r, s, k, reuseDirty) ==
  /\ LoopFree /\ pc[r] = "idle" /\ nextLease \in Leases
  /\ NewestMatch(s, k, reuseDirty)
  /\ lease' = [lease EXCEPT ![s] = nextLease]
  /\ issued' = issued \cup {<<s, nextLease>>}
  /\ nextLease' = nextLease + 1
  /\ lru' = MoveToEnd(lru, s)
  /\ UNCHANGED <<sessVars, gwVars, reqVars, procVars>>

\* acquire_session finds none, or POST /sessions: a token is drawn and the
\* creation pipeline starts with _ensure_gateway in a thread.
StartCreate(r, k) ==
  /\ LoopFree /\ pc[r] = "idle" /\ nextLease \in Leases
  /\ tok' = [tok EXCEPT ![r] = nextLease]
  /\ want' = [want EXCEPT ![r] = k]
  /\ nextLease' = nextLease + 1
  /\ Goto(r, "ensure")
  /\ UNCHANGED <<lru, lease, issued, sessVars, gwVars, sid, gaveUp, toClose, sweep, loop, down>>

-----------------------------------------------------------------------------
(* _ensure_gateway and _recover_gateway_locked, run by a request's thread  *)
(* or by the cleanup task on the loop.                                     *)

EnsureLock(p) ==
  /\ pc[p] = "ensure" /\ gwLock = NoProc
  /\ gwLock' = p
  /\ Goto(p, "probe")
  /\ UNCHANGED <<poolVars, sessVars, gateway, gens, jvm, reqVars, toClose, sweep, loop, down>>

\* _ensure_gateway returns: a creation goes on, the cleanup task sleeps again.
EnsureReturn(p) ==
  /\ gwLock' = NoProc
  /\ pc' = [pc EXCEPT ![p] = IF p = Cleanup THEN "idle" ELSE "admit"]
  /\ loop' = IF p = Cleanup THEN NoProc ELSE loop
  /\ UNCHANGED <<poolVars, sessVars, reqVars, toClose, sweep, down>>

EnsureAlive(p) ==
  /\ pc[p] = "probe" /\ gateway # 0
  /\ gateway \in jvm /\ TRUE \in ProbeAnswers
  /\ EnsureReturn(p)
  /\ UNCHANGED <<gateway, gens, jvm>>

\* Mutant: the purge closes the sessions and leaves them in the pool.
EnsurePurgeKeeps(p) ==
  /\ pc[p] = "probe" /\ gateway # 0
  /\ gateway \in jvm => FALSE \in ProbeAnswers
  /\ toClose' = [toClose EXCEPT ![p] = Pooled]
  /\ Goto(p, "purge")
  /\ UNCHANGED <<poolVars, sessVars, gwVars, reqVars, sweep, loop, down>>

\* The probe failed (dead JVM, or a live one that did not answer): take every
\* session out of the pool.  Leases and busy requests are not consulted.
EnsurePurge(p) ==
  /\ pc[p] = "probe" /\ gateway # 0
  /\ gateway \in jvm => FALSE \in ProbeAnswers
  /\ toClose' = [toClose EXCEPT ![p] = Pooled]
  /\ lru' = <<>>
  /\ Goto(p, "purge")
  /\ UNCHANGED <<lease, issued, nextLease, sessVars, gwVars, reqVars, sweep, loop, down>>

\* Every purged session is closed: forget the gateway and terminate it.
PurgeDone(p) ==
  /\ pc[p] = "purge" /\ toClose[p] = {}
  /\ jvm' = jvm \ {gateway}
  /\ gateway' = 0
  /\ Goto(p, "start")
  /\ UNCHANGED <<poolVars, sessVars, gens, gwLock, reqVars, toClose, sweep, loop, down>>

MayStart(p) == pc[p] = "start" \/ (pc[p] = "probe" /\ gateway = 0)

EnsureStart(p) ==
  /\ MayStart(p) /\ gens < MaxGateways
  /\ gens' = gens + 1
  /\ gateway' = gens'
  /\ jvm' = jvm \cup {gens'}
  /\ EnsureReturn(p)

\* Mutant: a failed start is retried for ever.
EnsureRetries(r) ==
  /\ MayStart(r)
  /\ gwLock' = NoProc
  /\ Goto(r, "ensure")
  /\ UNCHANGED <<poolVars, sessVars, gateway, gens, jvm, reqVars, toClose, sweep, loop, down>>

\* ReplBackendGatewayProcess() raised: GatewayUnavailable for a request, a log
\* line for the cleanup task.
EnsureFails(r) ==
  /\ MayStart(r)
  /\ gwLock' = NoProc
  /\ Finish(r)
  /\ UNCHANGED <<poolVars, sessVars, gateway, gens, jvm, toClose, sweep, loop, down>>

CleanupEnsureFails ==
  /\ MayStart(Cleanup)
  /\ gwLock' = NoProc /\ loop' = NoProc
  /\ Goto(Cleanup, "idle")
  /\ UNCHANGED <<poolVars, sessVars, gateway, gens, jvm, reqVars, toClose, sweep, down>>

-----------------------------------------------------------------------------
(* Closing popped sessions, outside _lock: session.close() ends with the   *)
(* session CLOSED whatever the backend does.                               *)

CloseOne(p, s) ==
  /\ s \in toClose[p]
  /\ toClose' = [toClose EXCEPT ![p] = @ \ {s}]
  /\ status' = [status EXCEPT ![s] = "closed"]
  /\ UNCHANGED <<poolVars, active, history, key, gen, leaked, gwVars, reqVars,
                 pc, sweep, loop, down>>

-----------------------------------------------------------------------------
(* _create_session after _ensure_gateway: memory admission, creation of    *)
(* the backend under _gateway_lock, registration.                          *)

\* can_admit, or memory management is off
AdmitOk(r) ==
  /\ pc[r] = "admit" /\ toClose[r] = {}
  /\ Goto(r, "create")
  /\ UNCHANGED <<poolVars, sessVars, gwVars, reqVars, toClose, sweep, loop, down>>

\* ~can_admit: pop the oldest idle session; CloseOne closes it before the next read
RelieveMemory(p) ==
  /\ toClose[p] = {}
  /\ \E s \in Pooled : /\ OldestIdle(s)
                       /\ lru' = Without(lru, s)
                       /\ toClose' = [toClose EXCEPT ![p] = {s}]
  /\ UNCHANGED <<lease, issued, nextLease, sessVars, gwVars, reqVars, pc, sweep, loop, down>>

AdmitEvict(r) == pc[r] = "admit" /\ RelieveMemory(r)

\* The wrapper theory could not be written, or ~can_admit after the last retry:
\* PoolExhausted.  A session may have become idle since the relief looked.
AdmitRefuse(r) ==
  /\ LoopFree /\ pc[r] = "admit" /\ toClose[r] = {}
  /\ Finish(r)
  /\ UNCHANGED <<poolVars, sessVars, gwVars, toClose, sweep, loop, down>>

CreateLock(r) ==
  /\ pc[r] = "create" /\ gwLock = NoProc
  /\ gwLock' = r
  /\ Goto(r, "creating")
  /\ UNCHANGED <<poolVars, sessVars, gateway, gens, jvm, reqVars, toClose, sweep, loop, down>>

\* The JVM returns a backend ...
BackendCreated(r, s) ==
  /\ pc[r] = "creating" /\ gateway \in jvm /\ status[s] = "unborn"
  /\ gwLock' = NoProc
  /\ status' = [status EXCEPT ![s] = "active"]
  /\ gen' = [gen EXCEPT ![s] = gateway]
  /\ key' = [key EXCEPT ![s] = want[r]]
  /\ UNCHANGED <<poolVars, active, history, gateway, gens, jvm, toClose, sweep, loop, down>>

\* ... to the request that waits for it,
CreateOk(r, s) ==
  /\ BackendCreated(r, s) /\ r \notin gaveUp
  /\ Goto(r, "register")
  /\ sid' = [sid EXCEPT ![r] = s]
  /\ UNCHANGED <<leaked, tok, want, gaveUp>>

\* ... or to nobody, after a timeout.
CreateOrphan(r, s) ==
  /\ BackendCreated(r, s) /\ r \in gaveUp
  /\ leaked' = leaked \cup {s}
  /\ Finish(r)

\* Any error of the creation call; certain when the gateway is gone.
CreateFails(r) ==
  /\ pc[r] = "creating"
  /\ gwLock' = NoProc
  /\ Finish(r)
  /\ UNCHANGED <<poolVars, sessVars, gateway, gens, jvm, toClose, sweep, loop, down>>

\* wait_for(SESSION_CREATE) expires: the request is answered 503.  The thread
\* cannot be cancelled ...
CreateTimeout(r) ==
  /\ LoopFree /\ pc[r] \in {"create", "creating"} /\ r \notin gaveUp
  /\ gaveUp' = gaveUp \cup {r}
  /\ UNCHANGED <<poolVars, sessVars, gwVars, sid, tok, want, procVars>>

\* ... and a backend that arrived while the loop was late is dropped, like one
\* whose ThreadedBackend could not start its thread.
CreateTimeoutLate(r) ==
  /\ LoopFree /\ pc[r] = "register"
  /\ leaked' = leaked \cup {sid[r]}
  /\ Finish(r)
  /\ UNCHANGED <<poolVars, status, active, history, key, gen, gwVars, toClose, sweep, loop, down>>

\* acquire_lease, and the answer the client will get
LeaseNew(r) == /\ lease' = [lease EXCEPT ![sid[r]] = tok[r]]
               /\ issued' = issued \cup {<<sid[r], tok[r]>>}

\* Mutant: off by one in the pool's limit.
RegisterOneMore(r) ==
  /\ LoopFree /\ pc[r] = "register"
  /\ Len(lru) <= PoolSize
  /\ lru' = Append(lru, sid[r])
  /\ LeaseNew(r)
  /\ Finish(r)
  /\ UNCHANGED <<nextLease, sessVars, gwVars, toClose, sweep, loop, down>>

RegisterFits(r) ==
  /\ LoopFree /\ pc[r] = "register"
  /\ Len(lru) < PoolSize
  /\ lru' = Append(lru, sid[r])
  /\ LeaseNew(r)
  /\ Finish(r)
  /\ UNCHANGED <<nextLease, sessVars, gwVars, toClose, sweep, loop, down>>

\* Full: the oldest idle session makes room and is closed on the loop.
RegisterEvicts(r) ==
  /\ LoopFree /\ pc[r] = "register"
  /\ Len(lru) >= PoolSize
  /\ \E v \in Pooled : /\ OldestIdle(v)
                       /\ lru' = Append(Without(lru, v), sid[r])
                       /\ toClose' = [toClose EXCEPT ![r] = {v}]
  /\ LeaseNew(r)
  /\ loop' = r
  /\ Goto(r, "closing")
  /\ UNCHANGED <<nextLease, sessVars, gwVars, reqVars, sweep, down>>

\* Full and nothing idle: the insertion is undone (the lease is not) and the
\* new session is closed on the loop; PoolExhausted.
RegisterRefused(r) ==
  /\ LoopFree /\ pc[r] = "register"
  /\ Len(lru) >= PoolSize /\ NoneIdle
  /\ lease' = [lease EXCEPT ![sid[r]] = tok[r]]
  /\ toClose' = [toClose EXCEPT ![r] = {sid[r]}]
  /\ loop' = r
  /\ Goto(r, "closing")
  /\ UNCHANGED <<lru, issued, nextLease, sessVars, gwVars, reqVars, sweep, down>>

Register(r) == RegisterFits(r) \/ RegisterEvicts(r) \/ RegisterRefused(r)

\* The sessions popped by a registration or a DELETE are closed; answer.
ClosingDone(r) ==
  /\ pc[r] = "closing" /\ toClose[r] = {}
  /\ loop' = IF loop = r THEN NoProc ELSE loop
  /\ Finish(r)
  /\ UNCHANGED <<poolVars, sessVars, gwVars, toClose, sweep, down>>

-----------------------------------------------------------------------------
(* Using a session: get_session on the loop, the operation in a thread.    *)

OpGet(r, s, t) ==
  /\ LoopFree /\ pc[r] = "idle" /\ <<s, t>> \in issued
  /\ Holds(s, t)
  /\ lru' = MoveToEnd(lru, s)
  /\ sid' = [sid EXCEPT ![r] = s]
  /\ tok' = [tok EXCEPT ![r] = t]
  /\ Goto(r, "got")
  /\ UNCHANGED <<lease, issued, nextLease, sessVars, gwVars, want, gaveUp, toClose, sweep, loop, down>>

\* _acquire_request: execute_command, verify_chunk, load_document, ...
OpBegin(r) ==
  /\ pc[r] = "got"
  /\ active' = [active EXCEPT ![sid[r]] = @ + 1]
  /\ Goto(r, "op")
  /\ UNCHANGED <<poolVars, status, history, key, gen, leaked, gwVars, reqVars,
                 toClose, sweep, loop, down>>

\* enter_thy, rollback, the fact probes and the position queries do not count
\* themselves as active requests.
OpBeginUncounted(r) ==
  /\ pc[r] = "got"
  /\ Goto(r, "uncounted")
  /\ UNCHANGED <<poolVars, sessVars, gwVars, reqVars, toClose, sweep, loop, down>>

\* _release_request.  A command recorded, a document reloaded, or neither.
OpEnd(r) ==
  /\ pc[r] = "op"
  /\ active' = [active EXCEPT ![sid[r]] = IF @ = 0 THEN 0 ELSE @ - 1]
  /\ \E h \in BOOLEAN : history' = [history EXCEPT ![sid[r]] = h]
  /\ Finish(r)
  /\ UNCHANGED <<poolVars, status, key, gen, leaked, gwVars, toClose, sweep, loop, down>>

OpEndUncounted(r) ==
  /\ pc[r] = "uncounted"
  /\ Finish(r)
  /\ UNCHANGED <<poolVars, sessVars, gwVars, toClose, sweep, loop, down>>

-----------------------------------------------------------------------------
(* release_session on the loop; DELETE in a thread, by the lease holder or *)
(* by the admin (no lease required: tok = NoLease).                        *)

Release(s, t) ==
  /\ LoopFree /\ <<s, t>> \in issued
  /\ Holds(s, t) /\ ~InUse(s)
  /\ lease' = [lease EXCEPT ![s] = NoLease]
  /\ lru' = MoveToEnd(lru, s)
  /\ UNCHANGED <<issued, nextLease, sessVars, gwVars, reqVars, procVars>>

DeleteStart(r, s, t) ==
  /\ LoopFree /\ pc[r] = "idle"
  /\ <<s, t>> \in issued \/ (t = NoLease /\ s \in Pooled)
  /\ sid' = [sid EXCEPT ![r] = s]
  /\ tok' = [tok EXCEPT ![r] = t]
  /\ Goto(r, "delete")
  /\ UNCHANGED <<poolVars, sessVars, gwVars, want, gaveUp, toClose, sweep, loop, down>>

\* Mutant: DELETE and the sweep take a busy session.
MayCloseBusy(s, t) == /\ s \in Pooled /\ status[s] = "active"
                      /\ t = NoLease \/ lease[s] = t

\* close_session(s) may pop: in the pool, lease shown if required, not busy.
MayClose(s, t) == /\ s \in Pooled /\ status[s] = "active"
                  /\ t = NoLease \/ lease[s] = t
                  /\ ~InUse(s)

\* The part of close_session under _lock.
PopToClose(p, s) == /\ lru' = Without(lru, s)
                    /\ lease' = [lease EXCEPT ![s] = NoLease]
                    /\ toClose' = [toClose EXCEPT ![p] = {s}]
                    /\ UNCHANGED <<issued, nextLease>>

DeletePop(r) ==
  /\ pc[r] = "delete" /\ MayClose(sid[r], tok[r])
  /\ PopToClose(r, sid[r])
  /\ Goto(r, "closing")
  /\ UNCHANGED <<sessVars, gwVars, reqVars, sweep, loop, down>>

\* A request began between the in_use check and the pop: close_session puts the
\* session back, as the newest, and refuses.
BecameBusy(s, t) == /\ s \in Pooled /\ status[s] = "active"
                    /\ t = NoLease \/ lease[s] = t
                    /\ InUse(s)

DeletePutBack(r) ==
  /\ pc[r] = "delete" /\ BecameBusy(sid[r], tok[r])
  /\ lru' = MoveToEnd(lru, sid[r])
  /\ Finish(r)
  /\ UNCHANGED <<lease, issued, nextLease, sessVars, gwVars, toClose, sweep, loop, down>>

DeleteRefused(r) ==
  /\ pc[r] = "delete" /\ ~MayClose(sid[r], tok[r])
  /\ Finish(r)
  /\ UNCHANGED <<poolVars, sessVars, gwVars, toClose, sweep, loop, down>>

-----------------------------------------------------------------------------
(* cleanup_idle_sessions: one round, all of it on the event loop.          *)

\* Sessions idle for longer than their limit; time is abstracted, so any.
CleanupCollect ==
  /\ LoopFree /\ pc[Cleanup] = "idle"
  /\ \E idle \in SUBSET {s \in Pooled : status[s] = "active"} : sweep' = idle
  /\ loop' = Cleanup
  /\ Goto(Cleanup, "sweep")
  /\ UNCHANGED <<poolVars, sessVars, gwVars, reqVars, toClose, down>>

\* close_session(sid, require_lease=False) on each ...
CleanupClose(s) ==
  /\ pc[Cleanup] = "sweep" /\ s \in sweep /\ toClose[Cleanup] = {}
  /\ MayClose(s, NoLease)
  /\ sweep' = sweep \ {s}
  /\ PopToClose(Cleanup, s)
  /\ UNCHANGED <<sessVars, gwVars, reqVars, pc, loop, down>>

\* ... whose refusal is logged; the session stays where it is or is put back.
CleanupSkip(s) ==
  /\ pc[Cleanup] = "sweep" /\ s \in sweep /\ toClose[Cleanup] = {}
  /\ ~MayClose(s, NoLease)
  /\ sweep' = sweep \ {s}
  /\ \/ lru' = lru
     \/ BecameBusy(s, NoLease) /\ lru' = MoveToEnd(lru, s)
  /\ UNCHANGED <<lease, issued, nextLease, sessVars, gwVars, reqVars, pc, toClose, loop, down>>

CleanupEvict ==
  /\ pc[Cleanup] = "sweep" /\ sweep = {}
  /\ RelieveMemory(Cleanup)

\* gateway_alive() is cached for 5s: a dead gateway may look alive, a live one
\* dead.  _ensure_gateway probes again.
CleanupCheckGateway ==
  /\ pc[Cleanup] = "sweep" /\ sweep = {} /\ toClose[Cleanup] = {}
  /\ gateway # 0
  /\ Goto(Cleanup, "ensure")
  /\ UNCHANGED <<poolVars, sessVars, gwVars, reqVars, toClose, sweep, loop, down>>

CleanupRoundDone ==
  /\ pc[Cleanup] = "sweep" /\ sweep = {} /\ toClose[Cleanup] = {}
  /\ Goto(Cleanup, "idle")
  /\ loop' = NoProc
  /\ UNCHANGED <<poolVars, sessVars, gwVars, reqVars, toClose, sweep, down>>

-----------------------------------------------------------------------------
(* The JVM dies; shutdown() once every request has been answered (threads  *)
(* left by a creation timeout may still run).                              *)

JvmDies(g) ==
  /\ g \in jvm
  /\ jvm' = jvm \ {g}
  /\ UNCHANGED <<poolVars, sessVars, gateway, gens, gwLock, reqVars, procVars>>

Shutdown ==
  /\ LoopFree
  /\ \A r \in Requests : pc[r] = "idle" \/ r \in gaveUp
  /\ down' = TRUE
  /\ toClose' = [toClose EXCEPT ![Main] = Pooled]
  /\ lru' = <<>>
  /\ Goto(Main, "shutdown")
  /\ UNCHANGED <<lease, issued, nextLease, sessVars, gwVars, reqVars, sweep, loop>>

ShutdownGateway ==
  /\ pc[Main] = "shutdown" /\ toClose[Main] = {}
  /\ jvm' = jvm \ {gateway}
  /\ gateway' = 0
  /\ Goto(Main, "stopped")
  /\ UNCHANGED <<poolVars, sessVars, gens, gwLock, reqVars, toClose, sweep, loop, down>>

\* The process has ended: nothing more happens.
Stopped == /\ pc[Main] = "stopped" /\ \A r \in Requests : pc[r] = "idle"
           /\ UNCHANGED vars

-----------------------------------------------------------------------------
Ensure(p) == \/ EnsureLock(p) \/ EnsureAlive(p) \/ EnsurePurge(p)
             \/ PurgeDone(p) \/ EnsureStart(p)

Create(r) == \/ EnsureFails(r) \/ AdmitOk(r) \/ AdmitEvict(r) \/ AdmitRefuse(r)
             \/ CreateLock(r) \/ CreateFails(r) \/ Register(r) \/ ClosingDone(r)
             \/ \E s \in Sessions : CreateOk(r, s) \/ CreateOrphan(r, s)

Use(r) == \/ OpBegin(r) \/ OpBeginUncounted(r) \/ OpEnd(r) \/ OpEndUncounted(r)

Delete(r) == DeletePop(r) \/ DeletePutBack(r) \/ DeleteRefused(r)

CleanupRound == \/ \E s \in Sessions : CleanupClose(s) \/ CleanupSkip(s)
                \/ CleanupEvict \/ CleanupCheckGateway \/ CleanupRoundDone
                \/ CleanupEnsureFails

\* POST /sessions, and POST /sessions/acquire: a session that matches, or else a new one.
PostSession(r) == \E k \in Keys : StartCreate(r, k)

PostAcquire(r) == \E k \in Keys, b \in BOOLEAN :
                    \/ \E s \in Sessions : AcquireReuse(r, s, k, b)
                    \/ (\A s \in Pooled : ~Matches(s, k, b)) /\ StartCreate(r, k)

\* What clients, the clock and the operating system may do at any time.
Environment ==
  \/ \E r \in Requests : PostSession(r) \/ PostAcquire(r)
  \/ \E r \in Requests, s \in Sessions, t \in Leases : OpGet(r, s, t)
  \/ \E s \in Sessions, t \in Leases : Release(s, t)
  \/ \E r \in Requests, s \in Sessions, t \in Leases \cup {NoLease} : DeleteStart(r, s, t)
  \/ \E r \in Requests : CreateTimeout(r) \/ CreateTimeoutLate(r)
  \/ CleanupCollect
  \/ \E g \in 1..MaxGateways : JvmDies(g)
  \/ Shutdown

\* What the server's threads and coroutines do then.
Server == \/ \E p \in Requests \cup {Cleanup} : Ensure(p)
          \/ \E p \in Procs, s \in Sessions : CloseOne(p, s)
          \/ \E r \in Requests : Create(r) \/ Use(r) \/ Delete(r)
          \/ CleanupRound
          \/ ShutdownGateway
          \/ Stopped

Next == Environment \/ Server

Spec == Init /\ [][Next]_vars

(* Fairness.  Threads run and the JVM answers or fails within the Py4J     *)
(* read timeout (weak fairness of every step that needs no lock).  The     *)
(* loop serves its ready queue in FIFO order, and the cleanup task sleeps  *)
(* between rounds, so that a process waiting for the loop or for           *)
(* _gateway_lock gets it (strong fairness of those steps).                 *)
Fairness ==
  /\ \A p \in Requests \cup {Cleanup} :
       /\ SF_vars(EnsureLock(p))
       /\ WF_vars(EnsureAlive(p) \/ EnsurePurge(p) \/ PurgeDone(p) \/ EnsureStart(p))
  /\ \A p \in Procs : WF_vars(\E s \in Sessions : CloseOne(p, s))
  /\ \A r \in Requests :
       /\ SF_vars(CreateLock(r))
       /\ SF_vars(Register(r))
       /\ WF_vars(EnsureFails(r) \/ AdmitOk(r) \/ AdmitEvict(r) \/ AdmitRefuse(r))
       /\ WF_vars(CreateFails(r) \/ \E s \in Sessions : CreateOk(r, s) \/ CreateOrphan(r, s))
       /\ WF_vars(ClosingDone(r))
       /\ WF_vars(Delete(r))
  /\ WF_vars(CleanupRound)

FairSpec == Spec /\ Fairness

-----------------------------------------------------------------------------
(* Properties.                                                             *)

PC == {"idle", "ensure", "probe", "purge", "start", "admit", "create", "creating",
       "register", "closing", "got", "op", "uncounted", "delete", "sweep",
       "shutdown", "stopped"}

\* Every variable has the type of the Python field it stands for.
TypeOK ==
  /\ lru \in Seq(Sessions)
  /\ lease \in [Sessions -> Leases \cup {NoLease}]
  /\ issued \subseteq Sessions \X Leases
  /\ nextLease \in Nat
  /\ status \in [Sessions -> {"unborn", "active", "closed"}]
  /\ active \in [Sessions -> Nat]
  /\ history \in [Sessions -> BOOLEAN]
  /\ key \in [Sessions -> Keys \cup {NoKey}]
  /\ gen \in [Sessions -> 0..MaxGateways]
  /\ leaked \subseteq Sessions
  /\ gateway \in 0..MaxGateways /\ gens \in 0..MaxGateways
  /\ jvm \subseteq 1..MaxGateways
  /\ gwLock \in Procs \cup {NoProc} /\ loop \in Procs \cup {NoProc}
  /\ pc \in [Procs -> PC]
  /\ sid \in [Requests -> Sessions \cup {NoSession}]
  /\ tok \in [Requests -> Leases \cup {NoLease}]
  /\ want \in [Requests -> Keys \cup {NoKey}]
  /\ gaveUp \subseteq Requests
  /\ toClose \in [Procs -> SUBSET Sessions]
  /\ sweep \subseteq Sessions
  /\ down \in BOOLEAN

\* The eviction loop of _create_session keeps the pool within pool_size after
\* every step of every process, whatever requests, purges and re-registrations
\* run concurrently.
PoolBound == Len(lru) <= PoolSize

\* Request r has a new backend that is not registered yet.
CreatorHas(r, s) == pc[r] = "register" /\ sid[r] = s

\* Session s has one keeper if it is live and none otherwise.
HeldOnce(s) ==
  /\ status[s] = "active" <=> \/ s \in Pooled \/ s \in leaked
                              \/ \E r \in Requests : CreatorHas(r, s)
                              \/ \E p \in Procs : s \in toClose[p]
  /\ s \in Pooled => s \notin leaked
  /\ \A r \in Requests : CreatorHas(r, s) =>
       /\ s \notin Pooled /\ s \notin leaked
       /\ \A q \in Requests : CreatorHas(q, s) => q = r
       /\ \A p \in Procs : s \notin toClose[p]
  /\ \A p \in Procs : s \in toClose[p] =>
       /\ s \notin Pooled /\ s \notin leaked
       /\ \A q \in Procs : s \in toClose[q] => q = p

\* Every live backend is in the hands of exactly one party: the pool, the
\* request registering it, or the one process that popped it and will close it
\* (or nobody, after a creation timeout).  A session is therefore closed once,
\* never closed while it can still be handed out, and never forgotten by a
\* purge, an eviction, a DELETE and a sweep racing for it.
Custody == \A s \in Sessions : HeldOnce(s)

\* Where each process may be, and what it carries there: the inductive
\* strengthening that the proofs of PoolBound and Custody need.
Distinct(q) == \A i, j \in 1..Len(q) : q[i] = q[j] => i = j

EnsurePC  == {"ensure", "probe", "purge", "start"}
CreatePC  == EnsurePC \cup {"admit", "create", "creating", "register"}
RequestPC == CreatePC \cup {"idle", "closing", "got", "op", "uncounted", "delete"}

Carried ==
  /\ \A r \in Requests :
       /\ pc[r] \in RequestPC
       /\ pc[r] \in {"register", "got", "op", "uncounted", "delete"} => sid[r] \in Sessions
       /\ pc[r] \in CreatePC => tok[r] \in Leases
  /\ pc[Cleanup] \in EnsurePC \cup {"idle", "sweep"}
  /\ pc[Main] \in {"idle", "shutdown", "stopped"} /\ (~down => pc[Main] = "idle")
  /\ \A p \in Procs :
       toClose[p] # {} => pc[p] \in {"purge", "admit", "closing", "sweep", "shutdown"}

IInv == TypeOK /\ Distinct(lru) /\ PoolBound /\ Carried /\ Custody

\* What the action properties and the refinement need besides.  The counter of a session
\* is the number of requests in the counted part of an operation on it.
Users(s) == {r \in Requests : pc[r] = "op" /\ sid[r] = s}
ActiveCounted == \A s \in Sessions : active[s] = Cardinality(Users(s))

\* The token of a creation under way was drawn for it alone and is not given out yet.
TokensOnce ==
  /\ nextLease \in Nat \ {0}
  /\ \A s \in Sessions, t \in Leases : <<s, t>> \in issued => t < nextLease
  /\ \A r \in Requests : pc[r] \in CreatePC =>
       /\ tok[r] < nextLease
       /\ \A s \in Sessions : <<s, tok[r]>> \notin issued
       /\ \A q \in Requests : pc[q] \in CreatePC /\ tok[q] = tok[r] => q = r

\* The cleanup round has the event loop to itself; only creation threads outlive their answer.
LoopHeld == pc[Cleanup] # "idle" => loop = Cleanup
TimedOut == \A r \in gaveUp : pc[r] \in {"create", "creating"}

ServiceInv == IInv /\ ActiveCounted /\ TokensOnce /\ LoopHeld /\ TimedOut

\* The process that purges the pool because the gateway probe failed.
PurgeStep == \E p \in Requests \cup {Cleanup} : pc[p] = "probe" /\ pc'[p] = "purge"

\* A request inside the counted part of an operation loses its session to no
\* eviction, sweep, release or DELETE, only to a gateway purge.
BusyKept ==
  [][\A r \in Requests :
       (pc[r] = "op" /\ sid[r] \in Pooled /\ sid[r] \notin Pooled') => PurgeStep]_vars

\* A leased session leaves the pool only by a gateway purge, by a DELETE that
\* showed its token or the admin's, by the sweep that found it abandoned, or at
\* shutdown: LRU and memory eviction never take it.
LeaseKept ==
  [][\A s \in Sessions :
       (s \in Pooled /\ Leased(s) /\ s \notin Pooled') =>
         \/ PurgeStep
         \/ \E r \in Requests : /\ pc[r] = "delete" /\ sid[r] = s
                                /\ tok[r] \in {lease[s], NoLease}
         \/ s \in sweep /\ loop = Cleanup
         \/ down']_vars

\* Not in the pool yet: not created, leaked, or about to be registered.
Outside == {s \in Sessions : \/ status[s] = "unborn" \/ s \in leaked
                             \/ \E r \in Requests : CreatorHas(r, s)}

\* What clients see of the pool, in the terms of LeaseService.
Place == [s \in Sessions |-> IF s \in Pooled THEN "pooled"
                            ELSE IF s \in Outside THEN "outside" ELSE "gone"]
Owner == [s \in Sessions |-> IF s \in Pooled THEN lease[s] ELSE NoLease]
Granted == {t \in Leases : \E s \in Sessions : <<s, t>> \in issued}

Service == INSTANCE LeaseService WITH place <- Place, owner <- Owner, granted <- Granted

\* The pool implements the lease service: exclusive leases, tokens used once,
\* no session coming back after it left the pool.
ImplementsLeaseService == Service!Spec

\* Every creation request is eventually answered: no lock cycle between the
\* event loop, _gateway_lock and the purge, and no starvation in it.
CreationEnds ==
  \A r \in Requests :
    pc[r] \in {"ensure", "probe", "purge", "start", "admit", "create", "creating",
               "register", "closing"} ~> pc[r] = "idle"

=============================================================================
