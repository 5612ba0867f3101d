# IsabelleGym: TLA+ models of the session server and its clients

IsabelleGym serves interactive Isabelle proof sessions over HTTP. A client leases
a session, enters a theory, sends commands or chunks, probes the proof state,
saves and restores checkpoints, and gives the session back. Around the server are
two MCP servers for language models, a comparison of MCP servers, a set of
benchmark scripts and a group of local proof agents. This directory models the parts
where threads, coroutines, timeouts and long sequences of calls meet.

Paths below are relative to `src/`; `services/` is `server/app/services/`, `scala/` is
`repl/src/main/scala/repl/`, `MCP-comparison/` is `evaluation/MCP-comparison/`.

## 1. Inventory

| Component | State | Operations | What is hard |
|---|---|---|---|
| Session pool: `services/session_manager.py`, `session_manager_helpers.py` | `_lru`, leases, the gateway, `_lock`, `_gateway_lock` | acquire, create, release, DELETE, idle sweep, memory eviction, gateway recovery, startup, shutdown | event loop and worker threads interleave at every await; creation can time out while its thread goes on; the JVM may die at any time |
| Worker thread: `services/threaded_backend.py` | `_q`, `_shutting_down`, `_stop`, futures | `submit`, `_run`, `close` | `submit` checks and enqueues in two steps; `close` and the worker take from the same queue |
| Session operations: `services/session.py`, `session_bigstep.py` | checkpoints, history, entered theory, request counter | every session endpoint | an operation is several backend calls; a call that is given up is executed later |
| Scala document layer: `scala/repl_session.scala`, `thy_info.scala`, `thy_status.scala`, `edit_utils.scala`, `backend_*.scala` | status chain per theory, PIDE text, saved states, id counter | enter, step, verify_chunk, step_chunk_report, rollback, probes, save, restore, reset | the chain and the PIDE text are updated separately; probes are inserted and taken back; restore is a text diff between branches |
| ML communication: `scala/repl_ml_communication.scala`, `backend_probes.scala`, `REPL.ML` | capacity-one reply queues per channel | send probe, wait, retry, late reply | a late reply answers the next question |
| Heap pool: `services/heap_pool.py` | registry, manifest files, images, semaphore | build, check for staleness, delete, collect images, reload | builds run across awaits; a process outlives its timeout; manifests survive restarts |
| Build verifier: `services/build_verify.py` | result cache, per-hash locks, semaphore | verify | concurrent identical requests; the hash leaves out the theory's name |
| MCP stepwise server: `mcp_stepwise_server/` | current session of each connection | open, tools, batch, close | handlers go on after their client gave up |
| MCP LSP server: `mcp_lsp_server/` | file bindings with a cached hash, scratch pool | bind, sync, tools, scratch acquire/return/drop | several tool calls on one file; sessions vanish at the server |
| Comparison harness: `MCP-comparison/` | work files, a buffer that outlives the attempt, results | set-up, rounds, gates, verdict | many ends of an attempt; what is left of the last one |
| Benchmark scripts: `evaluation/scripts/` | file queue, workers, results | run a theory, record | sessions reused while an abandoned command still runs |
| Isabelle session cache: `scala/session_manager.scala` | cache of sessions by theories, LRU order, reference counts, pending removals | get, share, evict, release, remove, shut down | two backends meet in one cache; a session is evicted while others refer to it; off by default and not modelled |
| Local agents: `evaluation/local_gym/` | tactics tried, the search tree, recorded sessions, the one current session of a shared client | prove a theorem, collect data, search, compete | state kept from theorem to theorem; threads share one client; commands that fail after they changed the proof |
| HTTP API, client library, gym, memory monitor, logging, configuration, text helpers | none of their own | | |

The API handlers (`server/app/api/v1/router.py`) run on one asyncio event loop and
push blocking work into threads. A handler obtains a session from the
`SessionManager` (lease checked, LRU order changed) and calls it in a thread; the
session submits a closure to its `ThreadedBackend`; that thread alone talks over
Py4J to the Scala `ReplBackend` of the session, in a gateway JVM that all sessions
share. The cleanup task runs on the loop and uses the same locks. Probes go from
Scala to ML inside PIDE and come back through the reply queues. Heap builds and
build verifications are coroutines on the same loop that start `isabelle build`.
The MCP servers are HTTP clients of the server; the harnesses are MCP clients.

What makes each part correct:

* **pool**: one holder per session; no session lost or closed twice; no more than
  `pool_size` pooled; busy and leased sessions survive evictions; creation requests
  end; popped sessions are closed;
* **worker**: each job is resolved once; `close()` ends and has called `exit`;
* **operations**: Python's bookkeeping describes the backend's session; a load leaves its
  text and nothing else; a big step is all or nothing; requests are counted out;
* **document**: bookkeeping and PIDE text agree; discards take back only what was
  inserted; checkpoints bring back what was saved;
* **ML channel**: a reply answers the probe it was sent for; nothing is left running;
* **heap pool**: a ready heap was built from these sources; sessions start on fresh
  heaps only; no referenced image is collected;
* **build verifier**: a success was built under that name; identical requests do not build
  twice; every request is answered;
* **client pools**: what the cache says is loaded is loaded; every session is given back;
* **agents**: a reported success is a proof; the recorded data replays; visits and pruned
  parts of the tree are right; every task closes its session;
* **harnesses**: a solve is a proof of this attempt; one verdict per attempt; a theory reported
  as ok was executed whole.

`PROJECT.json` lists all components, the hazards of the code line by line, and the
source lines of each definition.

## 2. Modules

| Module | Content |
|---|---|
| `LeaseService` | abstract specification: what the pool promises its clients |
| `SessionPool` | the pool, its processes and locks; refines `LeaseService` |
| `ThreadedBackend` | job queue, worker, callers, `close()` |
| `SessionOps` | the operations of one session over the worker's queue, big steps included |
| `ReplDocument` | status chains, PIDE text, probes, checkpoints of one backend |
| `MLChannel` | probes and replies of two backends of one JVM |
| `HeapPool` | registry, manifests, builds, restarts |
| `BuildVerify` | cache, locks and builds of `verify` |
| `LspPool` | bindings and scratch sessions of the LSP-like MCP server |
| `StepwisePool` | the stepwise MCP server |
| `AttemptLoop` | what all comparison harnesses share |
| `AttemptRunner` | the stepwise harness, composed with `StepwisePool` |
| `FileRunner` | the three harnesses whose model edits a file |
| `Comparison` | any one of the harnesses |
| `Benchmark` | the six benchmark scripts |
| `IsabelleGym` | the gym as an agent sees it: open subgoals, errors that stay |
| `ProofAgent` | the agents that prove with one command after another, and the collection of training data |
| `MctsAgent` | the tree search |
| `SharedGym` | competing agents that share one client |
| `Evaluation` | any one of the programs of `Benchmark`, `ProofAgent`, `MctsAgent`, `SharedGym` |
| `MC...` | symmetry sets and values of constants for TLC |
| `ExecutionProofs` | theorems on `ThreadedBackend`, `MLChannel`, `BuildVerify` |
| `...Proofs` | theorems on `SessionPool`, `SessionOps`, `ReplDocument`, `HeapPool`, `LspPool`, `Comparison`, `Evaluation` |

### SessionPool

A process is an HTTP request, the cleanup task, or the lifespan task. `pc[p]` says
where it is between two points at which others may run. A stretch of a handler
without an `await` is one step; a critical section under `_lock` is one step; code in
`asyncio.to_thread` interleaves with everything. `_gateway_lock` is held across steps
(`gwLock`). The cleanup round runs *on* the loop in several steps and blocks it
(`loop = Cleanup`): this is where a deadlock with `_gateway_lock` could arise.

A creation goes `ensure` (take `_gateway_lock`) - `probe` - maybe `purge` and
`start` - `admit` (memory) - `create` (take the lock again) - `creating` - `register`
(on the loop: append, evict the oldest idle session, or withdraw) - `closing`. A
creation timeout (`CreateTimeout`) answers the client and leaves the thread running:
the backend it may still make belongs to nobody (`leaked`). Operations pass `got`
(`get_session` returned), then `op` if they count as active requests and `uncounted`
if they do not (`enter_thy`, `rollback`, fact probes, position queries). `PostSession` and
`PostAcquire` are the two endpoints that begin a creation.

Abstractions: time (any pooled session may be idle long enough), memory readings (any
answer), the theory of a session (a dependency key), `command_history` (empty or not).
`issued` holds what clients know: only tokens that were given out are shown again.
The gateway probe of a dead JVM fails; what the probe of a live one may answer is the
constant `ProbeAnswers`, since a probe that times out also counts as dead.

### ThreadedBackend

One action per step of `submit`, `_run`, `close` and `_call_backend`; the test of
`_shutting_down` and the `put` are separate steps as in the code. A caller submits one
job, named after it. `Patient` callers wait without a timeout (`timeout=None`).

### SessionOps

The operations of one session. A request is a thread that makes one backend call after
another; a call is a job in the worker's queue, which the worker executes in order
(`ThreadedBackend` shows that this is what happens). When a caller times out its job
stays in the queue: `load_document` whose reset was given up, `big_step` whose step or
restoration was. A document is the sequence of requests whose edits it holds; `book` is
what Python keeps, each entry with the backend session (epoch) its answer came from.
Results are success or failure.

### ReplDocument

All calls of a backend are serialised by its worker thread, so an operation is one
step, with all of its inner edits. A text is a model value of length 1; the sets
`Naming`, `Misnaming`, `Beginning`, `Bare`, `Ends` say what it does to the theory header,
which is all the code asks of it. An entry of a chain has the header state after the
text: `none`, `named` (incomplete), `failed` (complete, the imports did not load; tried
again by the next edit), `bare` (complete, without imports: `get_thy_header_edits` raises
after the status was updated and before the text was sent), `done`. Positions of
insertions and removals are computed as in the code, from the chain, and applied to
the PIDE text: if they drifted apart, `InsertText` would hit the wrong place.

An edit outside of the node's text is rejected by PIDE and no later version is ever
finished (`wedged`, then `Hung`). This may follow a rollback or restore out of a `bare` header, whose
text the chain has and the node has not. A restore out of it need not be rejected: its
edits are a diff by characters, and a saved chain with texts of its own may take the unsent
characters over as common ones (`MayFit`). Then every edit is inside, the restore succeeds, and the node
has a text that is neither the old nor the saved one. Which one depends on the characters, so
the model only knows that it is torn (`Torn`, `IsTorn`): from then on the end of the chain lies beyond
the end of the text, an edit there is rejected (`EditRejected`), and a further restore wedges the
session or tears the text again. A reset makes an end of it.
`ProbeLeaves` is the set of documents a probe may leave behind: `with_probe_settle`
inserts again if the first attempt raised, callers discard one insertion, and none if
the second attempt raises too. `known` is Python's `checkpoints`; `heard` says whether
the answer of a save or reset arrived before Python's timeout.

### MLChannel

The other side of the probes: `queue` holds the one reply of a channel, as the version of the
document it was computed on; `flight` holds the probes whose ML code has not
answered. A call clears its queue, sends, polls until its deadline, sends once more,
waits for the document to settle. Sledgehammer is answered by a forked ML thread, which
the settling does not wait for. A probe may be answered late or never, and an
answer that finds the queue full is dropped, as `offer` does.

### HeapPool

One step per stretch between awaits of `build`, for each `Tasks` request that passed the
409 test; `procs` are the isabelle processes, which go on after a timeout or a crash of the
server. `built` is a history variable: what isabelle has built successfully. Users edit the
project directory and its ROOT at any time. A crash loses `_entries` and the tasks; the
restart reads the manifests (`Reload`).

### BuildVerify

`verify` as one request in `pc`: cache, lock of the hash (`key`), cache again, permit, build,
answer. What isabelle builds is not the text but the file `Written` for it: without its `ML_val` lines
and with its symbols normalised, so that two texts may have the same file and a text that
isabelle would refuse as it was submitted may have one that it accepts. `built` is a
history variable of triples (hash, file, name). A build may fail, or time out.

### LspPool

One file, its bindings, the scratch pool. A step ends at an await; a request to
the gym server is one step, except `load_document`, during which the session is
busy there. The server is external: it may evict an idle session (404 from then on),
take back a lease (403), refuse to release a busy session (409). Any request may fail, its
answer may be lost after the server acted (a lease nobody heard of), and a tool call may be cancelled at
any await: a call that loads leaves the load running at the server, a candidate leaves its scratch
session and its place in the count. A load may fail after its reset, or come back with its text
discarded; `pool.py` takes the second for a success. `_safe_release` ignores whatever goes wrong. Two
history variables say where this happened: `spoilt` (sessions whose text is not what a load put
there) and `lost` (leases whose release failed or whose answer never came).

### StepwisePool, AttemptLoop, AttemptRunner, FileRunner, Comparison

`StepwisePool` has a slot for each handler that runs; a client that times out leaves it
running, and a handler may be cancelled. The answer to a lease may be lost after the server
gave it (the client's timeout is the server's). `AttemptLoop` is the part the four scripts repeat:
rounds, nudges, refused DONEs, the arbiter, `results.jsonl`. The end of an attempt is four steps, each of which
may raise an exception: the verdict with its line, what the `finally` block does after it, and
main's own line for an exception. The final files at the start are any that an earlier run
into the same directory can have left (`Leftovers`). A file's content is its author, which theorem it
states (the target, another one, or another statement under the target's name, which the arbiter's test for
`theorem <name>` does not notice) and whether it proves it. `AttemptRunner` adds set-up, gates and teardown
of the stepwise script and waits for handlers of `StepwisePool`; `FileRunner` adds those
of the other three. `Comparison` composes them. The model (LLM) may call any
tool with any result or claim DONE at any time. The two foreign MCP servers are external;
for I/Q it is assumed that requests of a connection are executed in order and that a write
whose answer timed out has been done, or will never be, by the time of the next answer.

### Benchmark, ProofAgent, MctsAgent, SharedGym, Evaluation

`Benchmark`: `script` says which of the six loops runs. A step may be accepted, be accepted
with a message the script ignores, fail, or time out and run later, before the next command on
that session. An answer has the messages of all commands of the theory so far, and the scripts judge
it by its first line: an early warning hides every later error (`Ignored`).

`IsabelleGym` is the gym as the agents see it. A command that Isabelle rejects is not taken back, its
error stays in every later answer, so that a command Isabelle accepts is judged rejected although it
changed the proof. The subgoals remember the attempt that stated the theorem they belong to (`origin`).

`ProofAgent` is the proof loop of `isabelle_agent_interface.py`, one iteration per step, with or
without the wrapper of `training_data_system.py` that records what the agent does; the agent object
is used for one theorem after another and keeps its lists. `MctsAgent` is the search of
`mcts_agent.py`: a tree of contexts with visit counts and the flags that prune it; the values
are random in the code and leave the selection free. `SharedGym` is `run_competition`: threads of an
executor, each with a session of its own, over one client with *one* current session. Every access to
the client is a step: a call reads the current id twice and then looks it up, `close_session`
compares, deselects, removes and deletes the wrapper, which may fail. In all
three the gym is external: any answer that Isabelle could give. `Evaluation` composes the
four: one program runs, the variables of the others stay.

## 3. Runs

| Run | Bounds | Shows |
|---|---|---|
| `pool` | 2 requests, 2 sessions, pool of 1, one pre-warmed, 2 tokens, 2 gateways; 0.37 M states | `PoolBound`, `Custody`, `BusyKept`, `LeaseKept`; every step is a step of `LeaseService` |
| `pool_live` | the same with one gateway and no pre-warmed session | creation requests end |
| `backend` | 3 callers, one of them patient | `JobAccounted`, `CloseMeansExited`; `close()` ends; jobs queued before the signal are resolved |
| `doc` | 1 theory, 5 texts covering each header case, chains of 3, 1 checkpoint; 0.76 M states | `Coherent`, `RestoreExact`, `NothingLost` |
| `ops` | 3 requests (a load or big step against two short operations, or against a load and a restore), 2 theories, one call given up; 1.3 M states | `RequestsCounted`, `BookkeepingCurrent`, `LoadExact`, `BigStepAtomic` |
| `heap` | 2 groups sharing a project, 2 tasks, one permit, one edit, one crash | `RegistryOnDisk`, `ReadyWasBuilt`, `SessionsGated`, `GcKeepsReferenced` |
| `verify` | 3 requests, 2 texts (with and without a header), 2 files, 2 names, one parent, 2 permits | `BuildsExclusive`, `SuccessWasBuilt`, `NoRebuild`; every request is answered |
| `ml` | 2 backends, 2 kinds (facts; sledgehammer), 2 versions, 3 probes | `AnswerFresh`, `NothingUnderWay` |
| `lsp` | 3 calls, 2 sessions, scratch pool of 1, one edit, one eviction | `CacheTrue`, `NoOrphan`, `ScratchExact` |
| `comparison` | each harness with two attempts (stepwise: one), 2 rounds, 3 handlers, 3 sessions; 0.31 M states | `SessionsAccounted`, `FreshStart`, `SolvedSound`, `OneResult` |
| `evaluation` | scripts: 2 files of a header, a command and an end, 2 workers, 2 sessions; agents: 2 goals, 2 tactics, 2 theorems; search: 7 iterations; competition: 3 agents, 2 threads; 0.9 M states | `OkComplete`, `LeasesReturned`, `SuccessSound`, `RecordsExact`, `TreeExact`, `TaskCleansUp` |
| `lsp_hang` | 2 calls, scratch pool of 1, one eviction | *violated*: `ScratchServed` |

Why the bounds are enough. For the safety properties the question does not arise: section 4 proves
them for all bounds, and the runs only have to show that the interesting cases happen and that
the mutants are caught. `pool_live` has one gateway and a probe that always answers, so that a creation
after a restart of the gateway is not covered by its liveness. Two
requests, the cleanup task and the shutdown suffice for the races of the pool: each
hazard involves one process that pops or purges and one that registers, uses or
closes. With two sessions and a pool of one, a registration evicts or withdraws, and two
gateways allow one recovery. Chains of length 3 hold a header in two parts and one probe, or
a header and two probes; one checkpoint identity is reused after a reset. In `ops`, the
races are between one operation with several calls and two others that come in between,
one of which left a job behind. In `heap`, two tasks over one permit make one build
wait while the other's project is deleted or edited; the two groups share a session name,
which is what the collector must respect. In `verify`, three requests let two wait for
the lock or a permit while a third is answered from the cache under another name. In
`ml`, three probes are a call with its retry and the call after it. In `lsp`, three calls
are a load, a second load of the same binding and a rebind. Two attempts are what it takes for
one to find the remains of another; in the stepwise harness each attempt has its own
connection, so that the remains are sessions, which one attempt shows. Two files over two
workers and two sessions let a file take over a session in which a command is still to
run. Seven iterations let the search try every tactic of a goal, prune a part of the tree and go on;
three agents over two threads make one start while another ends.

Deadlock is checked where a stop would be an error: `pool`, `pool_live`, `backend`, `doc`,
`evaluation` (their ends are steps of their own: `Stopped`, `Quiet`, `Hung` and the like). The
others have a finite number of requests, after which nothing is left to do.

The type invariants are parts of the inductive invariants that are proved (section 4); no run
spends time on them.

`lsp_hang`: a call waits in `queue.get()` for the only scratch session, and its holder never puts
it back: its creation fails, it is dropped after a 404, or its call is cancelled. A place in the
count may become free, but nobody tells the waiter. The counterexample that TLC prints is any one of
these; the finding in `PROJECT.json` has the details.

### Fairness

* `SessionPool!FairSpec`: threads run and JVM calls return or fail within the Py4J read
  timeout, so the steps that need no lock are weakly fair. A step that waits for
  `_gateway_lock` or for the loop is strongly fair: the loop serves its ready queue in
  FIFO order, the cleanup task sleeps between rounds, and a lock is released in every
  path (`with`). No fairness for clients, the clock, the JVM's death or shutdown.
  `LiveSpec` in `MCSessionPool` is this specification with a smaller environment.
* `ThreadedBackend!WorkerFairSpec`: callers past the check, the worker and the closer run. Nobody
  is obliged to submit, to close or to time out.
* `BuildVerify!BuildFairSpec`: a request that can go on does (the loop runs ready coroutines, an
  asyncio lock or semaphore wakes a waiter, the timer fires and a killed process
  ends).
* `LspPool!FairSpec`: coroutines that are ready run and requests are answered. A call that waits in
  `queue.get()` is not enabled.

## 4. Proofs

Proved with TLAPS for any number of processes, sessions, theories, texts and attempts and any
bounds, from the named assumptions on the constants only (`PoolAssumption`, `ProcAssumption`,
`CallerAssumption`, `OpsAssumption`, `TextAssumption`, `ChannelAssumption`, `HeapAssumption`,
`NoneAssumption`, `VerifyAssumption`, `LspAssumption`, `LoopAssumption`, `RunnerAssumption`,
`EvaluationAssumption`; TLC evaluates them in the runs). They say that the bounds are numbers, that
the special values (`None`, `NoSession`, `Cleanup`...) are not among the ordinary ones, that there
are finitely many requests at a time, that a stepwise attempt has a connection of its own, and
that a theory has at least a header and an end.

* **SessionPoolProofs**: `PoolInvariant` (`Spec => []IInv`), and from it `TypeCorrect`,
  `PoolNeverOverfull` and `OneKeeper`. `PoolBound` is not inductive by itself: removing a
  session from `_lru` shortens it only if it occurs once (`Distinct`). `Custody` needs
  to know where a process can be and what it carries there (`Carried`): for example,
  that a process with popped sessions is at a point at which it closes them, so that no
  step overwrites `toClose`. The proof has one lemma per action.
  Then the action properties and the refinement, from a larger invariant, `ServiceInv`:
  `ActiveCounted` (the counter of a session is the number of requests in the counted part of
  an operation on it, a cardinality), `TokensOnce` (the token of a creation was drawn for it alone),
  `LoopHeld` (the cleanup task off `idle` has the event loop), `TimedOut` (only a creation
  thread outlives its answer). `NextMoves` reduces every step to one of a few moves of the
  pool: nothing leaves or enters it, or a purge, the shutdown, a DELETE, a sweep, an eviction, an
  admission (with what it evicts), a withdrawal, a reuse or a release.
  `BusySessionsStay`, `LeasedSessionsStay` and `PoolRefinesService` (`Spec => Service!Spec`, under the mapping `Place`, `Owner`,
  `Granted`) are read off these moves.
* **ReplDocumentProofs**: `DocumentInvariant`, `DocumentCoherent`, `CheckpointsExact`, and the
  action property `NothingIsLost`. `Coherent` alone is not inductive: a restore brings back a
  saved chain, so saved chains must describe the text they were saved with
  (`SavedInSync`, with the history variable `snap`). The delicate case is the header
  without imports, whose text is missing from the node, and what a restore out of it leaves. The
  invariant says that a saved chain describes its text unless the node is torn, and that a chain that
  ends in such a header is only ever saved while the node is torn or the current chain
  ends in one too: what is behind its chain stays so until the session is wedged or reset, so
  that no sound node is ever restored to it.
  `AncestorShared` shows that the common ancestor exists (by well-foundedness of `<`) and that
  the chains agree up to it; `RestoredGood` that the diff from there gives the saved text.
* **SessionOpsProofs**: `RequestsAccounted`, `BookCurrent`, `LoadsExactly`, `BigStepsAtomic`. First
  `CountInv`: a request waits for at most one live job in the queue and has at most one reset
  there, the counter is the number of operations in progress, and every request is at a
  call of its own operation. On top of it, for each request, how far it got:
  `LoadOnItsWay` says what the backend holds at every call of a load that nobody interferes
  with; `BigOnItsWay` what the backend *will* hold once the jobs of a big step, given up or
  not, are through: either the documents are what it found and no edit of it is queued, or the
  restoration is queued after the last edit. `BigStepAtomic` speaks of the time after the last job,
  so its invariant has to speak of the queue.
* **HeapPoolProofs**: `OnDisk`, `Built`, and the action properties `Gated` and `GcSafe`. A task that
  builds owns its key's entry until it ends or the entry is deleted (`BuildOwnsKey`), and has
  at most one isabelle process, which only a running task has (`OneProcess`).
* **ComparisonProofs**: `ComparisonInvariant`, and from it `EverySessionHasOneOwner`,
  `AttemptsStartFresh`, `SolvedMeansSolved`, `EveryAttemptOnce`. Three invariants, since the parts share
  little: of the loop (`LoopInv`: a final theory that would be accepted was written by its own
  attempt or by an earlier run, by its own when it is judged without an error; and an attempt
  that reaches the clean-up has its one line, to which main adds at most one), of the files (`FileInv`: from the first round on, what the model edits, *and* what is
  filed after an exception, is the problem or the attempt's own; for I/Q the file on disk
  never changes and the buffer is the problem when the set-up is through), and of the server
  (`PoolInv`: who has each gym session, and that a handler has one exactly at the points where
  it will close or store it, unless the answer to its lease was lost or it was cancelled there). The run states the accounts as a cardinality, the invariant by
  cases; `AccountsCounted` connects them.
* **LspPoolProofs**: `PoolConsistent`, and from it `ScratchCounted`, `NothingOrphaned`, `CachedTextTrue`.
  None of the three is inductive. What the table and the calls refer to has to exist (`Wired`), and
  the sessions of the scratch pool were created (`ScratchInv`). A leased session is the pool's or a
  candidate's (`Pooled`), or nobody heard of its lease (`Missed`), or it is the session of a binding that
  the table has, that a call is about to release, or whose release failed (`Owned`); and two leased
  sessions never show the same lease, so that a release by one call does not end another's session
  (`LeaseInv`). The cache is true not only of the binding in the table but of every binding object that
  still has the lease it was made with (`TextsInv`), since a call may load through one that was replaced
  meanwhile. This needs that the table holds such an object and that a rebind only overwrites
  an object with a later one (`TableOwn`), and that a load in a session that is not spoilt is the only
  one there and runs through the object that holds its lease (`LoadsInv`).
* **EvaluationProofs**: three invariants for the four programs, which share little.
  `OkTheoriesWhole` and `LeasesGivenBack` come from `ScriptInv`: a lease is held by exactly one worker
  (`HoldInv`), a file is in one place only (`FilesApart`), and what a worker has executed is as long as its
  record of steps (`WorkerInv`). The hard part is the reused session with a command that timed out and
  still runs. The invariant speaks of *files*: a file without a failure is `Quiet`, no session whose
  theory is that of the file has a late command. A late command lands in the theory its session is
  in at that moment, so it can only disturb a file that failed; entering the next theory waits for
  it (a command is served after the ones before it), so that the new file starts quiet.
  `SuccessIsProof`, `TreeIsExact` and `RecordsTrue` come from `ProofInv`. It separates an empty list of
  subgoals reached by accepted commands from one that a failing `by` leaves behind, and follows the
  attempt that stated the theorem the subgoals belong to: for the agents it is the current one while
  they search, for the tree search it may be an earlier one, which then was never reported as proved.
  `TreeExact` counts the nodes below a node; instead of an induction over the tree the invariant says
  that the path stored in each node is closed (`PathInv`: what is on it and is not the node is the
  parent of another node on it), so that a new child enlarges exactly the subtrees of its path, and a
  finished node below a pruned one would be below one of its pruned children.
  The records of a search are a chain whose last record leads to the agent's context (`Led`), and the
  sessions, their collected numbers and the totals are tallied against the results (`TallyInv`), also
  when a session is collected twice because its file could not be written.
  `TasksCleanUp` comes from `CompetitionInv`: which tasks have their session open, that the current
  session is open and not about to be removed, so that no task can set or keep a session as the
  current one once its owner has left it, and that a wrapper stays only where its deletion failed or
  nothing was executed.

`ExecutionProofs` has the three small modules on how work is executed, whose definitions therefore carry
names of their own (`WorkerSpec`, `ChannelSpec`, `BuildSpec`):

* **ThreadedBackend**: `QueueInvariant`, `EveryJobAccounted`, `CleanCloseExited`.
  The strengthening says that a job is submitted once (`Fresh`), that the worker holds a
  job exactly while it runs (`Occupied`), and that `Exit` is resolved only after it ran
  (`ExitRan`): after the closer has queued it, nobody drains.
* **MLChannel**: `AnswersAreFresh`, `NothingLeftBehind`. A reply in a queue is of the present version unless
  one of the named exceptions holds (`QueueFresh`), a channel of a forked probe has one
  in flight (`ForkedOnce`), and a second attempt follows a timeout (`RetryTried`).
* **BuildVerify**: `VerifyInvariant`, and from it `SuccessSound`, `BuildsAreExclusive` and the
  action property `NeverRebuilt`. `SuccessWasBuilt` alone is not inductive: an answer from the
  cache is right only because the file written for the cached text was built under the name the text
  itself declares (`CacheTrue`), which in turn holds because only a theory that declares the
  requested name is given to isabelle (`NameChecked`). `NoRebuild` needs that between the
  second look at the cache and the build the hash stays out of the cache
  (`StillUnbuilt`), which the lock of the hash gives (`LocksExclusive`).

Every safety property that a passing run checks, the action properties and the refinement included, is
proved. Only model-checked: the liveness properties (`CreationEnds`, `CloseEnds`,
`EarlyJobResolved`, `AllAnswered`), since fairness and ENABLED are out of the prover's reach. No module
has a RECURSIVE operator, so all of them can be proved about. The inductive invariants were checked
with TLC on the bounds of the runs before they were proved; the runs themselves check the properties
only.

## 5. Not modelled, and the plan

Left out, with the reasons:

* The Isabelle session cache (`scala/session_manager.scala`): off in the server (`ENABLE_CACHE`), and
  its two central functions are marked ISSUE in the source (section 6).
* Parsing and rendering (`thy_parsing`, `json_reports`, `document_utils` beyond the waiting,
  `theory_chunks`, `unicode_normaliser`), schemas, logging, metrics, configuration: text in, text
  out, with no state. The memory monitor reads files; its verdict is a nondeterministic choice.
* `vectorise`, `scalarise` and `vector_step`: no caller in the server.
* The client library beyond the calls of the benchmark scripts: wrappers of HTTP requests.
* Of the local agents (`evaluation/local_gym`): the collaboration and ensemble modes raise
  `NotImplementedError`, and the pool of `session_pool.py` has no caller but a benchmark; exports,
  reports and the visualiser are text and statistics.
* Notebooks, demos, statistics and superseded copies of modelled files.

What remains: the Isabelle session cache, once its two functions are settled in the source, and the
memory monitor's verdict, which the pool takes as any answer. On the proof side nothing is open but
liveness, which would need a prover for fairness.

## 6. Where code and words differ

Seen while modelling. The models follow the code; the properties of the runs are
stated so that they hold of it, and their comments name the exception where there is one.
Only `lsp_hang` has a run of its own.

* **Pool.** The lease is checked on the event loop and the operation starts later in a thread:
  after a release in between, somebody else may hold the session (`session.py:78`: "only the
  holder ... may use it"). A backend made on the old gateway may be registered after
  the purge. `is_alive()` calls a Scala method `alive` that does not exist, so that a running
  gateway reads as dead and its sessions are purged.
* **Worker.** A submission that passed the check and is queued after the drain stays in the queue
  of a stopped worker; a caller without a timeout waits for ever.
* **Document.** A retried probe is inserted twice and discarded once
  (`backend_probes.scala:11-14` says that no trace is left). A restore leaves theories entered after
  the save as they are, its answer is ignored by `restore_checkpoint`, and the router
  says "State restored successfully"; `valid` accepts `id = count`, which names nothing. A restore out
  of a header without imports may be accepted and leave another text than the saved one, since
  `difference_edits` compares with text that was never sent (`thy_status.scala:81-105`); the next edit at
  the end of the chain then wedges the session.
* **Operations.** A `load_document` whose reset timed out leaves the checkpoints of the old
  session. A failed `big_step` on a new theory leaves the theory's text. No endpoint
  calls `big_step`: the server's bigstep request goes to the build verifier.
* **Heaps.** A heap deleted during its build comes back after a restart. The docstring of
  `delete_heap` says the image stays; by default the collector removes it. An edit of a
  user's ROOT does not make a heap stale, nor does the loss of a directory that held only a ROOT.
* **Build verifier.** isabelle builds the text without its `ML_val` lines and normalised
  (`build_verify.py:195-207`), so that a text it would reject as submitted is answered as verified.
* **LSP server.** After a 404 two bindings may share a session, and rebinds of one object by two calls
  may leave it with the cached text of another session. Any failure of a release is swallowed
  (`pool.py:219-224`), so that the session stays leased. The cached hash is stale after a
  `load_document` that fails after its reset, after one whose text was discarded for its timeout
  (`session.py:379`), and after `isabelle_restore` or a rollback. A tool call that is cancelled with a
  candidate running gives back neither the scratch session nor its place, and a load it had begun may
  still run when the session is used next.
* **Stepwise harness.** `close_theory` on an error runs after the connection was left
  (`run_isabellegym.py:624`), so that the session waits for the reaper. An `enter_theory`
  given up by its client may replace the current session later by one without the statement.
* **All harnesses.** A rerun into the same directory judges the old final file for an attempt that an
  exception ended (`run_isabellegym.py:636`), and may count it as solved. The arbiter looks for
  `theorem <name>` and does not compare the statement (`arbiter.py:50`). An exception after the
  attempt's line makes main append a second one, a failure (`run_isabellegym.py:679`).
* **Isabelle harness.** In container mode an exception makes the untouched template on the host the
  final theory.
* **Session cache.** Eviction ignores references; a session of a heap leaks until shutdown; a reset
  hands back the same session; the exit of one backend shuts down the shared manager.
* **Local agents.** `mcts_agent.py:182` stops when a goal's trials exceed `max_trials_per_goal`, so that a
  goal gets one trial more. `run_competition` says that each agent has an "isolated session"
  (`multi_session_agent_framework.py:263`); commands go to the client's one current session, so that
  they may land in another agent's; `get_current_session` reads the id twice and may raise `KeyError`
  for a session closed in between (`isabelle_client.py:253`), `close_session` may deselect what another
  task has just selected, and a wrapper that cannot be deleted stays with a warning. Errors of a theory
  stay in its output, so that after the first one every command is judged rejected although it moves
  the proof. The tree search ignores `theorem_statement` and takes the subgoals it finds
  (`mcts_agent.py:92`): it may report success for the theorem of an earlier call. `ProofAgent` and
  `MctsAgent` describe an agent that is alone.
* **Benchmarks.** `is_warning_message` (`eval_stats.py:75`) takes an error text without the word
  "error" for a warning, and any text whose first line begins with one, whatever errors follow
  (`eval_stats.py:69`). `completed_all_commands` is set after every accepted step, except in
  the script without reuse. A theory that cannot be read aborts the whole benchmark, and a qIsabelle
  session that cannot be closed discards its results. `requests.post` and `isabelle build` are
  called without a timeout.
