------------------------------- MODULE LspPool -------------------------------
(***************************************************************************)
(* The LSP-like MCP server (mcp_lsp_server/pool.py and app.py): one file,  *)
(* its binding to a leased session of the gym server, the concurrent tool  *)
(* calls of agents, and the warm scratch sessions that candidates run on.  *)
(* All of it is one event loop: a step ends at an await.  A request to the *)
(* server is one step, except load_document, during which the session is   *)
(* busy.  The server (external) answers 404 for a session it closed, 403   *)
(* for a lease that is no longer valid, and 409 when a busy session is to  *)
(* be released or closed.  A request may fail otherwise, its answer may be *)
(* lost after the server acted, and an agent may cancel its tool call at   *)
(* any await.                                                              *)
(***************************************************************************)
EXTENDS Naturals, FiniteSets

CONSTANTS Calls,        \* tool calls; each candidate of multi_attempt is one
          Sessions,     \* sessions of the gym server
          ScratchSize,  \* Config.SCRATCH_POOL_SIZE
          MaxEdits, MaxLeases, MaxEvicts,  \* bounds of the model
          None

ASSUME LspAssumption == /\ ScratchSize \in Nat \ {0} /\ MaxEdits \in Nat
                        /\ MaxLeases \in Nat /\ MaxEvicts \in Nat /\ None \notin Nat \cup Sessions

VARIABLES file,     \* text on disk: the number of times it was edited
          sess,     \* the server's sessions
          leases,   \* leases given out so far
          binds,    \* FileBinding objects, named after the first lease they held
          bound,    \* _bindings[file]
          call,     \* the tool calls
          idle,     \* _scratch[key]: the queue of idle scratch sessions
          count,    \* _scratch_counts[key]
          evicts,
          spoilt,   \* history: sessions whose text is no longer what a load put there
          lost      \* history: leases whose release failed or whose answer never came

vars == <<file, sess, leases, binds, bound, call, idle, count, evicts, spoilt, lost>>
scratch == <<idle, count>>
server == <<sess, leases, evicts>>

Texts == 0..MaxEdits
Leases == 1..MaxLeases
NoBinding == [sid |-> None, lease |-> None, cached |-> None]
NewSession == [state |-> "none", lease |-> None, doc |-> None, late |-> None]
NewCall == [pc |-> "new", tool |-> None, bind |-> None, text |-> None,
            again |-> FALSE, old |-> None, fresh |-> None, on |-> None]

Init == /\ file = 0 /\ leases = 0 /\ evicts = 0
        /\ sess = [s \in Sessions |-> NewSession]
        /\ binds = [l \in Leases |-> NoBinding] /\ bound = None
        /\ call = [c \in Calls |-> NewCall]
        /\ idle = {} /\ count = 0 /\ spoilt = {} /\ lost = {}

To(c, pc) == call' = [call EXCEPT ![c].pc = pc]
Mine(c) == binds[call[c].bind]
\* A load of a binding's text or of a candidate runs on the session.
Loading(s) == \E c \in Calls : call[c].pc \in {"loading", "trying"} /\ call[c].on = s
Gone(b) == sess[b.sid].state \in {"none", "gone"}
Ours(b) == sess[b.sid].state = "leased" /\ sess[b.sid].lease = b.lease

-----------------------------------------------------------------------------
(* The server: acquire, release, close, and eviction of idle sessions.     *)

Leased(s) == [sess[s] EXCEPT !.state = "leased", !.lease = leases + 1]
In(states) == {s \in Sessions : sess[s].state \in states}

\* acquire_session or create_session without an answer for the caller: the request failed, or
\* the server leased a session that nobody will hear of.
Unheard(S) ==
  \/ UNCHANGED <<server, lost>>
  \/ /\ leases < MaxLeases /\ leases' = leases + 1
     /\ \E s \in S : sess' = [sess EXCEPT ![s] = Leased(s)]
     /\ lost' = lost \cup {leases + 1} /\ UNCHANGED evicts

\* _safe_release and _safe_destroy swallow every failure, the 409 of a busy session among them.
\* (bug: the request is never sent)
FreedNot(b, how) == UNCHANGED <<sess, lost>>
Freed(b, how) ==
  \/ /\ Ours(b) /\ ~Loading(b.sid) /\ UNCHANGED lost
     /\ sess' = [sess EXCEPT ![b.sid].state = how, ![b.sid].lease = None]
  \/ /\ lost' = lost \cup IF Ours(b) THEN {b.lease} ELSE {}
     /\ UNCHANGED sess

Evict(s) ==
  /\ evicts < MaxEvicts /\ evicts' = evicts + 1
  /\ s \in In({"free", "leased"}) /\ ~Loading(s)
  /\ sess' = [sess EXCEPT ![s] = [NewSession EXCEPT !.state = "gone"]]
  /\ UNCHANGED <<file, leases, binds, bound, call, scratch, spoilt, lost>>

\* A load that the server went on with after its client gave up comes to its end.
Late(s) ==
  /\ sess[s].late # None
  /\ \E d \in {None, sess[s].late} : sess' = [sess EXCEPT ![s].doc = d, ![s].late = None]
  /\ UNCHANGED <<file, leases, binds, bound, call, scratch, evicts, spoilt, lost>>

-----------------------------------------------------------------------------
(* get_binding and sync.                                                   *)

\* What the tools come to: "query" reads through a synced binding, "retract" asks the
\* session without a sync, "attempt" and "code" run on scratch sessions.
Tools == {"query", "retract", "attempt", "code", "close"}

\* isabelle_restore and isabelle_rollback change the text of the session.
Retracts(c) == call[c].tool = "retract"

Start(c, tool) ==
  /\ call[c].pc = "new"
  /\ call' = [call EXCEPT ![c].tool = tool, ![c].bind = IF tool = "code" THEN None ELSE bound,
                ![c].pc = CASE tool = "code"  -> "scratch"
                            [] tool = "close" -> "close"
                            [] bound = None   -> "open"
                            [] OTHER          -> IF tool = "retract" THEN "query" ELSE "read"]
  /\ UNCHANGED <<file, server, binds, bound, scratch, spoilt, lost>>

\* _create_binding: a session is acquired, and the new binding replaces what
\* is in the table by now.  Afterwards the replaced one is released.
Create(c, s) ==
  /\ call[c].pc \in {"open", "rebind", "relock"}
  /\ leases < MaxLeases /\ s \in In({"none", "free"})
  /\ leases' = leases + 1
  /\ sess' = [sess EXCEPT ![s] = Leased(s)]
  /\ binds' = [binds EXCEPT ![leases + 1] = [sid |-> s, lease |-> leases + 1, cached |-> None]]
  /\ bound' = leases + 1
  /\ call' = [call EXCEPT ![c].old = bound, ![c].fresh = leases + 1,
                          ![c].pc = CASE @ = "open" -> "opened" [] @ = "rebind" -> "rebound"
                                      [] @ = "relock" -> "relocked"]
  /\ UNCHANGED <<file, evicts, scratch, spoilt, lost>>

CreateFails(c) ==
  /\ call[c].pc \in {"open", "rebind", "relock"}
  /\ To(c, "error") /\ Unheard(In({"none", "free"}))
  /\ UNCHANGED <<file, binds, bound, scratch, spoilt>>

\* A rebinding call copies the new session and lease into its own binding object, which the
\* table no longer holds.
ReleaseOld(c) ==
  LET o == call[c].old
      next == CASE call[c].pc = "opened"  -> IF Retracts(c) THEN "query" ELSE "read"
                [] call[c].pc = "rebound" -> "read"
                [] OTHER                  -> "reload"
  IN  /\ call[c].pc \in {"opened", "rebound", "relocked"}
      /\ IF o = None THEN UNCHANGED <<sess, lost>> ELSE Freed(binds[o], "free")
      /\ binds' = IF call[c].pc = "opened" THEN binds
                  ELSE [binds EXCEPT ![call[c].bind] = [binds[call[c].fresh] EXCEPT !.cached = None]]
      /\ call' = [call EXCEPT ![c].old = None, ![c].fresh = None, ![c].pc = next,
                    ![c].bind = IF call[c].pc = "opened" THEN call[c].fresh ELSE @]
      /\ UNCHANGED <<file, leases, evicts, bound, scratch, spoilt>>

\* The file is read before the binding's lock is asked for.
Read(c) ==
  /\ call[c].pc = "read"
  /\ \/ call' = [call EXCEPT ![c].text = file, ![c].pc = "lock"]
     \/ To(c, "error")   \* there is no such file
  /\ UNCHANGED <<file, server, binds, bound, scratch, spoilt, lost>>

\* binding.lock, an attribute of the object.
Unlocked(c) == \A d \in Calls : call[d].pc \in {"load", "loading", "relock", "relocked", "reload"}
                                  => call[d].bind # call[c].bind
Synced(c) == IF call[c].tool = "attempt" THEN "scratch" ELSE "query"

Lock(c) ==
  /\ call[c].pc = "lock" /\ Unlocked(c)
  /\ To(c, IF call[c].text = Mine(c).cached THEN Synced(c) ELSE "load")
  /\ UNCHANGED <<file, server, binds, bound, scratch, spoilt, lost>>

\* load_document: 404 leads to one rebind, another error ends the call.  The text that a load
\* leaves is known when it runs alone and through the object that the lease was given for, not
\* through one that copied it after a 404.
Alone(c) == ~Loading(Mine(c).sid) /\ sess[Mine(c).sid].late = None /\ Mine(c).lease = call[c].bind

LoadBegins(c) ==
  /\ call[c].pc \in {"load", "reload"}
  /\ IF Ours(Mine(c))
     THEN /\ call' = [call EXCEPT ![c].pc = "loading", ![c].on = Mine(c).sid]
          /\ spoilt' = IF Alone(c) THEN spoilt \ {Mine(c).sid} ELSE spoilt \cup {Mine(c).sid}
     ELSE /\ To(c, IF Gone(Mine(c)) /\ call[c].pc = "load" THEN "relock" ELSE "error")
          /\ UNCHANGED spoilt
  /\ UNCHANGED <<file, server, binds, bound, scratch, lost>>

\* The report of a load that timed out is an answer like any other, though its text was
\* discarded.
Loaded(c, cached) ==
  /\ call[c].pc = "loading"
  /\ \E d \in {None, call[c].text} :
       /\ sess' = [sess EXCEPT ![call[c].on].doc = d]
       /\ spoilt' = spoilt \cup IF d = None THEN {call[c].on} ELSE {}
  /\ binds' = [binds EXCEPT ![call[c].bind].cached = cached]
  /\ To(c, Synced(c))
  /\ UNCHANGED <<file, leases, evicts, bound, scratch, lost>>

\* (bug: the file is read again for the cache)
LoadEndsRereads(c) == Loaded(c, file)
LoadEnds(c) == Loaded(c, call[c].text)

\* An error before or after the reset of load_document; or the call is cancelled or times out,
\* and the server goes on.  The cached text stays.
LoadFails(c) ==
  /\ call[c].pc = "loading"
  /\ sess' \in {[sess EXCEPT ![call[c].on].doc = None], sess, [sess EXCEPT ![call[c].on].late = call[c].text]}
  /\ spoilt' = spoilt \cup {call[c].on}
  /\ To(c, "error")
  /\ UNCHANGED <<file, leases, evicts, binds, bound, scratch, lost>>

\* The text of the session is retracted.
Retracted(c) ==
  /\ sess' = [sess EXCEPT ![Mine(c).sid].doc = None]
  /\ spoilt' = spoilt \cup {Mine(c).sid}

\* The tool's own request (pool.call): on 404 one rebind and one more sync.
Query(c) ==
  /\ call[c].pc = "query"
  /\ call' = [call EXCEPT ![c].again = TRUE,
                ![c].pc = IF Ours(Mine(c)) THEN "done"
                          ELSE IF Gone(Mine(c)) /\ ~call[c].again THEN "rebind" ELSE "error"]
  /\ IF Retracts(c) /\ Ours(Mine(c)) THEN Retracted(c) ELSE UNCHANGED <<sess, spoilt>>
  /\ UNCHANGED <<file, leases, evicts, binds, bound, scratch, lost>>

QueryFails(c) ==
  /\ call[c].pc = "query" /\ To(c, "error")
  /\ \/ Retracts(c) /\ Ours(Mine(c)) /\ Retracted(c)
     \/ UNCHANGED <<sess, spoilt>>
  /\ UNCHANGED <<file, leases, evicts, binds, bound, scratch, lost>>

\* close_binding: released warm, or destroyed.
Close(c, how) ==
  /\ call[c].pc = "close" /\ To(c, "done")
  /\ bound' = None
  /\ IF bound = None THEN UNCHANGED <<sess, lost>> ELSE Freed(binds[bound], how)
  /\ UNCHANGED <<file, leases, evicts, binds, scratch, spoilt>>

-----------------------------------------------------------------------------
(* acquire_scratch, one candidate or snippet on it, release or drop.       *)

ScratchTake(c, s) ==
  /\ call[c].pc \in {"scratch", "waiting"} /\ s \in idle
  /\ idle' = idle \ {s}
  /\ call' = [call EXCEPT ![c].pc = "trying", ![c].on = s]
  /\ UNCHANGED <<file, server, binds, bound, count, spoilt, lost>>

ScratchMiss(c) ==
  /\ call[c].pc = "scratch" /\ idle = {}
  /\ IF count < ScratchSize THEN To(c, "creating") /\ count' = count + 1
                            ELSE To(c, "waiting") /\ UNCHANGED count
  /\ UNCHANGED <<file, server, binds, bound, idle, spoilt, lost>>

ScratchCreate(c, s) ==
  /\ call[c].pc = "creating" /\ leases < MaxLeases /\ s \in In({"none"})
  /\ leases' = leases + 1 /\ sess' = [sess EXCEPT ![s] = Leased(s)]
  /\ call' = [call EXCEPT ![c].pc = "trying", ![c].on = s]
  /\ UNCHANGED <<file, evicts, binds, bound, scratch, spoilt, lost>>

\* (bug: a creation that fails keeps its place)
ScratchCreateFailsCounted(c) ==
  /\ call[c].pc = "creating" /\ To(c, "error") /\ Unheard(In({"none"}))
  /\ UNCHANGED <<file, binds, bound, scratch, spoilt>>

ScratchCreateFails(c) ==
  /\ call[c].pc = "creating" /\ To(c, "error") /\ Unheard(In({"none"}))
  /\ count' = count - 1
  /\ UNCHANGED <<file, binds, bound, idle, spoilt>>

\* A report, or any error but a 404: the session goes back.
ScratchDone(c) ==
  /\ call[c].pc = "trying" /\ To(c, "done")
  /\ idle' = idle \cup {call[c].on}
  /\ UNCHANGED <<file, server, binds, bound, count, spoilt, lost>>

\* drop_scratch after a 404.
ScratchDrop(c) ==
  /\ call[c].pc = "trying" /\ sess[call[c].on].state = "gone"
  /\ count' = IF count = 0 THEN 0 ELSE count - 1
  /\ To(c, "error")
  /\ UNCHANGED <<file, server, binds, bound, idle, spoilt, lost>>

-----------------------------------------------------------------------------
\* A tool call is cancelled at an await (a load: LoadFails).  With a candidate running, neither
\* its session nor its place is given back: the handlers catch Exception only.
Cancel(c) ==
  /\ \/ call[c].pc \in {"lock", "waiting"} /\ To(c, "error") /\ UNCHANGED <<sess, lost>>
     \/ call[c].pc = "trying" /\ To(c, "cancelled") /\ UNCHANGED <<sess, lost>>
     \/ /\ call[c].old # None
        /\ call' = [call EXCEPT ![c].pc = "error", ![c].old = None]
        /\ Freed(binds[call[c].old], "free")
  /\ UNCHANGED <<file, leases, evicts, binds, bound, scratch, spoilt>>

Edit == /\ file < MaxEdits /\ file' = file + 1
        /\ UNCHANGED <<server, binds, bound, call, scratch, spoilt, lost>>

Step(c) == \/ CreateFails(c) \/ ReleaseOld(c) \/ Read(c) \/ Lock(c)
           \/ LoadBegins(c) \/ LoadEnds(c) \/ LoadFails(c) \/ Query(c) \/ QueryFails(c)
           \/ \E how \in {"free", "gone"} : Close(c, how)
           \/ ScratchMiss(c) \/ ScratchCreateFails(c) \/ ScratchDone(c) \/ ScratchDrop(c)
           \/ \E s \in Sessions : Create(c, s) \/ ScratchTake(c, s) \/ ScratchCreate(c, s)

Next == \/ \E c \in Calls : \/ Step(c)
                            \/ \E t \in Tools : Start(c, t)
                            \/ Cancel(c)
        \/ \E s \in Sessions : Evict(s) \/ Late(s)
        \/ Edit

Spec == Init /\ [][Next]_vars

\* The event loop runs every ready coroutine and every request is answered.
FairSpec == Spec /\ \A c \in Calls : WF_vars(Step(c))

-----------------------------------------------------------------------------
Trying == {c \in Calls : call[c].pc = "trying"}
Cancelled == {c \in Calls : call[c].pc = "cancelled"}
Creating == {c \in Calls : call[c].pc = "creating"}

\* What the pool believes about the file's session is true: whenever nobody
\* is loading in the session of the binding in the table, the session holds
\* the cached text, so that a later tool call that finds the file unchanged
\* may skip the load.  Not so once a load failed, was given up or came back
\* without its text, overlapped another or went through an object that shares
\* the lease after a 404, or a tool retracted text; the next load that runs
\* alone and through the binding to its end makes it true again.
CacheTrue ==
  bound # None
    => LET b == binds[bound]
       IN  b.cached # None /\ Ours(b) /\ ~Loading(b.sid) /\ b.sid \notin spoilt
             => sess[b.sid].doc = b.cached

\* No session stays leased to nobody: each lease belongs to the binding in
\* the table, to a call that is about to release it, or to the scratch pool
\* or a candidate, unless its release failed (409 for a busy session among
\* others), its answer never came, or its candidate was cancelled.
NoOrphan ==
  \A s \in Sessions : sess[s].state = "leased" =>
    \/ bound # None /\ binds[bound].lease = sess[s].lease
    \/ \E c \in Calls : call[c].old # None /\ binds[call[c].old].lease = sess[s].lease
    \/ s \in idle \/ \E c \in Trying \cup Cancelled : call[c].on = s
    \/ sess[s].lease \in lost

\* Scratch sessions are counted exactly, but for a place that each cancelled
\* candidate keeps for good; they never exceed the cap, and a session is given
\* to one candidate at a time.
ScratchExact ==
  /\ count = Cardinality(idle) + Cardinality(Creating \cup Trying \cup Cancelled)
  /\ count <= ScratchSize
  /\ \A c \in Trying : call[c].on \notin idle /\ \A d \in Trying : call[c].on = call[d].on
                                                                    => c = d

\* "else wait for one to be returned" (acquire_scratch): a candidate that
\* waits for a scratch session gets one.
ScratchServed == \A c \in Calls : call[c].pc = "waiting" ~> call[c].pc # "waiting"
=============================================================================
