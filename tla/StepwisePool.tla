---------------------------- MODULE StepwisePool ----------------------------
(***************************************************************************)
(* The stepwise MCP server (mcp_stepwise_server/pool.py, app.py): tool     *)
(* calls of MCP connections, each handled by a coroutine that awaits the   *)
(* gym server between its steps.  A connection has one current theory, in  *)
(* a leased gym session of its own; verify_batch leases one per item.      *)
(*                                                                         *)
(* A handler goes on when its client has stopped waiting for the answer.   *)
(* Of a gym session's document, `theorem` says what it states under the    *)
(* target's name and `proof` how far it got.                               *)
(***************************************************************************)
EXTENDS Naturals, FiniteSets

CONSTANTS Conns,
          Sessions, None,
          Slots,        \* bound: handlers at a time
          BatchItems,   \* bound: items of one verify_batch
          MaxParallel   \* Config.MAX_PARALLEL

ASSUME PoolAssumption == /\ None \notin Sessions
                         /\ BatchItems \in Nat /\ MaxParallel \in Nat \ {0}

VARIABLES gym,      \* the sessions of the gym server
          current,  \* _current
          call,     \* the handlers
          lost      \* sessions nobody will close: left to the server's lease reaper

poolVars == <<gym, current, call, lost>>

Proofs == {"open", "finished", "sorry"}
Stated == {"none", "posed", "other"}
Closed == [open |-> FALSE, theorem |-> "none", proof |-> "open"]
NewSession == [Closed EXCEPT !.open = TRUE]
NoText == [theorem |-> "none", proof |-> "open"]

\* A handler's slot: what it does for whom, the session it uses, the answer.  A
\* batch counts the items it has not begun; an item knows its batch.
Free == [pc |-> "free", tool |-> "none", conn |-> None, sess |-> None, heard |-> TRUE,
         todo |-> 0, of |-> None, text |-> NoText]

PoolInit == /\ gym = [s \in Sessions |-> Closed]
            /\ current = [c \in Conns |-> None]
            /\ call = [k \in Slots |-> Free]
            /\ lost = {}

-----------------------------------------------------------------------------
\* The client's request reaches the server.
Entry(t) == CASE t \in {"enter", "close"} -> "pop" [] t = "batch" -> "batch" [] OTHER -> "use"

\* Slots are alike, and so are sessions that are not there yet: any one will do.
Vacant(k) == call[k].pc = "free" /\ k = CHOOSE x \in Slots : call[x].pc = "free"
Unmade(s) == ~gym[s].open /\ s = CHOOSE x \in Sessions : ~gym[x].open

Arrive(k, c, t) ==
  /\ Vacant(k)
  /\ call' = [call EXCEPT ![k] = [Free EXCEPT !.tool = t, !.conn = c, !.pc = Entry(t),
                                              !.todo = IF t = "batch" THEN BatchItems ELSE 0]]

\* The handler is through; an answer nobody waits for is dropped.
Ended(h, res, text) ==
  IF h.heard THEN [h EXCEPT !.pc = res, !.sess = None, !.text = text] ELSE Free

\* open_theory and close_for take the old session out of the table first.
Pop(k) ==
  LET old == current[call[k].conn] IN
  /\ call[k].pc = "pop"
  /\ current' = [current EXCEPT ![call[k].conn] = None]
  /\ call' = [call EXCEPT ![k] = IF old # None THEN [@ EXCEPT !.pc = "discard", !.sess = old]
                                 ELSE IF @.tool = "close" THEN Ended(@, "ok", NoText)
                                 ELSE [@ EXCEPT !.pc = "acquire"]]
  /\ UNCHANGED <<gym, lost>>

\* Where a handler goes from a close_session, whatever came of it.
Onward(h) == CASE h.tool = "item"                      -> Free
               [] h.tool = "close"                     -> Ended(h, "ok", NoText)
               [] h.tool = "enter" /\ h.pc = "discard" -> [h EXCEPT !.pc = "acquire", !.sess = None]
               [] OTHER                                -> Ended(h, "error", NoText)

\* close_session, best effort: of the old session, of one whose theory could not be
\* begun, of a batch item's.
Discard(k) ==
  /\ call[k].pc \in {"discard", "undo"}
  /\ \/ gym' = [gym EXCEPT ![call[k].sess] = Closed] /\ UNCHANGED lost
     \/ lost' = lost \cup {call[k].sess} /\ UNCHANGED gym
  /\ call' = [call EXCEPT ![k] = Onward(@)]
  /\ UNCHANGED current

\* The handler is over with an error, the item with its own.
Fails(k) == call' = [call EXCEPT ![k] = IF @.tool = "item" THEN Free ELSE Ended(@, "error", NoText)]

\* acquire_session(reuse_dirty=False): a clean session, or an error; also when the server
\* has leased the session but its answer came too late or was lost.
Acquire(k) ==
  /\ call[k].pc = "acquire"
  /\ \/ \E s \in Sessions : /\ Unmade(s)
                            /\ gym' = [gym EXCEPT ![s] = NewSession]
                            /\ \/ /\ call' = [call EXCEPT ![k].pc = "begin", ![k].sess = s]
                                  /\ UNCHANGED lost
                               \/ Fails(k) /\ lost' = lost \cup {s}
     \/ Fails(k) /\ UNCHANGED <<gym, lost>>
  /\ UNCHANGED current

\* (bug: the session is not closed when its theory cannot be begun)
BeginTheoryLeaks(k) ==
  /\ call[k].pc = "begin"
  /\ \/ call' = [call EXCEPT ![k].pc = IF call[k].tool = "item" THEN "check" ELSE "store"]
     \/ Fails(k)
  /\ UNCHANGED <<gym, current, lost>>

\* _begin_theory: enter_theory with imports; if it fails the session is closed again.
BeginTheory(k) ==
  /\ call[k].pc = "begin"
  /\ \/ call' = [call EXCEPT ![k].pc = IF call[k].tool = "item" THEN "check" ELSE "store"]
     \/ call' = [call EXCEPT ![k].pc = "undo"]
  /\ UNCHANGED <<gym, current, lost>>

\* What it overwrites is not closed.
Store(k) ==
  LET old == current[call[k].conn] IN
  /\ call[k].pc = "store"
  /\ current' = [current EXCEPT ![call[k].conn] = call[k].sess]
  /\ lost' = lost \cup ({old} \ {None})
  /\ call' = [call EXCEPT ![k] = Ended(@, "ok", NoText)]
  /\ UNCHANGED gym

\* What a request can make of the document: the statement is submitted; the agent
\* edits as it likes (chunks, rollback, restore), also the statement.
Outcome(t, g) ==
  CASE t = "seed" -> {[g EXCEPT !.theorem = "posed"]}
    [] t = "edit" -> [open : {TRUE}, theorem : Stated, proof : Proofs]
    [] OTHER      -> {g}

\* The tools that need a current theory (require_current), with the gym's answer: the
\* document as it then is, or an error, maybe for an answer that was lost.
Use(k) ==
  LET s == current[call[k].conn] IN
  /\ call[k].pc = "use"
  /\ \/ /\ s # None
        /\ \E g \in Outcome(call[k].tool, gym[s]) :
             /\ gym' = [gym EXCEPT ![s] = g]
             /\ call' \in {[call EXCEPT ![k] = Ended(@, "ok", [theorem |-> g.theorem, proof |-> g.proof])],
                           [call EXCEPT ![k] = Ended(@, "error", NoText)]}
     \/ call' = [call EXCEPT ![k] = Ended(@, "error", NoText)] /\ UNCHANGED gym
  /\ UNCHANGED <<current, lost>>

\* verify_batch: an item starts when the semaphore lets it, closes its session in
\* any case; the batch answers when all are through.
ItemsOf(k) == {i \in Slots : call[i].pc # "free" /\ call[i].of = k}

BatchItem(k, i) ==
  /\ call[k].pc = "batch" /\ call[k].todo > 0 /\ Vacant(i)
  /\ Cardinality(ItemsOf(k)) < MaxParallel
  /\ call' = [call EXCEPT ![k].todo = @ - 1,
                          ![i] = [Free EXCEPT !.pc = "acquire", !.tool = "item", !.of = k]]
  /\ UNCHANGED <<gym, current, lost>>

ItemChecked(k) ==
  /\ call[k].pc = "check"
  /\ call' = [call EXCEPT ![k].pc = "undo"]
  /\ UNCHANGED <<gym, current, lost>>

BatchEnds(k) ==
  /\ call[k].pc = "batch" /\ call[k].todo = 0 /\ ItemsOf(k) = {}
  /\ call' = [call EXCEPT ![k] = Ended(@, "ok", NoText)]
  /\ UNCHANGED <<gym, current, lost>>

\* The client gives up waiting for handler k.
Unheard(k) == call' = [call EXCEPT ![k].heard = FALSE]

\* A client that gave up may have the handler cancelled, and with it the items of its batch.
\* A session that was out of the table, or not yet in it, is closed or lost.
Cancel(k) ==
  LET gone == {k} \cup ItemsOf(k)
      held == {call[i].sess : i \in gone} \ {None}
  IN
  /\ call[k].pc # "free" /\ ~call[k].heard
  /\ call' = [i \in Slots |-> IF i \in gone THEN Free ELSE call[i]]
  /\ \E closed \in SUBSET held :
       /\ gym' = [s \in Sessions |-> IF s \in closed THEN Closed ELSE gym[s]]
       /\ lost' = lost \cup (held \ closed)
  /\ UNCHANGED current

\* The client takes the answer.
Heard(k) == call' = [call EXCEPT ![k] = Free]

\* The connection is gone, and the server process of a stdio connection with it: its
\* handlers stop where they are and its entry vanishes.
Drop(c) ==
  /\ call' = [k \in Slots |-> Free]
  /\ current' = [current EXCEPT ![c] = None]
  /\ lost' = lost \cup (({current[c]} \cup {call[k].sess : k \in Slots}) \ {None})
  /\ UNCHANGED gym

\* The gym server closes a session whose lease was abandoned.
Reap(s) ==
  /\ s \in lost
  /\ lost' = lost \ {s}
  /\ gym' = [gym EXCEPT ![s] = Closed]
  /\ UNCHANGED <<current, call>>

Handler(k) == \/ Pop(k) \/ Discard(k) \/ Acquire(k) \/ BeginTheory(k) \/ Store(k) \/ Use(k)
              \/ ItemChecked(k) \/ BatchEnds(k) \/ (\E i \in Slots : BatchItem(k, i)) \/ Cancel(k)

-----------------------------------------------------------------------------
\* Every open gym session has exactly one party that will close it (the table, or a
\* handler), unless it is known to be lost: the answer to its lease was, a close failed, its
\* handler was cancelled, its connection went, or a second enter_theory of the connection
\* overwrote it.  No session is lost anywhere else, and none is held twice.
SessionsAccounted ==
  \A s \in Sessions :
    LET owners == {<<"table", c>> : c \in {x \in Conns : current[x] = s}}
                    \cup {<<"handler", k>> : k \in {x \in Slots : call[x].sess = s}}
                    \cup {<<"lost", s>> : x \in lost \cap {s}}
    IN  IF gym[s].open THEN Cardinality(owners) = 1 ELSE owners = {}

\* The inductive invariant of the server: what a handler has where it is, ...
Handlers ==
  [pc : {"free", "pop", "discard", "acquire", "begin", "undo", "store", "use", "batch", "check",
         "ok", "error"},
   tool : {"none", "enter", "look", "seed", "edit", "close", "batch", "item"},
   conn : Conns \cup {None}, sess : Sessions \cup {None}, heard : BOOLEAN, todo : Nat,
   of : Slots \cup {None}, text : [theorem : Stated, proof : Proofs]]

Fit(h) ==
  /\ h.sess # None <=> h.pc \in {"discard", "undo", "begin", "store", "check"}
  /\ h.pc # "free" /\ h.tool # "item" => h.conn \in Conns
  /\ h.pc \in {"pop", "use", "batch", "store"} => h.tool # "item"

\* ... and who has session s.
HeldOnce(s) ==
  /\ gym[s].open <=> \/ s \in lost \/ \E c \in Conns : current[c] = s
                     \/ \E k \in Slots : call[k].sess = s
  /\ s \in lost => (\A c \in Conns : current[c] # s) /\ (\A k \in Slots : call[k].sess # s)
  /\ \A c \in Conns : current[c] = s => /\ \A d \in Conns : current[d] = s => d = c
                                        /\ \A k \in Slots : call[k].sess # s
  /\ \A k, m \in Slots : call[k].sess = s /\ call[m].sess = s => k = m

PoolInv ==
  /\ gym \in [Sessions -> [open : BOOLEAN, theorem : Stated, proof : Proofs]]
  /\ current \in [Conns -> Sessions \cup {None}]
  /\ call \in [Slots -> Handlers] /\ lost \subseteq Sessions
  /\ \A k \in Slots : Fit(call[k])
  /\ \A s \in Sessions : HeldOnce(s)
=============================================================================
