---------------------------- MODULE ReplDocument ----------------------------
(***************************************************************************)
(* The document of one backend: the theory status chains of the Scala side *)
(* (thy_status.scala, thy_info.scala, repl_session.scala), the text of the *)
(* PIDE nodes they describe, the operations of Backend_Chunk_Ops,          *)
(* Backend_File_Ops, Backend_Probes and Backend_Lifecycle that edit both,  *)
(* and the checkpoint ids the Python session remembers (session.py).       *)
(*                                                                         *)
(* Operations reach the backend through one worker thread, so each is one  *)
(* step here.  A text is a model value and counts as one position; what    *)
(* matters of it is what it does to the theory header.  A status chain is  *)
(* the sequence of its entries: Thy_Status compares by value, parent       *)
(* included, so equal statuses are equal sequences.                        *)
(***************************************************************************)
EXTENDS Naturals, Sequences

CONSTANTS Theories, NoThy,
          Texts,      \* what clients send
          Naming,     \* holds `theory` and the entered name
          Misnaming,  \* holds `theory` and another name
          Beginning,  \* holds `begin` (and the imports)
          Bare,       \* of those, the ones without imports
          Ends,       \* the last command is `end`
          Probe,      \* an ML_val probe
          Torn,       \* what is left of a text that was edited at wrong offsets
          MaxEdits,   \* bound: length of a chain
          MaxStates   \* bound: checkpoints saved in one Scala session

AllTexts == Texts \cup {Probe, Torn}
Ids      == 0..MaxStates
Headers  == {"none", "named", "failed", "bare", "done"}
Entries  == [text : Texts \cup {Probe}, header : Headers]
Replies  == [op : {"none", "enter", "step", "rollback", "verify", "report", "probe",
                   "save", "restore", "reset"},
             res : {"ok", "raised", "rejected", "kept", "discarded", "timed out", "false"},
             id : Ids]

ASSUME TextAssumption ==
  /\ MaxEdits \in Nat /\ MaxStates \in Nat
  /\ NoThy \notin Theories /\ {Probe, Torn} \cap Texts = {} /\ Torn # Probe
  /\ Naming \subseteq Texts /\ Misnaming \subseteq Texts
  /\ Bare \subseteq Beginning /\ Beginning \subseteq Texts /\ Ends \subseteq Texts

VARIABLES
  node,     \* node[t]: the status chain and the text of the PIDE node
  thys,     \* session_thys
  entered,  \* current_thy_info
  saved,    \* saved_states of each theory: a map from ids to chains
  count,    \* StateIDManager.count
  known,    \* Python's `checkpoints`
  wedged,   \* PIDE was sent an edit outside the node: it stops answering
  reply,    \* the last operation and what came of it
  snap      \* history: the text of every node when an id was last generated,
            \* as long as either side remembers the id

vars == <<node, thys, entered, saved, count, known, wedged, reply, snap>>

Empty == [chain |-> <<>>, doc |-> <<>>]

Init == /\ node = [t \in Theories |-> Empty]
        /\ thys = {} /\ entered = NoThy
        /\ saved = [t \in Theories |-> <<>>]
        /\ count = 0 /\ known = {}
        /\ wedged = FALSE
        /\ reply = [op |-> "none", res |-> "ok", id |-> 0]
        /\ snap = [i \in Ids |-> [t \in Theories |-> <<>>]]

Answer(op, res) == reply' = [op |-> op, res |-> res, id |-> 0]

-----------------------------------------------------------------------------
(* Edits of a PIDE node at a position, and the chain that records them.    *)

InsertText(d, at, x) ==
  [k \in 1..(Len(d) + 1) |-> IF k <= at THEN d[k] ELSE IF k = at + 1 THEN x ELSE d[k - 1]]

RemoveText(d, at) == [k \in 1..(Len(d) - 1) |-> IF k < at THEN d[k] ELSE d[k + 1]]

Header(c) == IF c = <<>> THEN "none" ELSE c[Len(c)].header

Begun(n) == Header(n.chain) = "done"

\* A restore left the node with another text than its chain tells: one that is
\* shorter by the texts the chain had recorded and never sent.  Where is unknown.
IsTorn(n) == n.doc = <<Torn>>

\* The end of the chain lies beyond the end of the text.
Behind(n) == IsTorn(n) \/ Header(n.chain) = "bare"

\* node_ends_with_end
Ended(n) == n.doc # <<>> /\ n.doc[Len(n.doc)] \in Ends

\* update_given_text_edit and get_thy_header_edits: what the header can be after
\* text x; nothing if the edit is rejected.  The imports of a complete header may
\* fail to load, and are tried again by the next edit.
NextHeaders(h, x) ==
  CASE h \in {"done", "bare"}             -> {h}
    [] h = "failed"                       -> {"failed", "done"}
    [] h = "none" /\ x \in Misnaming      -> {}
    [] h = "none" /\ x \notin Naming \cup Misnaming -> {"none"}
    [] OTHER -> IF x \notin Beginning THEN {"named"}
                ELSE IF x \in Bare THEN {"bare"}
                ELSE {"failed", "done"}

\* send_edit: the status is updated first; a header without imports raises before
\* the text is sent to PIDE.
Sent(n, x, h) ==
  [chain |-> Append(n.chain, [text |-> x, header |-> h]),
   doc   |-> IF h = "bare" THEN n.doc ELSE InsertText(n.doc, Len(n.chain), x)]

\* discard_last_edit, rollback_last_text_edit: remove the last text where it was
\* inserted.
Discarded(n) ==
  IF n.chain = <<>> THEN n
  ELSE [chain |-> SubSeq(n.chain, 1, Len(n.chain) - 1), doc |-> RemoveText(n.doc, Len(n.chain))]

\* nearest_common_ancestor: how many entries two chains share.
Parts(a, b, i) == i = Len(a) \/ i = Len(b) \/ a[i + 1] # b[i + 1]
Ancestor(a, b) == CHOOSE i \in 0..Len(a) : Parts(a, b, i) /\ \A k \in 0..(i - 1) : ~Parts(a, b, k)

\* Mutant: the texts after the ancestor are replaced one position late.
RestoredLate(n, c) ==
  LET i == Ancestor(n.chain, c)
  IN  [chain |-> c,
       doc   |-> [k \in 1..Len(c) |-> IF k <= i + 1 /\ k <= Len(n.doc) THEN n.doc[k] ELSE c[k].text]]

\* restore_state of one theory: difference_edits keeps the text of the ancestor
\* and replaces what the current chain inserted by what the saved one did.
Restored(n, c) ==
  LET i == Ancestor(n.chain, c)
      rest == Len(n.doc) - Len(n.chain)
  IN  [chain |-> c,
       doc   |-> [k \in 1..(Len(c) + rest) |->
                    IF k <= i THEN n.doc[k]
                    ELSE IF k <= Len(c) THEN c[k].text
                    ELSE n.doc[k - Len(c) + Len(n.chain)]]]

\* From a chain with unsent texts the edits are computed against characters that are
\* not in the node.  PIDE rejects an edit outside the node, and no later version of
\* the document is finished.  A saved chain with texts of its own may take all the
\* unsent characters over as common ones: then every edit is inside.
MayFit(n, c) == Ancestor(n.chain, c) < Len(c)

-----------------------------------------------------------------------------
(* Probes.  The result is the probe texts left behind.                     *)

WithProbes(n, k) ==
  [chain |-> n.chain \o [i \in 1..k |-> [text |-> Probe, header |-> "done"]],
   doc   |-> n.doc \o [i \in 1..k |-> Probe]]

\* with_probe_settle inserts the probe again when the first attempt raised; the
\* caller discards one insertion, and none if the second attempt raises too.
\* Nothing is inserted into a theory that is not begun, and a theory that has
\* ended, as a torn one may have, is restored whatever happens
\* (with_probe_before_end).
ProbeLeaves(n) == IF ~Begun(n) \/ Ended(n) \/ IsTorn(n) THEN {n}
                  ELSE {Discarded(WithProbes(n, 1)), Discarded(WithProbes(n, 2)), WithProbes(n, 2)}

\* in_proof, then open_subgoals if a proof is open; the second is not reached
\* when the first raises.
ProofOpenLeaves(n) ==
  ProbeLeaves(n) \cup UNION {ProbeLeaves(m) : m \in {n, WithProbes(n, 1)} \cap ProbeLeaves(n)}

-----------------------------------------------------------------------------
(* Operations.                                                             *)

Active == ~wedged /\ entered # NoThy
Here   == node[entered]
Change(n) == node' = [node EXCEPT ![entered] = n]
Room   == Len(Here.chain) < MaxEdits
Fits(n) == Len(n.chain) <= MaxEdits

\* enter_thy
EnterThy(t) ==
  /\ ~wedged
  /\ entered' = t
  /\ thys' = thys \cup {t}
  /\ Answer("enter", "ok")
  /\ UNCHANGED <<node, saved, count, known, wedged, snap>>

\* step
Step(x) ==
  /\ Active /\ Room
  /\ \E h \in NextHeaders(Header(Here.chain), x) :
       /\ IsTorn(Here) => h = "bare"
       /\ Change(Sent(Here, x, h))
       /\ Answer("step", IF h = "bare" THEN "raised" ELSE "ok")
  /\ UNCHANGED <<thys, entered, saved, count, known, wedged, snap>>

StepRejected(x) ==
  /\ Active /\ NextHeaders(Header(Here.chain), x) = {}
  /\ Answer("step", "rejected")
  /\ UNCHANGED <<node, thys, entered, saved, count, known, wedged, snap>>

\* Mutant: the status is rolled back and the text stays in the node.
RollbackStatusOnly ==
  /\ Active /\ Here.chain # <<>> /\ ~Behind(Here)
  /\ Change([chain |-> Discarded(Here).chain, doc |-> Here.doc])
  /\ Answer("rollback", "ok")
  /\ UNCHANGED <<thys, entered, saved, count, known, wedged, snap>>

\* rollback; with nothing to roll back it only answers so
Rollback ==
  /\ Active /\ Here.chain # <<>> /\ ~Behind(Here)
  /\ Change(Discarded(Here))
  /\ Answer("rollback", "ok")
  /\ UNCHANGED <<thys, entered, saved, count, known, wedged, snap>>

\* Mutant: verify_chunk does not ask whether the theory is begun.
VerifyUnbegun(x) ==
  /\ Active /\ Room /\ ~Behind(Here)
  /\ \/ /\ \E n \in {Sent(Here, x, h) : h \in NextHeaders(Header(Here.chain), x) \ {"bare"}} :
             \E m \in ProofOpenLeaves(n) : Fits(m) /\ Change(m)
        /\ Answer("verify", "kept")
     \/ /\ \/ NextHeaders(Header(Here.chain), x) = {} /\ Change(Discarded(Here))
           \/ \E h \in NextHeaders(Header(Here.chain), x) : Change(Discarded(Sent(Here, x, h)))
        /\ Answer("verify", "discarded")
  /\ UNCHANGED <<thys, entered, saved, count, known, wedged, snap>>

\* verify_chunk: a chunk that fails or runs out of time is discarded; one that
\* verifies is kept and the proof state is probed.
VerifyChunk(x) ==
  /\ Active /\ Begun(Here) /\ ~IsTorn(Here) /\ Room
  /\ LET n == Sent(Here, x, "done")
     IN  \/ /\ \E m \in ProofOpenLeaves(n) : Fits(m) /\ Change(m)
            /\ Answer("verify", "kept")
         \/ /\ Change(Discarded(n))
            /\ Answer("verify", "discarded")
  /\ UNCHANGED <<thys, entered, saved, count, known, wedged, snap>>

\* step_chunk_report of load_document: kept unless the budget runs out.  Then the
\* last edit is discarded, whichever that is.
StepChunkReport(x) ==
  /\ Active /\ Room
  /\ LET hs == NextHeaders(Header(Here.chain), x)
         now == IF hs = {} THEN {Here} ELSE {Sent(Here, x, h) : h \in hs}
     IN  \/ /\ hs = {"bare"}
            /\ Change(Sent(Here, x, "bare"))
            /\ Answer("report", "raised")
         \/ /\ hs # {"bare"} /\ ~IsTorn(Here)
            /\ \E n \in now :
                 \/ /\ \E m \in ProofOpenLeaves(n) : Fits(m) /\ Change(m)
                    /\ Answer("report", "kept")
                 \/ /\ Change(Discarded(n))
                    /\ Answer("report", "timed out")
  /\ UNCHANGED <<thys, entered, saved, count, known, wedged, snap>>

\* open_subgoals, in_proof, local_facts, global_facts, sledgehammer,
\* get_proof_state, probe_transient
ProbeState ==
  /\ Active
  /\ \E m \in ProbeLeaves(Here) : Fits(m) /\ Change(m)
  /\ Answer("probe", "ok")
  /\ UNCHANGED <<thys, entered, saved, count, known, wedged, snap>>

\* An operation edits the node where its chain ends, beyond the end of the text: the
\* worker waits for the answer from then on.
EditRejected(op) ==
  /\ Active
  /\ \/ op = "rollback" /\ Behind(Here) /\ Here.chain # <<>>
     \/ op \in {"verify", "probe"} /\ IsTorn(Here) /\ Begun(Here)
     \/ op \in {"step", "report"} /\ IsTorn(Here) /\ Header(Here.chain) # "bare"
  /\ wedged' = TRUE
  /\ Answer(op, "timed out")
  /\ UNCHANGED <<node, thys, entered, saved, count, known, snap>>

\* save_current_state
Saved(f, i, c) == [k \in DOMAIN f \cup {i} |-> IF k = i THEN c ELSE f[k]]

\* save_state of every theory of the session, under the next id.  Python records
\* the id if the answer arrives in time.
SaveState(heard) ==
  /\ ~wedged /\ count < MaxStates
  /\ count' = count + 1
  /\ saved' = [t \in Theories |-> IF t \in thys THEN Saved(saved[t], count, node[t].chain)
                                                ELSE saved[t]]
  /\ known' = IF heard THEN known \cup {count} ELSE known
  /\ snap' = [snap EXCEPT ![count] = [t \in Theories |-> node[t].doc]]
  /\ reply' = [op |-> "save", res |-> "ok", id |-> count]
  /\ UNCHANGED <<node, thys, entered, wedged>>

\* StateIDManager.valid
Valid(i) == i <= count

\* restore_checkpoint: the answer of Scala is not looked at.  A theory whose text is
\* behind its chain is torn if the edits fit and wedges the session if not.
RestoreCheckpoint(i) ==
  /\ ~wedged /\ i \in known
  /\ LET back == IF Valid(i) THEN {t \in thys : i \in DOMAIN saved[t] /\ node[t].chain # saved[t][i]}
                 ELSE {}
         behind == {t \in back : Behind(node[t])}
     IN  \E fit \in SUBSET {t \in behind : MayFit(node[t], saved[t][i])} :
           /\ node' = [t \in Theories |->
                         IF t \in fit THEN [chain |-> saved[t][i], doc |-> <<Torn>>]
                         ELSE IF t \in back \ behind THEN Restored(node[t], saved[t][i])
                         ELSE node[t]]
           /\ wedged' = (behind # fit)
  /\ reply' = [op |-> "restore", res |-> IF Valid(i) THEN "ok" ELSE "false", id |-> i]
  /\ UNCHANGED <<thys, entered, saved, count, known, snap>>

\* load_document begins with reset(): a new Repl_Session.  Python clears its
\* bookkeeping if the answer arrives in time.
Reset(heard) ==
  /\ ~wedged
  /\ node' = [t \in Theories |-> Empty]
  /\ thys' = {} /\ entered' = NoThy
  /\ saved' = [t \in Theories |-> <<>>]
  /\ count' = 0
  /\ known' = IF heard THEN {} ELSE known
  /\ snap' = [i \in Ids |-> IF i \in known' THEN snap[i] ELSE [t \in Theories |-> <<>>]]
  /\ Answer("reset", "ok")
  /\ UNCHANGED wedged

\* The worker thread waits for a stable snapshot that never comes.
Hung == wedged /\ UNCHANGED vars

Next == \/ \E t \in Theories : EnterThy(t)
        \/ \E x \in Texts : Step(x) \/ StepRejected(x) \/ VerifyChunk(x) \/ StepChunkReport(x)
        \/ Rollback \/ ProbeState
        \/ \E heard \in BOOLEAN : SaveState(heard) \/ Reset(heard)
        \/ \E op \in {"step", "rollback", "verify", "report", "probe"} : EditRejected(op)
        \/ \E i \in Ids : RestoreCheckpoint(i)
        \/ Hung

Spec == Init /\ [][Next]_vars

-----------------------------------------------------------------------------
(* Properties.                                                             *)

\* Every variable has the type of the field it stands for.
TypeOK ==
  /\ node \in [Theories -> [chain : Seq(Entries), doc : Seq(AllTexts)]]
  /\ thys \subseteq Theories /\ entered \in thys \cup {NoThy}
  /\ DOMAIN saved = Theories
  /\ \A t \in Theories : /\ DOMAIN saved[t] \subseteq Ids
                          /\ saved[t] \in [DOMAIN saved[t] -> Seq(Entries)]
  /\ count \in Ids /\ known \subseteq Ids
  /\ wedged \in BOOLEAN
  /\ reply \in Replies
  /\ snap \in [Ids -> [Theories -> Seq(AllTexts)]]

\* Document d is the text of chain c, up to the entries whose header raised
\* before the text was sent.
InSync(c, d) ==
  /\ \A i \in 1..Len(c) : i <= Len(d) <=> c[i].header # "bare"
  /\ Len(d) <= Len(c)
  /\ \A i \in 1..Len(d) : d[i] = c[i].text

\* The bookkeeping of Thy_Info and the PIDE node never drift apart, whatever
\* sequence of steps, failed chunks, abandoned probes, rollbacks, restores to other
\* branches and resets is run: every insertion and removal is at the right offset.
\* The one exception is a theory restored out of a header without imports, whose
\* edits difference_edits computes against text that was never sent.
Coherent == ~wedged => \A t \in Theories : IsTorn(node[t]) \/ InSync(node[t].chain, node[t].doc)

\* A checkpoint that Scala accepts brings back the text that every theory entered
\* at the time had when it was saved, also after branching off and probing, unless
\* the theory was restored, now or before, out of a header without imports:
\* restore_state then answers true and another text is in the node.
RestoreExact ==
  (reply.op = "restore" /\ reply.res = "ok" /\ reply.id < count /\ ~wedged)
    => \A t \in thys : reply.id \in DOMAIN saved[t]
                        => IsTorn(node[t]) \/ node[t].doc = snap[reply.id][t]

\* What the proofs of Coherent and RestoreExact need: a saved chain describes the
\* text it was saved with; a torn text is only saved while the node's text is torn,
\* and a chain that ends in a header without imports while it is torn or the current
\* chain ends in one too (nothing leads out of either but a wedged session or a
\* reset).
SavedInSync ==
  ~wedged =>
    \A t \in Theories : \A i \in DOMAIN saved[t] :
        /\ i < count /\ t \in thys
        /\ IsTorn(node[t]) \/ InSync(saved[t][i], snap[i][t])
        /\ Header(saved[t][i]) = "bare" => Behind(node[t])

IInv == TypeOK /\ Coherent /\ SavedInSync /\ RestoreExact

\* Sending a command, verifying a chunk or probing never removes text that was
\* there before: a discard takes back only what the operation inserted itself.
NothingLost ==
  [][reply'.op \in {"step", "verify", "probe"} =>
       \A t \in Theories : /\ Len(node[t].chain) <= Len(node'[t].chain)
                           /\ Len(node[t].doc) <= Len(node'[t].doc)
                           /\ \A i \in 1..Len(node[t].chain) : node'[t].chain[i] = node[t].chain[i]
                           /\ \A i \in 1..Len(node[t].doc) : node'[t].doc[i] = node[t].doc[i]]_vars

=============================================================================
