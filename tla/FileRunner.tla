------------------------------ MODULE FileRunner ------------------------------
(***************************************************************************)
(* The three harnesses in which the model edits a file (run_isabellegym_   *)
(* lsp.py, run_isabelle_mcp.py with and without a container, and           *)
(* run_autocorrode_iq.py).  The MCP servers behind the last two are not    *)
(* part of this repository.                                                *)
(*                                                                         *)
(* `disk` is the work file.  In a container the model edits a mirrored     *)
(* copy of it, and in I/Q the buffer of a jEdit that lives longer than the *)
(* attempt; `copy` is that copy or buffer.                                 *)
(***************************************************************************)
EXTENDS AttemptLoop

CONSTANT ResetTries    \* reset_iq_buffer gives up after so many writes (3)

VARIABLES disk, copy,
          tries    \* writes of reset_iq_buffer that failed

fileVars == <<disk, copy, tries>>

Lsp      == harness = "lsp"
Isabelle == harness \in {"isabelle", "container"}
Iq       == harness = "iq"

\* jEdit may have a buffer of an earlier run, and the file; what else is there will be
\* overwritten.
FileInit == /\ disk \in (IF Iq THEN {Absent, Template} ELSE {Absent})
            /\ copy \in (IF Iq THEN Leftovers ELSE {Absent})
            /\ tries = 0

\* _agent_host_file: what the model edits and what becomes the final theory.
Edited == IF harness \in {"container", "iq"} THEN copy ELSE disk

Edit(t) == IF harness \in {"container", "iq"} THEN copy' = t /\ UNCHANGED disk
           ELSE disk' = t /\ UNCHANGED copy

Proceed(s) == Goto(s) /\ UNCHANGED results

-----------------------------------------------------------------------------
(* Setup.                                                                  *)

\* (bug: the work file of the last attempt is kept, as for I/Q)
LspSetupKeeps ==
  /\ Lsp /\ pc = "connect"
  /\ disk' = IF disk = Absent THEN Template ELSE disk
  /\ \E s \in {"round", "raise"} : Proceed(s)
  /\ UNCHANGED <<copy, tries>>

\* The work directory is made anew, then the connection and isabelle_open must
\* succeed in time; the warm-up need not.
LspSetup ==
  /\ Lsp /\ pc = "connect"
  /\ disk' = Template
  /\ \E s \in {"round", "raise"} : Proceed(s)
  /\ UNCHANGED <<copy, tries>>

\* The work file, and its mirror in container mode, are overwritten; the first
\* evaluation may time out, an error it reports is not looked at.
IsabelleSetup ==
  /\ Isabelle /\ pc = "connect"
  /\ disk' = Template
  /\ copy' = IF harness = "container" THEN Template ELSE copy
  /\ \E s \in {"round", "raise"} : Proceed(s)
  /\ UNCHANGED tries

\* jEdit would ask about a file that changed on disk, so it is written only once;
\* open_file takes a buffer that is already there.
IqOpen ==
  /\ Iq /\ pc = "connect"
  /\ disk' = IF disk = Absent THEN Template ELSE disk
  /\ \/ Proceed("raise") /\ UNCHANGED copy
     \/ /\ Proceed("reset")
        /\ copy' = IF copy = Absent THEN disk' ELSE copy
  /\ tries' = 0

\* (bug: an error of the write is not noticed)
ResetIqBufferBlind ==
  /\ Iq /\ pc = "reset" /\ copy # Template
  /\ copy' \in {copy, Template} /\ Proceed("sorry_check")
  /\ UNCHANGED <<disk, tries>>

\* reset_iq_buffer, when the buffer is not fresh: a write that fails or times out (it
\* may have been done all the same) is tried again.
ResetIqBuffer ==
  /\ Iq /\ pc = "reset" /\ copy # Template
  /\ \/ copy' = Template /\ Proceed("sorry_check") /\ UNCHANGED tries
     \/ /\ copy' \in {copy, Template} /\ tries' = tries + 1
        /\ Proceed(IF tries' < ResetTries THEN "reset" ELSE "raise")
  /\ UNCHANGED disk

\* read_iq_buffer: fails, or finds the buffer fresh.
ReadIqBuffer ==
  /\ Iq /\ pc = "reset"
  /\ \/ Proceed("raise")
     \/ copy = Template /\ Proceed("sorry_check")
  /\ UNCHANGED fileVars

\* The sorry of the problem must show up in time; what cannot be read is accepted.
SorryCheck ==
  /\ Iq /\ pc = "sorry_check"
  /\ \E s \in {"round", "raise"} : Proceed(s)
  /\ UNCHANGED fileVars

-----------------------------------------------------------------------------
(* Rounds.                                                                 *)

LspRound      == Lsp      /\ Round /\ UNCHANGED fileVars
IsabelleRound == Isabelle /\ Round /\ UNCHANGED fileVars
IqRound       == Iq       /\ Round /\ UNCHANGED fileVars

Accepted == pc' = "source" /\ UNCHANGED budget
Rejected == pc' = "round" /\ SentBack
AtGate   == /\ pc = "gate"
            /\ UNCHANGED <<fileVars, harness, now, todo, files, error, results>>

\* check_done_readiness: the goal is open, or the source says sorry; what cannot be
\* read is left to the arbiter.
LspGate ==
  /\ Lsp /\ AtGate
  /\ \/ Edited.proof # "finished" /\ Rejected
     \/ Accepted

\* The text is read from the file itself.  The evaluation must settle in time without
\* errors; a status call that times out ends the attempt.
IsabelleGate ==
  /\ Isabelle /\ AtGate
  /\ \/ Rejected
     \/ Edited.proof # "sorry" /\ Edited.theorem # "none" /\ Accepted
     \/ Edited.proof # "sorry" /\ Edited.theorem # "none" /\ pc' = "raise" /\ UNCHANGED budget

\* Running or unprocessed commands, errors, sorries, no `end`; what cannot be read is
\* left to the arbiter.
IqGate ==
  /\ Iq /\ AtGate
  /\ \/ Rejected
     \/ Accepted

\* The next tool call of the round is dealt with; after the last one, a new round.
ToolDone == /\ pc = "tools"
            /\ IF todo = 0 THEN pc' = "round" /\ UNCHANGED todo
               ELSE todo' = todo - 1 /\ UNCHANGED pc
            /\ UNCHANGED <<harness, now, budget, files, error, results, tries>>

\* write_file is done by the harness, in the work file only; no other tool changes it.
LspTools ==
  /\ Lsp /\ ToolDone
  /\ \/ UNCHANGED <<disk, copy>>
     \/ todo > 0 /\ \E t \in Text(now) : Edit(t)

\* write_thy is done by the harness, wherever the model wants; if it names no path or
\* content, the attempt ends.
IsabelleTools ==
  /\ Isabelle
  /\ \/ ToolDone /\ UNCHANGED <<disk, copy>>
     \/ ToolDone /\ todo > 0 /\ \E t \in Text(now) : Edit(t)
     \/ pc = "tools" /\ todo > 0 /\ Proceed("raise") /\ UNCHANGED fileVars

\* I/Q writes, with the path forced to the work file; a call that timed out may have
\* been carried out.  authenticate is answered by the harness.
IqTools ==
  /\ Iq /\ ToolDone
  /\ \/ UNCHANGED <<disk, copy>>
     \/ todo > 0 /\ \E t \in Text(now) : Edit(t)

-----------------------------------------------------------------------------
(* The end of an attempt.                                                  *)

Filed(t) == /\ files' = [files EXCEPT ![now] = t] /\ todo' = 0
            /\ UNCHANGED <<fileVars, harness, now, budget, results>>

\* The final theory is written; what is left of the `async with` may raise an exception.
Written(t) == pc' \in {"judge", "raise"} /\ Filed(t) /\ UNCHANGED error

\* Or reading or writing it raises one.
NotWritten == pc' = "raise" /\ UNCHANGED <<fileVars, harness, now, budget, todo, files, error, results>>

LspFinal == Lsp /\ pc = "source" /\ (Written(Edited) \/ NotWritten)

IsabelleFinal == Isabelle /\ pc = "source" /\ (Written(Edited) \/ NotWritten)

\* The buffer is read back; if that fails, the file on disk is taken.
IqFinal == Iq /\ pc = "source" /\ ((\E t \in {Edited, disk} : Written(t)) \/ NotWritten)

\* An exception leaves the final file as it was, maybe one of an earlier run,
Failed(t) == pc' = "judge" /\ Filed(t) /\ error' = TRUE

LspRaised == Lsp /\ pc = "raise" /\ Failed(files[now])

\* or copies the work file over it, if it can: the host's, not the container's,
IsabelleRaised == Isabelle /\ pc = "raise" /\ \E t \in {disk, files[now]} : Failed(t)

\* and for I/Q the file on disk, which never changes.
IqRaised == Iq /\ pc = "raise" /\ \E t \in {disk, files[now]} : Failed(t)

LspRecord      == Lsp      /\ Record /\ UNCHANGED fileVars
IsabelleRecord == Isabelle /\ Record /\ UNCHANGED fileVars
IqRecord       == Iq       /\ Record /\ UNCHANGED fileVars

FileHarness ==
  \/ LspSetup \/ LspRound \/ LspGate \/ LspTools \/ LspFinal \/ LspRaised
  \/ LspRecord
  \/ IsabelleSetup \/ IsabelleRound \/ IsabelleGate \/ IsabelleTools \/ IsabelleFinal
  \/ IsabelleRaised \/ IsabelleRecord
  \/ IqOpen \/ ResetIqBuffer \/ ReadIqBuffer \/ SorryCheck \/ IqRound \/ IqGate \/ IqTools
  \/ IqFinal \/ IqRaised \/ IqRecord

-----------------------------------------------------------------------------
\* When the model is first asked, what it will edit is the problem as posed: nothing
\* of an earlier attempt is left in the work file, its mirror or I/Q's buffer,
\* whatever failed or timed out on the way ("Aborting to avoid a phantom solve").
FreshStart ==
  (harness # "stepwise" /\ pc = "round" /\ budget = Unused) => Edited = Template

\* The inductive invariant of the file harnesses: nothing of an earlier attempt is in
\* what the model edits, nor in what is filed when the attempt fails.
FileInv ==
  /\ disk \in Contents /\ copy \in Contents
  /\ harness # "stepwise" =>
       /\ pc \in {"tools", "gate"} => budget.rounds > 0
       /\ pc = "round" /\ budget.rounds = 0 => Edited = Template
       /\ pc = "sorry_check" => copy = Template
       /\ pc \in {"round", "gate", "tools", "source"} => Own(Edited)
       /\ pc \in {"round", "gate", "tools", "source", "raise"} => Own(disk)
       /\ Iq => disk \in {Absent, Template}
=============================================================================
