------------------------------ MODULE Benchmark ------------------------------
(***************************************************************************)
(* The six benchmark scripts of evaluation/scripts: every theory of a      *)
(* corpus is verified once, command by command or as a whole, and every    *)
(* file gets one result.  Each script has its own copy of the loop; here   *)
(* `script` says which one runs.                                           *)
(*                                                                         *)
(*   reuse      ..._server_client_with_reuse.py: several workers share a   *)
(*              queue of files; sessions are acquired and released         *)
(*   fresh      ..._1_worker_no_reuse.py: sessions are created and closed  *)
(*   local      eval_smallstep_isabellegym.py: a gym for each file         *)
(*   qisabelle  eval_smallstep_qisabelle.py: one session for all files     *)
(*   bigstep    eval_bigstep_server_client_ver.py: whole files             *)
(*   build      eval_bigstep_isabelle_build.py: isabelle build, whole files*)
(*                                                                         *)
(* A theory is its header, its commands and its end, numbered 1..Length.   *)
(* The server's side is what the scripts see of it: the theory a session   *)
(* is in, what was executed there, and a command that timed out and may    *)
(* still run, before anything later on that session (its worker thread     *)
(* takes one job at a time).                                               *)
(***************************************************************************)
EXTENDS Naturals, Sequences, FiniteSets, Functions

CONSTANTS NumFiles, Length, NumWorkers, Sessions, NoSession

VARIABLES script, phase, queue, job, results,   \* of the script
          leased, thy, late, doc, lost          \* of the server

scriptVars == <<script, phase, queue, job, results>>
serverVars == <<leased, thy, late, doc, lost>>
vars == <<script, phase, queue, job, results, leased, thy, late, doc, lost>>

Files    == 1..NumFiles
Scripts  == {"reuse", "fresh", "local", "qisabelle", "bigstep", "build"}

\* The messages of a command: none, a text without the word "error", an error that says
\* so, one that is taken for a warning by its first line, or such a one before an error.
Outcomes  == {"fine", "failed", "error", "warning", "warned"}
Warnings  == {"warning", "warned"}
Erroneous == {"error", "warned"}

\* num_workers = min(args.num_workers, len(files)); the other scripts are sequential.
Crew == IF script = "reuse" THEN 1..(IF NumWorkers < NumFiles THEN NumWorkers ELSE NumFiles)
        ELSE {1}

Resting == [pc |-> "next", file |-> 0, sess |-> NoSession, steps |-> <<>>,
            completed |-> FALSE]

Init ==
  /\ script \in Scripts
  /\ phase = IF script = "qisabelle" THEN "opening" ELSE "running"
  /\ queue = [i \in Files |-> i] /\ results = <<>>
  /\ job = [w \in Crew |-> Resting]
  /\ leased = {} /\ lost = {} /\ doc = [f \in Files |-> <<>>]
  /\ thy = [s \in Sessions |-> 0] /\ late = [s \in Sessions |-> 0]

Move(w, pc) == job' = [job EXCEPT ![w].pc = pc]

-----------------------------------------------------------------------------
(* What the server does.                                                   *)

\* Sessions that are new: nothing was ever entered in them.
Unused == {s \in Sessions \ leased : thy[s] = 0}

Run(f, s, cmd, how) == doc' = [doc EXCEPT ![f] = Append(@, [sess |-> s, cmd |-> cmd, how |-> how])]

\* The command that timed out runs after all, in the theory the session is still in.
LateRuns(s) ==
  /\ late[s] # 0
  /\ \E how \in Outcomes : Run(thy[s], s, late[s], how)
  /\ late' = [late EXCEPT ![s] = 0]
  /\ UNCHANGED <<scriptVars, leased, thy, lost>>

\* (bug: a job does not wait for the one that timed out)
ServesAlways(s) == TRUE

\* The worker thread takes the next job of the session when the last one is over.
Serves(s) == late[s] = 0

-----------------------------------------------------------------------------
(* A file.                                                                 *)

\* qIsabelle: the session is opened before the first file; if it cannot be, the script
\* is over.
OpenShared ==
  /\ phase = "opening"
  /\ \/ \E s \in Sessions : leased' = {s} /\ phase' = "running"
     \/ phase' = "aborted" /\ UNCHANGED leased
  /\ UNCHANGED <<script, queue, job, results, thy, late, doc, lost>>

\* get_nowait, or the next file of the loop.
Take(w) ==
  /\ phase = "running" /\ job[w].pc = "next" /\ queue # <<>>
  /\ queue' = Tail(queue)
  /\ job' = [job EXCEPT ![w] = [Resting EXCEPT
       !.file = Head(queue), !.pc = "open"]]
  /\ UNCHANGED <<script, phase, results, serverVars>>

\* The theory is read and split before the try block (except in the bigstep script): an
\* error there ends the script.  The other workers are cancelled; their
\* finally blocks run.
Unreadable(w) ==
  /\ phase = "running" /\ job[w].pc = "open"
  /\ phase' = "aborting"
  /\ job' = [v \in Crew |-> [job[v] EXCEPT
       !.pc = IF v = w \/ job[v].sess = NoSession THEN "stopped" ELSE "release"]]
  /\ UNCHANGED <<script, queue, results, serverVars>>

\* A start that fails: one step that was not accepted.
NotStarted(w, pc) == job' = [job EXCEPT ![w].pc = pc, ![w].steps = <<FALSE>>]

\* The call that grants a session: it is granted and heard of, refused, or granted while
\* the script hears nothing of it.
Request(w, grantable) ==
  /\ phase = "running" /\ job[w].pc = "open"
  /\ \/ \E s \in grantable :
          /\ leased' = leased \cup {s}
          /\ \/ UNCHANGED lost /\ job' = [job EXCEPT ![w].pc = "enter", ![w].sess = s]
             \/ lost' = lost \cup {s} /\ NotStarted(w, "record")
     \/ NotStarted(w, "record") /\ UNCHANGED <<leased, lost>>
  /\ UNCHANGED <<script, phase, queue, results, late, doc, thy>>

Acquire(w)  == Request(w, Sessions \ leased)   \* acquire_session(reuse_dirty=True)
Create(w)   == Request(w, Unused)              \* create_session
StartGym(w) == Request(w, Unused)              \* IsabelleGym(...), which may raise half-way

\* enter_theory; when it raises the session may be in the theory or not.
Enter(w) ==
  LET j == job[w]  s == j.sess IN
  /\ j.pc = "enter" /\ Serves(s)
  /\ \/ thy' = [thy EXCEPT ![s] = j.file] /\ Move(w, "step")
     \/ /\ \E t \in {thy[s], j.file} : thy' = [thy EXCEPT ![s] = t]
        /\ NotStarted(w, "release")
  /\ UNCHANGED <<script, phase, queue, results, leased, late, lost, doc>>

\* qIsabelle: newTheory in the one session there is; it stands for the header.
NewTheory(w) ==
  LET f == job[w].file IN
  /\ phase = "running" /\ job[w].pc = "open"
  /\ \/ \E s \in leased :
          /\ thy' = [thy EXCEPT ![s] = f] /\ Run(f, s, 1, "fine")
          /\ job' = [job EXCEPT ![w].pc = "step", ![w].sess = s, ![w].steps = <<TRUE>>]
     \/ NotStarted(w, "record") /\ UNCHANGED <<thy, doc>>
  /\ UNCHANGED <<script, phase, queue, results, leased, late, lost>>

\* The answer to a step holds the messages of all commands of the theory so far.  The
\* checker of the server and is_warning_message of the scripts take it for a warning, and
\* the step as accepted, when its first line is one, whatever follows; or when the word
\* "error" is not in it.
Ignored(d) ==
  \/ \A n \in DOMAIN d : d[n].how \notin Erroneous
  \/ \E m \in DOMAIN d : /\ d[m].how \in Warnings
                         /\ \A k \in 1..m-1 : d[k].how = "fine"

\* qIsabelle raises for every error of the command itself.
AcceptedStep(d) == IF script = "qisabelle" THEN d[Len(d)].how \in {"fine", "warning"}
                   ELSE Ignored(d)

\* The step is recorded; the loop goes on while steps are accepted and there are more.
Stepped(w, ok) ==
  LET n == Len(job[w].steps) + 1 IN
  job' = [job EXCEPT ![w].steps = Append(@, ok),
                     ![w].completed = @ \/ (ok /\ (script # "fresh" \/ n = Length)),
                     ![w].pc = IF ok /\ n < Length THEN "step" ELSE "release"]

\* The command runs and is answered (or the answer is lost); or it is refused.
Execute(w) ==
  LET j == job[w] IN
  \/ \E how \in Outcomes :
       /\ Run(thy[j.sess], j.sess, Len(j.steps) + 1, how)
       /\ \E ok \in {AcceptedStep(doc'[thy[j.sess]]), FALSE} : Stepped(w, ok)
  \/ Stepped(w, FALSE) /\ UNCHANGED doc

MayStep(w) ==
  /\ job[w].pc = "step" /\ Serves(job[w].sess)
  /\ UNCHANGED <<script, phase, queue, results, leased, thy, lost>>

\* execute_command of the client: besides, it may time out, at the server or at the
\* client (whose HTTP timeout is longer), and run later.
ClientStep(w) ==
  /\ MayStep(w)
  /\ \/ Execute(w) /\ UNCHANGED late
     \/ /\ Stepped(w, FALSE) /\ UNCHANGED doc
        /\ late' = [late EXCEPT ![job[w].sess] = Len(job[w].steps) + 1]

ReuseStep(w) == ClientStep(w)
FreshStep(w) == ClientStep(w)

\* gym.step has no timeout; the subgoals asked for after it change nothing.
GymStep(w) == MayStep(w) /\ Execute(w) /\ UNCHANGED late

QStep(w) == MayStep(w) /\ Execute(w) /\ UNCHANGED late

Released(w) ==
  /\ job[w].pc = "release"
  /\ job' = [job EXCEPT ![w].pc = IF phase = "aborting" THEN "stopped" ELSE "record",
                        ![w].sess = NoSession]
  /\ UNCHANGED <<script, phase, queue, results, thy, late, doc>>

\* The finally block gives the session back; its errors are swallowed, and then the
\* session may still be leased.
GiveBack(w) ==
  /\ Released(w)
  /\ \/ leased' = leased \ {job[w].sess} /\ UNCHANGED lost
     \/ lost' = lost \cup {job[w].sess} /\ UNCHANGED leased

\* (bug: release_session at the end of the loop, not in the finally block)
ReleaseOnSuccess(w) ==
  /\ Released(w) /\ UNCHANGED lost
  /\ leased' = IF job[w].completed /\ FALSE \notin Range(job[w].steps)
               THEN leased \ {job[w].sess} ELSE leased

ReleaseLease(w) == GiveBack(w)   \* release_session
CloseSession(w) == GiveBack(w)   \* close_session
CloseGym(w)     == GiveBack(w)   \* gym.close

\* qIsabelle keeps its session for the next file.
KeepShared(w) == Released(w) /\ UNCHANGED <<leased, lost>>

\* ok = completed_all_commands and all(s.accepted for s in step_results).
Ok(j) == j.completed /\ FALSE \notin Range(j.steps)

Report(w, ok) ==
  /\ results' = Append(results, [file |-> job[w].file, ok |-> ok])
  /\ job' = [job EXCEPT ![w] = Resting]

Record(w) ==
  /\ phase = "running" /\ job[w].pc = "record" /\ Report(w, Ok(job[w]))
  /\ UNCHANGED <<script, phase, queue, serverVars>>

\* A whole file is built: all of it, or up to the first error.
Built(f, n) == doc' = [doc EXCEPT ![f] =
                 [i \in 1..n |-> [sess |-> NoSession, cmd |-> i, how |-> "fine"]]]

\* post_bigstep: the server builds the file; an error of the call, a theory that cannot
\* be read and an answer that is lost are all results that are not ok.
PostBigstep(w) ==
  /\ phase = "running" /\ job[w].pc = "open"
  /\ \E n \in 0..Length, heard \in BOOLEAN :
       Built(job[w].file, n) /\ Report(w, heard /\ n = Length)
  /\ UNCHANGED <<script, phase, queue, leased, thy, late, lost>>

\* build_one: isabelle build in a directory of its own; ok is its return code.
BuildOne(w) ==
  /\ phase = "running" /\ job[w].pc = "open"
  /\ \E n \in 0..Length : Built(job[w].file, n) /\ Report(w, n = Length)
  /\ UNCHANGED <<script, phase, queue, leased, thy, late, lost>>

Stop(w) ==
  /\ phase = "running" /\ job[w].pc = "next" /\ queue = <<>>
  /\ Move(w, "stopped")
  /\ UNCHANGED <<script, phase, queue, results, serverVars>>

\* All workers are through: the summary is written, unless the script was aborted or
\* qIsabelle's session cannot be closed.
Finish ==
  /\ phase \in {"running", "aborting"} /\ \A w \in Crew : job[w].pc = "stopped"
  /\ \/ /\ phase' = IF phase = "running" THEN "written" ELSE "aborted"
        /\ leased' = IF script = "qisabelle" THEN {} ELSE leased
        /\ UNCHANGED lost
     \/ /\ script = "qisabelle" /\ phase' = "aborted"
        /\ lost' = leased /\ UNCHANGED leased
  /\ UNCHANGED <<script, queue, job, results, thy, late, doc>>

Over == phase \in {"written", "aborted"} /\ UNCHANGED vars

\* What each script does with a file.
Common(w) == Take(w) \/ Stop(w)

Reuse(w)     == \/ Common(w) \/ Unreadable(w) \/ Acquire(w) \/ Enter(w) \/ ReuseStep(w)
                \/ ReleaseLease(w) \/ Record(w)
Fresh(w)     == \/ Common(w) \/ Unreadable(w) \/ Create(w) \/ Enter(w) \/ FreshStep(w)
                \/ CloseSession(w) \/ Record(w)
Local(w)     == \/ Common(w) \/ Unreadable(w) \/ StartGym(w) \/ Enter(w) \/ GymStep(w)
                \/ CloseGym(w) \/ Record(w)
QIsabelle(w) == \/ Common(w) \/ Unreadable(w) \/ NewTheory(w) \/ QStep(w)
                \/ KeepShared(w) \/ Record(w)
Bigstep(w)   == Common(w) \/ PostBigstep(w)
Build(w)     == Common(w) \/ Unreadable(w) \/ BuildOne(w)

Next ==
  \/ OpenShared \/ Finish \/ Over
  \/ \E s \in Sessions : LateRuns(s)
  \/ \E w \in Crew : \/ script = "reuse"     /\ Reuse(w)
                     \/ script = "fresh"     /\ Fresh(w)
                     \/ script = "local"     /\ Local(w)
                     \/ script = "qisabelle" /\ QIsabelle(w)
                     \/ script = "bigstep"   /\ Bigstep(w)
                     \/ script = "build"     /\ Build(w)

Spec == Init /\ [][Next]_vars

-----------------------------------------------------------------------------
(* Properties.                                                             *)

\* A theory reported as ok was executed whole: the header, every command and the end,
\* each once, in their order, in one session.  An error among them is one that a warning
\* hides: the first message of the whole theory was taken for a warning.  It needs the
\* flag and the accepted steps together, and that a command that timed out in a session
\* taken over since does not land in the next theory.
OkComplete ==
  \A i \in 1..Len(results) : results[i].ok =>
    LET d == doc[results[i].file] IN
    /\ Len(d) = Length
    /\ \A n \in 1..Length : d[n].cmd = n /\ d[n].sess = d[1].sess
    /\ \A n \in 1..Length : d[n].how \in Erroneous =>
         /\ script # "qisabelle"
         /\ \E m \in 1..n : d[m].how \in Warnings /\ \A k \in 1..m-1 : d[k].how = "fine"

\* Every leased session is held by exactly one file in progress, or the answer that
\* granted it or the call that gave it back was lost; when a script is over it has given
\* back every other session, on whatever path its files ended.
LeasesReturned ==
  \A s \in leased \ lost :
    IF script = "qisabelle" THEN phase \notin {"written", "aborted"}
    ELSE Cardinality({w \in Crew : job[w].sess = s}) = 1

=============================================================================
