--------------------------- MODULE EvaluationProofs ---------------------------
(***************************************************************************)
(* The programs of evaluation/ for any theories, workers, sessions, goals, *)
(* bounds and agents.  There is one inductive invariant for each state the *)
(* programs do not share:                                                  *)
(*   ScriptInv       a benchmark script: a leased session belongs to one   *)
(*                   job, no two jobs or verdicts are about one file, and  *)
(*                   no command is late in a session whose theory is that  *)
(*                   of a file that has had no failure;                    *)
(*   CompetitionInv  the sessions of the tasks and the current session;    *)
(*   ProofInv        the gym, the agents and the tree search: an empty     *)
(*                   list of subgoals that is current was reached by       *)
(*                   accepted commands (Proved), the records of a search   *)
(*                   are a chain that leads to its context, and the paths  *)
(*                   of the tree's nodes are closed under the parent.      *)
(* Each has one lemma per action and one for what the other programs do.   *)
(***************************************************************************)
EXTENDS Evaluation, SequenceTheorems, FiniteSetTheorems, TLAPS

-----------------------------------------------------------------------------
(* The benchmark scripts.                                                  *)

\* The workers of the script that runs, and those whose file has had no failure.
Workers == Script!Crew
Clean(w) == \A i \in 1..Len(job[w].steps) : job[w].steps[i]

\* Where a worker may be, and where it has a session.
Places == {"next", "open", "enter", "step", "release", "record", "stopped"}
Holding == {"enter", "step", "release"}

\* The records of the state.
Jobs == [pc : Places, file : 0..NumFiles, sess : Sessions \cup {NoSession},
         steps : Seq(BOOLEAN), completed : BOOLEAN]
Entries == [sess : Sessions \cup {NoSession}, cmd : Nat, how : Script!Outcomes]
Verdicts == [file : Script!Files, ok : BOOLEAN]

\* Every variable of a script has its type.
ScriptType ==
  /\ script \in Script!Scripts
  /\ phase \in {"opening", "running", "aborting", "aborted", "written"}
  /\ queue \in Seq(Script!Files) /\ job \in [Workers -> Jobs]
  /\ verdicts \in Seq(Verdicts)
  /\ leased \subseteq Sessions /\ lost \subseteq Sessions
  /\ thy \in [Sessions -> 0..NumFiles] /\ late \in [Sessions -> Nat]
  /\ doc \in [Script!Files -> Seq(Entries)]

\* A worker has a session while it needs one, a leased one that no other worker has.  A leased
\* session belongs to a worker unless the server's answer was lost; the script that shares its
\* sessions opens them before it runs and has none when it is over.
HoldInv ==
  /\ \A w \in Workers : (job[w].pc \in Holding) = (job[w].sess # NoSession)
  /\ \A w \in Workers : job[w].sess \in leased \cup {NoSession}
  /\ \A v, w \in Workers : job[v].sess = job[w].sess /\ job[w].sess # NoSession => v = w
  /\ script # "qisabelle" => /\ phase # "opening"
                             /\ \A s \in leased \ lost : \E w \in Workers : job[w].sess = s
  /\ script = "qisabelle" => /\ phase = "opening" => leased = {}
                             /\ phase \in {"written", "aborted"} => leased \subseteq lost

\* Files nothing was executed of; files no command may still be executed of, after its client
\* gave up; files whose commands were executed in order, in one session, without an error
\* that no warning at the head of the theory hides.
Untouched == {f \in Script!Files : doc[f] = <<>> /\ \A s \in Sessions : thy[s] # f}
Quiet == {f \in Script!Files : \A s \in Sessions : thy[s] = f => late[s] = 0}
Orderly == {f \in Script!Files : \A k \in 1..Len(doc[f]) :
              /\ doc[f][k].cmd = k /\ doc[f][k].sess = doc[f][1].sess
              /\ doc[f][k].how \in Script!Erroneous =>
                   /\ script # "qisabelle"
                   /\ \E m \in 1..k : /\ doc[f][m].how \in Script!Warnings
                                     /\ \A i \in 1..m-1 : doc[f][i].how = "fine"}

\* A file is in the queue, with one worker, or has its verdict, and is in one place only.
FilesApart ==
  /\ \A i, k \in 1..Len(queue) : queue[i] = queue[k] => i = k
  /\ \A i \in 1..Len(queue) : /\ \A w \in Workers : job[w].file # queue[i]
                              /\ \A k \in 1..Len(verdicts) : verdicts[k].file # queue[i]
  /\ \A w \in Workers : \A k \in 1..Len(verdicts) : verdicts[k].file # job[w].file
  /\ \A v, w \in Workers : job[v].file = job[w].file /\ job[w].file # 0 => v = w
  /\ \A w \in Workers : /\ job[w].pc = "next" => job[w].file = 0
                        /\ job[w].pc \notin {"next", "stopped"} => job[w].file # 0

\* What a worker has executed of its file: nothing before it has a session, then as many
\* commands as it has taken steps, and all of them when it is done without a failure.
WorkerInv(w) ==
  /\ job[w].pc \in {"open", "enter"} => job[w].file \in Untouched /\ job[w].steps = <<>>
  /\ job[w].pc = "step" =>
       /\ thy[job[w].sess] = job[w].file /\ Clean(w) /\ Len(job[w].steps) < Length
       /\ job[w].file \in Orderly /\ Len(doc[job[w].file]) = Len(job[w].steps)
       /\ \A k \in 1..Len(doc[job[w].file]) : doc[job[w].file][k].sess = job[w].sess
  /\ job[w].file # 0 /\ Clean(w) => job[w].file \in Quiet
  /\ job[w].pc \in {"release", "record"} /\ phase \in {"opening", "running"} /\ Clean(w) =>
       job[w].file \in Orderly /\ Len(doc[job[w].file]) = Length

\* No file is touched before a worker takes it, and one that was ok stays whole and quiet.
FileInv ==
  /\ script = "qisabelle" => \A s \in Sessions : late[s] = 0
  /\ \A i \in 1..Len(queue) : queue[i] \in Untouched
  /\ \A i \in 1..Len(verdicts) : verdicts[i].ok =>
       LET f == verdicts[i].file IN f \in Orderly \cap Quiet /\ Len(doc[f]) = Length
  /\ \A w \in Workers : WorkerInv(w)

\* The invariant of the scripts.
ScriptInv == ScriptType /\ HoldInv /\ FilesApart /\ FileInv

\* A step of one worker leaves the jobs of the others alone.
Others(w) == \A v \in Workers : v # w => job'[v] = job[v]

\* A job becomes another record; the other jobs stay.
LEMMA JobUpdate ==
  ASSUME job \in [Workers -> Jobs], NEW w \in Workers, NEW r \in Jobs, job' = [job EXCEPT ![w] = r]
  PROVE  job' \in [Workers -> Jobs] /\ Others(w) /\ job'[w] = r
BY DEF Others

\* The crew stays as long as the script does.
LEMMA SameCrew ==
  ASSUME script' = script PROVE Workers' = Workers
BY DEF Workers, Script!Crew

\* A worker without a file.
LEMMA RestingType ==
  /\ Script!Resting \in Jobs /\ Script!Resting.pc = "next" /\ Script!Resting.file = 0
  /\ Script!Resting.sess = NoSession /\ Script!Resting.steps = <<>>
BY EvaluationAssumption DEF Script!Resting, Jobs, Places

\* A worker takes a file.
LEMMA TakeType ==
  ASSUME ScriptType, NEW w \in Workers, Script!Take(w)
  PROVE  /\ ScriptType' /\ Others(w) /\ Workers' = Workers /\ job[w].pc = "next"
         /\ queue # <<>> /\ queue' = Tail(queue) /\ phase = "running"
         /\ job'[w].pc = "open" /\ job'[w].file = Head(queue) /\ job'[w].sess = NoSession
         /\ job'[w].steps = <<>>
         /\ UNCHANGED <<script, phase, verdicts, leased, thy, late, doc, lost>>
<1> DEFINE r == [Script!Resting EXCEPT !.file = Head(queue), !.pc = "open"]
<1>1. /\ queue # <<>> /\ queue' = Tail(queue) /\ job' = [job EXCEPT ![w] = r]
      /\ job[w].pc = "next" /\ phase = "running"
      /\ UNCHANGED <<script, phase, verdicts, leased, thy, late, doc, lost>>
  BY DEF Script!Take, Script!serverVars
<1>2. Head(queue) \in Script!Files /\ queue' \in Seq(Script!Files)
  BY <1>1, HeadTailProperties DEF ScriptType
<1>3. r \in Jobs /\ r.pc = "open" /\ r.file = Head(queue) /\ r.sess = NoSession /\ r.steps = <<>>
  <2>1. Head(queue) \in 0..NumFiles
    BY <1>2, EvaluationAssumption DEF Script!Files
  <2>2. QED BY <2>1, RestingType DEF Jobs, Places
<1> HIDE DEF r
<1>5. job' \in [Workers -> Jobs] /\ Others(w) /\ job'[w] = r
  BY <1>1, <1>3, JobUpdate DEF ScriptType
<1>6. Workers' = Workers
  BY <1>1, SameCrew
<1>7. ScriptType'
  BY <1>1, <1>2, <1>5, <1>6 DEF ScriptType, Entries
<1>8. QED BY <1>1, <1>3, <1>5, <1>6, <1>7

\* A theory cannot be read: the script stops, and jobs with a session give it back.
LEMMA UnreadableType ==
  ASSUME ScriptType, NEW w \in Workers, Script!Unreadable(w)
  PROVE  /\ ScriptType' /\ Workers' = Workers /\ job[w].pc = "open"
         /\ phase = "running" /\ phase' = "aborting"
         /\ \A v \in Workers :
              /\ job'[v].pc = IF v = w \/ job[v].sess = NoSession THEN "stopped" ELSE "release"
              /\ job'[v].file = job[v].file /\ job'[v].sess = job[v].sess
              /\ job'[v].steps = job[v].steps
         /\ UNCHANGED <<script, queue, verdicts, leased, thy, late, doc, lost>>
<1> DEFINE p(v) == IF v = w \/ job[v].sess = NoSession THEN "stopped" ELSE "release"
           r(v) == [job[v] EXCEPT !.pc = p(v)]
<1>1. /\ job' = [v \in Workers |-> r(v)] /\ job[w].pc = "open"
      /\ phase = "running" /\ phase' = "aborting"
      /\ UNCHANGED <<script, queue, verdicts, leased, thy, late, doc, lost>>
  BY DEF Script!Unreadable, Script!serverVars, Workers
<1>2. ASSUME NEW v \in Workers
      PROVE  /\ r(v) \in Jobs /\ r(v).pc = p(v) /\ r(v).file = job[v].file
             /\ r(v).sess = job[v].sess /\ r(v).steps = job[v].steps
  <2>1. job[v] \in Jobs /\ p(v) \in Places
    BY DEF ScriptType, Places
  <2> HIDE DEF p
  <2>2. QED BY <2>1 DEF Jobs
<1>3. Workers' = Workers
  BY <1>1, SameCrew
<1> HIDE DEF r
<1>4. job' \in [Workers -> Jobs] /\ \A v \in Workers : job'[v] = r(v)
  BY <1>1, <1>2
<1>5. ScriptType'
  BY <1>1, <1>3, <1>4 DEF ScriptType, Entries
<1>6. QED BY <1>1, <1>2, <1>3, <1>4, <1>5

\* A session is asked for.
Granting(w) == Script!Acquire(w) \/ Script!Create(w) \/ Script!StartGym(w)

\* It is granted and heard of, or refused, or granted and lost.
LEMMA GrantingType ==
  ASSUME ScriptType, NEW w \in Workers, Granting(w)
  PROVE  /\ ScriptType' /\ Others(w) /\ Workers' = Workers /\ job[w].pc = "open"
         /\ phase = "running" /\ job'[w].file = job[w].file
         /\ \/ \E s \in Sessions \ leased :
                 /\ job'[w].pc = "enter" /\ job'[w].sess = s /\ job'[w].steps = job[w].steps
                 /\ leased' = leased \cup {s} /\ lost' = lost
            \/ /\ job'[w].pc = "record" /\ job'[w].sess = job[w].sess
               /\ job'[w].steps = <<FALSE>>
               /\ \/ leased' = leased /\ lost' = lost
                  \/ \E s \in Sessions \ leased : leased' = leased \cup {s} /\ lost' = lost \cup {s}
         /\ UNCHANGED <<script, phase, queue, verdicts, thy, late, doc>>
<1>1. PICK g \in SUBSET (Sessions \ leased) : Script!Request(w, g)
  BY DEF Granting, Script!Acquire, Script!Create, Script!StartGym, Script!Unused
<1>2. /\ job[w].pc = "open" /\ phase = "running" /\ job[w] \in Jobs
      /\ UNCHANGED <<script, phase, queue, verdicts, thy, late, doc>>
  BY <1>1 DEF Script!Request, ScriptType
<1>3. Workers' = Workers
  BY <1>2, SameCrew
<1>4. CASE \E s \in g : /\ leased' = leased \cup {s} /\ lost' = lost
                        /\ job' = [job EXCEPT ![w].pc = "enter", ![w].sess = s]
  <2>1. PICK s \in g : /\ leased' = leased \cup {s} /\ lost' = lost
                       /\ job' = [job EXCEPT ![w].pc = "enter", ![w].sess = s]
    BY <1>4
  <2> DEFINE r == [job[w] EXCEPT !.pc = "enter", !.sess = s]
  <2>2. /\ r \in Jobs /\ r.pc = "enter" /\ r.sess = s /\ r.file = job[w].file
        /\ r.steps = job[w].steps
    BY <1>1, <1>2 DEF Jobs, Places
  <2>3. job' = [job EXCEPT ![w] = r]
    BY <2>1 DEF ScriptType
  <2> HIDE DEF r
  <2>4. job' \in [Workers -> Jobs] /\ Others(w) /\ job'[w] = r
    BY <2>2, <2>3, JobUpdate DEF ScriptType
  <2>5. leased' \subseteq Sessions
    BY <1>1, <2>1 DEF ScriptType
  <2>6. ScriptType'
    BY <1>2, <1>3, <2>1, <2>4, <2>5 DEF ScriptType, Entries
  <2>7. QED BY <1>1, <1>2, <1>3, <2>1, <2>2, <2>4, <2>6
<1>5. CASE /\ Script!NotStarted(w, "record")
           /\ \/ leased' = leased /\ lost' = lost
              \/ \E s \in g : leased' = leased \cup {s} /\ lost' = lost \cup {s}
  <2> DEFINE r == [job[w] EXCEPT !.pc = "record", !.steps = <<FALSE>>]
  <2>1. /\ r \in Jobs /\ r.pc = "record" /\ r.sess = job[w].sess /\ r.file = job[w].file
        /\ r.steps = <<FALSE>>
    <3>1. <<FALSE>> \in Seq(BOOLEAN)
      OBVIOUS
    <3>2. QED BY <1>2, <3>1 DEF Jobs, Places
  <2>2. job' = [job EXCEPT ![w] = r]
    BY <1>5 DEF ScriptType, Script!NotStarted
  <2> HIDE DEF r
  <2>3. job' \in [Workers -> Jobs] /\ Others(w) /\ job'[w] = r
    BY <2>1, <2>2, JobUpdate DEF ScriptType
  <2>4. leased' \subseteq Sessions /\ lost' \subseteq Sessions
    BY <1>1, <1>5 DEF ScriptType
  <2>5. ScriptType'
    BY <1>2, <1>3, <2>3, <2>4 DEF ScriptType, Entries
  <2>6. QED BY <1>1, <1>2, <1>3, <1>5, <2>1, <2>3, <2>5
<1>6. QED BY <1>1, <1>4, <1>5 DEF Script!Request

\* enter_theory.
LEMMA EnterType ==
  ASSUME ScriptType, NEW w \in Workers, Script!Enter(w)
  PROVE  /\ ScriptType' /\ Others(w) /\ Workers' = Workers /\ job[w].pc = "enter"
         /\ late[job[w].sess] = 0
         /\ job'[w].file = job[w].file /\ job'[w].sess = job[w].sess
         /\ \/ /\ thy' = [thy EXCEPT ![job[w].sess] = job[w].file]
               /\ job'[w].pc = "step" /\ job'[w].steps = job[w].steps
            \/ /\ \E t \in {thy[job[w].sess], job[w].file} : thy' = [thy EXCEPT ![job[w].sess] = t]
               /\ job'[w].pc = "release" /\ job'[w].steps = <<FALSE>>
         /\ UNCHANGED <<script, phase, queue, verdicts, leased, late, lost, doc>>
<1> DEFINE s == job[w].sess
           good == [job[w] EXCEPT !.pc = "step"]
           bad  == [job[w] EXCEPT !.pc = "release", !.steps = <<FALSE>>]
<1>1. /\ job[w].pc = "enter" /\ late[s] = 0 /\ job[w] \in Jobs
      /\ UNCHANGED <<script, phase, queue, verdicts, leased, late, lost, doc>>
  BY DEF Script!Enter, Script!Serves, ScriptType
<1>2. Workers' = Workers
  BY <1>1, SameCrew
<1>3. \/ thy' = [thy EXCEPT ![s] = job[w].file] /\ job' = [job EXCEPT ![w] = good]
      \/ /\ \E t \in {thy[s], job[w].file} : thy' = [thy EXCEPT ![s] = t]
         /\ job' = [job EXCEPT ![w] = bad]
  BY DEF Script!Enter, Script!Move, Script!NotStarted, ScriptType
<1>4. /\ good \in Jobs /\ good.pc = "step" /\ good.file = job[w].file /\ good.sess = s
      /\ good.steps = job[w].steps
  BY <1>1 DEF Jobs, Places
<1>5. /\ bad \in Jobs /\ bad.pc = "release" /\ bad.file = job[w].file /\ bad.sess = s
      /\ bad.steps = <<FALSE>>
  <2>1. <<FALSE>> \in Seq(BOOLEAN)
    OBVIOUS
  <2>2. QED BY <1>1, <2>1 DEF Jobs, Places
<1>6. thy' \in [Sessions -> 0..NumFiles]
  <2>1. job[w].file \in 0..NumFiles
    BY <1>1 DEF Jobs
  <2>2. QED BY <1>3, <2>1 DEF ScriptType
<1> HIDE DEF good, bad
<1>7. /\ job' \in [Workers -> Jobs] /\ Others(w)
      /\ \/ job'[w] = good /\ thy' = [thy EXCEPT ![s] = job[w].file]
         \/ /\ job'[w] = bad
            /\ \E t \in {thy[s], job[w].file} : thy' = [thy EXCEPT ![s] = t]
  BY <1>3, <1>4, <1>5, JobUpdate DEF ScriptType
<1>8. ScriptType'
  BY <1>1, <1>2, <1>6, <1>7 DEF ScriptType, Entries
<1>9. QED BY <1>1, <1>2, <1>4, <1>5, <1>7, <1>8

\* The server executes a command.
LEMMA RunType ==
  ASSUME ScriptType, NEW f, NEW s \in Sessions, NEW c \in Nat, NEW how \in Script!Outcomes,
         Script!Run(f, s, c, how)
  PROVE  /\ doc' \in [Script!Files -> Seq(Entries)]
         /\ \A g \in Script!Files : g # f => doc'[g] = doc[g]
         /\ f \in Script!Files => doc'[f] = Append(doc[f], [sess |-> s, cmd |-> c, how |-> how])
<1> DEFINE e == [sess |-> s, cmd |-> c, how |-> how]
<1>1. e \in Entries /\ doc' = [doc EXCEPT ![f] = Append(@, e)]
  BY DEF Entries, Script!Run
<1> HIDE DEF e
<1>2. \A g \in Script!Files : doc[g] \in Seq(Entries) /\ Append(doc[g], e) \in Seq(Entries)
  BY <1>1 DEF ScriptType
<1>3. /\ doc' \in [Script!Files -> Seq(Entries)]
      /\ \A g \in Script!Files : g # f => doc'[g] = doc[g]
      /\ f \in Script!Files => doc'[f] = Append(doc[f], e)
  BY <1>1, <1>2 DEF ScriptType
<1>4. QED BY <1>3 DEF e

\* newTheory of qIsabelle.
LEMMA NewTheoryType ==
  ASSUME ScriptType, NEW w \in Workers, Script!NewTheory(w)
  PROVE  /\ ScriptType' /\ Others(w) /\ Workers' = Workers /\ job[w].pc = "open"
         /\ phase = "running" /\ job'[w].file = job[w].file
         /\ \/ \E s \in leased :
                 /\ job'[w].pc = "step" /\ job'[w].sess = s /\ job'[w].steps = <<TRUE>>
                 /\ thy' = [thy EXCEPT ![s] = job[w].file]
                 /\ Script!Run(job[w].file, s, 1, "fine")
            \/ /\ job'[w].pc = "record" /\ job'[w].sess = job[w].sess
               /\ job'[w].steps = <<FALSE>> /\ thy' = thy /\ doc' = doc
         /\ UNCHANGED <<script, phase, queue, verdicts, leased, late, lost>>
<1>1. /\ job[w].pc = "open" /\ phase = "running" /\ job[w] \in Jobs
      /\ UNCHANGED <<script, phase, queue, verdicts, leased, late, lost>>
  BY DEF Script!NewTheory, ScriptType
<1>2. Workers' = Workers
  BY <1>1, SameCrew
<1>3. <<FALSE>> \in Seq(BOOLEAN) /\ <<TRUE>> \in Seq(BOOLEAN)
  OBVIOUS
<1>4. CASE \E s \in leased :
             /\ thy' = [thy EXCEPT ![s] = job[w].file] /\ Script!Run(job[w].file, s, 1, "fine")
             /\ job' = [job EXCEPT ![w].pc = "step", ![w].sess = s, ![w].steps = <<TRUE>>]
  <2>1. PICK s \in leased :
             /\ thy' = [thy EXCEPT ![s] = job[w].file] /\ Script!Run(job[w].file, s, 1, "fine")
             /\ job' = [job EXCEPT ![w].pc = "step", ![w].sess = s, ![w].steps = <<TRUE>>]
    BY <1>4
  <2> DEFINE r == [job[w] EXCEPT !.pc = "step", !.sess = s, !.steps = <<TRUE>>]
  <2>2. s \in Sessions /\ job[w].file \in 0..NumFiles
    BY <1>1 DEF ScriptType, Jobs
  <2>3. /\ r \in Jobs /\ r.pc = "step" /\ r.sess = s /\ r.file = job[w].file
        /\ r.steps = <<TRUE>>
    BY <1>1, <1>3, <2>2 DEF Jobs, Places
  <2>4. job' = [job EXCEPT ![w] = r]
    BY <2>1 DEF ScriptType
  <2> HIDE DEF r
  <2>5. job' \in [Workers -> Jobs] /\ Others(w) /\ job'[w] = r
    BY <2>3, <2>4, JobUpdate DEF ScriptType
  <2>6. "fine" \in Script!Outcomes /\ 1 \in Nat
    BY DEF Script!Outcomes
  <2>7. doc' \in [Script!Files -> Seq(Entries)]
    BY <2>1, <2>2, <2>6, RunType
  <2>8. thy' \in [Sessions -> 0..NumFiles]
    BY <2>1, <2>2 DEF ScriptType
  <2>9. ScriptType'
    BY <1>1, <1>2, <2>5, <2>7, <2>8 DEF ScriptType, Entries
  <2>10. QED BY <1>1, <1>2, <2>1, <2>3, <2>5, <2>9
<1>5. CASE Script!NotStarted(w, "record") /\ thy' = thy /\ doc' = doc
  <2> DEFINE r == [job[w] EXCEPT !.pc = "record", !.steps = <<FALSE>>]
  <2>1. /\ r \in Jobs /\ r.pc = "record" /\ r.sess = job[w].sess /\ r.file = job[w].file
        /\ r.steps = <<FALSE>>
    BY <1>1, <1>3 DEF Jobs, Places
  <2>2. job' = [job EXCEPT ![w] = r]
    BY <1>5 DEF ScriptType, Script!NotStarted
  <2> HIDE DEF r
  <2>3. job' \in [Workers -> Jobs] /\ Others(w) /\ job'[w] = r
    BY <2>1, <2>2, JobUpdate DEF ScriptType
  <2>4. ScriptType'
    BY <1>1, <1>2, <1>5, <2>3 DEF ScriptType, Entries
  <2>5. QED BY <1>1, <1>2, <1>5, <2>1, <2>3, <2>4
<1>6. QED BY <1>4, <1>5 DEF Script!NewTheory

\* The next command of a file.
Stepping(w) == \/ script \in {"reuse", "fresh"} /\ Script!ClientStep(w)
               \/ Script!GymStep(w) \/ Script!QStep(w)

\* A step is recorded.
LEMMA SteppedType ==
  ASSUME ScriptType, NEW w \in Workers, NEW ok \in BOOLEAN, Script!Stepped(w, ok)
  PROVE  /\ job' \in [Workers -> Jobs] /\ Others(w)
         /\ job'[w].file = job[w].file /\ job'[w].sess = job[w].sess
         /\ job'[w].steps = Append(job[w].steps, ok)
         /\ job'[w].pc = IF ok /\ Len(job[w].steps) + 1 < Length THEN "step" ELSE "release"
<1> DEFINE n == Len(job[w].steps) + 1
           q == IF ok /\ n < Length THEN "step" ELSE "release"
           x == Append(job[w].steps, ok)
           y == job[w].completed \/ (ok /\ (script # "fresh" \/ n = Length))
           r == [job[w] EXCEPT !.steps = x, !.completed = y, !.pc = q]
<1>1. job[w] \in Jobs
  BY DEF ScriptType
<1>2. job' = [job EXCEPT ![w] = r]
  BY <1>1 DEF Script!Stepped, ScriptType, Jobs
<1>3. job[w].completed \in BOOLEAN
  BY <1>1 DEF Jobs
<1>4. y \in BOOLEAN
  BY <1>3
<1>5. x \in Seq(BOOLEAN) /\ q \in Places
  BY <1>1 DEF Jobs, Places
<1> HIDE DEF x, y, q
<1>6. r \in Jobs /\ r.file = job[w].file /\ r.sess = job[w].sess /\ r.steps = x /\ r.pc = q
  BY <1>1, <1>4, <1>5 DEF Jobs
<1> HIDE DEF r
<1>7. job' \in [Workers -> Jobs] /\ Others(w) /\ job'[w] = r
  BY <1>2, <1>6, JobUpdate DEF ScriptType
<1>8. QED BY <1>6, <1>7 DEF x, q

\* One command of a file.
LEMMA StepType ==
  ASSUME ScriptType, NEW w \in Workers, Stepping(w), job[w].sess \in Sessions
  PROVE  /\ ScriptType' /\ Others(w) /\ Workers' = Workers /\ job[w].pc = "step"
         /\ late[job[w].sess] = 0
         /\ job'[w].file = job[w].file /\ job'[w].sess = job[w].sess
         /\ \/ /\ job'[w].steps = Append(job[w].steps, TRUE) /\ late' = late
               /\ job'[w].pc = IF Len(job[w].steps) + 1 < Length THEN "step" ELSE "release"
               /\ \E how \in Script!Outcomes :
                    Script!Run(thy[job[w].sess], job[w].sess, Len(job[w].steps) + 1, how)
               /\ Script!AcceptedStep(doc'[thy[job[w].sess]])
            \/ /\ job'[w].steps = Append(job[w].steps, FALSE) /\ job'[w].pc = "release"
               /\ \A g \in Script!Files : g # thy[job[w].sess] => doc'[g] = doc[g]
               /\ \A t \in Sessions : t # job[w].sess => late'[t] = late[t]
               /\ late' = late \/ script # "qisabelle"
         /\ UNCHANGED <<script, phase, queue, verdicts, leased, thy, lost>>
<1> DEFINE s == job[w].sess
           n == Len(job[w].steps) + 1
<1>1. /\ job[w].pc = "step" /\ late[s] = 0
      /\ UNCHANGED <<script, phase, queue, verdicts, leased, thy, lost>>
  BY DEF Stepping, Script!ClientStep, Script!GymStep, Script!QStep, Script!MayStep, Script!Serves
<1>2. n \in Nat /\ job[w] \in Jobs
  BY DEF ScriptType, Jobs
<1>3. Workers' = Workers
  BY <1>1, SameCrew
<1>4. \/ late' = late /\ Script!Execute(w)
      \/ /\ Script!Stepped(w, FALSE) /\ doc' = doc /\ late' = [late EXCEPT ![s] = n]
         /\ script # "qisabelle"
  BY DEF Stepping, Script!ClientStep, Script!GymStep, Script!QStep
<1>5. \/ /\ \E how \in Script!Outcomes : Script!Run(thy[s], s, n, how)
         /\ Script!AcceptedStep(doc'[thy[s]]) /\ Script!Stepped(w, TRUE) /\ late' = late
      \/ \E how \in Script!Outcomes :
            Script!Run(thy[s], s, n, how) /\ Script!Stepped(w, FALSE) /\ late' = late
      \/ Script!Stepped(w, FALSE) /\ doc' = doc /\ late' = late
      \/ /\ Script!Stepped(w, FALSE) /\ doc' = doc /\ late' = [late EXCEPT ![s] = n]
         /\ script # "qisabelle"
  <2>1. CASE late' = late /\ Script!Execute(w)
    <3> DEFINE acc == Script!AcceptedStep(doc'[thy[s]])
    <3>1. CASE Script!Stepped(w, FALSE) /\ doc' = doc
      BY <2>1, <3>1
    <3>2. CASE \E how \in Script!Outcomes :
                 /\ Script!Run(thy[s], s, n, how)
                 /\ \E ok \in {acc, FALSE} : Script!Stepped(w, ok)
      <4>1. PICK how \in Script!Outcomes :
                 /\ Script!Run(thy[s], s, n, how)
                 /\ \E ok \in {acc, FALSE} : Script!Stepped(w, ok)
        BY <3>2
      <4>2. acc \in BOOLEAN
        <5> DEFINE d == doc'[thy[s]]
        <5>1. Script!Ignored(d) \in BOOLEAN
          BY DEF Script!Ignored
        <5>2. (d[Len(d)].how \in {"fine", "warning"}) \in BOOLEAN
          OBVIOUS
        <5> HIDE DEF d
        <5>3. CASE script = "qisabelle"
          BY <5>2, <5>3 DEF Script!AcceptedStep, d
        <5>4. CASE script # "qisabelle"
          BY <5>1, <5>4 DEF Script!AcceptedStep, d
        <5>5. QED BY <5>3, <5>4
      <4> HIDE DEF acc
      <4>3. CASE Script!Stepped(w, FALSE)
        BY <2>1, <4>1, <4>3
      <4>4. CASE ~Script!Stepped(w, FALSE)
        <5>1. Script!Stepped(w, acc) /\ acc # FALSE
          BY <4>1, <4>4
        <5>2. acc = TRUE
          BY <4>2, <5>1
        <5>3. Script!Stepped(w, TRUE)
          BY <5>1, <5>2
        <5>4. QED BY <2>1, <4>1, <5>2, <5>3 DEF acc
      <4>5. QED BY <4>3, <4>4
    <3>3. QED BY <2>1, <3>1, <3>2 DEF Script!Execute
  <2>2. QED BY <1>4, <2>1
<1>6. /\ doc' \in [Script!Files -> Seq(Entries)]
      /\ \A g \in Script!Files : g # thy[s] => doc'[g] = doc[g]
  <2>2. CASE \E how \in Script!Outcomes : Script!Run(thy[s], s, n, how)
    <3>1. PICK how \in Script!Outcomes : Script!Run(thy[s], s, n, how)
      BY <2>2
    <3>2. s \in Sessions /\ n \in Nat
      BY <1>2
    <3> HIDE DEF s, n
    <3>3. QED BY <3>1, <3>2, RunType
  <2>3. CASE doc' = doc
    BY <2>3 DEF ScriptType
  <2>4. QED BY <1>5, <2>2, <2>3
<1>7. /\ late' \in [Sessions -> Nat] /\ \A t \in Sessions : t # s => late'[t] = late[t]
      /\ late' = late \/ script # "qisabelle"
  BY <1>2, <1>5 DEF ScriptType
<1>8. CASE Script!Stepped(w, FALSE)
  <2>1. /\ job' \in [Workers -> Jobs] /\ Others(w)
        /\ job'[w].file = job[w].file /\ job'[w].sess = s
        /\ job'[w].steps = Append(job[w].steps, FALSE) /\ job'[w].pc = "release"
    BY <1>8, SteppedType
  <2>2. ScriptType'
    BY <1>1, <1>3, <1>6, <1>7, <2>1 DEF ScriptType, Entries
  <2>3. QED BY <1>1, <1>3, <1>6, <1>7, <2>1, <2>2
<1>9. CASE /\ \E how \in Script!Outcomes : Script!Run(thy[s], s, n, how)
           /\ Script!AcceptedStep(doc'[thy[s]]) /\ Script!Stepped(w, TRUE) /\ late' = late
  <2>1. /\ job' \in [Workers -> Jobs] /\ Others(w)
        /\ job'[w].file = job[w].file /\ job'[w].sess = s
        /\ job'[w].steps = Append(job[w].steps, TRUE)
        /\ job'[w].pc = IF n < Length THEN "step" ELSE "release"
    BY <1>9, SteppedType
  <2>2. ScriptType'
    BY <1>1, <1>3, <1>6, <1>7, <2>1 DEF ScriptType, Entries
  <2>3. QED BY <1>1, <1>3, <1>9, <2>1, <2>2
<1>10. QED BY <1>5, <1>8, <1>9

\* A session is left: given back, given back without an answer, or kept.
Releasing(w) ==
  \/ /\ script # "qisabelle"
     /\ Script!ReleaseLease(w) \/ Script!CloseSession(w) \/ Script!CloseGym(w)
  \/ script = "qisabelle" /\ Script!KeepShared(w)

\* What leaving a session does.
LEMMA ReleasedType ==
  ASSUME ScriptType, NEW w \in Workers, Releasing(w)
  PROVE  /\ ScriptType' \/ job[w].sess \notin Sessions
         /\ Others(w) /\ Workers' = Workers /\ job[w].pc = "release"
         /\ job'[w].pc = IF phase = "aborting" THEN "stopped" ELSE "record"
         /\ job'[w].file = job[w].file /\ job'[w].sess = NoSession
         /\ job'[w].steps = job[w].steps
         /\ \/ script # "qisabelle" /\ leased' = leased \ {job[w].sess} /\ lost' = lost
            \/ script # "qisabelle" /\ lost' = lost \cup {job[w].sess} /\ leased' = leased
            \/ script = "qisabelle" /\ leased' = leased /\ lost' = lost
         /\ UNCHANGED <<script, phase, queue, verdicts, thy, late, doc>>
<1> DEFINE q == IF phase = "aborting" THEN "stopped" ELSE "record"
           r == [job[w] EXCEPT !.pc = q, !.sess = NoSession]
<1>1. /\ Script!Released(w)
      /\ \/ script # "qisabelle" /\ leased' = leased \ {job[w].sess} /\ lost' = lost
         \/ script # "qisabelle" /\ lost' = lost \cup {job[w].sess} /\ leased' = leased
         \/ script = "qisabelle" /\ leased' = leased /\ lost' = lost
  BY DEF Releasing, Script!ReleaseLease, Script!CloseSession, Script!CloseGym, Script!KeepShared,
         Script!GiveBack
<1>2. /\ job[w].pc = "release" /\ job[w] \in Jobs
      /\ UNCHANGED <<script, phase, queue, verdicts, thy, late, doc>>
  BY <1>1 DEF Script!Released, ScriptType
<1>3. job' = [job EXCEPT ![w] = r]
  BY <1>1 DEF Script!Released, ScriptType
<1>4. q \in Places
  BY DEF Places
<1> HIDE DEF q
<1>5. /\ r \in Jobs /\ r.pc = q /\ r.file = job[w].file /\ r.sess = NoSession
      /\ r.steps = job[w].steps
  BY <1>2, <1>4 DEF Jobs
<1> HIDE DEF r
<1>6. job' \in [Workers -> Jobs] /\ Others(w) /\ job'[w] = r
  BY <1>3, <1>5, JobUpdate DEF ScriptType
<1>7. Workers' = Workers
  BY <1>2, SameCrew
<1>8. ScriptType' \/ job[w].sess \notin Sessions
  BY <1>1, <1>2, <1>6, <1>7 DEF ScriptType, Entries
<1>9. QED BY <1>1, <1>2, <1>5, <1>6, <1>7, <1>8 DEF q

\* A file has its result, and its worker goes on.
LEMMA ReportType ==
  ASSUME ScriptType, NEW w \in Workers, NEW ok \in BOOLEAN, Script!Report(w, ok),
         job[w].file \in Script!Files
  PROVE  /\ job' \in [Workers -> Jobs] /\ Others(w) /\ job'[w].pc = "next"
         /\ job'[w].file = 0 /\ job'[w].sess = NoSession /\ job'[w].steps = <<>>
         /\ verdicts' \in Seq(Verdicts)
         /\ Len(verdicts') = Len(verdicts) + 1
         /\ \A i \in 1..Len(verdicts) : verdicts'[i] = verdicts[i]
         /\ verdicts'[Len(verdicts) + 1].file = job[w].file
         /\ verdicts'[Len(verdicts) + 1].ok = ok
<1> DEFINE r == Script!Resting
           v == [file |-> job[w].file, ok |-> ok]
<1>1. job' = [job EXCEPT ![w] = r] /\ verdicts' = Append(verdicts, v)
  BY DEF Script!Report
<1>2. r \in Jobs /\ r.pc = "next" /\ r.file = 0 /\ r.sess = NoSession /\ r.steps = <<>>
  BY RestingType
<1>3. v \in Verdicts /\ v.file = job[w].file /\ v.ok = ok
  BY DEF Verdicts
<1> HIDE DEF r, v
<1>4. job' \in [Workers -> Jobs] /\ Others(w) /\ job'[w] = r
  BY <1>1, <1>2, JobUpdate DEF ScriptType
<1>5. /\ verdicts' \in Seq(Verdicts)
      /\ Len(verdicts') = Len(verdicts) + 1
      /\ \A i \in 1..Len(verdicts) : verdicts'[i] = verdicts[i]
      /\ verdicts'[Len(verdicts) + 1] = v
  BY <1>1, <1>3 DEF ScriptType
<1>6. QED BY <1>2, <1>3, <1>4, <1>5

\* No file but x is disturbed: one that is quiet stays as it is, and quiet.
Undisturbed(x) ==
  /\ \A f \in Quiet \ {x} : f \in Quiet' /\ doc'[f] = doc[f]
  /\ Untouched \ {x} \subseteq Untouched'

\* A file nothing was executed of is quiet.
LEMMA UntouchedQuiet == Untouched \subseteq Quiet
BY DEF Untouched, Quiet

\* A file that stays as it is.
LEMMA OrderlyKept ==
  ASSUME NEW f \in Orderly, doc'[f] = doc[f], script' = script
  PROVE  f \in Orderly'
<1>1. ASSUME NEW k \in 1..Len(doc'[f])
      PROVE  /\ doc'[f][k].cmd = k /\ doc'[f][k].sess = doc'[f][1].sess
             /\ doc'[f][k].how \in Script!Erroneous =>
                  /\ script' # "qisabelle"
                  /\ \E m \in 1..k : /\ doc'[f][m].how \in Script!Warnings
                                    /\ \A i \in 1..m-1 : doc'[f][i].how = "fine"
  BY DEF Orderly
<1>2. QED BY <1>1 DEF Orderly, Script!Files

\* A worker whose file is not disturbed keeps its invariant.
LEMMA WorkerKept ==
  ASSUME ScriptType, NEW v \in Workers, WorkerInv(v), NEW x, Undisturbed(x), script' = script,
         job'[v].file = job[v].file, job'[v].sess = job[v].sess, job'[v].steps = job[v].steps,
         job[v].file = 0 \/ job[v].file # x,
         job'[v].pc = job[v].pc \/ job'[v].pc \notin {"open", "enter", "step", "release", "record"},
         job[v].pc \notin {"next", "stopped"} => job[v].file # 0,
         job'[v].pc = "step" => thy'[job[v].sess] = thy[job[v].sess],
         phase' \in {"opening", "running"} => phase \in {"opening", "running"}
  PROVE  WorkerInv(v)'
<1> DEFINE f == job[v].file
<1>1. job[v] \in Jobs /\ f \in 0..NumFiles
  BY DEF ScriptType, Jobs
<1>2. Clean(v)' = Clean(v)
  BY DEF Clean
<1>3. ASSUME f # 0, Clean(v) PROVE f \in Quiet /\ f \in Quiet' /\ doc'[f] = doc[f]
  BY <1>3 DEF WorkerInv, Undisturbed
<1>4. ASSUME f \in Orderly, doc'[f] = doc[f] PROVE f \in Orderly'
  BY <1>4, OrderlyKept
<1>5. (job[v].pc \in {"open", "enter"} => f \in Untouched /\ job[v].steps = <<>>)'
  BY <1>1 DEF WorkerInv, Undisturbed
<1>6. (job[v].pc = "step" =>
       /\ thy[job[v].sess] = f /\ Clean(v) /\ Len(job[v].steps) < Length
       /\ f \in Orderly /\ Len(doc[f]) = Len(job[v].steps)
       /\ \A k \in 1..Len(doc[f]) : doc[f][k].sess = job[v].sess)'
  BY <1>2, <1>3, <1>4 DEF WorkerInv
<1>7. (f # 0 /\ Clean(v) => f \in Quiet)'
  BY <1>2, <1>3
<1>8. (job[v].pc \in {"release", "record"} /\ phase \in {"opening", "running"} /\ Clean(v) =>
         f \in Orderly /\ Len(doc[f]) = Length)'
  BY <1>2, <1>3, <1>4 DEF WorkerInv
<1>9. QED BY <1>5, <1>6, <1>7, <1>8 DEF WorkerInv

\* A verdict on a file that is not disturbed stays true.
LEMMA VerdictsKept ==
  ASSUME ScriptType, FileInv, NEW x, Undisturbed(x), script' = script,
         \A i \in 1..Len(verdicts) : verdicts[i].file # x
  PROVE  \A i \in 1..Len(verdicts) : verdicts[i].ok =>
           LET f == verdicts[i].file IN f \in Orderly' \cap Quiet' /\ Len(doc'[f]) = Length
<1> SUFFICES ASSUME NEW i \in 1..Len(verdicts), verdicts[i].ok
             PROVE  LET f == verdicts[i].file IN
                    f \in Orderly' \cap Quiet' /\ Len(doc'[f]) = Length
  OBVIOUS
<1> DEFINE f == verdicts[i].file
<1>1. f \in Orderly /\ f \in Quiet /\ Len(doc[f]) = Length /\ f # x
  BY DEF FileInv
<1>2. f \in Quiet' /\ doc'[f] = doc[f]
  BY <1>1 DEF Undisturbed
<1>3. f \in Orderly'
  BY <1>1, <1>2, OrderlyKept
<1>4. QED BY <1>1, <1>2, <1>3

\* What a step that leaves queue and verdicts alone has to show.
LEMMA FilesKept ==
  ASSUME ScriptType, FilesApart, FileInv, NEW x, Undisturbed(x), Workers' = Workers,
         UNCHANGED <<queue, verdicts, script>>,
         \A i \in 1..Len(queue) : queue[i] # x,
         \A i \in 1..Len(verdicts) : verdicts[i].file # x,
         \A v \in Workers : WorkerInv(v)',
         script = "qisabelle" => \A s \in Sessions : late'[s] = 0
  PROVE  FileInv'
<1>1. \A i \in 1..Len(queue) : queue[i] \in Untouched'
  BY DEF FileInv, Undisturbed
<1>2. \A i \in 1..Len(verdicts) : verdicts[i].ok =>
        LET f == verdicts[i].file IN f \in Orderly' \cap Quiet' /\ Len(doc'[f]) = Length
  BY VerdictsKept
<1>3. (\A i \in 1..Len(queue) : queue[i] \in Untouched)'
  BY <1>1
<1>4. (\A i \in 1..Len(verdicts) : verdicts[i].ok =>
        LET f == verdicts[i].file IN f \in Orderly \cap Quiet /\ Len(doc[f]) = Length)'
  BY <1>2
<1>5. (\A v \in Workers : WorkerInv(v))'
  OBVIOUS
<1>6. QED BY <1>3, <1>4, <1>5 DEF FileInv

\* Jobs that keep their sessions.
LEMMA HoldKept ==
  ASSUME HoldInv, Workers' = Workers, UNCHANGED <<script, phase, leased, lost>>,
         \A v \in Workers : /\ job'[v].sess = job[v].sess
                            /\ (job'[v].pc \in Holding) = (job[v].pc \in Holding)
  PROVE  HoldInv'
BY DEF HoldInv, Holding

\* A step that was not accepted is one.
LEMMA Failed ==
  ASSUME NEW w \in Workers, job'[w].steps = <<FALSE>>
  PROVE  ~Clean(w)'
<1>1. 1 \in 1..Len(job'[w].steps) /\ ~job'[w].steps[1]
  OBVIOUS
<1>2. ~(\A i \in 1..Len(job'[w].steps) : job'[w].steps[i])
  BY <1>1
<1>3. QED BY <1>2 DEF Clean

\* A step that leaves theories and commands alone.
LEMMA WorkerSame ==
  ASSUME NEW v \in Workers, WorkerInv(v), job'[v] = job[v],
         UNCHANGED <<script, doc, thy, late>>,
         phase' \in {"opening", "running"} => phase \in {"opening", "running"}
  PROVE  WorkerInv(v)'
<1>1. Clean(v)' = Clean(v) /\ Quiet' = Quiet /\ Untouched' = Untouched /\ Orderly' = Orderly
  BY DEF Clean, Quiet, Untouched, Orderly
<1>2. QED BY <1>1 DEF WorkerInv

\* It keeps what is known of the files.
LEMMA FilesSame ==
  ASSUME FileInv, Workers' = Workers, UNCHANGED <<doc, thy, late, queue, verdicts, script>>,
         \A v \in Workers : WorkerInv(v)'
  PROVE  FileInv'
<1>1. Quiet' = Quiet /\ Untouched' = Untouched /\ Orderly' = Orderly
  BY DEF Quiet, Untouched, Orderly
<1>2. QED BY <1>1 DEF FileInv

\* Files that stay with their jobs stay apart.
LEMMA ApartKept ==
  ASSUME FilesApart, Workers' = Workers, UNCHANGED <<queue, verdicts>>,
         \A v \in Workers : /\ job'[v].file = job[v].file
                            /\ job'[v].pc = "next" => job[v].pc = "next"
                            /\ job[v].file = 0 => job'[v].pc \in {"next", "stopped"}
  PROVE  FilesApart'
BY DEF FilesApart

\* Take.
LEMMA TakeInv ==
  ASSUME ScriptInv, NEW w \in Workers, Script!Take(w)
  PROVE  ScriptInv'
<1> USE DEF ScriptInv
<1>1. /\ ScriptType' /\ Others(w) /\ Workers' = Workers /\ job[w].pc = "next"
      /\ queue # <<>> /\ queue' = Tail(queue) /\ phase = "running"
      /\ job'[w].pc = "open" /\ job'[w].file = Head(queue) /\ job'[w].sess = NoSession
      /\ job'[w].steps = <<>>
      /\ UNCHANGED <<script, phase, verdicts, leased, thy, late, doc, lost>>
  BY TakeType
<1>2. job[w].sess = NoSession /\ job[w].file = 0
  BY <1>1 DEF HoldInv, FilesApart, Holding
<1>3. HoldInv'
  BY <1>1, <1>2 DEF HoldInv, Holding, Others
<1>4. /\ Len(queue) > 0 /\ Head(queue) = queue[1] /\ Len(queue') = Len(queue) - 1
      /\ \A i \in 1..Len(queue') : i + 1 \in 1..Len(queue) /\ queue'[i] = queue[i + 1]
  BY <1>1, HeadTailProperties DEF ScriptType
<1>5. Head(queue) # 0
  <2>1. Head(queue) \in Script!Files
    BY <1>1, <1>4 DEF ScriptType
  <2>2. QED BY <2>1 DEF Script!Files
<1>6. FilesApart'
  BY <1>1, <1>2, <1>4, <1>5 DEF FilesApart, Others
<1>8. ASSUME NEW v \in Workers PROVE WorkerInv(v)'
  <2>1. CASE v = w
    <3>1. Head(queue) \in Untouched' /\ Head(queue) \in Quiet'
      BY <1>1, <1>4, UntouchedQuiet DEF FileInv, Untouched, Quiet
    <3>2. QED BY <1>1, <2>1, <3>1 DEF WorkerInv
  <2>2. CASE v # w
    <3>1. job'[v] = job[v]
      BY <2>2 , <1>1 DEF Others
    <3>2. QED BY <1>1, <3>1, WorkerSame DEF FileInv
  <2>3. QED BY <2>1, <2>2
<1>9. FileInv'
  <2>1. (\A i \in 1..Len(queue) : queue[i] \in Untouched)'
    BY <1>1, <1>4 DEF FileInv, Untouched
  <2>2. (\A i \in 1..Len(verdicts) : verdicts[i].ok =>
           LET f == verdicts[i].file IN f \in Orderly \cap Quiet /\ Len(doc[f]) = Length)'
    <3>1. Orderly' = Orderly /\ Quiet' = Quiet /\ verdicts' = verdicts /\ doc' = doc
      BY <1>1 DEF Orderly, Quiet
    <3>2. QED BY <3>1 DEF FileInv
  <2>3. QED BY <1>1, <1>8, <2>1, <2>2 DEF FileInv
<1>10. QED BY <1>1, <1>3, <1>6, <1>9

\* A theory that cannot be read.
LEMMA UnreadableInv ==
  ASSUME ScriptInv, NEW w \in Workers, Script!Unreadable(w)
  PROVE  ScriptInv'
<1> USE DEF ScriptInv
<1>1. /\ ScriptType' /\ Workers' = Workers /\ job[w].pc = "open"
      /\ phase = "running" /\ phase' = "aborting"
      /\ \A v \in Workers :
           /\ job'[v].pc = IF v = w \/ job[v].sess = NoSession THEN "stopped" ELSE "release"
           /\ job'[v].file = job[v].file /\ job'[v].sess = job[v].sess
           /\ job'[v].steps = job[v].steps
      /\ UNCHANGED <<script, queue, verdicts, leased, thy, late, doc, lost>>
  BY UnreadableType
<1>2. job[w].sess = NoSession
  BY <1>1 DEF HoldInv, Holding
<1>3. HoldInv'
  BY <1>1, <1>2 DEF HoldInv, Holding
<1>4. \A v \in Workers : job[v].file = 0 => job'[v].pc = "stopped"
  BY <1>1 DEF HoldInv, Holding, FilesApart
<1>5. FilesApart'
  BY <1>1, <1>4, ApartKept
<1>7. ASSUME NEW v \in Workers PROVE WorkerInv(v)'
  <2>1. Clean(v)' = Clean(v)
    BY <1>1 DEF Clean
  <2>2. Quiet' = Quiet
    BY <1>1 DEF Quiet
  <2>3. job'[v].pc \notin {"open", "enter", "step"} /\ phase' \notin {"opening", "running"}
    BY <1>1
  <2>4. QED BY <1>1, <2>1, <2>2, <2>3 DEF WorkerInv, FileInv
<1>8. FileInv'
  BY <1>1, <1>7, FilesSame
<1>9. QED BY <1>1, <1>3, <1>5, <1>8

\* acquire_session, create_session, IsabelleGym(...).
LEMMA GrantingInv ==
  ASSUME ScriptInv, NEW w \in Workers, Granting(w), script # "qisabelle"
  PROVE  ScriptInv'
<1> USE DEF ScriptInv
<1>1. /\ ScriptType' /\ Others(w) /\ Workers' = Workers /\ job[w].pc = "open"
      /\ phase = "running" /\ job'[w].file = job[w].file
      /\ \/ \E s \in Sessions \ leased :
              /\ job'[w].pc = "enter" /\ job'[w].sess = s /\ job'[w].steps = job[w].steps
              /\ leased' = leased \cup {s} /\ lost' = lost
         \/ /\ job'[w].pc = "record" /\ job'[w].sess = job[w].sess
            /\ job'[w].steps = <<FALSE>>
            /\ \/ leased' = leased /\ lost' = lost
               \/ \E s \in Sessions \ leased : leased' = leased \cup {s} /\ lost' = lost \cup {s}
      /\ UNCHANGED <<script, phase, queue, verdicts, thy, late, doc>>
  BY GrantingType
<1>2. job[w].sess = NoSession /\ job[w].file # 0
  BY <1>1 DEF HoldInv, Holding, FilesApart
<1>3. HoldInv'
  <2>1. CASE \E s \in Sessions \ leased :
              /\ job'[w].pc = "enter" /\ job'[w].sess = s /\ job'[w].steps = job[w].steps
              /\ leased' = leased \cup {s} /\ lost' = lost
    <3>1. PICK s \in Sessions \ leased :
              /\ job'[w].pc = "enter" /\ job'[w].sess = s /\ job'[w].steps = job[w].steps
              /\ leased' = leased \cup {s} /\ lost' = lost
      BY <2>1
    <3>2. s # NoSession /\ \A v \in Workers : v # w => job'[v] = job[v] /\ job[v].sess # s
      BY <1>1, <3>1, EvaluationAssumption DEF HoldInv, Others
    <3>3. (\A v \in Workers : /\ (job[v].pc \in Holding) = (job[v].sess # NoSession)
                             /\ job[v].sess \in leased \cup {NoSession})'
      BY <1>1, <3>1, <3>2 DEF HoldInv, Holding
    <3>4. (\A u, v \in Workers : job[u].sess = job[v].sess /\ job[u].sess # NoSession => u = v)'
      BY <1>1, <3>1, <3>2 DEF HoldInv
    <3>5. \A t \in leased' \ lost' : \E v \in Workers : job'[v].sess = t
      <4>1. TAKE t \in leased' \ lost'
      <4>2. CASE t = s
        BY <3>1, <4>2
      <4>3. CASE t # s
        <5>1. PICK v \in Workers : job[v].sess = t
          BY <3>1, <4>3 DEF HoldInv
        <5>2. t # NoSession
          BY <3>1, <4>3, EvaluationAssumption DEF ScriptType
        <5>3. v # w
          BY <1>2, <5>1, <5>2
        <5>4. QED BY <3>2, <5>1, <5>3
      <4>4. QED BY <4>2, <4>3
    <3>6. QED BY <1>1, <3>3, <3>4, <3>5 DEF HoldInv
  <2>2. CASE /\ job'[w].pc = "record" /\ job'[w].sess = job[w].sess
             /\ \/ leased' = leased /\ lost' = lost
                \/ \E s \in Sessions \ leased : leased' = leased \cup {s} /\ lost' = lost \cup {s}
    <3>1. \A v \in Workers : /\ job'[v].sess = job[v].sess
                             /\ (job'[v].pc \in Holding) = (job'[v].sess # NoSession)
      <4>1. TAKE v \in Workers
      <4>2. CASE v = w
        BY <1>2, <2>2, <4>2 DEF Holding
      <4>3. CASE v # w
        BY <1>1, <4>3 DEF HoldInv, Others
      <4>4. QED BY <4>2, <4>3
    <3>2. leased \subseteq leased' /\ leased' \ lost' = leased \ lost
      BY <2>2
    <3>3. QED BY <1>1, <3>1, <3>2 DEF HoldInv
  <2>3. QED BY <1>1, <2>1, <2>2
<1>4. \A v \in Workers : job'[v].file = job[v].file /\ (v # w => job'[v] = job[v])
  BY <1>1 DEF Others
<1>5. FilesApart'
  <2>1. \A v \in Workers : /\ job'[v].pc = "next" => job[v].pc = "next"
                           /\ job[v].file = 0 => job'[v].pc \in {"next", "stopped"}
    BY <1>1, <1>2, <1>4 DEF FilesApart
  <2>2. QED BY <1>1, <1>4, <2>1, ApartKept
<1>7. ASSUME NEW v \in Workers PROVE WorkerInv(v)'
  <2>1. CASE v = w /\ job'[w].pc = "record" /\ job'[w].steps = <<FALSE>>
    <3>1. ~Clean(v)'
      BY <2>1, Failed
    <3>2. QED BY <2>1, <3>1 DEF WorkerInv
  <2>2. CASE v = w /\ job'[w].pc = "enter" /\ job'[w].steps = job[w].steps
    <3>1. job[w].file \in Untouched /\ job[w].steps = <<>>
      BY <1>1 DEF FileInv, WorkerInv
    <3>2. job[w].file \in Untouched' /\ job[w].file \in Quiet'
      BY <1>1, <3>1, UntouchedQuiet DEF Untouched, Quiet
    <3>3. QED BY <1>1, <2>2, <3>1, <3>2 DEF WorkerInv
  <2>3. CASE v # w
    <3>1. job'[v] = job[v]
      BY <1>4, <2>3
    <3>2. QED BY <1>1, <3>1, WorkerSame DEF FileInv
  <2>4. QED BY <1>1, <2>1, <2>2, <2>3
<1>8. FileInv'
  BY <1>1, <1>7, FilesSame
<1>9. QED BY <1>1, <1>3, <1>5, <1>8

\* enter_theory.
LEMMA EnterInv ==
  ASSUME ScriptInv, NEW w \in Workers, Script!Enter(w), script # "qisabelle"
  PROVE  ScriptInv'
<1> USE DEF ScriptInv
<1> DEFINE s == job[w].sess
           f == job[w].file
<1>1. /\ ScriptType' /\ Others(w) /\ Workers' = Workers /\ job[w].pc = "enter"
      /\ late[s] = 0
      /\ job'[w].file = f /\ job'[w].sess = s
      /\ \/ /\ thy' = [thy EXCEPT ![s] = f]
            /\ job'[w].pc = "step" /\ job'[w].steps = job[w].steps
         \/ /\ \E t \in {thy[s], f} : thy' = [thy EXCEPT ![s] = t]
            /\ job'[w].pc = "release" /\ job'[w].steps = <<FALSE>>
      /\ UNCHANGED <<script, phase, queue, verdicts, leased, late, lost, doc>>
  BY EnterType
<1>2. s # NoSession /\ s \in Sessions /\ f # 0 /\ f \in Script!Files
  <2>1. s # NoSession /\ f # 0 /\ job[w] \in Jobs
    BY <1>1 DEF HoldInv, Holding, FilesApart, ScriptType
  <2>2. QED BY <2>1 DEF Jobs, Script!Files
<1>3. HoldInv'
  <2>1. \A v \in Workers : /\ job'[v].sess = job[v].sess
                           /\ (job'[v].pc \in Holding) = (job[v].pc \in Holding)
    <3>1. TAKE v \in Workers
    <3>2. CASE v = w
      <4>1. job'[w].pc \in Holding /\ job[w].pc \in Holding
        BY <1>1 DEF Holding
      <4>2. QED BY <1>1, <3>2, <4>1
    <3>3. CASE v # w
      BY <1>1, <3>3 DEF Others
    <3>4. QED BY <3>2, <3>3
  <2>2. QED BY <1>1, <2>1, HoldKept
<1>4. \A v \in Workers : job'[v].file = job[v].file /\ (v # w => job'[v] = job[v])
  BY <1>1 DEF Others
<1>5. FilesApart'
  <2>1. \A v \in Workers : /\ job'[v].pc = "next" => job[v].pc = "next"
                           /\ job[v].file = 0 => job'[v].pc \in {"next", "stopped"}
    BY <1>1, <1>2, <1>4 DEF FilesApart
  <2>2. QED BY <1>1, <1>4, <2>1, ApartKept
<1>6. f \in Untouched /\ job[w].steps = <<>>
  BY <1>1 DEF FileInv, WorkerInv
<1>7. /\ thy' \in [Sessions -> 0..NumFiles]
      /\ \A t \in Sessions : t # s => thy'[t] = thy[t]
      /\ thy'[s] \in {thy[s], f}
  BY <1>1, <1>2 DEF ScriptType
<1>8. Undisturbed(f) /\ f \in Quiet'
  BY <1>1, <1>2, <1>6, <1>7, UntouchedQuiet DEF Undisturbed, Quiet, Untouched
<1>9. ASSUME NEW v \in Workers PROVE WorkerInv(v)'
  <2>1. CASE v = w /\ job'[w].pc = "release" /\ job'[w].steps = <<FALSE>>
    <3>1. ~Clean(v)'
      BY <2>1, Failed
    <3>2. QED BY <2>1, <3>1 DEF WorkerInv
  <2>2. CASE v = w /\ job'[w].pc = "step" /\ job'[w].steps = job[w].steps
    <3>1. thy'[s] = f
      BY <1>1, <1>2, <2>2 DEF ScriptType
    <3>2. doc'[f] = <<>> /\ f \in Orderly'
      BY <1>1, <1>6, <1>2 DEF Untouched, Orderly
    <3>3. Clean(v)' /\ 0 < Length
      BY <2>2, <1>6, EvaluationAssumption DEF Clean
    <3>4. QED BY <1>1, <1>6, <1>8, <2>2, <3>1, <3>2, <3>3 DEF WorkerInv
  <2>3. CASE v # w
    <3>1. job'[v] = job[v]
      BY <1>4, <2>3
    <3>2. job[v].file = 0 \/ job[v].file # f
      BY <2>3, <1>2 DEF FilesApart
    <3>3. job'[v].pc = "step" => thy'[job[v].sess] = thy[job[v].sess]
      <4>1. job[v].pc = "step" => job[v].sess # s /\ job[v].sess \in Sessions
        BY <1>2, <2>3 DEF HoldInv, Holding, ScriptType
      <4>2. QED BY <1>7, <3>1, <4>1
    <3>4. QED BY <1>1, <1>8, <3>1, <3>2, <3>3, WorkerKept DEF FilesApart, FileInv
  <2>4. QED BY <1>1, <2>1, <2>2, <2>3
<1>10. FileInv'
  <2>1. (\A i \in 1..Len(queue) : queue[i] # f)
        /\ \A i \in 1..Len(verdicts) : verdicts[i].file # f
    BY DEF FilesApart
  <2>2. QED BY <1>1, <1>8, <1>9, <2>1, FilesKept DEF FileInv
<1>11. QED BY <1>1, <1>3, <1>5, <1>10

\* A command of a file.
LEMMA StepInv ==
  ASSUME ScriptInv, NEW w \in Workers, Stepping(w)
  PROVE  ScriptInv'
<1> USE DEF ScriptInv
<1> DEFINE s == job[w].sess
           f == job[w].file
           n == Len(job[w].steps) + 1
<1>1. s # NoSession /\ s \in Sessions /\ f # 0 /\ f \in Script!Files /\ thy[s] = f
      /\ job[w] \in Jobs
  <2>1. job[w].pc = "step"
    BY DEF Stepping, Script!ClientStep, Script!GymStep, Script!QStep, Script!MayStep
  <2>2. s # NoSession /\ f # 0 /\ job[w] \in Jobs /\ thy[s] = f
    BY <2>1 DEF HoldInv, Holding, FilesApart, FileInv, WorkerInv, ScriptType
  <2>3. QED BY <2>2 DEF Jobs, Script!Files
<1>2. /\ ScriptType' /\ Others(w) /\ Workers' = Workers /\ job[w].pc = "step"
      /\ late[s] = 0
      /\ job'[w].file = f /\ job'[w].sess = s
      /\ \/ /\ job'[w].steps = Append(job[w].steps, TRUE) /\ late' = late
            /\ job'[w].pc = IF n < Length THEN "step" ELSE "release"
            /\ \E how \in Script!Outcomes : Script!Run(thy[s], s, n, how)
            /\ Script!AcceptedStep(doc'[thy[s]])
         \/ /\ job'[w].steps = Append(job[w].steps, FALSE) /\ job'[w].pc = "release"
            /\ \A g \in Script!Files : g # thy[s] => doc'[g] = doc[g]
            /\ \A t \in Sessions : t # s => late'[t] = late[t]
            /\ late' = late \/ script # "qisabelle"
      /\ UNCHANGED <<script, phase, queue, verdicts, leased, thy, lost>>
  BY <1>1, StepType
<1>3. HoldInv'
  <2>1. \A v \in Workers : /\ job'[v].sess = job[v].sess
                           /\ (job'[v].pc \in Holding) = (job[v].pc \in Holding)
    <3>1. TAKE v \in Workers
    <3>2. CASE v = w
      <4>1. job'[w].pc \in Holding /\ job[w].pc \in Holding
        BY <1>2 DEF Holding
      <4>2. QED BY <1>2, <3>2, <4>1
    <3>3. CASE v # w
      BY <1>2, <3>3 DEF Others
    <3>4. QED BY <3>2, <3>3
  <2>2. QED BY <1>2, <2>1, HoldKept
<1>4. \A v \in Workers : job'[v].file = job[v].file /\ (v # w => job'[v] = job[v])
  BY <1>2 DEF Others
<1>5. FilesApart'
  <2>1. \A v \in Workers : /\ job'[v].pc = "next" => job[v].pc = "next"
                           /\ job[v].file = 0 => job'[v].pc \in {"next", "stopped"}
    BY <1>1, <1>2, <1>4 DEF FilesApart
  <2>2. QED BY <1>2, <1>4, <2>1, ApartKept
<1>6. /\ f \in Orderly /\ Len(doc[f]) = Len(job[w].steps) /\ Clean(w) /\ f \in Quiet
      /\ \A k \in 1..Len(doc[f]) : doc[f][k].sess = s
  BY <1>1, <1>2 DEF FileInv, WorkerInv
<1>7. \A g \in Script!Files : g # f => doc'[g] = doc[g]
  <2>1. CASE \E how \in Script!Outcomes : Script!Run(thy[s], s, n, how)
    <3>1. n \in Nat
      BY <1>1 DEF Jobs
    <3>2. QED BY <1>1, <2>1, <3>1, RunType
  <2>2. QED BY <1>1, <1>2, <2>1
<1>8. Undisturbed(f)
  <2>1. \A t \in Sessions : t # s => late'[t] = late[t]
    BY <1>2
  <2>2. QED BY <1>1, <1>2, <1>7, <2>1 DEF Undisturbed, Quiet, Untouched
<1>9. WorkerInv(w)'
  <2>1. CASE job'[w].steps = Append(job[w].steps, FALSE) /\ job'[w].pc = "release"
    <3>1. n \in 1..Len(job'[w].steps) /\ ~job'[w].steps[n]
      BY <1>1, <2>1 DEF Jobs
    <3>2. ~(\A i \in 1..Len(job'[w].steps) : job'[w].steps[i])
      BY <3>1
    <3>3. ~Clean(w)'
      BY <3>2 DEF Clean
    <3>4. QED BY <2>1, <3>3 DEF WorkerInv
  <2>2. CASE /\ job'[w].steps = Append(job[w].steps, TRUE) /\ late' = late
             /\ job'[w].pc = IF n < Length THEN "step" ELSE "release"
             /\ \E how \in Script!Outcomes : Script!Run(thy[s], s, n, how)
             /\ Script!AcceptedStep(doc'[thy[s]])
    <3>1. PICK how \in Script!Outcomes : Script!Run(thy[s], s, n, how)
      BY <2>2
    <3> DEFINE e == [sess |-> s, cmd |-> n, how |-> how]
    <3>2. doc'[f] = Append(doc[f], e)
      <4>1. n \in Nat
        BY <1>1 DEF Jobs
      <4>2. QED BY <1>1, <3>1, <4>1, RunType
    <3>3. e.sess = s /\ e.cmd = n
      OBVIOUS
    <3> HIDE DEF e
    <3>4. /\ Len(doc'[f]) = n /\ doc'[f][n] = e
          /\ \A k \in 1..Len(doc[f]) : doc'[f][k] = doc[f][k]
      BY <1>1, <1>6, <3>2 DEF ScriptType
    <3>5. Len(job'[w].steps) = n /\ n \in Nat /\ n >= 1
      BY <1>1, <2>2 DEF Jobs
    <3>6. \A k \in 1..n : k = n \/ k \in 1..Len(doc[f])
      BY <1>6, <3>5
    <3>7. \A k \in 1..n : doc'[f][k].cmd = k /\ doc'[f][k].sess = s
      BY <1>6, <3>3, <3>4, <3>6 DEF Orderly
    <3>15. ASSUME NEW k \in 1..n, doc'[f][k].how \in Script!Erroneous
           PROVE  /\ script # "qisabelle"
                  /\ \E m \in 1..k : /\ doc'[f][m].how \in Script!Warnings
                                    /\ \A i \in 1..m-1 : doc'[f][i].how = "fine"
      <4>1. Script!AcceptedStep(doc'[f])
        BY <1>1, <2>2
      <4>2. script # "qisabelle"
        <5>1. SUFFICES ASSUME script = "qisabelle" PROVE FALSE
          OBVIOUS
        <5>2. e.how \notin Script!Erroneous
          BY <3>4, <4>1, <5>1 DEF Script!AcceptedStep, Script!Erroneous
        <5>3. k \in 1..Len(doc[f])
          BY <3>4, <3>6, <3>15, <5>2
        <5>4. doc[f][k].how \in Script!Erroneous
          BY <3>4, <3>15, <5>3
        <5>5. QED BY <1>6, <5>1, <5>3, <5>4 DEF Orderly
      <4>3. PICK m \in 1..n : /\ doc'[f][m].how \in Script!Warnings
                              /\ \A i \in 1..m-1 : doc'[f][i].how = "fine"
        <5>1. DOMAIN doc'[f] = 1..n
          BY <1>1, <1>2, <3>4 DEF ScriptType
        <5>2. QED BY <3>15, <4>1, <4>2, <5>1 DEF Script!AcceptedStep, Script!Ignored
      <4>4. m <= k
        <5>1. SUFFICES ASSUME m > k PROVE FALSE
          BY <3>5
        <5>2. k \in 1..m-1
          BY <3>5, <5>1
        <5>3. QED BY <3>15, <4>3, <5>2 DEF Script!Erroneous
      <4>5. m \in 1..k
        BY <3>5, <4>4
      <4>6. QED BY <4>2, <4>3, <4>5
    <3>8. f \in Orderly'
      <4>1. \A k \in 1..Len(doc'[f]) : doc'[f][k].cmd = k /\ doc'[f][k].sess = doc'[f][1].sess
        BY <3>4, <3>5, <3>7
      <4>2. script' = script
        BY <1>2
      <4>3. QED BY <1>1, <3>4, <3>15, <4>1, <4>2 DEF Orderly, Script!Files
    <3>9. Clean(w)'
      <4>1. \A i \in 1..n : i = n \/ i \in 1..Len(job[w].steps)
        BY <1>1 DEF Jobs
      <4>2. \A i \in 1..n : job'[w].steps[i]
        BY <1>1, <1>6, <2>2, <4>1 DEF Clean, Jobs
      <4>3. QED BY <3>5, <4>2 DEF Clean
    <3>10. f \in Quiet'
      BY <1>2, <1>6, <2>2 DEF Quiet
    <3>11. n <= Length
      <4>1. Len(job[w].steps) < Length
        BY <1>2 DEF FileInv, WorkerInv
      <4>2. QED BY <1>1, <4>1, EvaluationAssumption DEF Jobs
    <3>12. CASE n < Length
      BY <1>1, <1>2, <2>2, <3>4, <3>5, <3>7, <3>8, <3>9, <3>10, <3>12 DEF WorkerInv
    <3>13. CASE ~(n < Length)
      <4>1. n = Length /\ job'[w].pc = "release"
        BY <2>2, <3>5, <3>11, <3>13, EvaluationAssumption
      <4>2. QED BY <1>2, <3>4, <3>8, <3>10, <4>1 DEF WorkerInv
    <3>14. QED BY <3>12, <3>13
  <2>3. QED BY <1>2, <2>1, <2>2
<1>10. ASSUME NEW v \in Workers, v # w PROVE WorkerInv(v)'
  <2>1. job'[v] = job[v]
    BY <1>4, <1>10
  <2>2. job[v].file = 0 \/ job[v].file # f
    BY <1>10, <1>1 DEF FilesApart
  <2>3. QED BY <1>2, <1>8, <2>1, <2>2, WorkerKept DEF FilesApart, FileInv
<1>11. FileInv'
  <2>1. (\A i \in 1..Len(queue) : queue[i] # f)
        /\ \A i \in 1..Len(verdicts) : verdicts[i].file # f
    BY DEF FilesApart
  <2>2. script = "qisabelle" => \A t \in Sessions : late'[t] = 0
    BY <1>2 DEF FileInv
  <2>3. \A v \in Workers : WorkerInv(v)'
    BY <1>9, <1>10
  <2>4. QED BY <1>2, <1>8, <2>1, <2>2, <2>3, FilesKept
<1>12. QED BY <1>2, <1>3, <1>5, <1>11

\* newTheory.
LEMMA NewTheoryInv ==
  ASSUME ScriptInv, NEW w \in Workers, Script!NewTheory(w), script = "qisabelle"
  PROVE  ScriptInv'
<1> USE DEF ScriptInv
<1> DEFINE f == job[w].file
<1>1. /\ ScriptType' /\ Others(w) /\ Workers' = Workers /\ job[w].pc = "open"
      /\ phase = "running" /\ job'[w].file = f
      /\ \/ \E s \in leased :
              /\ job'[w].pc = "step" /\ job'[w].sess = s /\ job'[w].steps = <<TRUE>>
              /\ thy' = [thy EXCEPT ![s] = f] /\ Script!Run(f, s, 1, "fine")
         \/ /\ job'[w].pc = "record" /\ job'[w].sess = job[w].sess
            /\ job'[w].steps = <<FALSE>> /\ thy' = thy /\ doc' = doc
      /\ UNCHANGED <<script, phase, queue, verdicts, leased, late, lost>>
  BY NewTheoryType
<1>2. \A v \in Workers : v = w
  BY DEF Workers, Script!Crew
<1>3. job[w].sess = NoSession /\ f # 0 /\ f \in Script!Files
  <2>1. job[w].sess = NoSession /\ f # 0 /\ job[w] \in Jobs
    BY <1>1 DEF HoldInv, Holding, FilesApart, ScriptType
  <2>2. QED BY <2>1 DEF Jobs, Script!Files
<1>4. FilesApart'
  <2>1. \A v \in Workers : /\ job'[v].pc = "next" => job[v].pc = "next"
                           /\ job[v].file = 0 => job'[v].pc \in {"next", "stopped"}
                           /\ job'[v].file = job[v].file
    BY <1>1, <1>2, <1>3
  <2>2. QED BY <1>1, <2>1, ApartKept
<1>5. f \in Untouched /\ \A t \in Sessions : late[t] = 0
  BY <1>1 DEF FileInv, WorkerInv
<1>6. Quiet' = Script!Files
  BY <1>1, <1>5 DEF Quiet
<1>7. CASE /\ job'[w].pc = "record" /\ job'[w].sess = job[w].sess
           /\ job'[w].steps = <<FALSE>> /\ thy' = thy /\ doc' = doc
  <2>1. HoldInv'
    BY <1>1, <1>2, <1>3, <1>7 DEF HoldInv, Holding
  <2>2. ~Clean(w)'
    BY <1>7, Failed
  <2>3. WorkerInv(w)'
    BY <1>7, <2>2 DEF WorkerInv
  <2>4. FileInv'
    BY <1>1, <1>2, <1>7, <2>3, FilesSame
  <2>5. QED BY <1>1, <1>4, <2>1, <2>4
<1>8. ASSUME NEW s \in leased,
             job'[w].pc = "step" /\ job'[w].sess = s /\ job'[w].steps = <<TRUE>>,
             thy' = [thy EXCEPT ![s] = f] /\ Script!Run(f, s, 1, "fine")
      PROVE  ScriptInv'
  <2>1. s \in Sessions /\ s # NoSession
    BY EvaluationAssumption DEF ScriptType
  <2>2. HoldInv'
    BY <1>1, <1>2, <1>8, <2>1 DEF HoldInv, Holding
  <2> DEFINE e == [sess |-> s, cmd |-> 1, how |-> "fine"]
  <2>3. /\ \A g \in Script!Files : g # f => doc'[g] = doc[g]
        /\ doc'[f] = Append(doc[f], e)
    <3>1. "fine" \in Script!Outcomes /\ 1 \in Nat
      BY DEF Script!Outcomes
    <3> HIDE DEF f
    <3>2. QED BY <1>3, <1>8, <2>1, <3>1, RunType
  <2>4. e.sess = s /\ e.cmd = 1 /\ e.how \notin Script!Erroneous
    BY DEF Script!Erroneous
  <2> HIDE DEF e
  <2>5. Len(doc'[f]) = 1 /\ doc'[f][1] = e
    BY <1>5, <2>3 DEF Untouched
  <2>6. f \in Orderly'
    BY <1>3, <2>4, <2>5 DEF Orderly, Script!Files
  <2>7. thy'[s] = f /\ \A t \in Sessions : thy'[t] \in {thy[t], f}
    BY <1>8, <2>1 DEF ScriptType
  <2>8. Undisturbed(f)
    BY <1>1, <1>3, <1>6, <2>3, <2>7 DEF Undisturbed, Untouched, Quiet
  <2>9. Clean(w)' /\ Len(job'[w].steps) = 1 /\ 1 < Length
    <3>1. Len(job'[w].steps) = 1 /\ job'[w].steps[1] = TRUE
      BY <1>8
    <3>2. \A i \in 1..Len(job'[w].steps) : job'[w].steps[i]
      BY <3>1
    <3>3. QED BY <3>1, <3>2, EvaluationAssumption DEF Clean
  <2>10. WorkerInv(w)'
    BY <1>1, <1>3, <1>6, <1>8, <2>4, <2>5, <2>6, <2>7, <2>9 DEF WorkerInv
  <2>11. (\A i \in 1..Len(queue) : queue[i] # f)
         /\ \A i \in 1..Len(verdicts) : verdicts[i].file # f
    BY DEF FilesApart
  <2>12. FileInv'
    BY <1>1, <1>2, <1>5, <2>8, <2>10, <2>11, FilesKept
  <2>13. QED BY <1>1, <1>4, <2>2, <2>12
<1>9. QED BY <1>1, <1>7, <1>8

\* A session is left.
LEMMA ReleasedInv ==
  ASSUME ScriptInv, NEW w \in Workers, Releasing(w)
  PROVE  ScriptInv'
<1> USE DEF ScriptInv
<1> DEFINE s == job[w].sess
<1>1. /\ ScriptType' \/ s \notin Sessions
      /\ Others(w) /\ Workers' = Workers /\ job[w].pc = "release"
      /\ job'[w].pc = IF phase = "aborting" THEN "stopped" ELSE "record"
      /\ job'[w].file = job[w].file /\ job'[w].sess = NoSession
      /\ job'[w].steps = job[w].steps
      /\ \/ script # "qisabelle" /\ leased' = leased \ {s} /\ lost' = lost
         \/ script # "qisabelle" /\ lost' = lost \cup {s} /\ leased' = leased
         \/ script = "qisabelle" /\ leased' = leased /\ lost' = lost
      /\ UNCHANGED <<script, phase, queue, verdicts, thy, late, doc>>
  BY ReleasedType
<1>2. s # NoSession /\ s \in Sessions /\ job[w].file # 0
  <2>1. s # NoSession /\ job[w].file # 0 /\ job[w] \in Jobs
    BY <1>1 DEF HoldInv, Holding, FilesApart, ScriptType
  <2>2. QED BY <2>1 DEF Jobs
<1>3. \A v \in Workers : job'[v].file = job[v].file /\ (v # w => job'[v] = job[v])
  BY <1>1 DEF Others
<1>4. \A v \in Workers : v # w => job[v].sess # s
  BY <1>2 DEF HoldInv
<1>5. HoldInv'
  <2>1. (\A v \in Workers : /\ (job[v].pc \in Holding) = (job[v].sess # NoSession)
                            /\ job[v].sess \in leased \cup {NoSession})'
    <3>1. ASSUME NEW v \in Workers
          PROVE  /\ (job'[v].pc \in Holding) = (job'[v].sess # NoSession)
                 /\ job'[v].sess \in leased' \cup {NoSession}
      <4>1. CASE v = w
        BY <1>1, <4>1 DEF Holding
      <4>2. CASE v # w
        <5>1. job[v].sess \in leased' \cup {NoSession}
          BY <1>1, <1>4, <4>2 DEF HoldInv
        <5>2. QED BY <1>3, <4>2, <5>1 DEF HoldInv
      <4>3. QED BY <4>1, <4>2
    <3>2. QED BY <1>1, <3>1 DEF Holding
  <2>2. (\A u, v \in Workers : job[u].sess = job[v].sess /\ job[u].sess # NoSession => u = v)'
    BY <1>1, <1>3 DEF HoldInv
  <2>3. ASSUME script # "qisabelle", NEW t \in leased' \ lost'
        PROVE  \E v \in Workers : job'[v].sess = t
    <3>1. t # s /\ t \in leased \ lost
      BY <1>1, <2>3
    <3>2. PICK v \in Workers : job[v].sess = t
      BY <2>3, <3>1 DEF HoldInv
    <3>3. v # w
      BY <3>1, <3>2
    <3>4. QED BY <1>3, <3>2, <3>3
  <2>4. QED BY <1>1, <2>1, <2>2, <2>3 DEF HoldInv
<1>6. FilesApart'
  <2>1. \A v \in Workers : /\ job'[v].pc = "next" => job[v].pc = "next"
                           /\ job[v].file = 0 => job'[v].pc \in {"next", "stopped"}
    BY <1>1, <1>2, <1>3 DEF FilesApart
  <2>2. QED BY <1>1, <1>3, <2>1, ApartKept
<1>7. ASSUME NEW v \in Workers PROVE WorkerInv(v)'
  <2>1. CASE v = w
    <3>1. Clean(w)' = Clean(w) /\ Quiet' = Quiet /\ Orderly' = Orderly
      BY <1>1 DEF Clean, Quiet, Orderly
    <3>2. job'[w].pc \in {"stopped", "record"} /\ WorkerInv(w)
      BY <1>1 DEF FileInv
    <3>3. QED BY <1>1, <2>1, <3>1, <3>2 DEF WorkerInv
  <2>2. CASE v # w
    <3>1. job'[v] = job[v]
      BY <1>3, <2>2
    <3>2. QED BY <1>1, <3>1, WorkerSame DEF FileInv
  <2>3. QED BY <2>1, <2>2
<1>8. FileInv'
  BY <1>1, <1>7, FilesSame
<1>9. QED BY <1>1, <1>2, <1>5, <1>6, <1>8

\* A file without a session has its result.
LEMMA ReportInv ==
  ASSUME ScriptInv, NEW w \in Workers, NEW ok \in BOOLEAN, Script!Report(w, ok),
         job[w].pc \in {"open", "record"}, Undisturbed(job[w].file),
         ok => /\ job[w].file \in Orderly' /\ job[w].file \in Quiet'
               /\ Len(doc'[job[w].file]) = Length,
         doc' \in [Script!Files -> Seq(Entries)],
         UNCHANGED <<script, phase, queue, leased, thy, late, lost>>
  PROVE  ScriptInv'
<1> USE DEF ScriptInv
<1> DEFINE f == job[w].file
           new == Len(verdicts) + 1
<1>1. job[w].sess = NoSession /\ f # 0 /\ f \in Script!Files
  <2>1. job[w].sess = NoSession /\ f # 0 /\ job[w] \in Jobs
    BY DEF HoldInv, Holding, FilesApart, ScriptType
  <2>2. QED BY <2>1 DEF Jobs, Script!Files
<1>2. /\ job' \in [Workers -> Jobs] /\ Others(w) /\ job'[w].pc = "next"
      /\ job'[w].file = 0 /\ job'[w].sess = NoSession /\ job'[w].steps = <<>>
      /\ verdicts' \in Seq(Verdicts)
      /\ Len(verdicts') = new
      /\ \A i \in 1..Len(verdicts) : verdicts'[i] = verdicts[i]
      /\ verdicts'[new].file = f /\ verdicts'[new].ok = ok
  BY <1>1, ReportType
<1>3. Workers' = Workers
  BY SameCrew
<1>4. ScriptType'
  BY <1>2, <1>3 DEF ScriptType, Entries
<1>5. HoldInv'
  <2>1. \A v \in Workers : /\ job'[v].sess = job[v].sess
                           /\ (job'[v].pc \in Holding) = (job[v].pc \in Holding)
    <3>1. TAKE v \in Workers
    <3>2. CASE v = w
      <4>1. job'[w].pc \notin Holding /\ job[w].pc \notin Holding
        BY <1>2 DEF Holding
      <4>2. QED BY <1>1, <1>2, <3>2, <4>1
    <3>3. CASE v # w
      BY <1>2, <3>3 DEF Others
    <3>4. QED BY <3>2, <3>3
  <2>2. QED BY <1>3, <2>1, HoldKept
<1>6. /\ \A v \in Workers : v # w => job'[v] = job[v]
      /\ \A i \in 1..Len(verdicts') : i = new \/ i \in 1..Len(verdicts)
  BY <1>2 DEF Others, ScriptType
<1>7. FilesApart'
  <2>1. \A i \in 1..Len(queue) : \A v \in Workers : job'[v].file # queue[i]
    <3> TAKE i \in 1..Len(queue)
    <3> TAKE v \in Workers
    <3>2. queue[i] \in Script!Files
      BY DEF ScriptType
    <3>3. CASE v = w
      BY <1>2, <3>2, <3>3 DEF Script!Files
    <3>4. CASE v # w
      BY <1>6, <3>4 DEF FilesApart
    <3>5. QED BY <3>3, <3>4
  <2>2. \A i \in 1..Len(queue) : \A k \in 1..Len(verdicts') : verdicts'[k].file # queue[i]
    <3> TAKE i \in 1..Len(queue)
    <3> TAKE k \in 1..Len(verdicts')
    <3>2. CASE k = new
      BY <1>2, <3>2 DEF FilesApart
    <3>3. CASE k \in 1..Len(verdicts)
      BY <1>2, <3>3 DEF FilesApart
    <3>4. QED BY <1>6, <3>2, <3>3
  <2>3. \A v \in Workers : \A k \in 1..Len(verdicts') : verdicts'[k].file # job'[v].file
    <3> TAKE v \in Workers
    <3> TAKE k \in 1..Len(verdicts')
    <3>1. verdicts'[k] \in Verdicts
      BY <1>2
    <3>2. verdicts'[k].file \in Script!Files
      BY <3>1 DEF Verdicts
    <3>3. CASE v = w
      <4>1. job'[v].file = 0
        BY <1>2, <3>3
      <4>2. QED BY <3>2, <4>1 DEF Script!Files
    <3>4. CASE v # w /\ k = new
      BY <1>1, <1>2, <1>6, <3>4 DEF FilesApart
    <3>5. CASE v # w /\ k \in 1..Len(verdicts)
      <4>1. job'[v] = job[v] /\ verdicts'[k] = verdicts[k]
        BY <1>2, <1>6, <3>5
      <4>2. QED BY <3>5, <4>1 DEF FilesApart
    <3>6. QED BY <1>6, <3>3, <3>4, <3>5
  <2>4. \A u, v \in Workers : job'[u].file = job'[v].file /\ job'[u].file # 0 => u = v
    BY <1>2, <1>6 DEF FilesApart
  <2>5. \A v \in Workers : /\ job'[v].pc = "next" => job'[v].file = 0
                           /\ job'[v].pc \notin {"next", "stopped"} => job'[v].file # 0
    BY <1>2, <1>6 DEF FilesApart
  <2>6. QED BY <1>3, <2>1, <2>2, <2>3, <2>4, <2>5 DEF FilesApart
<1>8. ASSUME NEW v \in Workers PROVE WorkerInv(v)'
  <2>1. CASE v = w
    BY <1>2, <2>1 DEF WorkerInv
  <2>2. CASE v # w
    <3>1. job'[v] = job[v] /\ job[v].file # f
      BY <1>1, <1>6, <2>2 DEF FilesApart
    <3>2. QED BY <3>1, WorkerKept DEF FilesApart, FileInv
  <2>3. QED BY <2>1, <2>2
<1>9. FileInv'
  <2>1. \A i \in 1..Len(queue) : queue[i] \in Untouched'
    BY DEF FileInv, Undisturbed, FilesApart
  <2>2. \A i \in 1..Len(verdicts) : verdicts[i].ok =>
          LET g == verdicts[i].file IN g \in Orderly' \cap Quiet' /\ Len(doc'[g]) = Length
    BY VerdictsKept DEF FilesApart
  <2>3. \A i \in 1..Len(verdicts') : verdicts'[i].ok =>
          LET g == verdicts'[i].file IN g \in Orderly' \cap Quiet' /\ Len(doc'[g]) = Length
    BY <1>2, <1>6, <2>2
  <2>4. (\A i \in 1..Len(queue) : queue[i] \in Untouched)'
    BY <2>1
  <2>5. (\A i \in 1..Len(verdicts) : verdicts[i].ok =>
           LET g == verdicts[i].file IN g \in Orderly \cap Quiet /\ Len(doc[g]) = Length)'
    BY <2>3
  <2>6. (\A v \in Workers : WorkerInv(v))'
    BY <1>3, <1>8
  <2>7. (script = "qisabelle" => \A t \in Sessions : late[t] = 0)'
    BY DEF FileInv
  <2>8. QED BY <2>4, <2>5, <2>6, <2>7 DEF FileInv
<1>10. QED BY <1>4, <1>5, <1>7, <1>9

\* A file that was executed command by command.
LEMMA RecordInv ==
  ASSUME ScriptInv, NEW w \in Workers, Script!Record(w)
  PROVE  ScriptInv'
<1> USE DEF ScriptInv
<1> DEFINE ok == Script!Ok(job[w])
           f == job[w].file
<1>1. /\ phase = "running" /\ job[w].pc = "record" /\ Script!Report(w, ok)
      /\ UNCHANGED <<script, phase, queue, leased, thy, late, doc, lost>>
  BY DEF Script!Record, Script!serverVars
<1>2. job[w] \in Jobs /\ ok \in BOOLEAN
  BY DEF ScriptType, Jobs, Script!Ok
<1>3. ASSUME ok PROVE Clean(w)
  <2>1. FALSE \notin {job[w].steps[i] : i \in DOMAIN job[w].steps}
    BY <1>3 DEF Script!Ok, Script!Range
  <2>2. job[w].steps \in Seq(BOOLEAN)
    BY <1>2 DEF Jobs
  <2>3. ASSUME NEW i \in 1..Len(job[w].steps) PROVE job[w].steps[i] = TRUE
    <3>1. job[w].steps[i] \in BOOLEAN /\ i \in DOMAIN job[w].steps
      BY <2>2
    <3>2. job[w].steps[i] # FALSE
      BY <2>1, <3>1
    <3>3. QED BY <3>1, <3>2
  <2>4. QED BY <2>3 DEF Clean
<1>4. Undisturbed(f)
  BY <1>1 DEF Undisturbed, Quiet, Untouched
<1>5. ASSUME ok PROVE f \in Orderly' /\ f \in Quiet' /\ Len(doc'[f]) = Length
  <2>1. f # 0 /\ WorkerInv(w)
    BY <1>1 DEF FilesApart, FileInv
  <2>2. f \in Orderly /\ f \in Quiet /\ Len(doc[f]) = Length
    BY <1>1, <1>3, <1>5, <2>1 DEF WorkerInv
  <2>3. QED BY <1>1, <2>2 DEF Orderly, Quiet
<1>6. doc' \in [Script!Files -> Seq(Entries)]
  BY <1>1 DEF ScriptType
<1> HIDE DEF ok
<1>7. QED BY <1>1, <1>2, <1>4, <1>5, <1>6, ReportInv

\* A file that is built as a whole.
LEMMA BuiltInv ==
  ASSUME ScriptInv, NEW w \in Workers, NEW n \in 0..Length, NEW ok \in BOOLEAN,
         ok => n = Length, phase = "running", job[w].pc = "open",
         Script!Built(job[w].file, n), Script!Report(w, ok),
         UNCHANGED <<script, phase, queue, leased, thy, late, lost>>
  PROVE  ScriptInv'
<1> USE DEF ScriptInv
<1> DEFINE f == job[w].file
           g == [i \in 1..n |-> [sess |-> NoSession, cmd |-> i, how |-> "fine"]]
<1>1. f \in Untouched /\ f \in Script!Files
  BY DEF FileInv, WorkerInv, Untouched
<1>2. doc' = [doc EXCEPT ![f] = g]
  BY DEF Script!Built
<1>3. n \in Nat
  BY EvaluationAssumption
<1>4. /\ g \in Seq(Entries) /\ Len(g) = n
      /\ \A i \in 1..n : /\ g[i].cmd = i /\ g[i].sess = NoSession
                        /\ g[i].how \notin Script!Erroneous
  <2>1. \A i \in 1..n : [sess |-> NoSession, cmd |-> i, how |-> "fine"] \in Entries
    BY <1>3 DEF Entries, Script!Outcomes
  <2>2. g \in [1..n -> Entries]
    BY <2>1
  <2>3. g \in Seq(Entries) /\ Len(g) = n
    BY <1>3, <2>2
  <2>4. QED BY <2>3 DEF Script!Erroneous
<1> HIDE DEF g
<1>5. /\ doc' \in [Script!Files -> Seq(Entries)] /\ doc'[f] = g
      /\ \A h \in Script!Files : h # f => doc'[h] = doc[h]
  BY <1>1, <1>2, <1>4 DEF ScriptType
<1>6. Undisturbed(f)
  BY <1>5 DEF Undisturbed, Quiet, Untouched
<1>7. f \in Quiet'
  BY <1>1 DEF Quiet, Untouched
<1>8. ASSUME ok PROVE f \in Orderly' /\ Len(doc'[f]) = Length
  <2>1. n = Length /\ 1 \in 1..n
    BY <1>8, EvaluationAssumption
  <2>2. \A k \in 1..Len(doc'[f]) : /\ doc'[f][k].cmd = k /\ doc'[f][k].sess = doc'[f][1].sess
                                   /\ doc'[f][k].how \notin Script!Erroneous
    BY <1>4, <1>5, <2>1
  <2>3. QED BY <1>1, <1>4, <1>5, <2>1, <2>2 DEF Orderly
<1>9. QED BY <1>5, <1>6, <1>7, <1>8, ReportInv

\* A worker stops.
LEMMA StopInv ==
  ASSUME ScriptInv, NEW w \in Workers, Script!Stop(w)
  PROVE  ScriptInv'
<1> USE DEF ScriptInv
<1> DEFINE r == [job[w] EXCEPT !.pc = "stopped"]
<1>1. /\ job[w].pc = "next" /\ job' = [job EXCEPT ![w] = r]
      /\ UNCHANGED <<script, phase, queue, verdicts, leased, thy, late, doc, lost>>
  BY DEF Script!Stop, Script!Move, Script!serverVars, ScriptType
<1>2. job[w] \in Jobs
  BY DEF ScriptType
<1>3. /\ r \in Jobs /\ r.pc = "stopped" /\ r.file = job[w].file /\ r.sess = job[w].sess
      /\ r.steps = job[w].steps
  BY <1>2 DEF Jobs, Places
<1> HIDE DEF r
<1>4. job' \in [Workers -> Jobs] /\ Others(w) /\ job'[w] = r
  BY <1>1, <1>3, JobUpdate DEF ScriptType
<1>5. Workers' = Workers
  BY <1>1, SameCrew
<1>6. ScriptType'
  BY <1>1, <1>4, <1>5 DEF ScriptType, Entries
<1>7. job[w].file = 0
  BY <1>1 DEF FilesApart
<1>8. \A v \in Workers : v # w => job'[v] = job[v]
  BY <1>4 DEF Others
<1>9. HoldInv'
  <2>1. \A v \in Workers : /\ job'[v].sess = job[v].sess
                           /\ (job'[v].pc \in Holding) = (job[v].pc \in Holding)
    <3>1. TAKE v \in Workers
    <3>2. CASE v = w
      <4>1. job'[w].pc \notin Holding /\ job[w].pc \notin Holding
        BY <1>1, <1>3, <1>4 DEF Holding
      <4>2. QED BY <1>3, <1>4, <3>2, <4>1
    <3>3. CASE v # w
      BY <1>8, <3>3
    <3>4. QED BY <3>2, <3>3
  <2>2. QED BY <1>1, <1>5, <2>1, HoldKept
<1>10. FilesApart'
  <2>1. \A v \in Workers : /\ job'[v].file = job[v].file
                           /\ job'[v].pc = "next" => job[v].pc = "next"
                           /\ job[v].file = 0 => job'[v].pc \in {"next", "stopped"}
    <3>1. TAKE v \in Workers
    <3>2. CASE v = w
      BY <1>3, <1>4, <3>2
    <3>3. CASE v # w
      BY <1>8, <3>3 DEF FilesApart
    <3>4. QED BY <3>2, <3>3
  <2>2. QED BY <1>1, <1>5, <2>1, ApartKept
<1>11. ASSUME NEW v \in Workers PROVE WorkerInv(v)'
  <2>1. CASE v = w
    BY <1>3, <1>4, <1>7, <2>1 DEF WorkerInv
  <2>2. CASE v # w
    BY <1>1, <1>8, <2>2, WorkerSame DEF FileInv
  <2>3. QED BY <2>1, <2>2
<1>12. FileInv'
  BY <1>1, <1>5, <1>11, FilesSame
<1>13. QED BY <1>6, <1>9, <1>10, <1>12

\* The script is over.
LEMMA FinishInv ==
  ASSUME ScriptInv, Script!Finish
  PROVE  ScriptInv'
<1> USE DEF ScriptInv
<1>1. /\ phase \in {"running", "aborting"} /\ \A w \in Workers : job[w].pc = "stopped"
      /\ phase' \in {"written", "aborted"}
      /\ \/ leased' = (IF script = "qisabelle" THEN {} ELSE leased) /\ lost' = lost
         \/ script = "qisabelle" /\ lost' = leased /\ leased' = leased
      /\ UNCHANGED <<script, queue, job, verdicts, thy, late, doc>>
  BY DEF Script!Finish, Workers
<1>2. Workers' = Workers
  BY <1>1, SameCrew
<1>3. ScriptType'
  BY <1>1, <1>2 DEF ScriptType, Entries
<1>4. \A w \in Workers : job[w].sess = NoSession
  BY <1>1 DEF HoldInv, Holding
<1>5. HoldInv'
  <2>1. (\A w \in Workers : /\ (job[w].pc \in Holding) = (job[w].sess # NoSession)
                            /\ job[w].sess \in leased \cup {NoSession})'
    BY <1>1, <1>2, <1>4 DEF HoldInv, Holding
  <2>2. (\A v, w \in Workers : job[v].sess = job[w].sess /\ job[w].sess # NoSession => v = w)'
    BY <1>1, <1>2, <1>4
  <2>3. script = "qisabelle" => leased' \subseteq lost'
    BY <1>1
  <2>4. script # "qisabelle" => leased' = leased /\ lost' = lost
    BY <1>1
  <2>5. QED BY <1>1, <1>2, <2>1, <2>2, <2>3, <2>4 DEF HoldInv
<1>6. FilesApart'
  BY <1>1, <1>2 DEF FilesApart
<1>7. \A w \in Workers : WorkerInv(w)'
  BY <1>1, WorkerSame DEF FileInv
<1>8. FileInv'
  BY <1>1, <1>2, <1>7, FilesSame
<1>9. QED BY <1>3, <1>5, <1>6, <1>8

\* qIsabelle opens its session.
LEMMA OpenSharedInv ==
  ASSUME ScriptInv, Script!OpenShared
  PROVE  ScriptInv'
<1> USE DEF ScriptInv
<1>1. /\ phase = "opening"
      /\ \/ \E s \in Sessions : leased' = {s} /\ phase' = "running"
         \/ phase' = "aborted" /\ leased' = leased
      /\ UNCHANGED <<script, queue, job, verdicts, thy, late, doc, lost>>
  BY DEF Script!OpenShared
<1>2. Workers' = Workers
  BY <1>1, SameCrew
<1>3. ScriptType'
  BY <1>1, <1>2 DEF ScriptType, Entries
<1>4. script = "qisabelle" /\ leased = {}
  BY <1>1 DEF HoldInv
<1>5. HoldInv'
  BY <1>1, <1>2, <1>4 DEF HoldInv, Holding
<1>6. FilesApart'
  BY <1>1, <1>2 DEF FilesApart
<1>7. \A w \in Workers : WorkerInv(w)'
  BY <1>1, WorkerSame DEF FileInv
<1>8. FileInv'
  BY <1>1, <1>2, <1>7, FilesSame
<1>9. QED BY <1>3, <1>5, <1>6, <1>8

\* A command that timed out runs after all: in no file that is quiet.
LEMMA LateRunsInv ==
  ASSUME ScriptInv, NEW s \in Sessions, Script!LateRuns(s)
  PROVE  ScriptInv'
<1> USE DEF ScriptInv
<1> DEFINE f == thy[s]
<1>1. /\ late[s] # 0 /\ late' = [late EXCEPT ![s] = 0]
      /\ \E how \in Script!Outcomes : Script!Run(f, s, late[s], how)
      /\ UNCHANGED <<script, phase, queue, job, verdicts, leased, thy, lost>>
  BY DEF Script!LateRuns, Script!scriptVars
<1>2. Workers' = Workers
  BY <1>1, SameCrew
<1>3. /\ doc' \in [Script!Files -> Seq(Entries)]
      /\ \A g \in Script!Files : g # f => doc'[g] = doc[g]
  <2>1. late[s] \in Nat
    BY DEF ScriptType
  <2>2. QED BY <1>1, <2>1, RunType
<1>4. /\ late' \in [Sessions -> Nat] /\ late'[s] = 0
      /\ \A t \in Sessions : late[t] = 0 => late'[t] = 0
  BY <1>1 DEF ScriptType
<1>5. ScriptType'
  BY <1>1, <1>2, <1>3, <1>4 DEF ScriptType, Entries
<1>6. HoldInv'
  BY <1>1, <1>2 DEF HoldInv
<1>7. FilesApart'
  BY <1>1, <1>2 DEF FilesApart
<1>8. f \notin Quiet /\ f \notin Untouched
  BY <1>1 DEF Quiet, Untouched
<1>9. Undisturbed(0)
  <2>1. ASSUME NEW g \in Quiet PROVE g \in Quiet' /\ doc'[g] = doc[g]
    BY <1>1, <1>3, <1>4, <1>8 DEF Quiet
  <2>2. ASSUME NEW g \in Untouched PROVE g \in Untouched'
    BY <1>1, <1>3, <1>8 DEF Untouched
  <2>3. QED BY <2>1, <2>2 DEF Undisturbed
<1>10. \A w \in Workers : WorkerInv(w)'
  BY <1>1, <1>9, WorkerKept DEF FilesApart, FileInv
<1>11. FileInv'
  <2>1. \A i \in 1..Len(queue) : queue[i] # 0
    <3>1. TAKE i \in 1..Len(queue)
    <3>2. queue[i] \in Script!Files
      BY DEF ScriptType
    <3>3. QED BY <3>2 DEF Verdicts, Script!Files
  <2>2. \A i \in 1..Len(verdicts) : verdicts[i].file # 0
    <3>1. TAKE i \in 1..Len(verdicts)
    <3>2. verdicts[i] \in Verdicts
      BY DEF ScriptType
    <3>3. QED BY <3>2 DEF Verdicts, Script!Files
  <2>3. script = "qisabelle" => \A t \in Sessions : late'[t] = 0
    BY <1>4 DEF FileInv
  <2>4. QED BY <1>1, <1>2, <1>9, <1>10, <2>1, <2>2, <2>3, FilesKept
<1>12. QED BY <1>5, <1>6, <1>7, <1>11

\* Another program.
LEMMA ScriptStays ==
  ASSUME ScriptInv,
         UNCHANGED <<script, phase, queue, job, verdicts, leased, thy, late, doc, lost>>
  PROVE  ScriptInv'
<1>1. Workers' = Workers
  BY SameCrew
<1>2. Quiet' = Quiet /\ Untouched' = Untouched /\ Orderly' = Orderly
  BY DEF Quiet, Untouched, Orderly
<1>3. \A w \in Workers : WorkerInv(w)'
  BY WorkerSame DEF ScriptInv, FileInv
<1>4. FileInv'
  BY <1>1, <1>3, FilesSame DEF ScriptInv
<1>5. ScriptType'
  BY <1>1 DEF ScriptInv, ScriptType, Entries
<1>6. HoldInv'
  BY <1>1 DEF ScriptInv, HoldInv
<1>7. FilesApart'
  BY <1>1 DEF ScriptInv, FilesApart
<1>8. QED BY <1>4, <1>5, <1>6, <1>7 DEF ScriptInv

\* Every step of a script.
LEMMA ScriptNext ==
  ASSUME ScriptInv, Script!Next
  PROVE  ScriptInv'
<1>1. CASE Script!OpenShared
  BY <1>1, OpenSharedInv
<1>2. CASE Script!Finish
  BY <1>2, FinishInv
<1>3. CASE Script!Over
  <2>1. UNCHANGED <<script, phase, queue, job, verdicts, leased, thy, late, doc, lost>>
    BY <1>3 DEF Script!Over, Script!vars
  <2>2. QED BY <2>1, ScriptStays
<1>4. CASE \E s \in Sessions : Script!LateRuns(s)
  BY <1>4, LateRunsInv
<1>5. ASSUME NEW w \in Workers,
             Script!Take(w) \/ Script!Stop(w) \/ Script!Unreadable(w) \/ Script!Record(w)
      PROVE  ScriptInv'
  BY <1>5, TakeInv, StopInv, UnreadableInv, RecordInv
<1>6. ASSUME NEW w \in Workers, Script!PostBigstep(w)
      PROVE  ScriptInv'
  <2>1. /\ phase = "running" /\ job[w].pc = "open"
        /\ UNCHANGED <<script, phase, queue, leased, thy, late, lost>>
    BY <1>6 DEF Script!PostBigstep
  <2>2. PICK n \in 0..Length, heard \in BOOLEAN :
             Script!Built(job[w].file, n) /\ Script!Report(w, heard /\ n = Length)
    BY <1>6 DEF Script!PostBigstep
  <2> DEFINE ok == heard /\ n = Length
  <2>3. ok \in BOOLEAN /\ (ok => n = Length) /\ Script!Report(w, ok)
    BY <2>2
  <2> HIDE DEF ok
  <2>4. QED BY <2>1, <2>2, <2>3, BuiltInv
<1>7. ASSUME NEW w \in Workers, Script!BuildOne(w)
      PROVE  ScriptInv'
  <2>1. /\ phase = "running" /\ job[w].pc = "open"
        /\ UNCHANGED <<script, phase, queue, leased, thy, late, lost>>
    BY <1>7 DEF Script!BuildOne
  <2>2. PICK n \in 0..Length : Script!Built(job[w].file, n) /\ Script!Report(w, n = Length)
    BY <1>7 DEF Script!BuildOne
  <2> DEFINE ok == (n = Length)
  <2>3. ok \in BOOLEAN /\ (ok => n = Length) /\ Script!Report(w, ok)
    BY <2>2
  <2> HIDE DEF ok
  <2>4. QED BY <2>1, <2>2, <2>3, BuiltInv
<1>8. ASSUME NEW w \in Workers, script = "reuse", Script!Reuse(w)
      PROVE  ScriptInv'
  <2>1. CASE Script!Acquire(w) \/ Script!Enter(w) \/ Script!ReuseStep(w) \/ Script!ReleaseLease(w)
    BY <1>8, <2>1, GrantingInv, EnterInv, StepInv, ReleasedInv
       DEF Granting, Stepping, Releasing, Script!ReuseStep
  <2>2. QED BY <1>5, <1>8, <2>1 DEF Script!Reuse, Script!Common
<1>9. ASSUME NEW w \in Workers, script = "fresh", Script!Fresh(w)
      PROVE  ScriptInv'
  <2>1. CASE Script!Create(w) \/ Script!Enter(w) \/ Script!FreshStep(w) \/ Script!CloseSession(w)
    BY <1>9, <2>1, GrantingInv, EnterInv, StepInv, ReleasedInv
       DEF Granting, Stepping, Releasing, Script!FreshStep
  <2>2. QED BY <1>5, <1>9, <2>1 DEF Script!Fresh, Script!Common
<1>10. ASSUME NEW w \in Workers, script = "local", Script!Local(w)
       PROVE  ScriptInv'
  <2>1. CASE Script!StartGym(w) \/ Script!Enter(w) \/ Script!GymStep(w) \/ Script!CloseGym(w)
    BY <1>10, <2>1, GrantingInv, EnterInv, StepInv, ReleasedInv DEF Granting, Stepping, Releasing
  <2>2. QED BY <1>5, <1>10, <2>1 DEF Script!Local, Script!Common
<1>11. ASSUME NEW w \in Workers, script = "qisabelle", Script!QIsabelle(w)
       PROVE  ScriptInv'
  <2>1. CASE Script!NewTheory(w) \/ Script!QStep(w) \/ Script!KeepShared(w)
    BY <1>11, <2>1, NewTheoryInv, StepInv, ReleasedInv DEF Stepping, Releasing
  <2>2. QED BY <1>5, <1>11, <2>1 DEF Script!QIsabelle, Script!Common
<1>12. ASSUME NEW w \in Workers, Script!Bigstep(w) \/ Script!Build(w)
       PROVE  ScriptInv'
  BY <1>5, <1>6, <1>7, <1>12 DEF Script!Bigstep, Script!Build, Script!Common
<1>13. QED
  BY <1>1, <1>2, <1>3, <1>4, <1>8, <1>9, <1>10, <1>11, <1>12 DEF Script!Next, Workers

\* The start of a script.
LEMMA ScriptInit ==
  ASSUME Script!Init
  PROVE  ScriptInv
<1>1. /\ script \in Script!Scripts
      /\ phase = IF script = "qisabelle" THEN "opening" ELSE "running"
      /\ queue = [i \in Script!Files |-> i] /\ verdicts = <<>>
      /\ job = [w \in Workers |-> Script!Resting]
      /\ leased = {} /\ lost = {} /\ doc = [f \in Script!Files |-> <<>>]
      /\ thy = [s \in Sessions |-> 0] /\ late = [s \in Sessions |-> 0]
  BY DEF Script!Init, Workers
<1>2. NumFiles \in Nat /\ Length \in Nat
  BY EvaluationAssumption
<1>3. queue \in Seq(Script!Files) /\ Len(queue) = NumFiles /\ \A i \in 1..NumFiles : queue[i] = i
  BY <1>1, <1>2 DEF Script!Files
<1>4. \A w \in Workers : /\ job[w] \in Jobs /\ job[w].pc = "next" /\ job[w].file = 0
                         /\ job[w].sess = NoSession /\ job[w].steps = <<>>
  BY <1>1, RestingType
<1>5. ScriptType
  <2>1. phase \in {"opening", "running"}
    BY <1>1
  <2>2. job \in [Workers -> Jobs]
    BY <1>1, <1>4
  <2>3. verdicts \in Seq(Verdicts)
    BY <1>1
  <2>4. thy \in [Sessions -> 0..NumFiles] /\ late \in [Sessions -> Nat]
    BY <1>1, <1>2
  <2>5. doc \in [Script!Files -> Seq(Entries)]
    BY <1>1
  <2>6. QED BY <1>1, <1>3, <2>1, <2>2, <2>3, <2>4, <2>5 DEF ScriptType
<1>6. HoldInv
  BY <1>1, <1>4 DEF HoldInv, Holding
<1>7. FilesApart
  <2>1. Len(verdicts) = 0
    BY <1>1
  <2>2. \A i \in 1..Len(queue) : queue[i] = i /\ i # 0
    BY <1>2, <1>3
  <2>3. QED BY <1>4, <2>1, <2>2 DEF FilesApart
<1>8. FileInv
  <2>1. \A f \in Script!Files : f \in Untouched
    BY <1>1 DEF Untouched, Script!Files
  <2>2. \A i \in 1..Len(queue) : queue[i] \in Untouched
    BY <1>2, <1>3, <2>1 DEF Script!Files
  <2>3. Len(verdicts) = 0
    BY <1>1
  <2>4. \A w \in Workers : WorkerInv(w)
    BY <1>4 DEF WorkerInv
  <2>5. QED BY <1>1, <2>2, <2>3, <2>4 DEF FileInv
<1>9. QED BY <1>5, <1>6, <1>7, <1>8 DEF ScriptInv

\* Cardinality of the instances.
LEMMA Cards ==
  /\ \A S : Script!Cardinality(S) = Cardinality(S)
  /\ \A S : Agent!Cardinality(S) = Cardinality(S)
  /\ \A S : Mcts!Cardinality(S) = Cardinality(S)
<1>1. \A S : Script!Cardinality(S) = Cardinality(S)
  BY DEF Script!Cardinality, Cardinality
<1>2. \A S : Agent!Cardinality(S) = Cardinality(S)
  BY DEF Agent!Cardinality, Cardinality
<1>3. \A S : Mcts!Cardinality(S) = Cardinality(S)
  BY DEF Mcts!Cardinality, Cardinality
<1>4. QED BY <1>1, <1>2, <1>3

\* The invariant gives the two properties of the scripts.
LEMMA ScriptProperties ==
  ASSUME ScriptInv
  PROVE  OkComplete /\ LeasesReturned
<1>1. OkComplete
  <2>1. ASSUME NEW i \in 1..Len(verdicts), verdicts[i].ok
        PROVE  LET d == doc[verdicts[i].file] IN
               /\ Len(d) = Length
               /\ \A n \in 1..Length : d[n].cmd = n /\ d[n].sess = d[1].sess
               /\ \A n \in 1..Length : d[n].how \in Script!Erroneous =>
                    /\ script # "qisabelle"
                    /\ \E m \in 1..n : /\ d[m].how \in Script!Warnings
                                      /\ \A k \in 1..m-1 : d[k].how = "fine"
    <3>1. verdicts[i].file \in Orderly /\ Len(doc[verdicts[i].file]) = Length
      BY <2>1 DEF ScriptInv, FileInv
    <3>2. QED BY <3>1 DEF Orderly
  <2>2. QED BY <2>1 DEF OkComplete, Script!OkComplete
<1>2. ASSUME NEW s \in leased \ lost
      PROVE  IF script = "qisabelle" THEN phase \notin {"written", "aborted"}
             ELSE Script!Cardinality({w \in Workers : job[w].sess = s}) = 1
  <2>1. s # NoSession
    BY EvaluationAssumption DEF ScriptInv, ScriptType
  <2>2. CASE script = "qisabelle"
    BY <2>2 DEF ScriptInv, HoldInv
  <2>3. CASE script # "qisabelle"
    <3>1. PICK w \in Workers : job[w].sess = s
      BY <2>3 DEF ScriptInv, HoldInv
    <3>2. {v \in Workers : job[v].sess = s} = {w}
      BY <2>1, <3>1 DEF ScriptInv, HoldInv
    <3>3. Cardinality({w}) = 1
      BY FS_Singleton
    <3>4. QED BY <2>3, <3>2, <3>3, Cards
  <2>4. QED BY <2>2, <2>3
<1>3. QED BY <1>1, <1>2 DEF LeasesReturned, Script!LeasesReturned, Workers

\* The invariant of the scripts holds.
LEMMA ScriptAlways == Spec => []ScriptInv
<1>1. Init => ScriptInv
  BY ScriptInit DEF Init
<1>2. ScriptInv /\ [Next]_vars => ScriptInv'
  <2> SUFFICES ASSUME ScriptInv, [Next]_vars PROVE ScriptInv'
    OBVIOUS
  <2>1. CASE RunScript
    BY <2>1, ScriptNext DEF RunScript
  <2>2. CASE RunAgent \/ RunMcts \/ RunCompetition \/ UNCHANGED vars
    BY <2>2, ScriptStays DEF RunAgent, RunMcts, RunCompetition, vars, scriptVars
  <2>3. QED BY <2>1, <2>2 DEF Next
<1>3. QED BY <1>1, <1>2, PTL DEF Spec

\* A theory reported as ok was executed whole, each command once and in order, in one session,
\* although sessions in which a command timed out are used again: a session in which one may
\* still run has the theory of the file that failed, or of none, until it is entered anew.
THEOREM OkTheoriesWhole == Spec => []OkComplete
<1>1. ScriptInv => OkComplete
  BY ScriptProperties
<1>2. QED BY <1>1, ScriptAlways, PTL

\* A lease the server's answer was not lost of belongs to one worker, and a script that is over
\* has given back every one: run_worker and run_file release it on every way out.
THEOREM LeasesGivenBack == Spec => []LeasesReturned
<1>1. ScriptInv => LeasesReturned
  BY ScriptProperties
<1>2. QED BY <1>1, ScriptAlways, PTL

-----------------------------------------------------------------------------
(* The competition.                                                        *)

\* A session is open from its creation to its end, and a closed one is not current: the task that
\* closes it deselects it first.  A task that was over before another began stays without a
\* session.
CompetitionInv ==
  /\ Competition!TypeOK
  /\ current # None => current \in open /\ task[current] # "pop"
  /\ \A a \in Agents :
       /\ task[a] \in {"adopt", "select", "switch", "work", "asked", "read", "deselect", "pop"}
            => a \in open
       /\ task[a] \in {"queued", "create", "delete", "done", "collected"} => a \notin open
       /\ task[a] \in {"queued", "create", "adopt", "select", "switch"} => reached[a] = {}
       /\ task[a] = "close" /\ a \notin open => outcome[a] = "failure" /\ reached[a] = {}
       /\ task[a] \in {"done", "collected"} /\ a \in files
            => a \in warned \/ (outcome[a] = "failure" /\ reached[a] = {})
       /\ \A b \in earlier[a] : task[b] \in {"done", "collected"} /\ b \notin reached[a]

\* A step of a task.
LEMMA TaskStep ==
  ASSUME CompetitionInv, NEW a \in Agents, Competition!Task(a)
  PROVE  CompetitionInv'
<1>1. CASE Competition!Begin(a)
  BY <1>1, EvaluationAssumption
     DEF Competition!Begin, Competition!Over, Competition!Goto, Competition!clientVars, CompetitionInv,
         Competition!TypeOK
<1>2. CASE Competition!Create(a)
  BY <1>2, EvaluationAssumption
     DEF Competition!Create, Competition!Goto, Competition!clientVars, CompetitionInv,
         Competition!TypeOK
<1>3. CASE Competition!CreateFails(a)
  BY <1>3, EvaluationAssumption
     DEF Competition!CreateFails, Competition!Goto, Competition!clientVars, CompetitionInv,
         Competition!TypeOK
<1>4. CASE Competition!Adopt(a)
  BY <1>4, EvaluationAssumption
     DEF Competition!Adopt, Competition!Goto, Competition!clientVars, CompetitionInv,
         Competition!TypeOK
<1>5. CASE Competition!Select(a, "select", "switch")
  BY <1>5, EvaluationAssumption
     DEF Competition!Select, Competition!Goto, Competition!clientVars, CompetitionInv,
         Competition!TypeOK
<1>6. CASE Competition!SwitchSession(a)
  BY <1>6, EvaluationAssumption
     DEF Competition!SwitchSession, Competition!Select, Competition!Goto, Competition!clientVars, CompetitionInv,
         Competition!TypeOK
<1>7. CASE Competition!Ask(a)
  BY <1>7, EvaluationAssumption
     DEF Competition!Ask, Competition!Goto, Competition!clientVars, CompetitionInv,
         Competition!TypeOK
<1>8. CASE Competition!ReadCurrent(a)
  BY <1>8, EvaluationAssumption
     DEF Competition!ReadCurrent, Competition!Goto, Competition!clientVars, CompetitionInv,
         Competition!TypeOK
<1>9. CASE Competition!Call(a)
  BY <1>9, EvaluationAssumption
     DEF Competition!Call, Competition!Goto, Competition!clientVars, CompetitionInv,
         Competition!TypeOK
<1>10. CASE Competition!Success(a)
  BY <1>10, EvaluationAssumption
     DEF Competition!Success, Competition!Goto, Competition!clientVars, CompetitionInv,
         Competition!TypeOK
<1>11. CASE Competition!Failure(a)
  BY <1>11, EvaluationAssumption
     DEF Competition!Failure, Competition!Goto, Competition!clientVars, CompetitionInv,
         Competition!TypeOK
<1>12. CASE Competition!CloseMissing(a)
  BY <1>12, EvaluationAssumption
     DEF Competition!CloseMissing, Competition!Goto, Competition!clientVars, CompetitionInv,
         Competition!TypeOK
<1>13. CASE Competition!CloseSession(a)
  BY <1>13, EvaluationAssumption
     DEF Competition!CloseSession, Competition!Goto, Competition!clientVars, CompetitionInv,
         Competition!TypeOK
<1>14. CASE Competition!Deselect(a)
  BY <1>14, EvaluationAssumption
     DEF Competition!Deselect, Competition!Goto, Competition!clientVars, CompetitionInv,
         Competition!TypeOK
<1>15. CASE Competition!Pop(a)
  BY <1>15, EvaluationAssumption
     DEF Competition!Pop, Competition!Goto, Competition!clientVars, CompetitionInv,
         Competition!TypeOK
<1>16. CASE Competition!DeleteWrapper(a)
  BY <1>16, EvaluationAssumption
     DEF Competition!DeleteWrapper, Competition!Goto, Competition!clientVars, CompetitionInv,
         Competition!TypeOK
<1>17. QED
  BY <1>1, <1>2, <1>3, <1>4, <1>5, <1>6, <1>7, <1>8, <1>9, <1>10, <1>11,
     <1>12, <1>13, <1>14, <1>15, <1>16 DEF Competition!Task

\* A result is collected.
LEMMA CollectStep ==
  ASSUME CompetitionInv, NEW a \in Agents, Competition!Collect(a)
  PROVE  CompetitionInv'
BY EvaluationAssumption
   DEF Competition!Collect, Competition!Goto, Competition!clientVars, CompetitionInv,
       Competition!TypeOK

\* What other programs do.
LEMMA CompetitionStays ==
  ASSUME CompetitionInv, UNCHANGED taskVars
  PROVE  CompetitionInv'
BY DEF CompetitionInv, Competition!TypeOK, taskVars

\* The invariant of the competition holds.
LEMMA CompetitionAlways == Spec => []CompetitionInv
<1>1. Init => CompetitionInv
  BY EvaluationAssumption DEF Init, Competition!Init, CompetitionInv, Competition!TypeOK
<1>2. CompetitionInv /\ [Next]_vars => CompetitionInv'
  <2> SUFFICES ASSUME CompetitionInv, [Next]_vars PROVE CompetitionInv'
    OBVIOUS
  <2>1. CASE RunCompetition
    <3>1. CASE \E a \in Agents : Competition!Task(a) \/ Competition!Collect(a)
      BY <3>1, TaskStep, CollectStep
    <3>2. CASE Competition!Returned
      BY <3>2, CompetitionStays DEF Competition!Returned, Competition!vars, Competition!clientVars, taskVars
    <3>3. QED BY <2>1, <3>1, <3>2 DEF RunCompetition, Competition!Next
  <2>2. CASE RunScript \/ RunAgent \/ RunMcts \/ UNCHANGED vars
    BY <2>2, CompetitionStays DEF RunScript, RunAgent, RunMcts, vars
  <2>3. QED BY <2>1, <2>2 DEF Next
<1>3. QED BY <1>1, <1>2, PTL DEF Spec

\* The current session of the shared client is open; a task that is over has no session, and
\* leaves a wrapper only if it could not be deleted or nothing was executed; and no command
\* reaches the session of a task that was over before.
THEOREM TasksCleanUp == Spec => []TaskCleansUp
<1>1. CompetitionInv => TaskCleansUp
  BY DEF CompetitionInv, TaskCleansUp, Competition!TaskCleansUp, Competition!Over
<1>2. QED BY <1>1, CompetitionAlways, PTL

-----------------------------------------------------------------------------
(* The tree search: its tree.                                              *)

\* The nodes of the tree search.
TreeNodes == [goals : Mcts!States, parent : Nat, path : SUBSET Nat, exhausted : BOOLEAN,
              subtree_exhausted : BOOLEAN, trials : Nat, visit_count : Nat]

\* The path of a node has the node itself, and is closed: what else is in it is the parent of
\* another node of it.
PathInv ==
  \A n \in Mcts!Nodes :
    /\ n \in tree[n].path /\ tree[n].path \subseteq Mcts!Nodes
    /\ \A m \in tree[n].path : m = n \/ \E c \in tree[n].path \ {1} : tree[c].parent = m

\* The invariant of the tree.
TreeInv ==
  /\ tree \in Seq(TreeNodes) /\ idx \in [Goals -> Nat]
  /\ PathInv
  /\ TreeExact

\* A subtree is finite.
LEMMA SubtreeFinite ==
  ASSUME tree \in Seq(TreeNodes), NEW n
  PROVE  IsFiniteSet(Mcts!Subtree(n)) /\ Mcts!Subtree(n) \subseteq Mcts!Nodes
<1>1. Mcts!Subtree(n) \subseteq 1..Len(tree)
  BY DEF Mcts!Subtree, Mcts!Nodes
<1>2. IsFiniteSet(1..Len(tree))
  BY FS_Interval
<1>3. QED BY <1>1, <1>2, FS_Subset DEF Mcts!Nodes

\* The tree of one node.
LEMMA RootTree ==
  ASSUME NEW g \in Mcts!States, tree' = <<Mcts!Node(g, 0, {1})>>, idx' = idx,
         idx \in [Goals -> Nat]
  PROVE  TreeInv'
<1> DEFINE nd == Mcts!Node(g, 0, {1})
<1>1. /\ nd \in TreeNodes /\ nd.path = {1} /\ nd.visit_count = 1 /\ nd.subtree_exhausted = FALSE
      /\ nd.goals = g
  BY DEF Mcts!Node, TreeNodes
<1> HIDE DEF nd
<1>2. tree' = <<nd>>
  BY DEF nd
<1>3. tree' \in Seq(TreeNodes) /\ Len(tree') = 1 /\ tree'[1] = nd
  BY <1>1, <1>2
<1>4. Mcts!Nodes' = {1}
  BY <1>3 DEF Mcts!Nodes
<1>5. PathInv'
  BY <1>1, <1>3, <1>4 DEF PathInv
<1>6. \A n \in {1} : {k \in {1} : n \in tree'[k].path} = {1}
  BY <1>1, <1>3
<1>7. Cardinality({1}) = 1
  BY FS_Singleton
<1>8. \A n \in Mcts!Nodes' :
        /\ tree'[n].visit_count = Cardinality({k \in Mcts!Nodes' : n \in tree'[k].path})
        /\ ~tree'[n].subtree_exhausted
  BY <1>1, <1>3, <1>4, <1>6, <1>7
<1>9. TreeExact'
  BY <1>8, Cards DEF TreeExact, Mcts!TreeExact, Mcts!Subtree
<1>10. QED BY <1>3, <1>5, <1>9 DEF TreeInv

\* A node whose tactics are spent.
LEMMA SpendTree ==
  ASSUME TreeInv, NEW n \in Mcts!Nodes, Mcts!Spend(n)
  PROVE  TreeInv'
<1> DEFINE b == (Mcts!Available(n) = {})
           r == [tree[n] EXCEPT !.exhausted = TRUE, !.subtree_exhausted = b]
<1>1. tree \in Seq(TreeNodes) /\ n \in 1..Len(tree) /\ tree[n] \in TreeNodes
  BY DEF TreeInv, Mcts!Nodes
<1>2. tree' = [tree EXCEPT ![n] = r] /\ idx' = idx
  BY <1>1 DEF Mcts!Spend
<1>3. b \in BOOLEAN
  OBVIOUS
<1>4. ~Mcts!HasTactic(n) /\ tree[n].goals # Closed
  BY DEF Mcts!Spend
<1>5. b => \A c \in Mcts!Nodes : tree[c].parent = n => tree[c].subtree_exhausted
  BY DEF Mcts!Available, Mcts!Children, Mcts!Nodes
<1> HIDE DEF b
<1>6. /\ r \in TreeNodes /\ r.subtree_exhausted = b /\ r.goals = tree[n].goals
      /\ r.path = tree[n].path /\ r.parent = tree[n].parent /\ r.trials = tree[n].trials
      /\ r.visit_count = tree[n].visit_count
  BY <1>1, <1>3 DEF TreeNodes
<1> HIDE DEF r
<1>7. /\ tree' \in Seq(TreeNodes) /\ Len(tree') = Len(tree) /\ tree'[n] = r
      /\ \A m \in 1..Len(tree) : m # n => tree'[m] = tree[m]
  BY <1>1, <1>2, <1>6
<1>8. /\ Mcts!Nodes' = Mcts!Nodes
      /\ \A m \in Mcts!Nodes : /\ tree'[m].goals = tree[m].goals /\ tree'[m].path = tree[m].path
                               /\ tree'[m].parent = tree[m].parent
                               /\ tree'[m].trials = tree[m].trials
                               /\ tree'[m].visit_count = tree[m].visit_count
  BY <1>6, <1>7 DEF Mcts!Nodes
<1>9. PathInv'
  BY <1>8 DEF PathInv, TreeInv
<1>10. ASSUME NEW m \in Mcts!Nodes
       PROVE  {k \in Mcts!Nodes' : m \in tree'[k].path} = Mcts!Subtree(m)
  BY <1>8 DEF Mcts!Subtree
<1>11. ASSUME NEW m \in Mcts!Nodes, tree'[m].subtree_exhausted, NEW k \in Mcts!Subtree(m)
       PROVE  tree[k].goals # Closed /\ ~Mcts!HasTactic(k)
  <2>1. CASE m # n
    BY <1>7, <1>11, <2>1 DEF TreeInv, TreeExact, Mcts!TreeExact, Mcts!Nodes
  <2>2. CASE m = n /\ k = n
    BY <1>4, <2>2
  <2>3. CASE m = n /\ k # n
    <3>1. k \in Mcts!Nodes /\ n \in tree[k].path /\ b
      BY <1>6, <1>7, <1>11, <2>3 DEF Mcts!Subtree
    <3>2. PICK c \in tree[k].path : tree[c].parent = n
      BY <2>3, <3>1 DEF TreeInv, PathInv
    <3>3. c \in Mcts!Nodes /\ tree[c].subtree_exhausted /\ k \in Mcts!Subtree(c)
      BY <1>5, <3>1, <3>2 DEF TreeInv, PathInv, Mcts!Subtree
    <3>4. QED BY <3>3 DEF TreeInv, TreeExact, Mcts!TreeExact
  <2>4. QED BY <2>1, <2>2, <2>3
<1>12. ASSUME NEW m \in Mcts!Nodes
       PROVE  /\ tree'[m].visit_count = Cardinality({k \in Mcts!Nodes' : m \in tree'[k].path})
              /\ tree'[m].subtree_exhausted =>
                   \A k \in {j \in Mcts!Nodes' : m \in tree'[j].path} :
                     tree'[k].goals # Closed /\ ~Mcts!HasTactic(k)'
  <2>1. \A k \in Mcts!Subtree(m) : k \in Mcts!Nodes /\ (Mcts!HasTactic(k)' <=> Mcts!HasTactic(k))
    BY <1>2, <1>8 DEF Mcts!HasTactic, Mcts!Subtree
  <2>2. tree'[m].visit_count = Cardinality({k \in Mcts!Nodes' : m \in tree'[k].path})
    <3>1. tree[m].visit_count = Cardinality(Mcts!Subtree(m))
      BY Cards DEF TreeInv, TreeExact, Mcts!TreeExact
    <3>2. QED BY <1>8, <1>10, <3>1
  <2>3. ASSUME tree'[m].subtree_exhausted, NEW k \in Mcts!Subtree(m)
        PROVE  tree'[k].goals # Closed /\ ~Mcts!HasTactic(k)'
    <3>1. k \in Mcts!Nodes /\ (Mcts!HasTactic(k)' <=> Mcts!HasTactic(k))
      BY <2>1
    <3>2. tree[k].goals # Closed /\ ~Mcts!HasTactic(k)
      BY <1>11, <2>3
    <3>3. QED BY <1>8, <3>1, <3>2
  <2>4. QED BY <1>10, <2>2, <2>3
<1>13. TreeExact'
  BY <1>8, <1>12, Cards DEF TreeExact, Mcts!TreeExact, Mcts!Subtree
<1>14. QED BY <1>2, <1>7, <1>9, <1>13 DEF TreeInv

\* A tactic is tried at a node: no node has a tactic that had none.
LEMMA TriedTree ==
  ASSUME TreeInv, NEW n \in Mcts!Nodes, Mcts!Try(n)
  PROVE  /\ Mcts!Tried(n) \in Seq(TreeNodes) /\ Len(Mcts!Tried(n)) = Len(tree)
         /\ \A m \in Mcts!Nodes :
              /\ Mcts!Tried(n)[m] \in TreeNodes
              /\ Mcts!Tried(n)[m].goals = tree[m].goals
              /\ Mcts!Tried(n)[m].path = tree[m].path
              /\ Mcts!Tried(n)[m].parent = tree[m].parent
              /\ Mcts!Tried(n)[m].trials >= tree[m].trials
              /\ Mcts!Tried(n)[m].visit_count = tree[m].visit_count
              /\ Mcts!Tried(n)[m].exhausted = tree[m].exhausted
              /\ Mcts!Tried(n)[m].subtree_exhausted = tree[m].subtree_exhausted
         /\ idx' \in [Goals -> Nat] /\ \A g \in Goals : idx'[g] >= idx[g]
<1> DEFINE q == tree[n].trials + 1
           r == [tree[n] EXCEPT !.trials = q]
           t == Mcts!Tried(n)
<1>1. tree \in Seq(TreeNodes) /\ n \in 1..Len(tree) /\ tree[n] \in TreeNodes
  BY DEF TreeInv, Mcts!Nodes
<1>2. t = [tree EXCEPT ![n] = r]
  BY <1>1 DEF Mcts!Tried
<1>8. q \in Nat /\ q >= tree[n].trials
  BY <1>1 DEF TreeNodes
<1> HIDE DEF q
<1>3. /\ r \in TreeNodes /\ r.subtree_exhausted = tree[n].subtree_exhausted
      /\ r.goals = tree[n].goals /\ r.path = tree[n].path /\ r.parent = tree[n].parent
      /\ r.trials >= tree[n].trials /\ r.visit_count = tree[n].visit_count
      /\ r.exhausted = tree[n].exhausted
  BY <1>1, <1>8 DEF TreeNodes
<1> HIDE DEF r, t
<1>4. /\ t \in Seq(TreeNodes) /\ Len(t) = Len(tree) /\ t[n] = r
      /\ \A m \in 1..Len(tree) : m # n => t[m] = tree[m]
  BY <1>1, <1>2, <1>3
<1>5. ASSUME NEW m \in Mcts!Nodes
      PROVE  /\ t[m] \in TreeNodes /\ t[m].goals = tree[m].goals /\ t[m].path = tree[m].path
             /\ t[m].parent = tree[m].parent /\ t[m].trials >= tree[m].trials
             /\ t[m].visit_count = tree[m].visit_count /\ t[m].exhausted = tree[m].exhausted
             /\ t[m].subtree_exhausted = tree[m].subtree_exhausted
  <2>1. CASE m = n
    BY <1>3, <1>4, <2>1
  <2>2. CASE m # n
    <3>1. t[m] = tree[m] /\ tree[m] \in TreeNodes
      BY <1>1, <1>4, <2>2 DEF Mcts!Nodes
    <3>2. tree[m].trials \in Nat
      BY <3>1 DEF TreeNodes
    <3>3. QED BY <3>1, <3>2
  <2>3. QED BY <2>1, <2>2
<1>6. idx' \in [Goals -> Nat] /\ \A g \in Goals : idx'[g] >= idx[g]
  <2>1. idx' = [idx EXCEPT ![tree[n].goals] = @ + 1] /\ idx \in [Goals -> Nat]
    BY DEF TreeInv, Mcts!Try
  <2>2. ASSUME NEW g \in Goals PROVE idx'[g] \in Nat /\ idx'[g] >= idx[g]
    <3>1. idx[g] \in Nat
      BY <2>1
    <3>2. CASE g = tree[n].goals
      BY <2>1, <3>1, <3>2
    <3>3. CASE g # tree[n].goals
      BY <2>1, <3>1, <3>3
    <3>4. QED BY <3>2, <3>3
  <2>3. idx' \in [Goals -> Nat]
    <3>1. idx' = [g \in Goals |-> idx'[g]]
      BY <2>1
    <3>2. QED BY <2>2, <3>1
  <2>4. QED BY <2>2, <2>3
<1>7. QED BY <1>4, <1>5, <1>6 DEF t

\* A node out of tactics stays so.
LEMMA StaysSpent ==
  ASSUME TreeInv, NEW k \in Mcts!Nodes, tree[k].goals # Closed, ~Mcts!HasTactic(k),
         tree'[k].goals = tree[k].goals, tree'[k].trials \in Nat,
         tree'[k].trials >= tree[k].trials, idx' \in [Goals -> Nat],
         \A g \in Goals : idx'[g] >= idx[g]
  PROVE  tree'[k].goals # Closed /\ ~Mcts!HasTactic(k)'
<1>1. tree[k] \in TreeNodes
  BY DEF TreeInv, Mcts!Nodes
<1>2. tree[k].goals \in Goals /\ tree[k].trials \in Nat
  BY <1>1 DEF TreeNodes, Mcts!States
<1>3. idx[tree[k].goals] \in Nat /\ MaxTrials \in Nat /\ NumTactics \in Nat
  BY <1>2, EvaluationAssumption DEF TreeInv
<1>4. QED BY <1>2, <1>3 DEF Mcts!HasTactic

\* A tactic that adds no node.
LEMMA TryTree ==
  ASSUME TreeInv, NEW n \in Mcts!Nodes, Mcts!Try(n), tree' = Mcts!Tried(n)
  PROVE  TreeInv'
<1>1. /\ tree' \in Seq(TreeNodes) /\ Mcts!Nodes' = Mcts!Nodes
      /\ \A m \in Mcts!Nodes :
           /\ tree'[m] \in TreeNodes
           /\ tree'[m].goals = tree[m].goals /\ tree'[m].path = tree[m].path
           /\ tree'[m].parent = tree[m].parent /\ tree'[m].trials >= tree[m].trials
           /\ tree'[m].visit_count = tree[m].visit_count
           /\ tree'[m].subtree_exhausted = tree[m].subtree_exhausted
      /\ idx' \in [Goals -> Nat] /\ \A g \in Goals : idx'[g] >= idx[g]
  BY TriedTree DEF Mcts!Nodes
<1>2. PathInv'
  <2>1. \A m \in Mcts!Nodes : tree'[m].path = tree[m].path /\ tree'[m].parent = tree[m].parent
    BY <1>1
  <2>2. Mcts!Nodes' = Mcts!Nodes /\ PathInv
    BY <1>1 DEF TreeInv
  <2>3. ASSUME NEW k \in Mcts!Nodes
        PROVE  /\ k \in tree'[k].path /\ tree'[k].path \subseteq Mcts!Nodes
               /\ \A m \in tree'[k].path :
                    m = k \/ \E c \in tree'[k].path \ {1} : tree'[c].parent = m
    BY <2>1, <2>2 DEF PathInv
  <2>4. QED BY <2>2, <2>3 DEF PathInv
<1>3. ASSUME NEW m \in Mcts!Nodes
      PROVE  {k \in Mcts!Nodes' : m \in tree'[k].path} = Mcts!Subtree(m)
  BY <1>1 DEF Mcts!Subtree
<1>4. \A k \in Mcts!Nodes : tree'[k].trials \in Nat
  BY <1>1 DEF TreeNodes
<1>5. ASSUME NEW m \in Mcts!Nodes
      PROVE  /\ tree'[m].visit_count = Cardinality({k \in Mcts!Nodes' : m \in tree'[k].path})
             /\ tree'[m].subtree_exhausted =>
                  \A k \in {j \in Mcts!Nodes' : m \in tree'[j].path} :
                    tree'[k].goals # Closed /\ ~Mcts!HasTactic(k)'
  <2>1. tree[m].subtree_exhausted =>
          \A k \in Mcts!Subtree(m) : /\ k \in Mcts!Nodes /\ tree[k].goals # Closed
                                     /\ ~Mcts!HasTactic(k)
    BY DEF TreeInv, TreeExact, Mcts!TreeExact, Mcts!Subtree
  <2>2. tree[m].subtree_exhausted =>
          \A k \in Mcts!Subtree(m) : tree'[k].goals # Closed /\ ~Mcts!HasTactic(k)'
    BY <1>1, <1>4, <2>1, StaysSpent
  <2>3. tree[m].visit_count = Cardinality(Mcts!Subtree(m))
    BY Cards DEF TreeInv, TreeExact, Mcts!TreeExact
  <2>4. QED BY <1>1, <1>3, <2>2, <2>3
<1>6. TreeExact'
  BY <1>1, <1>5, Cards DEF TreeExact, Mcts!TreeExact, Mcts!Subtree
<1>7. QED BY <1>1, <1>2, <1>6 DEF TreeInv

\* What backup makes of the tree after the expansion of a node.
LEMMA ExpandedTree ==
  ASSUME TreeInv, NEW n \in Mcts!Nodes, Mcts!Expand(n)
  PROVE  /\ tree' \in Seq(TreeNodes) /\ Len(tree') = Len(tree) + 1
         /\ tree'[Len(tree) + 1] = Mcts!Node(gym', n, tree[n].path \cup {Len(tree) + 1})
         /\ \A m \in Mcts!Nodes :
              /\ tree'[m].goals = tree[m].goals /\ tree'[m].path = tree[m].path
              /\ tree'[m].parent = tree[m].parent /\ tree'[m].trials >= tree[m].trials
              /\ tree'[m].visit_count =
                   IF m \in tree[n].path THEN tree[m].visit_count + 1 ELSE tree[m].visit_count
              /\ tree'[m].subtree_exhausted <=>
                   m \notin tree[n].path /\ tree[m].subtree_exhausted
<1> DEFINE new == Len(tree) + 1
           path == tree[n].path
           t == Mcts!Tried(n)
           nd == Mcts!Node(gym', n, path \cup {new})
           u == Append(t, nd)
           done(m) == (\A k \in Mcts!Children(u, m) : u[k].subtree_exhausted) /\ u[m].exhausted
           r(m) == [u[m] EXCEPT !.visit_count = @ + 1, !.subtree_exhausted = done(m)]
<1>1. /\ Mcts!Try(n) /\ gym' \in Mcts!States /\ tree' = Mcts!Backup(u, path)
  BY DEF Mcts!Expand, Mcts!Executed, Mcts!Child
<1>2. tree \in Seq(TreeNodes) /\ n \in 1..Len(tree) /\ tree[n] \in TreeNodes /\ PathInv
  BY DEF TreeInv, Mcts!Nodes
<1>3. /\ t \in Seq(TreeNodes) /\ Len(t) = Len(tree)
      /\ \A m \in Mcts!Nodes :
           /\ t[m] \in TreeNodes /\ t[m].goals = tree[m].goals /\ t[m].path = tree[m].path
           /\ t[m].parent = tree[m].parent /\ t[m].trials >= tree[m].trials
           /\ t[m].visit_count = tree[m].visit_count
           /\ t[m].exhausted = tree[m].exhausted
           /\ t[m].subtree_exhausted = tree[m].subtree_exhausted
  BY <1>1, TriedTree
<1>4. /\ nd \in TreeNodes /\ nd.path = path \cup {new} /\ nd.parent = n /\ nd.visit_count = 1
      /\ nd.subtree_exhausted = FALSE /\ nd.exhausted = FALSE /\ nd.goals = gym'
  <2>1. path \cup {new} \in SUBSET Nat /\ n \in Nat
    BY <1>2 DEF TreeNodes
  <2>2. QED BY <1>1, <2>1 DEF Mcts!Node, TreeNodes
<1>5. new \notin path /\ path \subseteq 1..Len(tree)
  BY <1>2 DEF PathInv, Mcts!Nodes
<1> HIDE DEF t, nd
<1>6. /\ u \in Seq(TreeNodes) /\ Len(u) = new /\ u[new] = nd
      /\ \A m \in Mcts!Nodes : u[m] = t[m]
  BY <1>3, <1>4 DEF Mcts!Nodes
<1> HIDE DEF u
<1>7. tree' = [m \in 1..new |-> IF m \in path THEN r(m) ELSE u[m]]
  BY <1>1, <1>6 DEF Mcts!Backup
<1>8. ASSUME NEW m \in 1..new
      PROVE  /\ r(m) \in TreeNodes /\ r(m).goals = u[m].goals /\ r(m).path = u[m].path
             /\ r(m).parent = u[m].parent /\ r(m).trials = u[m].trials
             /\ r(m).visit_count = u[m].visit_count + 1 /\ r(m).subtree_exhausted = done(m)
  <2> DEFINE q == u[m].visit_count + 1
             b == done(m)
             x == [u[m] EXCEPT !.visit_count = q, !.subtree_exhausted = b]
  <2>1. u[m] \in TreeNodes
    BY <1>6
  <2>2. b \in BOOLEAN /\ q \in Nat
    BY <2>1 DEF TreeNodes
  <2>3. r(m) = x
    BY <2>1 DEF TreeNodes
  <2> HIDE DEF q, b
  <2>4. /\ x \in TreeNodes /\ x.goals = u[m].goals /\ x.path = u[m].path
        /\ x.parent = u[m].parent /\ x.trials = u[m].trials
        /\ x.visit_count = q /\ x.subtree_exhausted = b
    BY <2>1, <2>2 DEF TreeNodes
  <2> HIDE DEF x
  <2>5. QED BY <2>3, <2>4 DEF q, b
<1>9. ASSUME NEW m \in path PROVE ~done(m)
  <2>1. CASE m = n
    <3>1. new \in Mcts!Children(u, n) /\ ~u[new].subtree_exhausted
      BY <1>2, <1>4, <1>6 DEF Mcts!Children
    <3>2. QED BY <2>1, <3>1
  <2>2. CASE m # n
    <3>1. PICK c \in path \ {1} : tree[c].parent = m
      BY <1>2, <2>2 DEF PathInv, Mcts!Nodes
    <3>2. c \in Mcts!Nodes /\ ~tree[c].subtree_exhausted
      BY <1>1, <1>5, <3>1 DEF Mcts!Try, Mcts!Iteration, Mcts!Selectable, Mcts!Nodes
    <3>3. c \in 1..new /\ u[c].parent = m /\ ~u[c].subtree_exhausted
      BY <1>2, <1>3, <1>6, <3>1, <3>2 DEF Mcts!Nodes
    <3>4. c \in Mcts!Children(u, m)
      BY <1>6, <3>3 DEF Mcts!Children
    <3>5. QED BY <3>3, <3>4
  <2>3. QED BY <2>1, <2>2
<1> HIDE DEF r, done
<1>10. /\ tree' \in Seq(TreeNodes) /\ Len(tree') = new
       /\ \A m \in 1..new : tree'[m] = IF m \in path THEN r(m) ELSE u[m]
  <2>1. \A m \in 1..new : (IF m \in path THEN r(m) ELSE u[m]) \in TreeNodes
    BY <1>6, <1>8
  <2>2. new \in Nat
    BY <1>2
  <2>3. QED BY <1>7, <2>1, <2>2
<1>11. tree'[new] = nd
  BY <1>2, <1>5, <1>6, <1>10
<1>12. ASSUME NEW m \in Mcts!Nodes
       PROVE  /\ tree'[m].goals = tree[m].goals /\ tree'[m].path = tree[m].path
              /\ tree'[m].parent = tree[m].parent /\ tree'[m].trials >= tree[m].trials
              /\ tree'[m].visit_count =
                   IF m \in path THEN tree[m].visit_count + 1 ELSE tree[m].visit_count
              /\ tree'[m].subtree_exhausted <=> m \notin path /\ tree[m].subtree_exhausted
  <2>1. m \in 1..new /\ u[m] = t[m]
    BY <1>2, <1>6 DEF Mcts!Nodes
  <2>2. CASE m \in path
    BY <1>3, <1>8, <1>9, <1>10, <2>1, <2>2
  <2>3. CASE m \notin path
    BY <1>3, <1>10, <2>1, <2>3
  <2>4. QED BY <2>2, <2>3
<1>13. QED BY <1>10, <1>11, <1>12 DEF nd

\* Expansion.
LEMMA ExpandTree ==
  ASSUME TreeInv, NEW n \in Mcts!Nodes, Mcts!Expand(n)
  PROVE  TreeInv'
<1> DEFINE new == Len(tree) + 1
           path == tree[n].path
           nd == Mcts!Node(gym', n, path \cup {new})
<1>1. /\ tree' \in Seq(TreeNodes) /\ Len(tree') = new /\ tree'[new] = nd
      /\ \A m \in Mcts!Nodes :
           /\ tree'[m].goals = tree[m].goals /\ tree'[m].path = tree[m].path
           /\ tree'[m].parent = tree[m].parent /\ tree'[m].trials >= tree[m].trials
           /\ tree'[m].visit_count =
                IF m \in path THEN tree[m].visit_count + 1 ELSE tree[m].visit_count
           /\ tree'[m].subtree_exhausted <=> m \notin path /\ tree[m].subtree_exhausted
  BY ExpandedTree
<1>2. tree \in Seq(TreeNodes) /\ n \in 1..Len(tree) /\ PathInv /\ Len(tree) \in Nat
  BY DEF TreeInv, Mcts!Nodes
<1>3. /\ nd.path = path \cup {new} /\ nd.parent = n /\ nd.visit_count = 1
      /\ nd.subtree_exhausted = FALSE
  BY DEF Mcts!Node
<1> HIDE DEF nd
<1>4. Mcts!Nodes' = Mcts!Nodes \cup {new} /\ new \notin Mcts!Nodes /\ new # 1
  BY <1>1, <1>2 DEF Mcts!Nodes
<1>5. path \subseteq Mcts!Nodes /\ n \in path
  BY <1>2 DEF PathInv
<1>6. idx' \in [Goals -> Nat] /\ \A g \in Goals : idx'[g] >= idx[g]
  BY TriedTree DEF Mcts!Expand
<1>7. PathInv'
  <2>1. ASSUME NEW k \in Mcts!Nodes
        PROVE  /\ k \in tree'[k].path /\ tree'[k].path \subseteq Mcts!Nodes'
               /\ \A m \in tree'[k].path :
                    m = k \/ \E c \in tree'[k].path \ {1} : tree'[c].parent = m
    <3>1. tree'[k].path = tree[k].path /\ \A m \in Mcts!Nodes : tree'[m].parent = tree[m].parent
      BY <1>1
    <3>2. k \in tree[k].path /\ tree[k].path \subseteq Mcts!Nodes
      BY <1>2 DEF PathInv
    <3>3. ASSUME NEW m \in tree[k].path, m # k
          PROVE  \E c \in tree[k].path \ {1} : tree'[c].parent = m
      <4>1. PICK c \in tree[k].path \ {1} : tree[c].parent = m
        BY <1>2, <3>3 DEF PathInv
      <4>2. QED BY <3>1, <3>2, <4>1
    <3>4. QED BY <1>4, <3>1, <3>2, <3>3
  <2>2. /\ new \in tree'[new].path /\ tree'[new].path \subseteq Mcts!Nodes'
        /\ \A m \in tree'[new].path :
             m = new \/ \E c \in tree'[new].path \ {1} : tree'[c].parent = m
    <3>1. \A m \in Mcts!Nodes : tree'[m].parent = tree[m].parent
      BY <1>1
    <3>2. ASSUME NEW m \in path PROVE \E c \in (path \cup {new}) \ {1} : tree'[c].parent = m
      <4>1. CASE m = n
        BY <1>1, <1>3, <1>4, <4>1
      <4>2. CASE m # n
        <5>1. PICK c \in path \ {1} : tree[c].parent = m
          BY <1>2, <4>2 DEF PathInv, Mcts!Nodes
        <5>2. QED BY <1>5, <3>1, <5>1
      <4>3. QED BY <4>1, <4>2
    <3>3. QED BY <1>1, <1>3, <1>4, <1>5, <3>2
  <2>3. QED BY <1>4, <2>1, <2>2 DEF PathInv
<1>8. ASSUME NEW m \in Mcts!Nodes
      PROVE  {k \in Mcts!Nodes' : m \in tree'[k].path} =
               Mcts!Subtree(m) \cup (IF m \in path THEN {new} ELSE {})
  <2>1. \A k \in Mcts!Nodes : tree'[k].path = tree[k].path
    BY <1>1
  <2>2. m \in tree'[new].path <=> m \in path
    BY <1>1, <1>3, <1>4
  <2>3. QED BY <1>4, <2>1, <2>2 DEF Mcts!Subtree
<1>9. {k \in Mcts!Nodes' : new \in tree'[k].path} = {new}
  <2>1. \A k \in Mcts!Nodes : new \notin tree'[k].path
    BY <1>1, <1>2, <1>4 DEF PathInv
  <2>2. new \in tree'[new].path
    BY <1>1, <1>3
  <2>3. QED BY <1>4, <2>1, <2>2
<1>10. ASSUME NEW m \in Mcts!Nodes
       PROVE  tree'[m].visit_count = Cardinality({k \in Mcts!Nodes' : m \in tree'[k].path})
  <2>1. tree[m].visit_count = Cardinality(Mcts!Subtree(m))
    BY Cards DEF TreeInv, TreeExact, Mcts!TreeExact
  <2>2. IsFiniteSet(Mcts!Subtree(m)) /\ new \notin Mcts!Subtree(m)
    BY <1>2, <1>4, SubtreeFinite
  <2>3. Cardinality(Mcts!Subtree(m) \cup {new}) = Cardinality(Mcts!Subtree(m)) + 1
    BY <2>2, FS_AddElement
  <2>4. CASE m \in path
    BY <1>1, <1>8, <2>1, <2>3, <2>4
  <2>5. CASE m \notin path
    BY <1>1, <1>8, <2>1, <2>5
  <2>6. QED BY <2>4, <2>5
<1>11. ASSUME NEW m \in Mcts!Nodes, tree'[m].subtree_exhausted,
              NEW k \in {j \in Mcts!Nodes' : m \in tree'[j].path}
       PROVE  tree'[k].goals # Closed /\ ~Mcts!HasTactic(k)'
  <2>1. m \notin path /\ tree[m].subtree_exhausted /\ k \in Mcts!Subtree(m)
    BY <1>1, <1>8, <1>11
  <2>2. k \in Mcts!Nodes /\ tree[k].goals # Closed /\ ~Mcts!HasTactic(k)
    BY <2>1 DEF TreeInv, TreeExact, Mcts!TreeExact, Mcts!Subtree
  <2>3. tree'[k] \in TreeNodes
    BY <1>1, <2>2 DEF Mcts!Nodes
  <2>4. tree'[k].trials \in Nat
    BY <2>3 DEF TreeNodes
  <2>5. QED BY <1>1, <1>6, <2>2, <2>4, StaysSpent
<1>12. /\ tree'[new].visit_count = Cardinality({k \in Mcts!Nodes' : new \in tree'[k].path})
       /\ ~tree'[new].subtree_exhausted
  <2>1. Cardinality({new}) = 1
    BY FS_Singleton
  <2>2. tree'[new].visit_count = 1 /\ tree'[new].subtree_exhausted = FALSE
    BY <1>1, <1>3
  <2>3. QED BY <1>9, <2>1, <2>2
<1>13. TreeExact'
  <2>1. ASSUME NEW m \in Mcts!Nodes'
        PROVE  /\ tree'[m].visit_count = Cardinality({k \in Mcts!Nodes' : m \in tree'[k].path})
               /\ tree'[m].subtree_exhausted =>
                    \A k \in {j \in Mcts!Nodes' : m \in tree'[j].path} :
                      tree'[k].goals # Closed /\ ~Mcts!HasTactic(k)'
    BY <1>4, <1>10, <1>11, <1>12
  <2>2. QED BY <2>1, Cards DEF TreeExact, Mcts!TreeExact, Mcts!Subtree
<1>14. QED BY <1>1, <1>6, <1>7, <1>13 DEF TreeInv

\* What leaves the tree alone.
LEMMA TreeStays ==
  ASSUME TreeInv, UNCHANGED <<tree, idx>>
  PROVE  TreeInv'
<1>1. PathInv'
  BY DEF TreeInv, PathInv, Mcts!Nodes
<1>2. TreeExact'
  BY Cards DEF TreeInv, TreeExact, Mcts!TreeExact, Mcts!Subtree, Mcts!Nodes, Mcts!HasTactic
<1>3. QED BY <1>1, <1>2 DEF TreeInv

-----------------------------------------------------------------------------
(* The gym and the tree search.                                            *)

\* The gym: a proof closed by a failing `by` is one without subgoals, and the theorem in work
\* was stated by an attempt that has begun, or by the caller.
GymInv == /\ gym \in Mcts!States /\ forked \in BOOLEAN /\ (forked => gym = Closed)
          /\ proof \in Nat /\ origin \in 0..proof

\* All subgoals were discharged by commands that were accepted.
Proved == gym = Closed /\ ~forked

\* A success is a proof.
Honest == \A i \in DOMAIN results : results[i].success => results[i].proved

\* The results of the tree search.
MctsResults == [success : BOOLEAN, theorem : Nat, attempt : Nat, proved : BOOLEAN]

\* A theorem that was reported as proved has no subgoal left in the gym, is not what the search
\* in progress is about, and was not reported before.
Reported(i) ==
  /\ results[i].theorem <= proof
  /\ results[i].theorem = origin => gym = Closed
  /\ pc = "search" => results[i].theorem # target
  /\ \A j \in DOMAIN results \ {i} : results[j].success => results[j].theorem # results[i].theorem

\* A search is about the theorem in the gym, and goes on with a finished proof in its tree only
\* as long as that is the proof in the gym.
MctsInv ==
  /\ pc \in {"idle", "search"} /\ GymInv
  /\ results \in Seq(MctsResults) /\ Honest
  /\ \A i \in DOMAIN results : results[i].success /\ results[i].theorem # 0 => Reported(i)
  /\ pc = "search" => /\ origin = target
                      /\ \A n \in Mcts!Nodes : tree[n].goals = Closed => Proved

\* What is done to the gym: nothing, a statement or a reset, or a command.
GymSame == UNCHANGED <<gym, origin, forked>>
GymNew(n) == gym' \in Mcts!States /\ origin' = n /\ forked' = FALSE
GymWorks == gym # Closed /\ gym' \in Mcts!States /\ UNCHANGED <<origin, forked>>
GymForks == gym # Closed /\ gym' = Closed /\ forked' = TRUE /\ origin' = origin

\* The gym's actions do that, in the agents and in the tree search.
LEMMA GymActions ==
  /\ Mcts!States = Agent!States
  /\ \A n : Mcts!Stated(n) => GymNew(n) /\ gym = Closed
  /\ \A n : Agent!Stated(n) => GymNew(n) /\ gym = Closed
  /\ Mcts!Executed => GymWorks
  /\ Agent!Executed => GymWorks
  /\ Mcts!Refused \/ Agent!Refused \/ UNCHANGED Mcts!gymVars \/ UNCHANGED Agent!gymVars => GymSame
  /\ Mcts!RefusedForked \/ Agent!RefusedForked => GymForks
  /\ Mcts!ResetGym \/ Agent!ResetGym => GymNew(0)
  /\ Mcts!Unknown \/ Agent!Unknown => GymSame \/ GymWorks \/ GymForks
BY DEF Mcts!States, Agent!States, Mcts!Stated, Agent!Stated, Mcts!Executed, Agent!Executed,
       Mcts!Refused, Agent!Refused, Mcts!gymVars, Agent!gymVars, Mcts!RefusedForked,
       Agent!RefusedForked, Mcts!ResetGym, Agent!ResetGym, Mcts!Unknown, Agent!Unknown,
       GymSame, GymNew, GymWorks, GymForks

\* The gym is left alone, or takes up a statement.
LEMMA GymBegins ==
  ASSUME GymInv, proof' \in Nat, proof' >= proof, NEW n \in 0..proof', GymSame \/ GymNew(n)
  PROVE  GymInv'
<1>1. CASE GymSame
  <2>1. origin' \in 0..proof'
    BY <1>1 DEF GymInv, GymSame
  <2>2. QED BY <1>1, <2>1 DEF GymInv, GymSame
<1>2. CASE GymNew(n)
  <2>1. forked' \in BOOLEAN /\ ~forked'
    BY <1>2 DEF GymNew
  <2>2. QED BY <1>2, <2>1 DEF GymInv, GymNew
<1>3. QED BY <1>1, <1>2

\* A command, whatever Isabelle made of it, and an exception.
LEMMA GymRuns ==
  ASSUME GymInv, proof' = proof, GymSame \/ GymWorks \/ GymForks
  PROVE  GymInv' /\ origin' = origin /\ (Proved => Proved') /\ (gym = Closed => gym' = Closed)
<1>1. CASE GymSame
  BY <1>1 DEF GymInv, Proved, GymSame
<1>2. CASE GymWorks
  BY <1>2 DEF GymInv, Proved, GymWorks
<1>3. CASE GymForks
  BY <1>3 DEF GymInv, Proved, GymForks, Mcts!States
<1>4. QED BY <1>1, <1>2, <1>3

\* One more result.
LEMMA ResultAdded ==
  ASSUME NEW R, results \in Seq(R), NEW r \in R, results' = Append(results, r), Honest,
         r.success => r.proved
  PROVE  results' \in Seq(R) /\ Honest' /\ Len(results') = Len(results) + 1
<1>1. /\ results' \in Seq(R) /\ Len(results') = Len(results) + 1
      /\ results'[Len(results) + 1] = r
      /\ \A i \in 1..Len(results) : results'[i] = results[i]
  OBVIOUS
<1>2. /\ DOMAIN results = 1..Len(results) /\ DOMAIN results' = 1..(Len(results) + 1)
      /\ Len(results) \in Nat
  BY <1>1
<1>3. \A i \in DOMAIN results' : i = Len(results) + 1 \/ i \in 1..Len(results)
  BY <1>2
<1>4. \A i \in DOMAIN results' : results'[i].success => results'[i].proved
  BY <1>1, <1>2, <1>3 DEF Honest
<1>5. QED BY <1>1, <1>4 DEF Honest

\* What keeps the results of the tree search.
LEMMA ReportsKept ==
  ASSUME MctsInv, results' = results, proof' \in Nat, proof' >= proof,
         \/ (origin' = origin /\ (gym = Closed => gym' = Closed))
         \/ origin' = 0 \/ origin' > proof \/ gym' = Closed,
         pc' = "search" => \/ (pc = "search" /\ target' = target)
                          \/ target' > proof
                          \/ (gym # Closed /\ target' = origin)
  PROVE  /\ results' \in Seq(MctsResults) /\ Honest'
         /\ (\A i \in DOMAIN results : results[i].success /\ results[i].theorem # 0 => Reported(i))'
<1>1. proof \in Nat /\ proof' \in Nat
  BY DEF MctsInv, GymInv
<1>2. ASSUME NEW i \in DOMAIN results, results[i].success, results[i].theorem # 0
      PROVE  /\ results[i].theorem <= proof'
             /\ results[i].theorem = origin' => gym' = Closed
             /\ pc' = "search" => results[i].theorem # target'
             /\ \A j \in DOMAIN results \ {i} :
                  results[j].success => results[j].theorem # results[i].theorem
  <2>1. Reported(i) /\ results[i].theorem \in Nat
    <3>1. results[i] \in MctsResults /\ Reported(i)
      BY <1>2 DEF MctsInv
    <3>2. QED BY <3>1 DEF MctsResults
  <2>2. results[i].theorem <= proof /\ (results[i].theorem = origin => gym = Closed)
    BY <2>1 DEF Reported
  <2>3. results[i].theorem <= proof'
    BY <1>1, <2>1, <2>2
  <2>4. results[i].theorem = origin' => gym' = Closed
    BY <1>1, <1>2, <2>1, <2>2 DEF MctsInv, GymInv
  <2>5. pc' = "search" => results[i].theorem # target'
    BY <1>1, <2>1, <2>2 DEF Reported, MctsInv, GymInv
  <2>6. QED BY <2>1, <2>3, <2>4, <2>5 DEF Reported
<1>3. QED BY <1>2 DEF MctsInv, Honest, Reported

\* prove_theorem of the tree search returns.
LEMMA MctsReturns ==
  ASSUME MctsInv, pc = "search", NEW success \in BOOLEAN, Mcts!Return(success),
         UNCHANGED <<proof, target>>, success => Proved
  PROVE  MctsInv'
<1> DEFINE t == [success |-> success, theorem |-> target, attempt |-> proof,
                 proved |-> gym = Closed /\ origin = target /\ ~forked]
<1>1. /\ pc' = "idle" /\ UNCHANGED <<gym, origin, forked>>
      /\ results' = Append(results, t) \/ results' = results
  BY DEF Mcts!Return, Mcts!gymVars
<1>2. proof \in Nat /\ origin \in 0..proof /\ target = origin
  BY DEF MctsInv, GymInv
<1>3. /\ t \in MctsResults /\ (t.success => t.proved) /\ t.theorem = origin
      /\ (t.success => gym = Closed)
  BY <1>2 DEF MctsResults, Proved
<1> HIDE DEF t
<1>4. GymInv'
  BY <1>1 DEF MctsInv, GymInv
<1>5. CASE results' = results
  <2>1. (\A i \in DOMAIN results : results[i].success /\ results[i].theorem # 0 => Reported(i))'
    BY <1>1, <1>2, <1>5, ReportsKept
  <2>2. Honest'
    BY <1>5 DEF MctsInv, Honest
  <2>3. QED BY <1>1, <1>4, <1>5, <2>1, <2>2 DEF MctsInv
<1>6. CASE results' = Append(results, t)
  <2> DEFINE new == Len(results) + 1
  <2>1. results' \in Seq(MctsResults) /\ Honest' /\ Len(results') = new
    BY <1>3, <1>6, ResultAdded DEF MctsInv
  <2>2. /\ results \in Seq(MctsResults) /\ results'[new] = t /\ new \notin DOMAIN results
        /\ DOMAIN results = 1..Len(results)
        /\ \A i \in DOMAIN results : results'[i] = results[i]
        /\ DOMAIN results' = DOMAIN results \cup {new}
    BY <1>6, <2>1 DEF MctsInv
  <2> HIDE DEF new
  <2>3. \A i \in DOMAIN results : results[i].success /\ results[i].theorem # 0 =>
          /\ results[i].theorem <= proof /\ results[i].theorem # origin
          /\ \A j \in DOMAIN results \ {i} :
               results[j].success => results[j].theorem # results[i].theorem
    BY <1>2 DEF MctsInv, Reported
  <2>4. ASSUME NEW i \in DOMAIN results', results'[i].success, results'[i].theorem # 0
        PROVE  /\ results'[i].theorem <= proof
               /\ results'[i].theorem = origin => gym = Closed
               /\ \A j \in DOMAIN results' \ {i} :
                    results'[j].success => results'[j].theorem # results'[i].theorem
    <3>1. CASE i = new
      <4>1. results'[i].theorem = origin /\ origin # 0 /\ gym = Closed
        BY <1>3, <2>2, <2>4, <3>1
      <4>2. ASSUME NEW j \in DOMAIN results' \ {i}, results'[j].success
            PROVE  results'[j].theorem # origin
        <5>1. j \in DOMAIN results /\ results'[j] = results[j]
          BY <2>2, <3>1, <4>2
        <5>2. QED BY <2>3, <4>1, <4>2, <5>1
      <4>3. QED BY <1>2, <4>1, <4>2
    <3>2. CASE i \in DOMAIN results
      <4>1. results'[i] = results[i]
        BY <2>2, <3>2
      <4>2. ASSUME NEW j \in DOMAIN results' \ {i}, results'[j].success
            PROVE  results'[j].theorem # results'[i].theorem
        <5>1. CASE j = new
          BY <1>3, <2>2, <2>3, <2>4, <3>2, <4>1, <5>1
        <5>2. CASE j \in DOMAIN results
          BY <2>2, <2>3, <2>4, <3>2, <4>1, <4>2, <5>2
        <5>3. QED BY <2>2, <4>2, <5>1, <5>2
      <4>3. QED BY <2>3, <2>4, <3>2, <4>1, <4>2
    <3>3. QED BY <2>2, <3>1, <3>2
  <2>5. (\A i \in DOMAIN results : results[i].success /\ results[i].theorem # 0 => Reported(i))'
    BY <1>1, <2>4 DEF Reported
  <2>6. QED BY <1>1, <1>4, <2>1, <2>5 DEF MctsInv
<1>7. QED BY <1>1, <1>5, <1>6

\* A step of the search runs a command, or none.
LEMMA MctsRuns ==
  ASSUME MctsInv, pc = "search", UNCHANGED <<pc, proof, target, results>>,
         GymSame \/ GymWorks \/ GymForks
  PROVE  /\ GymInv' /\ origin' = target' /\ (Proved => Proved')
         /\ results' \in Seq(MctsResults) /\ Honest'
         /\ (\A i \in DOMAIN results : results[i].success /\ results[i].theorem # 0 => Reported(i))'
<1>1. /\ GymInv' /\ origin' = origin /\ (Proved => Proved') /\ (gym = Closed => gym' = Closed)
  BY GymRuns DEF MctsInv
<1>2. proof' \in Nat /\ proof' >= proof
  BY DEF MctsInv, GymInv
<1>3. QED BY <1>1, <1>2, ReportsKept DEF MctsInv

\* A tactic that adds no node.
LEMMA MctsTried ==
  ASSUME TreeInv, MctsInv, NEW n \in Mcts!Nodes, Mcts!Rejected(n) \/ Mcts!Raised(n)
  PROVE  MctsInv'
<1>1. /\ Mcts!Try(n) /\ tree' = Mcts!Tried(n) /\ pc = "search"
      /\ UNCHANGED <<pc, proof, target, results>>
  BY DEF Mcts!Rejected, Mcts!Raised, Mcts!Try, Mcts!Iteration
<1>2. Mcts!Nodes' = Mcts!Nodes /\ \A m \in Mcts!Nodes : tree'[m].goals = tree[m].goals
  BY <1>1, TriedTree DEF Mcts!Nodes
<1>3. GymSame \/ GymWorks \/ GymForks
  BY GymActions DEF Mcts!Rejected, Mcts!Raised
<1>4. QED BY <1>1, <1>2, <1>3, MctsRuns DEF MctsInv

\* Expansion: a proof that is finished has no node below.
LEMMA MctsExpanded ==
  ASSUME TreeInv, MctsInv, NEW n \in Mcts!Nodes, Mcts!Expand(n)
  PROVE  MctsInv'
<1> DEFINE new == Len(tree) + 1
<1>1. /\ pc = "search" /\ UNCHANGED <<pc, proof, target, results>> /\ GymWorks
  BY GymActions DEF Mcts!Expand, Mcts!Try, Mcts!Iteration
<1>2. /\ Len(tree') = new /\ tree'[new].goals = gym'
      /\ \A m \in Mcts!Nodes : tree'[m].goals = tree[m].goals
  <2>1. /\ Len(tree') = new /\ \A m \in Mcts!Nodes : tree'[m].goals = tree[m].goals
        /\ tree'[new] = Mcts!Node(gym', n, tree[n].path \cup {new})
    BY ExpandedTree
  <2>2. Mcts!Node(gym', n, tree[n].path \cup {new}).goals = gym'
    BY DEF Mcts!Node
  <2>3. QED BY <2>1, <2>2
<1>3. ~forked /\ forked' = forked /\ \A m \in Mcts!Nodes : tree[m].goals # Closed
  BY <1>1 DEF MctsInv, GymInv, Proved, GymWorks
<1>4. Len(tree) \in Nat
  BY DEF TreeInv
<1>5. \A m \in Mcts!Nodes' : m = new \/ m \in Mcts!Nodes
  BY <1>2, <1>4 DEF Mcts!Nodes
<1>6. (\A m \in Mcts!Nodes : tree[m].goals = Closed => Proved)'
  BY <1>2, <1>3, <1>5 DEF Proved
<1>7. QED BY <1>1, <1>6, MctsRuns DEF MctsInv

\* What the caller does between two searches, and a statement that comes to nothing.
LEMMA MctsIdle ==
  ASSUME MctsInv, pc = "idle", UNCHANGED <<pc, target, results>>, proof' \in {proof, proof + 1},
         GymSame \/ GymWorks \/ GymNew(0) \/ (proof' = proof + 1 /\ GymNew(proof'))
  PROVE  MctsInv'
<1>1. proof \in Nat /\ proof' \in Nat /\ proof' >= proof
  BY DEF MctsInv, GymInv
<1>2. GymInv'
  <2>1. CASE GymWorks
    BY <1>1, <2>1 DEF MctsInv, GymInv, GymWorks
  <2>2. CASE GymSame \/ GymNew(0)
    BY <1>1, <2>2, GymBegins DEF MctsInv
  <2>3. CASE proof' = proof + 1 /\ GymNew(proof')
    BY <1>1, <2>3, GymBegins DEF MctsInv
  <2>4. QED BY <2>1, <2>2, <2>3
<1>3. \/ origin' = origin /\ (gym = Closed => gym' = Closed)
      \/ origin' = 0 \/ origin' > proof
  BY <1>1 DEF GymSame, GymWorks, GymNew
<1>4. /\ results' \in Seq(MctsResults) /\ Honest'
      /\ (\A i \in DOMAIN results : results[i].success /\ results[i].theorem # 0 => Reported(i))'
  BY <1>1, <1>3, ReportsKept
<1>5. QED BY <1>2, <1>4 DEF MctsInv

\* A search begins: on the theorem that is open, which was not reported, or on a new one.
LEMMA MctsStarts ==
  ASSUME TreeInv, MctsInv, Mcts!Start
  PROVE  TreeInv' /\ MctsInv'
<1>1. /\ pc = "idle" /\ pc' = "search" /\ proof' = proof + 1 /\ results' = results
      /\ idx' = idx /\ tree' = <<Mcts!Node(gym', 0, {1})>>
      /\ \/ gym # Closed /\ target' = origin /\ GymSame
         \/ GymNew(proof') /\ gym' # Closed /\ target' = proof'
  BY GymActions DEF Mcts!Start, Mcts!Attempt
<1>2. proof \in Nat /\ proof' \in Nat /\ proof' >= proof /\ proof' > proof
  BY <1>1 DEF MctsInv, GymInv
<1>3. GymInv'
  BY <1>1, <1>2, GymBegins DEF MctsInv
<1>4. gym' # Closed /\ gym' \in Mcts!States /\ origin' = target'
  BY <1>1, <1>3 DEF GymSame, GymNew, GymInv
<1>5. TreeInv'
  BY <1>1, <1>4, RootTree DEF TreeInv
<1>6. Mcts!Nodes' = {1} /\ tree'[1].goals = gym'
  BY <1>1 DEF Mcts!Nodes, Mcts!Node
<1>7. \/ origin' = origin /\ (gym = Closed => gym' = Closed)
      \/ origin' > proof
  BY <1>1, <1>2 DEF GymSame, GymNew
<1>8. \/ (pc = "search" /\ target' = target)
      \/ target' > proof
      \/ (gym # Closed /\ target' = origin)
  BY <1>1, <1>2
<1>9. /\ results' \in Seq(MctsResults) /\ Honest'
      /\ (\A i \in DOMAIN results : results[i].success /\ results[i].theorem # 0 => Reported(i))'
  BY <1>1, <1>2, <1>7, <1>8, ReportsKept
<1>10. QED BY <1>1, <1>3, <1>4, <1>5, <1>6, <1>9 DEF MctsInv

\* A step of the tree search.
LEMMA MctsNext ==
  ASSUME TreeInv, MctsInv, Mcts!Next
  PROVE  TreeInv' /\ MctsInv'
<1>1. CASE Mcts!Start
  BY <1>1, MctsStarts
<1>2. CASE Mcts!StartFails \/ Mcts!CallerUsesGym \/ Mcts!Over
  <2>1. /\ UNCHANGED <<tree, idx, pc, results, target>> /\ pc = "idle"
        /\ proof' \in {proof, proof + 1}
    BY <1>2 DEF Mcts!StartFails, Mcts!CallerUsesGym, Mcts!Over, Mcts!Attempt, Mcts!vars
  <2>2. GymSame \/ GymWorks \/ GymNew(0) \/ (proof' = proof + 1 /\ GymNew(proof'))
    <3>1. CASE Mcts!StartFails
      BY <3>1, GymActions DEF Mcts!StartFails, Mcts!Attempt
    <3>2. CASE Mcts!CallerUsesGym
      BY <3>2, GymActions DEF Mcts!CallerUsesGym
    <3>3. CASE Mcts!Over
      BY <3>3 DEF Mcts!Over, Mcts!vars, Mcts!gymVars, GymSame
    <3>4. QED BY <1>2, <3>1, <3>2, <3>3
  <2>3. QED BY <2>1, <2>2, MctsIdle, TreeStays
<1>3. CASE Mcts!Exhausted
  <2>1. /\ Mcts!Return(FALSE) /\ UNCHANGED <<tree, idx, proof, target>> /\ pc = "search"
    BY <1>3 DEF Mcts!Exhausted, Mcts!Return
  <2>2. QED BY <2>1, TreeStays, MctsReturns
<1>4. ASSUME NEW n \in Mcts!Nodes, Mcts!Complete(n)
      PROVE  TreeInv' /\ MctsInv'
  <2>1. /\ Mcts!Return(TRUE) /\ UNCHANGED <<tree, idx, proof, target>> /\ pc = "search"
        /\ tree[n].goals = Closed
    BY <1>4 DEF Mcts!Complete, Mcts!Return, Mcts!Iteration
  <2>2. Proved
    BY <2>1 DEF MctsInv
  <2>3. QED BY <2>1, <2>2, TreeStays, MctsReturns
<1>5. ASSUME NEW n \in Mcts!Nodes, Mcts!Spend(n)
      PROVE  TreeInv' /\ MctsInv'
  <2>1. TreeInv'
    BY <1>5, SpendTree
  <2>2. /\ UNCHANGED <<pc, proof, target, results>> /\ GymSame /\ pc = "search"
    BY <1>5 DEF Mcts!Spend, Mcts!Iteration, Mcts!gymVars, GymSame
  <2>3. Mcts!Nodes' = Mcts!Nodes /\ \A m \in Mcts!Nodes : tree'[m].goals = tree[m].goals
    <3>1. tree \in Seq(TreeNodes)
      BY DEF TreeInv
    <3>2. tree' = [tree EXCEPT ![n] = [tree[n] EXCEPT !.exhausted = TRUE,
                                         !.subtree_exhausted = (Mcts!Available(n) = {})]]
      BY <1>5, <3>1 DEF Mcts!Spend, Mcts!Nodes
    <3>3. \A m \in Mcts!Nodes : tree[m] \in TreeNodes
      BY <3>1 DEF Mcts!Nodes
    <3>4. QED BY <3>1, <3>2, <3>3 DEF TreeNodes, Mcts!Nodes
  <2>4. QED BY <2>1, <2>2, <2>3, MctsRuns DEF MctsInv
<1>6. ASSUME NEW n \in Mcts!Nodes, Mcts!Expand(n)
      PROVE  TreeInv' /\ MctsInv'
  BY <1>6, ExpandTree, MctsExpanded
<1>7. ASSUME NEW n \in Mcts!Nodes, Mcts!Rejected(n) \/ Mcts!Raised(n)
      PROVE  TreeInv' /\ MctsInv'
  <2>1. Mcts!Try(n) /\ tree' = Mcts!Tried(n)
    BY <1>7 DEF Mcts!Rejected, Mcts!Raised
  <2>2. QED BY <1>7, <2>1, TryTree, MctsTried
<1>8. QED
  BY <1>1, <1>2, <1>3, <1>4, <1>5, <1>6, <1>7 DEF Mcts!Next, Mcts!Search

-----------------------------------------------------------------------------
(* The agents.                                                             *)

\* The records of the state.
Records == [before : Goals, tactic : Nat, after : Agent!States, success : BOOLEAN]
Results == [success : BOOLEAN, depth : Nat, theorem : Nat, proved : BOOLEAN]
ProofSessions == [success : BOOLEAN, recs : Seq(Records)]
Totals == [attempted : Nat, succeeded : Nat, tried : Nat, won : Nat]

\* Every variable of an agent has its type.
AgentType ==
  /\ kind \in {"plain", "training"} /\ proof \in Nat /\ ctx \in Agent!States
  /\ log \in Seq(Records) /\ counter \in [Goals -> Nat] /\ stats \in Totals
  /\ results \in Seq(Results) /\ sessions \in Seq(ProofSessions) /\ collected \in Seq(Nat)

\* Where the records of a search lead.
Led(l) == IF l[Len(l)].success THEN l[Len(l)].after ELSE l[Len(l)].before

\* A search: it is about the theorem in the gym, its records are a chain, its context is where
\* they lead, and if nothing is left there the proof in the gym is finished.  A theorem has its
\* result when its search is over.
SearchInv ==
  /\ pc \in {"idle", "search", "save", "save_error"} /\ GymInv /\ Agent!Chain(log)
  /\ pc # "idle" => proof > 0
  /\ kind = "plain" => pc \in {"idle", "search"}
  /\ pc = "search" => /\ IF log = <<>> THEN ctx \in Goals ELSE ctx = Led(log)
                      /\ origin = proof /\ (ctx = Closed => Proved)
  /\ Len(results) = IF pc = "search" THEN proof - 1 ELSE proof

\* The theorems reported as proved.
Wins == {i \in 1..Len(results) : results[i].success}

\* The totals and the training data against the results: sessions can be replayed, say success
\* only of a theorem that was proved, and are collected one after the other, none left out.
TallyInv ==
  /\ Honest /\ \A i \in DOMAIN results : results[i].theorem = i
  /\ kind = "plain" => stats.succeeded = Cardinality(Wins) /\ sessions = <<>> /\ collected = <<>>
  /\ kind = "training" => Len(sessions) = Len(results)
  /\ \A i \in 1..Len(sessions) : /\ Agent!Chain(sessions[i].recs)
                                 /\ sessions[i].success => Agent!Concludes(sessions[i].recs)
                                 /\ sessions[i].success => results[i].success
                                 /\ \E k \in 1..Len(collected) : collected[k] = i
  /\ \A k \in 1..Len(collected)-1 : collected[k+1] \in {collected[k], collected[k] + 1}
  /\ IF sessions = <<>> THEN collected = <<>>
     ELSE collected # <<>> /\ collected[Len(collected)] = Len(sessions)

\* The invariant of the agents.
AgentInv == AgentType /\ SearchInv /\ TallyInv

\* A record that starts where the last one led continues the chain.
LEMMA ChainGrows ==
  ASSUME NEW l \in Seq(Records), Agent!Chain(l), NEW r \in Records,
         l # <<>> => r.before = Led(l)
  PROVE  Agent!Chain(Append(l, r))
<1> DEFINE m == Append(l, r)
<1>1. /\ Len(m) = Len(l) + 1 /\ m[Len(l) + 1] = r /\ Len(l) \in Nat
      /\ \A i \in 1..Len(l) : m[i] = l[i]
  OBVIOUS
<1> HIDE DEF m
<1>2. ASSUME NEW i \in 1..Len(m)-1
      PROVE  m[i+1].before = IF m[i].success THEN m[i].after ELSE m[i].before
  <2>1. CASE i = Len(l)
    <3>1. l # <<>> /\ i \in 1..Len(l)
      BY <1>1, <1>2, <2>1
    <3>2. QED BY <1>1, <2>1, <3>1 DEF Led
  <2>2. CASE i # Len(l)
    <3>1. i \in 1..Len(l)-1 /\ i \in 1..Len(l) /\ i + 1 \in 1..Len(l)
      BY <1>1, <1>2, <2>2
    <3>2. QED BY <1>1, <3>1 DEF Agent!Chain
  <2>3. QED BY <2>1, <2>2
<1>3. QED BY <1>2 DEF Agent!Chain, m

\* The number of records that made progress is a number.
LEMMA DepthNat ==
  ASSUME NEW l \in Seq(Records)
  PROVE  Agent!Depth(l) \in Nat
<1>1. IsFiniteSet({i \in 1..Len(l) : l[i].success})
  <2>1. IsFiniteSet(1..Len(l))
    BY FS_Interval
  <2>2. QED BY <2>1, FS_Subset
<1>2. QED BY <1>1, FS_CardinalityType, Cards DEF Agent!Depth

\* One more result is one more success, or not.
LEMMA WinsGrow ==
  ASSUME results \in Seq(Results), NEW r \in Results, results' = Append(results, r)
  PROVE  Cardinality(Wins') = Cardinality(Wins) + (IF r.success THEN 1 ELSE 0)
<1> DEFINE new == Len(results) + 1
<1>1. /\ Len(results') = new /\ results'[new] = r /\ Len(results) \in Nat
      /\ \A i \in 1..Len(results) : results'[i] = results[i]
  OBVIOUS
<1>2. \A i : i \in 1..new <=> i \in 1..Len(results) \/ i = new
  BY <1>1
<1>3. new \notin Wins
  BY <1>1 DEF Wins
<1>4. Wins' = IF r.success THEN Wins \cup {new} ELSE Wins
  BY <1>1, <1>2 DEF Wins
<1>5. IsFiniteSet(Wins)
  <2>1. IsFiniteSet(1..Len(results)) /\ Wins \subseteq 1..Len(results)
    BY <1>1, FS_Interval DEF Wins
  <2>2. QED BY <2>1, FS_Subset
<1>6. Cardinality(Wins \cup {new}) = Cardinality(Wins) + 1 /\ Cardinality(Wins) \in Nat
  BY <1>3, <1>5, FS_AddElement, FS_CardinalityType
<1>7. QED BY <1>4, <1>6

\* prove_theorem returns: a result, and for the training agent a session and a file.
LEMMA EndTally ==
  ASSUME AgentType, TallyInv, NEW success \in BOOLEAN, NEW depth \in Nat,
         NEW save \in {"save", "save_error"}, Agent!End(success, depth, save), kind' = kind,
         proof' = Len(results) + 1, log' \in Seq(Records), Agent!Chain(log'),
         success => gym' = Closed /\ origin' = proof' /\ ~forked' /\ Agent!Concludes(log'),
         kind = "plain" => stats'.succeeded = stats.succeeded + (IF success THEN 1 ELSE 0)
  PROVE  /\ results' \in Seq(Results) /\ sessions' \in Seq(ProofSessions)
         /\ collected' \in Seq(Nat) /\ TallyInv' /\ Len(results') = Len(results) + 1
         /\ pc' \in {"idle", "save", "save_error"} /\ (kind = "plain" => pc' = "idle")
<1> DEFINE r == [success |-> success, depth |-> depth, theorem |-> proof',
                 proved |-> gym' = Closed /\ origin' = proof' /\ ~forked']
           s == [success |-> success, recs |-> log']
           new == Len(results) + 1
<1>1. /\ results' = Append(results, r)
      /\ \/ kind = "plain" /\ pc' = "idle" /\ UNCHANGED <<sessions, collected>>
         \/ /\ kind = "training" /\ pc' = save
            /\ sessions' = Append(sessions, s) /\ collected' = Append(collected, new)
  BY DEF Agent!End, Agent!Result, Agent!Collect
<1>2. /\ r \in Results /\ r.success = success /\ (r.success => r.proved) /\ r.theorem = new
  <2>1. proof' \in Nat
    BY DEF AgentType
  <2>2. QED BY <2>1 DEF Results
<1>3. s \in ProofSessions /\ s.success = success /\ s.recs = log'
  BY DEF ProofSessions
<1> HIDE DEF r, s
<1>4. results' \in Seq(Results) /\ Honest' /\ Len(results') = new
  BY <1>1, <1>2, ResultAdded DEF AgentType, TallyInv
<1>5. /\ results'[new] = r /\ \A i \in 1..Len(results) : results'[i] = results[i]
      /\ Len(results) \in Nat
  BY <1>1, <1>2 DEF AgentType
<1>9. \A i \in DOMAIN results' : results'[i].theorem = i
  <2>1. DOMAIN results = 1..Len(results) /\ DOMAIN results' = 1..new
    BY <1>4 DEF AgentType
  <2>2. \A i \in 1..new : i = new \/ i \in 1..Len(results)
    BY <1>5
  <2>3. QED BY <1>2, <1>5, <2>1, <2>2 DEF TallyInv
<1>6. CASE kind = "plain" /\ UNCHANGED <<sessions, collected>> /\ pc' = "idle"
  <2>1. sessions = <<>> /\ collected = <<>> /\ stats.succeeded = Cardinality(Wins)
    BY <1>6 DEF TallyInv
  <2>2. stats'.succeeded = Cardinality(Wins')
    BY <1>1, <1>2, <1>6, <2>1, WinsGrow DEF AgentType
  <2>3. TallyInv'
    BY <1>4, <1>6, <1>9, <2>1, <2>2 DEF TallyInv
  <2>4. QED BY <1>4, <1>6, <2>3 DEF AgentType
<1>7. CASE /\ kind = "training" /\ pc' = save
           /\ sessions' = Append(sessions, s) /\ collected' = Append(collected, new)
  <2>1. Len(sessions) = Len(results)
    BY <1>7 DEF TallyInv
  <2>2. /\ sessions' \in Seq(ProofSessions) /\ Len(sessions') = new /\ sessions'[new] = s
        /\ \A i \in 1..Len(sessions) : sessions'[i] = sessions[i]
    BY <1>3, <1>5, <1>7, <2>1 DEF AgentType
  <2>3. /\ collected' \in Seq(Nat) /\ Len(collected') = Len(collected) + 1
        /\ collected'[Len(collected) + 1] = new /\ Len(collected) \in Nat
        /\ \A k \in 1..Len(collected) : collected'[k] = collected[k]
    BY <1>5, <1>7 DEF AgentType
  <2>4. ASSUME NEW i \in 1..Len(sessions')
        PROVE  /\ Agent!Chain(sessions'[i].recs)
               /\ sessions'[i].success => Agent!Concludes(sessions'[i].recs)
               /\ sessions'[i].success => results'[i].success
               /\ \E k \in 1..Len(collected') : collected'[k] = i
    <3>1. CASE i = new
      <4>1. Len(collected) + 1 \in 1..Len(collected')
        BY <2>3
      <4>2. QED BY <1>2, <1>3, <1>5, <2>2, <2>3, <3>1, <4>1
    <3>2. CASE i # new
      <4>1. i \in 1..Len(sessions) /\ i \in 1..Len(results)
        BY <1>5, <2>1, <2>2, <2>4, <3>2
      <4>2. PICK k \in 1..Len(collected) : collected[k] = i
        BY <4>1 DEF TallyInv
      <4>3. k \in 1..Len(collected') /\ collected'[k] = i
        BY <2>3, <4>2
      <4>4. QED BY <1>5, <2>2, <4>1, <4>3 DEF TallyInv
    <3>3. QED BY <3>1, <3>2
  <2>5. ASSUME NEW k \in 1..Len(collected')-1
        PROVE  collected'[k+1] \in {collected'[k], collected'[k] + 1}
    <3>1. CASE k = Len(collected)
      <4>1. collected # <<>> /\ k \in 1..Len(collected)
        BY <2>3, <2>5, <3>1
      <4>2. collected[Len(collected)] = Len(results)
        BY <2>1, <4>1 DEF TallyInv
      <4>3. QED BY <2>3, <3>1, <4>1, <4>2
    <3>2. CASE k # Len(collected)
      <4>1. k \in 1..Len(collected)-1 /\ k \in 1..Len(collected) /\ k + 1 \in 1..Len(collected)
        BY <2>3, <2>5, <3>2
      <4>2. QED BY <2>3, <4>1 DEF TallyInv
    <3>3. QED BY <3>1, <3>2
  <2>6. collected' # <<>> /\ collected'[Len(collected')] = Len(sessions')
    BY <2>2, <2>3
  <2>7. sessions' # <<>>
    BY <1>5, <2>2
  <2>8. TallyInv'
    BY <1>4, <1>7, <1>9, <2>2, <2>4, <2>5, <2>6, <2>7 DEF TallyInv
  <2>9. QED BY <1>4, <1>7, <2>2, <2>3, <2>8
<1>8. QED BY <1>1, <1>6, <1>7

\* The end of an attempt.
LEMMA EndInv ==
  ASSUME AgentInv, NEW success \in BOOLEAN, NEW depth \in Nat,
         NEW save \in {"save", "save_error"}, Agent!End(success, depth, save), kind' = kind,
         proof' \in Nat, proof' = Len(results) + 1, log' \in Seq(Records), Agent!Chain(log'),
         ctx' \in Agent!States, counter' \in [Goals -> Nat], stats' \in Totals, GymInv',
         success => gym' = Closed /\ origin' = proof' /\ ~forked' /\ Agent!Concludes(log'),
         kind = "plain" => stats'.succeeded = stats.succeeded + (IF success THEN 1 ELSE 0)
  PROVE  AgentInv'
<1>1. /\ results' \in Seq(Results) /\ sessions' \in Seq(ProofSessions)
      /\ collected' \in Seq(Nat) /\ TallyInv' /\ Len(results') = Len(results) + 1
      /\ pc' \in {"idle", "save", "save_error"} /\ (kind = "plain" => pc' = "idle")
  BY EndTally DEF AgentInv
<1>2. AgentType'
  BY <1>1 DEF AgentInv, AgentType
<1>3. Len(results) \in Nat
  BY DEF AgentInv, AgentType
<1>4. SearchInv'
  BY <1>1, <1>3 DEF SearchInv
<1>5. QED BY <1>1, <1>2, <1>4 DEF AgentInv

\* The state in a search.
LEMMA Searching ==
  ASSUME AgentInv, Agent!Loop
  PROVE  /\ pc = "search" /\ kind' = kind /\ proof' = proof /\ proof = Len(results) + 1
         /\ proof \in Nat /\ proof > 0 /\ ctx \in Agent!States /\ log \in Seq(Records)
         /\ Agent!Chain(log) /\ GymInv /\ origin = proof /\ (ctx = Closed => Proved)
         /\ log # <<>> => ctx = Led(log)
BY DEF Agent!Loop, AgentInv, AgentType, SearchInv

\* Timeout, and the end without a proof.
LEMMA GivesUp ==
  ASSUME AgentInv, Agent!Timeout \/ Agent!Exhausted
  PROVE  AgentInv'
<1>1. /\ Agent!Loop /\ GymSame /\ UNCHANGED <<ctx, log, counter, stats>>
      /\ Agent!Finish(FALSE, Agent!Depth(log))
  BY DEF Agent!Timeout, Agent!Exhausted, Agent!gymVars, GymSame
<1>2. Agent!Depth(log) \in Nat
  BY DepthNat DEF AgentInv, AgentType
<1>3. GymInv'
  BY <1>1 DEF GymInv, GymSame, AgentInv, SearchInv, Agent!Loop
<1>4. AgentType /\ stats.succeeded \in Nat
  BY DEF AgentInv, AgentType, Totals
<1>5. /\ FALSE \in BOOLEAN /\ "save" \in {"save", "save_error"} /\ 0 \in Nat
      /\ "save_error" \in {"save", "save_error"}
      /\ stats'.succeeded = stats.succeeded + (IF FALSE THEN 1 ELSE 0)
  BY <1>1, <1>4
<1>6. /\ kind' = kind /\ proof' \in Nat /\ proof' = Len(results) + 1 /\ log' \in Seq(Records)
      /\ Agent!Chain(log') /\ ctx' \in Agent!States /\ counter' \in [Goals -> Nat]
      /\ stats' \in Totals
  BY <1>1, <1>4, Searching DEF AgentType
<1>7. CASE Agent!End(FALSE, Agent!Depth(log), "save")
  BY <1>2, <1>3, <1>5, <1>6, <1>7, EndInv
<1>8. CASE Agent!End(FALSE, 0, "save_error")
  BY <1>3, <1>5, <1>6, <1>8, EndInv
<1>9. QED BY <1>1, <1>7, <1>8 DEF Agent!Finish

\* The proof is complete.
LEMMA CompleteInv ==
  ASSUME AgentInv, Agent!Complete
  PROVE  AgentInv'
<1>1. /\ Agent!Loop /\ GymSame /\ UNCHANGED <<ctx, log, counter>> /\ ctx = Closed
      /\ stats' = (IF kind = "plain" THEN [stats EXCEPT !.succeeded = @ + 1] ELSE stats)
      /\ Agent!Finish(TRUE, Agent!Depth(log))
  BY DEF Agent!Complete, Agent!gymVars, GymSame
<1>2. Agent!Depth(log) \in Nat
  BY DepthNat DEF AgentInv, AgentType
<1>3. GymInv'
  BY <1>1 DEF GymInv, GymSame, AgentInv, SearchInv, Agent!Loop
<1>4. AgentType /\ stats \in Totals
  BY DEF AgentInv, AgentType
<1>5. gym' = Closed /\ origin' = proof' /\ ~forked'
  BY <1>1, Searching DEF Proved, GymSame
<1>6. Agent!Concludes(log)
  <2>1. log # <<>>
    BY <1>1, EvaluationAssumption DEF AgentInv, SearchInv, Agent!Loop
  <2>2. Len(log) > 0 /\ log[Len(log)] \in Records
    BY <1>4, <2>1 DEF AgentType
  <2>3. Led(log) = Closed
    BY <1>1, <2>1, Searching
  <2>4. QED BY <2>2, <2>3, EvaluationAssumption DEF Led, Records, Agent!Concludes
<1>7. stats' \in Totals /\ (kind = "plain" => stats'.succeeded = stats.succeeded + 1)
  <2> DEFINE q == stats.succeeded + 1
             x == [stats EXCEPT !.succeeded = q]
  <2>1. q \in Nat
    BY <1>4 DEF Totals
  <2>2. stats' = IF kind = "plain" THEN x ELSE stats
    BY <1>1, <1>4 DEF Totals
  <2> HIDE DEF q
  <2>3. x \in Totals /\ x.succeeded = q
    BY <1>4, <2>1 DEF Totals
  <2> HIDE DEF x
  <2>4. QED BY <1>4, <2>2, <2>3 DEF q
<1>8. /\ kind' = kind /\ proof' \in Nat /\ proof' = Len(results) + 1 /\ log' \in Seq(Records)
      /\ Agent!Chain(log') /\ Agent!Concludes(log') /\ ctx' \in Agent!States
      /\ counter' \in [Goals -> Nat]
  BY <1>1, <1>4, <1>6, Searching DEF AgentType
<1>9. CASE Agent!End(TRUE, Agent!Depth(log), "save")
  <2>1. TRUE \in BOOLEAN /\ "save" \in {"save", "save_error"}
    OBVIOUS
  <2>2. QED BY <1>2, <1>3, <1>5, <1>7, <1>8, <1>9, <2>1, EndInv
<1>10. CASE kind = "training" /\ Agent!End(FALSE, 0, "save_error")
  <2>1. FALSE \in BOOLEAN /\ "save_error" \in {"save", "save_error"} /\ 0 \in Nat /\ kind # "plain"
    BY <1>10
  <2>2. QED BY <1>3, <1>7, <1>8, <1>10, <2>1, EndInv
<1>11. QED BY <1>1, <1>9, <1>10 DEF Agent!Finish

\* An attempt begins.
LEMMA AttemptType ==
  ASSUME AgentInv, Agent!Attempt
  PROVE  /\ pc = "idle" /\ proof' = proof + 1 /\ proof' \in Nat /\ proof' > 0 /\ log' = <<>>
         /\ proof = Len(results)
         /\ stats' \in Totals /\ stats'.succeeded = stats.succeeded
         /\ UNCHANGED <<kind, counter>>
<1>1. /\ pc = "idle" /\ proof' = proof + 1 /\ log' = <<>> /\ UNCHANGED <<kind, counter>>
      /\ stats' = IF kind = "plain" THEN [stats EXCEPT !.attempted = @ + 1] ELSE stats
  BY DEF Agent!Attempt
<1>2. proof \in Nat /\ stats \in Totals /\ proof = Len(results)
  BY <1>1 DEF AgentInv, AgentType, SearchInv
<1> DEFINE q == stats.attempted + 1
           x == [stats EXCEPT !.attempted = q]
<1>3. q \in Nat
  BY <1>2 DEF Totals
<1>4. stats' = IF kind = "plain" THEN x ELSE stats
  BY <1>1, <1>2 DEF Totals
<1> HIDE DEF q
<1>5. x \in Totals /\ x.succeeded = stats.succeeded
  BY <1>2, <1>3 DEF Totals
<1> HIDE DEF x
<1>6. QED BY <1>1, <1>2, <1>4, <1>5

\* No records are a chain.
LEMMA EmptyChain == Agent!Chain(<<>>) /\ <<>> \in Seq(Records)
BY DEF Agent!Chain

\* The statement is accepted.
LEMMA StartInv ==
  ASSUME AgentInv, Agent!Start
  PROVE  AgentInv'
<1>1. /\ Agent!Attempt /\ gym' \in Goals /\ ctx' = gym' /\ GymNew(proof') /\ pc' = "search"
      /\ UNCHANGED <<results, sessions, collected>>
  <2>1. Agent!Stated(proof') /\ gym' # Closed
    BY DEF Agent!Start
  <2>2. gym' \in Mcts!States /\ GymNew(proof')
    BY <2>1, GymActions DEF GymNew
  <2>3. gym' \in Goals
    BY <2>1, <2>2 DEF Mcts!States
  <2>4. QED BY <2>2, <2>3 DEF Agent!Start
<1>2. /\ proof' = Len(results) + 1 /\ proof' \in Nat /\ proof' > 0 /\ log' = <<>>
      /\ stats' \in Totals /\ stats'.succeeded = stats.succeeded
      /\ proof' >= proof /\ UNCHANGED <<kind, counter>>
  BY <1>1, AttemptType DEF AgentInv, AgentType
<1>3. GymInv'
  BY <1>1, <1>2, GymBegins DEF AgentInv, SearchInv
<1>4. AgentType'
  BY <1>1, <1>2, EmptyChain DEF AgentInv, AgentType, Agent!States
<1>5. SearchInv'
  <2>1. origin' = proof'
    BY <1>1 DEF GymNew
  <2>2. Len(results') = proof' - 1 /\ Agent!Chain(log') /\ ctx' \in Goals /\ ctx' # Closed
    BY <1>1, <1>2, EmptyChain, EvaluationAssumption DEF AgentInv, AgentType
  <2>3. QED BY <1>1, <1>2, <1>3, <2>1, <2>2 DEF SearchInv
<1>6. Wins' = Wins
  BY <1>1 DEF Wins
<1>7. TallyInv'
  BY <1>1, <1>2, <1>6 DEF AgentInv, TallyInv, Honest
<1>8. QED BY <1>4, <1>5, <1>7 DEF AgentInv

\* It is not.
LEMMA StartFailsInv ==
  ASSUME AgentInv, Agent!StartFails
  PROVE  AgentInv'
<1>1. /\ Agent!Attempt /\ ctx' = Closed
      /\ GymSame \/ GymNew(proof')
      /\ \E save \in {"save", "save_error"} : Agent!End(FALSE, 0, save)
  BY GymActions DEF Agent!StartFails
<1>2. /\ proof' = Len(results) + 1 /\ proof' \in Nat /\ log' = <<>>
      /\ stats' \in Totals /\ stats'.succeeded = stats.succeeded
      /\ proof' >= proof /\ UNCHANGED <<kind, counter>>
  BY <1>1, AttemptType DEF AgentInv, AgentType
<1>3. GymInv'
  BY <1>1, <1>2, GymBegins DEF AgentInv, SearchInv
<1>4. AgentType /\ stats.succeeded \in Nat
  BY DEF AgentInv, AgentType, Totals
<1>5. ctx' \in Agent!States /\ counter' \in [Goals -> Nat]
  BY <1>1, <1>2, <1>4 DEF AgentType, Agent!States
<1>6. /\ FALSE \in BOOLEAN /\ 0 \in Nat
      /\ stats'.succeeded = stats.succeeded + (IF FALSE THEN 1 ELSE 0)
  BY <1>2, <1>4
<1>7. log' \in Seq(Records) /\ Agent!Chain(log')
  BY <1>2, EmptyChain
<1>8. PICK save \in {"save", "save_error"} : Agent!End(FALSE, 0, save)
  BY <1>1
<1>9. QED BY <1>2, <1>3, <1>5, <1>6, <1>7, <1>8, EndInv

\* The counter of the subgoals goes up.
LEMMA CounterType ==
  ASSUME AgentType, Agent!Recommend
  PROVE  counter' \in [Goals -> Nat]
<1>1. counter' = [counter EXCEPT ![ctx] = @ + 1] /\ counter \in [Goals -> Nat]
  BY DEF Agent!Recommend, AgentType
<1>2. \A g \in Goals : counter[g] \in Nat /\ counter[g] + 1 \in Nat
  BY <1>1
<1>3. \A g \in Goals : counter'[g] \in Nat
  BY <1>1, <1>2
<1>4. counter' = [g \in Goals |-> counter'[g]]
  BY <1>1
<1>5. QED BY <1>3, <1>4

\* The gym raises an exception.
LEMMA RaisedInv ==
  ASSUME AgentInv, Agent!Raised
  PROVE  AgentInv'
<1>1. /\ Agent!Loop /\ Agent!Recommend
      /\ GymSame \/ GymWorks \/ GymForks
      /\ UNCHANGED <<ctx, log, stats>>
      /\ Agent!End(FALSE, 0, "save_error")
  BY GymActions DEF Agent!Raised
<1>2. GymInv'
  BY <1>1, Searching, GymRuns
<1>3. AgentType /\ stats.succeeded \in Nat
  BY DEF AgentInv, AgentType, Totals
<1>4. counter' \in [Goals -> Nat]
  BY <1>1, <1>3, CounterType
<1>5. /\ FALSE \in BOOLEAN /\ "save_error" \in {"save", "save_error"} /\ 0 \in Nat
      /\ stats'.succeeded = stats.succeeded + (IF FALSE THEN 1 ELSE 0)
  BY <1>1, <1>3
<1>6. /\ kind' = kind /\ proof' \in Nat /\ proof' = Len(results) + 1 /\ log' \in Seq(Records)
      /\ Agent!Chain(log') /\ ctx' \in Agent!States /\ stats' \in Totals
  BY <1>1, <1>3, Searching DEF AgentType
<1>7. QED BY <1>1, <1>2, <1>4, <1>5, <1>6, EndInv

\* A tactic is recorded.
LEMMA TriedInv ==
  ASSUME AgentInv, Agent!Loop, Agent!Recommend, NEW accepted \in BOOLEAN, Agent!Tried(accepted),
         GymInv', origin' = origin, accepted => (gym' = Closed => Proved'),
         UNCHANGED <<pc, results, sessions, collected>>
  PROVE  AgentInv'
<1> DEFINE b == accepted /\ gym' # ctx
           r == [before |-> ctx, tactic |-> counter'[ctx], after |-> gym', success |-> b]
<1>1. /\ pc = "search" /\ kind' = kind /\ proof' = proof /\ proof \in Nat /\ origin = proof
      /\ log \in Seq(Records) /\ Agent!Chain(log) /\ (log # <<>> => ctx = Led(log))
  BY Searching
<1>2. AgentType
  BY DEF AgentInv
<1>3. ctx \in Goals /\ ctx # Closed /\ gym' \in Agent!States
  BY <1>2, EvaluationAssumption
     DEF Agent!Recommend, AgentType, Agent!States, Mcts!States, GymInv
<1>4. counter' \in [Goals -> Nat] /\ counter'[ctx] \in Nat
  BY <1>2, <1>3, CounterType
<1>5. /\ log' = Append(log, r) /\ ctx' = IF b THEN gym' ELSE ctx
      /\ stats' = IF kind = "plain"
                    THEN [stats EXCEPT !.tried = @ + 1, !.won = IF b THEN @ + 1 ELSE @]
                    ELSE stats
  BY DEF Agent!Tried, Agent!Invocation
<1>6. b \in BOOLEAN
  OBVIOUS
<1>7. stats' \in Totals /\ stats'.succeeded = stats.succeeded
  <2> DEFINE p == stats.tried + 1
             q == IF b THEN stats.won + 1 ELSE stats.won
             x == [stats EXCEPT !.tried = p, !.won = q]
  <2>1. stats \in Totals
    BY <1>2 DEF AgentType
  <2>2. p \in Nat /\ q \in Nat
    BY <2>1 DEF Totals
  <2>3. stats' = IF kind = "plain" THEN x ELSE stats
    BY <1>5, <2>1 DEF Totals
  <2> HIDE DEF p, q
  <2>4. x \in Totals /\ x.succeeded = stats.succeeded
    BY <2>1, <2>2 DEF Totals
  <2> HIDE DEF x
  <2>5. QED BY <2>1, <2>3, <2>4
<1>8. b => (gym' = Closed => Proved')
  OBVIOUS
<1> HIDE DEF b
<1>9. r \in Records /\ r.before = ctx /\ r.after = gym' /\ r.success = b
  BY <1>3, <1>4, <1>6 DEF Records
<1> HIDE DEF r
<1>10. log' \in Seq(Records) /\ Agent!Chain(log')
  <2>1. log # <<>> => r.before = Led(log)
    BY <1>1, <1>9
  <2>2. Agent!Chain(Append(log, r))
    BY <1>1, <1>9, <2>1, ChainGrows
  <2>3. Append(log, r) \in Seq(Records)
    BY <1>1, <1>9
  <2>4. QED BY <1>5, <2>2, <2>3
<1>11. log' # <<>> /\ ctx' = Led(log')
  <2>1. Len(log') = Len(log) + 1 /\ log'[Len(log) + 1] = r /\ Len(log) \in Nat
    BY <1>1, <1>5, <1>9
  <2>2. log'[Len(log')] = r /\ Len(log') > 0
    BY <2>1
  <2>3. QED BY <1>5, <1>9, <2>2 DEF Led
<1>12. ctx' = Closed => Proved'
  BY <1>3, <1>5, <1>8
<1>13. AgentType'
  BY <1>1, <1>2, <1>3, <1>4, <1>5, <1>7, <1>10 DEF AgentType, Agent!States
<1>14. SearchInv'
  BY <1>1, <1>10, <1>11, <1>12 DEF AgentInv, SearchInv
<1>15. Wins' = Wins
  BY DEF Wins
<1>16. TallyInv'
  BY <1>1, <1>7, <1>15 DEF AgentInv, TallyInv, Honest
<1>17. QED BY <1>13, <1>14, <1>16 DEF AgentInv

\* gym.step: accepted, or rejected.
LEMMA StepsInv ==
  ASSUME AgentInv, Agent!TacticAccepted \/ Agent!TacticRejected
  PROVE  AgentInv'
<1>1. GymInv
  BY DEF AgentInv, SearchInv
<1>2. CASE Agent!TacticAccepted
  <2>1. /\ Agent!Loop /\ Agent!Recommend /\ Agent!Tried(TRUE) /\ GymWorks
        /\ UNCHANGED <<pc, results, sessions, collected>>
    BY <1>2, GymActions DEF Agent!TacticAccepted
  <2>2. GymInv' /\ origin' = origin
    BY <1>1, <2>1, Searching, GymRuns
  <2>3. gym' = Closed => Proved'
    BY <1>1, <2>1 DEF GymInv, GymWorks, Proved
  <2>4. QED BY <2>1, <2>2, <2>3, TriedInv
<1>3. CASE Agent!TacticRejected
  <2>1. /\ Agent!Loop /\ Agent!Recommend /\ Agent!Tried(FALSE)
        /\ GymSame \/ GymWorks \/ GymForks
        /\ UNCHANGED <<pc, results, sessions, collected>>
    BY <1>3, GymActions DEF Agent!TacticRejected
  <2>2. GymInv' /\ origin' = origin
    BY <1>1, <2>1, Searching, GymRuns
  <2>3. QED BY <2>1, <2>2, TriedInv
<1>4. QED BY <1>2, <1>3

\* What changes no record.
LEMMA RecordsStay ==
  ASSUME AgentInv, GymInv', pc \in {"idle", "save", "save_error"}, pc' = "idle",
         UNCHANGED <<kind, proof, ctx, log, counter, stats, results, sessions, collected>>
  PROVE  AgentInv'
<1>1. AgentType' /\ SearchInv'
  BY DEF AgentInv, AgentType, SearchInv
<1>2. Wins' = Wins
  BY DEF Wins
<1>3. TallyInv'
  BY <1>2 DEF AgentInv, TallyInv, Honest
<1>4. QED BY <1>1, <1>3 DEF AgentInv

\* The file of a session is written, the caller resets the gym, all is over.
LEMMA RestInv ==
  ASSUME AgentInv, Agent!Saved \/ Agent!CallerResets \/ Agent!Over
  PROVE  AgentInv'
<1>1. /\ pc \in {"idle", "save", "save_error"} /\ pc' = "idle"
      /\ UNCHANGED <<kind, proof, ctx, log, counter, stats, results, sessions, collected>>
      /\ GymSame \/ GymNew(0)
  BY GymActions
     DEF Agent!Saved, Agent!CallerResets, Agent!Over, Agent!vars, Agent!gymVars, GymSame
<1>2. GymInv'
  <2>1. proof \in Nat /\ 0 \in 0..proof
    BY DEF AgentInv, AgentType
  <2>2. QED BY <1>1, <2>1, GymBegins DEF AgentInv, SearchInv
<1>3. QED BY <1>1, <1>2, RecordsStay

\* The file could not be written: the session is collected a second time, as a failure.
LEMMA SaveFailsInv ==
  ASSUME AgentInv, Agent!SaveFails
  PROVE  AgentInv'
<1> DEFINE x == [sessions[proof] EXCEPT !.success = FALSE]
           y == [results[proof] EXCEPT !.success = FALSE]
<1>1. /\ pc = "save" /\ pc' = "save_error"
      /\ results' = [results EXCEPT ![proof].success = FALSE]
      /\ sessions' = [sessions EXCEPT ![proof].success = FALSE]
      /\ collected' = Append(collected, proof)
      /\ UNCHANGED <<kind, proof, gym, origin, forked, ctx, log, counter, stats>>
  BY DEF Agent!SaveFails, Agent!gymVars
<1>2. /\ kind = "training" /\ proof \in Nat /\ proof > 0 /\ Len(results) = proof
      /\ results \in Seq(Results)
      /\ Len(sessions) = proof /\ sessions \in Seq(ProofSessions) /\ collected \in Seq(Nat)
  BY <1>1 DEF AgentInv, AgentType, SearchInv, TallyInv
<1>3. sessions # <<>> /\ sessions[proof] \in ProofSessions /\ proof \in 1..Len(sessions)
  BY <1>2
<1>4. collected # <<>> /\ collected[Len(collected)] = proof
  BY <1>2, <1>3 DEF AgentInv, TallyInv
<1>5. x \in ProofSessions /\ x.success = FALSE /\ x.recs = sessions[proof].recs
  BY <1>3 DEF ProofSessions
<1>6. sessions' = [sessions EXCEPT ![proof] = x]
  BY <1>1, <1>2, <1>3
<1>17. results[proof] \in Results /\ results' = [results EXCEPT ![proof] = y]
  BY <1>1, <1>2
<1>18. y \in Results /\ y.success = FALSE /\ y.theorem = results[proof].theorem
  BY <1>17 DEF Results
<1> HIDE DEF x, y
<1>19. /\ results' \in Seq(Results) /\ Len(results') = proof /\ results'[proof] = y
       /\ \A i \in 1..proof : i # proof => results'[i] = results[i]
  BY <1>2, <1>17, <1>18
<1>20. Honest' /\ \A i \in DOMAIN results' : results'[i].theorem = i
  <2>1. DOMAIN results = 1..proof /\ DOMAIN results' = 1..proof
    BY <1>2, <1>19
  <2>2. QED BY <1>18, <1>19, <2>1 DEF AgentInv, TallyInv, Honest
<1>7. /\ sessions' \in Seq(ProofSessions) /\ Len(sessions') = proof /\ sessions'[proof] = x
      /\ \A i \in 1..proof : i # proof => sessions'[i] = sessions[i]
  BY <1>2, <1>3, <1>5, <1>6
<1>8. /\ collected' \in Seq(Nat) /\ Len(collected') = Len(collected) + 1
      /\ collected'[Len(collected) + 1] = proof /\ Len(collected) \in Nat
      /\ \A k \in 1..Len(collected) : collected'[k] = collected[k]
  BY <1>1, <1>2
<1>9. ASSUME NEW i \in 1..Len(sessions')
      PROVE  /\ Agent!Chain(sessions'[i].recs)
             /\ sessions'[i].success => Agent!Concludes(sessions'[i].recs)
             /\ sessions'[i].success => results'[i].success
             /\ \E k \in 1..Len(collected') : collected'[k] = i
  <2>1. i \in 1..Len(sessions)
    BY <1>2, <1>7
  <2>2. PICK k \in 1..Len(collected) : collected[k] = i
    BY <2>1 DEF AgentInv, TallyInv
  <2>3. k \in 1..Len(collected') /\ collected'[k] = i
    BY <1>8, <2>2
  <2>4. CASE i = proof
    BY <1>5, <1>7, <2>1, <2>3, <2>4 DEF AgentInv, TallyInv
  <2>5. CASE i # proof
    BY <1>1, <1>2, <1>7, <1>19, <2>1, <2>3, <2>5 DEF AgentInv, TallyInv
  <2>6. QED BY <2>4, <2>5
<1>10. ASSUME NEW k \in 1..Len(collected')-1
       PROVE  collected'[k+1] \in {collected'[k], collected'[k] + 1}
  <2>1. CASE k = Len(collected)
    BY <1>2, <1>4, <1>8, <2>1
  <2>2. CASE k # Len(collected)
    <3>1. k \in 1..Len(collected)-1 /\ k \in 1..Len(collected) /\ k + 1 \in 1..Len(collected)
      BY <1>8, <1>10, <2>2
    <3>2. QED BY <1>8, <3>1 DEF AgentInv, TallyInv
  <2>3. QED BY <2>1, <2>2
<1>11. /\ sessions' # <<>> /\ collected' # <<>>
       /\ collected'[Len(collected')] = Len(sessions')
  BY <1>2, <1>7, <1>8
<1>12. TallyInv'
  BY <1>1, <1>2, <1>7, <1>9, <1>10, <1>11, <1>19, <1>20 DEF AgentInv, TallyInv
<1>13. AgentType'
  BY <1>1, <1>7, <1>8, <1>19 DEF AgentInv, AgentType
<1>14. GymInv'
  BY <1>1 DEF AgentInv, SearchInv, GymInv
<1>15. SearchInv'
  BY <1>1, <1>2, <1>14, <1>19 DEF AgentInv, SearchInv
<1>16. QED BY <1>12, <1>13, <1>15 DEF AgentInv

\* A step of an agent.
LEMMA AgentNext ==
  ASSUME AgentInv, Agent!Next
  PROVE  AgentInv'
BY StartInv, StartFailsInv, GivesUp, CompleteInv, StepsInv, RaisedInv, RestInv, SaveFailsInv
   DEF Agent!Next, Agent!Work

-----------------------------------------------------------------------------
(* The programs together.                                                  *)

\* The agents and the tree search share the gym and the results.
ProofInv ==
  /\ TreeInv /\ SuccessSound
  /\ program = "agent" => AgentInv
  /\ program = "mcts" => MctsInv

\* Their invariants give what SuccessSound says of the programs.
LEMMA Sound ==
  /\ program = "agent" /\ AgentInv => SuccessSound
  /\ program = "mcts" /\ MctsInv => SuccessSound
<1>1. ASSUME program = "agent", AgentInv PROVE SuccessSound
  BY <1>1 DEF AgentInv, TallyInv, Honest, SuccessSound
<1>2. ASSUME program = "mcts", MctsInv PROVE SuccessSound
  BY <1>2 DEF MctsInv, Honest, Reported, SuccessSound
<1>3. QED BY <1>1, <1>2

\* The start.
LEMMA ProofInit ==
  ASSUME Init
  PROVE  ProofInv
<1>1. /\ proof = 0 /\ pc = "idle" /\ gym = Closed /\ forked = FALSE /\ origin = 0 /\ ctx = Closed
      /\ log = <<>> /\ counter = [g \in Goals |-> 0] /\ kind \in {"plain", "training"}
      /\ stats = [attempted |-> 0, succeeded |-> 0, tried |-> 0, won |-> 0]
      /\ results = <<>> /\ sessions = <<>> /\ collected = <<>>
      /\ idx = [g \in Goals |-> 0] /\ tree = <<>>
  BY DEF Init, Agent!Init, Mcts!Init, Mcts!GymInit
<1>2. TreeInv
  <2>1. Mcts!Nodes = {} /\ tree \in Seq(TreeNodes)
    BY <1>1 DEF Mcts!Nodes
  <2>2. QED BY <1>1, <2>1 DEF TreeInv, PathInv, TreeExact, Mcts!TreeExact
<1>3. GymInv
  <2>1. gym \in Mcts!States /\ proof \in Nat /\ origin = 0 /\ proof = 0
    BY <1>1 DEF Mcts!States
  <2>2. origin \in 0..proof
    BY <2>1
  <2>3. QED BY <1>1, <2>1, <2>2 DEF GymInv
<1>4. SuccessSound /\ Honest /\ Len(results) = 0 /\ DOMAIN results = {}
  BY <1>1 DEF SuccessSound, Honest
<1>5. MctsInv
  BY <1>1, <1>3, <1>4 DEF MctsInv
<1>6. AgentType
  BY <1>1 DEF AgentType, Totals, Agent!States
<1>7. SearchInv
  BY <1>1, <1>3, <1>4, EmptyChain DEF SearchInv
<1>8. TallyInv
  <2>1. Wins = {} /\ Cardinality({}) = 0
    BY <1>4, FS_EmptySet DEF Wins
  <2>2. stats.succeeded = 0 /\ Len(sessions) = 0 /\ Len(collected) = 0
    BY <1>1
  <2>3. QED BY <1>1, <1>4, <2>1, <2>2 DEF TallyInv
<1>9. QED BY <1>2, <1>4, <1>5, <1>6, <1>7, <1>8 DEF ProofInv, AgentInv

\* What leaves the agents alone.
LEMMA ProofStays ==
  ASSUME ProofInv, UNCHANGED <<program, gymVars, agentVars, treeVars>>
  PROVE  ProofInv'
<1>1. /\ UNCHANGED <<program, proof, pc, gym, origin, forked, results>>
      /\ UNCHANGED <<kind, ctx, log, counter, stats, sessions, collected>>
      /\ UNCHANGED <<tree, idx, target>>
  BY DEF gymVars, agentVars, treeVars
<1>2. TreeInv' /\ SuccessSound'
  BY <1>1, TreeStays DEF ProofInv, SuccessSound
<1>3. GymInv <=> GymInv'
  BY <1>1 DEF GymInv
<1>4. MctsInv => MctsInv'
  BY <1>1, <1>2, <1>3 DEF MctsInv, Mcts!Nodes, Proved, Honest, Reported
<1>5. Wins' = Wins
  BY <1>1 DEF Wins
<1>6. AgentType => AgentType'
  BY <1>1 DEF AgentType
<1>7. SearchInv => SearchInv'
  BY <1>1, <1>3 DEF SearchInv, Proved
<1>8. TallyInv => TallyInv'
  BY <1>1, <1>2, <1>5 DEF TallyInv, Honest
<1>9. QED BY <1>1, <1>2, <1>4, <1>6, <1>7, <1>8 DEF ProofInv, AgentInv

\* The invariant of the agents holds.
LEMMA ProofAlways == Spec => []ProofInv
<1>1. Init => ProofInv
  BY ProofInit
<1>2. ProofInv /\ [Next]_vars => ProofInv'
  <2> SUFFICES ASSUME ProofInv, [Next]_vars PROVE ProofInv'
    OBVIOUS
  <2>1. CASE RunAgent
    <3>1. program = "agent" /\ program' = program /\ Agent!Next /\ UNCHANGED <<tree, idx>>
      BY <2>1 DEF RunAgent, treeVars
    <3>2. AgentInv'
      BY <3>1, AgentNext DEF ProofInv
    <3>3. (program = "agent" /\ AgentInv => SuccessSound)'
      BY Sound, PTL
    <3>4. QED BY <3>1, <3>2, <3>3, TreeStays DEF ProofInv
  <2>2. CASE RunMcts
    <3>1. program = "mcts" /\ program' = program /\ Mcts!Next
      BY <2>2 DEF RunMcts
    <3>2. TreeInv' /\ MctsInv'
      BY <3>1, MctsNext DEF ProofInv
    <3>3. (program = "mcts" /\ MctsInv => SuccessSound)'
      BY Sound, PTL
    <3>4. QED BY <3>1, <3>2, <3>3 DEF ProofInv
  <2>3. CASE RunScript \/ RunCompetition \/ UNCHANGED vars
    BY <2>3, ProofStays DEF RunScript, RunCompetition, vars
  <2>4. QED BY <2>1, <2>2, <2>3 DEF Next
<1>3. QED BY <1>1, <1>2, PTL DEF Spec

\* prove_theorem of every agent, and of the tree search, reports success only for a theorem all
\* of whose subgoals were discharged by commands that were accepted: the agents for the theorem
\* they were called for, the tree search for the one it found open, and never for one that
\* was reported as proved before.
THEOREM SuccessIsProof == Spec => []SuccessSound
<1>1. ProofInv => SuccessSound
  BY DEF ProofInv
<1>2. QED BY <1>1, ProofAlways, PTL

\* The visit counts of the tree are exact, and a part that select never enters again holds
\* nothing worth trying and no finished proof.
THEOREM TreeIsExact == Spec => []TreeExact
<1>1. ProofInv => TreeExact
  BY DEF ProofInv, TreeInv
<1>2. QED BY <1>1, ProofAlways, PTL

\* The training data can be replayed, every theorem has one result, every session is collected
\* although save_session may fail, and the totals count the successes.
THEOREM RecordsTrue == Spec => []RecordsExact
<1>1. ProofInv => RecordsExact
  <2>1. AgentInv => Agent!RecordsExact
    <3>1. kind = "plain" /\ AgentInv =>
            stats.succeeded = Agent!Cardinality({i \in 1..Len(results) : results[i].success})
      BY Cards DEF AgentInv, TallyInv, Wins
    <3>2. QED BY <3>1 DEF AgentInv, SearchInv, TallyInv, Agent!RecordsExact
  <2>2. QED BY <2>1 DEF ProofInv, RecordsExact
<1>2. QED BY <1>1, ProofAlways, PTL
=============================================================================
