--------------------------- MODULE ComparisonProofs ---------------------------
(***************************************************************************)
(* Proofs about the comparison harnesses: the loop and the results file,   *)
(* the files the model edits, and the stepwise server's sessions, each     *)
(* with its part of the inductive invariant.                               *)
(***************************************************************************)
EXTENDS Comparison, FiniteSetTheorems, SequenceTheorems, TLAPS

-----------------------------------------------------------------------------
(* The loop and its results.                                               *)

\* Where the line of an attempt may be there, and where its final theory is.
Over == {"closing", "failed", "crashed", "end"}
Filing == {"close", "leave", "judge"}

\* A step that neither writes a final theory nor judges one keeps the loop's invariant.
LEMMA LoopGoesOn ==
  ASSUME LoopInv, UNCHANGED <<harness, now, files, error, results>>,
         \/ pc' = pc
         \/ pc \notin Over /\ pc' \notin Over /\ (pc' \in Filing => pc \in Filing) /\ ~error,
         budget' \in [rounds : Nat, nudges : Nat, done : Nat],
         todo' \in Nat, pc' \in {"tool", "tool_enter", "reseed"} => todo' > 0
  PROVE  LoopInv'
<1>1. LoopType' BY DEF LoopInv, LoopType, Attempts
<1>2. FilesOwn' BY DEF LoopInv, FilesOwn, Attempts, Verdict, Own, Filing
<1>3. SolvedSound' BY DEF LoopInv, SolvedSound
<1>4. ASSUME NEW a \in Attempts PROVE Recorded(a)'
  BY DEF LoopInv, Recorded, Over
<1>5. Attempts' = Attempts /\ DOMAIN results = Attempts BY DEF Attempts, LoopInv, LoopType
<1>6. OneResult'
  <2>1. ASSUME NEW a \in Attempts PROVE (a < now \/ pc' = "end") => results[a] # <<>>
    BY <1>4 DEF Recorded
  <2> QED BY <1>5, <2>1 DEF LoopInv, OneResult
<1> QED BY <1>1, <1>2, <1>3, <1>4, <1>5, <1>6 DEF LoopInv

\* A final theory that is this attempt's own, or would not be accepted, may be filed; after
\* an exception also one of an earlier run.
LEMMA LoopFiles ==
  ASSUME LoopInv, NEW t \in Contents, Verdict(t) => t.by \in {0, now},
         files' = [files EXCEPT ![now] = t],
         UNCHANGED <<harness, now, results>>, pc' \notin Over, pc \notin Over,
         \/ Own(t) /\ error' = error /\ ~error
         \/ error' = TRUE /\ pc' = "judge",
         budget' = budget, todo' \in Nat, pc' \notin {"tool", "tool_enter", "reseed"}
  PROVE  LoopInv'
<1>1. LoopType' BY DEF LoopInv, LoopType, Attempts
<1>2. FilesOwn'
  <2>1. \A a \in Attempts : files'[a] = IF a = now THEN t ELSE files[a]
    BY DEF LoopInv, LoopType
  <2> QED BY <2>1 DEF LoopInv, LoopType, FilesOwn, Attempts, Verdict, Own
<1>3. SolvedSound' BY DEF LoopInv, SolvedSound
<1>4. ASSUME NEW a \in Attempts PROVE Recorded(a)'
  BY DEF LoopInv, Recorded, Over
<1>5. Attempts' = Attempts /\ DOMAIN results = Attempts BY DEF Attempts, LoopInv, LoopType
<1>6. OneResult' BY DEF LoopInv, OneResult, Over
<1> QED BY <1>1, <1>2, <1>3, <1>4, <1>5, <1>6 DEF LoopInv

\* One more line: main's may follow the attempt's.
LEMMA OneMore ==
  ASSUME NEW l \in Seq(Lines), NEW q \in Lines, q.from = "main" => ~q.solved,
         l # <<>> => Len(l) = 1 /\ l[1] \in Judged /\ q.from = "main"
  PROVE  /\ Append(l, q) \in Seq(Lines) /\ Append(l, q) # <<>> /\ Once(Append(l, q))
         /\ Len(Append(l, q)) = Len(l) + 1 /\ Append(l, q)[Len(l) + 1] = q
         /\ \A i \in DOMAIN Append(l, q) :
              Append(l, q)[i] = q \/ (i \in DOMAIN l /\ Append(l, q)[i] = l[i])
<1> DEFINE m == Append(l, q)
<1>1. /\ m \in Seq(Lines) /\ Len(m) = Len(l) + 1 /\ m[Len(l) + 1] = q
      /\ DOMAIN m = 1..(Len(l) + 1) /\ DOMAIN l = 1..Len(l) /\ Len(l) \in Nat
      /\ \A i \in 1..Len(l) : m[i] = l[i]
  OBVIOUS
<1>2. l = <<>> => Len(l) = 0 OBVIOUS
<1> HIDE DEF m
<1>3. m # <<>> BY <1>1
<1>4. \A i \in DOMAIN m : m[i] = q \/ (i \in DOMAIN l /\ m[i] = l[i]) BY <1>1
<1>5. Once(m)
  <2>1. CASE l = <<>>
    <3>1. DOMAIN m = {1} /\ m[1] = q /\ Len(m) = 1 BY <1>1, <1>2, <2>1
    <3> QED BY <3>1 DEF Once
  <2>2. CASE l # <<>>
    <3>1. DOMAIN m = {1, 2} /\ m[1] = l[1] /\ m[2] = q /\ Len(m) = 2 BY <1>1, <2>2
    <3>2. m[1].from = "finally" /\ m[2].from = "main" BY <2>2, <3>1 DEF Judged
    <3> QED BY <3>1, <3>2 DEF Once
  <2> QED BY <2>1, <2>2
<1> QED BY <1>1, <1>3, <1>4, <1>5 DEF m

\* The results after it.
LEMMA LineAdded ==
  ASSUME LoopInv, NEW q \in Lines, Append1(q), q.solved => q.sound, q.from = "main" => ~q.solved,
         results[now] # <<>> =>
           Len(results[now]) = 1 /\ results[now][1] \in Judged /\ q.from = "main"
  PROVE  /\ results' \in [Attempts -> Seq(Lines)] /\ SolvedSound'
         /\ results'[now] = Append(results[now], q) /\ results'[now] # <<>> /\ Once(results'[now])
         /\ \A a \in Attempts : a # now => results'[a] = results[a]
<1>1. now \in Attempts /\ results \in [Attempts -> Seq(Lines)] /\ SolvedSound
  BY DEF LoopInv, LoopType
<1>2. results' = [results EXCEPT ![now] = Append(results[now], q)] BY DEF Append1
<1>3. /\ results'[now] = Append(results[now], q) /\ DOMAIN results' = Attempts
      /\ \A a \in Attempts : a # now => results'[a] = results[a]
  BY <1>1, <1>2
<1>4. results[now] \in Seq(Lines) BY <1>1
<1>5. /\ results'[now] \in Seq(Lines) /\ results'[now] # <<>> /\ Once(results'[now])
      /\ \A i \in DOMAIN results'[now] :
           results'[now][i] = q \/ (i \in DOMAIN results[now] /\ results'[now][i] = results[now][i])
  BY <1>3, <1>4, OneMore
<1>6. results' \in [Attempts -> Seq(Lines)] BY <1>1, <1>2, <1>3, <1>5
<1>7. SolvedSound'
  <2> SUFFICES ASSUME NEW a \in Attempts, NEW i \in DOMAIN results'[a]
               PROVE  results'[a][i].solved => results'[a][i].sound
    BY <1>3 DEF SolvedSound
  <2>1. CASE a # now BY <2>1, <1>1, <1>3 DEF SolvedSound
  <2>2. CASE a = now
    <3>1. CASE results'[now][i] = q BY <2>2, <3>1
    <3>2. CASE i \in DOMAIN results[now] /\ results'[now][i] = results[now][i]
      BY <1>1, <2>2, <3>2 DEF SolvedSound
    <3> QED BY <1>5, <2>2, <3>1, <3>2
  <2> QED BY <2>1, <2>2
<1> QED BY <1>3, <1>5, <1>6, <1>7

\* Within an attempt that is over.
LEMMA StaysOver ==
  ASSUME LoopInv, NEW s \in {"closing", "failed", "crashed"}, Goto(s), pc # "end",
         results' \in [Attempts -> Seq(Lines)], SolvedSound',
         \A a \in Attempts : a # now => results'[a] = results[a],
         s = "closing" => results'[now] # <<>>,
         results'[now] # <<>> => Len(results'[now]) = 1 /\ results'[now][1] \in Judged,
         Once(results'[now])
  PROVE  LoopInv'
<1>1. /\ pc' = s /\ UNCHANGED <<harness, now, budget, todo, files, error>> /\ Attempts' = Attempts
      /\ now \in Nat /\ Attempts \subseteq Nat
  BY LoopAssumption DEF Goto, Attempts, LoopInv, LoopType
<1>2. LoopType' BY <1>1 DEF LoopInv, LoopType
<1>3. FilesOwn' BY <1>1 DEF LoopInv, FilesOwn, Verdict
<1>4. ASSUME NEW a \in Attempts PROVE Recorded(a)'
  <2>1. CASE a = now BY <1>1, <2>1 DEF Recorded
  <2>2. CASE a # now
    <3>1. Recorded(a) BY DEF LoopInv
    <3> QED BY <1>1, <2>2, <3>1 DEF Recorded
  <2> QED BY <2>1, <2>2
<1>5. OneResult'
  <2> SUFFICES ASSUME NEW a \in Attempts
               PROVE  /\ a < now => results'[a] # <<>>
                      /\ a > now => results'[a] = <<>>
                      /\ Once(results'[a])
    BY <1>1 DEF OneResult
  <2>1. CASE a = now BY <1>1, <2>1
  <2>2. CASE a # now BY <2>2 DEF LoopInv, LoopType, OneResult
  <2> QED BY <2>1, <2>2
<1> QED BY <1>1, <1>2, <1>3, <1>4, <1>5 DEF LoopInv

\* An attempt with its line is followed by the next one, or the script is over.
LEMMA LoopNext ==
  ASSUME LoopInv, NextAttempt, pc # "end",
         results' \in [Attempts -> Seq(Lines)], SolvedSound',
         results'[now] # <<>>, Once(results'[now]),
         \A a \in Attempts : a # now => results'[a] = results[a]
  PROVE  LoopInv'
<1>1. /\ Attempts' = Attempts /\ now \in Attempts /\ Attempts \subseteq Nat /\ now \in Nat
      /\ UNCHANGED <<harness, todo, files>> /\ budget' = Unused /\ error' = FALSE
      /\ pc' \in {"connect", "end"}
  BY LoopAssumption DEF NextAttempt, LoopInv, LoopType, Attempts
<1>2. \/ now + 1 \in Attempts /\ now' = now + 1 /\ pc' = "connect"
      \/ now + 1 \notin Attempts /\ now' = now /\ pc' = "end"
  BY DEF NextAttempt
<1>3. ASSUME NEW a \in Attempts
      PROVE  IF a <= now THEN results'[a] # <<>> ELSE results'[a] = <<>>
  <2>1. Recorded(a) BY DEF LoopInv
  <2>2. CASE a = now BY <2>2, <1>1
  <2>3. CASE a # now BY <2>1, <2>3, <1>1, <1>3 DEF Recorded
  <2> QED BY <2>2, <2>3
<1>4. ASSUME NEW a \in Attempts, now + 1 \notin Attempts PROVE a <= now
  BY <1>1, <1>4, LoopAssumption DEF Attempts, LoopInv, LoopType
<1>5. LoopType' BY <1>1, <1>2 DEF LoopInv, LoopType, Unused
<1>6. FilesOwn' BY <1>1 DEF LoopInv, FilesOwn, Verdict
<1>7. ASSUME NEW a \in Attempts PROVE Recorded(a)'
  <2>1. CASE pc' = "connect" BY <1>1, <1>2, <1>3, <2>1 DEF Recorded
  <2>2. CASE pc' = "end" BY <1>1, <1>2, <1>3, <1>4, <2>2 DEF Recorded
  <2> QED BY <1>1, <2>1, <2>2
<1>8. OneResult'
  <2> SUFFICES ASSUME NEW a \in Attempts
               PROVE  /\ (a < now' \/ pc' = "end") => results'[a] # <<>>
                      /\ a > now' => results'[a] = <<>>
                      /\ Once(results'[a])
    BY <1>1 DEF OneResult
  <2>1. Once(results'[a])
    <3>1. CASE a = now BY <3>1
    <3>2. CASE a # now BY <3>2 DEF LoopInv, LoopType, OneResult
    <3> QED BY <3>1, <3>2
  <2>2. CASE pc' = "connect" BY <1>1, <1>2, <1>3, <2>1, <2>2
  <2>3. CASE pc' = "end" BY <1>1, <1>2, <1>3, <1>4, <2>1, <2>3
  <2> QED BY <1>1, <2>2, <2>3
<1> QED BY <1>1, <1>5, <1>6, <1>7, <1>8 DEF LoopInv

\* The steps that record an attempt.  Its line is sound because the file it is judged by is
\* its own, or it has an error.
LEMMA LoopRecords ==
  ASSUME LoopInv, Record
  PROVE  LoopInv' /\ harness' = harness /\ pc' \in {"closing", "failed", "crashed", "connect", "end"}
<1>1. /\ now \in Attempts /\ results \in [Attempts -> Seq(Lines)] /\ SolvedSound
      /\ files[now] \in Contents /\ error \in BOOLEAN /\ Recorded(now) /\ Once(results[now])
      /\ now \in Nat
  BY LoopAssumption DEF LoopInv, LoopType, OneResult, Attempts
<1>2. UNCHANGED results => /\ results' \in [Attempts -> Seq(Lines)] /\ SolvedSound'
                           /\ \A a \in Attempts : a # now => results'[a] = results[a]
  BY <1>1 DEF SolvedSound
<1>3. CASE Judge
  <2>1. pc = "judge" /\ results[now] = <<>> BY <1>1, <1>3 DEF Judge, Recorded
  <2>2. ASSUME NEW built \in BOOLEAN, Append1(Line(built)), Goto("closing") PROVE LoopInv'
    <3> DEFINE q == Line(built)
    <3>1. q \in Lines /\ q \in Judged /\ q.from = "finally"
      BY <1>1 DEF Line, Lines, Judged, Verdict, Contents
    <3>2. q.solved => q.sound
      BY <1>1, <2>1 DEF Line, LoopInv, FilesOwn, Own
    <3>3. Append1(q) BY <2>2
    <3> HIDE DEF q
    <3>4. /\ results' \in [Attempts -> Seq(Lines)] /\ SolvedSound'
          /\ results'[now] = Append(results[now], q) /\ results'[now] # <<>> /\ Once(results'[now])
          /\ \A a \in Attempts : a # now => results'[a] = results[a]
      BY <2>1, <3>1, <3>2, <3>3, LineAdded
    <3>5. results'[now] = <<q>> BY <2>1, <3>4
    <3>6. Len(results'[now]) = 1 /\ results'[now][1] \in Judged BY <3>1, <3>5
    <3> QED BY <2>1, <2>2, <3>4, <3>6, StaysOver
  <2>3. CASE Goto("failed") /\ UNCHANGED results
    <3>1. results' = results /\ results'[now] = <<>> BY <2>1, <2>3
    <3>2. Once(results'[now]) BY <1>1, <3>1
    <3>3. /\ results' \in [Attempts -> Seq(Lines)] /\ SolvedSound'
          /\ \A a \in Attempts : a # now => results'[a] = results[a]
      BY <1>2, <3>1
    <3> QED BY <2>1, <2>3, <3>1, <3>2, <3>3, StaysOver DEF Goto
  <2> QED BY <1>3, <2>2, <2>3 DEF Judge, Goto
<1>4. CASE Closing
  <2>1. pc = "closing" /\ UNCHANGED results /\ results[now] # <<>>
        /\ Len(results[now]) = 1 /\ results[now][1] \in Judged
    BY <1>1, <1>4 DEF Closing, Recorded
  <2>2. CASE NextAttempt BY <1>1, <1>2, <2>1, <2>2, LoopNext DEF NextAttempt
  <2>3. CASE Goto("failed") BY <1>1, <1>2, <2>1, <2>3, StaysOver DEF Goto
  <2> QED BY <1>4, <2>2, <2>3 DEF Closing
<1>5. CASE BeginFails
  <2>1. pc = "connect" /\ UNCHANGED results /\ Goto("failed") /\ results[now] = <<>>
    BY <1>1, <1>5 DEF BeginFails, Recorded
  <2> QED BY <1>1, <1>2, <2>1, StaysOver DEF Goto
<1>6. CASE MainRecords
  <2>1. pc = "failed" /\ (results[now] # <<>> => Len(results[now]) = 1 /\ results[now][1] \in Judged)
    BY <1>1, <1>6 DEF MainRecords, Recorded
  <2>2. CASE Append1([from |-> "main", solved |-> FALSE, sound |-> FALSE]) /\ NextAttempt
    <3> DEFINE q == [from |-> "main", solved |-> FALSE, sound |-> FALSE]
    <3>1. q \in Lines /\ ~q.solved /\ q.from = "main" BY DEF Lines
    <3>2. Append1(q) BY <2>2
    <3> HIDE DEF q
    <3> QED BY <2>1, <2>2, <3>1, <3>2, LineAdded, LoopNext DEF NextAttempt
  <2>3. CASE Goto("crashed") /\ UNCHANGED results
    BY <1>1, <1>2, <2>1, <2>3, StaysOver DEF Goto
  <2> QED BY <1>6, <2>2, <2>3 DEF MainRecords
<1> QED BY <1>3, <1>4, <1>5, <1>6 DEF Record

-----------------------------------------------------------------------------
(* The files the model edits.                                              *)

\* The texts that occur are contents, and only the problem as posed and a missing file
\* are nobody's; neither would be accepted.
LEMMA TextTypes ==
  /\ Template \in Contents /\ Absent \in Contents
  /\ ~Verdict(Template) /\ ~Verdict(Absent) /\ Template # Absent
  /\ \A n \in Nat : \A t \in Text(n) : t \in Contents /\ t.by = n
BY DEF Template, Absent, Contents, ProofStates, Statements, Verdict, Text

\* Going from one place of an attempt to another keeps the loop's invariant.
LEMMA GotoLoop ==
  ASSUME LoopInv, NEW s \in {"round", "raise", "reset", "sorry_check"}, Proceed(s),
         pc \in {"connect", "reset", "sorry_check", "tools", "source"}
  PROVE  LoopInv'
<1>1. UNCHANGED <<harness, now, budget, todo, files, error, results>> /\ pc' = s
  BY DEF Proceed, Goto
<1>2. budget' \in [rounds : Nat, nudges : Nat, done : Nat] /\ todo' \in Nat
  BY <1>1 DEF LoopInv, LoopType
<1>3. ~error BY DEF LoopInv, FilesOwn
<1> QED BY <1>1, <1>2, <1>3, LoopGoesOn DEF Over, Filing

\* The setups leave the problem as posed in what the model will edit.
LEMMA LspSetupStep ==
  ASSUME LoopInv, FileInv, LspSetup
  PROVE  LoopInv' /\ FileInv'
<1>1. PICK s \in {"round", "raise"} : Proceed(s) BY DEF LspSetup
<1>2. LoopInv' BY <1>1, GotoLoop DEF LspSetup
<1>3. FileInv'
  BY <1>1, TextTypes DEF LspSetup, FileInv, Proceed, Goto, Lsp, Iq, Edited, Own, LoopInv, LoopType, Verdict
<1> QED BY <1>2, <1>3

\* The same for the harness of the Isabelle MCP server, with its mirror.
LEMMA IsabelleSetupStep ==
  ASSUME LoopInv, FileInv, IsabelleSetup
  PROVE  LoopInv' /\ FileInv'
<1>1. PICK s \in {"round", "raise"} : Proceed(s) BY DEF IsabelleSetup
<1>2. LoopInv' BY <1>1, GotoLoop DEF IsabelleSetup
<1>3. FileInv'
  BY <1>1, TextTypes
  DEF IsabelleSetup, FileInv, Proceed, Goto, Isabelle, Iq, Edited, Own, LoopInv, LoopType, Verdict
<1> QED BY <1>2, <1>3

\* I/Q's setup: the file on disk is never anything but the problem, and the buffer is
\* the problem before the model is asked.
LEMMA IqSetupStep ==
  ASSUME LoopInv, FileInv, IqOpen \/ ResetIqBuffer \/ ReadIqBuffer \/ SorryCheck
  PROVE  LoopInv' /\ FileInv'
<1>1. CASE IqOpen
  <2>1. PICK s \in {"raise", "reset"} : Proceed(s) BY <1>1 DEF IqOpen
  <2>2. LoopInv' BY <1>1, <2>1, GotoLoop DEF IqOpen
  <2>3. disk' \in {Absent, Template} BY <1>1, TextTypes DEF IqOpen, FileInv, Iq
  <2>4. copy' \in Contents BY <1>1, <2>3, TextTypes DEF IqOpen, FileInv
  <2>5. FileInv'
    BY <1>1, <2>1, <2>3, <2>4, TextTypes DEF IqOpen, FileInv, Proceed, Goto, Iq, Own, Verdict
  <2> QED BY <2>2, <2>5
<1>2. CASE ResetIqBuffer
  <2>1. PICK s \in {"raise", "reset", "sorry_check"} :
          Proceed(s) /\ (s = "sorry_check" => copy' = Template)
    BY <1>2 DEF ResetIqBuffer
  <2>2. LoopInv' BY <1>2, <2>1, GotoLoop DEF ResetIqBuffer
  <2>3. copy' \in Contents BY <1>2, TextTypes DEF ResetIqBuffer, FileInv
  <2>4. FileInv'
    BY <1>2, <2>1, <2>3, TextTypes DEF ResetIqBuffer, FileInv, Proceed, Goto, Iq, Own, Verdict
  <2> QED BY <2>2, <2>4
<1>3. CASE ReadIqBuffer
  <2>1. PICK s \in {"raise", "sorry_check"} : Proceed(s) /\ (s = "sorry_check" => copy = Template)
    BY <1>3 DEF ReadIqBuffer
  <2>2. LoopInv' BY <1>3, <2>1, GotoLoop DEF ReadIqBuffer
  <2>3. FileInv'
    BY <1>3, <2>1, TextTypes DEF ReadIqBuffer, fileVars, FileInv, Proceed, Goto, Iq, Own, Verdict
  <2> QED BY <2>2, <2>3
<1>4. CASE SorryCheck
  <2>1. PICK s \in {"round", "raise"} : Proceed(s) BY <1>4 DEF SorryCheck
  <2>2. LoopInv' BY <1>4, <2>1, GotoLoop DEF SorryCheck
  <2>3. FileInv'
    BY <1>4, <2>1, TextTypes DEF SorryCheck, fileVars, FileInv, Proceed, Goto, Iq, Own, Verdict, Edited
  <2> QED BY <2>2, <2>3
<1> QED BY <1>1, <1>2, <1>3, <1>4

\* A round of the loop, whatever the model does in it, counts.
LEMMA RoundStep ==
  ASSUME LoopInv, Round
  PROVE  /\ LoopInv'
         /\ pc' \in {"source", "raise", "tools", "gate", "round"}
         /\ pc' \in {"tools", "gate", "round"} => budget'.rounds > 0
<1>1. budget \in [rounds : Nat, nudges : Nat, done : Nat] /\ todo \in Nat /\ pc = "round"
  BY DEF LoopInv, LoopType, Round
<1>2. Counted \in [rounds : Nat, nudges : Nat, done : Nat] /\ Counted.rounds > 0
  BY <1>1 DEF Counted
<1>3. [Counted EXCEPT !.nudges = @ + 1] \in [rounds : Nat, nudges : Nat, done : Nat]
      /\ [Counted EXCEPT !.nudges = @ + 1].rounds > 0
  BY <1>2
<1>4. /\ pc' \in {"source", "raise", "tools", "gate", "round"}
      /\ budget' \in {budget, Counted, [Counted EXCEPT !.nudges = @ + 1]}
      /\ pc' \in {"tools", "gate", "round"} =>
           budget' \in {Counted, [Counted EXCEPT !.nudges = @ + 1]}
      /\ todo' = todo \/ todo' \in 1..MaxCalls
  BY <1>1, Zenon DEF Round, Silent
<1>5. todo' \in Nat BY <1>1, <1>4, LoopAssumption
<1>6. UNCHANGED <<harness, now, files, error, results>> /\ ~error BY <1>1 DEF Round, LoopInv, FilesOwn
<1>7. budget' \in [rounds : Nat, nudges : Nat, done : Nat] BY <1>1, <1>2, <1>3, <1>4
<1>8. LoopInv' BY <1>1, <1>4, <1>5, <1>6, <1>7, LoopGoesOn DEF Over, Filing
<1> QED BY <1>2, <1>3, <1>4, <1>8

\* So when the model is asked again it has had its round.
LEMMA FileRoundStep ==
  ASSUME LoopInv, FileInv, LspRound \/ IsabelleRound \/ IqRound
  PROVE  LoopInv' /\ FileInv'
<1>1. Round /\ UNCHANGED fileVars BY DEF LspRound, IsabelleRound, IqRound
<1>2. UNCHANGED <<harness, now>> /\ pc = "round" BY <1>1 DEF Round
<1>3. budget'.rounds \in Nat BY <1>1, RoundStep DEF LoopInv, LoopType
<1>4. /\ pc' \in {"source", "raise", "tools", "gate", "round"}
      /\ pc' \in {"tools", "gate", "round"} => budget'.rounds > 0
  BY <1>1, RoundStep
<1>5. FileInv'
  BY <1>1, <1>2, <1>3, <1>4 DEF FileInv, fileVars, Iq, Edited, Own, Verdict
<1> QED BY <1>1, <1>5, RoundStep

\* The DONE gate only sends the model back, on to the source, or out.
LEMMA GateStep ==
  ASSUME LoopInv, FileInv, LspGate \/ IsabelleGate \/ IqGate
  PROVE  LoopInv' /\ FileInv'
<1>1. /\ AtGate
      /\ \/ Rejected
         \/ Accepted
         \/ pc' = "raise" /\ UNCHANGED budget
      /\ harness # "stepwise"
  BY DEF LspGate, IsabelleGate, IqGate, Lsp, Isabelle, Iq
<1>2. /\ UNCHANGED <<fileVars, harness, now, todo, files, error, results>> /\ pc = "gate"
      /\ pc' \in {"source", "round", "raise"}
      /\ budget' \in {budget, [budget EXCEPT !.done = @ + 1]}
  BY <1>1 DEF AtGate, Rejected, Accepted, SentBack
<1>3. /\ budget' \in [rounds : Nat, nudges : Nat, done : Nat] /\ budget'.rounds = budget.rounds
      /\ todo' \in Nat /\ budget.rounds \in Nat
  BY <1>2 DEF LoopInv, LoopType
<1>4. LoopInv'
  <2>1. ~error BY <1>2 DEF LoopInv, FilesOwn
  <2> QED BY <1>2, <1>3, <2>1, LoopGoesOn DEF Over, Filing
<1>5. FileInv'
  BY <1>1, <1>2, <1>3 DEF FileInv, fileVars, Iq, Edited, Own, Verdict
<1> QED BY <1>4, <1>5

\* What the model writes is its own.
LEMMA ToolsStep ==
  ASSUME LoopInv, FileInv, LspTools \/ IsabelleTools \/ IqTools
  PROVE  LoopInv' /\ FileInv'
<1>0. /\ harness # "stepwise"
      /\ ToolDone \/ (pc = "tools" /\ Proceed("raise") /\ UNCHANGED fileVars)
      /\ UNCHANGED <<disk, copy>> \/ \E t \in Text(now) : Edit(t)
  BY Zenon DEF LspTools, IsabelleTools, IqTools, Lsp, Isabelle, Iq, fileVars
<1>1. /\ pc = "tools" /\ pc' \in {"tools", "round", "raise"}
      /\ UNCHANGED <<harness, now, budget, files, error, results>>
      /\ todo' = todo \/ (todo # 0 /\ todo' = todo - 1)
  BY <1>0 DEF ToolDone, Proceed, Goto
<1>2. todo' \in Nat BY <1>1 DEF LoopInv, LoopType
<1>3. budget' \in [rounds : Nat, nudges : Nat, done : Nat] BY <1>1 DEF LoopInv, LoopType
<1>4. LoopInv'
  <2>1. ~error BY <1>1 DEF LoopInv, FilesOwn
  <2> QED BY <1>1, <1>2, <1>3, <2>1, LoopGoesOn DEF Over, Filing
<1>5. now \in Nat BY LoopAssumption DEF LoopInv, LoopType, Attempts
<1>6. FileInv'
  <2>1. CASE UNCHANGED <<disk, copy>>
    BY <1>0, <1>1, <2>1 DEF FileInv, Iq, Edited, Own, Verdict
  <2>2. ASSUME NEW t \in Text(now), Edit(t) PROVE FileInv'
    <3>1. t \in Contents /\ t.by = now BY <1>5, TextTypes
    <3>2. CASE harness \in {"container", "iq"}
      BY <1>0, <1>1, <2>2, <3>1, <3>2 DEF Edit, FileInv, Iq, Edited, Own, Verdict
    <3>3. CASE harness \notin {"container", "iq"}
      BY <1>0, <1>1, <2>2, <3>1, <3>3 DEF Edit, FileInv, Iq, Edited, Own, Verdict
    <3> QED BY <3>2, <3>3
  <2> QED BY <1>0, <2>1, <2>2
<1> QED BY <1>4, <1>6

\* What is filed is the attempt's own or not accepted; after an exception also what was there.
LEMMA FiledStep ==
  ASSUME LoopInv, FileInv, LspFinal \/ IsabelleFinal \/ IqFinal \/ LspRaised \/ IsabelleRaised
                           \/ IqRaised
  PROVE  LoopInv' /\ FileInv'
<1>0. harness # "stepwise" /\ pc \in {"source", "raise"} /\ ~error
      /\ UNCHANGED <<disk, copy, harness, now, budget, results>> /\ now \in Attempts
  BY DEF LspFinal, IsabelleFinal, IqFinal, LspRaised, IsabelleRaised, IqRaised, Lsp, Isabelle, Iq,
         Written, NotWritten, Failed, Filed, fileVars, LoopInv, LoopType, FilesOwn
<1>1. \/ pc = "source" /\ \E t \in {Edited, disk} : Written(t)
      \/ pc = "source" /\ NotWritten
      \/ pc = "raise" /\ \E t \in {disk, files[now]} : Failed(t)
  BY DEF LspFinal, IsabelleFinal, IqFinal, LspRaised, IsabelleRaised, IqRaised
<1>2. CASE pc = "source" /\ \E t \in {Edited, disk} : Written(t)
  <2>1. PICK t \in {Edited, disk} : Written(t) BY <1>2
  <2>2. t \in Contents /\ Own(t) /\ (Verdict(t) => t.by \in {0, now})
    BY <1>0, <1>2, <2>1 DEF FileInv, Own, Edited
  <2>3. /\ files' = [files EXCEPT ![now] = t] /\ pc' \in {"judge", "raise"} /\ todo' = 0
        /\ UNCHANGED error
    BY <2>1 DEF Written, Filed
  <2>4. LoopInv' BY <1>0, <1>2, <2>2, <2>3, LoopFiles DEF Over
  <2>5. FileInv' BY <1>0, <1>2, <2>3 DEF FileInv, Iq, Own, Verdict
  <2> QED BY <2>4, <2>5
<1>3. CASE pc = "source" /\ NotWritten
  <2>1. pc' = "raise" /\ UNCHANGED <<todo, files, error>> BY <1>3 DEF NotWritten
  <2>2. budget' \in [rounds : Nat, nudges : Nat, done : Nat] /\ todo' \in Nat
    BY <1>0, <2>1 DEF LoopInv, LoopType
  <2>3. LoopInv' BY <1>0, <1>3, <2>1, <2>2, LoopGoesOn DEF Over, Filing
  <2>4. FileInv' BY <1>0, <1>3, <2>1 DEF FileInv, Iq, Own, Verdict
  <2> QED BY <2>3, <2>4
<1>4. CASE pc = "raise" /\ \E t \in {disk, files[now]} : Failed(t)
  <2>1. PICK t \in {disk, files[now]} : Failed(t) BY <1>4
  <2>2. t \in Contents /\ (Verdict(t) => t.by \in {0, now})
    BY <1>0, <1>4, <2>1 DEF FileInv, LoopInv, LoopType, FilesOwn, Own
  <2>3. files' = [files EXCEPT ![now] = t] /\ pc' = "judge" /\ todo' = 0 /\ error' = TRUE
    BY <2>1 DEF Failed, Filed
  <2>4. LoopInv' BY <1>0, <1>4, <2>2, <2>3, LoopFiles DEF Over
  <2>5. FileInv' BY <1>0, <2>3 DEF FileInv, Iq
  <2> QED BY <2>4, <2>5
<1> QED BY <1>1, <1>2, <1>3, <1>4

\* Recording an attempt changes no file; the next one starts over.
LEMMA FileRecordStep ==
  ASSUME LoopInv, FileInv, LspRecord \/ IsabelleRecord \/ IqRecord
  PROVE  LoopInv' /\ FileInv'
<1>1. Record /\ UNCHANGED <<disk, copy>> BY DEF LspRecord, IsabelleRecord, IqRecord, fileVars
<1>2. LoopInv' /\ harness' = harness /\ pc' \in {"closing", "failed", "crashed", "connect", "end"}
  BY <1>1, LoopRecords
<1>3. FileInv' BY <1>1, <1>2 DEF FileInv, Iq
<1> QED BY <1>2, <1>3

\* Together, the steps of the file harnesses.
LEMMA FileHarnessStep ==
  ASSUME LoopInv, FileInv, FileHarness
  PROVE  LoopInv' /\ FileInv'
BY LspSetupStep, IsabelleSetupStep, IqSetupStep, FileRoundStep, GateStep, ToolsStep, FiledStep,
   FileRecordStep DEF FileHarness

-----------------------------------------------------------------------------
(* The stepwise server's sessions.                                         *)

Holding == {"discard", "undo", "begin", "store", "check"}

\* What one handler does concerns its own slot.
LEMMA OneSlot ==
  ASSUME PoolInv, NEW k \in Slots, NEW h \in Handlers, Fit(h), call' = [call EXCEPT ![k] = h]
  PROVE  /\ call' \in [Slots -> Handlers] /\ \A m \in Slots : Fit(call'[m])
         /\ call'[k] = h /\ \A m \in Slots : m # k => call'[m] = call[m]
<1>1. call' \in [Slots -> Handlers] BY DEF PoolInv
<1>2. call'[k] = h /\ \A m \in Slots : m # k => call'[m] = call[m] BY DEF PoolInv
<1>3. \A m \in Slots : Fit(call[m]) BY DEF PoolInv
<1> QED BY <1>1, <1>2, <1>3

\* The parts of the invariant after a step, put together.
LEMMA PoolTogether ==
  ASSUME gym' \in [Sessions -> [open : BOOLEAN, theorem : Stated, proof : Proofs]],
         current' \in [Conns -> Sessions \cup {None}],
         call' \in [Slots -> Handlers], lost' \subseteq Sessions,
         \A k \in Slots : Fit(call'[k]),
         \A s \in Sessions : HeldOnce(s)'
  PROVE  PoolInv'
BY DEF PoolInv, Fit

\* A slot that is free, or whose handler has ended, holds no session.
LEMMA EndedType ==
  ASSUME NEW h \in Handlers, Fit(h), h.pc # "free", h.tool # "item",
         NEW res \in {"ok", "error"}, NEW text \in [theorem : Stated, proof : Proofs]
  PROVE  Ended(h, res, text) \in Handlers /\ Fit(Ended(h, res, text))
         /\ Ended(h, res, text).sess = None
BY DEF Ended, Handlers, Fit, Free, NoText, Proofs, Stated

\* A free slot is a handler's slot.
LEMMA FreeType == Free \in Handlers /\ Fit(Free) /\ Free.sess = None /\ Free.pc = "free"
BY DEF Free, Handlers, Fit, NoText, Proofs, Stated

\* What a handler finds in its slot.
LEMMA SlotFacts ==
  ASSUME PoolInv, NEW k \in Slots
  PROVE  /\ call[k] \in Handlers /\ Fit(call[k])
         /\ call[k].pc \in Holding => call[k].sess \in Sessions
         /\ call[k].pc \notin Holding => call[k].sess = None
         /\ NoText \in [theorem : Stated, proof : Proofs] /\ None \notin Sessions
BY PoolAssumption DEF PoolInv, Fit, Handlers, Holding, NoText, Proofs, Stated

\* A step in which no session changes hands keeps the accounts.
LEMMA NothingMoves ==
  ASSUME PoolInv, UNCHANGED <<current, lost>>,
         \A s \in Sessions : gym'[s].open = gym[s].open,
         \A m \in Slots : call'[m].sess = call[m].sess
  PROVE  \A s \in Sessions : HeldOnce(s)'
<1> SUFFICES ASSUME NEW s \in Sessions PROVE HeldOnce(s)' OBVIOUS
<1>1. HeldOnce(s) BY DEF PoolInv
<1> QED BY <1>1 DEF HeldOnce

\* A step that leaves the server alone.
LEMMA PoolAlone ==
  ASSUME PoolInv, UNCHANGED <<gym, current, call, lost>>
  PROVE  PoolInv'
<1>1. \A s \in Sessions : HeldOnce(s)' BY NothingMoves
<1>2. \A k \in Slots : Fit(call'[k]) BY DEF PoolInv
<1> QED BY <1>1, <1>2, PoolTogether DEF PoolInv

\* Pop: the table's session becomes the handler's.
LEMMA PopStep ==
  ASSUME PoolInv, NEW k \in Slots, Pop(k)
  PROVE  PoolInv'
<1> DEFINE c == call[k].conn
           old == current[c]
           h == IF old # None THEN [call[k] EXCEPT !.pc = "discard", !.sess = old]
                ELSE IF call[k].tool = "close" THEN Ended(call[k], "ok", NoText)
                ELSE [call[k] EXCEPT !.pc = "acquire"]
<1>1. /\ call[k].pc = "pop" /\ current' = [current EXCEPT ![c] = None]
      /\ UNCHANGED <<gym, lost>>
  BY DEF Pop
<1>2. call' = [call EXCEPT ![k] = h] BY DEF Pop
<1>3. call[k] \in Handlers /\ Fit(call[k]) /\ call[k].sess = None /\ call[k].tool # "item"
      /\ c \in Conns /\ old \in Sessions \cup {None}
  BY <1>1, SlotFacts DEF Fit, Holding, PoolInv
<1>4. h \in Handlers /\ Fit(h) /\ h.sess = old
  <2>1. CASE old # None
    BY <1>1, <1>3, <2>1 DEF Handlers, Fit
  <2>2. CASE old = None /\ call[k].tool = "close"
    BY <1>1, <1>3, <2>2, EndedType, SlotFacts
  <2>3. CASE old = None /\ call[k].tool # "close"
    BY <1>1, <1>3, <2>3 DEF Handlers, Fit
  <2> QED BY <2>1, <2>2, <2>3
<1> HIDE DEF h
<1>5. /\ call' \in [Slots -> Handlers] /\ \A m \in Slots : Fit(call'[m])
      /\ call'[k].sess = old /\ \A m \in Slots : m # k => call'[m].sess = call[m].sess
  BY <1>2, <1>4, OneSlot
<1>6. /\ current' \in [Conns -> Sessions \cup {None}] /\ current'[c] = None
      /\ \A d \in Conns : d # c => current'[d] = current[d]
  BY <1>1, <1>3 DEF PoolInv
<1>7. ASSUME NEW s \in Sessions PROVE HeldOnce(s)'
  <2>1. HeldOnce(s) /\ None # s BY PoolAssumption DEF PoolInv
  <2> HIDE DEF c
  <2>2. CASE s # current[c]
    BY <1>1, <1>3, <1>5, <1>6, <2>1, <2>2 DEF HeldOnce
  <2>3. CASE s = current[c]
    BY <1>1, <1>3, <1>5, <1>6, <2>1, <2>3 DEF HeldOnce
  <2> QED BY <2>2, <2>3
<1> QED BY <1>1, <1>5, <1>6, <1>7, PoolTogether DEF PoolInv

\* After a close_session, whatever came of it, the handler has no session.
LEMMA OnwardType ==
  ASSUME NEW h \in Handlers, Fit(h), h.pc \in {"discard", "undo"}
  PROVE  Onward(h) \in Handlers /\ Fit(Onward(h)) /\ Onward(h).sess = None
<1>1. CASE h.tool = "item" BY <1>1, FreeType DEF Onward
<1>2. CASE h.tool = "close"
  BY <1>2, EndedType DEF Onward, NoText, Proofs, Stated
<1>3. CASE h.tool = "enter" /\ h.pc = "discard"
  BY <1>3 DEF Onward, Handlers, Fit
<1>4. CASE h.tool \notin {"item", "close"} /\ ~(h.tool = "enter" /\ h.pc = "discard")
  <2>1. Onward(h) = Ended(h, "error", NoText) BY <1>4 DEF Onward
  <2>2. NoText \in [theorem : Stated, proof : Proofs] BY DEF NoText, Proofs, Stated
  <2> QED BY <1>4, <2>1, <2>2, EndedType
<1> QED BY <1>1, <1>2, <1>3, <1>4

\* Discard: the handler's session is closed, or lost.
LEMMA DiscardStep ==
  ASSUME PoolInv, NEW k \in Slots, Discard(k)
  PROVE  PoolInv'
<1> DEFINE z == call[k].sess
<1>1. /\ call[k].pc \in {"discard", "undo"} /\ call' = [call EXCEPT ![k] = Onward(call[k])]
      /\ \/ gym' = [gym EXCEPT ![z] = Closed] /\ UNCHANGED lost
         \/ lost' = lost \cup {z} /\ UNCHANGED gym
      /\ UNCHANGED current
  BY DEF Discard
<1>2. z \in Sessions /\ call[k] \in Handlers /\ Fit(call[k])
  BY <1>1, SlotFacts DEF Holding
<1>3. /\ call' \in [Slots -> Handlers] /\ \A m \in Slots : Fit(call'[m])
      /\ call'[k].sess = None /\ \A m \in Slots : m # k => call'[m].sess = call[m].sess
  <2>1. Onward(call[k]) \in Handlers /\ Fit(Onward(call[k])) /\ Onward(call[k]).sess = None
    BY <1>1, <1>2, OnwardType
  <2> QED BY <1>1, <2>1, OneSlot
<1>4. gym' \in [Sessions -> [open : BOOLEAN, theorem : Stated, proof : Proofs]]
      /\ lost' \subseteq Sessions
  <2>1. Closed \in [open : BOOLEAN, theorem : Stated, proof : Proofs] BY DEF Closed, Proofs, Stated
  <2> QED BY <1>1, <1>2, <2>1 DEF PoolInv
<1>5. ASSUME NEW s \in Sessions PROVE HeldOnce(s)'
  <2>1. HeldOnce(s) /\ None # s BY PoolAssumption DEF PoolInv
  <2>2. CASE gym' = [gym EXCEPT ![z] = Closed] /\ UNCHANGED lost
    <3>1. gym'[s].open = IF s = z THEN FALSE ELSE gym[s].open
      BY <2>2, <1>2 DEF PoolInv, Closed
    <3> HIDE DEF z
    <3>2. \A m \in Slots : call'[m].sess = s <=> (s # z /\ call[m].sess = s)
      BY <1>3, <2>1 DEF HeldOnce, z
    <3>3. CASE s # z BY <2>1, <2>2, <1>1, <3>1, <3>2, <3>3 DEF HeldOnce
    <3>4. CASE s = z
      <4>1. s \notin lost /\ \A d \in Conns : current[d] # s
        BY <2>1, <3>4 DEF HeldOnce, z
      <4> QED BY <4>1, <2>2, <1>1, <3>1, <3>2, <3>4 DEF HeldOnce
    <3> QED BY <3>3, <3>4
  <2>3. CASE lost' = lost \cup {z} /\ UNCHANGED gym
    <3> HIDE DEF z
    <3>1. \A m \in Slots : call'[m].sess = s <=> (s # z /\ call[m].sess = s)
      BY <1>3, <2>1 DEF HeldOnce, z
    <3>2. CASE s # z BY <2>1, <2>3, <1>1, <3>1, <3>2 DEF HeldOnce
    <3>3. CASE s = z
      <4>1. s \notin lost /\ \A d \in Conns : current[d] # s
        BY <2>1, <3>3 DEF HeldOnce, z
      <4>2. gym[s].open BY <2>1, <3>3 DEF HeldOnce, z
      <4> QED BY <4>1, <4>2, <2>3, <1>1, <3>1, <3>3 DEF HeldOnce
    <3> QED BY <3>2, <3>3
  <2> QED BY <1>1, <2>2, <2>3
<1> QED BY <1>1, <1>3, <1>4, <1>5, PoolTogether DEF PoolInv

\* A handler that has, and gets, no session: only its slot changes.
LEMMA SlotOnly ==
  ASSUME PoolInv, NEW k \in Slots, NEW h \in Handlers, Fit(h), h.sess = call[k].sess,
         call' = [call EXCEPT ![k] = h], UNCHANGED <<gym, current, lost>>
  PROVE  PoolInv'
<1>1. /\ call' \in [Slots -> Handlers] /\ \A m \in Slots : Fit(call'[m])
      /\ call'[k] = h /\ \A m \in Slots : m # k => call'[m] = call[m]
  BY OneSlot
<1>2. \A m \in Slots : call'[m].sess = call[m].sess BY <1>1
<1>3. \A s \in Sessions : HeldOnce(s)' BY <1>2, NothingMoves
<1> QED BY <1>1, <1>3, PoolTogether DEF PoolInv

\* Where a handler gives up without a session.
LEMMA GivesUp ==
  ASSUME PoolInv, NEW k \in Slots, call[k].pc = "acquire"
  PROVE  LET h == IF call[k].tool = "item" THEN Free ELSE Ended(call[k], "error", NoText)
         IN  h \in Handlers /\ Fit(h) /\ h.sess = None
<1>1. CASE call[k].tool = "item" BY <1>1, FreeType
<1>2. CASE call[k].tool # "item"
  <2>1. call[k] \in Handlers /\ Fit(call[k]) /\ NoText \in [theorem : Stated, proof : Proofs]
    BY SlotFacts
  <2>2. LET h == Ended(call[k], "error", NoText) IN h \in Handlers /\ Fit(h) /\ h.sess = None
    BY <1>2, <2>1, EndedType
  <2> QED BY <1>2, <2>2
<1> QED BY <1>1, <1>2

\* A new session for the handler, or, if the answer was lost, for nobody.
LEMMA NewHolder ==
  ASSUME PoolInv, NEW k \in Slots, NEW z \in Sessions, ~gym[z].open, call[k].sess = None,
         gym' = [gym EXCEPT ![z] = NewSession], UNCHANGED current,
         NEW h \in Handlers, Fit(h), call' = [call EXCEPT ![k] = h],
         \/ h.sess = z /\ UNCHANGED lost
         \/ h.sess = None /\ lost' = lost \cup {z}
  PROVE  PoolInv'
<1>1. /\ call' \in [Slots -> Handlers] /\ \A m \in Slots : Fit(call'[m])
      /\ call'[k] = h /\ \A m \in Slots : m # k => call'[m].sess = call[m].sess
  BY OneSlot
<1>2. gym' \in [Sessions -> [open : BOOLEAN, theorem : Stated, proof : Proofs]]
  <2>1. NewSession \in [open : BOOLEAN, theorem : Stated, proof : Proofs]
    BY DEF NewSession, Closed, Proofs, Stated
  <2> QED BY <2>1 DEF PoolInv
<1>3. lost' \subseteq Sessions BY DEF PoolInv
<1>4. ASSUME NEW s \in Sessions PROVE HeldOnce(s)'
  <2>1. HeldOnce(s) /\ None # s BY PoolAssumption DEF PoolInv
  <2>2. gym'[s].open = IF s = z THEN TRUE ELSE gym[s].open
    BY DEF PoolInv, NewSession, Closed
  <2>3. CASE s = z
    <3>1. s \notin lost /\ (\A c \in Conns : current[c] # s) /\ \A m \in Slots : call[m].sess # s
      BY <2>1, <2>3 DEF HeldOnce
    <3> QED BY <1>1, <2>1, <2>2, <2>3, <3>1 DEF HeldOnce
  <2>4. CASE s # z
    BY <1>1, <2>1, <2>2, <2>4 DEF HeldOnce
  <2> QED BY <2>3, <2>4
<1> QED BY <1>1, <1>2, <1>3, <1>4, PoolTogether DEF PoolInv

\* Acquire: a session nobody has, or none, or one whose answer is lost.
LEMMA AcquireStep ==
  ASSUME PoolInv, NEW k \in Slots, Acquire(k)
  PROVE  PoolInv'
<1> DEFINE e == IF call[k].tool = "item" THEN Free ELSE Ended(call[k], "error", NoText)
<1>1. call[k].pc = "acquire" /\ UNCHANGED current BY DEF Acquire
<1>2. call[k] \in Handlers /\ Fit(call[k]) /\ call[k].sess = None
  BY <1>1, SlotFacts DEF Holding
<1>3. e \in Handlers /\ Fit(e) /\ e.sess = None BY <1>1, GivesUp
<1>4. Fails(k) => call' = [call EXCEPT ![k] = e] BY DEF Fails
<1> HIDE DEF e
<1>5. ASSUME NEW z \in Sessions, Unmade(z), gym' = [gym EXCEPT ![z] = NewSession],
             call' = [call EXCEPT ![k].pc = "begin", ![k].sess = z], UNCHANGED lost
      PROVE  PoolInv'
  <2> DEFINE h == [call[k] EXCEPT !.pc = "begin", !.sess = z]
  <2>1. call' = [call EXCEPT ![k] = h] BY <1>5 DEF PoolInv
  <2>2. h \in Handlers /\ Fit(h) /\ h.sess = z
    BY <1>1, <1>2, PoolAssumption DEF Handlers, Fit
  <2>3. ~gym[z].open BY <1>5 DEF Unmade
  <2> HIDE DEF h
  <2> QED BY <1>1, <1>2, <1>5, <2>1, <2>2, <2>3, NewHolder
<1>6. ASSUME NEW z \in Sessions, Unmade(z), gym' = [gym EXCEPT ![z] = NewSession],
             Fails(k), lost' = lost \cup {z}
      PROVE  PoolInv'
  <2>1. ~gym[z].open BY <1>6 DEF Unmade
  <2> QED BY <1>1, <1>2, <1>3, <1>4, <1>6, <2>1, NewHolder
<1>7. CASE Fails(k) /\ UNCHANGED <<gym, lost>>
  BY <1>1, <1>2, <1>3, <1>4, <1>7, SlotOnly
<1> QED BY <1>5, <1>6, <1>7 DEF Acquire

\* A handler that goes on with the session it has.
LEMMA GoesOn ==
  ASSUME PoolInv, NEW k \in Slots, NEW p \in {"store", "check", "undo"},
         call[k].pc \in {"begin", "check"}, p = "store" => call[k].tool # "item",
         call' = [call EXCEPT ![k].pc = p], UNCHANGED <<gym, current, lost>>
  PROVE  PoolInv'
<1> DEFINE h == [call[k] EXCEPT !.pc = p]
<1>1. call[k] \in Handlers /\ Fit(call[k]) /\ call[k].sess # None
  BY SlotFacts, PoolAssumption DEF Holding
<1>2. h \in Handlers /\ Fit(h) /\ h.sess = call[k].sess BY <1>1 DEF Handlers, Fit
<1>3. call' = [call EXCEPT ![k] = h] BY DEF PoolInv
<1> HIDE DEF h
<1> QED BY <1>2, <1>3, SlotOnly

\* BeginTheory: the session stays the handler's, also when it is to be closed.
LEMMA BeginTheoryStep ==
  ASSUME PoolInv, NEW k \in Slots, BeginTheory(k)
  PROVE  PoolInv'
<1>1. call[k].pc = "begin" /\ UNCHANGED <<gym, current, lost>> BY DEF BeginTheory
<1>2. CASE call' = [call EXCEPT ![k].pc = IF call[k].tool = "item" THEN "check" ELSE "store"]
  <2>1. CASE call[k].tool = "item"
    <3>1. call' = [call EXCEPT ![k].pc = "check"] BY <1>2, <2>1
    <3> QED BY <1>1, <3>1, GoesOn
  <2>2. CASE call[k].tool # "item"
    <3>1. call' = [call EXCEPT ![k].pc = "store"] BY <1>2, <2>2
    <3> QED BY <1>1, <2>2, <3>1, GoesOn
  <2> QED BY <2>1, <2>2
<1>3. CASE call' = [call EXCEPT ![k].pc = "undo"] BY <1>1, <1>3, GoesOn
<1> QED BY <1>2, <1>3 DEF BeginTheory

\* ItemChecked: likewise.
LEMMA ItemCheckedStep ==
  ASSUME PoolInv, NEW k \in Slots, ItemChecked(k)
  PROVE  PoolInv'
BY GoesOn DEF ItemChecked

\* Store: the handler's session becomes the table's; the one it overwrites is lost.
LEMMA StoreStep ==
  ASSUME PoolInv, NEW k \in Slots, Store(k)
  PROVE  PoolInv'
<1> DEFINE c == call[k].conn
           z == call[k].sess
           old == current[c]
           h == Ended(call[k], "ok", NoText)
<1>1. /\ call[k].pc = "store" /\ current' = [current EXCEPT ![c] = z]
      /\ lost' = lost \cup ({old} \ {None}) /\ call' = [call EXCEPT ![k] = h]
      /\ UNCHANGED gym
  BY DEF Store
<1>2. call[k] \in Handlers /\ Fit(call[k]) /\ z \in Sessions /\ call[k].tool # "item"
      /\ c \in Conns /\ old \in Sessions \cup {None}
      /\ NoText \in [theorem : Stated, proof : Proofs]
  BY <1>1, SlotFacts DEF Fit, Holding, PoolInv
<1>3. h \in Handlers /\ Fit(h) /\ h.sess = None BY <1>1, <1>2, EndedType
<1> HIDE DEF h
<1>4. /\ call' \in [Slots -> Handlers] /\ \A m \in Slots : Fit(call'[m])
      /\ call'[k].sess = None /\ \A m \in Slots : m # k => call'[m].sess = call[m].sess
  BY <1>1, <1>3, OneSlot
<1>5. /\ current' \in [Conns -> Sessions \cup {None}] /\ current'[c] = z
      /\ \A d \in Conns : d # c => current'[d] = current[d]
  BY <1>1, <1>2 DEF PoolInv
<1>6. lost' \subseteq Sessions BY <1>1, <1>2 DEF PoolInv
<1>7. ASSUME NEW s \in Sessions PROVE HeldOnce(s)'
  <2>1. HeldOnce(s) /\ None # s BY PoolAssumption DEF PoolInv
  <2>2. s \in lost' <=> (s \in lost \/ s = old) BY <1>1, <2>1
  <2>3. z = s => s \notin lost /\ (\A d \in Conns : current[d] # s) /\ gym[s].open
                 /\ \A m \in Slots : call[m].sess = s => m = k
    BY <2>1 DEF HeldOnce
  <2>4. old = s => s \notin lost /\ (\A d \in Conns : current[d] = s => d = c) /\ gym[s].open
                 /\ \A m \in Slots : call[m].sess # s
    BY <1>2, <2>1 DEF HeldOnce
  <2>5. gym'[s].open = gym[s].open BY <1>1
  <2>6. call[k].sess = z /\ current[c] = old OBVIOUS
  <2> HIDE DEF c, z, old
  <2>7. CASE s = z
    BY <1>2, <1>4, <1>5, <2>1, <2>2, <2>3, <2>5, <2>6, <2>7 DEF HeldOnce
  <2>8. CASE s = old
    BY <1>2, <1>4, <1>5, <2>1, <2>2, <2>3, <2>4, <2>5, <2>6, <2>8 DEF HeldOnce
  <2>9. CASE s # z /\ s # old
    BY <1>2, <1>4, <1>5, <2>1, <2>2, <2>5, <2>6, <2>9 DEF HeldOnce
  <2> QED BY <2>7, <2>8, <2>9
<1> QED BY <1>1, <1>4, <1>5, <1>6, <1>7, PoolTogether DEF PoolInv

\* What a request makes of an open session is an open session.
LEMMA OutcomeType ==
  ASSUME NEW t, NEW g \in [open : BOOLEAN, theorem : Stated, proof : Proofs], g.open,
         NEW r \in Outcome(t, g)
  PROVE  r \in [open : BOOLEAN, theorem : Stated, proof : Proofs] /\ r.open
<1>1. CASE t = "seed" BY <1>1 DEF Outcome, Stated
<1>2. CASE t = "edit" BY <1>2 DEF Outcome
<1>3. CASE t \notin {"seed", "edit"} BY <1>3 DEF Outcome
<1> QED BY <1>1, <1>2, <1>3

\* Use: the table's session stays where it is.
LEMMA UseStep ==
  ASSUME PoolInv, NEW k \in Slots, Use(k)
  PROVE  PoolInv'
<1> DEFINE c == call[k].conn
           z == current[c]
<1>1. call[k].pc = "use" /\ UNCHANGED <<current, lost>> BY DEF Use
<1>2. call[k] \in Handlers /\ Fit(call[k]) /\ call[k].sess = None /\ call[k].tool # "item"
      /\ c \in Conns /\ z \in Sessions \cup {None}
      /\ NoText \in [theorem : Stated, proof : Proofs]
  BY <1>1, SlotFacts DEF Fit, Holding, PoolInv
<1>3. ASSUME z # None, NEW g \in Outcome(call[k].tool, gym[z]), gym' = [gym EXCEPT ![z] = g],
             \/ call' = [call EXCEPT ![k] =
                           Ended(call[k], "ok", [theorem |-> g.theorem, proof |-> g.proof])]
             \/ call' = [call EXCEPT ![k] = Ended(call[k], "error", NoText)]
      PROVE  PoolInv'
  <2> DEFINE a == Ended(call[k], "ok", [theorem |-> g.theorem, proof |-> g.proof])
             e == Ended(call[k], "error", NoText)
  <2>1. z \in Sessions /\ gym[z] \in [open : BOOLEAN, theorem : Stated, proof : Proofs]
    BY <1>2, <1>3 DEF PoolInv
  <2>2. HeldOnce(z) BY <2>1 DEF PoolInv
  <2>3. gym[z].open BY <1>2, <2>2 DEF HeldOnce
  <2>4. g \in [open : BOOLEAN, theorem : Stated, proof : Proofs] /\ g.open
    BY <2>1, <2>3, OutcomeType
  <2>5. [theorem |-> g.theorem, proof |-> g.proof] \in [theorem : Stated, proof : Proofs]
    BY <2>4
  <2>6. /\ a \in Handlers /\ Fit(a) /\ a.sess = None
        /\ e \in Handlers /\ Fit(e) /\ e.sess = None
    BY <1>1, <1>2, <2>5, EndedType
  <2>7. PICK h \in {a, e} : call' = [call EXCEPT ![k] = h] BY <1>3
  <2> HIDE DEF a, e
  <2>8. /\ call' \in [Slots -> Handlers] /\ \A m \in Slots : Fit(call'[m])
        /\ call'[k] = h /\ \A m \in Slots : m # k => call'[m] = call[m]
    BY <2>6, <2>7, OneSlot
  <2>9. gym' \in [Sessions -> [open : BOOLEAN, theorem : Stated, proof : Proofs]]
    BY <1>3, <2>1, <2>4 DEF PoolInv
  <2>10. \A s \in Sessions : gym'[s].open = gym[s].open
    <3>1. gym[z].open = TRUE /\ g.open = TRUE BY <2>1, <2>3, <2>4
    <3> QED BY <1>3, <3>1 DEF PoolInv
  <2>11. \A m \in Slots : call'[m].sess = call[m].sess BY <1>2, <2>6, <2>8
  <2>12. \A s \in Sessions : HeldOnce(s)' BY <1>1, <2>10, <2>11, NothingMoves
  <2> QED BY <1>1, <2>8, <2>9, <2>12, PoolTogether DEF PoolInv
<1>4. ASSUME call' = [call EXCEPT ![k] = Ended(call[k], "error", NoText)], UNCHANGED gym
      PROVE  PoolInv'
  <2> DEFINE h == Ended(call[k], "error", NoText)
  <2>1. h \in Handlers /\ Fit(h) /\ h.sess = None BY <1>1, <1>2, EndedType
  <2>2. call' = [call EXCEPT ![k] = h] BY <1>4
  <2> HIDE DEF h
  <2> QED BY <1>1, <1>2, <1>4, <2>1, <2>2, SlotOnly
<1> QED BY <1>3, <1>4 DEF Use

\* BatchItem: the item starts without a session.
LEMMA BatchItemStep ==
  ASSUME PoolInv, NEW k \in Slots, NEW i \in Slots, BatchItem(k, i)
  PROVE  PoolInv'
<1> DEFINE h == [call[k] EXCEPT !.todo = @ - 1]
           n == [Free EXCEPT !.pc = "acquire", !.tool = "item", !.of = k]
<1>1. /\ call[k].pc = "batch" /\ call[k].todo > 0 /\ call[i].pc = "free"
      /\ UNCHANGED <<gym, current, lost>>
  BY DEF BatchItem, Vacant
<1>2. /\ call[k] \in Handlers /\ Fit(call[k]) /\ call[k].sess = None /\ call[i].sess = None
      /\ i # k
  BY <1>1, SlotFacts DEF Holding
<1>3. h \in Handlers /\ Fit(h) /\ h.sess = None BY <1>1, <1>2 DEF Handlers, Fit
<1>4. n \in Handlers /\ Fit(n) /\ n.sess = None BY DEF Handlers, Fit, Free, NoText, Proofs, Stated
<1>5. call' = [call EXCEPT ![k] = h, ![i] = n] BY <1>2 DEF BatchItem, PoolInv
<1> HIDE DEF h, n
<1>6. /\ call' \in [Slots -> Handlers] /\ call'[k] = h /\ call'[i] = n
      /\ \A m \in Slots : m \notin {k, i} => call'[m] = call[m]
  BY <1>2, <1>3, <1>4, <1>5 DEF PoolInv
<1>7. \A m \in Slots : Fit(call'[m])
  <2>1. \A m \in Slots : Fit(call[m]) BY DEF PoolInv
  <2> QED BY <1>3, <1>4, <1>6, <2>1
<1>8. \A m \in Slots : call'[m].sess = call[m].sess BY <1>2, <1>3, <1>4, <1>6
<1>9. \A s \in Sessions : HeldOnce(s)' BY <1>1, <1>8, NothingMoves
<1> QED BY <1>1, <1>6, <1>7, <1>9, PoolTogether DEF PoolInv

\* BatchEnds: the batch itself has no session.
LEMMA BatchEndsStep ==
  ASSUME PoolInv, NEW k \in Slots, BatchEnds(k)
  PROVE  PoolInv'
<1> DEFINE h == Ended(call[k], "ok", NoText)
<1>1. /\ call[k].pc = "batch" /\ call' = [call EXCEPT ![k] = h]
      /\ UNCHANGED <<gym, current, lost>>
  BY DEF BatchEnds
<1>2. call[k] \in Handlers /\ Fit(call[k]) /\ call[k].sess = None /\ call[k].tool # "item"
      /\ NoText \in [theorem : Stated, proof : Proofs]
  BY <1>1, SlotFacts DEF Fit, Holding
<1>3. h \in Handlers /\ Fit(h) /\ h.sess = None BY <1>1, <1>2, EndedType
<1> HIDE DEF h
<1> QED BY <1>1, <1>2, <1>3, SlotOnly

\* Cancel: what the cancelled handlers had is closed or lost.
LEMMA CancelStep ==
  ASSUME PoolInv, NEW k \in Slots, Cancel(k)
  PROVE  PoolInv'
<1> DEFINE gone == {k} \cup ItemsOf(k)
           held == {call[i].sess : i \in gone} \ {None}
<1>1. /\ gone \subseteq Slots /\ call' = [i \in Slots |-> IF i \in gone THEN Free ELSE call[i]]
      /\ UNCHANGED current
  BY DEF Cancel, ItemsOf
<1>2. PICK closed \in SUBSET held :
        /\ gym' = [s \in Sessions |-> IF s \in closed THEN Closed ELSE gym[s]]
        /\ lost' = lost \cup (held \ closed)
  BY DEF Cancel
<1>3. \A s : s \in held <=> s # None /\ \E i \in gone : call[i].sess = s OBVIOUS
<1> HIDE DEF gone, held
<1>4. \A i \in Slots : call[i].sess \in Sessions \cup {None} BY DEF PoolInv, Handlers
<1>5. held \subseteq Sessions BY <1>1, <1>3, <1>4
<1>6. call' \in [Slots -> Handlers] /\ \A m \in Slots : Fit(call'[m])
  BY <1>1, FreeType DEF PoolInv
<1>7. gym' \in [Sessions -> [open : BOOLEAN, theorem : Stated, proof : Proofs]]
  <2>1. Closed \in [open : BOOLEAN, theorem : Stated, proof : Proofs] BY DEF Closed, Proofs, Stated
  <2> QED BY <1>2, <2>1 DEF PoolInv
<1>8. lost' \subseteq Sessions BY <1>2, <1>5 DEF PoolInv
<1>9. ASSUME NEW s \in Sessions PROVE HeldOnce(s)'
  <2>1. HeldOnce(s) /\ None # s BY PoolAssumption DEF PoolInv
  <2>2. gym'[s].open = IF s \in closed THEN FALSE ELSE gym[s].open BY <1>2 DEF Closed
  <2>3. \A i \in Slots : call'[i].sess = s <=> i \notin gone /\ call[i].sess = s
    BY <1>1, <2>1, FreeType
  <2>4. CASE s \in held
    <3>1. PICK i \in Slots : i \in gone /\ call[i].sess = s BY <1>1, <1>3, <2>4
    <3>2. /\ s \notin lost /\ gym[s].open /\ (\A c \in Conns : current[c] # s)
          /\ \A m \in Slots : call[m].sess = s => m = i
      BY <2>1, <3>1 DEF HeldOnce
    <3>3. \A m \in Slots : call'[m].sess # s BY <2>3, <3>1, <3>2
    <3>4. s \in lost' <=> s \notin closed BY <1>2, <2>4, <3>2
    <3> QED BY <1>1, <2>2, <3>2, <3>3, <3>4 DEF HeldOnce
  <2>5. CASE s \notin held
    <3>1. \A i \in Slots : call'[i].sess = s <=> call[i].sess = s BY <1>3, <2>1, <2>3, <2>5
    <3>2. s \notin closed /\ (s \in lost' <=> s \in lost) BY <1>2, <2>5
    <3> QED BY <1>1, <2>1, <2>2, <3>1, <3>2 DEF HeldOnce
  <2> QED BY <2>4, <2>5
<1> QED BY <1>1, <1>6, <1>7, <1>8, <1>9, PoolTogether DEF PoolInv

\* Together, the steps of a handler.
LEMMA HandlerStep ==
  ASSUME PoolInv, NEW k \in Slots, Handler(k)
  PROVE  PoolInv'
BY PopStep, DiscardStep, AcquireStep, BeginTheoryStep, StoreStep, UseStep, ItemCheckedStep,
   BatchEndsStep, BatchItemStep, CancelStep DEF Handler

\* Reap: a lost session is closed; nobody else had it.
LEMMA ReapStep ==
  ASSUME PoolInv, NEW z \in Sessions, Reap(z)
  PROVE  PoolInv'
<1>1. /\ z \in lost /\ lost' = lost \ {z} /\ gym' = [gym EXCEPT ![z] = Closed]
      /\ UNCHANGED <<current, call>>
  BY DEF Reap
<1>2. gym' \in [Sessions -> [open : BOOLEAN, theorem : Stated, proof : Proofs]]
  <2>1. Closed \in [open : BOOLEAN, theorem : Stated, proof : Proofs] BY DEF Closed, Proofs, Stated
  <2> QED BY <1>1, <2>1 DEF PoolInv
<1>3. ASSUME NEW s \in Sessions PROVE HeldOnce(s)'
  <2>1. HeldOnce(s) BY DEF PoolInv
  <2>2. gym'[s].open = IF s = z THEN FALSE ELSE gym[s].open BY <1>1 DEF PoolInv, Closed
  <2>3. CASE s = z BY <1>1, <2>1, <2>2, <2>3 DEF HeldOnce
  <2>4. CASE s # z BY <1>1, <2>1, <2>2, <2>4 DEF HeldOnce
  <2> QED BY <2>3, <2>4
<1>4. \A k \in Slots : Fit(call'[k]) BY <1>1 DEF PoolInv
<1> QED BY <1>1, <1>2, <1>3, <1>4, PoolTogether DEF PoolInv

\* Arrive: a request comes without a session.
LEMMA ArriveStep ==
  ASSUME PoolInv, NEW k \in Slots, NEW c \in Conns,
         NEW t \in {"enter", "look", "seed", "edit", "close", "batch"},
         Arrive(k, c, t), UNCHANGED <<gym, current, lost>>
  PROVE  PoolInv'
<1> DEFINE h == [Free EXCEPT !.tool = t, !.conn = c, !.pc = Entry(t),
                             !.todo = IF t = "batch" THEN BatchItems ELSE 0]
<1>1. call[k].pc = "free" /\ call' = [call EXCEPT ![k] = h] BY DEF Arrive, Vacant
<1>2. Entry(t) \in {"pop", "use", "batch"} BY DEF Entry
<1>3. h \in Handlers /\ Fit(h) /\ h.sess = None
  BY <1>2, PoolAssumption DEF Handlers, Fit, Free, NoText, Proofs, Stated
<1>4. call[k].sess = None BY <1>1, SlotFacts DEF Holding
<1> HIDE DEF h
<1> QED BY <1>1, <1>3, <1>4, SlotOnly

\* Unheard: the handler keeps what it has.
LEMMA UnheardStep ==
  ASSUME PoolInv, NEW k \in Slots, Unheard(k), UNCHANGED <<gym, current, lost>>
  PROVE  PoolInv'
<1> DEFINE h == [call[k] EXCEPT !.heard = FALSE]
<1>1. call[k] \in Handlers /\ Fit(call[k]) BY SlotFacts
<1>2. h \in Handlers /\ Fit(h) /\ h.sess = call[k].sess
  <2>1. h \in Handlers BY <1>1 DEF Handlers
  <2>2. /\ h.sess = call[k].sess /\ h.pc = call[k].pc /\ h.tool = call[k].tool
        /\ h.conn = call[k].conn
    BY <1>1 DEF Handlers
  <2> HIDE DEF h
  <2> QED BY <1>1, <2>1, <2>2 DEF Fit
<1>3. call' = [call EXCEPT ![k] = h] BY DEF Unheard, PoolInv
<1> HIDE DEF h
<1> QED BY <1>2, <1>3, SlotOnly

\* Heard: a handler that has answered has no session.
LEMMA HeardStep ==
  ASSUME PoolInv, NEW k \in Slots, Heard(k), call[k].pc \in {"ok", "error"},
         UNCHANGED <<gym, current, lost>>
  PROVE  PoolInv'
<1>1. call[k].sess = None BY SlotFacts DEF Holding
<1> QED BY <1>1, FreeType, SlotOnly DEF Heard

\* Drop: everything the connection and its handlers had is lost.
LEMMA DropStep ==
  ASSUME PoolInv, NEW c \in Conns, Drop(c)
  PROVE  PoolInv'
<1>1. /\ call' = [k \in Slots |-> Free] /\ current' = [current EXCEPT ![c] = None]
      /\ lost' = lost \cup (({current[c]} \cup {call[k].sess : k \in Slots}) \ {None})
      /\ UNCHANGED gym
  BY DEF Drop
<1>2. call' \in [Slots -> Handlers] /\ \A k \in Slots : call'[k] = Free
  BY <1>1, FreeType
<1>3. /\ current' \in [Conns -> Sessions \cup {None}] /\ current'[c] = None
      /\ \A d \in Conns : d # c => current'[d] = current[d]
  BY <1>1 DEF PoolInv
<1>4. \A k \in Slots : call[k].sess \in Sessions \cup {None}
  BY DEF PoolInv, Handlers
<1>5. lost' \subseteq Sessions BY <1>1, <1>4 DEF PoolInv
<1>6. ASSUME NEW s \in Sessions PROVE HeldOnce(s)'
  <2>1. HeldOnce(s) /\ None # s BY PoolAssumption DEF PoolInv
  <2>2. s \in lost' <=> (s \in lost \/ current[c] = s \/ \E k \in Slots : call[k].sess = s)
    BY <1>1, <2>1
  <2>3. \A k \in Slots : call'[k].sess # s BY <1>2, <2>1, FreeType
  <2> QED BY <1>1, <1>3, <2>1, <2>2, <2>3 DEF HeldOnce
<1>7. \A k \in Slots : Fit(call'[k]) BY <1>2, FreeType
<1> QED BY <1>1, <1>2, <1>3, <1>5, <1>6, <1>7, PoolTogether DEF PoolInv

-----------------------------------------------------------------------------
(* The stepwise harness.                                                   *)

Waiting == wait \in Slots \cup {None}

\* Taking the answer of the awaited call, or giving it up.
LEMMA GoOnStep ==
  ASSUME PoolInv, Waiting, NEW places, NEW answers \in SUBSET {"ok", "error"}, NEW s,
         \/ Answer(places, answers) /\ GoOn(s)
         \/ GiveUp(places, s)
  PROVE  PoolInv' /\ Waiting' /\ pc \in places /\ pc' = s
<1>1. CASE Answer(places, answers) /\ GoOn(s)
  <2>1. /\ wait \in Slots /\ Heard(wait) /\ call[wait].pc \in {"ok", "error"}
        /\ UNCHANGED <<gym, current, lost>>
    BY <1>1 DEF Answer, GoOn, Waiting
  <2> QED BY <1>1, <2>1, HeardStep DEF Answer, GoOn, Waiting
<1>2. CASE GiveUp(places, s)
  <2>1. wait \in Slots /\ Unheard(wait) /\ UNCHANGED <<gym, current, lost>>
    BY <1>2 DEF GiveUp, Waiting
  <2> QED BY <1>2, <2>1, UnheardStep DEF GiveUp, Waiting
<1> QED BY <1>1, <1>2

\* The attempt in progress is a connection of the server.
LEMMA NowConn == ASSUME LoopInv, harness = "stepwise" PROVE now \in Conns
BY RunnerAssumption DEF LoopInv, LoopType, Attempts

\* The stepwise harness has nothing to do with the files of the others.
LEMMA FilesApart ==
  ASSUME FileInv, harness = "stepwise", UNCHANGED <<harness, disk, copy>>
  PROVE  FileInv'
BY DEF FileInv

\* As long as an attempt is under way it has no error.
LEMMA NoError ==
  ASSUME LoopInv, pc \notin {"judge", "closing", "failed", "crashed"} PROVE ~error
BY DEF LoopInv, FilesOwn

\* Setting up an attempt.
LEMMA SetupStep ==
  ASSUME LoopInv, PoolInv, Waiting, harness = "stepwise", CallTool \/ Connect \/ Setup
  PROVE  LoopInv' /\ PoolInv' /\ Waiting' /\ harness' = harness
<1> USE DEF Tool
<1>1. CASE CallTool
  <2>1. PICK k \in Slots : Arrive(k, now, Tool[pc]) /\ wait' = k BY <1>1 DEF CallTool, Ask
  <2>2. Tool[pc] \in {"enter", "look", "seed", "edit", "close", "batch"} BY <1>1 DEF CallTool
  <2>3. UNCHANGED <<gym, current, lost, loopVars>> BY <1>1 DEF CallTool
  <2>4. PoolInv' BY <2>1, <2>2, <2>3, NowConn, ArriveStep
  <2>5. LoopInv'
    <3>1. UNCHANGED <<harness, now, pc, budget, todo, files, error, results>>
      BY <2>3 DEF loopVars
    <3>2. /\ budget' \in [rounds : Nat, nudges : Nat, done : Nat] /\ todo' \in Nat
          /\ pc' \in {"tool", "tool_enter", "reseed"} => todo' > 0
      BY <3>1 DEF LoopInv, LoopType
    <3> QED BY <3>1, <3>2, LoopGoesOn
  <2> QED BY <2>1, <2>3, <2>4, <2>5 DEF Waiting, loopVars
<1>2. CASE Connect
  <2>1. /\ UNCHANGED <<gym, current, call, lost, wait>>
        /\ UNCHANGED <<harness, now, budget, todo, files, error, results>>
        /\ pc' \in {"enter", "raise"} /\ pc = "connect"
    BY <1>2 DEF Connect, stepwiseVars, poolVars
  <2>2. budget' \in [rounds : Nat, nudges : Nat, done : Nat] /\ todo' \in Nat
    BY <2>1 DEF LoopInv, LoopType
  <2>3. LoopInv' BY <2>1, <2>2, NoError, LoopGoesOn DEF Over, Filing
  <2>4. PoolInv' BY <2>1, PoolAlone
  <2> QED BY <2>1, <2>3, <2>4 DEF Waiting
<1>3. CASE Setup
  <2>1. UNCHANGED <<harness, now, budget, todo, files, error, results>> BY <1>3 DEF Setup
  <2>2. PICK s \in {"warm", "raise", "seed", "hammer", "round"} :
          \E places \in SUBSET {"enter", "seed", "warm", "hammer"} :
          \E answers \in SUBSET {"ok", "error"} :
            \/ Answer(places, answers) /\ GoOn(s)
            \/ GiveUp(places, s)
    <3>1. CASE Answer({"enter"}, {"ok"}) /\ GoOn("warm") BY <3>1
    <3>2. CASE Answer({"enter", "seed"}, {"error"}) /\ GoOn("raise") BY <3>2
    <3>3. CASE GiveUp({"enter", "seed"}, "raise") BY <3>3
    <3>4. CASE Answer({"warm"}, {"ok", "error"}) /\ GoOn("seed") BY <3>4
    <3>5. CASE GiveUp({"warm"}, "seed") BY <3>5
    <3>6. CASE Answer({"seed"}, {"ok"}) /\ GoOn("hammer") BY <3>6
    <3>7. CASE Answer({"hammer"}, {"ok", "error"}) /\ GoOn("round") BY <3>7
    <3>8. CASE GiveUp({"hammer"}, "round") BY <3>8
    <3> QED BY <1>3, <3>1, <3>2, <3>3, <3>4, <3>5, <3>6, <3>7, <3>8 DEF Setup
  <2>3. PoolInv' /\ Waiting' /\ pc \in {"enter", "seed", "warm", "hammer"} /\ pc' = s
    BY <2>2, GoOnStep
  <2>4. budget' \in [rounds : Nat, nudges : Nat, done : Nat] /\ todo' \in Nat
    BY <2>1 DEF LoopInv, LoopType
  <2>5. LoopInv' BY <2>1, <2>3, <2>4, NoError, LoopGoesOn DEF Over, Filing
  <2> QED BY <2>1, <2>3, <2>5
<1> QED BY <1>1, <1>2, <1>3

\* The DONE gate.
LEMMA StepwiseGateStep ==
  ASSUME LoopInv, PoolInv, Waiting, Gate
  PROVE  LoopInv' /\ PoolInv' /\ Waiting' /\ harness' = harness
<1>1. UNCHANGED <<harness, now, todo, files, error, results>> BY DEF Gate
<1>2. PICK s \in {"gate_source", "round", "source"} :
        \E places \in SUBSET {"gate", "gate_source"} :
        \E answers \in SUBSET {"ok", "error"} :
          \/ Answer(places, answers) /\ GoOn(s)
          \/ GiveUp(places, s)
  <2>1. CASE Answer({"gate"}, {"ok"}) /\ GoOn("gate_source") BY <2>1
  <2>2. CASE Answer({"gate"}, {"ok"}) /\ GoOn("round") BY <2>2
  <2>3. CASE Answer({"gate_source"}, {"ok"}) /\ GoOn("round") BY <2>3
  <2>4. CASE Answer({"gate_source"}, {"ok"}) /\ GoOn("source") BY <2>4
  <2>5. CASE Answer({"gate", "gate_source"}, {"error"}) /\ GoOn("source") BY <2>5
  <2> QED BY <2>1, <2>2, <2>3, <2>4, <2>5 DEF Gate
<1>3. PoolInv' /\ Waiting' /\ pc \in {"gate", "gate_source"} /\ pc' = s BY <1>2, GoOnStep
<1>4. budget' = budget \/ SentBack BY DEF Gate
<1>5. budget' \in [rounds : Nat, nudges : Nat, done : Nat] /\ todo' \in Nat
  BY <1>1, <1>4 DEF LoopInv, LoopType, SentBack
<1>6. LoopInv' BY <1>1, <1>3, <1>5, NoError, LoopGoesOn DEF Over, Filing
<1> QED BY <1>1, <1>3, <1>6

\* The tool calls of a round: a call under way is one that is still to be counted.
LEMMA StepwiseToolsStep ==
  ASSUME LoopInv, PoolInv, Waiting, harness = "stepwise", Begin \/ Answered
  PROVE  LoopInv' /\ PoolInv' /\ Waiting' /\ harness' = harness
<1>1. UNCHANGED <<harness, now, budget, files, error, results>> BY DEF Begin, Answered
<1>2. budget' \in [rounds : Nat, nudges : Nat, done : Nat] /\ todo \in Nat
      /\ (pc \in {"tool", "tool_enter", "reseed"} => todo > 0)
  BY <1>1 DEF LoopInv, LoopType
<1>3. CASE Begin
  <2>1. UNCHANGED <<gym, current, lost>> /\ pc = "tools" BY <1>3 DEF Begin
  <2>2. ASSUME UNCHANGED <<call, wait>>, todo' \in Nat, pc' \in {"round", "tools"}
        PROVE  LoopInv' /\ PoolInv' /\ Waiting'
    <3>1. PoolInv' BY <2>1, <2>2, PoolAlone
    <3>2. LoopInv' BY <1>1, <1>2, <2>1, <2>2, NoError, LoopGoesOn DEF Over, Filing
    <3> QED BY <2>2, <3>1, <3>2 DEF Waiting
  <2>3. CASE todo = 0 /\ pc' = "round" /\ UNCHANGED <<call, wait, todo>>
    BY <1>1, <2>2, <2>3, <1>2
  <2>4. CASE todo > 0 /\ todo' = todo - 1 /\ UNCHANGED <<call, wait, pc>>
    BY <1>1, <2>1, <2>2, <2>4, <1>2
  <2>5. ASSUME NEW k \in Slots, NEW t \in {"enter", "edit", "look", "close", "batch"}, todo > 0,
               Ask(k, t), pc' = IF t = "enter" THEN "tool_enter" ELSE "tool", UNCHANGED todo
        PROVE  LoopInv' /\ PoolInv' /\ Waiting'
    <3>1. Arrive(k, now, t) /\ wait' = k BY <2>5 DEF Ask
    <3>2. PoolInv' BY <2>1, <3>1, NowConn, ArriveStep
    <3>3. LoopInv' BY <1>1, <1>2, <2>1, <2>5, NoError, LoopGoesOn DEF Over, Filing
    <3> QED BY <3>1, <3>2, <3>3 DEF Waiting
  <2>6. LoopInv' /\ PoolInv' /\ Waiting' BY <1>3, <2>3, <2>4, <2>5 DEF Begin
  <2> QED BY <2>6, <1>1
<1>4. CASE Answered
  <2>1. PICK s \in {"tools", "reseed"} :
          /\ \E places \in SUBSET {"tool", "tool_enter", "reseed"} :
             \E answers \in SUBSET {"ok", "error"} :
               \/ Answer(places, answers) /\ GoOn(s)
               \/ GiveUp(places, s)
          /\ todo' = IF s = "tools" THEN todo - 1 ELSE todo
    <3>1. CASE Answer({"tool", "reseed"}, {"ok", "error"}) /\ GoOn("tools") /\ todo' = todo - 1
      BY <3>1
    <3>2. CASE Answer({"tool_enter"}, {"error"}) /\ GoOn("tools") /\ todo' = todo - 1 BY <3>2
    <3>3. CASE GiveUp({"tool", "reseed"}, "tools") /\ todo' = todo - 1 BY <3>3
    <3>4. CASE Answer({"tool_enter"}, {"ok"}) /\ GoOn("reseed") /\ UNCHANGED todo BY <3>4
    <3>5. CASE GiveUp({"tool_enter"}, "reseed") /\ UNCHANGED todo BY <3>5
    <3> QED BY <1>4, <3>1, <3>2, <3>3, <3>4, <3>5 DEF Answered
  <2>2. PoolInv' /\ Waiting' /\ pc \in {"tool", "tool_enter", "reseed"} /\ pc' = s
    BY <2>1, GoOnStep
  <2>3. todo' \in Nat /\ (s = "reseed" => todo' > 0) BY <1>2, <2>1, <2>2
  <2>4. LoopInv' BY <1>1, <1>2, <2>2, <2>3, NoError, LoopGoesOn DEF Over, Filing
  <2> QED BY <1>1, <2>2, <2>4
<1> QED BY <1>3, <1>4

\* The end of an attempt: what is filed is what the attempt's own session holds.
LEMMA FinalStep ==
  ASSUME LoopInv, PoolInv, Waiting, harness = "stepwise", Final \/ Disconnect
  PROVE  LoopInv' /\ PoolInv' /\ Waiting' /\ harness' = harness
<1>0. now \in Attempts /\ now \in Nat BY LoopAssumption DEF LoopInv, LoopType, Attempts
<1>1. CASE Final
  <2>1. UNCHANGED <<harness, now, budget, todo, error, results>> BY <1>1 DEF Final
  <2>2. budget' \in [rounds : Nat, nudges : Nat, done : Nat] /\ todo' \in Nat
    BY <2>1 DEF LoopInv, LoopType
  <2>3. ASSUME NEW s \in {"leave", "raise"}, UNCHANGED files,
               IF s = "leave" THEN Answer({"close"}, {"ok", "error"}) /\ GoOn(s)
                              ELSE Answer({"source"}, {"ok", "error"}) /\ GoOn(s)
        PROVE  LoopInv' /\ PoolInv' /\ Waiting' /\ harness' = harness
    <3>1. PICK places \in {{"close"}, {"source"}} : Answer(places, {"ok", "error"}) /\ GoOn(s)
      BY <2>3
    <3>2. PoolInv' /\ Waiting' /\ pc \in places /\ pc' = s
      <4>1. {"ok", "error"} \in SUBSET {"ok", "error"} OBVIOUS
      <4> QED BY <3>1, <4>1, GoOnStep
    <3>3. (s = "leave" => pc = "close") /\ pc \in {"close", "source"}
      BY <2>3, <3>2 DEF Answer
    <3>4. LoopInv' BY <2>1, <2>2, <2>3, <3>2, <3>3, NoError, LoopGoesOn DEF Over, Filing
    <3> QED BY <2>1, <3>2, <3>4
  <2>4. CASE /\ Answer({"source"}, {"ok", "error"}) /\ GoOn("close")
             /\ files' = [files EXCEPT ![now] = [by |-> now, theorem |-> call[wait].text.theorem,
                                                 proof |-> call[wait].text.proof]]
    <3> DEFINE t == [by |-> now, theorem |-> call[wait].text.theorem,
                     proof |-> call[wait].text.proof]
    <3>1. PoolInv' /\ Waiting' /\ pc = "source" /\ pc' = "close"
      <4>1. {"ok", "error"} \in SUBSET {"ok", "error"} OBVIOUS
      <4> QED BY <2>4, <4>1, GoOnStep
    <3>2. wait \in Slots BY <2>4 DEF Answer, Waiting
    <3>3. call[wait].text \in [theorem : Stated, proof : Proofs]
      BY <3>2 DEF PoolInv, Handlers
    <3>4. t \in Contents /\ Own(t) /\ t.by = now
      BY <1>0, <3>3 DEF Contents, ProofStates, Proofs, Statements, Stated, Own
    <3>5. files' = [files EXCEPT ![now] = t] BY <2>4
    <3> HIDE DEF t
    <3>6. LoopInv' BY <2>1, <2>2, <3>1, <3>4, <3>5, NoError, LoopFiles DEF Over
    <3> QED BY <2>1, <3>1, <3>6
  <2> QED BY <1>1, <2>3, <2>4 DEF Final
<1>2. CASE Disconnect
  <2>1. /\ pc \in {"leave", "raise"} /\ Drop(now) /\ wait' = None /\ pc' = "judge" /\ todo' = 0
        /\ error' \in {TRUE, pc = "raise"}
        /\ UNCHANGED <<harness, now, budget, files, results>>
    BY <1>2 DEF Disconnect
  <2>2. PoolInv' BY <2>1, NowConn, DropStep
  <2> DEFINE t == files[now]
  <2>3. /\ t \in Contents /\ (Verdict(t) => t.by \in {0, now}) /\ ~error
        /\ files' = [files EXCEPT ![now] = t] /\ (pc = "leave" => Own(t))
    BY <1>0, <2>1 DEF LoopInv, LoopType, FilesOwn
  <2>4. (Own(t) /\ error' = error) \/ error' = TRUE
    <3>1. error = FALSE BY <2>3 DEF LoopInv, LoopType
    <3>2. CASE pc = "leave"
      <4>1. error' \in {TRUE, FALSE} BY <2>1, <3>2
      <4> QED BY <2>3, <3>1, <3>2, <4>1
    <3>3. CASE pc = "raise"
      <4>1. error' \in {TRUE} BY <2>1, <3>3
      <4> QED BY <4>1
    <3> QED BY <2>1, <3>2, <3>3
  <2> HIDE DEF t
  <2>5. LoopInv' BY <2>1, <2>3, <2>4, LoopFiles DEF Over
  <2> QED BY <2>1, <2>2, <2>5 DEF Waiting
<1> QED BY <1>1, <1>2

\* Together, the steps of the stepwise harness.
LEMMA StepwiseStep ==
  ASSUME IInv, Stepwise, UNCHANGED fileVars
  PROVE  IInv'
<1>1. LoopInv /\ FileInv /\ PoolInv /\ Waiting /\ harness = "stepwise"
  BY DEF IInv, Waiting, Stepwise
<1>2. LoopInv' /\ PoolInv' /\ Waiting' /\ harness' = harness
  <2>1. CASE CallTool \/ Connect \/ Setup BY <1>1, <2>1, SetupStep
  <2>2. CASE Begin \/ Answered BY <1>1, <2>2, StepwiseToolsStep
  <2>3. CASE Gate BY <1>1, <2>3, StepwiseGateStep
  <2>4. CASE Final \/ Disconnect BY <1>1, <2>4, FinalStep
  <2>5. CASE StepwiseRound
    <3>1. Round /\ UNCHANGED <<gym, current, call, lost, wait>>
      BY <2>5 DEF StepwiseRound, stepwiseVars, poolVars
    <3>2. PoolInv' BY <1>1, <3>1, PoolAlone
    <3> QED BY <1>1, <3>1, <3>2, RoundStep DEF Waiting, Round
  <2>6. CASE StepwiseRecord
    <3>1. Record /\ UNCHANGED <<gym, current, call, lost, wait>>
      BY <2>6 DEF StepwiseRecord, stepwiseVars, poolVars
    <3>2. PoolInv' BY <1>1, <3>1, PoolAlone
    <3> QED BY <1>1, <3>1, <3>2, LoopRecords DEF Waiting
  <2> QED BY <2>1, <2>2, <2>3, <2>4, <2>5, <2>6 DEF Stepwise
<1>3. FileInv' BY <1>1, <1>2, FilesApart DEF fileVars
<1> QED BY <1>2, <1>3 DEF IInv, Waiting

-----------------------------------------------------------------------------
(* The invariant, and what follows from it.                                *)

\* The initial states: nothing is open or held, and what is there is of an earlier run.
LEMMA InitInv == ASSUME Init PROVE IInv
<1>1. LoopInv
  <2>1. harness \in DOMAIN Repeats /\ LoopInit BY DEF Init
  <2>2. Repeats[harness] \in Nat \ {0} BY <2>1, LoopAssumption
  <2>3. now \in Attempts /\ Attempts \subseteq Nat BY <2>1, <2>2 DEF LoopInit, Attempts
  <2>4. ASSUME NEW a \in Attempts
        PROVE  files[a] \in Contents /\ files[a].by = 0 /\ results[a] = <<>>
    <3>1. files[a] \in Text(0) /\ results[a] = <<>> BY <2>1, LoopAssumption DEF LoopInit
    <3> QED BY <3>1, TextTypes
  <2>5. /\ files \in [Attempts -> Contents] /\ results = [a \in Attempts |-> <<>>]
        /\ results \in [Attempts -> Seq(Lines)]
    BY <2>1, <2>4 DEF LoopInit
  <2>6. LoopType BY <2>1, <2>3, <2>5 DEF LoopInit, LoopType, Unused
  <2>7. FilesOwn BY <2>1, <2>4 DEF FilesOwn, LoopInit
  <2>8. SolvedSound BY <2>5 DEF SolvedSound
  <2>9. OneResult
    <3>1. Once(<<>>) BY DEF Once
    <3> QED BY <2>1, <2>2, <2>3, <2>5, <3>1 DEF OneResult, LoopInit, Attempts
  <2>10. \A a \in Attempts : Recorded(a) BY <2>1, <2>2, <2>4 DEF Recorded, LoopInit, Attempts
  <2> QED BY <2>6, <2>7, <2>8, <2>9, <2>10 DEF LoopInv
<1>2. FileInv
  <2>1. Leftovers \subseteq Contents BY TextTypes, LoopAssumption
  <2> QED BY <2>1, TextTypes DEF Init, LoopInit, FileInit, FileInv, Iq
<1>3. PoolInv
  <2>1. /\ gym = [s \in Sessions |-> Closed] /\ current = [c \in Conns |-> None]
        /\ call = [k \in Slots |-> Free] /\ lost = {}
    BY DEF Init, StepwiseInit, PoolInit
  <2>2. Closed \in [open : BOOLEAN, theorem : Stated, proof : Proofs] /\ ~Closed.open
    BY DEF Closed, Proofs, Stated
  <2>3. \A s \in Sessions : HeldOnce(s)
    BY <2>1, <2>2, FreeType, PoolAssumption DEF HeldOnce
  <2> QED BY <2>1, <2>2, <2>3, FreeType DEF PoolInv
<1> QED BY <1>1, <1>2, <1>3 DEF IInv, Init, StepwiseInit

\* A step of the server, or of the gym server's reaper, leaves the harness alone.
LEMMA LoopAlone ==
  ASSUME LoopInv, FileInv, UNCHANGED <<fileVars, loopVars>>
  PROVE  LoopInv' /\ FileInv'
<1>1. UNCHANGED <<disk, copy, harness, now, pc, budget, todo, files, error, results>>
  BY DEF fileVars, loopVars
<1>2. /\ budget' \in [rounds : Nat, nudges : Nat, done : Nat] /\ todo' \in Nat
      /\ pc' \in {"tool", "tool_enter", "reseed"} => todo' > 0
  BY <1>1 DEF LoopInv, LoopType
<1>3. LoopInv' BY <1>1, <1>2, LoopGoesOn
<1>4. FileInv' BY <1>1 DEF FileInv, Iq, Edited, Own, Verdict
<1> QED BY <1>3, <1>4

\* Every step keeps the invariant.
LEMMA NextInv == ASSUME IInv, [Next]_vars PROVE IInv'
<1>1. LoopInv /\ FileInv /\ PoolInv /\ wait \in Slots \cup {None} BY DEF IInv
<1>2. CASE Stepwise /\ UNCHANGED fileVars BY <1>2, StepwiseStep
<1>3. CASE FileHarness /\ UNCHANGED stepwiseVars
  <2>1. UNCHANGED <<gym, current, call, lost, wait>> BY <1>3 DEF stepwiseVars, poolVars
  <2>2. PoolInv' BY <1>1, <2>1, PoolAlone
  <2> QED BY <1>1, <1>3, <2>1, <2>2, FileHarnessStep DEF IInv
<1>4. ASSUME NEW k \in Slots, Serve(k) PROVE IInv'
  <2>1. Handler(k) /\ UNCHANGED <<wait, fileVars, loopVars>> BY <1>4 DEF Serve
  <2> QED BY <1>1, <2>1, HandlerStep, LoopAlone DEF IInv
<1>5. ASSUME NEW s \in Sessions, Reap(s), UNCHANGED <<wait, fileVars, loopVars>> PROVE IInv'
  BY <1>1, <1>5, ReapStep, LoopAlone DEF IInv
<1>6. CASE UNCHANGED vars
  <2>1. UNCHANGED <<gym, current, call, lost, wait, fileVars, loopVars>>
    BY <1>6 DEF vars, stepwiseVars, poolVars
  <2>2. PoolInv' BY <1>1, <2>1, PoolAlone
  <2> QED BY <1>1, <2>1, <2>2, LoopAlone DEF IInv
<1> QED BY <1>2, <1>3, <1>4, <1>5, <1>6 DEF Next, Harness

\* The inductive invariant holds in every reachable state, for any number of attempts,
\* connections, handlers, sessions and batch items.
THEOREM ComparisonInvariant == Spec => []IInv
<1>1. Init => IInv BY InitInv
<1>2. IInv /\ [Next]_vars => IInv' BY NextInv
<1> QED BY <1>1, <1>2, PTL DEF Spec

\* The invariant's accounts, session by session, are the run's property: an open
\* session has exactly one owner, a closed one none.
LEMMA AccountsCounted == ASSUME IInv PROVE SessionsAccounted
<1> DEFINE T(s) == {<<"table", c>> : c \in {x \in Conns : current[x] = s}}
           H(s) == {<<"handler", k>> : k \in {x \in Slots : call[x].sess = s}}
           L(s) == {<<"lost", s>> : x \in lost \cap {s}}
           O(s) == T(s) \cup H(s) \cup L(s)
<1> SUFFICES ASSUME NEW s \in Sessions
             PROVE  IF gym[s].open THEN Cardinality(O(s)) = 1 ELSE O(s) = {}
  BY DEF SessionsAccounted
<1>1. HeldOnce(s) BY DEF IInv, PoolInv
<1>2. CASE ~gym[s].open
  <2>1. T(s) = {} /\ H(s) = {} /\ L(s) = {} BY <1>1, <1>2 DEF HeldOnce
  <2> QED BY <1>2, <2>1
<1>3. CASE s \in lost
  <2>1. T(s) = {} /\ H(s) = {} BY <1>1, <1>3 DEF HeldOnce
  <2>2. L(s) = {<<"lost", s>>} BY <1>3
  <2>3. O(s) = {<<"lost", s>>} BY <2>1, <2>2
  <2>4. gym[s].open BY <1>1, <1>3 DEF HeldOnce
  <2> QED BY <2>3, <2>4, FS_Singleton
<1>4. ASSUME NEW c \in Conns, current[c] = s
      PROVE  gym[s].open /\ Cardinality(O(s)) = 1
  <2>1. H(s) = {} /\ L(s) = {} BY <1>1, <1>4 DEF HeldOnce
  <2>2. {x \in Conns : current[x] = s} = {c} BY <1>1, <1>4 DEF HeldOnce
  <2>3. T(s) = {<<"table", c>>} BY <2>2
  <2>4. O(s) = {<<"table", c>>} BY <2>1, <2>3
  <2>5. gym[s].open BY <1>1, <1>4 DEF HeldOnce
  <2> QED BY <2>4, <2>5, FS_Singleton
<1>5. ASSUME NEW k \in Slots, call[k].sess = s
      PROVE  gym[s].open /\ Cardinality(O(s)) = 1
  <2>1. T(s) = {} /\ L(s) = {} BY <1>1, <1>5 DEF HeldOnce
  <2>2. {x \in Slots : call[x].sess = s} = {k} BY <1>1, <1>5 DEF HeldOnce
  <2>3. H(s) = {<<"handler", k>>} BY <2>2
  <2>4. O(s) = {<<"handler", k>>} BY <2>1, <2>3
  <2>5. gym[s].open BY <1>1, <1>5 DEF HeldOnce
  <2> QED BY <2>4, <2>5, FS_Singleton
<1>6. gym[s].open => \/ s \in lost \/ \E c \in Conns : current[c] = s
                     \/ \E k \in Slots : call[k].sess = s
  BY <1>1 DEF HeldOnce
<1> HIDE DEF O
<1> QED BY <1>2, <1>3, <1>4, <1>5, <1>6

\* Every open gym session of the stepwise server has exactly one party that will close
\* it, or was lost where the server has no way to know it or to try again; a closed one has
\* none.
THEOREM EverySessionHasOneOwner == Spec => []SessionsAccounted
<1>1. IInv => SessionsAccounted BY AccountsCounted
<1> QED BY <1>1, ComparisonInvariant, PTL

\* When the model is first asked, what it edits is the problem as posed.
THEOREM AttemptsStartFresh == Spec => []FreshStart
<1>1. IInv => FreshStart BY DEF IInv, FileInv, FreshStart, Unused
<1> QED BY <1>1, ComparisonInvariant, PTL

\* An attempt counted as solved was judged by a theory that has a theorem of the target's
\* name and no sorry, and by the one it wrote itself, or, if an exception ended it, by one
\* that an earlier run of the script left.
THEOREM SolvedMeansSolved == Spec => []SolvedSound
<1>1. IInv => SolvedSound BY DEF IInv, LoopInv
<1> QED BY <1>1, ComparisonInvariant, PTL

\* An attempt that is over has a line of results before the next one starts: one of its own,
\* one of main's, which is a failure, or the former followed by the latter.
THEOREM EveryAttemptOnce == Spec => []OneResult
<1>1. IInv => OneResult BY DEF IInv, LoopInv
<1> QED BY <1>1, ComparisonInvariant, PTL
=============================================================================
