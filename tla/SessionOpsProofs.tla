--------------------------- MODULE SessionOpsProofs ---------------------------
(***************************************************************************)
(* The operations of one session for any number of requests, theories and  *)
(* timeouts.                                                               *)
(***************************************************************************)
EXTENDS SessionOps, FiniteSetTheorems, SequenceTheorems, TLAPS

\* The worker takes the oldest job.
LEMMA TakeJob ==
  ASSUME NEW S, NEW s \in Seq(S), s # <<>>
  PROVE  /\ Head(s) = s[1] /\ 1 \in DOMAIN s /\ Head(s) \in S /\ Tail(s) \in Seq(S)
         /\ DOMAIN s = 1..Len(s) /\ DOMAIN Tail(s) = 1..(Len(s) - 1) /\ Len(s) \in Nat
         /\ \A k \in DOMAIN Tail(s) : k + 1 \in DOMAIN s /\ Tail(s)[k] = s[k + 1]
OBVIOUS

\* A call is put at the end of the queue.
LEMMA PutJob ==
  ASSUME NEW S, NEW s \in Seq(S), NEW e \in S
  PROVE  /\ Append(s, e) \in Seq(S) /\ DOMAIN s = 1..Len(s) /\ Len(s) \in Nat
         /\ DOMAIN Append(s, e) = DOMAIN s \cup {Len(s) + 1} /\ Len(s) + 1 \notin DOMAIN s
         /\ Append(s, e)[Len(s) + 1] = e /\ \A k \in DOMAIN s : Append(s, e)[k] = s[k]
OBVIOUS

\* A sequence that was appended to is not empty.
LEMMA PutSome == ASSUME NEW S, NEW s \in Seq(S), NEW e \in S PROVE Append(s, e) # <<>>
<1>1. Len(Append(s, e)) = Len(s) + 1 /\ Len(s) \in Nat
  BY AppendProperties
<1>2. Len(<<>>) = 0
  BY EmptySeq
<1>3. QED BY <1>1, <1>2

\* A sequence of one element only stays one when that element is appended.
LEMMA PutSame ==
  ASSUME NEW S, NEW s \in Seq(S), NEW e \in S, \A k \in DOMAIN s : s[k] = e
  PROVE  \A k \in DOMAIN Append(s, e) : Append(s, e)[k] = e
<1> DEFINE a == Append(s, e)
<1>1. /\ DOMAIN a = DOMAIN s \cup {Len(s) + 1} /\ a[Len(s) + 1] = e
      /\ \A k \in DOMAIN s : a[k] = s[k]
  BY PutJob
<1> HIDE DEF a
<1>2. \A k \in DOMAIN a : a[k] = e
  BY <1>1
<1>3. QED BY <1>2 DEF a

\* The job of a call is a job.
LEMMA JobType ==
  ASSUME NEW r \in Reqs, NEW c \in Requests
  PROVE  /\ Job(r, c) \in Jobs /\ Job(r, c).req = r /\ Job(r, c).stage = c.pc
         /\ Job(r, c).live = TRUE /\ Job(r, c).id = c.ck
         /\ Job(r, c).thy = IF c.pc = "reenter" THEN c.prev ELSE c.thy
BY DEF Job, Jobs, Requests

\* What a request looks like after a call of stage s.
LEMMA CallType ==
  ASSUME NEW q \in Requests, NEW s \in Stages
  PROVE  LET c == [q EXCEPT !.pc = s, !.ans = "none"]
         IN  /\ c \in Requests /\ c.pc = s /\ c.ans = "none" /\ c.op = q.op /\ c.thy = q.thy
             /\ c.ck = q.ck /\ c.prev = q.prev /\ c.base = q.base /\ c.alone = q.alone
             /\ c.cleared = q.cleared /\ c.ok = q.ok
BY DEF Requests

\* And after its `finally`.
LEMMA FreshType == Fresh \in Requests
<1>1. [t \in {} |-> <<>>] \in [{} -> Seq(Reqs)]
  OBVIOUS
<1>2. [t \in {} |-> <<>>] \in Texts
  BY <1>1 DEF Texts
<1>3. "none" \in DOMAIN First \cup {"none"} /\ "new" \in Stages
  BY DEF Stages
<1>4. QED BY <1>2, <1>3 DEF Fresh, Requests

-----------------------------------------------------------------------------
(* The shapes of a step of request r.                                      *)

\* The other requests: at most their claim to be alone is gone, and it is when the
\* theory that is entered was renamed.
Others(r) ==
  /\ rq' \in [Reqs -> Requests] /\ UNCHANGED backendVars
  /\ \A x \in Reqs \ {r} :
       /\ rq'[x].op = rq[x].op /\ rq'[x].pc = rq[x].pc /\ rq'[x].thy = rq[x].thy
       /\ rq'[x].ck = rq[x].ck /\ rq'[x].prev = rq[x].prev /\ rq'[x].ans = rq[x].ans
       /\ rq'[x].at = rq[x].at /\ rq'[x].ok = rq[x].ok /\ rq'[x].base = rq[x].base
       /\ rq'[x].cleared = rq[x].cleared /\ (rq'[x].alone => rq[x].alone)
       /\ entered_thy' = entered_thy \/ ~rq'[x].alone

\* A call of stage s.
Calls(r, s) ==
  /\ Others(r) /\ ~Waiting(r) /\ s \in Stages \ {"new", "done"}
  /\ rq'[r].pc = s /\ rq'[r].ans = "none" /\ rq'[r].alone = rq[r].alone
  /\ queue' = Append(queue, Job(r, rq'[r]))

\* The first call of an operation.
Opens(r, s) ==
  /\ Calls(r, s) /\ rq[r].pc = "new"
  /\ rq'[r].op \in DOMAIN First /\ s = First[rq'[r].op] /\ rq'[r].cleared = rq[r].cleared
  /\ rq'[r].op \in {"load", "enter", "big"} => rq'[r].thy \in Theories
  /\ IF rq'[r].op = "restore" THEN rq'[r].ck \in Nat ELSE rq'[r].ck = rq[r].ck
  /\ rq'[r].ok = rq[r].ok
  /\ active' = active + (IF rq'[r].op \in Uncounted THEN 0 ELSE 1)
  /\ entered_thy' = entered_thy \/ rq'[r].op = "enter"
  /\ UNCHANGED book

\* A later one.
Continues(r, s) ==
  /\ Calls(r, s) /\ Running(r) /\ s \notin {"reset", "name", "restore"}
  /\ rq'[r].op = rq[r].op /\ rq'[r].thy = rq[r].thy /\ rq'[r].prev = rq[r].prev
  /\ rq'[r].ck = rq[r].ck /\ rq'[r].base = rq[r].base /\ rq'[r].ok = rq[r].ok
  /\ s = "undo" => rq[r].ck \in Nat
  /\ s = "reenter" => rq[r].prev \in Theories
  /\ s = "enter" => rq[r].thy \in Theories
  /\ rq'[r].cleared = rq[r].cleared \/ (rq[r].pc = "reset" /\ rq[r].ans = "ok" /\ book' = {})
  /\ UNCHANGED active

LoadGoesOn(r, s) ==
  /\ rq[r].op = "load" /\ rq[r].ans = "ok"
  /\ <<rq[r].pc, s>> \in {<<"reset", "enter">>, <<"enter", "header">>, <<"enter", "text">>,
                          <<"header", "text">>}
  /\ entered_thy' = IF s = "enter" THEN rq[r].thy ELSE entered_thy

BigGoesOn(r, s) ==
  /\ rq[r].op = "big"
  /\ \/ /\ rq[r].ans = "ok" /\ UNCHANGED entered_thy
        /\ <<rq[r].pc, s>> \in {<<"name", "save">>, <<"enter", "header">>, <<"header", "body">>,
                                <<"header", "end">>, <<"body", "end">>}
     \/ rq[r].ans = "ok" /\ rq[r].pc = "save" /\ s = "enter" /\ entered_thy' = rq[r].thy
     \/ Fails(r) /\ rq[r].ck # None /\ s = "undo" /\ UNCHANGED entered_thy
     \/ /\ rq[r].pc = "undo" \/ (Fails(r) /\ rq[r].ck = None)
        /\ s = "reenter" /\ entered_thy' = rq[r].prev

GoesOn(r, s) == LoadGoesOn(r, s) \/ BigGoesOn(r, s) \/ rq[r].op \notin {"load", "big"}

\* The end of an operation that was counted in, if it was.
Ends(r) ==
  /\ Others(r) /\ ~Waiting(r) /\ Running(r) /\ queue' = queue
  /\ rq'[r].pc = "done" /\ rq'[r].op = rq[r].op /\ rq'[r].alone = rq[r].alone
  /\ rq[r].alone => /\ rq'[r].thy = rq[r].thy /\ rq'[r].prev = rq[r].prev
                    /\ rq'[r].base = rq[r].base
  /\ rq'[r].cleared = rq[r].cleared \/ (rq[r].pc = "reset" /\ rq[r].ans = "ok" /\ book' = {})
  /\ active' = IF rq[r].op \in Uncounted THEN active ELSE active - 1

\* A load succeeds with its text; a big step fails when it is refused, after it tried to
\* restore what it found, or when there is nothing to restore.
Outcome(r) ==
  /\ rq[r].op = "load" /\ rq'[r].ok => rq[r].pc = "text" /\ rq[r].ans = "ok" /\ UNCHANGED entered_thy
  /\ rq[r].op = "big" /\ ~rq'[r].ok =>
       \/ rq[r].pc = "name" /\ rq[r].ans = "ok"
       \/ /\ rq[r].pc = "undo" \/ (Fails(r) /\ rq[r].ck = None)
          /\ rq[r].prev \in {NoThy, entered_thy}
       \/ rq[r].pc = "reenter"
  /\ UNCHANGED entered_thy \/ rq[r].op = "load"

\* A request that is refused before its first call.
Refused(r) ==
  /\ Others(r) /\ queue' = queue /\ rq[r].pc = "new" /\ rq'[r].pc = "done"
  /\ rq'[r].op = "restore" /\ rq'[r].alone = rq[r].alone /\ rq'[r].cleared = rq[r].cleared
  /\ UNCHANGED <<active, book, entered_thy>>

Entries == [kind : {"command", "report", "checkpoint", "verified"}, id : Nat \cup {None},
            epoch : Nat, crossed : BOOLEAN]

\* What is written down is about the backend session of now, or says that it is not.
BookKept == /\ book' \subseteq Entries
            /\ \A e \in book' : e \in book \/ e.epoch = epoch \/ e.crossed

\* _call_backend.
LEMMA CallEffect ==
  ASSUME TypeOK, NEW r \in Reqs, NEW q \in Requests, NEW s \in Stages \ {"new", "done"},
         Call(r, q, s), ~Waiting(r), q.alone = rq[r].alone, UNCHANGED <<backendVars, entered_thy>>
  PROVE  /\ Calls(r, s)
         /\ rq'[r].op = q.op /\ rq'[r].thy = q.thy /\ rq'[r].prev = q.prev /\ rq'[r].ck = q.ck
         /\ rq'[r].base = q.base /\ rq'[r].cleared = q.cleared /\ rq'[r].ok = q.ok
<1> DEFINE c == [q EXCEPT !.pc = s, !.ans = "none"]
<1>1. rq' = [rq EXCEPT ![r] = c] /\ queue' = Append(queue, Job(r, c))
  BY DEF Call
<1>2. /\ c \in Requests /\ c.pc = s /\ c.ans = "none" /\ c.op = q.op /\ c.thy = q.thy
      /\ c.ck = q.ck /\ c.prev = q.prev /\ c.base = q.base /\ c.alone = q.alone
      /\ c.cleared = q.cleared /\ c.ok = q.ok
  BY CallType
<1> HIDE DEF c
<1>3. rq' \in [Reqs -> Requests] /\ rq'[r] = c /\ \A x \in Reqs \ {r} : rq'[x] = rq[x]
  BY <1>1, <1>2 DEF TypeOK
<1>4. Others(r)
  BY <1>3 DEF Others
<1>5. QED BY <1>1, <1>2, <1>3, <1>4 DEF Calls

\* enter_thy, which renames.
LEMMA EntersEffect ==
  ASSUME TypeOK, NEW r \in Reqs, NEW q \in Requests, NEW s \in Stages \ {"new", "done"}, NEW t,
         Enters(r, q, s, t), ~Waiting(r), q.alone = rq[r].alone, UNCHANGED backendVars
  PROVE  /\ Calls(r, s) /\ entered_thy' = t
         /\ rq'[r].op = q.op /\ rq'[r].thy = q.thy /\ rq'[r].prev = q.prev /\ rq'[r].ck = q.ck
         /\ rq'[r].base = q.base /\ rq'[r].cleared = q.cleared /\ rq'[r].ok = q.ok
<1> DEFINE c == [q EXCEPT !.pc = s, !.ans = "none"]
<1>1. /\ rq' = [x \in Reqs |-> IF x = r THEN c ELSE [rq[x] EXCEPT !.alone = FALSE]]
      /\ queue' = Append(queue, Job(r, c)) /\ entered_thy' = t
  BY DEF Enters, Renames
<1>2. /\ c \in Requests /\ c.pc = s /\ c.ans = "none" /\ c.op = q.op /\ c.thy = q.thy
      /\ c.ck = q.ck /\ c.prev = q.prev /\ c.base = q.base /\ c.alone = q.alone
      /\ c.cleared = q.cleared /\ c.ok = q.ok
  BY CallType
<1> HIDE DEF c
<1>3. rq'[r] = c /\ \A x \in Reqs \ {r} : rq'[x] = [rq[x] EXCEPT !.alone = FALSE]
  BY <1>1
<1>4. Others(r)
  <2>1. \A x \in Reqs : rq[x] \in Requests
    BY DEF TypeOK
  <2>2. ASSUME NEW x \in Reqs \ {r}
        PROVE  /\ rq'[x].op = rq[x].op /\ rq'[x].pc = rq[x].pc /\ rq'[x].thy = rq[x].thy
               /\ rq'[x].ck = rq[x].ck /\ rq'[x].prev = rq[x].prev /\ rq'[x].ans = rq[x].ans
               /\ rq'[x].at = rq[x].at /\ rq'[x].ok = rq[x].ok /\ rq'[x].base = rq[x].base
               /\ rq'[x].cleared = rq[x].cleared /\ rq'[x].alone = FALSE /\ rq'[x] \in Requests
    <3>1. rq[x] \in Requests /\ rq'[x] = [rq[x] EXCEPT !.alone = FALSE]
      BY <1>3, <2>1
    <3>2. rq'[x] \in Requests /\ rq'[x].alone = FALSE
      BY <3>1 DEF Requests
    <3>3. QED BY <3>1, <3>2 DEF Requests
  <2>3. rq' \in [Reqs -> Requests]
    BY <1>1, <1>2, <1>3, <2>2
  <2>4. QED BY <2>2, <2>3 DEF Others
<1>5. QED BY <1>1, <1>2, <1>3, <1>4 DEF Calls

\* The end of an operation.
LEMMA FinishEffect ==
  ASSUME TypeOK, NEW r \in Reqs, NEW ok \in BOOLEAN, Finish(r, rq[r], ok), ~Waiting(r), Running(r),
         UNCHANGED <<backendVars, queue, entered_thy>>
  PROVE  Ends(r) /\ rq'[r].ok = ok
<1> DEFINE q == rq[r]
           f == [q EXCEPT !.pc = "done", !.ok = ok, !.ans = "none", !.at = 0, !.ck = None]
           g == [Fresh EXCEPT !.pc = "done", !.op = q.op, !.ok = ok, !.cleared = q.cleared]
<1>1. q \in Requests /\ "done" \in Stages
  BY DEF TypeOK, Stages
<1>2. /\ f \in Requests /\ f.pc = "done" /\ f.op = q.op /\ f.ok = ok /\ f.cleared = q.cleared
      /\ f.thy = q.thy /\ f.prev = q.prev /\ f.base = q.base /\ f.alone = q.alone
  BY <1>1 DEF Requests
<1>3. /\ g \in Requests /\ g.pc = "done" /\ g.op = q.op /\ g.ok = ok /\ g.cleared = q.cleared
      /\ g.alone = FALSE
  <2>1. Fresh.alone = FALSE
    BY DEF Fresh
  <2>2. QED BY <1>1, <2>1, FreshType DEF Requests
<1>4. /\ rq' = [rq EXCEPT ![r] = IF q.alone THEN f ELSE g]
      /\ active' = IF q.op \in Uncounted THEN active ELSE active - 1
  BY DEF Finish
<1>5. q.alone \in BOOLEAN
  BY <1>1 DEF Requests
<1> HIDE DEF q, f, g
<1>6. /\ rq' \in [Reqs -> Requests] /\ rq'[r] = IF q.alone THEN f ELSE g
      /\ \A x \in Reqs \ {r} : rq'[x] = rq[x]
  BY <1>2, <1>3, <1>4 DEF TypeOK
<1>7. Others(r)
  BY <1>6 DEF Others
<1>8. QED BY <1>2, <1>3, <1>4, <1>5, <1>6, <1>7 DEF Ends, q

\* The first calls.
LEMMA BeginShape ==
  ASSUME TypeOK, InOrder, NEW r \in Reqs, Begin(r) \/ BeginEnter(r) \/ BeginRestore(r)
  PROVE  (\E s \in Stages : Opens(r, s)) \/ Refused(r)
<1>1. rq[r] \in Requests
  BY DEF TypeOK
<1>2. ASSUME NEW o \in DOMAIN First PROVE First[o] \in Stages \ {"new", "done"}
  BY DEF First, Stages
<1>3. ~Waiting(r) /\ rq[r].pc = "new"
  BY DEF Waiting, Running, Begin, BeginEnter, BeginRestore
<1>4. CASE Begin(r)
  <2>1. PICK o \in Open(r) \ {"restore", "enter"}, t \in Theories \cup {NoThy} :
          /\ (o \in {"load", "big"}) = (t # NoThy)
          /\ Call(r, [rq[r] EXCEPT !.op = o, !.thy = t], First[o])
          /\ active' = active + IF o \in Uncounted THEN 0 ELSE 1
    BY <1>4 DEF Begin
  <2>2. o \in DOMAIN First
    BY OpsAssumption DEF Open, First
  <2> DEFINE q == [rq[r] EXCEPT !.op = o, !.thy = t]
  <2>3. /\ q \in Requests /\ q.op = o /\ q.thy = t /\ q.alone = rq[r].alone
        /\ q.cleared = rq[r].cleared /\ q.ok = rq[r].ok /\ q.ck = rq[r].ck
    BY <1>1, <2>2 DEF Requests
  <2> HIDE DEF q
  <2>4. /\ Calls(r, First[o]) /\ rq'[r].op = o /\ rq'[r].thy = t
        /\ rq'[r].cleared = rq[r].cleared /\ rq'[r].ok = rq[r].ok /\ rq'[r].ck = rq[r].ck
    BY <1>2, <1>3, <1>4, <2>1, <2>2, <2>3, CallEffect DEF Begin, q
  <2>5. Opens(r, First[o])
    BY <1>3, <1>4, <2>1, <2>2, <2>4 DEF Opens, Begin
  <2>6. QED BY <1>2, <2>2, <2>5
<1>5. CASE BeginEnter(r)
  <2>1. PICK t \in Theories : Enters(r, [rq[r] EXCEPT !.op = "enter", !.thy = t], "enter", t)
    BY <1>5 DEF BeginEnter
  <2> DEFINE q == [rq[r] EXCEPT !.op = "enter", !.thy = t]
  <2>2. "enter" \in DOMAIN First /\ First["enter"] = "enter" /\ "enter" \in Stages \ {"new", "done"}
    BY DEF First, Stages
  <2>3. /\ q \in Requests /\ q.op = "enter" /\ q.thy = t /\ q.alone = rq[r].alone
        /\ q.cleared = rq[r].cleared /\ q.ok = rq[r].ok /\ q.ck = rq[r].ck
    BY <1>1, <2>2 DEF Requests
  <2> HIDE DEF q
  <2>4. /\ Calls(r, "enter") /\ rq'[r].op = "enter" /\ rq'[r].thy = t
        /\ rq'[r].cleared = rq[r].cleared /\ rq'[r].ok = rq[r].ok /\ rq'[r].ck = rq[r].ck
    BY <1>3, <1>5, <2>1, <2>2, <2>3, EntersEffect DEF BeginEnter, q
  <2>5. active' = active + 0 /\ book' = book
    <3>1. active' = active /\ book' = book
      BY <1>5 DEF BeginEnter
    <3>2. active \in Nat
      BY DEF TypeOK
    <3>3. QED BY <3>1, <3>2
  <2>6. Opens(r, "enter")
    BY <1>3, <2>1, <2>2, <2>4, <2>5 DEF Opens, Uncounted
  <2>7. QED BY <2>2, <2>6
<1>6. CASE BeginRestore(r)
  <2>1. PICK i \in Ids :
          LET q == [rq[r] EXCEPT !.op = "restore", !.ck = i] IN
          \/ Call(r, q, "restore") /\ active' = active + 1
          \/ /\ rq' = [rq EXCEPT ![r] = [q EXCEPT !.pc = "done"]]
             /\ UNCHANGED <<active, queue>>
    BY <1>6 DEF BeginRestore
  <2> DEFINE q == [rq[r] EXCEPT !.op = "restore", !.ck = i]
  <2>2. /\ "restore" \in DOMAIN First /\ First["restore"] = "restore"
        /\ "restore" \in Stages \ {"new", "done"} /\ "done" \in Stages /\ i \in Nat
    BY OpsAssumption DEF First, Stages, Ids
  <2>3. /\ q \in Requests /\ q.op = "restore" /\ q.ck = i /\ q.alone = rq[r].alone
        /\ q.cleared = rq[r].cleared /\ q.ok = rq[r].ok
    BY <1>1, <2>2 DEF Requests
  <2> DEFINE d == [q EXCEPT !.pc = "done"]
  <2>4. /\ d \in Requests /\ d.op = "restore" /\ d.alone = rq[r].alone /\ d.pc = "done"
        /\ d.cleared = rq[r].cleared
    BY <2>2, <2>3 DEF Requests
  <2>5. CASE Call(r, q, "restore") /\ active' = active + 1
    <3> HIDE DEF q
    <3>1. /\ Calls(r, "restore") /\ rq'[r].op = "restore" /\ rq'[r].ck = i
          /\ rq'[r].cleared = rq[r].cleared /\ rq'[r].ok = rq[r].ok
      BY <1>3, <1>6, <2>2, <2>3, <2>5, CallEffect DEF BeginRestore
    <3>2. Opens(r, "restore")
      BY <1>3, <1>6, <2>2, <2>5, <3>1 DEF Opens, BeginRestore, Uncounted
    <3>3. QED BY <2>2, <3>2
  <2>6. CASE rq' = [rq EXCEPT ![r] = d] /\ UNCHANGED <<active, queue>>
    <3> HIDE DEF d
    <3>1. rq' \in [Reqs -> Requests] /\ rq'[r] = d /\ \A x \in Reqs \ {r} : rq'[x] = rq[x]
      BY <2>4, <2>6 DEF TypeOK
    <3>2. Others(r)
      BY <1>6, <3>1 DEF Others, BeginRestore
    <3>3. QED BY <1>3, <1>6, <2>4, <2>6, <3>1, <3>2 DEF Refused, BeginRestore
  <2>7. QED BY <2>1, <2>5, <2>6
<1>7. QED BY <1>4, <1>5, <1>6

\* load_document goes on after its reset, or stops there.
LEMMA LoadClearedShape ==
  ASSUME TypeOK, InOrder, NEW r \in Reqs, LoadCleared(r)
  PROVE  /\ (Continues(r, "enter") /\ LoadGoesOn(r, "enter")) \/ (Ends(r) /\ Outcome(r))
         /\ BookKept
<1> DEFINE q == [rq[r] EXCEPT !.cleared = TRUE]
<1>1. /\ rq[r] \in Requests /\ rq[r].op = "load" /\ rq[r].pc = "reset" /\ rq[r].ans = "ok"
      /\ book' = {} /\ ~rq[r].ok
  BY DEF TypeOK, InOrder, LoadCleared, Has, Cleared
<1>2. Running(r) /\ ~Waiting(r) /\ rq[r].thy \in Theories
  BY <1>1 DEF Running, Waiting, TypeOK
<1>3. /\ q \in Requests /\ q.op = "load" /\ q.thy = rq[r].thy /\ q.alone = rq[r].alone
      /\ q.ok = rq[r].ok /\ q.ck = rq[r].ck /\ q.prev = rq[r].prev /\ q.base = rq[r].base
  BY <1>1 DEF Requests
<1>4. "enter" \in Stages \ {"new", "done"} /\ "done" \in Stages
  BY DEF Stages
<1>5. CASE Enters(r, q, "enter", q.thy) /\ UNCHANGED active
  <2> HIDE DEF q
  <2>1. /\ Calls(r, "enter") /\ entered_thy' = q.thy
        /\ rq'[r].op = q.op /\ rq'[r].thy = q.thy /\ rq'[r].prev = q.prev /\ rq'[r].ck = q.ck
        /\ rq'[r].base = q.base /\ rq'[r].ok = q.ok
    BY <1>2, <1>3, <1>4, <1>5, EntersEffect DEF LoadCleared
  <2>2. Continues(r, "enter") /\ LoadGoesOn(r, "enter")
    BY <1>1, <1>2, <1>3, <1>5, <2>1 DEF Continues, LoadGoesOn
  <2>3. QED BY <1>1, <2>2 DEF BookKept
<1>6. CASE Renames(r, [q EXCEPT !.pc = "done"], NoThy) /\ active' = active - 1 /\ UNCHANGED queue
  <2> DEFINE d == [q EXCEPT !.pc = "done"]
  <2>1. /\ d \in Requests /\ d.pc = "done" /\ d.op = "load" /\ d.alone = rq[r].alone
        /\ d.thy = rq[r].thy /\ d.prev = rq[r].prev /\ d.base = rq[r].base /\ d.ok = rq[r].ok
    BY <1>3, <1>4 DEF Requests
  <2>2. rq' = [x \in Reqs |-> IF x = r THEN d ELSE [rq[x] EXCEPT !.alone = FALSE]]
    BY <1>6 DEF Renames
  <2> HIDE DEF d, q
  <2>3. rq'[r] = d /\ \A x \in Reqs \ {r} : rq'[x] = [rq[x] EXCEPT !.alone = FALSE]
    BY <2>2
  <2>4. ASSUME NEW x \in Reqs \ {r}
        PROVE  /\ rq'[x].op = rq[x].op /\ rq'[x].pc = rq[x].pc /\ rq'[x].thy = rq[x].thy
               /\ rq'[x].ck = rq[x].ck /\ rq'[x].prev = rq[x].prev /\ rq'[x].ans = rq[x].ans
               /\ rq'[x].at = rq[x].at /\ rq'[x].ok = rq[x].ok /\ rq'[x].base = rq[x].base
               /\ rq'[x].cleared = rq[x].cleared /\ rq'[x].alone = FALSE /\ rq'[x] \in Requests
    <3>1. rq[x] \in Requests /\ rq'[x] = [rq[x] EXCEPT !.alone = FALSE]
      BY <2>3 DEF TypeOK
    <3>2. rq'[x] \in Requests /\ rq'[x].alone = FALSE
      BY <3>1 DEF Requests
    <3>3. QED BY <3>1, <3>2 DEF Requests
  <2>5. rq' \in [Reqs -> Requests]
    BY <2>1, <2>2, <2>3, <2>4
  <2>6. Others(r)
    BY <2>4, <2>5 DEF Others, LoadCleared
  <2>7. Ends(r) /\ Outcome(r)
    BY <1>1, <1>2, <1>6, <2>1, <2>3, <2>6 DEF Ends, Outcome, Uncounted
  <2>8. QED BY <1>1, <2>7 DEF BookKept
<1>7. QED BY <1>5, <1>6 DEF LoadCleared

\* The flow of an operation.
LEMMA AdvanceShape ==
  ASSUME TypeOK, InOrder, NEW r \in Reqs, Advance(r)
  PROVE  (\E s \in Stages : Continues(r, s) /\ GoesOn(r, s)) /\ BookKept
<1>1. PICK s \in Stages : <<rq[r].op, rq[r].pc, s>> \in Flow /\ Call(r, rq[r], s)
  BY DEF Advance
<1>2. rq[r] \in Requests /\ rq[r].ans \in {"ok", "failed"}
  BY DEF TypeOK, Advance, Has
<1>3. /\ s \notin {"new", "done", "reset", "name", "restore", "undo", "reenter", "enter"}
      /\ rq[r].pc \notin {"new", "done"}
  BY <1>1 DEF Flow
<1>4. Running(r) /\ ~Waiting(r)
  BY <1>2, <1>3 DEF Running, Waiting
<1>5. /\ Calls(r, s)
      /\ rq'[r].op = rq[r].op /\ rq'[r].thy = rq[r].thy /\ rq'[r].prev = rq[r].prev
      /\ rq'[r].ck = rq[r].ck /\ rq'[r].base = rq[r].base /\ rq'[r].cleared = rq[r].cleared
      /\ rq'[r].ok = rq[r].ok
  BY <1>1, <1>2, <1>3, <1>4, CallEffect DEF Advance
<1>6. Continues(r, s)
  BY <1>3, <1>4, <1>5 DEF Continues, Advance
<1>7. rq[r].op = "load" => LoadGoesOn(r, s)
  <2>1. CASE rq[r].op = "load"
    <3>1. rq[r].ans = "ok"
      BY <2>1 DEF Advance, Has
    <3>2. QED BY <1>1, <1>3, <2>1, <3>1 DEF Flow, LoadGoesOn, Advance
  <2>2. QED BY <2>1
<1>8. rq[r].op = "big" => BigGoesOn(r, s)
  <2>1. CASE rq[r].op = "big"
    <3>1. rq[r].ans = "ok"
      BY <2>1 DEF Advance, Has
    <3>2. QED BY <1>1, <1>3, <2>1, <3>1 DEF Flow, BigGoesOn, Advance
  <2>2. QED BY <2>1
<1>9. BookKept
  BY DEF BookKept, Advance, TypeOK, Entries
<1>10. QED BY <1>6, <1>7, <1>8, <1>9 DEF GoesOn

\* Entries say which backend session they come from.
LEMMA NotedKept ==
  ASSUME TypeOK, NEW r \in Reqs, NEW kinds \in SUBSET {"command", "report", "checkpoint", "verified"},
         book' = Noted(r, kinds)
  PROVE  BookKept
<1>1. ASSUME NEW k \in kinds PROVE Entry(r, k) \in Entries /\ (Entry(r, k).epoch = epoch \/ Entry(r, k).crossed)
  <2> DEFINE x == (rq[r].at # epoch)
  <2>1. x \in BOOLEAN
    BY Zenon
  <2>2. rq[r].ck \in Nat \cup {None} /\ rq[r].at \in Nat
    BY DEF TypeOK, Requests
  <2>3. Entry(r, k) = [kind |-> k, id |-> IF k = "checkpoint" THEN rq[r].ck ELSE None,
                       epoch |-> rq[r].at, crossed |-> x]
    BY DEF Entry
  <2>4. rq[r].at = epoch \/ x
    OBVIOUS
  <2> HIDE DEF x
  <2>5. QED BY <2>1, <2>2, <2>3, <2>4 DEF Entries
<1>2. book \subseteq Entries
  BY DEF TypeOK, Entries
<1>3. \A e \in book' : e \in book \/ \E k \in kinds : e = Entry(r, k)
  BY DEF Noted
<1>4. QED BY <1>1, <1>2, <1>3 DEF BookKept

\* The returns.
LEMMA ReturnShape ==
  ASSUME TypeOK, InOrder, NEW r \in Reqs, Return(r)
  PROVE  Ends(r) /\ Outcome(r) /\ BookKept
<1>1. UNCHANGED <<backendVars, queue, entered_thy>>
  BY DEF Return
<1>2. ASSUME NEW ok \in BOOLEAN, Finish(r, rq[r], ok), rq[r].pc \notin {"new", "done"},
             rq[r].ans # "none",
             rq[r].op = "load" /\ ok => rq[r].pc = "text" /\ rq[r].ans = "ok",
             rq[r].op = "big" => ok
      PROVE  Ends(r) /\ Outcome(r)
  <2>1. Running(r) /\ ~Waiting(r)
    BY <1>2 DEF Running, Waiting
  <2>2. Ends(r) /\ rq'[r].ok = ok
    BY <1>1, <1>2, <2>1, FinishEffect
  <2>3. QED BY <1>1, <1>2, <2>2 DEF Outcome
<1>3. book' = book => BookKept
  BY DEF BookKept, TypeOK, Entries
<1>4. CASE LoadReturns(r)
  <2>1. rq[r].op = "load" /\ rq[r].pc = "text" /\ rq[r].ans \in {"ok", "failed"}
    BY <1>4 DEF LoadReturns, Has
  <2>2. (rq[r].ans = "ok") \in BOOLEAN
    BY Zenon
  <2>3. Ends(r) /\ Outcome(r)
    BY <1>2, <1>4, <2>1, <2>2 DEF LoadReturns
  <2>4. QED BY <1>4, <2>3, NotedKept DEF LoadReturns
<1>5. CASE ExecReturns(r)
  <2>1. rq[r].op = "exec" /\ rq[r].pc \in {"step", "probe"} /\ rq[r].ans \in {"ok", "failed", "timeout"}
    BY <1>5 DEF ExecReturns, Has
  <2>2. Ends(r) /\ Outcome(r)
    BY <1>2, <1>5, <2>1 DEF ExecReturns
  <2>3. QED BY <1>5, <2>2, NotedKept DEF ExecReturns
<1>6. CASE VerifyReturns(r)
  <2>1. rq[r].op = "verify" /\ rq[r].pc = "verify" /\ rq[r].ans \in {"ok", "failed"}
    BY <1>6 DEF VerifyReturns, Has
  <2>2. (rq[r].ans = "ok") \in BOOLEAN
    BY Zenon
  <2>3. Ends(r) /\ Outcome(r)
    BY <1>2, <1>6, <2>1, <2>2 DEF VerifyReturns
  <2>4. QED BY <1>6, <2>3, NotedKept DEF VerifyReturns
<1>7. CASE SaveReturns(r)
  <2>1. rq[r].op = "save" /\ rq[r].pc = "save" /\ rq[r].ans = "ok"
    BY <1>7 DEF SaveReturns, Has
  <2>2. Ends(r) /\ Outcome(r)
    BY <1>2, <1>7, <2>1 DEF SaveReturns
  <2>3. QED BY <1>7, <2>2, NotedKept DEF SaveReturns
<1>8. CASE RestoreReturns(r) \/ QueryReturns(r) \/ RollbackReturns(r) \/ EnterReturns(r)
  <2>1. /\ rq[r].op \in {"restore", "query", "rollback", "enter"} /\ rq[r].ans = "ok"
        /\ rq[r].pc \in {"restore", "probe", "rollback", "enter", "header"}
        /\ book' = book /\ Finish(r, rq[r], TRUE)
    BY <1>8 DEF RestoreReturns, QueryReturns, RollbackReturns, EnterReturns, Has
  <2>2. QED BY <1>2, <1>3, <2>1
<1>9. CASE BigReturns(r)
  <2>1. rq[r].op = "big" /\ rq[r].pc = "end" /\ rq[r].ans = "ok"
    BY <1>9 DEF BigReturns, Has
  <2>2. Ends(r) /\ Outcome(r)
    BY <1>2, <1>9, <2>1 DEF BigReturns
  <2>3. QED BY <1>9, <2>2, NotedKept DEF BigReturns
<1>10. QED BY <1>4, <1>5, <1>6, <1>7, <1>8, <1>9 DEF Return

\* An exception, and the ways a big step ends without its return.
LEMMA RaiseShape ==
  ASSUME TypeOK, InOrder, NEW r \in Reqs, Raise(r) \/ BigRefused(r) \/ BigGivesUp(r)
  PROVE  Ends(r) /\ Outcome(r) /\ BookKept
<1>1. /\ UNCHANGED <<backendVars, queue, entered_thy, book>> /\ Finish(r, rq[r], FALSE)
      /\ rq[r].ans # "none" /\ rq[r].pc # "done"
      /\ rq[r].op = "big" => rq[r].pc = "reenter" \/ (rq[r].pc = "name" /\ rq[r].ans = "ok")
  BY DEF Raise, BigRefused, BigGivesUp, Has
<1>2. rq[r].pc # "new"
  BY DEF Raise, BigRefused, BigGivesUp, Has, InOrder
<1>3. Running(r) /\ ~Waiting(r)
  BY <1>1, <1>2 DEF Running, Waiting
<1>4. Ends(r) /\ rq'[r].ok = FALSE
  BY <1>1, <1>3, FinishEffect
<1>5. Outcome(r)
  BY <1>1, <1>4 DEF Outcome
<1>6. BookKept
  BY <1>1 DEF BookKept, TypeOK, Entries
<1>7. QED BY <1>4, <1>5, <1>6

\* The second half of _restore_big_step_state.
LEMMA ReenterShape ==
  ASSUME TypeOK, NEW r \in Reqs, Reenter(r), UNCHANGED backendVars, Running(r), ~Waiting(r),
         rq[r].op = "big", rq[r].pc = "undo" \/ (Fails(r) /\ rq[r].ck = None)
  PROVE  (Continues(r, "reenter") /\ GoesOn(r, "reenter")) \/ (Ends(r) /\ Outcome(r))
<1>1. rq[r] \in Requests /\ rq[r].prev \in Theories \cup {NoThy}
  BY DEF TypeOK, Requests
<1>2. "reenter" \in Stages \ {"new", "done"}
  BY DEF Stages
<1>3. CASE /\ rq[r].prev # NoThy /\ Enters(r, rq[r], "reenter", rq[r].prev) /\ UNCHANGED active
  <2>1. /\ Calls(r, "reenter") /\ entered_thy' = rq[r].prev
        /\ rq'[r].op = rq[r].op /\ rq'[r].thy = rq[r].thy /\ rq'[r].prev = rq[r].prev
        /\ rq'[r].ck = rq[r].ck /\ rq'[r].base = rq[r].base /\ rq'[r].cleared = rq[r].cleared
        /\ rq'[r].ok = rq[r].ok
    BY <1>1, <1>2, <1>3, EntersEffect
  <2>2. Continues(r, "reenter")
    BY <1>1, <1>3, <2>1 DEF Continues
  <2>3. QED BY <2>1, <2>2 DEF GoesOn, BigGoesOn
<1>4. CASE /\ rq[r].prev = NoThy \/ rq[r].prev = entered_thy
           /\ Finish(r, rq[r], FALSE) /\ UNCHANGED <<queue, entered_thy>>
  <2>1. Ends(r) /\ rq'[r].ok = FALSE
    BY <1>4, FinishEffect
  <2>2. QED BY <1>4, <2>1 DEF Outcome
<1>5. QED BY <1>3, <1>4 DEF Reenter

\* The calls of a big step out of the flow.
LEMMA BigShape ==
  ASSUME TypeOK, InOrder, NEW r \in Reqs, BigEnter(r) \/ BigFails(r) \/ BigUndone(r)
  PROVE  /\ (\E s \in Stages : Continues(r, s) /\ GoesOn(r, s)) \/ (Ends(r) /\ Outcome(r))
         /\ BookKept
<1>1. rq[r] \in Requests /\ rq[r].ck \in Nat \cup {None}
  BY DEF TypeOK, Requests
<1>2. {"enter", "undo", "reenter"} \subseteq Stages \ {"new", "done"}
  BY DEF Stages
<1>3. /\ rq[r].op = "big" /\ rq[r].ans # "none" /\ rq[r].pc \notin {"new", "done"}
      /\ UNCHANGED <<backendVars, book>>
  BY DEF BigEnter, BigFails, BigUndone, Fails, Has
<1>4. Running(r) /\ ~Waiting(r)
  BY <1>3 DEF Running, Waiting
<1>5. rq[r].thy \in Theories
  BY <1>3, <1>4 DEF TypeOK
<1>6. BookKept
  BY <1>3 DEF BookKept, TypeOK, Entries
<1>7. CASE BigEnter(r)
  <2>1. /\ Calls(r, "enter") /\ entered_thy' = rq[r].thy
        /\ rq'[r].op = rq[r].op /\ rq'[r].thy = rq[r].thy /\ rq'[r].prev = rq[r].prev
        /\ rq'[r].ck = rq[r].ck /\ rq'[r].base = rq[r].base /\ rq'[r].cleared = rq[r].cleared
        /\ rq'[r].ok = rq[r].ok
    BY <1>1, <1>2, <1>4, <1>7, EntersEffect DEF BigEnter
  <2>2. Continues(r, "enter")
    BY <1>4, <1>5, <1>7, <2>1 DEF Continues, BigEnter
  <2>3. GoesOn(r, "enter")
    BY <1>3, <1>7, <2>1 DEF GoesOn, BigGoesOn, BigEnter, Has
  <2>4. QED BY <1>2, <1>6, <2>2, <2>3
<1>8. CASE Fails(r) /\ rq[r].ck # None /\ Call(r, rq[r], "undo") /\ UNCHANGED <<active, entered_thy>>
  <2>1. /\ Calls(r, "undo")
        /\ rq'[r].op = rq[r].op /\ rq'[r].thy = rq[r].thy /\ rq'[r].prev = rq[r].prev
        /\ rq'[r].ck = rq[r].ck /\ rq'[r].base = rq[r].base /\ rq'[r].cleared = rq[r].cleared
        /\ rq'[r].ok = rq[r].ok
    BY <1>1, <1>2, <1>3, <1>4, <1>8, CallEffect
  <2>2. Continues(r, "undo")
    BY <1>1, <1>4, <1>8, <2>1 DEF Continues
  <2>3. GoesOn(r, "undo")
    BY <1>3, <1>8 DEF GoesOn, BigGoesOn
  <2>4. QED BY <1>2, <1>6, <2>2, <2>3
<1>9. CASE ((Fails(r) /\ rq[r].ck = None) \/ BigUndone(r)) /\ Reenter(r)
  <2>1. rq[r].pc = "undo" \/ (Fails(r) /\ rq[r].ck = None)
    BY <1>9 DEF BigUndone, Has
  <2>2. (Continues(r, "reenter") /\ GoesOn(r, "reenter")) \/ (Ends(r) /\ Outcome(r))
    BY <1>3, <1>4, <1>9, <2>1, ReenterShape
  <2>3. QED BY <1>2, <1>6, <2>2
<1>10. QED BY <1>7, <1>8, <1>9 DEF BigFails, BigUndone

\* So a step of request r is one of these.
LEMMA StepShape ==
  ASSUME TypeOK, InOrder, NEW r \in Reqs, Step(r)
  PROVE  /\ \/ Refused(r) \/ (Ends(r) /\ Outcome(r))
            \/ \E s \in Stages : Opens(r, s) \/ (Continues(r, s) /\ GoesOn(r, s))
         /\ BookKept
<1>1. CASE Begin(r) \/ BeginEnter(r) \/ BeginRestore(r)
  <2>1. BookKept
    BY <1>1 DEF Begin, BeginEnter, BeginRestore, BookKept, TypeOK, Entries
  <2>2. QED BY <1>1, <2>1, BeginShape
<1>2. CASE LoadCleared(r)
  BY <1>2, LoadClearedShape DEF GoesOn, Continues, Calls
<1>3. CASE Advance(r)
  BY <1>3, AdvanceShape
<1>4. CASE Return(r)
  BY <1>4, ReturnShape
<1>5. CASE Raise(r) \/ BigRefused(r) \/ BigGivesUp(r)
  BY <1>5, RaiseShape
<1>6. CASE BigEnter(r) \/ BigFails(r) \/ BigUndone(r)
  BY <1>6, BigShape
<1>7. QED BY <1>1, <1>2, <1>3, <1>4, <1>5, <1>6 DEF Step

-----------------------------------------------------------------------------
(* The invariant of the calls, under the steps of a request.               *)

\* The theory that is entered.
LEMMA EnteredType ==
  ASSUME TypeOK, NEW r \in Reqs, Step(r)
  PROVE  entered_thy' \in Theories \cup {NoThy}
<1>1. rq[r] \in Requests /\ entered_thy \in Theories \cup {NoThy}
  BY DEF TypeOK
<1>2. rq[r].thy \in Theories \cup {NoThy} /\ rq[r].prev \in Theories \cup {NoThy}
  BY <1>1 DEF Requests
<1>3. CASE LoadCleared(r)
  <2>1. [rq[r] EXCEPT !.cleared = TRUE].thy = rq[r].thy
    BY <1>1 DEF Requests
  <2>2. QED BY <1>2, <1>3, <2>1 DEF LoadCleared, Enters, Renames
<1>4. CASE BeginEnter(r)
  BY <1>4 DEF BeginEnter, Enters, Renames
<1>5. CASE BigEnter(r)
  BY <1>2, <1>5 DEF BigEnter, Enters, Renames
<1>6. CASE BigFails(r) \/ BigUndone(r)
  BY <1>1, <1>2, <1>6 DEF BigFails, BigUndone, Reenter, Enters, Renames
<1>7. CASE \/ Begin(r) \/ BeginRestore(r) \/ Advance(r) \/ Return(r) \/ Raise(r)
           \/ BigRefused(r) \/ BigGivesUp(r)
  BY <1>1, <1>7 DEF Begin, BeginRestore, Advance, Return, Raise, BigRefused, BigGivesUp
<1>8. QED BY <1>3, <1>4, <1>5, <1>6, <1>7 DEF Step

\* The requests that are counted in are finitely many.
LEMMA CountedFinite == IsFiniteSet(CountedIn)
BY OpsAssumption, FS_Subset DEF CountedIn

\* The count under a step.
LEMMA CountStep ==
  ASSUME TypeOK, Counted, NEW r \in Reqs,
         Refused(r) \/ Ends(r) \/ \E s \in Stages : Opens(r, s) \/ Continues(r, s)
  PROVE  Counted' /\ active' \in Nat
<1>1. /\ \A x \in Reqs \ {r} : rq'[x].pc = rq[x].pc /\ rq'[x].op = rq[x].op
  BY DEF Refused, Ends, Opens, Continues, Calls, Others
<1>2. active = Cardinality(CountedIn) /\ active \in Nat /\ IsFiniteSet(CountedIn)
  BY CountedFinite DEF Counted, TypeOK
<1>3. CASE Refused(r) \/ \E s \in Stages : Continues(r, s)
  <2>1. CountedIn' = CountedIn
    BY <1>1, <1>3 DEF CountedIn, Running, Refused, Continues, Calls
  <2>2. QED BY <1>2, <1>3, <2>1 DEF Counted, Refused, Continues
<1>4. ASSUME NEW s \in Stages, Opens(r, s) PROVE Counted' /\ active' \in Nat
  <2>1. CASE rq'[r].op \in Uncounted
    <3>1. CountedIn' = CountedIn
      BY <1>1, <1>4, <2>1 DEF CountedIn, Running, Opens, Calls
    <3>2. active' = active
      BY <1>2, <1>4, <2>1 DEF Opens
    <3>3. QED BY <1>2, <3>1, <3>2 DEF Counted
  <2>2. CASE rq'[r].op \notin Uncounted
    <3>1. CountedIn' = CountedIn \cup {r} /\ r \notin CountedIn
      BY <1>1, <1>4, <2>2 DEF CountedIn, Running, Opens, Calls
    <3>2. active' = active + 1
      BY <1>2, <1>4, <2>2 DEF Opens
    <3>3. Cardinality(CountedIn') = Cardinality(CountedIn) + 1
      BY <1>2, <3>1, FS_AddElement
    <3>4. QED BY <1>2, <3>2, <3>3 DEF Counted
  <2>3. QED BY <2>1, <2>2
<1>5. CASE Ends(r)
  <2>1. CASE rq[r].op \in Uncounted
    <3>1. CountedIn' = CountedIn
      BY <1>1, <1>5, <2>1 DEF CountedIn, Running, Ends
    <3>2. QED BY <1>2, <1>5, <2>1, <3>1 DEF Counted, Ends
  <2>2. CASE rq[r].op \notin Uncounted
    <3>1. CountedIn' = CountedIn \ {r} /\ r \in CountedIn
      BY <1>1, <1>5, <2>2 DEF CountedIn, Running, Ends
    <3>2. active' = active - 1
      BY <1>5, <2>2 DEF Ends
    <3>3. IsFiniteSet(CountedIn') /\ Cardinality(CountedIn') = Cardinality(CountedIn) - 1
      BY <1>2, <3>1, FS_RemoveElement
    <3>4. Cardinality(CountedIn') \in Nat
      BY <3>3, FS_CardinalityType
    <3>5. QED BY <1>2, <3>2, <3>3, <3>4 DEF Counted
  <2>3. QED BY <2>1, <2>2
<1>6. QED BY <1>3, <1>4, <1>5

\* What a call puts into the queue.
LEMMA CallsQueue ==
  ASSUME TypeOK, NEW r \in Reqs, NEW s \in Stages, Calls(r, s)
  PROVE  /\ queue' \in Seq(Jobs) /\ DOMAIN queue' = DOMAIN queue \cup {Len(queue) + 1}
         /\ Len(queue) + 1 \notin DOMAIN queue /\ \A k \in DOMAIN queue : queue'[k] = queue[k]
         /\ LET j == queue'[Len(queue) + 1]
            IN  /\ j = Job(r, rq'[r]) /\ j.req = r /\ j.stage = s /\ j.live /\ j.id = rq'[r].ck
                /\ j.thy = IF s = "reenter" THEN rq'[r].prev ELSE rq'[r].thy
<1>1. rq'[r] \in Requests /\ rq'[r].pc = s /\ queue' = Append(queue, Job(r, rq'[r])) /\ queue \in Seq(Jobs)
  BY DEF Calls, Others, TypeOK
<1>2. /\ Job(r, rq'[r]) \in Jobs /\ Job(r, rq'[r]).req = r /\ Job(r, rq'[r]).stage = s
      /\ Job(r, rq'[r]).live = TRUE /\ Job(r, rq'[r]).id = rq'[r].ck
      /\ Job(r, rq'[r]).thy = IF s = "reenter" THEN rq'[r].prev ELSE rq'[r].thy
  BY <1>1, JobType
<1>3. QED BY <1>1, <1>2, PutJob

\* The types under a step.
LEMMA TypeStep ==
  ASSUME TypeOK, Counted, InOrder, NEW r \in Reqs, Step(r)
  PROVE  TypeOK'
<1>1. /\ Refused(r) \/ Ends(r) \/ \E s \in Stages : Opens(r, s) \/ Continues(r, s)
      /\ BookKept /\ entered_thy' \in Theories \cup {NoThy}
  BY StepShape, EnteredType
<1>2. active' \in Nat
  BY <1>1, CountStep
<1>3. Others(r)
  BY <1>1 DEF Refused, Ends, Opens, Continues, Calls
<1>4. /\ docs' \in [Theories -> Seq(Reqs)] /\ thys' \subseteq Theories /\ cur' \in thys' \cup {NoThy}
      /\ saved' \in Seq(Texts) /\ epoch' \in Nat /\ resetter' \in Reqs \cup {NoReq}
      /\ rq' \in [Reqs -> Requests]
  BY <1>3 DEF Others, backendVars, TypeOK
<1>5. book' \subseteq [kind : {"command", "report", "checkpoint", "verified"}, id : Nat \cup {None},
                    epoch : Nat, crossed : BOOLEAN]
  BY <1>1 DEF BookKept, Entries
<1>6. \A x \in Reqs : Running(x)' /\ rq'[x].op \in {"load", "enter", "big"} => rq'[x].thy \in Theories
  <2> SUFFICES ASSUME NEW x \in Reqs, Running(x)', rq'[x].op \in {"load", "enter", "big"}
               PROVE  rq'[x].thy \in Theories
    OBVIOUS
  <2>1. CASE x # r
    BY <1>3, <2>1 DEF Others, Running, TypeOK
  <2>2. CASE x = r
    BY <1>1, <2>2 DEF Refused, Ends, Opens, Continues, Running, TypeOK
  <2>3. QED BY <2>1, <2>2
<1>7. /\ queue' \in Seq(Jobs)
      /\ \A k \in DOMAIN queue' :
           /\ queue'[k].stage \in {"enter", "reenter"} => queue'[k].thy \in Theories
           /\ queue'[k].stage \in {"restore", "undo"} => queue'[k].id \in Nat
  <2>1. CASE queue' = queue
    BY <2>1 DEF TypeOK
  <2>2. ASSUME NEW s \in Stages, Opens(r, s) \/ Continues(r, s) PROVE <1>7!1 /\ <1>7!2
    <3>1. Calls(r, s)
      BY <2>2 DEF Opens, Continues
    <3>2. s = "enter" => rq'[r].thy \in Theories
      BY <2>2 DEF Opens, Continues, First
    <3>3. s = "reenter" => rq'[r].prev \in Theories
      BY <2>2 DEF Opens, Continues, First
    <3>4. s \in {"restore", "undo"} => rq'[r].ck \in Nat
      BY <2>2 DEF Opens, Continues, First
    <3>5. QED BY <3>1, <3>2, <3>3, <3>4, CallsQueue DEF TypeOK
  <2>3. QED BY <1>1, <2>1, <2>2 DEF Refused, Ends
<1>8. QED BY <1>1, <1>2, <1>4, <1>5, <1>6, <1>7 DEF TypeOK

\* What is in the queue.
LEMMA JobInQueue ==
  ASSUME TypeOK, NEW k \in DOMAIN queue
  PROVE  /\ queue[k] \in Jobs /\ queue[k].req \in Reqs /\ queue[k].live \in BOOLEAN
         /\ queue[k].stage \in Stages
<1>1. queue \in Seq(Jobs)
  BY DEF TypeOK
<1>2. queue[k] \in Jobs
  BY <1>1, ElementOfSeq
<1>3. QED BY <1>2 DEF Jobs

\* A caller waits for one job: a step keeps that.
LEMMA LiveStep ==
  ASSUME TypeOK, OneLiveJob, NEW r \in Reqs,
         Refused(r) \/ Ends(r) \/ \E s \in Stages : Opens(r, s) \/ Continues(r, s)
  PROVE  OneLiveJob'
<1>1. Others(r) /\ ~Waiting(r) /\ rq'[r].pc # "new"
  BY DEF Refused, Ends, Opens, Continues, Calls, Waiting, Running
<1>2. \A k \in DOMAIN queue : queue[k].req \in Reqs /\ queue[k].live \in BOOLEAN
  BY JobInQueue
<1>3. \A k \in DOMAIN queue : queue[k].req = r => ~queue[k].live
  BY <1>1 DEF OneLiveJob
<1>4. ASSUME NEW x \in Reqs \ {r} PROVE /\ Waiting(x)' = Waiting(x) /\ Job(x, rq'[x]) = Job(x, rq[x])
                                      /\ rq'[x].pc = rq[x].pc
  BY <1>1 DEF Others, Waiting, Running, Job
<1>5. ASSUME NEW k \in DOMAIN queue, NEW x \in Reqs, x = queue[k].req
      PROVE  rq'[x].pc # "new" /\ (queue[k].live => Waiting(x)' /\ queue[k] = Job(x, rq'[x]))
  BY <1>5, <1>1, <1>2, <1>3, <1>4 DEF OneLiveJob
<1>6. CASE queue' = queue /\ ~Waiting(r)'
  <2>1. \A x \in Reqs : Waiting(x)' => \E k \in DOMAIN queue : queue[k].req = x /\ queue[k].live
    BY <1>4, <1>6 DEF OneLiveJob
  <2>2. QED BY <1>2, <1>5, <1>6, <2>1 DEF OneLiveJob
<1>7. ASSUME NEW s \in Stages, Calls(r, s) PROVE OneLiveJob'
  <2> DEFINE n == Len(queue) + 1
  <2>1. /\ DOMAIN queue' = DOMAIN queue \cup {n} /\ n \notin DOMAIN queue
        /\ \A k \in DOMAIN queue : queue'[k] = queue[k]
        /\ queue'[n] = Job(r, rq'[r]) /\ queue'[n].req = r /\ queue'[n].live
    BY <1>7, CallsQueue
  <2> HIDE DEF n
  <2>2. Waiting(r)'
    BY <1>7 DEF Calls, Waiting, Running
  <2>3. ASSUME NEW k \in DOMAIN queue', NEW x \in Reqs, x = queue'[k].req
        PROVE  rq'[x].pc # "new" /\ (queue'[k].live => Waiting(x)' /\ queue'[k] = Job(x, rq'[x]))
    BY <1>1, <1>5, <2>1, <2>2, <2>3
  <2>4. \A x \in Reqs : Waiting(x)' => \E k \in DOMAIN queue' : queue'[k].req = x /\ queue'[k].live
    BY <1>4, <2>1, <2>2 DEF OneLiveJob
  <2>5. \A j, k \in DOMAIN queue' : queue'[j].live /\ queue'[k].live /\ queue'[j].req = queue'[k].req
                                     => j = k
    BY <1>3, <2>1 DEF OneLiveJob
  <2>6. \A k \in DOMAIN queue' : queue'[k].req \in Reqs
    BY <1>2, <2>1
  <2>7. QED BY <2>3, <2>4, <2>5, <2>6 DEF OneLiveJob
<1>8. QED BY <1>6, <1>7 DEF Refused, Ends, Opens, Continues, Waiting, Running

\* A load asks for one reset.
LEMMA ResetStep ==
  ASSUME TypeOK, OneLiveJob, OneReset, InOrder, NEW r \in Reqs,
         \/ Refused(r) \/ Ends(r)
         \/ \E s \in Stages : Opens(r, s) \/ (Continues(r, s) /\ GoesOn(r, s))
  PROVE  OneReset'
<1>1. Others(r)
  BY DEF Refused, Ends, Opens, Continues, Calls
<1>2. \A x \in Reqs : rq'[x].pc \in {"new", "reset"} => ~rq'[x].cleared
  <2>1. ~rq'[r].cleared \/ rq'[r].pc \notin {"new", "reset"}
    BY DEF Refused, Ends, Opens, Continues, Calls, OneReset
  <2>2. QED BY <1>1, <2>1 DEF Others, OneReset
<1>3. \A k \in DOMAIN queue : queue[k].req \in Reqs
  BY JobInQueue
<1>4. ASSUME NEW k \in DOMAIN queue, queue[k].stage = "reset"
      PROVE  LET q == rq'[queue[k].req]
             IN  ~q.cleared /\ (q.pc = "done" \/ (q.pc = "reset" /\ q.ans \in {"none", "timeout"}))
  <2>1. CASE queue[k].req # r
    BY <1>1, <1>3, <1>4, <2>1 DEF Others, OneReset
  <2>2. CASE queue[k].req = r
    <3>1. /\ ~rq[r].cleared /\ rq[r].op = "load" /\ rq[r].pc # "new"
          /\ rq[r].pc = "done" \/ (rq[r].pc = "reset" /\ rq[r].ans \in {"none", "timeout"})
      BY <1>4, <2>2 DEF OneReset, InOrder, OneLiveJob
    <3>2. Ends(r)
      BY <3>1 DEF Refused, Opens, Continues, GoesOn, LoadGoesOn, BigGoesOn, Running
    <3>3. QED BY <2>2, <3>1, <3>2 DEF Ends
  <2>3. QED BY <2>1, <2>2
<1>5. CASE queue' = queue
  BY <1>2, <1>4, <1>5 DEF OneReset
<1>6. ASSUME NEW s \in Stages, Opens(r, s) \/ (Continues(r, s) /\ GoesOn(r, s)) PROVE OneReset'
  <2> DEFINE n == Len(queue) + 1
  <2>1. /\ DOMAIN queue' = DOMAIN queue \cup {n} /\ n \notin DOMAIN queue
        /\ \A k \in DOMAIN queue : queue'[k] = queue[k]
        /\ queue'[n].req = r /\ queue'[n].stage = s
    BY <1>6, CallsQueue DEF Opens, Continues
  <2> HIDE DEF n
  <2>2. s = "reset" => /\ rq'[r].pc = "reset" /\ ~rq'[r].cleared /\ rq'[r].ans = "none"
                       /\ \A k \in DOMAIN queue : queue[k].req # r
    BY <1>2, <1>6 DEF Opens, Continues, Calls, OneLiveJob
  <2>3. ASSUME NEW k \in DOMAIN queue', queue'[k].stage = "reset"
        PROVE  LET q == rq'[queue'[k].req]
               IN  ~q.cleared /\ (q.pc = "done" \/ (q.pc = "reset" /\ q.ans \in {"none", "timeout"}))
    BY <1>4, <2>1, <2>2, <2>3
  <2>4. \A j, k \in DOMAIN queue' : queue'[j].stage = "reset" /\ queue'[k].stage = "reset"
                                   /\ queue'[j].req = queue'[k].req => j = k
    BY <2>1, <2>2 DEF OneReset
  <2>5. QED BY <1>2, <2>3, <2>4 DEF OneReset
<1>7. QED BY <1>5, <1>6 DEF Refused, Ends

\* The calls keep their order.
LEMMA OrderStep ==
  ASSUME TypeOK, OneLiveJob, InOrder, NEW r \in Reqs,
         \/ Refused(r) \/ (Ends(r) /\ Outcome(r))
         \/ \E s \in Stages : Opens(r, s) \/ (Continues(r, s) /\ GoesOn(r, s))
  PROVE  InOrder'
<1>1. Others(r)
  BY DEF Refused, Ends, Opens, Continues, Calls
<1> DEFINE Ordered(q) == /\ q.op = "none" <=> q.pc = "new"
                         /\ q.pc = "new" => ~q.alone /\ q.ans = "none"
                         /\ q.pc \in {"new", "name"} => q.ck = None
                         /\ q.pc # "done" => ~q.ok
                         /\ q.op = "load" => q.pc \in LoadCalls \cup {"done"}
                         /\ q.op = "big" => q.pc \in BigCalls \cup {"done"}
           Fits(j, q) == /\ q.op = "load" => j.stage \in LoadCalls
                         /\ q.op = "big" => j.stage \in BigCalls
                         /\ j.stage = "reset" => q.op = "load"
                         /\ j.stage = "name" => q.op = "big" /\ j.live
                         /\ q.pc = "name" => j.stage = "name"
                         /\ q.op = "load" /\ ~j.live => IF q.pc = "done" THEN ~q.ok ELSE q.ans = "timeout"
<1>2. (\A x \in Reqs : Ordered(rq[x])) /\ \A k \in DOMAIN queue : Fits(queue[k], rq[queue[k].req])
  BY DEF InOrder
<1>3. SUFFICES (\A x \in Reqs : Ordered(rq'[x])) /\ \A k \in DOMAIN queue' : Fits(queue'[k], rq'[queue'[k].req])
  BY DEF InOrder
<1>4. ASSUME NEW x \in Reqs \ {r} PROVE Ordered(rq'[x])
  BY <1>1, <1>2 DEF Others
<1>5. \A k \in DOMAIN queue : queue[k].req \in Reqs /\ rq[queue[k].req].pc # "new"
  BY JobInQueue DEF OneLiveJob
<1>6. ASSUME NEW k \in DOMAIN queue, queue[k].req # r PROVE Fits(queue[k], rq'[queue[k].req])
  BY <1>1, <1>2, <1>5, <1>6 DEF Others
<1>7. CASE Refused(r)
  <2>1. Ordered(rq'[r])
    BY <1>7 DEF Refused
  <2>2. \A k \in DOMAIN queue : queue[k].req # r
    BY <1>5, <1>7 DEF Refused
  <2>3. QED BY <1>4, <1>6, <1>7, <2>1, <2>2 DEF Refused
<1>8. CASE Ends(r) /\ Outcome(r)
  <2>1. Ordered(rq'[r])
    BY <1>2, <1>8 DEF Ends, Running
  <2>2. ASSUME NEW k \in DOMAIN queue, queue[k].req = r PROVE Fits(queue[k], rq'[r])
    <3>1. Fits(queue[k], rq[r])
      BY <1>2, <2>2
    <3>2. QED BY <1>8, <3>1 DEF Ends, Outcome, Running
  <2>3. QED BY <1>4, <1>6, <1>8, <2>1, <2>2 DEF Ends
<1>9. ASSUME NEW s \in Stages, Opens(r, s) \/ (Continues(r, s) /\ GoesOn(r, s)) 
      PROVE  (\A x \in Reqs : Ordered(rq'[x])) /\ \A k \in DOMAIN queue' : Fits(queue'[k], rq'[queue'[k].req])
  <2> DEFINE n == Len(queue) + 1
  <2>1. /\ DOMAIN queue' = DOMAIN queue \cup {n}
        /\ \A k \in DOMAIN queue : queue'[k] = queue[k]
        /\ queue'[n].req = r /\ queue'[n].stage = s /\ queue'[n].live
    BY <1>9, CallsQueue DEF Opens, Continues
  <2> HIDE DEF n
  <2>2. Ordered(rq'[r]) /\ Fits(queue'[n], rq'[r])
    <3>1. CASE Opens(r, s)
      BY <1>2, <2>1, <3>1 DEF Opens, Calls, First, LoadCalls, BigCalls
    <3>2. CASE Continues(r, s) /\ GoesOn(r, s)
      BY <1>2, <2>1, <3>2 DEF Continues, Calls, Running, GoesOn, LoadGoesOn, BigGoesOn, LoadCalls, BigCalls
    <3>3. QED BY <1>9, <3>1, <3>2
  <2>3. ASSUME NEW k \in DOMAIN queue, queue[k].req = r PROVE Fits(queue[k], rq'[r])
    <3>1. Fits(queue[k], rq[r]) /\ Continues(r, s) /\ GoesOn(r, s)
      BY <1>2, <1>5, <1>9, <2>3 DEF Opens
    <3>2. rq'[r].op = rq[r].op /\ rq'[r].pc # "name" /\ rq[r].pc # "done"
      BY <3>1 DEF Continues, Calls, Running
    <3>3. rq[r].op = "load" => rq[r].ans = "ok"
      BY <3>1 DEF GoesOn, LoadGoesOn, BigGoesOn
    <3>4. QED BY <3>1, <3>2, <3>3
  <2>4. QED BY <1>4, <1>6, <2>1, <2>2, <2>3
<1>10. QED BY <1>7, <1>8, <1>9

\* The bookkeeping is that of the backend session of now.
LEMMA BookStep ==
  ASSUME TypeOK, BookkeepingCurrent, NEW r \in Reqs, BookKept,
         Refused(r) \/ Ends(r) \/ \E s \in Stages : Opens(r, s) \/ Continues(r, s)
  PROVE  BookkeepingCurrent'
<1>1. Others(r) /\ epoch' = epoch /\ resetter' = resetter /\ resetter \in Reqs \cup {NoReq}
  BY DEF Refused, Ends, Opens, Continues, Calls, Others, backendVars, TypeOK
<1>2. rq'[r].cleared = rq[r].cleared \/ book' = {}
  BY DEF Refused, Ends, Opens, Continues
<1>3. \A x \in Reqs : rq'[x].cleared = rq[x].cleared \/ book' = {}
  BY <1>1, <1>2 DEF Others
<1>4. QED BY <1>1, <1>3 DEF BookKept, BookkeepingCurrent

-----------------------------------------------------------------------------
(* The invariant of the calls, when a caller gives up.                     *)

\* result(timeout) gives up.
LEMMA TimeoutEffect ==
  ASSUME TypeOK, NEW r \in Reqs, Timeout(r)
  PROVE  /\ queue' \in Seq(Jobs) /\ DOMAIN queue' = DOMAIN queue
         /\ \A k \in DOMAIN queue :
              /\ queue'[k].req = queue[k].req /\ queue'[k].stage = queue[k].stage
              /\ queue'[k].id = queue[k].id /\ queue'[k].thy = queue[k].thy
              /\ queue[k].req # r => queue'[k] = queue[k]
              /\ queue[k].req = r => queue'[k].live = FALSE
         /\ rq' \in [Reqs -> Requests] /\ \A x \in Reqs \ {r} : rq'[x] = rq[x]
         /\ rq'[r].ans = "timeout" /\ rq'[r].op = rq[r].op /\ rq'[r].pc = rq[r].pc
         /\ rq'[r].thy = rq[r].thy /\ rq'[r].ck = rq[r].ck /\ rq'[r].prev = rq[r].prev
         /\ rq'[r].base = rq[r].base /\ rq'[r].alone = rq[r].alone
         /\ rq'[r].cleared = rq[r].cleared /\ rq'[r].ok = rq[r].ok
<1>1. rq[r] \in Requests /\ rq \in [Reqs -> Requests] /\ queue \in Seq(Jobs)
  BY DEF TypeOK
<1> DEFINE c == [rq[r] EXCEPT !.ans = "timeout"]
<1>2. c \in Requests
  BY <1>1 DEF Requests
<1>3. rq' = [rq EXCEPT ![r] = c]
  BY DEF Timeout
<1>4. /\ c.ans = "timeout" /\ c.op = rq[r].op /\ c.pc = rq[r].pc
      /\ c.thy = rq[r].thy /\ c.ck = rq[r].ck /\ c.prev = rq[r].prev
      /\ c.base = rq[r].base /\ c.alone = rq[r].alone
      /\ c.cleared = rq[r].cleared /\ c.ok = rq[r].ok
  BY <1>1 DEF Requests
<1>5. queue' = [k \in DOMAIN queue |-> IF queue[k].req = r THEN [queue[k] EXCEPT !.live = FALSE]
                                       ELSE queue[k]]
  BY DEF Timeout
<1>6. ASSUME NEW k \in DOMAIN queue
      PROVE  /\ queue'[k].req = queue[k].req /\ queue'[k].stage = queue[k].stage
             /\ queue'[k].id = queue[k].id /\ queue'[k].thy = queue[k].thy
             /\ queue[k].req # r => queue'[k] = queue[k]
             /\ queue[k].req = r => queue'[k].live = FALSE
             /\ queue'[k] \in Jobs
  <2>1. queue[k] \in Jobs
    BY JobInQueue
  <2>2. queue'[k] = IF queue[k].req = r THEN [queue[k] EXCEPT !.live = FALSE] ELSE queue[k]
    BY <1>5
  <2>3. QED BY <2>1, <2>2 DEF Jobs
<1>7. DOMAIN queue' = 1..Len(queue) /\ DOMAIN queue = 1..Len(queue) /\ Len(queue) \in Nat
  BY <1>1, <1>5
<1>8. queue' \in Seq(Jobs)
  <2>1. queue' \in [1..Len(queue) -> Jobs]
    BY <1>5, <1>6, <1>7
  <2>2. QED BY <1>7, <2>1
<1> HIDE DEF c
<1>9. rq' \in [Reqs -> Requests] /\ rq'[r] = c /\ \A x \in Reqs \ {r} : rq'[x] = rq[x]
  BY <1>1, <1>2, <1>3
<1>10. QED BY <1>4, <1>6, <1>7, <1>8, <1>9

\* A caller that gives up leaves its job behind, and the invariant of the calls holds.
LEMMA TimeoutStep ==
  ASSUME CountInv, NEW r \in Reqs, Timeout(r)
  PROVE  CountInv'
<1>1. TypeOK /\ OneLiveJob /\ Counted /\ OneReset /\ InOrder /\ BookkeepingCurrent
  BY DEF CountInv
<1>2. /\ queue' \in Seq(Jobs) /\ DOMAIN queue' = DOMAIN queue
      /\ \A k \in DOMAIN queue :
              /\ queue'[k].req = queue[k].req /\ queue'[k].stage = queue[k].stage
              /\ queue'[k].id = queue[k].id /\ queue'[k].thy = queue[k].thy
              /\ queue[k].req # r => queue'[k] = queue[k]
              /\ queue[k].req = r => queue'[k].live = FALSE
      /\ rq' \in [Reqs -> Requests] /\ \A x \in Reqs \ {r} : rq'[x] = rq[x]
      /\ rq'[r].ans = "timeout" /\ rq'[r].op = rq[r].op /\ rq'[r].pc = rq[r].pc
      /\ rq'[r].thy = rq[r].thy /\ rq'[r].ck = rq[r].ck /\ rq'[r].prev = rq[r].prev
      /\ rq'[r].alone = rq[r].alone /\ rq'[r].cleared = rq[r].cleared /\ rq'[r].ok = rq[r].ok
  BY <1>1, TimeoutEffect
<1>3. /\ UNCHANGED <<docs, thys, cur, saved, epoch, resetter, book, entered_thy, active>>
      /\ Running(r) /\ rq[r].ans = "none" /\ rq[r].pc # "name"
  BY DEF Timeout, backendVars, Patient
<1>4. \A k \in DOMAIN queue : queue[k].req \in Reqs /\ queue[k].live \in BOOLEAN
  BY <1>1, JobInQueue
<1>5. TypeOK'
  <2>1. \A x \in Reqs : Running(x)' /\ rq'[x].op \in {"load", "enter", "big"} => rq'[x].thy \in Theories
    <3>1. ASSUME NEW x \in Reqs PROVE rq'[x].op = rq[x].op /\ rq'[x].pc = rq[x].pc /\ rq'[x].thy = rq[x].thy
      BY <1>2
    <3>2. QED BY <1>1, <3>1 DEF TypeOK, Running
  <2>2. \A k \in DOMAIN queue' :
           /\ queue'[k].stage \in {"enter", "reenter"} => queue'[k].thy \in Theories
           /\ queue'[k].stage \in {"restore", "undo"} => queue'[k].id \in Nat
    BY <1>1, <1>2 DEF TypeOK
  <2>3. QED BY <1>1, <1>2, <1>3, <2>1, <2>2 DEF TypeOK
<1>6. OneLiveJob'
  <2>1. ~Waiting(r)' /\ \A x \in Reqs \ {r} : Waiting(x)' = Waiting(x)
    BY <1>2 DEF Waiting, Running
  <2>2. ASSUME NEW k \in DOMAIN queue, NEW x \in Reqs, x = queue[k].req
        PROVE  rq'[x].pc # "new" /\ (queue'[k].live => Waiting(x)' /\ queue'[k] = Job(x, rq'[x]))
    <3>1. rq[x].pc # "new" /\ (queue[k].live => Waiting(x) /\ queue[k] = Job(x, rq[x]))
      BY <1>1, <2>2 DEF OneLiveJob
    <3>2. QED BY <1>2, <2>1, <2>2, <3>1
  <2>3. \A x \in Reqs : Waiting(x)' => \E k \in DOMAIN queue' : queue'[k].req = x /\ queue'[k].live
    BY <1>1, <1>2, <2>1 DEF OneLiveJob
  <2>4. \A j, k \in DOMAIN queue' : queue'[j].live /\ queue'[k].live /\ queue'[j].req = queue'[k].req
                                     => j = k
    BY <1>1, <1>2 DEF OneLiveJob
  <2>5. QED BY <1>2, <1>4, <2>2, <2>3, <2>4 DEF OneLiveJob
<1>7. Counted'
  <2>1. CountedIn' = CountedIn
    BY <1>2 DEF CountedIn, Running
  <2>2. QED BY <1>1, <1>3, <2>1 DEF Counted
<1>8. OneReset'
  <2>1. ASSUME NEW k \in DOMAIN queue, queue[k].stage = "reset"
        PROVE  LET q == rq'[queue[k].req]
               IN  ~q.cleared /\ (q.pc = "done" \/ (q.pc = "reset" /\ q.ans \in {"none", "timeout"}))
    BY <1>1, <1>2, <1>4, <2>1 DEF OneReset
  <2>2. \A x \in Reqs : rq'[x].pc \in {"new", "reset"} => ~rq'[x].cleared
    BY <1>1, <1>2 DEF OneReset
  <2>3. \A j, k \in DOMAIN queue' : queue'[j].stage = "reset" /\ queue'[k].stage = "reset"
                                   /\ queue'[j].req = queue'[k].req => j = k
    BY <1>1, <1>2 DEF OneReset
  <2>4. QED BY <1>2, <2>1, <2>2, <2>3 DEF OneReset
<1>9. InOrder'
  <2> DEFINE Fits(j, q) == /\ q.op = "load" => j.stage \in LoadCalls
                           /\ q.op = "big" => j.stage \in BigCalls
                           /\ j.stage = "reset" => q.op = "load"
                           /\ j.stage = "name" => q.op = "big" /\ j.live
                           /\ q.pc = "name" => j.stage = "name"
                           /\ q.op = "load" /\ ~j.live => IF q.pc = "done" THEN ~q.ok ELSE q.ans = "timeout"
  <2>1. ASSUME NEW k \in DOMAIN queue PROVE Fits(queue'[k], rq'[queue[k].req])
    <3>1. Fits(queue[k], rq[queue[k].req])
      BY <1>1 DEF InOrder
    <3>2. CASE queue[k].req # r
      BY <1>2, <1>4, <3>1, <3>2
    <3>3. CASE queue[k].req = r
      <4>1. queue[k].stage # "name"
        <5>1. SUFFICES ASSUME queue[k].stage = "name" PROVE FALSE
          OBVIOUS
        <5>2. queue[k] = Job(r, rq[r])
          BY <1>1, <3>1, <3>3, <5>1 DEF OneLiveJob
        <5>3. queue[k].stage = rq[r].pc
          BY <5>2 DEF Job
        <5>4. QED BY <1>3, <5>1, <5>3
      <4>2. QED BY <1>2, <1>3, <3>1, <3>3, <4>1 DEF Running
    <3>4. QED BY <3>2, <3>3
  <2>2. \A x \in Reqs : /\ rq'[x].op = "none" <=> rq'[x].pc = "new"
                        /\ rq'[x].pc = "new" => ~rq'[x].alone /\ rq'[x].ans = "none"
                        /\ rq'[x].pc \in {"new", "name"} => rq'[x].ck = None
                        /\ rq'[x].pc # "done" => ~rq'[x].ok
                        /\ rq'[x].op = "load" => rq'[x].pc \in LoadCalls \cup {"done"}
                        /\ rq'[x].op = "big" => rq'[x].pc \in BigCalls \cup {"done"}
    BY <1>1, <1>2, <1>3 DEF InOrder, Running
  <2>3. QED BY <1>2, <2>1, <2>2 DEF InOrder
<1>10. BookkeepingCurrent'
  BY <1>1, <1>2, <1>3 DEF BookkeepingCurrent, TypeOK
<1>11. QED BY <1>5, <1>6, <1>7, <1>8, <1>9, <1>10 DEF CountInv

-----------------------------------------------------------------------------
(* The invariant of the calls, when the worker does a job.                 *)

\* What the requests see of the job.
Executed(j) ==
  /\ rq' \in [Reqs -> Requests]
  /\ \A x \in Reqs : /\ rq'[x].op = rq[x].op /\ rq'[x].pc = rq[x].pc /\ rq'[x].thy = rq[x].thy
                     /\ rq'[x].ok = rq[x].ok /\ rq'[x].cleared = rq[x].cleared
  /\ \A x \in Reqs \ {j.req} :
       /\ rq'[x].ck = rq[x].ck /\ rq'[x].prev = rq[x].prev /\ rq'[x].ans = rq[x].ans
       /\ rq'[x].base = rq[x].base /\ (rq'[x].alone => rq[x].alone /\ j.stage \in Quiet)
       /\ rq[x].pc = "new" => rq'[x].alone = FALSE
  /\ IF j.live THEN rq'[j.req].ans \in {"ok", "failed"} ELSE rq'[j.req].ans = rq[j.req].ans
  /\ j.stage # "save" \/ ~j.live => rq'[j.req].ck = rq[j.req].ck
  /\ j.stage # "name" => rq'[j.req].prev = rq[j.req].prev /\ rq'[j.req].base = rq[j.req].base
  /\ j.stage \notin {"reset", "name"} => rq'[j.req].alone = rq[j.req].alone

\* The answer, if somebody waits for it.
LEMMA AnswerType ==
  ASSUME TypeOK, NEW j \in Jobs, NEW a \in {"ok", "failed"}
  PROVE  LET c == Answer(j, a)
             q == rq[j.req]
         IN  /\ c \in Requests /\ c.op = q.op /\ c.pc = q.pc /\ c.thy = q.thy /\ c.ok = q.ok
             /\ c.cleared = q.cleared /\ c.ck = q.ck /\ c.prev = q.prev /\ c.base = q.base
             /\ c.alone = q.alone /\ (IF j.live THEN c.ans = a ELSE c.ans = q.ans)
<1>1. rq[j.req] \in Requests /\ epoch \in Nat
  BY DEF TypeOK, Jobs
<1>2. QED BY <1>1, ZenonT(40) DEF Answer, Requests

\* The reply of a job; the others are disturbed, unless the job is a quiet one.
LEMMA ReplyEffect ==
  ASSUME TypeOK, NEW j \in Jobs, NEW c \in Requests, Reply(j, c)
  PROVE  /\ rq' \in [Reqs -> Requests] /\ rq'[j.req] = c
         /\ \A x \in Reqs \ {j.req} :
              /\ rq'[x].op = rq[x].op /\ rq'[x].pc = rq[x].pc /\ rq'[x].thy = rq[x].thy
              /\ rq'[x].ok = rq[x].ok /\ rq'[x].cleared = rq[x].cleared
              /\ rq'[x].ck = rq[x].ck /\ rq'[x].prev = rq[x].prev /\ rq'[x].ans = rq[x].ans
              /\ rq'[x].base = rq[x].base
              /\ (rq'[x].alone => rq[x].alone /\ j.stage \in Quiet)
              /\ ~rq[x].alone => rq'[x].alone = FALSE
<1> DEFINE quiet == (j.stage \in Quiet)
<1>1. quiet \in BOOLEAN
  <2>1. CASE j.stage \in Quiet
    BY <2>1
  <2>2. CASE j.stage \notin Quiet
    BY <2>2
  <2>3. QED BY <2>1, <2>2
<1>2. rq' = [x \in Reqs |-> IF x = j.req THEN c ELSE [rq[x] EXCEPT !.alone = @ /\ quiet]]
  BY DEF Reply
<1>3. j.req \in Reqs
  BY DEF Jobs
<1> HIDE DEF quiet
<1>4. ASSUME NEW x \in Reqs \ {j.req}
      PROVE  /\ rq'[x] \in Requests
             /\ rq'[x].op = rq[x].op /\ rq'[x].pc = rq[x].pc /\ rq'[x].thy = rq[x].thy
             /\ rq'[x].ok = rq[x].ok /\ rq'[x].cleared = rq[x].cleared
             /\ rq'[x].ck = rq[x].ck /\ rq'[x].prev = rq[x].prev /\ rq'[x].ans = rq[x].ans
             /\ rq'[x].base = rq[x].base
             /\ (rq'[x].alone => rq[x].alone /\ quiet)
             /\ ~rq[x].alone => rq'[x].alone = FALSE
  <2>1. rq[x] \in Requests /\ rq'[x] = [rq[x] EXCEPT !.alone = rq[x].alone /\ quiet]
    BY <1>2 DEF TypeOK
  <2>2. rq[x].alone \in BOOLEAN
    BY <2>1 DEF Requests
  <2> DEFINE b == (rq[x].alone /\ quiet)
  <2>3. b \in BOOLEAN /\ (b => rq[x].alone /\ quiet) /\ (~rq[x].alone => b = FALSE)
    BY <1>1, <2>2
  <2>4. rq'[x] = [rq[x] EXCEPT !.alone = b]
    BY <2>1
  <2> HIDE DEF b
  <2>5. rq'[x] \in Requests /\ rq'[x].alone = b
    BY <2>1, <2>3, <2>4 DEF Requests
  <2>6. QED BY <2>1, <2>3, <2>4, <2>5 DEF Requests
<1>5. QED BY <1>2, <1>3, <1>4 DEF quiet

\* What the worker's answer may change of a request, and what it leaves.
LEMMA ReplyExecuted ==
  ASSUME TypeOK, InOrder, NEW j \in Jobs, NEW c \in Requests, Reply(j, c),
         c.op = rq[j.req].op, c.pc = rq[j.req].pc, c.thy = rq[j.req].thy,
         c.ok = rq[j.req].ok, c.cleared = rq[j.req].cleared,
         j.live => c.ans \in {"ok", "failed"}, ~j.live => c.ans = rq[j.req].ans,
         j.stage # "save" \/ ~j.live => c.ck = rq[j.req].ck,
         j.stage # "name" => c.prev = rq[j.req].prev /\ c.base = rq[j.req].base,
         j.stage \notin {"reset", "name"} => c.alone = rq[j.req].alone
  PROVE  Executed(j)
<1>1. /\ rq' \in [Reqs -> Requests] /\ rq'[j.req] = c
      /\ \A x \in Reqs \ {j.req} :
              /\ rq'[x].op = rq[x].op /\ rq'[x].pc = rq[x].pc /\ rq'[x].thy = rq[x].thy
              /\ rq'[x].ok = rq[x].ok /\ rq'[x].cleared = rq[x].cleared
              /\ rq'[x].ck = rq[x].ck /\ rq'[x].prev = rq[x].prev /\ rq'[x].ans = rq[x].ans
              /\ rq'[x].base = rq[x].base
              /\ (rq'[x].alone => rq[x].alone /\ j.stage \in Quiet)
              /\ ~rq[x].alone => rq'[x].alone = FALSE
  BY ReplyEffect
<1>2. \A x \in Reqs : rq[x].pc = "new" => ~rq[x].alone
  BY DEF InOrder
<1>3. \A x \in Reqs : /\ rq'[x].op = rq[x].op /\ rq'[x].pc = rq[x].pc /\ rq'[x].thy = rq[x].thy
                      /\ rq'[x].ok = rq[x].ok /\ rq'[x].cleared = rq[x].cleared
  BY <1>1
<1>4. \A x \in Reqs \ {j.req} :
       /\ rq'[x].ck = rq[x].ck /\ rq'[x].prev = rq[x].prev /\ rq'[x].ans = rq[x].ans
       /\ rq'[x].base = rq[x].base /\ (rq'[x].alone => rq[x].alone /\ j.stage \in Quiet)
       /\ rq[x].pc = "new" => rq'[x].alone = FALSE
  BY <1>1, <1>2
<1>5. QED BY <1>1, <1>3, <1>4 DEF Executed

\* Every kind of job: what it does to the requests, and that the backend keeps its types.
LEMMA RunEffect ==
  ASSUME TypeOK, InOrder, NEW j \in Jobs, Run(j),
         j.stage \in {"enter", "reenter"} => j.thy \in Theories,
         j.stage \in {"restore", "undo"} => j.id \in Nat
  PROVE  /\ Executed(j)
         /\ docs' \in [Theories -> Seq(Reqs)] /\ thys' \subseteq Theories /\ cur' \in thys' \cup {NoThy}
         /\ saved' \in Seq(Texts) /\ epoch' \in Nat /\ resetter' \in Reqs \cup {NoReq}
         /\ j.stage # "reset" => epoch' = epoch /\ resetter' = resetter
         /\ j.stage = "reset" => resetter' = j.req
<1>1. /\ j.req \in Reqs /\ rq[j.req] \in Requests /\ rq \in [Reqs -> Requests] /\ epoch \in Nat
      /\ docs \in [Theories -> Seq(Reqs)] /\ thys \subseteq Theories /\ cur \in thys \cup {NoThy}
      /\ saved \in Seq(Texts) /\ resetter \in Reqs \cup {NoReq} /\ NoThy \notin Theories
      /\ j.live \in BOOLEAN
  BY OpsAssumption DEF TypeOK, Jobs
<1>3. ASSUME NEW a \in {"ok", "failed"}, Reply(j, Answer(j, a)) PROVE Executed(j)
  <2> DEFINE c == Answer(j, a)
  <2>1. /\ c \in Requests /\ c.op = rq[j.req].op /\ c.pc = rq[j.req].pc /\ c.thy = rq[j.req].thy
        /\ c.ok = rq[j.req].ok /\ c.cleared = rq[j.req].cleared /\ c.ck = rq[j.req].ck
        /\ c.prev = rq[j.req].prev /\ c.base = rq[j.req].base
        /\ c.alone = rq[j.req].alone /\ (IF j.live THEN c.ans = a ELSE c.ans = rq[j.req].ans)
    BY AnswerType
  <2>2. Reply(j, c)
    BY <1>3
  <2> HIDE DEF c
  <2>3. QED BY <2>1, <2>2, ReplyExecuted
<1>4. CASE j.stage \in Edits /\ Edit(j)
  <2>1. PICK a \in {"ok", "failed"}, kept \in BOOLEAN :
          /\ cur = NoThy => a = "failed" /\ ~kept
          /\ docs' = IF kept THEN [docs EXCEPT ![cur] = Append(@, j.req)] ELSE docs
          /\ Reply(j, Answer(j, a))
    BY <1>4 DEF Edit
  <2>2. docs' \in [Theories -> Seq(Reqs)]
    <3>1. CASE kept
      <4>1. cur \in Theories /\ docs[cur] \in Seq(Reqs)
        BY <1>1, <2>1, <3>1
      <4>2. Append(docs[cur], j.req) \in Seq(Reqs)
        BY <1>1, <4>1
      <4>3. QED BY <1>1, <2>1, <3>1, <4>1, <4>2
    <3>2. CASE ~kept
      BY <1>1, <2>1, <3>2
    <3>3. QED BY <3>1, <3>2
  <2>3. Executed(j)
    BY <1>3, <2>1
  <2>4. j.stage # "reset" /\ UNCHANGED <<thys, cur, saved, epoch, resetter>>
    BY <1>4 DEF Edit, Edits
  <2>5. QED BY <1>1, <2>2, <2>3, <2>4
<1>5. CASE j.stage \in {"enter", "reenter"} /\ Enter(j)
  BY <1>1, <1>3, <1>5 DEF Enter
<1>6. CASE j.stage = "save" /\ Save(j)
  <2> DEFINE c == Answer(j, "ok")
             d == [c EXCEPT !.ck = IF j.live THEN Len(saved) ELSE @]
  <2>1. /\ c \in Requests /\ c.op = rq[j.req].op /\ c.pc = rq[j.req].pc /\ c.thy = rq[j.req].thy
        /\ c.ok = rq[j.req].ok /\ c.cleared = rq[j.req].cleared /\ c.ck = rq[j.req].ck
        /\ c.prev = rq[j.req].prev /\ c.base = rq[j.req].base
        /\ c.alone = rq[j.req].alone /\ (IF j.live THEN c.ans = "ok" ELSE c.ans = rq[j.req].ans)
    BY AnswerType
  <2>2. Len(saved) \in Nat
    BY <1>1
  <2> HIDE DEF c
  <2>3. /\ d \in Requests /\ d.op = rq[j.req].op /\ d.pc = rq[j.req].pc /\ d.thy = rq[j.req].thy
        /\ d.ok = rq[j.req].ok /\ d.cleared = rq[j.req].cleared
        /\ ~j.live => d.ck = rq[j.req].ck
        /\ d.prev = rq[j.req].prev /\ d.base = rq[j.req].base
        /\ d.alone = rq[j.req].alone /\ (IF j.live THEN d.ans = "ok" ELSE d.ans = rq[j.req].ans)
    BY <2>1, <2>2 DEF Requests
  <2>4. Reply(j, d)
    BY <1>6 DEF Save, c
  <2> HIDE DEF d
  <2>5. Executed(j)
    BY <1>6, <2>3, <2>4, ReplyExecuted
  <2>6. saved' \in Seq(Texts)
    <3>1. [t \in thys |-> docs[t]] \in [thys -> Seq(Reqs)]
      BY <1>1
    <3>2. [t \in thys |-> docs[t]] \in Texts
      BY <1>1, <3>1 DEF Texts
    <3>3. QED BY <1>1, <1>6, <3>2 DEF Save
  <2>7. QED BY <1>1, <1>6, <2>5, <2>6 DEF Save
<1>7. CASE j.stage \in {"restore", "undo"} /\ Restore(j)
  <2>1. Executed(j)
    BY <1>3, <1>7 DEF Restore
  <2>2. ASSUME NEW t \in Theories, Holds(j.id), t \in DOMAIN saved[j.id + 1]
        PROVE  saved[j.id + 1][t] \in Seq(Reqs)
    <3>1. j.id + 1 \in 1..Len(saved)
      BY <1>1, <1>7, <2>2 DEF Holds
    <3>2. saved[j.id + 1] \in Texts
      BY <1>1, <3>1, ElementOfSeq
    <3>3. PICK T \in SUBSET Theories : saved[j.id + 1] \in [T -> Seq(Reqs)]
      BY <3>2 DEF Texts
    <3>4. QED BY <2>2, <3>3
  <2>3. docs' \in [Theories -> Seq(Reqs)]
    BY <1>1, <1>7, <2>2 DEF Restore
  <2>4. QED BY <1>1, <1>7, <2>1, <2>3 DEF Restore
<1>8. CASE j.stage = "rollback" /\ Rollback(j)
  <2>1. Executed(j)
    BY <1>3, <1>8 DEF Rollback
  <2>2. docs' \in [Theories -> Seq(Reqs)]
    <3>1. CASE cur # NoThy /\ docs[cur] # <<>>
      <4>1. cur \in Theories /\ docs[cur] \in Seq(Reqs)
        BY <1>1, <3>1
      <4>2. SubSeq(docs[cur], 1, Len(docs[cur]) - 1) \in Seq(Reqs)
        BY <4>1, <3>1
      <4>3. QED BY <1>1, <1>8, <3>1, <4>1, <4>2 DEF Rollback
    <3>2. CASE ~(cur # NoThy /\ docs[cur] # <<>>)
      BY <1>1, <1>8, <3>2 DEF Rollback
    <3>3. QED BY <3>1, <3>2
  <2>3. QED BY <1>1, <1>8, <2>1, <2>2 DEF Rollback
<1>9. CASE j.stage = "reset" /\ Reset(j)
  <2> DEFINE c == Answer(j, "ok")
             d == [c EXCEPT !.alone = TRUE]
  <2>1. /\ c \in Requests /\ c.op = rq[j.req].op /\ c.pc = rq[j.req].pc /\ c.thy = rq[j.req].thy
        /\ c.ok = rq[j.req].ok /\ c.cleared = rq[j.req].cleared /\ c.ck = rq[j.req].ck
        /\ c.prev = rq[j.req].prev /\ c.base = rq[j.req].base
        /\ (IF j.live THEN c.ans = "ok" ELSE c.ans = rq[j.req].ans)
    BY AnswerType
  <2> HIDE DEF c
  <2>2. /\ d \in Requests /\ d.op = rq[j.req].op /\ d.pc = rq[j.req].pc /\ d.thy = rq[j.req].thy
        /\ d.ok = rq[j.req].ok /\ d.cleared = rq[j.req].cleared /\ d.ck = rq[j.req].ck
        /\ d.prev = rq[j.req].prev /\ d.base = rq[j.req].base
        /\ (IF j.live THEN d.ans = "ok" ELSE d.ans = rq[j.req].ans)
    BY <2>1 DEF Requests
  <2>3. Reply(j, d)
    BY <1>9 DEF Reset, c
  <2> HIDE DEF d
  <2>4. Executed(j)
    BY <1>9, <2>2, <2>3, ReplyExecuted
  <2>5. docs' \in [Theories -> Seq(Reqs)] /\ saved' \in Seq(Texts)
    BY <1>9 DEF Reset
  <2>6. QED BY <1>1, <1>9, <2>4, <2>5 DEF Reset
<1>10. CASE j.stage = "name" /\ Name(j)
  <2> DEFINE c == Answer(j, "ok")
             b == [t \in thys |-> docs[t]]
             d == [c EXCEPT !.prev = cur, !.alone = TRUE, !.base = b]
  <2>1. /\ c \in Requests /\ c.op = rq[j.req].op /\ c.pc = rq[j.req].pc /\ c.thy = rq[j.req].thy
        /\ c.ok = rq[j.req].ok /\ c.cleared = rq[j.req].cleared /\ c.ck = rq[j.req].ck
        /\ (IF j.live THEN c.ans = "ok" ELSE c.ans = rq[j.req].ans)
    BY AnswerType
  <2>2. b \in Texts
    <3>1. b \in [thys -> Seq(Reqs)]
      BY <1>1
    <3>2. QED BY <1>1, <3>1 DEF Texts
  <2>3. Reply(j, d)
    BY <1>10 DEF Name
  <2> HIDE DEF c, b
  <2>4. /\ d \in Requests /\ d.op = rq[j.req].op /\ d.pc = rq[j.req].pc /\ d.thy = rq[j.req].thy
        /\ d.ok = rq[j.req].ok /\ d.cleared = rq[j.req].cleared /\ d.ck = rq[j.req].ck
        /\ (IF j.live THEN d.ans = "ok" ELSE d.ans = rq[j.req].ans)
    BY <1>1, <2>1, <2>2 DEF Requests
  <2> HIDE DEF d
  <2>5. Executed(j)
    BY <1>10, <2>3, <2>4, ReplyExecuted
  <2>6. QED BY <1>1, <1>10, <2>5 DEF Name
<1>11. CASE j.stage = "probe" /\ Probe(j)
  BY <1>1, <1>3, <1>11 DEF Probe
<1>12. QED BY <1>4, <1>5, <1>6, <1>7, <1>8, <1>9, <1>10, <1>11 DEF Run

\* The worker takes the job at the head of the queue.
LEMMA ExecEffect ==
  ASSUME TypeOK, InOrder, Exec
  PROVE  /\ queue' \in Seq(Jobs) /\ 1 \in DOMAIN queue /\ Head(queue) = queue[1] /\ queue[1] \in Jobs
         /\ \A k \in DOMAIN queue' : k + 1 \in DOMAIN queue /\ queue'[k] = queue[k + 1] /\ k \in Nat \ {0}
         /\ \A k \in DOMAIN queue : k # 1 => k - 1 \in DOMAIN queue' /\ queue'[k - 1] = queue[k]
         /\ \A k \in DOMAIN queue : k \in Nat \ {0}
         /\ Run(queue[1]) /\ Executed(queue[1])
         /\ docs' \in [Theories -> Seq(Reqs)] /\ thys' \subseteq Theories /\ cur' \in thys' \cup {NoThy}
         /\ saved' \in Seq(Texts) /\ epoch' \in Nat /\ resetter' \in Reqs \cup {NoReq}
         /\ queue[1].stage # "reset" => epoch' = epoch /\ resetter' = resetter
         /\ queue[1].stage = "reset" => resetter' = queue[1].req
         /\ UNCHANGED <<book, entered_thy, active>>
<1>1. queue \in Seq(Jobs) /\ queue # <<>> /\ queue' = Tail(queue) /\ Run(Head(queue))
  BY DEF TypeOK, Exec
<1>2. /\ Head(queue) = queue[1] /\ 1 \in DOMAIN queue /\ Head(queue) \in Jobs /\ Tail(queue) \in Seq(Jobs)
      /\ DOMAIN queue = 1..Len(queue) /\ DOMAIN Tail(queue) = 1..(Len(queue) - 1) /\ Len(queue) \in Nat
      /\ \A k \in DOMAIN Tail(queue) : k + 1 \in DOMAIN queue /\ Tail(queue)[k] = queue[k + 1]
  BY <1>1, TakeJob
<1>3. \A k \in DOMAIN queue' : k + 1 \in DOMAIN queue /\ queue'[k] = queue[k + 1] /\ k \in Nat \ {0}
  BY <1>1, <1>2
<1>4. ASSUME NEW k \in DOMAIN queue, k # 1 PROVE k - 1 \in DOMAIN queue' /\ queue'[k - 1] = queue[k]
  <2>1. k \in Nat /\ k - 1 \in DOMAIN queue' /\ (k - 1) + 1 = k
    BY <1>1, <1>2, <1>4
  <2>2. queue'[k - 1] = queue[(k - 1) + 1]
    BY <1>3, <2>1
  <2>3. QED BY <2>1, <2>2
<1>5. /\ queue[1].stage \in {"enter", "reenter"} => queue[1].thy \in Theories
      /\ queue[1].stage \in {"restore", "undo"} => queue[1].id \in Nat
  BY <1>2 DEF TypeOK
<1> DEFINE j == queue[1]
<1>6. j \in Jobs /\ Run(j)
  BY <1>1, <1>2
<1>7. /\ Executed(j)
      /\ docs' \in [Theories -> Seq(Reqs)] /\ thys' \subseteq Theories /\ cur' \in thys' \cup {NoThy}
      /\ saved' \in Seq(Texts) /\ epoch' \in Nat /\ resetter' \in Reqs \cup {NoReq}
      /\ j.stage # "reset" => epoch' = epoch /\ resetter' = resetter
      /\ j.stage = "reset" => resetter' = j.req
  <2> HIDE DEF j
  <2>1. /\ j.stage \in {"enter", "reenter"} => j.thy \in Theories
        /\ j.stage \in {"restore", "undo"} => j.id \in Nat
    BY <1>5 DEF j
  <2>2. QED BY <1>6, <2>1, RunEffect
<1>8. UNCHANGED <<book, entered_thy, active>> /\ \A k \in DOMAIN queue : k \in Nat \ {0}
  BY <1>2 DEF Exec
<1>9. QED BY <1>1, <1>2, <1>3, <1>4, <1>6, <1>7, <1>8

\* A job that is waited for is the call its request is in; the others of the request
\* are not waited for.
LEMMA HeadLive ==
  ASSUME TypeOK, OneLiveJob, 1 \in DOMAIN queue, queue[1].live
  PROVE  /\ Waiting(queue[1].req) /\ queue[1] = Job(queue[1].req, rq[queue[1].req])
         /\ queue[1].stage = rq[queue[1].req].pc
         /\ \A k \in DOMAIN queue : k # 1 /\ queue[k].req = queue[1].req => ~queue[k].live
<1>1. Waiting(queue[1].req) /\ queue[1] = Job(queue[1].req, rq[queue[1].req])
  BY DEF OneLiveJob
<1>2. queue[1].stage = rq[queue[1].req].pc
  BY <1>1 DEF Job
<1>3. QED BY <1>1, <1>2 DEF OneLiveJob

\* Taking a job off the queue leaves every caller with at most the one job it waits for.
LEMMA ExecLive ==
  ASSUME TypeOK, OneLiveJob, InOrder, Exec
  PROVE  OneLiveJob'
<1>1. /\ 1 \in DOMAIN queue /\ queue[1] \in Jobs /\ Executed(queue[1])
      /\ \A k \in DOMAIN queue' : k + 1 \in DOMAIN queue /\ queue'[k] = queue[k + 1] /\ k \in Nat \ {0}
      /\ \A k \in DOMAIN queue : k # 1 => k - 1 \in DOMAIN queue' /\ queue'[k - 1] = queue[k]
      /\ \A k \in DOMAIN queue : k \in Nat \ {0}
  BY ExecEffect
<1> DEFINE j == queue[1]
<1>2. j.req \in Reqs /\ j.live \in BOOLEAN /\ (j.stage = "name" => j.live)
  BY <1>1, JobInQueue DEF InOrder
<1>3. j.live => /\ \A x \in Reqs : x = j.req => ~Waiting(x)'
                /\ \A k \in DOMAIN queue : k # 1 /\ queue[k].req = j.req => ~queue[k].live
  BY <1>1, HeadLive DEF Executed, Waiting
<1>4. ASSUME NEW x \in Reqs, x # j.req \/ ~j.live
      PROVE  Waiting(x)' = Waiting(x) /\ Job(x, rq'[x]) = Job(x, rq[x])
  <2> HIDE DEF j
  <2>1. Executed(j)
    BY <1>1 DEF j
  <2>2. /\ rq'[x].pc = rq[x].pc /\ rq'[x].ans = rq[x].ans /\ rq'[x].ck = rq[x].ck
        /\ rq'[x].prev = rq[x].prev /\ rq'[x].thy = rq[x].thy
    BY <1>2, <1>4, <2>1 DEF Executed
  <2>3. QED BY <2>2 DEF Waiting, Running, Job
<1>5. \A x \in Reqs : rq'[x].pc = rq[x].pc
  BY <1>1 DEF Executed
<1> HIDE DEF j
<1>6. ASSUME NEW k \in DOMAIN queue', NEW x \in Reqs, x = queue'[k].req
      PROVE  rq'[x].pc # "new" /\ (queue'[k].live => Waiting(x)' /\ queue'[k] = Job(x, rq'[x]))
  <2>1. k + 1 \in DOMAIN queue /\ queue'[k] = queue[k + 1] /\ k + 1 # 1
    BY <1>1
  <2>2. rq[x].pc # "new" /\ (queue[k + 1].live => Waiting(x) /\ queue[k + 1] = Job(x, rq[x]))
    BY <1>6, <2>1 DEF OneLiveJob
  <2>3. CASE j.live /\ x = j.req
    BY <1>3, <1>5, <1>6, <2>1, <2>2, <2>3
  <2>4. CASE x # j.req \/ ~j.live
    BY <1>4, <1>5, <2>1, <2>2, <2>4
  <2>5. QED BY <1>2, <2>3, <2>4
<1>7. ASSUME NEW x \in Reqs, Waiting(x)' PROVE \E k \in DOMAIN queue' : queue'[k].req = x /\ queue'[k].live
  <2>1. x # j.req \/ ~j.live
    BY <1>2, <1>3, <1>7
  <2>2. Waiting(x)
    BY <1>4, <1>7, <2>1
  <2>3. PICK k \in DOMAIN queue : queue[k].req = x /\ queue[k].live
    BY <2>2 DEF OneLiveJob
  <2>4. k # 1
    BY <2>1, <2>3 DEF j
  <2>5. QED BY <1>1, <2>3, <2>4
<1>8. ASSUME NEW i \in DOMAIN queue', NEW k \in DOMAIN queue', queue'[i].live, queue'[k].live,
             queue'[i].req = queue'[k].req
      PROVE  i = k
  <2>1. i + 1 = k + 1 /\ i \in Nat /\ k \in Nat
    BY <1>1, <1>8 DEF OneLiveJob
  <2>2. QED BY <2>1
<1>9. \A k \in DOMAIN queue' : queue'[k].req \in Reqs
  BY <1>1, JobInQueue
<1>10. QED BY <1>6, <1>7, <1>8, <1>9 DEF OneLiveJob

\* Executing a job: a load's reset is still queued once, and not executed before it is.
LEMMA ExecReset ==
  ASSUME TypeOK, OneLiveJob, OneReset, InOrder, Exec
  PROVE  OneReset'
<1>1. /\ 1 \in DOMAIN queue /\ queue[1] \in Jobs /\ Executed(queue[1])
      /\ \A k \in DOMAIN queue' : k + 1 \in DOMAIN queue /\ queue'[k] = queue[k + 1] /\ k \in Nat \ {0}
  BY ExecEffect
<1>2. queue[1].req \in Reqs /\ queue[1].live \in BOOLEAN
  BY <1>1, JobInQueue
<1>3. \A x \in Reqs : rq'[x].pc \in {"new", "reset"} => ~rq'[x].cleared
  BY <1>1 DEF Executed, OneReset
<1>4. ASSUME NEW k \in DOMAIN queue', queue'[k].stage = "reset"
      PROVE  LET q == rq'[queue'[k].req]
             IN  ~q.cleared /\ (q.pc = "done" \/ (q.pc = "reset" /\ q.ans \in {"none", "timeout"}))
  <2>1. k + 1 \in DOMAIN queue /\ queue'[k] = queue[k + 1] /\ k + 1 # 1
    BY <1>1
  <2> DEFINE x == queue[k + 1].req
  <2>2. x \in Reqs
    BY <2>1, JobInQueue
  <2>3. /\ ~rq[x].cleared
        /\ rq[x].pc = "done" \/ (rq[x].pc = "reset" /\ rq[x].ans \in {"none", "timeout"})
    BY <1>4, <2>1 DEF OneReset
  <2>4. rq'[x].cleared = rq[x].cleared /\ rq'[x].pc = rq[x].pc
    BY <1>1, <2>2 DEF Executed
  <2>5. rq[x].pc = "reset" => rq'[x].ans = rq[x].ans
    <3>1. CASE x # queue[1].req \/ ~queue[1].live
      BY <1>1, <2>2, <3>1 DEF Executed
    <3>2. CASE x = queue[1].req /\ queue[1].live
      <4>1. queue[1].stage = rq[x].pc
        BY <1>1, <3>2, HeadLive
      <4>2. queue[1].stage # "reset"
        BY <1>1, <1>4, <2>1, <3>2 DEF OneReset
      <4>3. QED BY <4>1, <4>2
    <3>3. QED BY <1>2, <3>1, <3>2
  <2>6. QED BY <2>1, <2>3, <2>4, <2>5
<1>5. ASSUME NEW i \in DOMAIN queue', NEW k \in DOMAIN queue', queue'[i].stage = "reset",
             queue'[k].stage = "reset", queue'[i].req = queue'[k].req
      PROVE  i = k
  <2>1. i + 1 = k + 1 /\ i \in Nat /\ k \in Nat
    BY <1>1, <1>5 DEF OneReset
  <2>2. QED BY <2>1
<1>6. QED BY <1>3, <1>4, <1>5 DEF OneReset

\* Executing a job: every request is at a call of its own operation.
LEMMA ExecOrder ==
  ASSUME TypeOK, OneLiveJob, InOrder, Exec
  PROVE  InOrder'
<1>1. /\ 1 \in DOMAIN queue /\ queue[1] \in Jobs /\ Executed(queue[1])
      /\ \A k \in DOMAIN queue' : k + 1 \in DOMAIN queue /\ queue'[k] = queue[k + 1] /\ k \in Nat \ {0}
  BY ExecEffect
<1> DEFINE Ordered(q) == /\ q.op = "none" <=> q.pc = "new"
                         /\ q.pc = "new" => ~q.alone /\ q.ans = "none"
                         /\ q.pc \in {"new", "name"} => q.ck = None
                         /\ q.pc # "done" => ~q.ok
                         /\ q.op = "load" => q.pc \in LoadCalls \cup {"done"}
                         /\ q.op = "big" => q.pc \in BigCalls \cup {"done"}
           Fits(j, q) == /\ q.op = "load" => j.stage \in LoadCalls
                         /\ q.op = "big" => j.stage \in BigCalls
                         /\ j.stage = "reset" => q.op = "load"
                         /\ j.stage = "name" => q.op = "big" /\ j.live
                         /\ q.pc = "name" => j.stage = "name"
                         /\ q.op = "load" /\ ~j.live => IF q.pc = "done" THEN ~q.ok ELSE q.ans = "timeout"
<1>2. (\A x \in Reqs : Ordered(rq[x])) /\ \A k \in DOMAIN queue : Fits(queue[k], rq[queue[k].req])
  BY DEF InOrder
<1>3. queue[1].req \in Reqs /\ queue[1].live \in BOOLEAN /\ rq[queue[1].req].pc # "new"
  BY <1>1, JobInQueue DEF OneLiveJob
<1>4. ASSUME NEW x \in Reqs PROVE Ordered(rq'[x])
  <2>1. Ordered(rq[x])
    BY <1>2
  <2>2. /\ rq'[x].op = rq[x].op /\ rq'[x].pc = rq[x].pc /\ rq'[x].ok = rq[x].ok
        /\ rq[x].pc = "new" => rq'[x].alone = FALSE /\ rq'[x].ans = rq[x].ans
    BY <1>1, <1>3 DEF Executed
  <2>3. rq[x].pc \in {"new", "name"} => rq'[x].ck = rq[x].ck
    <3>1. CASE x = queue[1].req /\ queue[1].live
      BY <1>1, <1>3, <3>1, HeadLive DEF Executed
    <3>2. CASE x # queue[1].req \/ ~queue[1].live
      BY <1>1, <3>2 DEF Executed
    <3>3. QED BY <1>3, <3>1, <3>2
  <2>4. QED BY <2>1, <2>2, <2>3
<1>5. ASSUME NEW k \in DOMAIN queue' PROVE Fits(queue'[k], rq'[queue'[k].req])
  <2>1. k + 1 \in DOMAIN queue /\ queue'[k] = queue[k + 1] /\ k + 1 # 1
    BY <1>1
  <2> DEFINE x == queue[k + 1].req
  <2>2. x \in Reqs /\ Fits(queue[k + 1], rq[x])
    BY <1>2, <2>1, JobInQueue
  <2>3. rq'[x].op = rq[x].op /\ rq'[x].pc = rq[x].pc /\ rq'[x].ok = rq[x].ok
    BY <1>1, <2>2 DEF Executed
  <2>4. rq[x].ans = "timeout" => rq'[x].ans = "timeout"
    <3>1. CASE x = queue[1].req /\ queue[1].live
      BY <1>1, <3>1, HeadLive DEF Waiting
    <3>2. CASE x # queue[1].req \/ ~queue[1].live
      BY <1>1, <2>2, <3>2 DEF Executed
    <3>3. QED BY <1>3, <3>1, <3>2
  <2>5. QED BY <2>1, <2>2, <2>3, <2>4
<1>6. QED BY <1>4, <1>5 DEF InOrder

\* Executing a job keeps the invariant of the calls.
LEMMA ExecStep ==
  ASSUME CountInv, Exec
  PROVE  CountInv'
<1>1. TypeOK /\ OneLiveJob /\ Counted /\ OneReset /\ InOrder /\ BookkeepingCurrent
  BY DEF CountInv
<1>2. /\ queue' \in Seq(Jobs) /\ 1 \in DOMAIN queue /\ queue[1] \in Jobs /\ Executed(queue[1])
      /\ \A k \in DOMAIN queue' : k + 1 \in DOMAIN queue /\ queue'[k] = queue[k + 1]
      /\ docs' \in [Theories -> Seq(Reqs)] /\ thys' \subseteq Theories /\ cur' \in thys' \cup {NoThy}
      /\ saved' \in Seq(Texts) /\ epoch' \in Nat /\ resetter' \in Reqs \cup {NoReq}
      /\ queue[1].stage # "reset" => epoch' = epoch /\ resetter' = resetter
      /\ queue[1].stage = "reset" => resetter' = queue[1].req
      /\ UNCHANGED <<book, entered_thy, active>>
  BY <1>1, ExecEffect
<1>3. /\ rq' \in [Reqs -> Requests] /\ queue[1].req \in Reqs /\ NoReq \notin Reqs
      /\ \A x \in Reqs : /\ rq'[x].op = rq[x].op /\ rq'[x].pc = rq[x].pc /\ rq'[x].thy = rq[x].thy
                         /\ rq'[x].cleared = rq[x].cleared
  BY <1>1, <1>2, JobInQueue, OpsAssumption DEF Executed
<1>4. TypeOK'
  <2>1. \A x \in Reqs : Running(x)' /\ rq'[x].op \in {"load", "enter", "big"} => rq'[x].thy \in Theories
    BY <1>1, <1>3 DEF TypeOK, Running
  <2>2. \A k \in DOMAIN queue' :
           /\ queue'[k].stage \in {"enter", "reenter"} => queue'[k].thy \in Theories
           /\ queue'[k].stage \in {"restore", "undo"} => queue'[k].id \in Nat
    BY <1>1, <1>2 DEF TypeOK
  <2>3. QED BY <1>1, <1>2, <1>3, <2>1, <2>2 DEF TypeOK
<1>5. Counted'
  <2>1. CountedIn' = CountedIn
    BY <1>3 DEF CountedIn, Running
  <2>2. QED BY <1>1, <1>2, <2>1 DEF Counted
<1>6. BookkeepingCurrent'
  <2>1. CASE queue[1].stage = "reset"
    <3>1. ~rq[queue[1].req].cleared
      BY <1>1, <1>2, <2>1 DEF OneReset
    <3>2. resetter' # NoReq /\ ~rq'[resetter'].cleared
      BY <1>2, <1>3, <2>1, <3>1
    <3>3. QED BY <3>2 DEF BookkeepingCurrent
  <2>2. CASE queue[1].stage # "reset"
    BY <1>1, <1>2, <1>3, <2>2 DEF BookkeepingCurrent, TypeOK
  <2>3. QED BY <2>1, <2>2
<1>7. QED BY <1>1, <1>4, <1>5, <1>6, ExecLive, ExecReset, ExecOrder DEF CountInv

-----------------------------------------------------------------------------
(* The invariant of the calls.                                             *)

\* The invariant of the calls holds when the session is new.
LEMMA CountInit == Init => CountInv
<1> SUFFICES ASSUME Init PROVE CountInv
  OBVIOUS
<1>1. /\ docs = [t \in Theories |-> <<>>] /\ thys = {} /\ cur = NoThy
      /\ saved = <<>> /\ epoch = 0 /\ queue = <<>>
      /\ rq = [r \in Reqs |-> Fresh]
      /\ book = {} /\ entered_thy = NoThy /\ active = 0 /\ resetter = NoReq
  BY DEF Init
<1>2. \A r \in Reqs : rq[r] = Fresh
  BY <1>1
<1>3. /\ Fresh.op = "none" /\ Fresh.pc = "new" /\ Fresh.ck = None /\ Fresh.ans = "none"
      /\ Fresh.ok = FALSE /\ Fresh.alone = FALSE /\ Fresh.cleared = FALSE
  BY DEF Fresh
<1>4. DOMAIN queue = {} /\ queue \in Seq(Jobs) /\ saved \in Seq(Texts)
  BY <1>1
<1>5. \A r \in Reqs : ~Running(r) /\ ~Waiting(r)
  BY <1>2, <1>3 DEF Running, Waiting
<1>6. TypeOK
  BY <1>1, <1>4, <1>5, FreshType DEF TypeOK
<1>7. Counted
  <2>1. CountedIn = {}
    BY <1>5 DEF CountedIn
  <2>2. QED BY <1>1, <2>1, FS_EmptySet DEF Counted
<1>8. OneLiveJob /\ OneReset
  BY <1>2, <1>3, <1>4, <1>5 DEF OneLiveJob, OneReset
<1>9. InOrder
  BY <1>2, <1>3, <1>4 DEF InOrder
<1>10. BookkeepingCurrent
  BY <1>1 DEF BookkeepingCurrent
<1>11. QED BY <1>6, <1>7, <1>8, <1>9, <1>10 DEF CountInv

\* A step of a request, the start and the end included, keeps the invariant of the calls.
LEMMA StepCounts ==
  ASSUME CountInv, NEW r \in Reqs, Step(r)
  PROVE  CountInv'
<1>1. TypeOK /\ OneLiveJob /\ Counted /\ OneReset /\ InOrder /\ BookkeepingCurrent
  BY DEF CountInv
<1>2. /\ \/ Refused(r) \/ (Ends(r) /\ Outcome(r))
         \/ \E s \in Stages : Opens(r, s) \/ (Continues(r, s) /\ GoesOn(r, s))
      /\ BookKept
  BY <1>1, StepShape
<1>3. Refused(r) \/ Ends(r) \/ \E s \in Stages : Opens(r, s) \/ Continues(r, s)
  BY <1>2
<1>4. \/ Refused(r) \/ Ends(r)
      \/ \E s \in Stages : Opens(r, s) \/ (Continues(r, s) /\ GoesOn(r, s))
  BY <1>2
<1>5. TypeOK'
  BY <1>1, TypeStep
<1>6. OneLiveJob' /\ Counted'
  BY <1>1, <1>3, LiveStep, CountStep
<1>7. OneReset'
  BY <1>1, <1>4, ResetStep
<1>8. InOrder'
  BY <1>1, <1>2, OrderStep
<1>9. BookkeepingCurrent'
  BY <1>1, <1>2, <1>3, BookStep
<1>10. QED BY <1>5, <1>6, <1>7, <1>8, <1>9 DEF CountInv

\* A stuttering step keeps the invariant of the calls.
LEMMA CountStutters ==
  ASSUME CountInv, UNCHANGED vars
  PROVE  CountInv'
<1>1. /\ docs' = docs /\ thys' = thys /\ cur' = cur /\ saved' = saved /\ epoch' = epoch
      /\ queue' = queue /\ rq' = rq /\ book' = book /\ entered_thy' = entered_thy
      /\ active' = active /\ resetter' = resetter
  BY DEF vars
<1>2. TypeOK' = TypeOK
  BY <1>1 DEF TypeOK, Running
<1>3. OneLiveJob' = OneLiveJob
  BY <1>1 DEF OneLiveJob, Waiting, Running
<1>4. Counted' = Counted
  BY <1>1 DEF Counted, CountedIn, Running
<1>5. OneReset' = OneReset /\ InOrder' = InOrder /\ BookkeepingCurrent' = BookkeepingCurrent
  BY <1>1 DEF OneReset, InOrder, BookkeepingCurrent
<1>6. QED BY <1>2, <1>3, <1>4, <1>5 DEF CountInv

\* Every step keeps the invariant of the calls.
LEMMA CountNext == CountInv /\ [Next]_vars => CountInv'
<1> SUFFICES ASSUME CountInv, [Next]_vars PROVE CountInv'
  OBVIOUS
<1>1. CASE Exec
  BY <1>1, ExecStep
<1>2. ASSUME NEW r \in Reqs, Timeout(r) PROVE CountInv'
  BY <1>2, TimeoutStep
<1>3. ASSUME NEW r \in Reqs, Step(r) PROVE CountInv'
  BY <1>3, StepCounts
<1>4. CASE UNCHANGED vars
  BY <1>4, CountStutters
<1>5. QED BY <1>1, <1>2, <1>3, <1>4 DEF Next

\* The invariant of the calls holds in every reachable state.
LEMMA AlwaysCounted == Spec => []CountInv
BY CountInit, CountNext, PTL DEF Spec

\* The types, whatever requests meet.
THEOREM Typed == Spec => []TypeOK
<1>1. CountInv => TypeOK
  BY DEF CountInv
<1>2. QED BY <1>1, AlwaysCounted, PTL

\* Every operation that counts itself in (_acquire_request) counts itself out, also when
\* a call times out, fails or raises; and a caller waits for one job of the worker.
THEOREM RequestsAccounted == Spec => []RequestsCounted
<1>1. ASSUME CountInv PROVE RequestsCounted
  <2>1. TypeOK /\ OneLiveJob /\ Counted
    BY <1>1 DEF CountInv
  <2>2. ASSUME NEW r \in Reqs
        PROVE  Cardinality({k \in DOMAIN queue : queue[k].req = r /\ queue[k].live})
                 = IF Running(r) /\ rq[r].ans = "none" THEN 1 ELSE 0
    <3> DEFINE S == {k \in DOMAIN queue : queue[k].req = r /\ queue[k].live}
    <3>1. CASE Waiting(r)
      <4>1. PICK k \in DOMAIN queue : queue[k].req = r /\ queue[k].live
        BY <2>1, <3>1 DEF OneLiveJob
      <4>2. S = {k}
        BY <2>1, <4>1 DEF OneLiveJob
      <4>3. Cardinality(S) = 1
        BY <4>2, FS_Singleton
      <4>4. QED BY <3>1, <4>3 DEF Waiting
    <3>2. CASE ~Waiting(r)
      <4>1. S = {}
        BY <2>1, <3>2 DEF OneLiveJob
      <4>2. Cardinality(S) = 0
        BY <4>1, FS_EmptySet
      <4>3. QED BY <3>2, <4>2 DEF Waiting
    <3>3. QED BY <3>1, <3>2
  <2>3. QED BY <2>1, <2>2 DEF RequestsCounted, Counted, CountedIn
<1>2. QED BY <1>1, AlwaysCounted, PTL

\* What the Python side keeps belongs to the backend session of now, but for a load that
\* is not back from its reset and for answers that crossed one.
THEOREM BookCurrent == Spec => []BookkeepingCurrent
<1>1. CountInv => BookkeepingCurrent
  BY DEF CountInv
<1>2. QED BY <1>1, AlwaysCounted, PTL

-----------------------------------------------------------------------------
(* load_document.                                                          *)

\* A load that was not touched is as far as it was.
LEMMA LoadKept ==
  ASSUME NEW x \in Reqs, LoadOnItsWay(x), rq'[x].op = rq[x].op, rq'[x].pc = rq[x].pc,
         rq'[x].thy = rq[x].thy, rq'[x].ans = rq[x].ans, rq'[x].ok = rq[x].ok,
         rq'[x].alone => /\ rq[x].alone /\ docs' = docs /\ thys' = thys /\ cur' = cur
                         /\ entered_thy' = entered_thy
  PROVE  LoadOnItsWay(x)'
<1> SUFFICES ASSUME rq'[x].alone PROVE LoadOnItsWay(x)'
  BY DEF LoadOnItsWay
<1>1. rq[x].alone /\ docs' = docs /\ thys' = thys /\ cur' = cur /\ entered_thy' = entered_thy
  OBVIOUS
<1>2. QED BY <1>1 DEF LoadOnItsWay

\* A load stays on its way when a request, itself or another, makes its next call.
LEMMA LoadStep ==
  ASSUME CountInv, LoadProgress, NEW r \in Reqs, Step(r)
  PROVE  LoadProgress'
<1>1. TypeOK /\ InOrder
  BY DEF CountInv
<1>2. \/ Refused(r) \/ (Ends(r) /\ Outcome(r))
      \/ \E s \in Stages : Opens(r, s) \/ (Continues(r, s) /\ GoesOn(r, s))
  BY <1>1, StepShape
<1>3. Others(r) /\ docs' = docs /\ thys' = thys /\ cur' = cur
  BY <1>2 DEF Refused, Ends, Opens, Continues, Calls, Others, backendVars
<1>4. ASSUME NEW x \in Reqs \ {r} PROVE LoadOnItsWay(x)'
  <2>1. LoadOnItsWay(x)
    BY DEF LoadProgress
  <2>2. QED BY <1>3, <2>1, LoadKept DEF Others
<1>5. LoadOnItsWay(r)'
  <2>1. LoadOnItsWay(r) /\ (rq[r].pc = "new" => ~rq[r].alone)
    BY <1>1 DEF LoadProgress, InOrder
  <2>2. CASE Refused(r)
    BY <2>2 DEF Refused, LoadOnItsWay
  <2>3. CASE Ends(r) /\ Outcome(r)
    BY <1>3, <2>1, <2>3 DEF Ends, Outcome, Running, LoadOnItsWay
  <2>4. ASSUME NEW s \in Stages, Opens(r, s) PROVE LoadOnItsWay(r)'
    BY <2>1, <2>4 DEF Opens, Calls, LoadOnItsWay
  <2>5. ASSUME NEW s \in Stages, Continues(r, s), GoesOn(r, s) PROVE LoadOnItsWay(r)'
    <3>1. SUFFICES ASSUME rq[r].op = "load" PROVE LoadOnItsWay(r)'
      BY <2>5 DEF Continues, LoadOnItsWay
    <3>2. /\ LoadGoesOn(r, s) /\ rq'[r].pc = s /\ rq'[r].ans = "none" /\ rq'[r].op = "load"
          /\ rq'[r].thy = rq[r].thy /\ rq'[r].alone = rq[r].alone
      BY <2>5, <3>1 DEF GoesOn, BigGoesOn, Continues, Calls
    <3>3. QED BY <1>3, <2>1, <3>2 DEF LoadGoesOn, LoadOnItsWay
  <2>6. QED BY <1>2, <2>2, <2>3, <2>4, <2>5
<1>6. QED BY <1>4, <1>5 DEF LoadProgress

\* A load stays on its way when a call is given up.
LEMMA LoadTimeout ==
  ASSUME CountInv, LoadProgress, NEW r \in Reqs, Timeout(r)
  PROVE  LoadProgress'
<1>1. /\ \A x \in Reqs \ {r} : rq'[x] = rq[x]
      /\ rq'[r].ans = "timeout" /\ rq'[r].pc = rq[r].pc /\ rq[r].pc # "done"
      /\ docs' = docs /\ thys' = thys /\ cur' = cur /\ entered_thy' = entered_thy
  BY TimeoutEffect DEF CountInv, Timeout, backendVars, Running
<1>2. ASSUME NEW x \in Reqs \ {r} PROVE LoadOnItsWay(x)'
  <2>1. LoadOnItsWay(x)
    BY DEF LoadProgress
  <2>2. QED BY <1>1, <2>1, LoadKept
<1>3. LoadOnItsWay(r)'
  BY <1>1 DEF LoadOnItsWay
<1>4. QED BY <1>2, <1>3 DEF LoadProgress

\* A quiet job leaves the documents as they are.
LEMMA QuietJob ==
  ASSUME NEW j, Run(j), j.stage \in Quiet
  PROVE  UNCHANGED <<docs, thys, cur>>
BY DEF Run, Quiet, Edits, Save, Name, Probe

\* A job of the load itself.
LEMMA LoadJob ==
  ASSUME CountInv, LoadProgress, Exec
  PROVE  \A x \in Reqs : x = queue[1].req => LoadOnItsWay(x)'
<1> DEFINE j == queue[1]
<1> SUFFICES ASSUME NEW x \in Reqs, x = j.req PROVE LoadOnItsWay(x)'
  OBVIOUS
<1>1. TypeOK /\ InOrder /\ OneLiveJob /\ LoadOnItsWay(x)
  BY DEF CountInv, LoadProgress
<1>2. /\ 1 \in DOMAIN queue /\ j \in Jobs /\ Run(j) /\ Executed(j)
      /\ docs \in [Theories -> Seq(Reqs)] /\ NoThy \notin Theories
      /\ entered_thy' = entered_thy /\ j.live \in BOOLEAN
  BY <1>1, ExecEffect, JobInQueue, OpsAssumption DEF TypeOK
<1>3. /\ rq'[x].op = rq[x].op /\ rq'[x].pc = rq[x].pc /\ rq'[x].thy = rq[x].thy
      /\ rq'[x].ok = rq[x].ok /\ (~j.live => rq'[x].ans = rq[x].ans)
      /\ j.stage \notin {"reset", "name"} => rq'[x].alone = rq[x].alone
  BY <1>2 DEF Executed
<1>4. SUFFICES ASSUME rq[x].op = "load" PROVE LoadOnItsWay(x)'
  BY <1>3 DEF LoadOnItsWay
<1>5. CASE ~j.live
  <2>1. IF rq[x].pc = "done" THEN ~rq[x].ok ELSE rq[x].ans = "timeout"
    BY <1>1, <1>2, <1>4, <1>5 DEF InOrder
  <2>2. QED BY <1>3, <1>5, <2>1 DEF LoadOnItsWay
<1>6. CASE j.live
  <2>1. /\ rq[x].ans = "none" /\ rq[x].pc \notin {"new", "done"} /\ j.stage = rq[x].pc
        /\ j.thy = IF rq[x].pc = "reenter" THEN rq[x].prev ELSE rq[x].thy
    <3>1. Waiting(x) /\ j = Job(x, rq[x])
      BY <1>1, <1>2, <1>6, HeadLive
    <3>2. QED BY <3>1 DEF Waiting, Running, Job
  <2>2. j.stage \in LoadCalls /\ rq[x].thy \in Theories
    BY <1>1, <1>2, <1>4, <2>1 DEF InOrder, TypeOK, Running
  <2>3. CASE j.stage = "reset"
    <3>1. Reset(j)
      BY <1>2, <2>3 DEF Run, Edits
    <3>2. rq'[x].ans = "ok"
      <4> DEFINE c == Answer(j, "ok")
      <4>1. c \in Requests /\ c.ans = "ok"
        BY <1>1, <1>2, <1>6, AnswerType
      <4>2. Reply(j, [c EXCEPT !.alone = TRUE])
        BY <3>1 DEF Reset
      <4> HIDE DEF c
      <4>3. [c EXCEPT !.alone = TRUE] \in Requests /\ [c EXCEPT !.alone = TRUE].ans = "ok"
        BY <4>1 DEF Requests
      <4> HIDE DEF j
      <4>4. QED BY <1>1, <1>2, <4>2, <4>3, ReplyEffect
    <3>3. thys' = {} /\ docs'[rq[x].thy] = <<>>
      BY <2>2, <3>1 DEF Reset
    <3>4. QED BY <1>3, <2>1, <2>3, <3>2, <3>3 DEF LoadOnItsWay
  <2>4. CASE j.stage = "enter"
    <3>1. thys' = thys \cup {rq[x].thy} /\ cur' = rq[x].thy /\ docs' = docs
      BY <1>2, <2>1, <2>4 DEF Run, Edits, Enter
    <3>2. docs[rq[x].thy] = <<>> => \A k \in DOMAIN docs[rq[x].thy] : docs[rq[x].thy][k] = x
      OBVIOUS
    <3>3. rq'[x].ans \in {"ok", "failed"}
      BY <1>2, <1>6 DEF Executed
    <3>4. rq[x].alone => docs[rq[x].thy] = <<>> /\ thys = {} /\ entered_thy = rq[x].thy
      BY <1>1, <1>4, <2>1, <2>4 DEF LoadOnItsWay
    <3>5. QED BY <1>2, <1>3, <2>1, <2>4, <3>1, <3>2, <3>3, <3>4, ZenonT(40) DEF LoadOnItsWay
  <2>5. CASE j.stage \in {"header", "text"}
    <3>1. SUFFICES ASSUME rq'[x].alone PROVE LoadOnItsWay(x)'
      BY DEF LoadOnItsWay
    <3>2. /\ rq[x].alone /\ thys = {rq[x].thy} /\ cur = rq[x].thy /\ entered_thy = rq[x].thy
          /\ \A k \in DOMAIN docs[cur] : docs[cur][k] = x
      BY <1>1, <1>3, <1>4, <2>1, <2>5, <3>1, ZenonT(40) DEF LoadOnItsWay
    <3>3. PICK a \in {"ok", "failed"}, kept \in BOOLEAN :
            /\ a = "ok" => kept
            /\ docs' = IF kept THEN [docs EXCEPT ![cur] = Append(@, j.req)] ELSE docs
            /\ Reply(j, Answer(j, a))
      BY <1>2, <2>5 DEF Run, Edits, Edit
    <3>4. thys' = thys /\ cur' = cur
      BY <1>2, <2>5 DEF Run, Edits, Edit
    <3>5. rq'[x].ans = a
      <4> DEFINE c == Answer(j, a)
      <4>1. c \in Requests /\ c.ans = a
        BY <1>1, <1>2, <1>6, AnswerType
      <4>2. Reply(j, c)
        BY <3>3
      <4> HIDE DEF c, j
      <4>3. QED BY <1>1, <1>2, <4>1, <4>2, ReplyEffect
    <3>6. /\ \A k \in DOMAIN docs'[cur] : docs'[cur][k] = x
          /\ kept => docs'[cur] # <<>>
      <4>1. docs[cur] \in Seq(Reqs) /\ cur \in Theories
        BY <1>2, <2>2, <3>2
      <4>2. CASE kept
        <5>1. docs'[cur] = Append(docs[cur], x)
          BY <1>2, <3>3, <4>1, <4>2
        <5>2. \A k \in DOMAIN docs'[cur] : docs'[cur][k] = x
          <6>1. \A k \in DOMAIN Append(docs[cur], x) : Append(docs[cur], x)[k] = x
            BY <3>2, <4>1, PutSame
          <6>2. QED BY <5>1, <6>1, Zenon
        <5>3. docs'[cur] # <<>>
          BY <4>1, <5>1, PutSome
        <5>4. QED BY <5>2, <5>3
      <4>3. CASE ~kept
        BY <3>2, <3>3, <4>3
      <4>4. QED BY <4>2, <4>3
    <3>7. /\ rq'[x].pc \in {"header", "text"} /\ thys' = {rq'[x].thy} /\ cur' = rq'[x].thy
          /\ entered_thy' = rq'[x].thy /\ cur = rq'[x].thy
      BY <1>2, <1>3, <2>1, <2>5, <3>2, <3>4
    <3>8. rq'[x].pc = "text" /\ rq'[x].ans = "ok" => docs'[cur] # <<>>
      BY <1>3, <2>1, <3>3, <3>5, <3>6
    <3>9. QED BY <3>6, <3>7, <3>8 DEF LoadOnItsWay
  <2>7. QED BY <2>2, <2>3, <2>4, <2>5 DEF LoadCalls
<1>7. QED BY <1>2, <1>5, <1>6

\* A load stays on its way when the worker executes a job of anybody.
LEMMA LoadExec ==
  ASSUME CountInv, LoadProgress, Exec
  PROVE  LoadProgress'
<1>1. /\ Run(queue[1]) /\ Executed(queue[1]) /\ entered_thy' = entered_thy
  BY ExecEffect DEF CountInv
<1>2. ASSUME NEW x \in Reqs, x # queue[1].req PROVE LoadOnItsWay(x)'
  <2>1. LoadOnItsWay(x)
    BY DEF LoadProgress
  <2>2. /\ rq'[x].op = rq[x].op /\ rq'[x].pc = rq[x].pc
        /\ rq'[x].thy = rq[x].thy /\ rq'[x].ans = rq[x].ans /\ rq'[x].ok = rq[x].ok
        /\ rq'[x].alone => rq[x].alone /\ queue[1].stage \in Quiet
    BY <1>1, <1>2 DEF Executed
  <2>3. queue[1].stage \in Quiet => docs' = docs /\ thys' = thys /\ cur' = cur
    BY <1>1, QuietJob
  <2>4. QED BY <1>1, <2>1, <2>2, <2>3, LoadKept
<1>3. QED BY <1>2, LoadJob DEF LoadProgress

\* A load that came to its end without interference left its text and nothing else.
LEMMA LoadIsExact ==
  ASSUME TypeOK, LoadProgress
  PROVE  LoadExact
<1> SUFFICES ASSUME NEW r \in Reqs, rq[r].op = "load", rq[r].pc = "done", rq[r].ok, rq[r].alone
             PROVE  /\ thys = {rq[r].thy} /\ cur = rq[r].thy /\ entered_thy = rq[r].thy
                    /\ {docs[rq[r].thy][k] : k \in DOMAIN docs[rq[r].thy]} = {r}
  BY DEF LoadExact
<1> DEFINE d == docs[rq[r].thy]
<1>1. /\ thys = {rq[r].thy} /\ cur = rq[r].thy /\ entered_thy = rq[r].thy
      /\ d # <<>> /\ \A k \in DOMAIN d : d[k] = r
  BY DEF LoadProgress, LoadOnItsWay
<1>2. d \in Seq(Reqs)
  BY <1>1 DEF TypeOK
<1>3. 1 \in DOMAIN d
  BY <1>1, <1>2
<1>4. {d[k] : k \in DOMAIN d} = {r}
  BY <1>1, <1>3
<1>5. QED BY <1>1, <1>4

-----------------------------------------------------------------------------
(* big_step: where its jobs are in the queue.                              *)

\* The jobs of request x are the same, c places further to the front.
Moved(x, c) ==
  /\ c \in {0, 1}
  /\ \A k \in Mine(x)' : /\ k \in Nat /\ k + c \in Mine(x) /\ queue'[k].stage = queue[k + c].stage
                         /\ queue'[k].id = queue[k + c].id /\ queue'[k].thy = queue[k + c].thy
  /\ \A k \in Mine(x) : /\ k \in Nat /\ k - c \in Mine(x)' /\ queue'[k - c].stage = queue[k].stage
                        /\ queue'[k - c].id = queue[k].id /\ queue'[k - c].thy = queue[k].thy

\* Job n, a new one, comes after the jobs of request x.
Added(x, n) ==
  /\ Mine(x)' = Mine(x) \cup {n} /\ n \in Nat
  /\ \A k \in Mine(x) : k \in Nat /\ k < n /\ queue'[k] = queue[k]

\* The job at the head, one of request x, is taken.
Taken(x) ==
  /\ 1 \in Mine(x)
  /\ \A k \in Mine(x)' : k \in Nat \ {0} /\ k + 1 \in Mine(x) /\ queue'[k] = queue[k + 1]
  /\ \A k \in Mine(x) : /\ k \in Nat \ {0}
                        /\ k # 1 => k - 1 \in Mine(x)' /\ queue'[k - 1] = queue[k]

\* The jobs of a request moved up in the queue: what they will leave is the same.
LEMMA MovedClean ==
  ASSUME NEW x, NEW c, Moved(x, c), WillBeClean(x), Clean(x) => Clean(x)'
  PROVE  WillBeClean(x)'
<1>1. CASE Clean(x) /\ \A k \in Mine(x) : queue[k].stage \notin Edits
  BY <1>1 DEF WillBeClean, Moved
<1>2. CASE \E k \in Mine(x) : /\ queue[k].stage = "undo"
                              /\ \A m \in Mine(x) : m > k => queue[m].stage \notin Edits
  <2>1. PICK k \in Mine(x) : /\ queue[k].stage = "undo"
                             /\ \A m \in Mine(x) : m > k => queue[m].stage \notin Edits
    BY <1>2
  <2>2. k - c \in Mine(x)' /\ queue'[k - c].stage = "undo" /\ k \in Nat /\ c \in Nat
    BY <2>1 DEF Moved
  <2>3. ASSUME NEW m \in Mine(x)', m > k - c PROVE queue'[m].stage \notin Edits
    <3>1. m \in Nat /\ m + c \in Mine(x) /\ queue'[m].stage = queue[m + c].stage
      BY DEF Moved
    <3>2. m + c > k
      BY <2>2, <2>3, <3>1
    <3>3. QED BY <2>1, <3>1, <3>2
  <2>4. QED BY <2>2, <2>3 DEF WillBeClean
<1>3. QED BY <1>1, <1>2 DEF WillBeClean

\* The same for the theory that they will have entered.
LEMMA MovedEntered ==
  ASSUME NEW x, NEW c, NEW t, Moved(x, c), WillBeEntered(x, t), cur' = cur
  PROVE  WillBeEntered(x, t)'
<1> DEFINE e == {k \in Mine(x) : queue[k].stage \in {"enter", "reenter"}}
<1>1. CASE cur = t /\ e = {}
  BY <1>1 DEF WillBeEntered, Moved
<1>2. CASE \E k \in e : queue[k].thy = t /\ \A m \in e : m <= k
  <2>1. PICK k \in e : queue[k].thy = t /\ \A m \in e : m <= k
    BY <1>2
  <2>2. k - c \in e' /\ queue'[k - c].thy = t /\ k \in Nat /\ c \in Nat
    BY <2>1 DEF Moved
  <2>3. ASSUME NEW m \in e' PROVE m <= k - c
    <3>1. m \in Nat /\ m + c \in e
      BY DEF Moved
    <3>2. m + c <= k
      BY <2>1, <3>1
    <3>3. QED BY <2>2, <3>1, <3>2
  <2>4. QED BY <2>2, <2>3 DEF WillBeEntered
<1>3. QED BY <1>1, <1>2 DEF WillBeEntered

\* A job that edits nothing, or the restoration, was queued.
LEMMA AddedClean ==
  ASSUME NEW x, NEW n, Added(x, n), queue'[n].stage \notin Edits, Clean(x) => Clean(x)',
         WillBeClean(x) \/ queue'[n].stage = "undo"
  PROVE  WillBeClean(x)'
<1>1. CASE queue'[n].stage = "undo"
  <2>1. n \in Mine(x)' /\ \A m \in Mine(x)' : ~(m > n)
    BY DEF Added
  <2>2. QED BY <1>1, <2>1 DEF WillBeClean
<1>2. CASE WillBeClean(x)
  BY <1>2 DEF WillBeClean, Added
<1>3. QED BY <1>1, <1>2

\* A job was queued: the theory entered last is the one of the last enter.
LEMMA AddedEntered ==
  ASSUME NEW x, NEW n, NEW t, Added(x, n), cur' = cur,
         IF queue'[n].stage \in {"enter", "reenter"} THEN queue'[n].thy = t ELSE WillBeEntered(x, t)
  PROVE  WillBeEntered(x, t)'
<1> DEFINE e == {k \in Mine(x) : queue[k].stage \in {"enter", "reenter"}}
<1>1. CASE queue'[n].stage \in {"enter", "reenter"}
  <2>1. n \in e' /\ \A m \in e' : m <= n
    BY <1>1 DEF Added
  <2>2. QED BY <1>1, <2>1 DEF WillBeEntered
<1>2. CASE queue'[n].stage \notin {"enter", "reenter"}
  <2>1. e' = e /\ \A k \in e : queue'[k] = queue[k]
    BY <1>2 DEF Added
  <2>2. QED BY <1>2, <2>1 DEF WillBeEntered
<1>3. QED BY <1>1, <1>2

\* The request's own first job was executed.
LEMMA TakenClean ==
  ASSUME NEW x, Taken(x), WillBeClean(x), queue[1].stage = "undo" => Clean(x)',
         queue[1].stage \notin Edits => (Clean(x) => Clean(x)')
  PROVE  WillBeClean(x)'
<1>1. CASE Clean(x) /\ \A k \in Mine(x) : queue[k].stage \notin Edits
  BY <1>1 DEF WillBeClean, Taken
<1>2. CASE \E k \in Mine(x) : /\ queue[k].stage = "undo"
                              /\ \A m \in Mine(x) : m > k => queue[m].stage \notin Edits
  <2>1. PICK k \in Mine(x) : /\ queue[k].stage = "undo"
                             /\ \A m \in Mine(x) : m > k => queue[m].stage \notin Edits
    BY <1>2
  <2>2. k \in Nat \ {0}
    BY DEF Taken
  <2>3. ASSUME NEW m \in Mine(x)', m > k - 1 PROVE queue'[m].stage \notin Edits
    <3>1. m \in Nat /\ m + 1 \in Mine(x) /\ queue'[m] = queue[m + 1]
      BY DEF Taken
    <3>2. m + 1 > k
      BY <2>2, <2>3, <3>1
    <3>3. QED BY <2>1, <3>1, <3>2
  <2>4. CASE k = 1
    <3>1. \A m \in Mine(x)' : m > k - 1
      BY <2>4 DEF Taken
    <3>2. QED BY <2>1, <2>3, <2>4, <3>1 DEF WillBeClean
  <2>5. CASE k # 1
    <3>1. k - 1 \in Mine(x)' /\ queue'[k - 1].stage = "undo"
      BY <2>1, <2>5 DEF Taken
    <3>2. QED BY <2>3, <3>1 DEF WillBeClean
  <2>6. QED BY <2>4, <2>5
<1>3. QED BY <1>1, <1>2 DEF WillBeClean

\* The same for the theory that the jobs left will have entered.
LEMMA TakenEntered ==
  ASSUME NEW x, NEW t, Taken(x), WillBeEntered(x, t),
         cur' = IF queue[1].stage \in {"enter", "reenter"} THEN queue[1].thy ELSE cur
  PROVE  WillBeEntered(x, t)'
<1> DEFINE e == {k \in Mine(x) : queue[k].stage \in {"enter", "reenter"}}
<1>1. CASE cur = t /\ e = {}
  BY <1>1 DEF WillBeEntered, Taken
<1>2. CASE \E k \in e : queue[k].thy = t /\ \A m \in e : m <= k
  <2>1. PICK k \in e : queue[k].thy = t /\ \A m \in e : m <= k
    BY <1>2
  <2>2. k \in Nat \ {0}
    BY DEF Taken
  <2>3. ASSUME NEW m \in e' PROVE m \in Nat \ {0} /\ m <= k - 1
    <3>1. m \in Nat \ {0} /\ m + 1 \in e
      BY DEF Taken
    <3>2. m + 1 <= k
      BY <2>1, <3>1
    <3>3. QED BY <2>2, <3>1, <3>2
  <2>4. CASE k = 1
    <3>1. e' = {}
      BY <2>3, <2>4
    <3>2. cur' = t
      BY <2>1, <2>4
    <3>3. QED BY <3>1, <3>2 DEF WillBeEntered
  <2>5. CASE k # 1
    <3>1. k - 1 \in e' /\ queue'[k - 1].thy = t
      BY <2>1, <2>5 DEF Taken
    <3>2. QED BY <2>3, <3>1 DEF WillBeEntered
  <2>6. QED BY <2>4, <2>5
<1>3. QED BY <1>1, <1>2 DEF WillBeEntered

\* A saved state stays what it is.
LEMMA SavedKept ==
  ASSUME NEW x, NEW i, NEW e \in Texts, saved \in Seq(Texts), saved' \in {saved, Append(saved, e)},
         rq'[x].base = rq[x].base, SavedBase(x, i)
  PROVE  SavedBase(x, i)'
<1>1. i \in Nat /\ i < Len(saved) /\ saved[i + 1] = rq[x].base
  BY DEF SavedBase, Holds
<1>2. i < Len(saved') /\ saved'[i + 1] = saved[i + 1]
  BY <1>1
<1>3. QED BY <1>1, <1>2 DEF SavedBase, Holds

\* A big step that was not touched is as far as it was.
LEMMA BigKept ==
  ASSUME TypeOK, NEW x \in Reqs, BigOnItsWay(x), NEW c, Moved(x, c), NEW e \in Texts,
         saved' \in {saved, Append(saved, e)},
         rq'[x].op = rq[x].op, rq'[x].pc = rq[x].pc, rq'[x].thy = rq[x].thy, rq'[x].ck = rq[x].ck,
         rq'[x].prev = rq[x].prev, rq'[x].ok = rq[x].ok, rq'[x].base = rq[x].base,
         rq'[x].ans = "ok" => rq[x].ans = "ok", rq[x].ans = "ok" => rq'[x].ans = "ok",
         rq'[x].alone => /\ rq[x].alone /\ docs' = docs /\ thys' = thys /\ cur' = cur
                         /\ entered_thy' = entered_thy
  PROVE  BigOnItsWay(x)'
<1> SUFFICES ASSUME rq'[x].op = "big", rq'[x].alone PROVE BigOnItsWay(x)'
  BY DEF BigOnItsWay
<1>1. rq[x].alone /\ docs' = docs /\ thys' = thys /\ cur' = cur /\ entered_thy' = entered_thy
  OBVIOUS
<1>2. \A i : SavedBase(x, i) => SavedBase(x, i)'
  BY SavedKept DEF TypeOK
<1>3. Clean(x) => Clean(x)'
  BY <1>1 DEF Clean
<1>4. WillBeClean(x) => WillBeClean(x)'
  BY <1>3, MovedClean
<1>5. \A t : WillBeEntered(x, t) => WillBeEntered(x, t)'
  BY <1>1, MovedEntered
<1>6. ASSUME NEW k \in Mine(x)'
      PROVE  /\ rq[x].pc \in {"name", "save"} => queue'[k].stage = "save"
             /\ \A i : queue'[k].stage = "undo" /\ i = queue'[k].id => SavedBase(x, i)'
  <2>1. k + c \in Mine(x) /\ queue'[k].stage = queue[k + c].stage /\ queue'[k].id = queue[k + c].id
    BY DEF Moved
  <2>2. queue[k + c].stage = "undo" => SavedBase(x, queue[k + c].id)
    BY <1>1, <2>1 DEF BigOnItsWay
  <2>3. QED BY <1>1, <1>2, <2>1, <2>2 DEF BigOnItsWay
<1>7. rq'[x].pc \in {"name", "save"} =>
         /\ thys' = DOMAIN rq'[x].base /\ Clean(x)' /\ cur' = rq'[x].prev
         /\ \A k \in Mine(x)' : queue'[k].stage = "save"
  <2>1. SUFFICES ASSUME rq'[x].pc \in {"name", "save"} PROVE <1>7!2
    OBVIOUS
  <2>2. thys = DOMAIN rq[x].base /\ Clean(x) /\ cur = rq[x].prev
    BY <1>1, <2>1 DEF BigOnItsWay
  <2>3. thys' = DOMAIN rq'[x].base
    BY <1>1, <2>2
  <2>4. \A k \in Mine(x)' : queue'[k].stage = "save"
    BY <1>6, <2>1
  <2>5. QED BY <1>1, <1>3, <2>2, <2>3, <2>4
<1>8. rq'[x].pc \in {"name", "save"} =>
         IF rq'[x].pc = "save" /\ rq'[x].ans = "ok" THEN SavedBase(x, rq[x].ck)' ELSE rq'[x].ck = None
  BY <1>1, <1>2 DEF BigOnItsWay
<1>9. rq'[x].pc \in {"enter", "header", "body", "end"} => SavedBase(x, rq[x].ck)'
  BY <1>1, <1>2 DEF BigOnItsWay
<1>10. rq'[x].pc \in {"enter", "header", "body", "end", "undo"} =>
         entered_thy' = rq'[x].thy /\ WillBeEntered(x, rq[x].thy)'
  BY <1>1, <1>5 DEF BigOnItsWay
<1>11. rq'[x].pc \in {"undo", "reenter"} \/ (rq'[x].pc = "done" /\ ~rq'[x].ok) => WillBeClean(x)'
  BY <1>1, <1>4 DEF BigOnItsWay
<1>12. rq'[x].pc = "reenter" \/ (rq'[x].pc = "done" /\ ~rq'[x].ok /\ rq'[x].prev # NoThy)
         => WillBeEntered(x, rq[x].prev)'
  BY <1>1, <1>5 DEF BigOnItsWay
<1>13. \A k \in Mine(x)' : \A i : queue'[k].stage = "undo" /\ i = queue'[k].id => SavedBase(x, i)'
  BY <1>6
<1>14. QED BY <1>7, <1>8, <1>9, <1>10, <1>11, <1>12, <1>13 DEF BigOnItsWay

-----------------------------------------------------------------------------
(* big_step: how far it has come.                                          *)

\* A big step that failed restores with the checkpoint it took; without one, it had not
\* entered its theory yet.
LEMMA BigFailure ==
  ASSUME InOrder, NEW r \in Reqs, BigOnItsWay(r), rq[r].alone, Fails(r)
  PROVE  /\ rq[r].ck # None => /\ rq[r].pc \in {"enter", "header", "body", "end"}
                               /\ SavedBase(r, rq[r].ck)
         /\ rq[r].ck = None => rq[r].pc \in {"name", "save"}
<1>1. rq[r].op = "big"
  BY DEF Fails
<1>2. rq[r].pc \in {"name", "save"} => rq[r].ck = None
  <2>1. rq[r].pc = "save" => rq[r].ans # "ok"
    BY DEF Fails
  <2>2. QED BY <1>1, <2>1 DEF BigOnItsWay
<1>3. rq[r].pc \in {"enter", "header", "body", "end"} => SavedBase(r, rq[r].ck)
  BY <1>1 DEF BigOnItsWay
<1>4. SavedBase(r, rq[r].ck) => rq[r].ck # None
  BY OpsAssumption DEF SavedBase
<1>5. rq[r].pc \in {"name", "save", "enter", "header", "body", "end"}
  BY DEF Fails
<1>6. QED BY <1>2, <1>3, <1>4, <1>5

\* The next call of a big step.
LEMMA BigCall ==
  ASSUME TypeOK, InOrder, NEW r \in Reqs, BigOnItsWay(r), NEW s \in Stages,
         Continues(r, s), BigGoesOn(r, s)
  PROVE  BigOnItsWay(r)'
<1> DEFINE n == Len(queue) + 1
<1>1. /\ rq[r].op = "big" /\ rq'[r].op = "big" /\ rq'[r].pc = s /\ rq'[r].ans = "none"
      /\ rq'[r].alone = rq[r].alone /\ rq'[r].thy = rq[r].thy /\ rq'[r].prev = rq[r].prev
      /\ rq'[r].ck = rq[r].ck /\ rq'[r].base = rq[r].base
      /\ docs' = docs /\ thys' = thys /\ cur' = cur /\ saved' = saved
  BY DEF BigGoesOn, Continues, Calls, Others, backendVars
<1> SUFFICES ASSUME rq[r].alone PROVE BigOnItsWay(r)'
  BY <1>1 DEF BigOnItsWay
<1>2. /\ DOMAIN queue' = DOMAIN queue \cup {n} /\ n \notin DOMAIN queue
      /\ \A k \in DOMAIN queue : queue'[k] = queue[k]
      /\ queue'[n].req = r /\ queue'[n].stage = s /\ queue'[n].id = rq[r].ck
      /\ queue'[n].thy = IF s = "reenter" THEN rq[r].prev ELSE rq[r].thy
  BY <1>1, CallsQueue DEF Continues
<1>3. n \in Nat /\ \A k \in DOMAIN queue : k \in Nat /\ k < n
  BY DEF TypeOK
<1> HIDE DEF n
<1>4. Added(r, n)
  BY <1>2, <1>3 DEF Added, Mine
<1>5. \A i : SavedBase(r, i)' = SavedBase(r, i)
  BY <1>1 DEF SavedBase, Holds
<1>6. Clean(r)' = Clean(r)
  BY <1>1 DEF Clean
<1>7. \/ /\ rq[r].ans = "ok" /\ UNCHANGED entered_thy
         /\ <<rq[r].pc, s>> \in {<<"name", "save">>, <<"enter", "header">>, <<"header", "body">>,
                                 <<"header", "end">>, <<"body", "end">>}
      \/ rq[r].ans = "ok" /\ rq[r].pc = "save" /\ s = "enter" /\ entered_thy' = rq[r].thy
      \/ Fails(r) /\ rq[r].ck # None /\ s = "undo" /\ UNCHANGED entered_thy
      \/ /\ rq[r].pc = "undo" \/ (Fails(r) /\ rq[r].ck = None)
         /\ s = "reenter"
  BY DEF BigGoesOn
<1>8. s = "undo" => SavedBase(r, rq[r].ck)
  BY <1>7, BigFailure
<1>9. \A k \in Mine(r)' : \A i : queue'[k].stage = "undo" /\ i = queue'[k].id => SavedBase(r, i)'
  <2>1. \A k \in Mine(r) : queue[k].stage = "undo" => SavedBase(r, queue[k].id)
    BY <1>1 DEF BigOnItsWay
  <2>2. QED BY <1>2, <1>4, <1>5, <1>8, <2>1 DEF Added
<1>10. CASE s = "save"
  <2>1. rq[r].pc = "name"
    BY <1>7, <1>10
  <2>2. /\ thys = DOMAIN rq[r].base /\ Clean(r) /\ cur = rq[r].prev /\ rq[r].ck = None
        /\ \A k \in Mine(r) : queue[k].stage = "save"
    BY <1>1, <2>1 DEF BigOnItsWay
  <2>3. \A k \in Mine(r)' : queue'[k].stage = "save"
    BY <1>2, <1>4, <1>10, <2>2 DEF Added
  <2>4. QED BY <1>1, <1>6, <1>9, <1>10, <2>2, <2>3 DEF BigOnItsWay
<1>11. CASE s \in {"enter", "header", "body", "end", "undo"}
  <2>1. SavedBase(r, rq[r].ck)
    BY <1>1, <1>7, <1>8, <1>11 DEF BigOnItsWay
  <2>2. entered_thy' = rq[r].thy
    BY <1>1, <1>7, <1>11, BigFailure DEF BigOnItsWay
  <2>3. s # "enter" => WillBeEntered(r, rq[r].thy)
    BY <1>1, <1>7, <1>11, BigFailure DEF BigOnItsWay
  <2>4. \A t : t = rq[r].thy => WillBeEntered(r, t)'
    BY <1>1, <1>2, <1>4, <1>11, <2>3, AddedEntered
  <2>5. s = "undo" => WillBeClean(r)'
    BY <1>2, <1>4, <1>6, AddedClean DEF Edits
  <2>6. QED BY <1>1, <1>5, <1>9, <1>11, <2>1, <2>2, <2>4, <2>5 DEF BigOnItsWay
<1>12. CASE s = "reenter"
  <2>1. WillBeClean(r)
    <3>1. CASE rq[r].pc = "undo"
      BY <1>1, <3>1 DEF BigOnItsWay
    <3>2. CASE Fails(r) /\ rq[r].ck = None
      <4>1. rq[r].pc \in {"name", "save"}
        BY <3>2, BigFailure
      <4>2. Clean(r) /\ \A k \in Mine(r) : queue[k].stage = "save"
        BY <1>1, <4>1 DEF BigOnItsWay
      <4>3. QED BY <4>2 DEF WillBeClean, Edits
    <3>3. QED BY <1>7, <1>12, <3>1, <3>2
  <2>2. WillBeClean(r)'
    BY <1>2, <1>4, <1>6, <1>12, <2>1, AddedClean DEF Edits
  <2>3. \A t : t = rq[r].prev => WillBeEntered(r, t)'
    BY <1>1, <1>2, <1>4, <1>12, AddedEntered
  <2>4. QED BY <1>1, <1>9, <1>12, <2>2, <2>3 DEF BigOnItsWay
<1>13. QED BY <1>7, <1>10, <1>11, <1>12

\* The end of a big step.
LEMMA BigEnd ==
  ASSUME TypeOK, InOrder, NEW r \in Reqs, BigOnItsWay(r), Ends(r), Outcome(r), rq[r].op = "big"
  PROVE  BigOnItsWay(r)'
<1>1. /\ rq'[r].op = "big" /\ rq'[r].pc = "done" /\ rq'[r].alone = rq[r].alone
      /\ rq[r].alone => rq'[r].thy = rq[r].thy /\ rq'[r].prev = rq[r].prev /\ rq'[r].base = rq[r].base
      /\ docs' = docs /\ thys' = thys /\ cur' = cur /\ saved' = saved /\ queue' = queue
  BY DEF Ends, Others, backendVars
<1> SUFFICES ASSUME rq[r].alone PROVE BigOnItsWay(r)'
  BY <1>1 DEF BigOnItsWay
<1>2. \A i : SavedBase(r, i)' = SavedBase(r, i)
  BY <1>1 DEF SavedBase, Holds
<1>3. Mine(r)' = Mine(r)
  BY <1>1 DEF Mine
<1>4. \A k \in Mine(r)' : \A i : queue'[k].stage = "undo" /\ i = queue'[k].id => SavedBase(r, i)'
  BY <1>1, <1>2, <1>3 DEF BigOnItsWay
<1>5. Moved(r, 0)
  <2>1. \A k \in Mine(r) : k \in Nat /\ k + 0 = k /\ k - 0 = k
    BY DEF TypeOK, Mine
  <2>2. QED BY <1>1, <1>3, <2>1 DEF Moved
<1>6. Clean(r)' = Clean(r)
  BY <1>1 DEF Clean
<1>7. ASSUME ~rq'[r].ok
      PROVE  WillBeClean(r) /\ (rq[r].prev # NoThy => WillBeEntered(r, rq[r].prev))
  <2>1. CASE rq[r].pc \in {"name", "save"}
    <3>1. Clean(r) /\ cur = rq[r].prev /\ \A k \in Mine(r) : queue[k].stage = "save"
      BY <2>1 DEF BigOnItsWay
    <3>2. QED BY <3>1 DEF WillBeClean, WillBeEntered, Edits
  <2>2. CASE rq[r].pc = "undo" /\ rq[r].prev \in {NoThy, entered_thy}
    BY <2>2 DEF BigOnItsWay
  <2>3. CASE rq[r].pc = "reenter"
    BY <2>3 DEF BigOnItsWay
  <2>4. \/ rq[r].pc = "name" /\ rq[r].ans = "ok"
        \/ /\ rq[r].pc = "undo" \/ (Fails(r) /\ rq[r].ck = None)
           /\ rq[r].prev \in {NoThy, entered_thy}
        \/ rq[r].pc = "reenter"
    BY <1>7 DEF Outcome
  <2>5. QED BY <2>1, <2>2, <2>3, <2>4, BigFailure
<1>8. ~rq'[r].ok => WillBeClean(r)' /\ \A t : t = rq[r].prev /\ t # NoThy => WillBeEntered(r, t)'
  BY <1>1, <1>5, <1>6, <1>7, MovedClean, MovedEntered
<1>9. QED BY <1>1, <1>4, <1>8 DEF BigOnItsWay

\* A big step stays on its way when a request makes its next call.
LEMMA BigStep ==
  ASSUME CountInv, BigProgress, NEW r \in Reqs, Step(r)
  PROVE  BigProgress'
<1>1. TypeOK /\ InOrder
  BY DEF CountInv
<1>2. \/ Refused(r) \/ (Ends(r) /\ Outcome(r))
      \/ \E s \in Stages : Opens(r, s) \/ (Continues(r, s) /\ GoesOn(r, s))
  BY <1>1, StepShape
<1>3. Others(r) /\ docs' = docs /\ thys' = thys /\ cur' = cur /\ saved' = saved
  BY <1>2 DEF Refused, Ends, Opens, Continues, Calls, Others, backendVars
<1>4. ASSUME NEW x \in Reqs \ {r} PROVE BigOnItsWay(x)'
  <2>1. BigOnItsWay(x)
    BY DEF BigProgress
  <2>2. \A k \in DOMAIN queue : k \in Nat /\ k + 0 = k /\ k - 0 = k
    BY <1>1 DEF TypeOK
  <2>3. Moved(x, 0)
    <3>1. CASE queue' = queue
      <4>1. Mine(x)' = Mine(x)
        BY <3>1 DEF Mine
      <4>2. QED BY <2>2, <3>1, <4>1 DEF Moved, Mine
    <3>2. ASSUME NEW s \in Stages, Calls(r, s) PROVE Moved(x, 0)
      <4> DEFINE n == Len(queue) + 1
      <4>1. /\ DOMAIN queue' = DOMAIN queue \cup {n}
            /\ \A k \in DOMAIN queue : queue'[k] = queue[k]
            /\ queue'[n].req = r
        BY <1>1, <3>2, CallsQueue
      <4> HIDE DEF n
      <4>2. Mine(x)' = Mine(x) /\ \A k \in Mine(x) : queue'[k] = queue[k]
        BY <4>1 DEF Mine
      <4>3. QED BY <2>2, <4>2 DEF Moved, Mine
    <3>3. QED BY <1>2, <3>1, <3>2 DEF Refused, Ends, Opens, Continues
  <2>4. [t \in {} |-> <<>>] \in Texts
    BY FreshType DEF Fresh, Requests
  <2>5. QED BY <1>1, <1>3, <2>1, <2>3, <2>4, BigKept DEF Others
<1>5. BigOnItsWay(r)'
  <2>1. BigOnItsWay(r) /\ (rq[r].pc = "new" => ~rq[r].alone)
    BY <1>1 DEF BigProgress, InOrder
  <2>2. CASE Refused(r)
    BY <2>2 DEF Refused, BigOnItsWay
  <2>3. CASE Ends(r) /\ Outcome(r)
    <3>1. CASE rq[r].op = "big"
      BY <1>1, <2>1, <2>3, <3>1, BigEnd
    <3>2. CASE rq[r].op # "big"
      BY <2>3, <3>2 DEF Ends, BigOnItsWay
    <3>3. QED BY <3>1, <3>2
  <2>4. ASSUME NEW s \in Stages, Opens(r, s) PROVE BigOnItsWay(r)'
    BY <2>1, <2>4 DEF Opens, Calls, BigOnItsWay
  <2>5. ASSUME NEW s \in Stages, Continues(r, s), GoesOn(r, s) PROVE BigOnItsWay(r)'
    <3>1. CASE rq[r].op = "big"
      <4>1. BigGoesOn(r, s)
        BY <2>5, <3>1 DEF GoesOn, LoadGoesOn
      <4>2. QED BY <1>1, <2>1, <2>5, <4>1, BigCall
    <3>2. CASE rq[r].op # "big"
      BY <2>5, <3>2 DEF Continues, BigOnItsWay
    <3>3. QED BY <3>1, <3>2
  <2>6. QED BY <1>2, <2>2, <2>3, <2>4, <2>5
<1>6. QED BY <1>4, <1>5 DEF BigProgress

\* A big step stays on its way when a call is given up.
LEMMA BigTimeout ==
  ASSUME CountInv, BigProgress, NEW r \in Reqs, Timeout(r)
  PROVE  BigProgress'
<1>1. TypeOK
  BY DEF CountInv
<1>2. /\ DOMAIN queue' = DOMAIN queue
      /\ \A k \in DOMAIN queue :
           /\ queue'[k].req = queue[k].req /\ queue'[k].stage = queue[k].stage
           /\ queue'[k].id = queue[k].id /\ queue'[k].thy = queue[k].thy
      /\ \A x \in Reqs \ {r} : rq'[x] = rq[x]
      /\ rq'[r].ans = "timeout" /\ rq'[r].op = rq[r].op /\ rq'[r].pc = rq[r].pc
      /\ rq'[r].thy = rq[r].thy /\ rq'[r].ck = rq[r].ck /\ rq'[r].prev = rq[r].prev
      /\ rq'[r].base = rq[r].base /\ rq'[r].alone = rq[r].alone /\ rq'[r].ok = rq[r].ok
  BY <1>1, TimeoutEffect
<1>3. /\ rq[r].ans = "none" /\ saved' = saved
      /\ docs' = docs /\ thys' = thys /\ cur' = cur /\ entered_thy' = entered_thy
  BY DEF Timeout, backendVars
<1>4. ASSUME NEW x \in Reqs PROVE BigOnItsWay(x)'
  <2>1. BigOnItsWay(x)
    BY DEF BigProgress
  <2>2. \A k \in DOMAIN queue : k \in Nat /\ k + 0 = k /\ k - 0 = k
    BY <1>1 DEF TypeOK
  <2>3. Mine(x)' = Mine(x)
    BY <1>2 DEF Mine
  <2>4. Moved(x, 0)
    BY <1>2, <2>2, <2>3 DEF Moved, Mine
  <2>5. [t \in {} |-> <<>>] \in Texts
    BY FreshType DEF Fresh, Requests
  <2>6. /\ rq'[x].op = rq[x].op /\ rq'[x].pc = rq[x].pc /\ rq'[x].thy = rq[x].thy
        /\ rq'[x].ck = rq[x].ck /\ rq'[x].prev = rq[x].prev /\ rq'[x].ok = rq[x].ok
        /\ rq'[x].base = rq[x].base /\ rq'[x].alone = rq[x].alone
        /\ rq'[x].ans = "ok" => rq[x].ans = "ok"
        /\ rq[x].ans = "ok" => rq'[x].ans = "ok"
    BY <1>2, <1>3
  <2>7. QED BY <1>1, <1>2, <1>3, <2>1, <2>4, <2>5, <2>6, BigKept
<1>5. QED BY <1>4 DEF BigProgress

\* What the big step found is a text of the theories that are there.
LEMMA SavesBase ==
  ASSUME TypeOK, NEW r \in Reqs, thys = DOMAIN rq[r].base, Clean(r)
  PROVE  [t \in thys |-> docs[t]] = rq[r].base
<1>1. rq[r].base \in Texts
  BY DEF TypeOK, Requests
<1>2. PICK T \in SUBSET Theories : rq[r].base \in [T -> Seq(Reqs)]
  BY <1>1 DEF Texts
<1>3. rq[r].base = [t \in T |-> rq[r].base[t]] /\ T = thys
  BY <1>2
<1>4. \A t \in thys : docs[t] = rq[r].base[t]
  BY DEF Clean
<1>5. QED BY <1>3, <1>4

\* The queue, seen by the request whose job is done.
LEMMA HeadTaken ==
  ASSUME TypeOK, InOrder, Exec
  PROVE  \A x \in Reqs : IF x = queue[1].req THEN Taken(x) ELSE Moved(x, 1)
<1>1. /\ 1 \in DOMAIN queue
      /\ \A k \in DOMAIN queue' : k + 1 \in DOMAIN queue /\ queue'[k] = queue[k + 1] /\ k \in Nat \ {0}
      /\ \A k \in DOMAIN queue : k # 1 => k - 1 \in DOMAIN queue' /\ queue'[k - 1] = queue[k]
      /\ \A k \in DOMAIN queue : k \in Nat \ {0}
  BY ExecEffect
<1>2. ASSUME NEW x \in Reqs, x = queue[1].req PROVE Taken(x)
  BY <1>1, <1>2 DEF Taken, Mine
<1>3. ASSUME NEW x \in Reqs, x # queue[1].req PROVE Moved(x, 1)
  <2>1. \A k \in Mine(x) : k # 1
    BY <1>3 DEF Mine
  <2>2. QED BY <1>1, <2>1 DEF Moved, Mine
<1>4. QED BY <1>2, <1>3

\* A job of the big step itself.
LEMMA BigJob ==
  ASSUME CountInv, BigProgress, Exec
  PROVE  \A x \in Reqs : x = queue[1].req => BigOnItsWay(x)'
<1> DEFINE j == queue[1]
<1> SUFFICES ASSUME NEW x \in Reqs, x = j.req PROVE BigOnItsWay(x)'
  OBVIOUS
<1>1. TypeOK /\ InOrder /\ OneLiveJob /\ BigOnItsWay(x)
  BY DEF CountInv, BigProgress
<1>2. /\ 1 \in DOMAIN queue /\ j \in Jobs /\ Run(j) /\ Executed(j) /\ Taken(x)
      /\ entered_thy' = entered_thy /\ j.live \in BOOLEAN /\ saved \in Seq(Texts)
      /\ docs \in [Theories -> Seq(Reqs)] /\ thys \subseteq Theories
  BY <1>1, ExecEffect, HeadTaken, JobInQueue DEF TypeOK
<1>3. /\ rq'[x].op = rq[x].op /\ rq'[x].pc = rq[x].pc /\ rq'[x].thy = rq[x].thy
      /\ rq'[x].ok = rq[x].ok /\ (~j.live => rq'[x].ans = rq[x].ans)
      /\ j.stage # "save" \/ ~j.live => rq'[x].ck = rq[x].ck
      /\ j.stage # "name" => rq'[x].prev = rq[x].prev /\ rq'[x].base = rq[x].base
      /\ j.stage \notin {"reset", "name"} => rq'[x].alone = rq[x].alone
  BY <1>2 DEF Executed
<1>4. SUFFICES ASSUME rq[x].op = "big", rq'[x].alone PROVE BigOnItsWay(x)'
  BY <1>3 DEF BigOnItsWay
<1>5. j.stage \in BigCalls
  BY <1>1, <1>2, <1>4 DEF InOrder
<1>6. j.live => rq[x].ans = "none" /\ rq[x].pc \notin {"new", "done"} /\ j.stage = rq[x].pc
  BY <1>1, <1>2, HeadLive DEF Waiting, Running
<1>7. CASE j.stage = "name"
  <2>1. j.live /\ Name(j)
    BY <1>1, <1>2, <1>7 DEF InOrder, Run, Edits
  <2>2. rq[x].pc = "name" /\ rq[x].ck = None
    BY <1>1, <1>6, <1>7, <2>1 DEF InOrder
  <2>3. \A k \in Mine(x)' : FALSE
    <3> SUFFICES ASSUME NEW k \in Mine(x)' PROVE FALSE
      OBVIOUS
    <3>1. k + 1 \in Mine(x) /\ k + 1 # 1
      BY <1>2 DEF Taken
    <3>2. queue[k + 1].live
      BY <1>1, <2>2, <3>1 DEF InOrder, Mine
    <3>3. QED BY <1>1, <1>2, <2>1, <3>1, <3>2, HeadLive DEF Mine
  <2>4. /\ rq'[x].prev = cur /\ rq'[x].base = [t \in thys |-> docs[t]] /\ rq'[x].ck = None
    <3> DEFINE c == Answer(j, "ok")
               b == [t \in thys |-> docs[t]]
               d == [c EXCEPT !.prev = cur, !.alone = TRUE, !.base = b]
    <3>1. c \in Requests /\ Reply(j, d)
      BY <1>1, <1>2, <2>1, AnswerType DEF Name
    <3>2. b \in Texts
      <4>1. b \in [thys -> Seq(Reqs)]
        BY <1>2
      <4>2. QED BY <1>2, <4>1 DEF Texts
    <3>3. cur \in Theories \cup {NoThy}
      BY <1>1 DEF TypeOK
    <3> HIDE DEF c, b
    <3>4. d \in Requests /\ d.prev = cur /\ d.base = b
      BY <3>1, <3>2, <3>3 DEF Requests
    <3> HIDE DEF d, j
    <3>5. rq'[x].prev = cur /\ rq'[x].base = b
      BY <1>1, <1>2, <3>1, <3>4, ReplyEffect
    <3>6. QED BY <1>3, <1>7, <2>2, <3>5 DEF b
  <2>5. docs' = docs /\ thys' = thys /\ cur' = cur
    BY <2>1 DEF Name
  <2>6. thys' = DOMAIN rq'[x].base /\ Clean(x)' /\ cur' = rq'[x].prev
    BY <2>4, <2>5 DEF Clean
  <2>7. QED BY <1>3, <2>2, <2>3, <2>4, <2>6 DEF BigOnItsWay
<1>8. CASE j.stage # "name"
  <2>1. /\ rq[x].alone /\ rq'[x].prev = rq[x].prev /\ rq'[x].base = rq[x].base
        /\ j.stage \in {"save", "enter", "header", "body", "end", "undo", "reenter"}
    BY <1>3, <1>4, <1>5, <1>8 DEF BigCalls
  <2>2. /\ \A k \in Mine(x) : queue[k].stage = "undo" => SavedBase(x, queue[k].id)
        /\ rq[x].pc \in {"name", "save"} =>
             /\ thys = DOMAIN rq[x].base /\ Clean(x) /\ cur = rq[x].prev
             /\ \A k \in Mine(x) : queue[k].stage = "save"
    BY <1>1, <1>4, <2>1 DEF BigOnItsWay
  <2>3. 1 \in Mine(x)
    BY <1>2 DEF Taken
  <2>4. /\ cur' = IF j.stage \in {"enter", "reenter"} THEN j.thy ELSE cur
        /\ j.stage = "save" => thys' = thys /\ docs' = docs
        /\ j.stage \in {"enter", "reenter"} => docs' = docs
        /\ j.stage \in {"undo", "save", "enter", "reenter"} \/ j.stage \in Edits
        /\ j.stage # "save" => saved' = saved
        /\ j.stage = "save" => saved' = Append(saved, [t \in thys |-> docs[t]])
    BY <1>2, <2>1 DEF Run, Edits, Edit, Enter, Save, Restore
  <2>5. j.stage = "undo" => Clean(x)'
    <3> SUFFICES ASSUME j.stage = "undo" PROVE Clean(x)'
      OBVIOUS
    <3>1. SavedBase(x, j.id) /\ Restore(j)
      BY <1>2, <2>2, <2>3 DEF Run, Edits
    <3>2. PICK T \in SUBSET Theories : rq[x].base \in [T -> Seq(Reqs)]
      <4>1. rq[x].base \in Texts
        BY <1>1 DEF TypeOK, Requests
      <4>2. QED BY <4>1 DEF Texts
    <3>3. \A t \in DOMAIN rq[x].base : docs'[t] = rq[x].base[t]
      <4>1. /\ Holds(j.id) /\ saved[j.id + 1] = rq[x].base
            /\ docs' = [t \in Theories |-> IF Holds(j.id) /\ t \in DOMAIN saved[j.id + 1]
                                          THEN saved[j.id + 1][t] ELSE docs[t]]
        BY <3>1 DEF SavedBase, Restore
      <4>2. DOMAIN rq[x].base \subseteq Theories
        BY <3>2
      <4>3. QED BY <4>1, <4>2
    <3>4. QED BY <2>1, <3>3 DEF Clean
  <2>6. j.stage \notin Edits => (Clean(x) => Clean(x)')
    BY <2>1, <2>4, <2>5 DEF Clean
  <2>7. WillBeClean(x) => WillBeClean(x)'
    BY <1>2, <2>5, <2>6, TakenClean
  <2>8. \A t : WillBeEntered(x, t) => WillBeEntered(x, t)'
    BY <1>2, <2>4, TakenEntered
  <2>9. \A i : SavedBase(x, i) => SavedBase(x, i)'
    <3>1. [t \in thys |-> docs[t]] \in Texts
      <4>1. [t \in thys |-> docs[t]] \in [thys -> Seq(Reqs)]
        BY <1>2
      <4>2. QED BY <1>2, <4>1 DEF Texts
    <3>2. QED BY <1>2, <2>1, <2>4, <3>1, SavedKept
  <2>10. \A k \in Mine(x)' : /\ k + 1 \in Mine(x) /\ queue'[k] = queue[k + 1]
    BY <1>2 DEF Taken
  <2>11. \A k \in Mine(x)' : \A i : queue'[k].stage = "undo" /\ i = queue'[k].id => SavedBase(x, i)'
    BY <2>2, <2>9, <2>10
  <2>12. CASE rq[x].pc \in {"name", "save"}
    <3>1. j.stage = "save"
      BY <2>2, <2>3, <2>12
    <3>2. thys' = DOMAIN rq'[x].base /\ Clean(x)' /\ cur' = rq'[x].prev
      BY <2>1, <2>2, <2>4, <2>6, <2>12, <3>1 DEF Edits
    <3>3. \A k \in Mine(x)' : queue'[k].stage = "save"
      BY <2>2, <2>10, <2>12
    <3>4. CASE ~j.live
      <4>1. rq'[x].ck = rq[x].ck /\ rq'[x].ans = rq[x].ans
        BY <1>3, <3>4
      <4>2. IF rq[x].pc = "save" /\ rq[x].ans = "ok" THEN SavedBase(x, rq[x].ck) ELSE rq[x].ck = None
        BY <1>1, <1>4, <2>1, <2>12 DEF BigOnItsWay
      <4>3. QED BY <1>3, <2>9, <2>11, <2>12, <3>2, <3>3, <4>1, <4>2 DEF BigOnItsWay
    <3>5. CASE j.live
      <4>1. rq[x].pc = "save" /\ Save(j)
        BY <1>2, <1>6, <3>1, <3>5 DEF Run, Edits
      <4>2. rq'[x].ck = Len(saved) /\ rq'[x].ans = "ok"
        <5> DEFINE c == Answer(j, "ok")
                   d == [c EXCEPT !.ck = IF j.live THEN Len(saved) ELSE @]
        <5>1. c \in Requests /\ c.ans = "ok" /\ Reply(j, d) /\ Len(saved) \in Nat
          BY <1>1, <1>2, <3>5, <4>1, AnswerType DEF Save
        <5> HIDE DEF c
        <5>2. d \in Requests /\ d.ck = Len(saved) /\ d.ans = "ok"
          BY <3>5, <5>1 DEF Requests
        <5> HIDE DEF d, j
        <5>3. QED BY <1>1, <1>2, <5>1, <5>2, ReplyEffect
      <4>3. \A i : i = rq'[x].ck => SavedBase(x, i)'
        <5>1. saved' = Append(saved, rq[x].base)
          BY <1>1, <2>2, <2>4, <2>12, <3>1, SavesBase
        <5>2. rq[x].base \in Texts /\ Len(saved) \in Nat
          BY <1>1, <1>2 DEF TypeOK, Requests
        <5>3. Len(saved) < Len(saved') /\ saved'[Len(saved) + 1] = rq[x].base
          BY <1>2, <5>1, <5>2
        <5>4. QED BY <2>1, <4>2, <5>2, <5>3 DEF SavedBase, Holds
      <4>4. QED BY <1>3, <2>11, <2>12, <3>2, <3>3, <4>1, <4>2, <4>3 DEF BigOnItsWay
    <3>6. QED BY <1>2, <3>4, <3>5
  <2>13. CASE rq[x].pc \notin {"name", "save"}
    <3>1. rq'[x].ck = rq[x].ck
      BY <1>2, <1>3, <1>6, <2>13
    <3>2. rq[x].pc \in {"enter", "header", "body", "end"} => SavedBase(x, rq[x].ck)
      BY <1>1, <1>4, <2>1 DEF BigOnItsWay
    <3>3. rq[x].pc \in {"enter", "header", "body", "end", "undo"} =>
            entered_thy = rq[x].thy /\ WillBeEntered(x, rq[x].thy)
      BY <1>1, <1>4, <2>1 DEF BigOnItsWay
    <3>4. rq[x].pc \in {"undo", "reenter"} \/ (rq[x].pc = "done" /\ ~rq[x].ok) => WillBeClean(x)
      BY <1>1, <1>4, <2>1 DEF BigOnItsWay
    <3>5. rq[x].pc = "reenter" \/ (rq[x].pc = "done" /\ ~rq[x].ok /\ rq[x].prev # NoThy)
            => WillBeEntered(x, rq[x].prev)
      BY <1>1, <1>4, <2>1 DEF BigOnItsWay
    <3>6. /\ rq[x].pc \in {"enter", "header", "body", "end"} => \A i : i = rq'[x].ck => SavedBase(x, i)'
          /\ rq[x].pc \in {"enter", "header", "body", "end", "undo"} =>
               entered_thy' = rq'[x].thy /\ \A t : t = rq'[x].thy => WillBeEntered(x, t)'
          /\ rq[x].pc = "reenter" \/ (rq[x].pc = "done" /\ ~rq[x].ok /\ rq[x].prev # NoThy)
               => \A t : t = rq'[x].prev => WillBeEntered(x, t)'
      BY <1>2, <1>3, <2>1, <2>8, <2>9, <3>1, <3>2, <3>3, <3>5
    <3>7. QED BY <1>3, <2>1, <2>7, <2>11, <2>13, <3>4, <3>6 DEF BigOnItsWay
  <2>14. QED BY <2>12, <2>13
<1>9. QED BY <1>7, <1>8

\* A big step stays on its way when the worker executes a job.
LEMMA BigExec ==
  ASSUME CountInv, BigProgress, Exec
  PROVE  BigProgress'
<1>1. TypeOK /\ InOrder
  BY DEF CountInv
<1>2. Run(queue[1]) /\ Executed(queue[1]) /\ entered_thy' = entered_thy
  BY <1>1, ExecEffect
<1>3. ASSUME NEW x \in Reqs, x # queue[1].req PROVE BigOnItsWay(x)'
  <2>1. BigOnItsWay(x) /\ Moved(x, 1)
    BY <1>1, <1>3, HeadTaken DEF BigProgress
  <2>2. /\ rq'[x].op = rq[x].op /\ rq'[x].pc = rq[x].pc /\ rq'[x].thy = rq[x].thy
        /\ rq'[x].ck = rq[x].ck /\ rq'[x].prev = rq[x].prev /\ rq'[x].ok = rq[x].ok
        /\ rq'[x].base = rq[x].base /\ rq'[x].ans = rq[x].ans
        /\ rq'[x].alone => rq[x].alone /\ queue[1].stage \in Quiet
    BY <1>2, <1>3 DEF Executed
  <2>3. CASE queue[1].stage \notin Quiet
    BY <2>2, <2>3 DEF BigOnItsWay
  <2>4. CASE queue[1].stage \in Quiet
    <3>1. docs' = docs /\ thys' = thys /\ cur' = cur
      BY <1>2, <2>4, QuietJob
    <3>2. saved' \in {saved, Append(saved, [t \in thys |-> docs[t]])}
      BY <1>2, <2>4 DEF Run, Quiet, Edits, Save, Name, Probe
    <3>3. [t \in thys |-> docs[t]] \in Texts
      <4>1. [t \in thys |-> docs[t]] \in [thys -> Seq(Reqs)] /\ thys \in SUBSET Theories
        BY <1>1 DEF TypeOK
      <4>2. QED BY <4>1 DEF Texts
    <3>4. QED BY <1>1, <1>2, <2>1, <2>2, <3>1, <3>2, <3>3, BigKept
  <2>5. QED BY <2>3, <2>4
<1>4. QED BY <1>3, BigJob DEF BigProgress

\* Once the jobs of a failed big step are through, what will be is.
LEMMA BigIsAtomic ==
  ASSUME BigProgress
  PROVE  BigStepAtomic
<1> SUFFICES ASSUME NEW r \in Reqs, rq[r].op = "big", rq[r].pc = "done", ~rq[r].ok, ~Pending(r),
                    rq[r].alone
             PROVE  /\ \A t \in DOMAIN rq[r].base : docs[t] = rq[r].base[t]
                    /\ rq[r].prev # NoThy => cur = rq[r].prev
  BY DEF BigStepAtomic
<1>1. Mine(r) = {}
  BY DEF Mine, Pending
<1>2. WillBeClean(r) /\ (rq[r].prev # NoThy => WillBeEntered(r, rq[r].prev))
  BY DEF BigProgress, BigOnItsWay
<1>3. Clean(r)
  BY <1>1, <1>2 DEF WillBeClean
<1>4. rq[r].prev # NoThy => cur = rq[r].prev
  BY <1>1, <1>2 DEF WillBeEntered
<1>5. QED BY <1>3, <1>4 DEF Clean

-----------------------------------------------------------------------------
(* The whole invariant.                                                    *)

\* The inductive invariant holds when the session is new.
LEMMA InvInit == Init => IInv
<1> SUFFICES ASSUME Init PROVE IInv
  OBVIOUS
<1>1. CountInv
  BY CountInit
<1>2. \A r \in Reqs : rq[r].alone = FALSE
  BY DEF Init, Fresh
<1>3. LoadProgress /\ BigProgress
  BY <1>2 DEF LoadProgress, LoadOnItsWay, BigProgress, BigOnItsWay
<1>4. QED BY <1>1, <1>3 DEF IInv

\* Every step keeps the inductive invariant.
LEMMA InvNext == IInv /\ [Next]_vars => IInv'
<1> SUFFICES ASSUME IInv, [Next]_vars PROVE IInv'
  OBVIOUS
<1>1. CountInv /\ LoadProgress /\ BigProgress /\ CountInv'
  BY CountNext DEF IInv
<1>2. CASE Exec
  BY <1>1, <1>2, LoadExec, BigExec DEF IInv
<1>3. ASSUME NEW r \in Reqs, Timeout(r) PROVE IInv'
  BY <1>1, <1>3, LoadTimeout, BigTimeout DEF IInv
<1>4. ASSUME NEW r \in Reqs, Step(r) PROVE IInv'
  BY <1>1, <1>4, LoadStep, BigStep DEF IInv
<1>5. CASE UNCHANGED vars
  <2>1. /\ docs' = docs /\ thys' = thys /\ cur' = cur /\ saved' = saved
        /\ queue' = queue /\ rq' = rq /\ entered_thy' = entered_thy
    BY <1>5 DEF vars
  <2>2. LoadProgress'
    BY <1>1, <2>1 DEF LoadProgress, LoadOnItsWay
  <2>3. BigProgress'
    BY <1>1, <2>1 DEF BigProgress, BigOnItsWay, Mine, SavedBase, Holds, Clean, WillBeClean, WillBeEntered
  <2>4. QED BY <1>1, <2>2, <2>3 DEF IInv
<1>6. QED BY <1>2, <1>3, <1>4, <1>5 DEF Next

\* The inductive invariant holds in every reachable state.
LEMMA AlwaysInv == Spec => []IInv
BY InvInit, InvNext, PTL DEF Spec

\* A load_document that reports success leaves the backend with its text and nothing
\* else, unless another request interferes after its reset: whatever earlier requests,
\* also those that gave up, left in the worker's queue.
THEOREM LoadsExactly == Spec => []LoadExact
<1>1. IInv => LoadExact
  BY LoadIsExact DEF IInv, CountInv
<1>2. QED BY <1>1, AlwaysInv, PTL

\* A big_step that fails leaves the theories it found as they were and enters the theory
\* that was entered before, once its calls, also those it gave up on, are through.
THEOREM BigStepsAtomic == Spec => []BigStepAtomic
<1>1. IInv => BigStepAtomic
  BY BigIsAtomic DEF IInv
<1>2. QED BY <1>1, AlwaysInv, PTL
=============================================================================
