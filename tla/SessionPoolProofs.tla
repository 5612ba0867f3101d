-------------------------- MODULE SessionPoolProofs --------------------------
(***************************************************************************)
(* The safety of the session pool for every number of requests, sessions,  *)
(* keys, leases and gateways and every pool size.  IInv is inductive: one  *)
(* lemma per part of Next shows that its actions preserve it, one step per *)
(* action and under it one step per conjunct.  SamePool, MovedPool and     *)
(* PoppedPool say what a step does to the sequence _lru, SameCustody that  *)
(* a step which moves no session keeps Custody.  The second part needs the *)
(* stronger ServiceInv: NextMoves says that every step is one of a few     *)
(* moves of the pool (Move), from which the action properties and the      *)
(* refinement of LeaseService follow.                                      *)
(***************************************************************************)
EXTENDS SessionPool, FiniteSetTheorems, SequenceTheorems, TLAPS

\* A session in the queue is found at its position.
LEMMA PositionIn ==
  ASSUME NEW S, NEW q \in Seq(S), NEW s \in Ids(q)
  PROVE  Position(q, s) \in 1..Len(q) /\ q[Position(q, s)] = s
  BY DEF Ids, Position

\* _lru.pop: the queue loses s, stays free of duplicates and is one shorter.
LEMMA WithoutSeq ==
  ASSUME NEW S, NEW q \in Seq(S), Distinct(q), NEW s \in Ids(q)
  PROVE  /\ Without(q, s) \in Seq(S)
         /\ Len(Without(q, s)) = Len(q) - 1
         /\ Distinct(Without(q, s))
         /\ Ids(Without(q, s)) = Ids(q) \ {s}
<1> DEFINE w == Without(q, s)  p == Position(q, s)  n == Len(q)
<1>1. p \in 1..n /\ q[p] = s
  BY PositionIn
<1>2. n \in Nat /\ n >= 1 /\ \A i \in 1..n : q[i] \in S
  BY <1>1
<1>3. w = [i \in 1..(n - 1) |-> IF i < p THEN q[i] ELSE q[i + 1]]
  BY DEF Without
<1> HIDE DEF w, p
<1>4. w \in [1..(n - 1) -> S]
  BY <1>1, <1>2, <1>3
<1>5. w \in Seq(S) /\ Len(w) = n - 1
  BY <1>2, <1>4, SeqDef, LenProperties
<1>6. \A i \in 1..(n - 1) : w[i] = IF i < p THEN q[i] ELSE q[i + 1]
  BY <1>3
<1>7. Distinct(w)
  BY <1>1, <1>2, <1>5, <1>6 DEF Distinct
<1>8. Ids(w) = Ids(q) \ {s}
  <2>1. ASSUME NEW x \in Ids(w) PROVE x \in Ids(q) \ {s}
    <3>1. PICK i \in 1..(n - 1) : x = w[i]
      BY <1>5, <2>1 DEF Ids
    <3>2. CASE i < p
      BY <1>1, <1>2, <1>6, <3>1, <3>2 DEF Ids, Distinct
    <3>3. CASE ~(i < p)
      <4>1. x = q[i + 1] /\ i + 1 \in 1..n /\ i + 1 # p
        BY <1>1, <1>2, <1>6, <3>1, <3>3
      <4>2. QED BY <1>1, <4>1 DEF Ids, Distinct
    <3>4. QED BY <3>2, <3>3
  <2>2. ASSUME NEW x \in Ids(q) \ {s} PROVE x \in Ids(w)
    <3>1. PICK j \in 1..n : x = q[j]
      BY <2>2 DEF Ids
    <3>2. j # p
      BY <1>1, <2>2, <3>1
    <3>3. CASE j < p
      BY <1>1, <1>2, <1>5, <1>6, <3>1, <3>3 DEF Ids
    <3>4. CASE j > p
      <4>1. j - 1 \in 1..(n - 1) /\ ~(j - 1 < p) /\ (j - 1) + 1 = j
        BY <1>1, <1>2, <3>4
      <4>2. w[j - 1] = x
        BY <1>6, <3>1, <4>1
      <4>3. QED BY <1>5, <4>1, <4>2 DEF Ids
    <3>5. QED BY <1>1, <1>2, <3>2, <3>3, <3>4
  <2>3. QED BY <2>1, <2>2
<1>9. QED BY <1>5, <1>7, <1>8 DEF w

\* _lru[s] = session for a new s: the queue gains s at the end.
LEMMA AppendSeq ==
  ASSUME NEW S, NEW q \in Seq(S), Distinct(q), NEW s \in S, s \notin Ids(q)
  PROVE  /\ Append(q, s) \in Seq(S)
         /\ Len(Append(q, s)) = Len(q) + 1
         /\ Distinct(Append(q, s))
         /\ Ids(Append(q, s)) = Ids(q) \cup {s}
<1> DEFINE a == Append(q, s)  n == Len(q)
<1>1. n \in Nat /\ a \in Seq(S) /\ Len(a) = n + 1
  BY AppendProperties
<1>2. /\ \A i \in 1..n : a[i] = q[i]
      /\ a[n + 1] = s
  BY AppendProperties
<1>3. \A i \in 1..n : q[i] # s
  BY DEF Ids
<1> HIDE DEF a
<1>4. Distinct(a)
  BY <1>1, <1>2, <1>3 DEF Distinct
<1>5. Ids(a) = Ids(q) \cup {s}
  <2>1. 1..(n + 1) = (1..n) \cup {n + 1}
    BY <1>1
  <2>2. \A i \in 1..Len(a) : a[i] \in Ids(q) \cup {s}
    BY <1>1, <1>2, <2>1 DEF Ids
  <2>3. \A x \in Ids(q) \cup {s} : \E i \in 1..Len(a) : a[i] = x
    BY <1>1, <1>2, <2>1 DEF Ids
  <2>4. QED BY <2>2, <2>3 DEF Ids
<1>6. QED BY <1>1, <1>4, <1>5 DEF a

\* _lru.move_to_end: same sessions, same length, still no duplicates.
LEMMA MoveToEndSeq ==
  ASSUME NEW S, NEW q \in Seq(S), Distinct(q), NEW s \in Ids(q)
  PROVE  /\ MoveToEnd(q, s) \in Seq(S)
         /\ Len(MoveToEnd(q, s)) = Len(q)
         /\ Distinct(MoveToEnd(q, s))
         /\ Ids(MoveToEnd(q, s)) = Ids(q)
<1> DEFINE w == Without(q, s)
<1>1. s \in S /\ Len(q) \in Nat
  BY DEF Ids
<1>2. /\ w \in Seq(S) /\ Len(w) = Len(q) - 1
      /\ Distinct(w) /\ Ids(w) = Ids(q) \ {s}
  BY WithoutSeq
<1> HIDE DEF w
<1>3. /\ Append(w, s) \in Seq(S) /\ Len(Append(w, s)) = Len(w) + 1
      /\ Distinct(Append(w, s)) /\ Ids(Append(w, s)) = Ids(w) \cup {s}
  BY <1>1, <1>2, AppendSeq
<1>4. Ids(w) \cup {s} = Ids(q)
  BY <1>2
<1>5. QED
  BY <1>1, <1>2, <1>3, <1>4 DEF MoveToEnd, w

-----------------------------------------------------------------------------
(* Steps that leave the pool alone, reorder it, or take one session out.   *)

\* A step that does not assign _lru keeps what IInv says of it.
LEMMA SamePool ==
  ASSUME IInv, lru' = lru
  PROVE  lru' \in Seq(Sessions) /\ Distinct(lru') /\ PoolBound' /\ Pooled' = Pooled
BY DEF IInv, TypeOK, PoolBound, Pooled

\* So does one that promotes a pooled session to the newest.
LEMMA MovedPool ==
  ASSUME IInv, NEW s \in Pooled, lru' = MoveToEnd(lru, s)
  PROVE  lru' \in Seq(Sessions) /\ Distinct(lru') /\ PoolBound' /\ Pooled' = Pooled
<1>1. lru \in Seq(Sessions) /\ Distinct(lru) /\ s \in Ids(lru)
  BY DEF IInv, TypeOK, Pooled
<1>2. /\ lru' \in Seq(Sessions) /\ Len(lru') = Len(lru)
      /\ Distinct(lru') /\ Ids(lru') = Ids(lru)
  BY <1>1, MoveToEndSeq
<1>3. QED BY <1>2 DEF IInv, PoolBound, Pooled

\* A step that pops s from _lru takes exactly s out of the pool.
LEMMA PoppedPool ==
  ASSUME IInv, NEW s \in Pooled, lru' = Without(lru, s)
  PROVE  lru' \in Seq(Sessions) /\ Distinct(lru') /\ PoolBound' /\ Pooled' = Pooled \ {s}
<1>1. lru \in Seq(Sessions) /\ Distinct(lru) /\ s \in Ids(lru) /\ Len(lru) \in Nat
  BY DEF IInv, TypeOK, Pooled
<1>2. /\ lru' \in Seq(Sessions) /\ Len(lru') = Len(lru) - 1
      /\ Distinct(lru') /\ Ids(lru') = Ids(lru) \ {s}
  BY <1>1, WithoutSeq
<1>3. PoolBound'
  BY <1>1, <1>2, PoolAssumption DEF IInv, PoolBound
<1>4. QED BY <1>2, <1>3 DEF Pooled

\* The pool holds session ids.
LEMMA PooledSessions == ASSUME IInv PROVE Pooled \subseteq Sessions
BY DEF IInv, TypeOK, Pooled, Ids

\* A step that moves no session between the pool, its creator and its closer.
LEMMA SameCustody ==
  ASSUME IInv, Pooled' = Pooled, UNCHANGED <<status, leaked, toClose>>,
         \A r \in Requests, s \in Sessions : CreatorHas(r, s)' <=> CreatorHas(r, s)
  PROVE  Custody'
<1>1. Custody BY DEF IInv
<1>2. QED BY <1>1 DEF Custody, HeldOnce

\* Session operations move no session.
LEMMA UseStep ==
  ASSUME IInv, NEW r0 \in Requests, Use(r0)
  PROVE  IInv'
<1> USE DEF poolVars, sessVars, gwVars, reqVars, procVars, Procs, Goto, Finish, LoopFree
<1>1. ASSUME NEW r \in Requests, OpBegin(r) PROVE IInv'
  <2>1. lru' \in Seq(Sessions) /\ Distinct(lru') /\ PoolBound' /\ Pooled' = Pooled
    BY <1>1, SamePool DEF OpBegin
  <2>2. TypeOK'
    BY <1>1, <2>1, PoolAssumption, ProcAssumption DEF IInv, TypeOK, Carried, PC, Leases,
       NoLease, OpBegin
  <2>3. Carried'
    BY <1>1, PoolAssumption, ProcAssumption DEF IInv, TypeOK, Carried, EnsurePC, CreatePC,
       RequestPC, Leases, NoLease, OpBegin
  <2>4. \A q \in Requests, v \in Sessions : CreatorHas(q, v)' <=> CreatorHas(q, v)
    BY <1>1, ProcAssumption DEF IInv, TypeOK, Carried, CreatorHas, OpBegin
  <2>5. Custody'
    BY <1>1, <2>1, <2>4, SameCustody DEF OpBegin
  <2>6. QED BY <2>1, <2>2, <2>3, <2>5 DEF IInv
<1>2. ASSUME NEW r \in Requests, OpBeginUncounted(r) PROVE IInv'
  <2>1. lru' \in Seq(Sessions) /\ Distinct(lru') /\ PoolBound' /\ Pooled' = Pooled
    BY <1>2, SamePool DEF OpBeginUncounted
  <2>2. TypeOK'
    BY <1>2, <2>1, PoolAssumption, ProcAssumption DEF IInv, TypeOK, Carried, PC, Leases,
       NoLease, OpBeginUncounted
  <2>3. Carried'
    BY <1>2, PoolAssumption, ProcAssumption DEF IInv, TypeOK, Carried, EnsurePC, CreatePC,
       RequestPC, Leases, NoLease, OpBeginUncounted
  <2>4. \A q \in Requests, v \in Sessions : CreatorHas(q, v)' <=> CreatorHas(q, v)
    BY <1>2, ProcAssumption DEF IInv, TypeOK, Carried, CreatorHas, OpBeginUncounted
  <2>5. Custody'
    BY <1>2, <2>1, <2>4, SameCustody DEF OpBeginUncounted
  <2>6. QED BY <2>1, <2>2, <2>3, <2>5 DEF IInv
<1>3. ASSUME NEW r \in Requests, OpEnd(r) PROVE IInv'
  <2>1. lru' \in Seq(Sessions) /\ Distinct(lru') /\ PoolBound' /\ Pooled' = Pooled
    BY <1>3, SamePool DEF OpEnd
  <2>2. TypeOK'
    BY <1>3, <2>1, PoolAssumption, ProcAssumption DEF IInv, TypeOK, Carried, PC, Leases,
       NoLease, OpEnd
  <2>3. Carried'
    BY <1>3, PoolAssumption, ProcAssumption DEF IInv, TypeOK, Carried, EnsurePC, CreatePC,
       RequestPC, Leases, NoLease, OpEnd
  <2>4. \A q \in Requests, v \in Sessions : CreatorHas(q, v)' <=> CreatorHas(q, v)
    BY <1>3, ProcAssumption DEF IInv, TypeOK, Carried, CreatorHas, OpEnd
  <2>5. Custody'
    BY <1>3, <2>1, <2>4, SameCustody DEF OpEnd
  <2>6. QED BY <2>1, <2>2, <2>3, <2>5 DEF IInv
<1>4. ASSUME NEW r \in Requests, OpEndUncounted(r) PROVE IInv'
  <2>1. lru' \in Seq(Sessions) /\ Distinct(lru') /\ PoolBound' /\ Pooled' = Pooled
    BY <1>4, SamePool DEF OpEndUncounted
  <2>2. TypeOK'
    BY <1>4, <2>1, PoolAssumption, ProcAssumption DEF IInv, TypeOK, Carried, PC, Leases,
       NoLease, OpEndUncounted
  <2>3. Carried'
    BY <1>4, PoolAssumption, ProcAssumption DEF IInv, TypeOK, Carried, EnsurePC, CreatePC,
       RequestPC, Leases, NoLease, OpEndUncounted
  <2>4. \A q \in Requests, v \in Sessions : CreatorHas(q, v)' <=> CreatorHas(q, v)
    BY <1>4, ProcAssumption DEF IInv, TypeOK, Carried, CreatorHas, OpEndUncounted
  <2>5. Custody'
    BY <1>4, <2>1, <2>4, SameCustody DEF OpEndUncounted
  <2>6. QED BY <2>1, <2>2, <2>3, <2>5 DEF IInv
<1>5. QED
  BY <1>1, <1>2, <1>3, <1>4 DEF Use

\* Clients, timeouts, the cleanup clock, the JVM and shutdown.
LEMMA EnvironmentStep ==
  ASSUME IInv, Environment
  PROVE  IInv'
<1> USE DEF poolVars, sessVars, gwVars, reqVars, procVars, Procs, Goto, Finish, LoopFree
<1>1. ASSUME NEW r \in Requests, NEW k \in Keys, StartCreate(r, k) PROVE IInv'
  <2>1. lru' \in Seq(Sessions) /\ Distinct(lru') /\ PoolBound' /\ Pooled' = Pooled
    BY <1>1, SamePool DEF StartCreate
  <2>2. TypeOK'
    BY <1>1, <2>1, PoolAssumption, ProcAssumption DEF IInv, TypeOK, Carried, PC, Leases,
       NoLease, StartCreate
  <2>3. Carried'
    BY <1>1, PoolAssumption, ProcAssumption DEF IInv, TypeOK, Carried, EnsurePC, CreatePC,
       RequestPC, Leases, NoLease, StartCreate
  <2>4. \A q \in Requests, v \in Sessions : CreatorHas(q, v)' <=> CreatorHas(q, v)
    BY <1>1, ProcAssumption DEF IInv, TypeOK, Carried, CreatorHas, StartCreate
  <2>5. Custody'
    BY <1>1, <2>1, <2>4, SameCustody DEF StartCreate
  <2>6. QED BY <2>1, <2>2, <2>3, <2>5 DEF IInv
<1>2. ASSUME NEW r \in Requests, NEW s \in Sessions, NEW k \in Keys, NEW b \in BOOLEAN,
             AcquireReuse(r, s, k, b)
      PROVE  IInv'
  <2>1. lru' \in Seq(Sessions) /\ Distinct(lru') /\ PoolBound' /\ Pooled' = Pooled
    BY <1>2, MovedPool DEF AcquireReuse, NewestMatch, Pooled, Ids
  <2>2. TypeOK'
    BY <1>2, <2>1, PoolAssumption, ProcAssumption DEF IInv, TypeOK, Carried, PC, Leases,
       NoLease, AcquireReuse
  <2>3. Carried'
    BY <1>2, PoolAssumption, ProcAssumption DEF IInv, TypeOK, Carried, EnsurePC, CreatePC,
       RequestPC, Leases, NoLease, AcquireReuse
  <2>4. \A q \in Requests, v \in Sessions : CreatorHas(q, v)' <=> CreatorHas(q, v)
    BY <1>2, ProcAssumption DEF IInv, TypeOK, Carried, CreatorHas, AcquireReuse
  <2>5. Custody'
    BY <1>2, <2>1, <2>4, SameCustody DEF AcquireReuse
  <2>6. QED BY <2>1, <2>2, <2>3, <2>5 DEF IInv
<1>3. ASSUME NEW r \in Requests, NEW s \in Sessions, NEW t \in Leases, OpGet(r, s, t) PROVE IInv'
  <2>1. lru' \in Seq(Sessions) /\ Distinct(lru') /\ PoolBound' /\ Pooled' = Pooled
    BY <1>3, MovedPool DEF OpGet, Holds
  <2>2. TypeOK'
    BY <1>3, <2>1, PoolAssumption, ProcAssumption DEF IInv, TypeOK, Carried, PC, Leases,
       NoLease, OpGet
  <2>3. Carried'
    BY <1>3, PoolAssumption, ProcAssumption DEF IInv, TypeOK, Carried, EnsurePC, CreatePC,
       RequestPC, Leases, NoLease, OpGet
  <2>4. \A q \in Requests, v \in Sessions : CreatorHas(q, v)' <=> CreatorHas(q, v)
    BY <1>3, ProcAssumption DEF IInv, TypeOK, Carried, CreatorHas, OpGet
  <2>5. Custody'
    BY <1>3, <2>1, <2>4, SameCustody DEF OpGet
  <2>6. QED BY <2>1, <2>2, <2>3, <2>5 DEF IInv
<1>4. ASSUME NEW s \in Sessions, NEW t \in Leases, Release(s, t) PROVE IInv'
  <2>1. lru' \in Seq(Sessions) /\ Distinct(lru') /\ PoolBound' /\ Pooled' = Pooled
    BY <1>4, MovedPool DEF Release, Holds
  <2>2. TypeOK'
    BY <1>4, <2>1, PoolAssumption, ProcAssumption DEF IInv, TypeOK, Carried, PC, Leases,
       NoLease, Release
  <2>3. Carried'
    BY <1>4, PoolAssumption, ProcAssumption DEF IInv, TypeOK, Carried, EnsurePC, CreatePC,
       RequestPC, Leases, NoLease, Release
  <2>4. \A q \in Requests, v \in Sessions : CreatorHas(q, v)' <=> CreatorHas(q, v)
    BY <1>4, ProcAssumption DEF IInv, TypeOK, Carried, CreatorHas, Release
  <2>5. Custody'
    BY <1>4, <2>1, <2>4, SameCustody DEF Release
  <2>6. QED BY <2>1, <2>2, <2>3, <2>5 DEF IInv
<1>5. ASSUME NEW r \in Requests, NEW s \in Sessions, NEW t \in Leases \cup {NoLease},
             DeleteStart(r, s, t)
      PROVE  IInv'
  <2>1. lru' \in Seq(Sessions) /\ Distinct(lru') /\ PoolBound' /\ Pooled' = Pooled
    BY <1>5, SamePool DEF DeleteStart
  <2>2. TypeOK'
    BY <1>5, <2>1, PoolAssumption, ProcAssumption DEF IInv, TypeOK, Carried, PC, Leases,
       NoLease, DeleteStart
  <2>3. Carried'
    BY <1>5, PoolAssumption, ProcAssumption DEF IInv, TypeOK, Carried, EnsurePC, CreatePC,
       RequestPC, Leases, NoLease, DeleteStart
  <2>4. \A q \in Requests, v \in Sessions : CreatorHas(q, v)' <=> CreatorHas(q, v)
    BY <1>5, ProcAssumption DEF IInv, TypeOK, Carried, CreatorHas, DeleteStart
  <2>5. Custody'
    BY <1>5, <2>1, <2>4, SameCustody DEF DeleteStart
  <2>6. QED BY <2>1, <2>2, <2>3, <2>5 DEF IInv
<1>6. ASSUME NEW r \in Requests, CreateTimeout(r) PROVE IInv'
  <2>1. lru' \in Seq(Sessions) /\ Distinct(lru') /\ PoolBound' /\ Pooled' = Pooled
    BY <1>6, SamePool DEF CreateTimeout
  <2>2. TypeOK'
    BY <1>6, <2>1, PoolAssumption, ProcAssumption DEF IInv, TypeOK, Carried, PC, Leases,
       NoLease, CreateTimeout
  <2>3. Carried'
    BY <1>6, PoolAssumption, ProcAssumption DEF IInv, TypeOK, Carried, EnsurePC, CreatePC,
       RequestPC, Leases, NoLease, CreateTimeout
  <2>4. \A q \in Requests, v \in Sessions : CreatorHas(q, v)' <=> CreatorHas(q, v)
    BY <1>6, ProcAssumption DEF IInv, TypeOK, Carried, CreatorHas, CreateTimeout
  <2>5. Custody'
    BY <1>6, <2>1, <2>4, SameCustody DEF CreateTimeout
  <2>6. QED BY <2>1, <2>2, <2>3, <2>5 DEF IInv
<1>7. ASSUME NEW r \in Requests, CreateTimeoutLate(r) PROVE IInv'
  <2>1. lru' \in Seq(Sessions) /\ Distinct(lru') /\ PoolBound' /\ Pooled' = Pooled
    BY <1>7, SamePool DEF CreateTimeoutLate
  <2>2. TypeOK'
    BY <1>7, <2>1, PoolAssumption, ProcAssumption DEF IInv, TypeOK, Carried, PC, Leases,
       NoLease, CreateTimeoutLate
  <2>3. Carried'
    BY <1>7, PoolAssumption, ProcAssumption DEF IInv, TypeOK, Carried, EnsurePC, CreatePC,
       RequestPC, Leases, NoLease, CreateTimeoutLate
  <2>4. /\ \A q \in Requests, v \in Sessions : CreatorHas(q, v)' <=> CreatorHas(q, v) /\ q # r
        /\ \A q \in Procs : toClose'[q] = toClose[q]
        /\ status' = status /\ leaked' = leaked \cup {sid[r]}
    BY <1>7, ProcAssumption DEF IInv, TypeOK, Carried, CreatorHas, CreateTimeoutLate
  <2>5. Custody'
    <3>1. ASSUME NEW v \in Sessions PROVE HeldOnce(v)'
      <4>1. HeldOnce(v)
        BY DEF IInv, Custody
      <4>2. QED BY <2>1, <2>4, <4>1, <1>7, ProcAssumption DEF IInv, TypeOK, Carried,
          HeldOnce, CreateTimeoutLate, CreatorHas
    <3>2. QED BY <3>1 DEF Custody
  <2>6. QED BY <2>1, <2>2, <2>3, <2>5 DEF IInv
<1>8. ASSUME CleanupCollect PROVE IInv'
  <2>1. lru' \in Seq(Sessions) /\ Distinct(lru') /\ PoolBound' /\ Pooled' = Pooled
    BY <1>8, SamePool DEF CleanupCollect
  <2>2. TypeOK'
    BY <1>8, <2>1, PooledSessions, PoolAssumption, ProcAssumption DEF IInv, TypeOK, Carried,
       PC, Leases, NoLease, CleanupCollect
  <2>3. Carried'
    BY <1>8, PoolAssumption, ProcAssumption DEF IInv, TypeOK, Carried, EnsurePC, CreatePC,
       RequestPC, Leases, NoLease, CleanupCollect
  <2>4. \A q \in Requests, v \in Sessions : CreatorHas(q, v)' <=> CreatorHas(q, v)
    BY <1>8, ProcAssumption DEF IInv, TypeOK, Carried, CreatorHas, CleanupCollect
  <2>5. Custody'
    BY <1>8, <2>1, <2>4, SameCustody DEF CleanupCollect
  <2>6. QED BY <2>1, <2>2, <2>3, <2>5 DEF IInv
<1>9. ASSUME NEW g \in 1..MaxGateways, JvmDies(g) PROVE IInv'
  <2>1. lru' \in Seq(Sessions) /\ Distinct(lru') /\ PoolBound' /\ Pooled' = Pooled
    BY <1>9, SamePool DEF JvmDies
  <2>2. TypeOK'
    BY <1>9, <2>1, PoolAssumption, ProcAssumption DEF IInv, TypeOK, Carried, PC, Leases,
       NoLease, JvmDies
  <2>3. Carried'
    BY <1>9, PoolAssumption, ProcAssumption DEF IInv, TypeOK, Carried, EnsurePC, CreatePC,
       RequestPC, Leases, NoLease, JvmDies
  <2>4. \A q \in Requests, v \in Sessions : CreatorHas(q, v)' <=> CreatorHas(q, v)
    BY <1>9, ProcAssumption DEF IInv, TypeOK, Carried, CreatorHas, JvmDies
  <2>5. Custody'
    BY <1>9, <2>1, <2>4, SameCustody DEF JvmDies
  <2>6. QED BY <2>1, <2>2, <2>3, <2>5 DEF IInv
<1>10. ASSUME Shutdown PROVE IInv'
  <2>1. lru' \in Seq(Sessions) /\ Distinct(lru') /\ PoolBound' /\ Pooled' = {}
    BY <1>10, EmptySeq, PoolAssumption DEF Shutdown, Pooled, Ids, Distinct, PoolBound
  <2>2. TypeOK'
    BY <1>10, <2>1, PooledSessions, PoolAssumption, ProcAssumption DEF IInv, TypeOK,
       Carried, PC, Leases, NoLease, Shutdown
  <2>3. Carried'
    BY <1>10, PoolAssumption, ProcAssumption DEF IInv, TypeOK, Carried, EnsurePC, CreatePC,
       RequestPC, Leases, NoLease, Shutdown
  <2>4. /\ \A q \in Requests, v \in Sessions : CreatorHas(q, v)' <=> CreatorHas(q, v)
        /\ \A q \in Procs : toClose'[q] = IF q = Main THEN Pooled ELSE toClose[q]
        /\ status' = status /\ leaked' = leaked
    BY <1>10, ProcAssumption DEF IInv, TypeOK, Carried, CreatorHas, Shutdown
  <2>5. Custody'
    <3>1. ASSUME NEW v \in Sessions PROVE HeldOnce(v)'
      <4>1. HeldOnce(v)
        BY DEF IInv, Custody
      <4>2. QED BY <2>1, <2>4, <4>1, <1>10, ProcAssumption DEF IInv, TypeOK, Carried,
          HeldOnce, Shutdown
    <3>2. QED BY <3>1 DEF Custody
  <2>6. QED BY <2>1, <2>2, <2>3, <2>5 DEF IInv
<1>11. QED
  BY <1>1, <1>2, <1>3, <1>4, <1>5, <1>6, <1>7, <1>8, <1>9, <1>10
     DEF Environment, PostSession, PostAcquire

\* _ensure_gateway and the purge of the pool.
LEMMA EnsureStepInv ==
  ASSUME IInv, NEW p0 \in Requests \cup {Cleanup}, Ensure(p0)
  PROVE  IInv'
<1> USE DEF poolVars, sessVars, gwVars, reqVars, procVars, Procs, Goto, Finish, LoopFree
<1>1. ASSUME NEW p \in Requests \cup {Cleanup}, EnsureLock(p) PROVE IInv'
  <2>1. lru' \in Seq(Sessions) /\ Distinct(lru') /\ PoolBound' /\ Pooled' = Pooled
    BY <1>1, SamePool DEF EnsureLock
  <2>2. TypeOK'
    BY <1>1, <2>1, PoolAssumption, ProcAssumption DEF IInv, TypeOK, Carried, PC, Leases,
       NoLease, EnsureLock
  <2>3. Carried'
    BY <1>1, PoolAssumption, ProcAssumption DEF IInv, TypeOK, Carried, EnsurePC, CreatePC,
       RequestPC, Leases, NoLease, EnsureLock
  <2>4. \A q \in Requests, v \in Sessions : CreatorHas(q, v)' <=> CreatorHas(q, v)
    BY <1>1, ProcAssumption DEF IInv, TypeOK, Carried, CreatorHas, EnsureLock
  <2>5. Custody'
    BY <1>1, <2>1, <2>4, SameCustody DEF EnsureLock
  <2>6. QED BY <2>1, <2>2, <2>3, <2>5 DEF IInv
<1>2. ASSUME NEW p \in Requests \cup {Cleanup}, EnsureAlive(p) PROVE IInv'
  <2>1. lru' \in Seq(Sessions) /\ Distinct(lru') /\ PoolBound' /\ Pooled' = Pooled
    BY <1>2, SamePool DEF EnsureAlive, EnsureReturn
  <2>2. TypeOK'
    BY <1>2, <2>1, PoolAssumption, ProcAssumption DEF IInv, TypeOK, Carried, PC, Leases,
       NoLease, EnsureAlive, EnsureReturn
  <2>3. Carried'
    BY <1>2, PoolAssumption, ProcAssumption DEF IInv, TypeOK, Carried, EnsurePC, CreatePC,
       RequestPC, Leases, NoLease, EnsureAlive, EnsureReturn
  <2>4. \A q \in Requests, v \in Sessions : CreatorHas(q, v)' <=> CreatorHas(q, v)
    BY <1>2, ProcAssumption DEF IInv, TypeOK, Carried, CreatorHas, EnsureAlive, EnsureReturn
  <2>5. Custody'
    BY <1>2, <2>1, <2>4, SameCustody DEF EnsureAlive, EnsureReturn
  <2>6. QED BY <2>1, <2>2, <2>3, <2>5 DEF IInv
<1>3. ASSUME NEW p \in Requests \cup {Cleanup}, EnsurePurge(p) PROVE IInv'
  <2>1. lru' \in Seq(Sessions) /\ Distinct(lru') /\ PoolBound' /\ Pooled' = {}
    BY <1>3, EmptySeq, PoolAssumption DEF EnsurePurge, Pooled, Ids, Distinct, PoolBound
  <2>2. TypeOK'
    BY <1>3, <2>1, PooledSessions, PoolAssumption, ProcAssumption DEF IInv, TypeOK, Carried,
       PC, Leases, NoLease, EnsurePurge
  <2>3. Carried'
    BY <1>3, PoolAssumption, ProcAssumption DEF IInv, TypeOK, Carried, EnsurePC, CreatePC,
       RequestPC, Leases, NoLease, EnsurePurge
  <2>4. /\ \A q \in Requests, v \in Sessions : CreatorHas(q, v)' <=> CreatorHas(q, v)
        /\ \A q \in Procs : toClose'[q] = IF q = p THEN Pooled ELSE toClose[q]
        /\ status' = status /\ leaked' = leaked
    BY <1>3, ProcAssumption DEF IInv, TypeOK, Carried, CreatorHas, EnsurePurge
  <2>5. Custody'
    <3>1. ASSUME NEW v \in Sessions PROVE HeldOnce(v)'
      <4>1. HeldOnce(v)
        BY DEF IInv, Custody
      <4>2. QED BY <2>1, <2>4, <4>1, <1>3, ProcAssumption DEF IInv, TypeOK, Carried,
          HeldOnce, EnsurePurge
    <3>2. QED BY <3>1 DEF Custody
  <2>6. QED BY <2>1, <2>2, <2>3, <2>5 DEF IInv
<1>4. ASSUME NEW p \in Requests \cup {Cleanup}, PurgeDone(p) PROVE IInv'
  <2>1. lru' \in Seq(Sessions) /\ Distinct(lru') /\ PoolBound' /\ Pooled' = Pooled
    BY <1>4, SamePool DEF PurgeDone
  <2>2. TypeOK'
    BY <1>4, <2>1, PoolAssumption, ProcAssumption DEF IInv, TypeOK, Carried, PC, Leases,
       NoLease, PurgeDone
  <2>3. Carried'
    BY <1>4, PoolAssumption, ProcAssumption DEF IInv, TypeOK, Carried, EnsurePC, CreatePC,
       RequestPC, Leases, NoLease, PurgeDone
  <2>4. \A q \in Requests, v \in Sessions : CreatorHas(q, v)' <=> CreatorHas(q, v)
    BY <1>4, ProcAssumption DEF IInv, TypeOK, Carried, CreatorHas, PurgeDone
  <2>5. Custody'
    BY <1>4, <2>1, <2>4, SameCustody DEF PurgeDone
  <2>6. QED BY <2>1, <2>2, <2>3, <2>5 DEF IInv
<1>5. ASSUME NEW p \in Requests \cup {Cleanup}, EnsureStart(p) PROVE IInv'
  <2>1. lru' \in Seq(Sessions) /\ Distinct(lru') /\ PoolBound' /\ Pooled' = Pooled
    BY <1>5, SamePool DEF EnsureStart, EnsureReturn, MayStart
  <2>2. TypeOK'
    BY <1>5, <2>1, PoolAssumption, ProcAssumption DEF IInv, TypeOK, Carried, PC, Leases,
       NoLease, EnsureStart, EnsureReturn, MayStart
  <2>3. Carried'
    BY <1>5, PoolAssumption, ProcAssumption DEF IInv, TypeOK, Carried, EnsurePC, CreatePC,
       RequestPC, Leases, NoLease, EnsureStart, EnsureReturn, MayStart
  <2>4. \A q \in Requests, v \in Sessions : CreatorHas(q, v)' <=> CreatorHas(q, v)
    BY <1>5, ProcAssumption DEF IInv, TypeOK, Carried, CreatorHas, EnsureStart,
       EnsureReturn, MayStart
  <2>5. Custody'
    BY <1>5, <2>1, <2>4, SameCustody DEF EnsureStart, EnsureReturn, MayStart
  <2>6. QED BY <2>1, <2>2, <2>3, <2>5 DEF IInv
<1>6. QED
  BY <1>1, <1>2, <1>3, <1>4, <1>5 DEF Ensure

\* Memory relief: the oldest idle session moves from the pool to its closer.
LEMMA RelieveStep ==
  ASSUME IInv, NEW p \in Procs, pc[p] \in {"admit", "sweep"}, RelieveMemory(p)
  PROVE  IInv'
<1> USE DEF poolVars, sessVars, gwVars, reqVars, procVars, Procs, Goto, Finish, LoopFree
<1>1. PICK s \in Pooled : lru' = Without(lru, s) /\ toClose' = [toClose EXCEPT ![p] = {s}]
  BY DEF RelieveMemory
<1>2. s \in Sessions /\ toClose[p] = {}
  BY PooledSessions DEF RelieveMemory
<1>3. lru' \in Seq(Sessions) /\ Distinct(lru') /\ PoolBound' /\ Pooled' = Pooled \ {s}
  BY <1>1, PoppedPool
<1>4. TypeOK'
  BY <1>1, <1>2, <1>3 DEF IInv, TypeOK, RelieveMemory
<1>5. Carried'
  BY <1>1, <1>2 DEF IInv, TypeOK, Carried, RelieveMemory
<1>6. Custody'
  <2>1. /\ \A q \in Requests, v \in Sessions : CreatorHas(q, v)' <=> CreatorHas(q, v)
        /\ \A q \in Procs : toClose'[q] = IF q = p THEN {s} ELSE toClose[q]
        /\ status' = status /\ leaked' = leaked
    BY <1>1 DEF IInv, TypeOK, CreatorHas, RelieveMemory
  <2>2. ASSUME NEW v \in Sessions PROVE HeldOnce(v)'
    <3>1. HeldOnce(v)
      BY DEF IInv, Custody
    <3>2. QED BY <1>2, <1>3, <2>1, <3>1 DEF HeldOnce
  <2>3. QED BY <2>2 DEF Custody
<1>7. QED BY <1>3, <1>4, <1>5, <1>6 DEF IInv

\* _create_session after _ensure_gateway.
LEMMA CreateStep ==
  ASSUME IInv, NEW r0 \in Requests, Create(r0)
  PROVE  IInv'
<1> USE DEF poolVars, sessVars, gwVars, reqVars, procVars, Procs, Goto, Finish, LoopFree
<1>1. ASSUME NEW r \in Requests, EnsureFails(r) PROVE IInv'
  <2>1. lru' \in Seq(Sessions) /\ Distinct(lru') /\ PoolBound' /\ Pooled' = Pooled
    BY <1>1, SamePool DEF EnsureFails
  <2>2. TypeOK'
    BY <1>1, <2>1, PoolAssumption, ProcAssumption DEF IInv, TypeOK, Carried, PC, Leases,
       NoLease, EnsureFails, MayStart
  <2>3. Carried'
    BY <1>1, PoolAssumption, ProcAssumption DEF IInv, TypeOK, Carried, EnsurePC, CreatePC,
       RequestPC, Leases, NoLease, EnsureFails, MayStart
  <2>4. \A q \in Requests, v \in Sessions : CreatorHas(q, v)' <=> CreatorHas(q, v)
    BY <1>1, ProcAssumption DEF IInv, TypeOK, Carried, CreatorHas, EnsureFails, MayStart
  <2>5. Custody'
    BY <1>1, <2>1, <2>4, SameCustody DEF EnsureFails, MayStart
  <2>6. QED BY <2>1, <2>2, <2>3, <2>5 DEF IInv
<1>2. ASSUME NEW r \in Requests, AdmitOk(r) PROVE IInv'
  <2>1. lru' \in Seq(Sessions) /\ Distinct(lru') /\ PoolBound' /\ Pooled' = Pooled
    BY <1>2, SamePool DEF AdmitOk
  <2>2. TypeOK'
    BY <1>2, <2>1, PoolAssumption, ProcAssumption DEF IInv, TypeOK, Carried, PC, Leases,
       NoLease, AdmitOk
  <2>3. Carried'
    BY <1>2, PoolAssumption, ProcAssumption DEF IInv, TypeOK, Carried, EnsurePC, CreatePC,
       RequestPC, Leases, NoLease, AdmitOk
  <2>4. \A q \in Requests, v \in Sessions : CreatorHas(q, v)' <=> CreatorHas(q, v)
    BY <1>2, ProcAssumption DEF IInv, TypeOK, Carried, CreatorHas, AdmitOk
  <2>5. Custody'
    BY <1>2, <2>1, <2>4, SameCustody DEF AdmitOk
  <2>6. QED BY <2>1, <2>2, <2>3, <2>5 DEF IInv
<1>3. ASSUME NEW r \in Requests, AdmitRefuse(r) PROVE IInv'
  <2>1. lru' \in Seq(Sessions) /\ Distinct(lru') /\ PoolBound' /\ Pooled' = Pooled
    BY <1>3, SamePool DEF AdmitRefuse
  <2>2. TypeOK'
    BY <1>3, <2>1, PoolAssumption, ProcAssumption DEF IInv, TypeOK, Carried, PC, Leases,
       NoLease, AdmitRefuse
  <2>3. Carried'
    BY <1>3, PoolAssumption, ProcAssumption DEF IInv, TypeOK, Carried, EnsurePC, CreatePC,
       RequestPC, Leases, NoLease, AdmitRefuse
  <2>4. \A q \in Requests, v \in Sessions : CreatorHas(q, v)' <=> CreatorHas(q, v)
    BY <1>3, ProcAssumption DEF IInv, TypeOK, Carried, CreatorHas, AdmitRefuse
  <2>5. Custody'
    BY <1>3, <2>1, <2>4, SameCustody DEF AdmitRefuse
  <2>6. QED BY <2>1, <2>2, <2>3, <2>5 DEF IInv
<1>4. ASSUME NEW r \in Requests, CreateLock(r) PROVE IInv'
  <2>1. lru' \in Seq(Sessions) /\ Distinct(lru') /\ PoolBound' /\ Pooled' = Pooled
    BY <1>4, SamePool DEF CreateLock
  <2>2. TypeOK'
    BY <1>4, <2>1, PoolAssumption, ProcAssumption DEF IInv, TypeOK, Carried, PC, Leases,
       NoLease, CreateLock
  <2>3. Carried'
    BY <1>4, PoolAssumption, ProcAssumption DEF IInv, TypeOK, Carried, EnsurePC, CreatePC,
       RequestPC, Leases, NoLease, CreateLock
  <2>4. \A q \in Requests, v \in Sessions : CreatorHas(q, v)' <=> CreatorHas(q, v)
    BY <1>4, ProcAssumption DEF IInv, TypeOK, Carried, CreatorHas, CreateLock
  <2>5. Custody'
    BY <1>4, <2>1, <2>4, SameCustody DEF CreateLock
  <2>6. QED BY <2>1, <2>2, <2>3, <2>5 DEF IInv
<1>5. ASSUME NEW r \in Requests, CreateFails(r) PROVE IInv'
  <2>1. lru' \in Seq(Sessions) /\ Distinct(lru') /\ PoolBound' /\ Pooled' = Pooled
    BY <1>5, SamePool DEF CreateFails
  <2>2. TypeOK'
    BY <1>5, <2>1, PoolAssumption, ProcAssumption DEF IInv, TypeOK, Carried, PC, Leases,
       NoLease, CreateFails
  <2>3. Carried'
    BY <1>5, PoolAssumption, ProcAssumption DEF IInv, TypeOK, Carried, EnsurePC, CreatePC,
       RequestPC, Leases, NoLease, CreateFails
  <2>4. \A q \in Requests, v \in Sessions : CreatorHas(q, v)' <=> CreatorHas(q, v)
    BY <1>5, ProcAssumption DEF IInv, TypeOK, Carried, CreatorHas, CreateFails
  <2>5. Custody'
    BY <1>5, <2>1, <2>4, SameCustody DEF CreateFails
  <2>6. QED BY <2>1, <2>2, <2>3, <2>5 DEF IInv
<1>6. ASSUME NEW r \in Requests, ClosingDone(r) PROVE IInv'
  <2>1. lru' \in Seq(Sessions) /\ Distinct(lru') /\ PoolBound' /\ Pooled' = Pooled
    BY <1>6, SamePool DEF ClosingDone
  <2>2. TypeOK'
    BY <1>6, <2>1, PoolAssumption, ProcAssumption DEF IInv, TypeOK, Carried, PC, Leases,
       NoLease, ClosingDone
  <2>3. Carried'
    BY <1>6, PoolAssumption, ProcAssumption DEF IInv, TypeOK, Carried, EnsurePC, CreatePC,
       RequestPC, Leases, NoLease, ClosingDone
  <2>4. \A q \in Requests, v \in Sessions : CreatorHas(q, v)' <=> CreatorHas(q, v)
    BY <1>6, ProcAssumption DEF IInv, TypeOK, Carried, CreatorHas, ClosingDone
  <2>5. Custody'
    BY <1>6, <2>1, <2>4, SameCustody DEF ClosingDone
  <2>6. QED BY <2>1, <2>2, <2>3, <2>5 DEF IInv
<1>7. ASSUME NEW r \in Requests, NEW s \in Sessions, CreateOk(r, s) PROVE IInv'
  <2>1. lru' \in Seq(Sessions) /\ Distinct(lru') /\ PoolBound' /\ Pooled' = Pooled
    BY <1>7, SamePool DEF CreateOk, BackendCreated
  <2>2. TypeOK'
    BY <1>7, <2>1, PoolAssumption, ProcAssumption DEF IInv, TypeOK, Carried, PC, Leases,
       NoLease, CreateOk, BackendCreated
  <2>3. Carried'
    BY <1>7, PoolAssumption, ProcAssumption DEF IInv, TypeOK, Carried, EnsurePC, CreatePC,
       RequestPC, Leases, NoLease, CreateOk, BackendCreated
  <2>4. /\ \A q \in Requests, v \in Sessions : CreatorHas(q, v)' <=> CreatorHas(q, v) \/ (q = r /\ v = s)
        /\ \A q \in Procs : toClose'[q] = toClose[q]
        /\ status' = [status EXCEPT ![s] = "active"] /\ leaked' = leaked
    BY <1>7, ProcAssumption DEF IInv, TypeOK, Carried, CreatorHas, CreateOk, BackendCreated
  <2>5. Custody'
    <3>1. ASSUME NEW v \in Sessions PROVE HeldOnce(v)'
      <4>1. HeldOnce(v)
        BY DEF IInv, Custody
      <4>2. QED BY <2>1, <2>4, <4>1, <1>7, ProcAssumption DEF IInv, TypeOK, Carried,
          HeldOnce, CreateOk, BackendCreated
    <3>2. QED BY <3>1 DEF Custody
  <2>6. QED BY <2>1, <2>2, <2>3, <2>5 DEF IInv
<1>8. ASSUME NEW r \in Requests, NEW s \in Sessions, CreateOrphan(r, s) PROVE IInv'
  <2>1. lru' \in Seq(Sessions) /\ Distinct(lru') /\ PoolBound' /\ Pooled' = Pooled
    BY <1>8, SamePool DEF CreateOrphan, BackendCreated
  <2>2. TypeOK'
    BY <1>8, <2>1, PoolAssumption, ProcAssumption DEF IInv, TypeOK, Carried, PC, Leases,
       NoLease, CreateOrphan, BackendCreated
  <2>3. Carried'
    BY <1>8, PoolAssumption, ProcAssumption DEF IInv, TypeOK, Carried, EnsurePC, CreatePC,
       RequestPC, Leases, NoLease, CreateOrphan, BackendCreated
  <2>4. /\ \A q \in Requests, v \in Sessions : CreatorHas(q, v)' <=> CreatorHas(q, v)
        /\ \A q \in Procs : toClose'[q] = toClose[q]
        /\ status' = [status EXCEPT ![s] = "active"] /\ leaked' = leaked \cup {s}
    BY <1>8, ProcAssumption DEF IInv, TypeOK, Carried, CreatorHas, CreateOrphan,
       BackendCreated
  <2>5. Custody'
    <3>1. ASSUME NEW v \in Sessions PROVE HeldOnce(v)'
      <4>1. HeldOnce(v)
        BY DEF IInv, Custody
      <4>2. QED BY <2>1, <2>4, <4>1, <1>8, ProcAssumption DEF IInv, TypeOK, Carried,
          HeldOnce, CreateOrphan, BackendCreated
    <3>2. QED BY <3>1 DEF Custody
  <2>6. QED BY <2>1, <2>2, <2>3, <2>5 DEF IInv
<1>9. ASSUME NEW r \in Requests, RegisterRefused(r) PROVE IInv'
  <2>1. lru' \in Seq(Sessions) /\ Distinct(lru') /\ PoolBound' /\ Pooled' = Pooled
    BY <1>9, SamePool DEF RegisterRefused
  <2>2. TypeOK'
    BY <1>9, <2>1, PoolAssumption, ProcAssumption, SMTT(30) DEF IInv, TypeOK, Carried, PC, Leases,
       NoLease, RegisterRefused
  <2>3. Carried'
    BY <1>9, PoolAssumption, ProcAssumption DEF IInv, TypeOK, Carried, EnsurePC, CreatePC,
       RequestPC, Leases, NoLease, RegisterRefused
  <2>0. sid[r] \in Sessions /\ (\A v \in Sessions : CreatorHas(r, v) <=> v = sid[r]) /\ toClose[r] = {}
    BY <1>9 DEF IInv, TypeOK, Carried, CreatorHas, RegisterRefused
  <2>4. /\ \A q \in Requests, v \in Sessions : CreatorHas(q, v)' <=> CreatorHas(q, v) /\ q # r
        /\ \A q \in Procs : toClose'[q] = IF q = r THEN {sid[r]} ELSE toClose[q]
        /\ status' = status /\ leaked' = leaked
    BY <1>9, <2>0, ProcAssumption DEF IInv, TypeOK, Carried, CreatorHas, RegisterRefused
  <2>5. Custody'
    <3>1. ASSUME NEW v \in Sessions PROVE HeldOnce(v)'
      <4>1. HeldOnce(v)
        BY DEF IInv, Custody
      <4>2. QED BY <2>1, <2>4, <4>1, <2>0 DEF HeldOnce
    <3>2. QED BY <3>1 DEF Custody
  <2>6. QED BY <2>1, <2>2, <2>3, <2>5 DEF IInv
<1>10. ASSUME NEW r \in Requests, RegisterFits(r) PROVE IInv'
  <2>0. /\ sid[r] \in Sessions /\ sid[r] \notin Pooled
        /\ \A v \in Sessions : CreatorHas(r, v) <=> v = sid[r]
        /\ lru \in Seq(Sessions) /\ Distinct(lru) /\ Len(lru) \in Nat
    BY <1>10 DEF IInv, TypeOK, Carried, Custody, HeldOnce, CreatorHas, RegisterFits
  <2>1. lru' \in Seq(Sessions) /\ Distinct(lru') /\ PoolBound' /\ Pooled' = Pooled \cup {sid[r]}
    <3>1. lru' = Append(lru, sid[r]) /\ Len(lru) < PoolSize
      BY <1>10 DEF RegisterFits
    <3>2. /\ lru' \in Seq(Sessions) /\ Len(lru') = Len(lru) + 1
          /\ Distinct(lru') /\ Ids(lru') = Ids(lru) \cup {sid[r]}
      BY <2>0, <3>1, AppendSeq DEF Pooled
    <3>3. QED BY <2>0, <3>1, <3>2, PoolAssumption DEF PoolBound, Pooled
  <2>2. TypeOK'
    BY <1>10, <2>0, <2>1, PoolAssumption, ProcAssumption DEF IInv, TypeOK, Carried,
       CreatePC, PC, Leases, NoLease, RegisterFits, LeaseNew
  <2>3. Carried'
    BY <1>10, PoolAssumption, ProcAssumption DEF IInv, TypeOK, Carried, EnsurePC, CreatePC,
       RequestPC, Leases, NoLease, RegisterFits, LeaseNew
  <2>4. /\ \A q \in Requests, v \in Sessions : CreatorHas(q, v)' <=> CreatorHas(q, v) /\ q # r
        /\ \A q \in Procs : toClose'[q] = toClose[q]
        /\ status' = status /\ leaked' = leaked
    BY <1>10, <2>0, ProcAssumption DEF IInv, TypeOK, Carried, CreatorHas, RegisterFits,
       LeaseNew
  <2>5. Custody'
    <3>1. ASSUME NEW v \in Sessions PROVE HeldOnce(v)'
      <4>1. HeldOnce(v)
        BY DEF IInv, Custody
      <4>2. QED BY <2>1, <2>4, <4>1, <2>0 DEF HeldOnce
    <3>2. QED BY <3>1 DEF Custody
  <2>6. QED BY <2>1, <2>2, <2>3, <2>5 DEF IInv
<1>11. ASSUME NEW r \in Requests, RegisterEvicts(r) PROVE IInv'
  <2>r. pc[r] = "register"
    BY <1>11 DEF RegisterEvicts
  <2>0. /\ sid[r] \in Sessions /\ sid[r] \notin Pooled /\ toClose[r] = {}
        /\ \A x \in Sessions : CreatorHas(r, x) <=> x = sid[r]
        /\ lru \in Seq(Sessions) /\ Distinct(lru) /\ Len(lru) \in Nat
    <3>1. sid[r] \in Sessions /\ toClose[r] = {}
      BY <2>r DEF IInv, Carried
    <3>2. HeldOnce(sid[r])
      BY <3>1 DEF IInv, Custody
    <3>3. \A x \in Sessions : CreatorHas(r, x) <=> x = sid[r]
      BY <2>r DEF CreatorHas
    <3>4. QED BY <3>1, <3>2, <3>3 DEF IInv, TypeOK, HeldOnce
  <2>a. PICK v \in Pooled : /\ lru' = Append(Without(lru, v), sid[r])
                            /\ toClose' = [toClose EXCEPT ![r] = {v}]
    BY <1>11 DEF RegisterEvicts
  <2>b. v \in Sessions
    BY PooledSessions
  <2>c. /\ pc[r] = "register" /\ LoopFree
        /\ lease' = [lease EXCEPT ![sid[r]] = tok[r]]
        /\ issued' = issued \cup {<<sid[r], tok[r]>>}
        /\ loop' = r
        /\ pc' = [pc EXCEPT ![r] = "closing"]
        /\ UNCHANGED <<nextLease, sessVars, gwVars, reqVars, sweep, down>>
    BY <1>11 DEF RegisterEvicts, LeaseNew
  <2>1. /\ lru' \in Seq(Sessions) /\ Distinct(lru') /\ PoolBound'
        /\ Pooled' = (Pooled \ {v}) \cup {sid[r]}
    <3>1. /\ Without(lru, v) \in Seq(Sessions) /\ Len(Without(lru, v)) = Len(lru) - 1
          /\ Distinct(Without(lru, v)) /\ Ids(Without(lru, v)) = Ids(lru) \ {v}
      BY <2>0, WithoutSeq DEF Pooled
    <3>2. /\ lru' \in Seq(Sessions) /\ Len(lru') = Len(Without(lru, v)) + 1
          /\ Distinct(lru') /\ Ids(lru') = Ids(Without(lru, v)) \cup {sid[r]}
      BY <2>0, <2>a, <3>1, AppendSeq DEF Pooled
    <3>3. Len(lru') = Len(lru)
      BY <2>0, <3>1, <3>2
    <3>4. QED BY <3>1, <3>2, <3>3 DEF IInv, PoolBound, Pooled
  <2>2. TypeOK'
    BY <2>c, <2>0, <2>1, <2>a, <2>b, PoolAssumption, ProcAssumption, SMTT(30) DEF IInv, TypeOK,
       Carried, CreatePC, PC, Leases, NoLease
  <2>3. Carried'
    BY <2>c, <2>a, <2>b, PoolAssumption, ProcAssumption DEF IInv, TypeOK, Carried, EnsurePC,
       CreatePC, RequestPC, Leases, NoLease
  <2>4. /\ \A q \in Requests, x \in Sessions : CreatorHas(q, x)' <=> CreatorHas(q, x) /\ q # r
        /\ \A q \in Procs : toClose'[q] = IF q = r THEN {v} ELSE toClose[q]
        /\ status' = status /\ leaked' = leaked
    BY <2>c, <2>0, <2>a, <2>b, ProcAssumption DEF IInv, TypeOK, Carried, CreatorHas
  <2>5. Custody'
    <3>1. ASSUME NEW x \in Sessions PROVE HeldOnce(x)'
      <4>1. HeldOnce(x)
        BY DEF IInv, Custody
      <4>2. QED BY <2>1, <2>4, <4>1, <2>0, <2>a, <2>b DEF HeldOnce
    <3>2. QED BY <3>1 DEF Custody
  <2>6. QED BY <2>1, <2>2, <2>3, <2>5 DEF IInv
<1>12. ASSUME NEW r \in Requests, AdmitEvict(r) PROVE IInv'
  BY <1>12, RelieveStep DEF AdmitEvict
<1>13. QED
  BY <1>1, <1>2, <1>3, <1>4, <1>5, <1>6, <1>7, <1>8, <1>9, <1>10, <1>11, <1>12 DEF Create,
     Register

\* DELETE /sessions/{id}.
LEMMA DeleteStep ==
  ASSUME IInv, NEW r0 \in Requests, Delete(r0)
  PROVE  IInv'
<1> USE DEF poolVars, sessVars, gwVars, reqVars, procVars, Procs, Goto, Finish, LoopFree
<1>1. ASSUME NEW r \in Requests, DeletePop(r) PROVE IInv'
  <2>0. sid[r] \in Sessions /\ sid[r] \in Pooled /\ toClose[r] = {}
    BY <1>1 DEF IInv, TypeOK, Carried, MayClose, DeletePop
  <2>1. lru' \in Seq(Sessions) /\ Distinct(lru') /\ PoolBound' /\ Pooled' = Pooled \ {sid[r]}
    BY <1>1, <2>0, PoppedPool DEF PopToClose, DeletePop
  <2>2. TypeOK'
    BY <1>1, <2>0, <2>1, PoolAssumption, ProcAssumption DEF IInv, TypeOK, Carried, CreatePC,
       PC, Leases, NoLease, DeletePop, PopToClose
  <2>3. Carried'
    BY <1>1, <2>0, PoolAssumption, ProcAssumption DEF IInv, TypeOK, Carried, EnsurePC,
       CreatePC, RequestPC, Leases, NoLease, DeletePop, PopToClose
  <2>4. /\ \A q \in Requests, v \in Sessions : CreatorHas(q, v)' <=> CreatorHas(q, v)
        /\ \A q \in Procs : toClose'[q] = IF q = r THEN {sid[r]} ELSE toClose[q]
        /\ status' = status /\ leaked' = leaked
    BY <1>1, <2>0, ProcAssumption DEF IInv, TypeOK, Carried, CreatorHas, DeletePop,
       PopToClose
  <2>5. Custody'
    <3>1. ASSUME NEW v \in Sessions PROVE HeldOnce(v)'
      <4>1. HeldOnce(v)
        BY DEF IInv, Custody
      <4>2. QED BY <2>1, <2>4, <4>1, <2>0 DEF HeldOnce
    <3>2. QED BY <3>1 DEF Custody
  <2>6. QED BY <2>1, <2>2, <2>3, <2>5 DEF IInv
<1>2. ASSUME NEW r \in Requests, DeleteRefused(r) PROVE IInv'
  <2>1. lru' \in Seq(Sessions) /\ Distinct(lru') /\ PoolBound' /\ Pooled' = Pooled
    BY <1>2, SamePool DEF DeleteRefused
  <2>2. TypeOK'
    BY <1>2, <2>1, PoolAssumption, ProcAssumption DEF IInv, TypeOK, Carried, PC, Leases,
       NoLease, DeleteRefused
  <2>3. Carried'
    BY <1>2, PoolAssumption, ProcAssumption DEF IInv, TypeOK, Carried, EnsurePC, CreatePC,
       RequestPC, Leases, NoLease, DeleteRefused
  <2>4. \A q \in Requests, v \in Sessions : CreatorHas(q, v)' <=> CreatorHas(q, v)
    BY <1>2, ProcAssumption DEF IInv, TypeOK, Carried, CreatorHas, DeleteRefused
  <2>5. Custody'
    BY <1>2, <2>1, <2>4, SameCustody DEF DeleteRefused
  <2>6. QED BY <2>1, <2>2, <2>3, <2>5 DEF IInv
<1>3. ASSUME NEW r \in Requests, DeletePutBack(r) PROVE IInv'
  <2>1. lru' \in Seq(Sessions) /\ Distinct(lru') /\ PoolBound' /\ Pooled' = Pooled
    BY <1>3, MovedPool DEF DeletePutBack, BecameBusy
  <2>2. TypeOK'
    BY <1>3, <2>1, PoolAssumption, ProcAssumption DEF IInv, TypeOK, Carried, PC, Leases,
       NoLease, DeletePutBack
  <2>3. Carried'
    BY <1>3, PoolAssumption, ProcAssumption DEF IInv, TypeOK, Carried, EnsurePC, CreatePC,
       RequestPC, Leases, NoLease, DeletePutBack
  <2>4. \A q \in Requests, v \in Sessions : CreatorHas(q, v)' <=> CreatorHas(q, v)
    BY <1>3, ProcAssumption DEF IInv, TypeOK, Carried, CreatorHas, DeletePutBack
  <2>5. Custody'
    BY <1>3, <2>1, <2>4, SameCustody DEF DeletePutBack
  <2>6. QED BY <2>1, <2>2, <2>3, <2>5 DEF IInv
<1>4. QED
  BY <1>1, <1>2, <1>3 DEF Delete

\* One round of the cleanup task.
LEMMA CleanupStep ==
  ASSUME IInv, CleanupRound
  PROVE  IInv'
<1> USE DEF poolVars, sessVars, gwVars, reqVars, procVars, Procs, Goto, Finish, LoopFree
<1>1. ASSUME NEW s \in Sessions, CleanupClose(s) PROVE IInv'
  <2>a. /\ PopToClose(Cleanup, s) /\ sweep' = sweep \ {s} /\ pc[Cleanup] = "sweep"
        /\ UNCHANGED <<sessVars, gwVars, reqVars, pc, loop, down>>
    BY <1>1 DEF CleanupClose
  <2>0. s \in Sessions /\ s \in Pooled /\ toClose[Cleanup] = {}
    BY <1>1 DEF IInv, TypeOK, Carried, MayClose, CleanupClose
  <2>1. lru' \in Seq(Sessions) /\ Distinct(lru') /\ PoolBound' /\ Pooled' = Pooled \ {s}
    BY <1>1, <2>0, PoppedPool DEF PopToClose, CleanupClose
  <2>2. TypeOK'
    BY <2>a, <2>0, <2>1, PoolAssumption, ProcAssumption DEF IInv, TypeOK, Carried, CreatePC,
       PC, Leases, NoLease, PopToClose
  <2>3. Carried'
    BY <2>a, <2>0, PoolAssumption, ProcAssumption DEF IInv, TypeOK, Carried, EnsurePC,
       CreatePC, RequestPC, Leases, NoLease, PopToClose
  <2>4. /\ \A q \in Requests, v \in Sessions : CreatorHas(q, v)' <=> CreatorHas(q, v)
        /\ \A q \in Procs : toClose'[q] = IF q = Cleanup THEN {s} ELSE toClose[q]
        /\ status' = status /\ leaked' = leaked
    BY <2>a, <2>0, ProcAssumption DEF IInv, TypeOK, Carried, CreatorHas, PopToClose
  <2>5. Custody'
    <3>1. ASSUME NEW v \in Sessions PROVE HeldOnce(v)'
      <4>1. HeldOnce(v)
        BY DEF IInv, Custody
      <4>2. QED BY <2>1, <2>4, <4>1, <2>0 DEF HeldOnce
    <3>2. QED BY <3>1 DEF Custody
  <2>6. QED BY <2>1, <2>2, <2>3, <2>5 DEF IInv
<1>2. ASSUME NEW s \in Sessions, CleanupSkip(s) PROVE IInv'
  <2>1. lru' \in Seq(Sessions) /\ Distinct(lru') /\ PoolBound' /\ Pooled' = Pooled
    BY <1>2, SamePool, MovedPool DEF CleanupSkip, BecameBusy
  <2>2. TypeOK'
    BY <1>2, <2>1, PoolAssumption, ProcAssumption DEF IInv, TypeOK, Carried, PC, Leases,
       NoLease, CleanupSkip
  <2>3. Carried'
    BY <1>2, PoolAssumption, ProcAssumption DEF IInv, TypeOK, Carried, EnsurePC, CreatePC,
       RequestPC, Leases, NoLease, CleanupSkip
  <2>4. \A q \in Requests, v \in Sessions : CreatorHas(q, v)' <=> CreatorHas(q, v)
    BY <1>2, ProcAssumption DEF IInv, TypeOK, Carried, CreatorHas, CleanupSkip
  <2>5. Custody'
    BY <1>2, <2>1, <2>4, SameCustody DEF CleanupSkip
  <2>6. QED BY <2>1, <2>2, <2>3, <2>5 DEF IInv
<1>3. ASSUME CleanupCheckGateway PROVE IInv'
  <2>1. lru' \in Seq(Sessions) /\ Distinct(lru') /\ PoolBound' /\ Pooled' = Pooled
    BY <1>3, SamePool DEF CleanupCheckGateway
  <2>2. TypeOK'
    BY <1>3, <2>1, PoolAssumption, ProcAssumption DEF IInv, TypeOK, Carried, PC, Leases,
       NoLease, CleanupCheckGateway
  <2>3. Carried'
    BY <1>3, PoolAssumption, ProcAssumption DEF IInv, TypeOK, Carried, EnsurePC, CreatePC,
       RequestPC, Leases, NoLease, CleanupCheckGateway
  <2>4. \A q \in Requests, v \in Sessions : CreatorHas(q, v)' <=> CreatorHas(q, v)
    BY <1>3, ProcAssumption DEF IInv, TypeOK, Carried, CreatorHas, CleanupCheckGateway
  <2>5. Custody'
    BY <1>3, <2>1, <2>4, SameCustody DEF CleanupCheckGateway
  <2>6. QED BY <2>1, <2>2, <2>3, <2>5 DEF IInv
<1>4. ASSUME CleanupRoundDone PROVE IInv'
  <2>1. lru' \in Seq(Sessions) /\ Distinct(lru') /\ PoolBound' /\ Pooled' = Pooled
    BY <1>4, SamePool DEF CleanupRoundDone
  <2>2. TypeOK'
    BY <1>4, <2>1, PoolAssumption, ProcAssumption DEF IInv, TypeOK, Carried, PC, Leases,
       NoLease, CleanupRoundDone
  <2>3. Carried'
    BY <1>4, PoolAssumption, ProcAssumption DEF IInv, TypeOK, Carried, EnsurePC, CreatePC,
       RequestPC, Leases, NoLease, CleanupRoundDone
  <2>4. \A q \in Requests, v \in Sessions : CreatorHas(q, v)' <=> CreatorHas(q, v)
    BY <1>4, ProcAssumption DEF IInv, TypeOK, Carried, CreatorHas, CleanupRoundDone
  <2>5. Custody'
    BY <1>4, <2>1, <2>4, SameCustody DEF CleanupRoundDone
  <2>6. QED BY <2>1, <2>2, <2>3, <2>5 DEF IInv
<1>5. ASSUME CleanupEnsureFails PROVE IInv'
  <2>1. lru' \in Seq(Sessions) /\ Distinct(lru') /\ PoolBound' /\ Pooled' = Pooled
    BY <1>5, SamePool DEF CleanupEnsureFails
  <2>2. TypeOK'
    BY <1>5, <2>1, PoolAssumption, ProcAssumption DEF IInv, TypeOK, Carried, PC, Leases,
       NoLease, CleanupEnsureFails, MayStart
  <2>3. Carried'
    BY <1>5, PoolAssumption, ProcAssumption DEF IInv, TypeOK, Carried, EnsurePC, CreatePC,
       RequestPC, Leases, NoLease, CleanupEnsureFails, MayStart
  <2>4. \A q \in Requests, v \in Sessions : CreatorHas(q, v)' <=> CreatorHas(q, v)
    BY <1>5, ProcAssumption DEF IInv, TypeOK, Carried, CreatorHas, CleanupEnsureFails,
       MayStart
  <2>5. Custody'
    BY <1>5, <2>1, <2>4, SameCustody DEF CleanupEnsureFails, MayStart
  <2>6. QED BY <2>1, <2>2, <2>3, <2>5 DEF IInv
<1>6. ASSUME CleanupEvict PROVE IInv'
  BY <1>6, RelieveStep DEF CleanupEvict
<1>7. QED
  BY <1>1, <1>2, <1>3, <1>4, <1>5, <1>6 DEF CleanupRound

-----------------------------------------------------------------------------
\* startup() establishes the invariant.
LEMMA InitInv == Init => IInv
<1> SUFFICES ASSUME Init PROVE IInv
  OBVIOUS
<1>1. /\ Prewarmed \in Nat /\ Prewarmed <= PoolSize
      /\ lru \in [1..Prewarmed -> Sessions]
  BY PoolAssumption DEF Init, Prewarmed
<1>2. lru \in Seq(Sessions) /\ Len(lru) = Prewarmed
  BY <1>1, SeqDef, LenProperties
<1>3. Distinct(lru) /\ PoolBound
  BY <1>1, <1>2, PoolAssumption DEF Init, Distinct, PoolBound
<1>4. Pooled \subseteq Sessions
  BY <1>2 DEF Pooled, Ids
<1>5. TypeOK
  <2>1. /\ 1 \in 0..MaxGateways /\ {1} \subseteq 1..MaxGateways
        /\ gen \in [Sessions -> 0..MaxGateways]
    BY PoolAssumption DEF Init
  <2>2. key \in [Sessions -> Keys \cup {NoKey}]
    BY DEF Init
  <2>3. toClose \in [Procs -> SUBSET Sessions] /\ pc \in [Procs -> PC]
    BY DEF Init, PC
  <2>4. status \in [Sessions -> {"unborn", "active", "closed"}] /\ history \in [Sessions -> BOOLEAN]
    BY DEF Init
  <2>5. QED
    BY <1>2, <2>1, <2>2, <2>3, <2>4 DEF Init, TypeOK, NoLease
<1>6. Carried
  BY ProcAssumption DEF Init, Carried, EnsurePC, CreatePC, RequestPC, Procs
<1>7. Custody
  BY <1>4, ProcAssumption DEF Init, Custody, HeldOnce, CreatorHas
<1>8. QED BY <1>3, <1>5, <1>6, <1>7 DEF IInv

\* Every step of every process preserves it.
LEMMA NextInv == IInv /\ [Next]_vars => IInv'
<1> SUFFICES ASSUME IInv, [Next]_vars PROVE IInv'
  OBVIOUS
<1> USE DEF poolVars, sessVars, gwVars, reqVars, procVars, Procs, Goto, Finish, LoopFree
<1>1. ASSUME NEW p \in Procs, NEW s \in Sessions, CloseOne(p, s) PROVE IInv'
  <2>1. lru' \in Seq(Sessions) /\ Distinct(lru') /\ PoolBound' /\ Pooled' = Pooled
    BY <1>1, SamePool DEF CloseOne
  <2>2. TypeOK'
    BY <1>1, <2>1, PoolAssumption, ProcAssumption DEF IInv, TypeOK, Carried, PC, Leases,
       NoLease, CloseOne
  <2>3. Carried'
    BY <1>1, PoolAssumption, ProcAssumption DEF IInv, TypeOK, Carried, EnsurePC, CreatePC,
       RequestPC, Leases, NoLease, CloseOne
  <2>4. /\ \A q \in Requests, v \in Sessions : CreatorHas(q, v)' <=> CreatorHas(q, v)
        /\ \A q \in Procs : toClose'[q] = IF q = p THEN toClose[q] \ {s} ELSE toClose[q]
        /\ status' = [status EXCEPT ![s] = "closed"] /\ leaked' = leaked
    BY <1>1, ProcAssumption DEF IInv, TypeOK, Carried, CreatorHas, CloseOne
  <2>5. Custody'
    <3>1. ASSUME NEW v \in Sessions PROVE HeldOnce(v)'
      <4>1. HeldOnce(v)
        BY DEF IInv, Custody
      <4>2. QED BY <2>1, <2>4, <4>1, <1>1, ProcAssumption DEF IInv, TypeOK, Carried,
          HeldOnce, CloseOne
    <3>2. QED BY <3>1 DEF Custody
  <2>6. QED BY <2>1, <2>2, <2>3, <2>5 DEF IInv
<1>2. ASSUME ShutdownGateway PROVE IInv'
  <2>1. lru' \in Seq(Sessions) /\ Distinct(lru') /\ PoolBound' /\ Pooled' = Pooled
    BY <1>2, SamePool DEF ShutdownGateway
  <2>2. TypeOK'
    BY <1>2, <2>1, PoolAssumption, ProcAssumption DEF IInv, TypeOK, Carried, PC, Leases,
       NoLease, ShutdownGateway
  <2>3. Carried'
    BY <1>2, PoolAssumption, ProcAssumption DEF IInv, TypeOK, Carried, EnsurePC, CreatePC,
       RequestPC, Leases, NoLease, ShutdownGateway
  <2>4. \A q \in Requests, v \in Sessions : CreatorHas(q, v)' <=> CreatorHas(q, v)
    BY <1>2, ProcAssumption DEF IInv, TypeOK, Carried, CreatorHas, ShutdownGateway
  <2>5. Custody'
    BY <1>2, <2>1, <2>4, SameCustody DEF ShutdownGateway
  <2>6. QED BY <2>1, <2>2, <2>3, <2>5 DEF IInv
<1>3. ASSUME UNCHANGED vars PROVE IInv'
  <2>1. UNCHANGED <<lru, lease, issued, nextLease, status, active, history, key, gen, leaked,
                    gateway, gens, jvm, gwLock, sid, tok, want, gaveUp, pc, toClose, sweep, loop, down>>
    BY <1>3 DEF vars
  <2>2. TypeOK' /\ Carried'
    BY <2>1 DEF IInv, TypeOK, Carried
  <2>3. Distinct(lru') /\ PoolBound' /\ Pooled' = Pooled
    BY <2>1, SamePool
  <2>4. Custody'
    BY <2>1, <2>3, SameCustody DEF CreatorHas
  <2>5. QED BY <2>2, <2>3, <2>4 DEF IInv
<1>4. QED
  BY <1>1, <1>2, <1>3, EnvironmentStep, EnsureStepInv, CreateStep, UseStep, DeleteStep,
     CleanupStep
     DEF Next, Server, Stopped

\* The inductive invariant of the session pool holds in every reachable state.
THEOREM PoolInvariant == Spec => []IInv
<1>1. QED BY InitInv, NextInv, PTL DEF Spec

\* Every variable keeps its type; among others a request count never drops
\* below zero.
THEOREM TypeCorrect == Spec => []TypeOK
<1>1. IInv => TypeOK BY DEF IInv
<1>2. QED BY <1>1, PoolInvariant, PTL

\* _lru never exceeds pool_size, whatever registrations, evictions, purges,
\* DELETEs and sweeps interleave.
THEOREM PoolNeverOverfull == Spec => []PoolBound
<1>1. IInv => PoolBound BY DEF IInv
<1>2. QED BY <1>1, PoolInvariant, PTL

\* Every live backend is in the hands of exactly one party, so that a session
\* is closed once, never while it can be handed out, and never forgotten, but
\* for the ones a creation timeout leaks.
THEOREM OneKeeper == Spec => []Custody
<1>1. IInv => Custody BY DEF IInv
<1>2. QED BY <1>1, PoolInvariant, PTL

-----------------------------------------------------------------------------
(* What a step does to the pool as its clients see it, for the action      *)
(* properties and for the refinement of LeaseService.                      *)

\* Nothing changes for a client.
Still == /\ Pooled' = Pooled /\ Outside' = Outside /\ issued' = issued
         /\ \A s \in Pooled : lease'[s] = lease[s]

\* The sessions in out leave the pool.
Popped(out) == /\ Pooled' = Pooled \ out /\ Outside' = Outside /\ issued' = issued
               /\ \A s \in Pooled \ out : lease'[s] = lease[s]

\* A session changes hands, within the pool.
Handed(s, t) == /\ Pooled' = Pooled /\ Outside' = Outside
                /\ lease' = [lease EXCEPT ![s] = t]
Reused(s) == /\ s \in Pooled /\ ~Leased(s) /\ nextLease \in Leases
             /\ issued' = issued \cup {<<s, nextLease>>} /\ Handed(s, nextLease)
GivenBack(s) == s \in Pooled /\ Leased(s) /\ issued' = issued /\ Handed(s, NoLease)

\* The new session of r is leased, and registered in the place of idle ones or withdrawn.
LeasedTo(r) == lease' = [lease EXCEPT ![sid[r]] = tok[r]]
Admitted(r, out) == /\ pc[r] = "register" /\ \A v \in out : v \in Pooled /\ Idle(v)
                    /\ Pooled' = (Pooled \ out) \cup {sid[r]} /\ LeasedTo(r)
                    /\ Outside' = Outside \ {sid[r]} /\ issued' = issued \cup {<<sid[r], tok[r]>>}
Withdrawn(r) == /\ pc[r] = "register" /\ Pooled' = Pooled /\ LeasedTo(r)
                /\ Outside' = Outside \ {sid[r]} /\ issued' = issued

\* Who takes sessions out of the pool.
Purged  == PurgeStep /\ Popped(Pooled)
Stopping == down' /\ (\A r \in Requests : pc[r] # "op") /\ Popped(Pooled)
Deleted(r) == pc[r] = "delete" /\ MayClose(sid[r], tok[r]) /\ Popped({sid[r]})
Swept(s) == pc[Cleanup] = "sweep" /\ s \in sweep /\ MayClose(s, NoLease) /\ Popped({s})
Evicted(s) == s \in Pooled /\ Idle(s) /\ Popped({s})

Move == \/ Still \/ Purged \/ Stopping
        \/ \E r \in Requests : Deleted(r) \/ Withdrawn(r)
        \/ \E r \in Requests, out \in SUBSET Pooled : Admitted(r, out)
        \/ \E s \in Sessions : Swept(s) \/ Evicted(s) \/ Reused(s) \/ GivenBack(s)

\* What keeps the rest of the invariant, in most steps.
SameUse == /\ active' = active
           /\ \A r \in Requests, s \in Sessions :
                (pc'[r] = "op" /\ sid'[r] = s) <=> (pc[r] = "op" /\ sid[r] = s)
SameTokens == /\ issued' = issued /\ nextLease' = nextLease
              /\ \A r \in Requests : pc'[r] \in CreatePC =>
                   pc[r] \in CreatePC /\ tok'[r] = tok[r]

\* The same requests use the same sessions.
LEMMA SameUsers == ASSUME ServiceInv, SameUse PROVE ActiveCounted'
<1>1. ASSUME NEW s \in Sessions PROVE active'[s] = Cardinality(Users(s)')
  <2>1. Users(s)' = Users(s)
    BY DEF SameUse, Users
  <2>2. QED BY <2>1 DEF SameUse, ServiceInv, ActiveCounted
<1>2. QED BY <1>1 DEF ActiveCounted

\* No token is drawn or given out.
LEMMA TokensKept == ASSUME ServiceInv, SameTokens PROVE TokensOnce'
BY DEF ServiceInv, SameTokens, TokensOnce

\* A step without effect on users and tokens keeps the invariant.
LEMMA Kept ==
  ASSUME ServiceInv, IInv', SameUse, SameTokens, LoopHeld', TimedOut'
  PROVE  ServiceInv'
BY SameUsers, TokensKept DEF ServiceInv

\* No session is created, leaked or registered.
LEMMA SameOutside ==
  ASSUME UNCHANGED <<status, leaked>>,
         \A r \in Requests, s \in Sessions : CreatorHas(r, s)' <=> CreatorHas(r, s)
  PROVE  Outside' = Outside
BY DEF Outside

\* A session in the pool was created, is not leaked, and nobody is about to register it.
LEMMA PooledInside == ASSUME IInv PROVE Pooled \cap Outside = {}
<1>1. ASSUME NEW s \in Sessions, s \in Pooled PROVE s \notin Outside
  <2>1. HeldOnce(s)
    BY DEF IInv, Custody
  <2>2. QED BY <1>1, <2>1 DEF HeldOnce, Outside
<1>2. QED BY <1>1, PooledSessions


\* Operations move no session.
LEMMA UseMoves ==
  ASSUME ServiceInv, IInv', NEW r0 \in Requests, Use(r0)
  PROVE  ServiceInv' /\ Move
<1> USE DEF poolVars, sessVars, gwVars, reqVars, procVars, Procs, Goto, Finish, LoopFree
<1>1. ASSUME NEW r \in Requests, OpBegin(r) PROVE ServiceInv' /\ Move
  <2>0. sid[r] \in Sessions
    BY <1>1 DEF ServiceInv, IInv, Carried, OpBegin
  <2>1. Pooled' = Pooled /\ UNCHANGED <<lease, issued, status, leaked>>
    BY <1>1, SamePool DEF ServiceInv, OpBegin
  <2>2. \A q \in Requests, v \in Sessions : CreatorHas(q, v)' <=> CreatorHas(q, v)
    BY <1>1, ProcAssumption DEF ServiceInv, IInv, TypeOK, CreatorHas, OpBegin
  <2>3. ActiveCounted'
    <3>1. ASSUME NEW s \in Sessions PROVE active'[s] = Cardinality(Users(s)')
      <4>1. /\ IsFiniteSet(Users(s)) /\ active[s] = Cardinality(Users(s)) /\ r \notin Users(s)
        BY <1>1, ProcAssumption, FS_Subset DEF Users, ServiceInv, ActiveCounted, OpBegin
      <4>2. Users(s)' = IF s = sid[r] THEN Users(s) \cup {r} ELSE Users(s)
        BY <1>1, ProcAssumption DEF Users, OpBegin, ServiceInv, IInv, TypeOK
      <4>3. active'[s] = IF s = sid[r] THEN active[s] + 1 ELSE active[s]
        BY <1>1, <2>0 DEF OpBegin, ServiceInv, IInv, TypeOK
      <4>4. Cardinality(Users(s) \cup {r}) = Cardinality(Users(s)) + 1
        BY <4>1, FS_AddElement
      <4>5. QED BY <4>1, <4>2, <4>3, <4>4
    <3>2. QED BY <3>1 DEF ActiveCounted
  <2>4. SameTokens /\ LoopHeld' /\ TimedOut'
    BY <1>1, ProcAssumption DEF ServiceInv, IInv, TypeOK, SameTokens, EnsurePC, CreatePC,
       LoopHeld, TimedOut, OpBegin
  <2>5. Still
    BY <2>1, <2>2, SameOutside DEF Still
  <2>6. QED BY <2>3, <2>4, <2>5, TokensKept DEF ServiceInv, Move
<1>2. ASSUME NEW r \in Requests, OpEnd(r) PROVE ServiceInv' /\ Move
  <2>0. sid[r] \in Sessions
    BY <1>2 DEF ServiceInv, IInv, Carried, OpEnd
  <2>1. Pooled' = Pooled /\ UNCHANGED <<lease, issued, status, leaked>>
    BY <1>2, SamePool DEF ServiceInv, OpEnd
  <2>2. \A q \in Requests, v \in Sessions : CreatorHas(q, v)' <=> CreatorHas(q, v)
    BY <1>2, ProcAssumption DEF ServiceInv, IInv, TypeOK, CreatorHas, OpEnd
  <2>3. ActiveCounted'
    <3>1. ASSUME NEW s \in Sessions PROVE active'[s] = Cardinality(Users(s)')
      <4>1. IsFiniteSet(Users(s)) /\ active[s] = Cardinality(Users(s)) /\ active[s] \in Nat
        BY <1>2, ProcAssumption, FS_Subset DEF Users, ServiceInv, ActiveCounted, IInv, TypeOK
      <4>2. CASE s = sid[r]
        <5>1. r \in Users(s)
          BY <1>2, <4>2 DEF Users, OpEnd
        <5>2. Users(s)' = Users(s) \ {r}
          BY <1>2, <4>2, ProcAssumption DEF Users, OpEnd, ServiceInv, IInv, TypeOK
        <5>3. Cardinality(Users(s) \ {r}) = Cardinality(Users(s)) - 1
          BY <4>1, <5>1, FS_RemoveElement
        <5>4. Cardinality(Users(s)) # 0
          BY <4>1, <5>1, FS_EmptySet
        <5>5. active'[s] = active[s] - 1
          BY <1>2, <4>1, <4>2, <5>4 DEF OpEnd, ServiceInv, IInv, TypeOK
        <5>6. QED BY <4>1, <5>2, <5>3, <5>5
      <4>3. CASE s # sid[r]
        <5>1. Users(s)' = Users(s)
          BY <1>2, <4>3, ProcAssumption DEF Users, OpEnd, ServiceInv, IInv, TypeOK
        <5>2. active'[s] = active[s]
          BY <1>2, <2>0, <4>3 DEF OpEnd, ServiceInv, IInv, TypeOK
        <5>3. QED BY <4>1, <5>1, <5>2
      <4>4. QED BY <4>2, <4>3
    <3>2. QED BY <3>1 DEF ActiveCounted
  <2>4. SameTokens /\ LoopHeld' /\ TimedOut'
    BY <1>2, ProcAssumption DEF ServiceInv, IInv, TypeOK, SameTokens, EnsurePC, CreatePC,
       LoopHeld, TimedOut, OpEnd
  <2>5. Still
    BY <2>1, <2>2, SameOutside DEF Still
  <2>6. QED BY <2>3, <2>4, <2>5, TokensKept DEF ServiceInv, Move
<1>3. ASSUME NEW r \in Requests, OpBeginUncounted(r) PROVE ServiceInv' /\ Move
  <2>1. Pooled' = Pooled /\ UNCHANGED <<lease, issued, status, leaked>>
    BY <1>3, SamePool DEF ServiceInv, OpBeginUncounted
  <2>2. \A q \in Requests, v \in Sessions : CreatorHas(q, v)' <=> CreatorHas(q, v)
    BY <1>3, ProcAssumption DEF ServiceInv, IInv, TypeOK, CreatorHas, OpBeginUncounted
  <2>3. SameUse /\ SameTokens
    BY <1>3, ProcAssumption DEF ServiceInv, IInv, TypeOK, SameUse, SameTokens, EnsurePC,
       CreatePC, OpBeginUncounted
  <2>4. LoopHeld' /\ TimedOut'
    BY <1>3, ProcAssumption DEF ServiceInv, IInv, TypeOK, LoopHeld, TimedOut, OpBeginUncounted
  <2>5. Still
    BY <2>1, <2>2, SameOutside DEF Still
  <2>6. QED BY <2>3, <2>4, <2>5, Kept DEF Move
<1>4. ASSUME NEW r \in Requests, OpEndUncounted(r) PROVE ServiceInv' /\ Move
  <2>1. Pooled' = Pooled /\ UNCHANGED <<lease, issued, status, leaked>>
    BY <1>4, SamePool DEF ServiceInv, OpEndUncounted
  <2>2. \A q \in Requests, v \in Sessions : CreatorHas(q, v)' <=> CreatorHas(q, v)
    BY <1>4, ProcAssumption DEF ServiceInv, IInv, TypeOK, CreatorHas, OpEndUncounted
  <2>3. SameUse /\ SameTokens
    BY <1>4, ProcAssumption DEF ServiceInv, IInv, TypeOK, SameUse, SameTokens, EnsurePC,
       CreatePC, OpEndUncounted
  <2>4. LoopHeld' /\ TimedOut'
    BY <1>4, ProcAssumption DEF ServiceInv, IInv, TypeOK, LoopHeld, TimedOut, OpEndUncounted
  <2>5. Still
    BY <2>1, <2>2, SameOutside DEF Still
  <2>6. QED BY <2>3, <2>4, <2>5, Kept DEF Move
<1>5. QED BY <1>1, <1>2, <1>3, <1>4 DEF Use

\* The gateway is ensured; a purge empties the pool.
LEMMA EnsureMoves ==
  ASSUME ServiceInv, IInv', NEW p0 \in Requests \cup {Cleanup}, Ensure(p0)
  PROVE  ServiceInv' /\ Move
<1> USE DEF poolVars, sessVars, gwVars, reqVars, procVars, Procs, Goto, Finish, LoopFree
<1>1. ASSUME NEW p \in Requests \cup {Cleanup}, EnsureLock(p) PROVE ServiceInv' /\ Move
  <2>1. Pooled' = Pooled /\ UNCHANGED <<lease, issued, status, leaked>>
    BY <1>1, SamePool DEF ServiceInv, EnsureLock
  <2>2. \A q \in Requests, v \in Sessions : CreatorHas(q, v)' <=> CreatorHas(q, v)
    BY <1>1, ProcAssumption DEF ServiceInv, IInv, TypeOK, CreatorHas, EnsureLock
  <2>3. SameUse /\ SameTokens
    BY <1>1, ProcAssumption DEF ServiceInv, IInv, TypeOK, SameUse, SameTokens, EnsurePC,
       CreatePC, EnsureLock
  <2>4. LoopHeld' /\ TimedOut'
    BY <1>1, ProcAssumption DEF ServiceInv, IInv, TypeOK, LoopHeld, TimedOut, EnsureLock
  <2>5. Still
    BY <2>1, <2>2, SameOutside DEF Still
  <2>6. QED BY <2>3, <2>4, <2>5, Kept DEF Move
<1>2. ASSUME NEW p \in Requests \cup {Cleanup}, EnsureAlive(p) PROVE ServiceInv' /\ Move
  <2>1. Pooled' = Pooled /\ UNCHANGED <<lease, issued, status, leaked>>
    BY <1>2, SamePool DEF ServiceInv, EnsureAlive, EnsureReturn
  <2>2. \A q \in Requests, v \in Sessions : CreatorHas(q, v)' <=> CreatorHas(q, v)
    BY <1>2, ProcAssumption DEF ServiceInv, IInv, TypeOK, CreatorHas, EnsureAlive, EnsureReturn
  <2>3. SameUse /\ SameTokens
    BY <1>2, ProcAssumption DEF ServiceInv, IInv, TypeOK, SameUse, SameTokens, EnsurePC,
       CreatePC, EnsureAlive, EnsureReturn
  <2>4. LoopHeld' /\ TimedOut'
    BY <1>2, ProcAssumption DEF ServiceInv, IInv, TypeOK, LoopHeld, TimedOut, EnsureAlive, EnsureReturn
  <2>5. Still
    BY <2>1, <2>2, SameOutside DEF Still
  <2>6. QED BY <2>3, <2>4, <2>5, Kept DEF Move
<1>3. ASSUME NEW p \in Requests \cup {Cleanup}, PurgeDone(p) PROVE ServiceInv' /\ Move
  <2>1. Pooled' = Pooled /\ UNCHANGED <<lease, issued, status, leaked>>
    BY <1>3, SamePool DEF ServiceInv, PurgeDone
  <2>2. \A q \in Requests, v \in Sessions : CreatorHas(q, v)' <=> CreatorHas(q, v)
    BY <1>3, ProcAssumption DEF ServiceInv, IInv, TypeOK, CreatorHas, PurgeDone
  <2>3. SameUse /\ SameTokens
    BY <1>3, ProcAssumption DEF ServiceInv, IInv, TypeOK, SameUse, SameTokens, EnsurePC,
       CreatePC, PurgeDone
  <2>4. LoopHeld' /\ TimedOut'
    BY <1>3, ProcAssumption DEF ServiceInv, IInv, TypeOK, LoopHeld, TimedOut, PurgeDone
  <2>5. Still
    BY <2>1, <2>2, SameOutside DEF Still
  <2>6. QED BY <2>3, <2>4, <2>5, Kept DEF Move
<1>4. ASSUME NEW p \in Requests \cup {Cleanup}, EnsureStart(p) PROVE ServiceInv' /\ Move
  <2>1. Pooled' = Pooled /\ UNCHANGED <<lease, issued, status, leaked>>
    BY <1>4, SamePool DEF ServiceInv, EnsureStart, EnsureReturn, MayStart
  <2>2. \A q \in Requests, v \in Sessions : CreatorHas(q, v)' <=> CreatorHas(q, v)
    BY <1>4, ProcAssumption DEF ServiceInv, IInv, TypeOK, CreatorHas, EnsureStart, EnsureReturn, MayStart
  <2>3. SameUse /\ SameTokens
    BY <1>4, ProcAssumption DEF ServiceInv, IInv, TypeOK, SameUse, SameTokens, EnsurePC,
       CreatePC, EnsureStart, EnsureReturn, MayStart
  <2>4. LoopHeld' /\ TimedOut'
    BY <1>4, ProcAssumption DEF ServiceInv, IInv, TypeOK, LoopHeld, TimedOut, EnsureStart, EnsureReturn, MayStart
  <2>5. Still
    BY <2>1, <2>2, SameOutside DEF Still
  <2>6. QED BY <2>3, <2>4, <2>5, Kept DEF Move
<1>5. ASSUME NEW p \in Requests \cup {Cleanup}, EnsurePurge(p) PROVE ServiceInv' /\ Move
  <2>1. Pooled' = {} /\ UNCHANGED <<lease, issued, status, leaked>>
    BY <1>5 DEF EnsurePurge, Pooled, Ids
  <2>2. \A q \in Requests, v \in Sessions : CreatorHas(q, v)' <=> CreatorHas(q, v)
    BY <1>5, ProcAssumption DEF ServiceInv, IInv, TypeOK, CreatorHas, EnsurePurge
  <2>3. SameUse /\ SameTokens /\ LoopHeld' /\ TimedOut'
    BY <1>5, ProcAssumption DEF ServiceInv, IInv, TypeOK, SameUse, SameTokens, EnsurePC,
       CreatePC, LoopHeld, TimedOut, EnsurePurge
  <2>4. PurgeStep
    BY <1>5, ProcAssumption DEF ServiceInv, IInv, TypeOK, PurgeStep, EnsurePurge
  <2>5. Purged
    BY <2>1, <2>2, <2>4, SameOutside DEF Purged, Popped
  <2>6. QED BY <2>3, <2>5, Kept DEF Move
<1>6. QED BY <1>1, <1>2, <1>3, <1>4, <1>5 DEF Ensure

\* Memory relief evicts an idle session.
LEMMA RelieveMoves ==
  ASSUME ServiceInv, IInv', NEW p \in Procs, RelieveMemory(p)
  PROVE  ServiceInv' /\ Move
<1> USE DEF poolVars, sessVars, gwVars, reqVars, procVars, Procs, Goto, Finish, LoopFree
<1>1. PICK s \in Pooled : OldestIdle(s) /\ lru' = Without(lru, s)
  BY DEF RelieveMemory
<1>2. s \in Sessions /\ Idle(s)
  BY <1>1, PooledSessions DEF ServiceInv, OldestIdle
<1>3. Pooled' = Pooled \ {s} /\ UNCHANGED <<lease, issued, status, leaked>>
  BY <1>1, PoppedPool DEF ServiceInv, RelieveMemory
<1>4. \A q \in Requests, v \in Sessions : CreatorHas(q, v)' <=> CreatorHas(q, v)
  BY DEF CreatorHas, RelieveMemory
<1>5. SameUse /\ SameTokens /\ LoopHeld' /\ TimedOut'
  BY DEF ServiceInv, SameUse, SameTokens, LoopHeld, TimedOut, RelieveMemory
<1>6. Evicted(s)
  BY <1>1, <1>2, <1>3, <1>4, SameOutside DEF Evicted, Popped
<1>7. QED BY <1>2, <1>5, <1>6, Kept DEF Move


\* A registered or withdrawn session is no longer outside.
LEMMA RegisteredOutside ==
  ASSUME IInv, NEW r \in Requests, pc[r] = "register", UNCHANGED <<status, leaked>>,
         \A q \in Requests, v \in Sessions : CreatorHas(q, v)' <=> q # r /\ CreatorHas(q, v)
  PROVE  /\ sid[r] \in Sessions /\ sid[r] \in Outside /\ sid[r] \notin Pooled
         /\ Outside' = Outside \ {sid[r]}
<1>1. sid[r] \in Sessions /\ CreatorHas(r, sid[r])
  BY DEF IInv, Carried, CreatorHas
<1>2. HeldOnce(sid[r])
  BY <1>1 DEF IInv, Custody
<1>3. status[sid[r]] = "active" /\ sid[r] \notin Pooled /\ sid[r] \notin leaked
  BY <1>1, <1>2 DEF HeldOnce
<1>4. \A q \in Requests : CreatorHas(q, sid[r]) => q = r
  BY <1>1, <1>2 DEF HeldOnce
<1>5. \A v \in Sessions : v # sid[r] => ~CreatorHas(r, v)
  BY DEF CreatorHas
<1>6. QED BY <1>1, <1>3, <1>4, <1>5 DEF Outside

\* The token of r is given out with its session; nobody else has it.
LEMMA TokenGiven ==
  ASSUME ServiceInv, NEW r \in Requests, pc[r] = "register", pc'[r] \notin CreatePC,
         issued' = issued \cup {<<sid[r], tok[r]>>}, nextLease' = nextLease,
         \A q \in Requests : q # r => pc'[q] = pc[q] /\ tok'[q] = tok[q]
  PROVE  TokensOnce'
<1>1. pc[r] \in CreatePC
  BY DEF CreatePC
<1>2. tok[r] < nextLease /\ \A q \in Requests : pc[q] \in CreatePC /\ tok[q] = tok[r] => q = r
  BY <1>1 DEF ServiceInv, TokensOnce
<1>3. \A s \in Sessions, t \in Leases : <<s, t>> \in issued' => <<s, t>> \in issued \/ t = tok[r]
  OBVIOUS
<1>4. \A s \in Sessions, t \in Leases : <<s, t>> \in issued' => t < nextLease'
  BY <1>2, <1>3 DEF ServiceInv, TokensOnce
<1>5. ASSUME NEW q \in Requests, pc'[q] \in CreatePC
      PROVE  /\ tok'[q] < nextLease' /\ \A s \in Sessions : <<s, tok'[q]>> \notin issued'
             /\ \A x \in Requests : pc'[x] \in CreatePC /\ tok'[x] = tok'[q] => x = q
  <2>1. q # r /\ pc[q] \in CreatePC /\ tok'[q] = tok[q] /\ tok[q] # tok[r]
    BY <1>2, <1>5
  <2>2. tok[q] < nextLease /\ \A s \in Sessions : <<s, tok[q]>> \notin issued
    BY <2>1 DEF ServiceInv, TokensOnce
  <2>3. \A x \in Requests : pc[x] \in CreatePC /\ tok[x] = tok[q] => x = q
    BY <2>1 DEF ServiceInv, TokensOnce
  <2>4. QED BY <2>1, <2>2, <2>3
<1>6. nextLease' \in Nat \ {0}
  BY DEF ServiceInv, TokensOnce
<1>7. QED BY <1>4, <1>5, <1>6 DEF TokensOnce


\* The new session enters the pool with its lease, or is withdrawn.
LEMMA RegisterMoves ==
  ASSUME ServiceInv, IInv', NEW r \in Requests, Register(r)
  PROVE  ServiceInv' /\ Move
<1> USE DEF poolVars, sessVars, gwVars, reqVars, procVars, Procs, Goto, Finish, LoopFree
<1>1. pc[r] = "register" /\ loop = NoProc
  BY DEF Register, RegisterFits, RegisterEvicts, RegisterRefused
<1>2. lru \in Seq(Sessions) /\ Distinct(lru) /\ sid[r] \in Sessions /\ Pooled = Ids(lru)
  BY <1>1 DEF ServiceInv, IInv, TypeOK, Carried, Pooled
<1>3. UNCHANGED <<status, leaked, nextLease>> /\ lease' = [lease EXCEPT ![sid[r]] = tok[r]]
  BY DEF Register, RegisterFits, RegisterEvicts, RegisterRefused, LeaseNew
<1>4. /\ pc'[r] \in {"idle", "closing"}
      /\ \A q \in Requests : q # r => pc'[q] = pc[q] /\ sid'[q] = sid[q] /\ tok'[q] = tok[q]
      /\ pc'[Cleanup] = pc[Cleanup]
  BY <1>1, ProcAssumption DEF ServiceInv, IInv, TypeOK, Register, RegisterFits, RegisterEvicts,
     RegisterRefused
<1>5. \A q \in Requests, v \in Sessions : CreatorHas(q, v)' <=> q # r /\ CreatorHas(q, v)
  BY <1>1, <1>4 DEF CreatorHas
<1>6. sid[r] \in Outside /\ sid[r] \notin Pooled /\ Outside' = Outside \ {sid[r]}
  BY <1>1, <1>3, <1>5, RegisteredOutside DEF ServiceInv
<1>7. SameUse
  BY <1>1, <1>4 DEF SameUse, Register, RegisterFits, RegisterEvicts, RegisterRefused
<1>8. LoopHeld'
  BY <1>1, <1>4, ProcAssumption DEF ServiceInv, LoopHeld
<1>9. TimedOut'
  <2>1. gaveUp' \subseteq gaveUp /\ r \notin gaveUp /\ gaveUp \subseteq Requests
    BY <1>1 DEF Register, RegisterFits, RegisterEvicts, RegisterRefused, ServiceInv, TimedOut,
       IInv, TypeOK
  <2>2. QED BY <1>4, <2>1 DEF ServiceInv, TimedOut
<1>10. CASE RegisterFits(r)
  <2>1. Pooled' = Pooled \cup {sid[r]}
    BY <1>2, <1>6, <1>10, AppendSeq DEF RegisterFits, Pooled
  <2>2. issued' = issued \cup {<<sid[r], tok[r]>>}
    BY <1>10 DEF RegisterFits, LeaseNew
  <2>3. TokensOnce'
    <3>1. pc'[r] \notin CreatePC
      BY <1>4 DEF CreatePC, EnsurePC
    <3>2. QED BY <1>1, <1>3, <1>4, <2>2, <3>1, TokenGiven
  <2>4. Admitted(r, {})
    BY <1>1, <1>3, <1>6, <2>1, <2>2 DEF Admitted, LeasedTo
  <2>5. QED BY <1>7, <1>8, <1>9, <2>3, <2>4, SameUsers DEF ServiceInv, Move
<1>11. CASE RegisterEvicts(r)
  <2>1. PICK v \in Pooled : OldestIdle(v) /\ lru' = Append(Without(lru, v), sid[r])
    BY <1>11 DEF RegisterEvicts
  <2>2. Idle(v)
    BY <2>1 DEF OldestIdle
  <2>3. /\ Without(lru, v) \in Seq(Sessions) /\ Distinct(Without(lru, v))
        /\ Ids(Without(lru, v)) = Pooled \ {v}
    BY <1>2, WithoutSeq
  <2>4. Pooled' = (Pooled \ {v}) \cup {sid[r]}
    <3> DEFINE w == Without(lru, v)
    <3>1. w \in Seq(Sessions) /\ Distinct(w) /\ sid[r] \notin Ids(w)
      BY <1>6, <2>3
    <3>2. Ids(Append(w, sid[r])) = Ids(w) \cup {sid[r]}
      BY <1>2, <3>1, AppendSeq
    <3>3. QED BY <2>1, <2>3, <3>2 DEF Pooled
  <2>5. issued' = issued \cup {<<sid[r], tok[r]>>}
    BY <1>11 DEF RegisterEvicts, LeaseNew
  <2>6. TokensOnce'
    <3>1. pc'[r] \notin CreatePC
      BY <1>4 DEF CreatePC, EnsurePC
    <3>2. QED BY <1>1, <1>3, <1>4, <2>5, <3>1, TokenGiven
  <2>7. Admitted(r, {v})
    BY <1>1, <1>3, <1>6, <2>2, <2>4, <2>5 DEF Admitted, LeasedTo
  <2>8. QED BY <1>7, <1>8, <1>9, <2>6, <2>7, SameUsers DEF ServiceInv, Move
<1>12. CASE RegisterRefused(r)
  <2>1. Pooled' = Pooled /\ issued' = issued
    BY <1>12, SamePool DEF RegisterRefused, ServiceInv
  <2>2. SameTokens
    BY <1>3, <1>4, <2>1 DEF SameTokens, CreatePC, EnsurePC
  <2>3. Withdrawn(r)
    BY <1>1, <1>3, <1>6, <2>1 DEF Withdrawn, LeasedTo
  <2>4. QED BY <1>7, <1>8, <1>9, <2>2, <2>3, Kept DEF Move
<1>13. QED BY <1>10, <1>11, <1>12 DEF Register

\* A creation, up to the registration of the new session.
LEMMA CreateMoves ==
  ASSUME ServiceInv, IInv', NEW r0 \in Requests, Create(r0)
  PROVE  ServiceInv' /\ Move
<1> USE DEF poolVars, sessVars, gwVars, reqVars, procVars, Procs, Goto, Finish, LoopFree
<1>1. ASSUME NEW r \in Requests, EnsureFails(r) PROVE ServiceInv' /\ Move
  <2>1. Pooled' = Pooled /\ UNCHANGED <<lease, issued, status, leaked>>
    BY <1>1, SamePool DEF ServiceInv, EnsureFails, MayStart
  <2>2. \A q \in Requests, v \in Sessions : CreatorHas(q, v)' <=> CreatorHas(q, v)
    BY <1>1, ProcAssumption DEF ServiceInv, IInv, TypeOK, CreatorHas, EnsureFails, MayStart
  <2>3. SameUse /\ SameTokens
    BY <1>1, ProcAssumption DEF ServiceInv, IInv, TypeOK, SameUse, SameTokens, EnsurePC,
       CreatePC, EnsureFails, MayStart
  <2>4. LoopHeld' /\ TimedOut'
    BY <1>1, ProcAssumption DEF ServiceInv, IInv, TypeOK, LoopHeld, TimedOut, EnsureFails, MayStart
  <2>5. Still
    BY <2>1, <2>2, SameOutside DEF Still
  <2>6. QED BY <2>3, <2>4, <2>5, Kept DEF Move
<1>2. ASSUME NEW r \in Requests, AdmitOk(r) PROVE ServiceInv' /\ Move
  <2>1. Pooled' = Pooled /\ UNCHANGED <<lease, issued, status, leaked>>
    BY <1>2, SamePool DEF ServiceInv, AdmitOk
  <2>2. \A q \in Requests, v \in Sessions : CreatorHas(q, v)' <=> CreatorHas(q, v)
    BY <1>2, ProcAssumption DEF ServiceInv, IInv, TypeOK, CreatorHas, AdmitOk
  <2>3. SameUse /\ SameTokens
    BY <1>2, ProcAssumption DEF ServiceInv, IInv, TypeOK, SameUse, SameTokens, EnsurePC,
       CreatePC, AdmitOk
  <2>4. LoopHeld' /\ TimedOut'
    BY <1>2, ProcAssumption DEF ServiceInv, IInv, TypeOK, LoopHeld, TimedOut, AdmitOk
  <2>5. Still
    BY <2>1, <2>2, SameOutside DEF Still
  <2>6. QED BY <2>3, <2>4, <2>5, Kept DEF Move
<1>3. ASSUME NEW r \in Requests, AdmitRefuse(r) PROVE ServiceInv' /\ Move
  <2>1. Pooled' = Pooled /\ UNCHANGED <<lease, issued, status, leaked>>
    BY <1>3, SamePool DEF ServiceInv, AdmitRefuse
  <2>2. \A q \in Requests, v \in Sessions : CreatorHas(q, v)' <=> CreatorHas(q, v)
    BY <1>3, ProcAssumption DEF ServiceInv, IInv, TypeOK, CreatorHas, AdmitRefuse
  <2>3. SameUse /\ SameTokens
    BY <1>3, ProcAssumption DEF ServiceInv, IInv, TypeOK, SameUse, SameTokens, EnsurePC,
       CreatePC, AdmitRefuse
  <2>4. LoopHeld' /\ TimedOut'
    BY <1>3, ProcAssumption DEF ServiceInv, IInv, TypeOK, LoopHeld, TimedOut, AdmitRefuse
  <2>5. Still
    BY <2>1, <2>2, SameOutside DEF Still
  <2>6. QED BY <2>3, <2>4, <2>5, Kept DEF Move
<1>4. ASSUME NEW r \in Requests, CreateLock(r) PROVE ServiceInv' /\ Move
  <2>1. Pooled' = Pooled /\ UNCHANGED <<lease, issued, status, leaked>>
    BY <1>4, SamePool DEF ServiceInv, CreateLock
  <2>2. \A q \in Requests, v \in Sessions : CreatorHas(q, v)' <=> CreatorHas(q, v)
    BY <1>4, ProcAssumption DEF ServiceInv, IInv, TypeOK, CreatorHas, CreateLock
  <2>3. SameUse /\ SameTokens
    BY <1>4, ProcAssumption DEF ServiceInv, IInv, TypeOK, SameUse, SameTokens, EnsurePC,
       CreatePC, CreateLock
  <2>4. LoopHeld' /\ TimedOut'
    BY <1>4, ProcAssumption DEF ServiceInv, IInv, TypeOK, LoopHeld, TimedOut, CreateLock
  <2>5. Still
    BY <2>1, <2>2, SameOutside DEF Still
  <2>6. QED BY <2>3, <2>4, <2>5, Kept DEF Move
<1>5. ASSUME NEW r \in Requests, CreateFails(r) PROVE ServiceInv' /\ Move
  <2>1. Pooled' = Pooled /\ UNCHANGED <<lease, issued, status, leaked>>
    BY <1>5, SamePool DEF ServiceInv, CreateFails
  <2>2. \A q \in Requests, v \in Sessions : CreatorHas(q, v)' <=> CreatorHas(q, v)
    BY <1>5, ProcAssumption DEF ServiceInv, IInv, TypeOK, CreatorHas, CreateFails
  <2>3. SameUse /\ SameTokens
    BY <1>5, ProcAssumption DEF ServiceInv, IInv, TypeOK, SameUse, SameTokens, EnsurePC,
       CreatePC, CreateFails
  <2>4. LoopHeld' /\ TimedOut'
    BY <1>5, ProcAssumption DEF ServiceInv, IInv, TypeOK, LoopHeld, TimedOut, CreateFails
  <2>5. Still
    BY <2>1, <2>2, SameOutside DEF Still
  <2>6. QED BY <2>3, <2>4, <2>5, Kept DEF Move
<1>6. ASSUME NEW r \in Requests, ClosingDone(r) PROVE ServiceInv' /\ Move
  <2>1. Pooled' = Pooled /\ UNCHANGED <<lease, issued, status, leaked>>
    BY <1>6, SamePool DEF ServiceInv, ClosingDone
  <2>2. \A q \in Requests, v \in Sessions : CreatorHas(q, v)' <=> CreatorHas(q, v)
    BY <1>6, ProcAssumption DEF ServiceInv, IInv, TypeOK, CreatorHas, ClosingDone
  <2>3. SameUse /\ SameTokens
    BY <1>6, ProcAssumption DEF ServiceInv, IInv, TypeOK, SameUse, SameTokens, EnsurePC,
       CreatePC, ClosingDone
  <2>4. LoopHeld' /\ TimedOut'
    BY <1>6, ProcAssumption DEF ServiceInv, IInv, TypeOK, LoopHeld, TimedOut, ClosingDone
  <2>5. Still
    BY <2>1, <2>2, SameOutside DEF Still
  <2>6. QED BY <2>3, <2>4, <2>5, Kept DEF Move
<1>7. ASSUME NEW r \in Requests, AdmitEvict(r) PROVE ServiceInv' /\ Move
  BY <1>7, RelieveMoves DEF AdmitEvict
<1>8. ASSUME NEW r \in Requests, NEW s \in Sessions, CreateOk(r, s) \/ CreateOrphan(r, s)
      PROVE  ServiceInv' /\ Move
  <2>1. Pooled' = Pooled /\ UNCHANGED <<lease, issued>>
    BY <1>8, SamePool DEF ServiceInv, CreateOk, CreateOrphan, BackendCreated
  <2>2. Outside' = Outside
    <3>1. /\ s \in Outside
          /\ \A v \in Sessions : v # s => (status'[v] = "unborn" <=> status[v] = "unborn")
      BY <1>8 DEF Outside, CreateOk, CreateOrphan, BackendCreated, ServiceInv, IInv, TypeOK
    <3>2. CASE CreateOk(r, s)
      <4>1. /\ leaked' = leaked /\ CreatorHas(r, s)'
            /\ \A q \in Requests, v \in Sessions : v # s => (CreatorHas(q, v)' <=> CreatorHas(q, v))
        BY <3>2, ProcAssumption DEF CreateOk, BackendCreated, CreatorHas, ServiceInv, IInv, TypeOK
      <4>2. QED BY <3>1, <4>1 DEF Outside
    <3>3. CASE CreateOrphan(r, s)
      <4>1. /\ leaked' = leaked \cup {s}
            /\ \A q \in Requests, v \in Sessions : CreatorHas(q, v)' <=> CreatorHas(q, v)
        BY <3>3, ProcAssumption DEF CreateOrphan, BackendCreated, CreatorHas, ServiceInv, IInv,
           TypeOK
      <4>2. QED BY <3>1, <4>1 DEF Outside
    <3>4. QED BY <1>8, <3>2, <3>3
  <2>3. SameUse /\ SameTokens
    BY <1>8, ProcAssumption DEF ServiceInv, IInv, TypeOK, SameUse, SameTokens, EnsurePC,
       CreatePC, CreateOk, CreateOrphan, BackendCreated
  <2>4. LoopHeld' /\ TimedOut'
    <3>1. /\ pc'[Cleanup] = pc[Cleanup] /\ loop' = loop /\ gaveUp' = gaveUp \ {r}
          /\ \A q \in Requests : q # r => pc'[q] = pc[q]
      BY <1>8, ProcAssumption DEF ServiceInv, IInv, TypeOK, CreateOk, CreateOrphan, BackendCreated
    <3>2. QED BY <3>1 DEF ServiceInv, IInv, TypeOK, LoopHeld, TimedOut
  <2>5. Still
    BY <2>1, <2>2 DEF Still
  <2>6. QED BY <2>3, <2>4, <2>5, Kept DEF Move
<1>9. ASSUME NEW r \in Requests, Register(r) PROVE ServiceInv' /\ Move
  BY <1>9, RegisterMoves
<1>10. QED
  BY <1>1, <1>2, <1>3, <1>4, <1>5, <1>6, <1>7, <1>8, <1>9 DEF Create

\* A DELETE takes a session that is not busy.
LEMMA DeleteMoves ==
  ASSUME ServiceInv, IInv', NEW r0 \in Requests, Delete(r0)
  PROVE  ServiceInv' /\ Move
<1> USE DEF poolVars, sessVars, gwVars, reqVars, procVars, Procs, Goto, Finish, LoopFree
<1>1. ASSUME NEW r \in Requests, DeletePop(r) PROVE ServiceInv' /\ Move
  <2>0. pc[r] = "delete" /\ MayClose(sid[r], tok[r]) /\ sid[r] \in Pooled
    BY <1>1 DEF DeletePop, MayClose
  <2>1. Pooled' = Pooled \ {sid[r]} /\ UNCHANGED <<issued, status, leaked>>
    BY <1>1, <2>0, PoppedPool DEF ServiceInv, DeletePop, PopToClose
  <2>2. \A q \in Requests, v \in Sessions : CreatorHas(q, v)' <=> CreatorHas(q, v)
    BY <1>1, ProcAssumption DEF ServiceInv, IInv, TypeOK, CreatorHas, DeletePop
  <2>3. SameUse /\ SameTokens
    BY <1>1, ProcAssumption DEF ServiceInv, IInv, TypeOK, SameUse, SameTokens, EnsurePC,
       CreatePC, DeletePop, PopToClose
  <2>4. LoopHeld' /\ TimedOut'
    BY <1>1, ProcAssumption DEF ServiceInv, IInv, TypeOK, LoopHeld, TimedOut, DeletePop
  <2>5. lease' = [lease EXCEPT ![sid[r]] = NoLease] /\ lease \in [Sessions -> Leases \cup {NoLease}]
    BY <1>1 DEF DeletePop, PopToClose, ServiceInv, IInv, TypeOK
  <2>6. Deleted(r)
    BY <2>0, <2>1, <2>2, <2>5, SameOutside, PooledSessions DEF Deleted, Popped, ServiceInv
  <2>7. QED BY <2>3, <2>4, <2>6, Kept DEF Move
<1>2. ASSUME NEW r \in Requests, DeletePutBack(r) PROVE ServiceInv' /\ Move
  <2>1. Pooled' = Pooled /\ UNCHANGED <<lease, issued, status, leaked>>
    BY <1>2, MovedPool DEF ServiceInv, DeletePutBack, BecameBusy
  <2>2. \A q \in Requests, v \in Sessions : CreatorHas(q, v)' <=> CreatorHas(q, v)
    BY <1>2, ProcAssumption DEF ServiceInv, IInv, TypeOK, CreatorHas, DeletePutBack, BecameBusy
  <2>3. SameUse /\ SameTokens
    BY <1>2, ProcAssumption DEF ServiceInv, IInv, TypeOK, SameUse, SameTokens, EnsurePC,
       CreatePC, DeletePutBack, BecameBusy
  <2>4. LoopHeld' /\ TimedOut'
    BY <1>2, ProcAssumption DEF ServiceInv, IInv, TypeOK, LoopHeld, TimedOut, DeletePutBack, BecameBusy
  <2>5. Still
    BY <2>1, <2>2, SameOutside DEF Still
  <2>6. QED BY <2>3, <2>4, <2>5, Kept DEF Move
<1>3. ASSUME NEW r \in Requests, DeleteRefused(r) PROVE ServiceInv' /\ Move
  <2>1. Pooled' = Pooled /\ UNCHANGED <<lease, issued, status, leaked>>
    BY <1>3, SamePool DEF ServiceInv, DeleteRefused
  <2>2. \A q \in Requests, v \in Sessions : CreatorHas(q, v)' <=> CreatorHas(q, v)
    BY <1>3, ProcAssumption DEF ServiceInv, IInv, TypeOK, CreatorHas, DeleteRefused
  <2>3. SameUse /\ SameTokens
    BY <1>3, ProcAssumption DEF ServiceInv, IInv, TypeOK, SameUse, SameTokens, EnsurePC,
       CreatePC, DeleteRefused
  <2>4. LoopHeld' /\ TimedOut'
    BY <1>3, ProcAssumption DEF ServiceInv, IInv, TypeOK, LoopHeld, TimedOut, DeleteRefused
  <2>5. Still
    BY <2>1, <2>2, SameOutside DEF Still
  <2>6. QED BY <2>3, <2>4, <2>5, Kept DEF Move
<1>4. QED BY <1>1, <1>2, <1>3 DEF Delete

\* The sweep takes sessions that are not busy, memory relief idle ones.
LEMMA CleanupMoves ==
  ASSUME ServiceInv, IInv', CleanupRound
  PROVE  ServiceInv' /\ Move
<1> USE DEF poolVars, sessVars, gwVars, reqVars, procVars, Procs, Goto, Finish, LoopFree
<1>1. ASSUME NEW s \in Sessions, CleanupClose(s) PROVE ServiceInv' /\ Move
  <2>0. pc[Cleanup] = "sweep" /\ s \in sweep /\ MayClose(s, NoLease) /\ s \in Pooled
    BY <1>1 DEF CleanupClose, MayClose
  <2>1. Pooled' = Pooled \ {s} /\ UNCHANGED <<issued, status, leaked>>
    BY <1>1, <2>0, PoppedPool DEF ServiceInv, CleanupClose, PopToClose
  <2>2. \A q \in Requests, v \in Sessions : CreatorHas(q, v)' <=> CreatorHas(q, v)
    BY <1>1 DEF CreatorHas, CleanupClose
  <2>3. SameUse /\ SameTokens /\ LoopHeld' /\ TimedOut'
    BY <1>1 DEF ServiceInv, SameUse, SameTokens, LoopHeld, TimedOut, CleanupClose, PopToClose
  <2>4. lease' = [lease EXCEPT ![s] = NoLease] /\ lease \in [Sessions -> Leases \cup {NoLease}]
    BY <1>1 DEF CleanupClose, PopToClose, ServiceInv, IInv, TypeOK
  <2>5. Swept(s)
    BY <2>0, <2>1, <2>2, <2>4, SameOutside, PooledSessions DEF Swept, Popped, ServiceInv
  <2>6. QED BY <2>3, <2>5, Kept DEF Move
<1>2. ASSUME NEW s \in Sessions, CleanupSkip(s) PROVE ServiceInv' /\ Move
  <2>1. Pooled' = Pooled /\ UNCHANGED <<lease, issued, status, leaked>>
    BY <1>2, SamePool, MovedPool DEF ServiceInv, CleanupSkip, BecameBusy
  <2>2. \A q \in Requests, v \in Sessions : CreatorHas(q, v)' <=> CreatorHas(q, v)
    BY <1>2, ProcAssumption DEF ServiceInv, IInv, TypeOK, CreatorHas, CleanupSkip, BecameBusy
  <2>3. SameUse /\ SameTokens
    BY <1>2, ProcAssumption DEF ServiceInv, IInv, TypeOK, SameUse, SameTokens, EnsurePC,
       CreatePC, CleanupSkip, BecameBusy
  <2>4. LoopHeld' /\ TimedOut'
    BY <1>2, ProcAssumption DEF ServiceInv, IInv, TypeOK, LoopHeld, TimedOut, CleanupSkip, BecameBusy
  <2>5. Still
    BY <2>1, <2>2, SameOutside DEF Still
  <2>6. QED BY <2>3, <2>4, <2>5, Kept DEF Move
<1>3. ASSUME CleanupCheckGateway PROVE ServiceInv' /\ Move
  <2>1. Pooled' = Pooled /\ UNCHANGED <<lease, issued, status, leaked>>
    BY <1>3, SamePool DEF ServiceInv, CleanupCheckGateway
  <2>2. \A q \in Requests, v \in Sessions : CreatorHas(q, v)' <=> CreatorHas(q, v)
    BY <1>3, ProcAssumption DEF ServiceInv, IInv, TypeOK, CreatorHas, CleanupCheckGateway
  <2>3. SameUse /\ SameTokens
    BY <1>3, ProcAssumption DEF ServiceInv, IInv, TypeOK, SameUse, SameTokens, EnsurePC,
       CreatePC, CleanupCheckGateway
  <2>4. LoopHeld' /\ TimedOut'
    BY <1>3, ProcAssumption DEF ServiceInv, IInv, TypeOK, LoopHeld, TimedOut, CleanupCheckGateway
  <2>5. Still
    BY <2>1, <2>2, SameOutside DEF Still
  <2>6. QED BY <2>3, <2>4, <2>5, Kept DEF Move
<1>4. ASSUME CleanupRoundDone PROVE ServiceInv' /\ Move
  <2>1. Pooled' = Pooled /\ UNCHANGED <<lease, issued, status, leaked>>
    BY <1>4, SamePool DEF ServiceInv, CleanupRoundDone
  <2>2. \A q \in Requests, v \in Sessions : CreatorHas(q, v)' <=> CreatorHas(q, v)
    BY <1>4, ProcAssumption DEF ServiceInv, IInv, TypeOK, CreatorHas, CleanupRoundDone
  <2>3. SameUse /\ SameTokens
    BY <1>4, ProcAssumption DEF ServiceInv, IInv, TypeOK, SameUse, SameTokens, EnsurePC,
       CreatePC, CleanupRoundDone
  <2>4. LoopHeld' /\ TimedOut'
    BY <1>4, ProcAssumption DEF ServiceInv, IInv, TypeOK, LoopHeld, TimedOut, CleanupRoundDone
  <2>5. Still
    BY <2>1, <2>2, SameOutside DEF Still
  <2>6. QED BY <2>3, <2>4, <2>5, Kept DEF Move
<1>5. ASSUME CleanupEnsureFails PROVE ServiceInv' /\ Move
  <2>1. Pooled' = Pooled /\ UNCHANGED <<lease, issued, status, leaked>>
    BY <1>5, SamePool DEF ServiceInv, CleanupEnsureFails, MayStart
  <2>2. \A q \in Requests, v \in Sessions : CreatorHas(q, v)' <=> CreatorHas(q, v)
    BY <1>5, ProcAssumption DEF ServiceInv, IInv, TypeOK, CreatorHas, CleanupEnsureFails, MayStart
  <2>3. SameUse /\ SameTokens
    BY <1>5, ProcAssumption DEF ServiceInv, IInv, TypeOK, SameUse, SameTokens, EnsurePC,
       CreatePC, CleanupEnsureFails, MayStart
  <2>4. LoopHeld' /\ TimedOut'
    BY <1>5, ProcAssumption DEF ServiceInv, IInv, TypeOK, LoopHeld, TimedOut, CleanupEnsureFails, MayStart
  <2>5. Still
    BY <2>1, <2>2, SameOutside DEF Still
  <2>6. QED BY <2>3, <2>4, <2>5, Kept DEF Move
<1>6. ASSUME CleanupEvict PROVE ServiceInv' /\ Move
  BY <1>6, RelieveMoves DEF CleanupEvict
<1>7. QED BY <1>1, <1>2, <1>3, <1>4, <1>5, <1>6 DEF CleanupRound

\* Clients, timeouts, the cleanup clock, the JVM and shutdown.
LEMMA EnvironmentMoves ==
  ASSUME ServiceInv, IInv', Environment
  PROVE  ServiceInv' /\ Move
<1> USE DEF poolVars, sessVars, gwVars, reqVars, procVars, Procs, Goto, Finish, LoopFree
<1>1. ASSUME NEW r \in Requests, NEW k \in Keys, StartCreate(r, k) PROVE ServiceInv' /\ Move
  <2>1. Pooled' = Pooled /\ UNCHANGED <<lease, issued, status, leaked>>
    BY <1>1, SamePool DEF ServiceInv, StartCreate
  <2>2. \A q \in Requests, v \in Sessions : CreatorHas(q, v)' <=> CreatorHas(q, v)
    BY <1>1, ProcAssumption DEF ServiceInv, IInv, TypeOK, CreatorHas, StartCreate
  <2>3. SameUse /\ LoopHeld' /\ TimedOut'
    BY <1>1, ProcAssumption DEF ServiceInv, IInv, TypeOK, SameUse, LoopHeld, TimedOut, StartCreate
  <2>4. TokensOnce'
    <3>1. /\ nextLease \in Nat \ {0} /\ nextLease' = nextLease + 1 /\ issued' = issued
          /\ tok'[r] = nextLease /\ nextLease \in Leases
          /\ \A q \in Requests : q # r => pc'[q] = pc[q] /\ tok'[q] = tok[q]
      BY <1>1, ProcAssumption DEF StartCreate, ServiceInv, TokensOnce, IInv, TypeOK
    <3>2. \A q \in Requests : q # r /\ pc[q] \in CreatePC => tok[q] \in Leases /\ tok[q] < nextLease
      BY DEF ServiceInv, TokensOnce, IInv, Carried
    <3>3. \A s \in Sessions, t \in Leases : <<s, t>> \in issued => t < nextLease /\ t \in Nat
      BY DEF ServiceInv, TokensOnce, Leases
    <3>4. \A s \in Sessions : <<s, nextLease>> \notin issued
      BY <3>1, <3>3
    <3>5. ASSUME NEW q \in Requests, pc'[q] \in CreatePC
          PROVE  /\ tok'[q] < nextLease' /\ \A s \in Sessions : <<s, tok'[q]>> \notin issued'
                 /\ \A x \in Requests : pc'[x] \in CreatePC /\ tok'[x] = tok'[q] => x = q
      <4>1. CASE q = r
        BY <3>1, <3>2, <3>4, <4>1 DEF Leases
      <4>2. CASE q # r
        <5>1. pc[q] \in CreatePC /\ tok'[q] = tok[q] /\ tok[q] < nextLease /\ tok[q] \in Nat
          BY <3>1, <3>2, <3>5, <4>2 DEF Leases
        <5>2. /\ \A s \in Sessions : <<s, tok[q]>> \notin issued
              /\ \A x \in Requests : pc[x] \in CreatePC /\ tok[x] = tok[q] => x = q
          BY <5>1 DEF ServiceInv, TokensOnce
        <5>3. QED BY <3>1, <5>1, <5>2
      <4>3. QED BY <4>1, <4>2
    <3>6. ASSUME NEW s \in Sessions, NEW t \in Leases, <<s, t>> \in issued' PROVE t < nextLease'
      <4>1. t < nextLease /\ t \in Nat
        BY <3>1, <3>3, <3>6
      <4>2. QED BY <3>1, <4>1
    <3>7. QED BY <3>1, <3>5, <3>6 DEF TokensOnce
  <2>5. Still
    BY <2>1, <2>2, SameOutside DEF Still
  <2>6. QED BY <2>3, <2>4, <2>5, SameUsers DEF ServiceInv, Move
<1>2. ASSUME NEW r \in Requests, NEW s \in Sessions, NEW k \in Keys, NEW b \in BOOLEAN,
             AcquireReuse(r, s, k, b)
      PROVE  ServiceInv' /\ Move
  <2>0. s \in Pooled /\ ~Leased(s) /\ nextLease \in Leases
    BY <1>2 DEF AcquireReuse, NewestMatch, Matches, Pooled, Ids
  <2>1. Pooled' = Pooled /\ UNCHANGED <<status, leaked, pc, sid, tok, loop, gaveUp, active>>
    BY <1>2, <2>0, MovedPool DEF ServiceInv, AcquireReuse
  <2>2. Outside' = Outside
    BY <2>1, SameOutside DEF CreatorHas
  <2>3. SameUse /\ LoopHeld' /\ TimedOut'
    BY <2>1 DEF ServiceInv, SameUse, LoopHeld, TimedOut
  <2>4. TokensOnce'
    <3>1. /\ nextLease \in Nat \ {0} /\ nextLease' = nextLease + 1
          /\ issued' = issued \cup {<<s, nextLease>>}
      BY <1>2 DEF AcquireReuse, ServiceInv, TokensOnce
    <3>2. \A q \in Requests : pc[q] \in CreatePC => tok[q] \in Nat /\ tok[q] < nextLease
      BY DEF ServiceInv, TokensOnce, IInv, Carried, Leases
    <3>3. \A v \in Sessions, t \in Leases : <<v, t>> \in issued => t < nextLease /\ t \in Nat
      BY DEF ServiceInv, TokensOnce, Leases
    <3>4. \A v \in Sessions, t \in Leases : <<v, t>> \in issued' => t < nextLease'
      BY <3>1, <3>3
    <3>5. \A q \in Requests : pc[q] \in CreatePC =>
             tok[q] < nextLease' /\ \A v \in Sessions : <<v, tok[q]>> \notin issued'
      BY <3>1, <3>2 DEF ServiceInv, TokensOnce
    <3>6. QED BY <2>1, <3>1, <3>4, <3>5 DEF ServiceInv, TokensOnce
  <2>5. Reused(s)
    BY <1>2, <2>0, <2>1, <2>2 DEF Reused, Handed, AcquireReuse
  <2>6. QED BY <2>3, <2>4, <2>5, SameUsers DEF ServiceInv, Move
<1>3. ASSUME NEW s \in Sessions, NEW t \in Leases, Release(s, t) PROVE ServiceInv' /\ Move
  <2>0. s \in Pooled /\ Leased(s)
    BY <1>3 DEF Release, Holds, Leased, Leases, NoLease
  <2>1. /\ Pooled' = Pooled
        /\ UNCHANGED <<status, leaked, pc, sid, tok, loop, gaveUp, active, issued, nextLease>>
    BY <1>3, <2>0, MovedPool DEF ServiceInv, Release
  <2>2. Outside' = Outside
    BY <2>1, SameOutside DEF CreatorHas
  <2>3. SameUse /\ SameTokens /\ LoopHeld' /\ TimedOut'
    BY <2>1 DEF ServiceInv, SameUse, SameTokens, LoopHeld, TimedOut
  <2>4. GivenBack(s)
    BY <1>3, <2>0, <2>1, <2>2 DEF GivenBack, Handed, Release
  <2>5. QED BY <2>3, <2>4, Kept DEF Move
<1>4. ASSUME NEW r \in Requests, NEW s \in Sessions, NEW t \in Leases, OpGet(r, s, t) PROVE ServiceInv' /\ Move
  <2>1. Pooled' = Pooled /\ UNCHANGED <<lease, issued, status, leaked>>
    BY <1>4, MovedPool DEF ServiceInv, OpGet, Holds
  <2>2. \A q \in Requests, v \in Sessions : CreatorHas(q, v)' <=> CreatorHas(q, v)
    BY <1>4, ProcAssumption DEF ServiceInv, IInv, TypeOK, CreatorHas, OpGet, Holds
  <2>3. SameUse /\ SameTokens
    BY <1>4, ProcAssumption DEF ServiceInv, IInv, TypeOK, SameUse, SameTokens, EnsurePC,
       CreatePC, OpGet, Holds
  <2>4. LoopHeld' /\ TimedOut'
    BY <1>4, ProcAssumption DEF ServiceInv, IInv, TypeOK, LoopHeld, TimedOut, OpGet, Holds
  <2>5. Still
    BY <2>1, <2>2, SameOutside DEF Still
  <2>6. QED BY <2>3, <2>4, <2>5, Kept DEF Move
<1>5. ASSUME NEW r \in Requests, NEW s \in Sessions,
             NEW t \in Leases \cup {NoLease}, DeleteStart(r, s, t) PROVE ServiceInv' /\ Move
  <2>1. Pooled' = Pooled /\ UNCHANGED <<lease, issued, status, leaked>>
    BY <1>5, SamePool DEF ServiceInv, DeleteStart
  <2>2. \A q \in Requests, v \in Sessions : CreatorHas(q, v)' <=> CreatorHas(q, v)
    BY <1>5, ProcAssumption DEF ServiceInv, IInv, TypeOK, CreatorHas, DeleteStart
  <2>3. SameUse /\ SameTokens
    BY <1>5, ProcAssumption DEF ServiceInv, IInv, TypeOK, SameUse, SameTokens, EnsurePC,
       CreatePC, DeleteStart
  <2>4. LoopHeld' /\ TimedOut'
    BY <1>5, ProcAssumption DEF ServiceInv, IInv, TypeOK, LoopHeld, TimedOut, DeleteStart
  <2>5. Still
    BY <2>1, <2>2, SameOutside DEF Still
  <2>6. QED BY <2>3, <2>4, <2>5, Kept DEF Move
<1>6. ASSUME NEW r \in Requests, CreateTimeout(r) PROVE ServiceInv' /\ Move
  <2>1. Pooled' = Pooled /\ UNCHANGED <<lease, issued, status, leaked>>
    BY <1>6, SamePool DEF ServiceInv, CreateTimeout
  <2>2. \A q \in Requests, v \in Sessions : CreatorHas(q, v)' <=> CreatorHas(q, v)
    BY <1>6, ProcAssumption DEF ServiceInv, IInv, TypeOK, CreatorHas, CreateTimeout
  <2>3. SameUse /\ SameTokens
    BY <1>6, ProcAssumption DEF ServiceInv, IInv, TypeOK, SameUse, SameTokens, EnsurePC,
       CreatePC, CreateTimeout
  <2>4. LoopHeld' /\ TimedOut'
    BY <1>6, ProcAssumption DEF ServiceInv, IInv, TypeOK, LoopHeld, TimedOut, CreateTimeout
  <2>5. Still
    BY <2>1, <2>2, SameOutside DEF Still
  <2>6. QED BY <2>3, <2>4, <2>5, Kept DEF Move
<1>7. ASSUME CleanupCollect PROVE ServiceInv' /\ Move
  <2>1. Pooled' = Pooled /\ UNCHANGED <<lease, issued, status, leaked>>
    BY <1>7, SamePool DEF ServiceInv, CleanupCollect
  <2>2. \A q \in Requests, v \in Sessions : CreatorHas(q, v)' <=> CreatorHas(q, v)
    BY <1>7, ProcAssumption DEF ServiceInv, IInv, TypeOK, CreatorHas, CleanupCollect
  <2>3. SameUse /\ SameTokens
    BY <1>7, ProcAssumption DEF ServiceInv, IInv, TypeOK, SameUse, SameTokens, EnsurePC,
       CreatePC, CleanupCollect
  <2>4. LoopHeld' /\ TimedOut'
    BY <1>7, ProcAssumption DEF ServiceInv, IInv, TypeOK, LoopHeld, TimedOut, CleanupCollect
  <2>5. Still
    BY <2>1, <2>2, SameOutside DEF Still
  <2>6. QED BY <2>3, <2>4, <2>5, Kept DEF Move
<1>8. ASSUME NEW g \in 1..MaxGateways, JvmDies(g) PROVE ServiceInv' /\ Move
  <2>1. Pooled' = Pooled /\ UNCHANGED <<lease, issued, status, leaked>>
    BY <1>8, SamePool DEF ServiceInv, JvmDies
  <2>2. \A q \in Requests, v \in Sessions : CreatorHas(q, v)' <=> CreatorHas(q, v)
    BY <1>8, ProcAssumption DEF ServiceInv, IInv, TypeOK, CreatorHas, JvmDies
  <2>3. SameUse /\ SameTokens
    BY <1>8, ProcAssumption DEF ServiceInv, IInv, TypeOK, SameUse, SameTokens, EnsurePC,
       CreatePC, JvmDies
  <2>4. LoopHeld' /\ TimedOut'
    BY <1>8, ProcAssumption DEF ServiceInv, IInv, TypeOK, LoopHeld, TimedOut, JvmDies
  <2>5. Still
    BY <2>1, <2>2, SameOutside DEF Still
  <2>6. QED BY <2>3, <2>4, <2>5, Kept DEF Move
<1>9. ASSUME NEW r \in Requests, CreateTimeoutLate(r) PROVE ServiceInv' /\ Move
  <2>0. pc[r] = "register" /\ sid[r] \in Sessions /\ leaked' = leaked \cup {sid[r]}
    BY <1>9 DEF ServiceInv, IInv, Carried, CreateTimeoutLate
  <2>1. Pooled' = Pooled /\ UNCHANGED <<lease, issued, status>>
    BY <1>9, SamePool DEF ServiceInv, CreateTimeoutLate
  <2>2. \A q \in Requests, v \in Sessions : CreatorHas(q, v)' <=> q # r /\ CreatorHas(q, v)
    BY <1>9, ProcAssumption DEF ServiceInv, IInv, TypeOK, CreatorHas, CreateTimeoutLate
  <2>3. SameUse /\ SameTokens
    BY <1>9, ProcAssumption DEF ServiceInv, IInv, TypeOK, SameUse, SameTokens, EnsurePC,
       CreatePC, CreateTimeoutLate
  <2>4. LoopHeld' /\ TimedOut'
    BY <1>9, ProcAssumption DEF ServiceInv, IInv, TypeOK, LoopHeld, TimedOut, CreateTimeoutLate
  <2>5. Outside' = Outside
    <3>1. \A v \in Sessions : CreatorHas(r, v) <=> v = sid[r]
      BY <2>0 DEF CreatorHas
    <3>2. QED BY <2>0, <2>1, <2>2, <3>1 DEF Outside
  <2>6. Still
    BY <2>1, <2>5 DEF Still
  <2>7. QED BY <2>3, <2>4, <2>6, Kept DEF Move
<1>10. ASSUME Shutdown PROVE ServiceInv' /\ Move
  <2>1. Pooled' = {} /\ UNCHANGED <<lease, issued, status, leaked>>
    BY <1>10 DEF Shutdown, Pooled, Ids
  <2>2. \A q \in Requests, v \in Sessions : CreatorHas(q, v)' <=> CreatorHas(q, v)
    BY <1>10, ProcAssumption DEF ServiceInv, IInv, TypeOK, CreatorHas, Shutdown
  <2>3. SameUse /\ SameTokens
    BY <1>10, ProcAssumption DEF ServiceInv, IInv, TypeOK, SameUse, SameTokens, Shutdown
  <2>4. LoopHeld' /\ TimedOut'
    BY <1>10, ProcAssumption DEF ServiceInv, IInv, TypeOK, LoopHeld, TimedOut, Shutdown
  <2>5. down' /\ \A r \in Requests : pc[r] # "op"
    BY <1>10 DEF Shutdown, ServiceInv, TimedOut
  <2>6. Stopping
    BY <2>1, <2>2, <2>5, SameOutside DEF Stopping, Popped
  <2>7. QED BY <2>3, <2>4, <2>6, Kept DEF Move
<1>11. QED
  BY <1>1, <1>2, <1>3, <1>4, <1>5, <1>6, <1>7, <1>8, <1>9, <1>10
     DEF Environment, PostSession, PostAcquire

-----------------------------------------------------------------------------
\* Every step of every process is one of the moves and preserves the invariant.
LEMMA NextMoves == ServiceInv /\ [Next]_vars => ServiceInv' /\ Move
<1> SUFFICES ASSUME ServiceInv, [Next]_vars PROVE ServiceInv' /\ Move
  OBVIOUS
<1> USE DEF poolVars, sessVars, gwVars, reqVars, procVars, Procs, Goto, Finish, LoopFree
<1>0. IInv'
  BY NextInv DEF ServiceInv
<1>1. ASSUME NEW p \in Procs, NEW s \in Sessions, CloseOne(p, s) PROVE ServiceInv' /\ Move
  <2>1. Pooled' = Pooled /\ UNCHANGED <<lease, issued, leaked>>
    BY <1>1, SamePool DEF ServiceInv, CloseOne
  <2>2. \A q \in Requests, v \in Sessions : CreatorHas(q, v)' <=> CreatorHas(q, v)
    BY <1>1 DEF CreatorHas, CloseOne
  <2>3. SameUse /\ SameTokens /\ LoopHeld' /\ TimedOut'
    BY <1>1 DEF ServiceInv, SameUse, SameTokens, LoopHeld, TimedOut, CloseOne
  <2>4. Outside' = Outside
    <3>1. HeldOnce(s) /\ s \in toClose[p]
      BY <1>1 DEF ServiceInv, IInv, Custody, CloseOne
    <3>2. status[s] = "active" /\ status' = [status EXCEPT ![s] = "closed"]
      BY <1>1, <3>1 DEF HeldOnce, CloseOne
    <3>3. \A v \in Sessions : status'[v] = "unborn" <=> status[v] = "unborn"
      BY <3>2 DEF ServiceInv, IInv, TypeOK
    <3>4. QED BY <2>1, <2>2, <3>3 DEF Outside
  <2>5. Still
    BY <2>1, <2>4 DEF Still
  <2>6. QED BY <1>0, <2>3, <2>5, Kept DEF Move
<1>2. ASSUME ShutdownGateway PROVE ServiceInv' /\ Move
  <2>1. Pooled' = Pooled /\ UNCHANGED <<lease, issued, status, leaked>>
    BY <1>2, SamePool DEF ServiceInv, ShutdownGateway
  <2>2. \A q \in Requests, v \in Sessions : CreatorHas(q, v)' <=> CreatorHas(q, v)
    BY <1>2, ProcAssumption DEF ServiceInv, IInv, TypeOK, CreatorHas, ShutdownGateway
  <2>3. SameUse /\ SameTokens
    BY <1>2, ProcAssumption DEF ServiceInv, IInv, TypeOK, SameUse, SameTokens, EnsurePC,
       CreatePC, ShutdownGateway
  <2>4. LoopHeld' /\ TimedOut'
    BY <1>2, ProcAssumption DEF ServiceInv, IInv, TypeOK, LoopHeld, TimedOut, ShutdownGateway
  <2>5. Still
    BY <2>1, <2>2, SameOutside DEF Still
  <2>6. QED BY <1>0, <2>3, <2>4, <2>5, Kept DEF Move
<1>3. ASSUME UNCHANGED vars PROVE ServiceInv' /\ Move
  <2>1. UNCHANGED <<lru, lease, issued, nextLease, status, leaked, active, sid, tok, gaveUp, pc, loop>>
    BY <1>3 DEF vars
  <2>2. SameUse /\ SameTokens /\ LoopHeld' /\ TimedOut'
    BY <2>1 DEF ServiceInv, SameUse, SameTokens, LoopHeld, TimedOut
  <2>3. Pooled' = Pooled /\ Outside' = Outside
    BY <2>1, SameOutside DEF CreatorHas, Pooled
  <2>4. Still
    BY <2>1, <2>3 DEF Still
  <2>5. QED BY <1>0, <2>2, <2>4, Kept DEF Move
<1>4. QED
  BY <1>0, <1>1, <1>2, <1>3, EnvironmentMoves, EnsureMoves, CreateMoves, UseMoves, DeleteMoves,
     CleanupMoves
     DEF Next, Server, Stopped

\* Nobody uses or has a token of the new server.
LEMMA InitService == Init => ServiceInv
<1> SUFFICES ASSUME Init PROVE ServiceInv
  OBVIOUS
<1>1. IInv
  BY InitInv
<1>2. ActiveCounted
  <2>1. ASSUME NEW s \in Sessions PROVE active[s] = Cardinality(Users(s))
    <3>1. Users(s) = {} /\ active[s] = 0
      BY DEF Init, Users, Procs
    <3>2. QED BY <3>1, FS_EmptySet
  <2>2. QED BY <2>1 DEF ActiveCounted
<1>3. TokensOnce /\ LoopHeld /\ TimedOut
  BY DEF Init, TokensOnce, LoopHeld, TimedOut, CreatePC, EnsurePC, Procs
<1>4. QED BY <1>1, <1>2, <1>3 DEF ServiceInv

\* The counters are true, tokens are drawn once, and every step is a move.
THEOREM ServiceInvariant == Spec => [](ServiceInv) /\ [][Move]_vars
<1>1. ServiceInv /\ [Next]_vars => Move
  BY NextMoves
<1>2. QED BY <1>1, InitService, NextMoves, PTL DEF Spec

\* A request in the counted part of an operation is counted.
LEMMA BusyCounted ==
  ASSUME ServiceInv, NEW r \in Requests, pc[r] = "op" PROVE InUse(sid[r]) /\ sid[r] \in Sessions
<1>1. sid[r] \in Sessions
  BY DEF ServiceInv, IInv, Carried
<1>2. r \in Users(sid[r]) /\ IsFiniteSet(Users(sid[r])) /\ active[sid[r]] = Cardinality(Users(sid[r]))
  BY <1>1, ProcAssumption, FS_Subset DEF Users, ServiceInv, ActiveCounted
<1>3. active[sid[r]] # 0 /\ active[sid[r]] \in Nat
  BY <1>1, <1>2, FS_EmptySet DEF ServiceInv, IInv, TypeOK
<1>4. QED BY <1>1, <1>3 DEF InUse

\* Who may take a session out of the pool.
LEMMA Leaver ==
  ASSUME ServiceInv, Move, NEW s \in Sessions, s \in Pooled, s \notin Pooled'
  PROVE  \/ PurgeStep
         \/ down' /\ \A r \in Requests : pc[r] # "op"
         \/ \E r \in Requests : /\ pc[r] = "delete" /\ sid[r] = s
                                /\ tok[r] \in {lease[s], NoLease} /\ ~InUse(s)
         \/ pc[Cleanup] = "sweep" /\ s \in sweep /\ ~InUse(s)
         \/ Idle(s)
<1>1. CASE Still \/ Purged \/ Stopping
  BY <1>1 DEF Still, Purged, Stopping
<1>2. ASSUME NEW r \in Requests, Deleted(r) \/ Withdrawn(r) \/ \E out \in SUBSET Pooled : Admitted(r, out)
      PROVE  \/ \E q \in Requests : /\ pc[q] = "delete" /\ sid[q] = s
                                    /\ tok[q] \in {lease[s], NoLease} /\ ~InUse(s)
             \/ Idle(s)
  BY <1>2 DEF Deleted, Withdrawn, Admitted, Popped, MayClose
<1>3. ASSUME NEW v \in Sessions, Swept(v) \/ Evicted(v) \/ Reused(v) \/ GivenBack(v)
      PROVE  (pc[Cleanup] = "sweep" /\ s \in sweep /\ ~InUse(s)) \/ Idle(s)
  BY <1>3 DEF Swept, Evicted, Reused, GivenBack, Popped, Handed, MayClose
<1>4. QED BY <1>1, <1>2, <1>3 DEF Move

\* A request inside the counted part of an operation loses its session to no
\* eviction, sweep, release or DELETE, only to a gateway purge.
THEOREM BusySessionsStay == Spec => BusyKept
<1>1. ASSUME ServiceInv, Move, NEW r \in Requests,
             pc[r] = "op" /\ sid[r] \in Pooled /\ sid[r] \notin Pooled'
      PROVE  PurgeStep
  <2>1. InUse(sid[r]) /\ sid[r] \in Sessions
    BY <1>1, BusyCounted
  <2>2. QED BY <1>1, <2>1, Leaver DEF Idle
<1>2. ServiceInv /\ [Move]_vars =>
        [\A r \in Requests :
           (pc[r] = "op" /\ sid[r] \in Pooled /\ sid[r] \notin Pooled') => PurgeStep]_vars
  BY <1>1
<1>3. QED BY <1>2, ServiceInvariant, PTL DEF BusyKept

\* A leased session leaves the pool only by a purge, a DELETE that showed its
\* token or the admin's, the sweep, or shutdown.
THEOREM LeasedSessionsStay == Spec => LeaseKept
<1>1. ASSUME ServiceInv, Move, NEW s \in Sessions, s \in Pooled /\ Leased(s) /\ s \notin Pooled'
      PROVE  \/ PurgeStep
             \/ \E r \in Requests : /\ pc[r] = "delete" /\ sid[r] = s
                                    /\ tok[r] \in {lease[s], NoLease}
             \/ s \in sweep /\ loop = Cleanup
             \/ down'
  <2>1. pc[Cleanup] = "sweep" => loop = Cleanup
    BY <1>1 DEF ServiceInv, LoopHeld
  <2>2. QED BY <1>1, <2>1, Leaver DEF Idle
<1>2. ServiceInv /\ [Move]_vars =>
        [\A s \in Sessions :
           (s \in Pooled /\ Leased(s) /\ s \notin Pooled') =>
             \/ PurgeStep
             \/ \E r \in Requests : /\ pc[r] = "delete" /\ sid[r] = s
                                    /\ tok[r] \in {lease[s], NoLease}
             \/ s \in sweep /\ loop = Cleanup
             \/ down']_vars
  BY <1>1
<1>3. QED BY <1>2, ServiceInvariant, PTL DEF LeaseKept

-----------------------------------------------------------------------------
(* The refinement: a move is a step of LeaseService or changes nothing.    *)

\* What a client sees of one session.
LEMMA Seen ==
  ASSUME NEW s \in Sessions
  PROVE  /\ Place[s] = IF s \in Pooled THEN "pooled" ELSE IF s \in Outside THEN "outside" ELSE "gone"
         /\ Owner[s] = IF s \in Pooled THEN lease[s] ELSE NoLease
BY DEF Place, Owner

\* Sessions that leave the pool are retired.
LEMMA PoppedRetires ==
  ASSUME ServiceInv, NEW out \in SUBSET Pooled, Popped(out)
  PROVE  Service!Next
<1>1. Pooled \subseteq Sessions /\ Pooled \cap Outside = {}
  BY PooledInside, PooledSessions DEF ServiceInv
<1>2. Place' = [s \in Sessions |-> IF s \in out THEN "gone" ELSE Place[s]]
  BY <1>1 DEF Place, Popped
<1>3. Owner' = [s \in Sessions |-> IF s \in out THEN NoLease ELSE Owner[s]]
  BY DEF Owner, Popped
<1>4. Granted' = Granted
  BY DEF Granted, Popped
<1>5. out \in SUBSET {s \in Sessions : Place[s] # "gone"}
  BY <1>1, Seen
<1>6. QED BY <1>2, <1>3, <1>4, <1>5 DEF Service!Next, Service!Retire, Service!Leave

\* A refused session is retired before it enters the pool.
LEMMA WithdrawnRetires ==
  ASSUME ServiceInv, NEW r \in Requests, Withdrawn(r)
  PROVE  Service!Next
<1> DEFINE s0 == sid[r]
<1>1. s0 \in Sessions /\ s0 \in Outside /\ s0 \notin Pooled
  <2>1. s0 \in Sessions /\ CreatorHas(r, s0)
    BY DEF ServiceInv, IInv, Carried, CreatorHas, Withdrawn
  <2>2. QED BY <2>1, PooledInside DEF Outside, ServiceInv
<1> HIDE DEF s0
<1>2. Place' = [s \in Sessions |-> IF s \in {s0} THEN "gone" ELSE Place[s]]
  BY <1>1 DEF Place, Withdrawn, s0
<1>3. Owner' = [s \in Sessions |-> IF s \in {s0} THEN NoLease ELSE Owner[s]]
  <2>1. \A s \in Pooled : lease'[s] = lease[s]
    BY <1>1, PooledSessions DEF Withdrawn, LeasedTo, s0, ServiceInv, IInv, TypeOK
  <2>2. QED BY <1>1, <2>1 DEF Owner, Withdrawn
<1>4. Granted' = Granted
  BY DEF Granted, Withdrawn
<1>5. {s0} \in SUBSET {s \in Sessions : Place[s] # "gone"}
  BY <1>1, Seen
<1>6. QED BY <1>2, <1>3, <1>4, <1>5 DEF Service!Next, Service!Retire, Service!Leave

\* A token that is given out now was not given out before.
LEMMA GrantedOnce ==
  ASSUME ServiceInv, NEW s \in Sessions, NEW t \in Leases,
         issued' = issued \cup {<<s, t>>}, \A v \in Sessions : <<v, t>> \notin issued
  PROVE  t \in Leases \ Granted /\ Granted' = Granted \cup {t}
BY DEF Granted

\* A reused session is granted.
LEMMA ReusedGrants ==
  ASSUME ServiceInv, NEW s \in Sessions, Reused(s)
  PROVE  Service!Next
<1>1. \A v \in Sessions : <<v, nextLease>> \notin issued
  BY DEF ServiceInv, TokensOnce, Reused
<1>2. nextLease \in Leases \ Granted /\ Granted' = Granted \cup {nextLease}
  BY <1>1, GrantedOnce DEF Reused
<1>3. Place' = Place
  BY DEF Place, Reused, Handed
<1>4. Owner' = [Owner EXCEPT ![s] = nextLease]
  BY DEF Owner, Reused, Handed, ServiceInv, IInv, TypeOK
<1>5. s \in Service!Free
  BY Seen DEF Service!Free, Reused, Leased
<1>6. QED BY <1>2, <1>3, <1>4, <1>5 DEF Service!Next, Service!Grant

\* A released session goes back to the pool.
LEMMA GivenBackReleases ==
  ASSUME ServiceInv, NEW s \in Sessions, GivenBack(s)
  PROVE  Service!Next
<1>1. Granted' = Granted /\ Place' = Place
  BY DEF Granted, Place, GivenBack, Handed
<1>2. Owner' = [Owner EXCEPT ![s] = NoLease]
  BY DEF Owner, GivenBack, Handed, ServiceInv, IInv, TypeOK
<1>3. Owner[s] # NoLease
  BY Seen DEF GivenBack, Leased
<1>4. QED BY <1>1, <1>2, <1>3 DEF Service!Next, Service!Release

\* A registered session is admitted with its first holder.
LEMMA AdmittedAdmits ==
  ASSUME ServiceInv, NEW r \in Requests, NEW out \in SUBSET Pooled, Admitted(r, out)
  PROVE  Service!Next
<1> DEFINE s0 == sid[r]  t0 == tok[r]
<1>1. s0 \in Sessions /\ s0 \in Outside /\ s0 \notin Pooled
  <2>1. s0 \in Sessions /\ CreatorHas(r, s0)
    BY DEF ServiceInv, IInv, Carried, CreatorHas, Admitted
  <2>2. QED BY <2>1, PooledInside DEF Outside, ServiceInv
<1>2. t0 \in Leases /\ \A v \in Sessions : <<v, t0>> \notin issued
  <2>1. pc[r] \in CreatePC
    BY DEF Admitted, CreatePC
  <2>2. QED BY <2>1 DEF ServiceInv, IInv, Carried, TokensOnce
<1>3. /\ Pooled' = (Pooled \ out) \cup {s0} /\ Outside' = Outside \ {s0}
      /\ lease' = [lease EXCEPT ![s0] = t0] /\ lease \in [Sessions -> Leases \cup {NoLease}]
      /\ issued' = issued \cup {<<s0, t0>>} /\ \A v \in out : v \in Pooled /\ lease[v] = NoLease
  BY DEF Admitted, LeasedTo, ServiceInv, IInv, TypeOK, Idle, Leased
<1> HIDE DEF s0, t0
<1>4. t0 \in Leases \ Granted /\ Granted' = Granted \cup {t0}
  BY <1>1, <1>2, <1>3, GrantedOnce
<1>5. Pooled \subseteq Sessions /\ Pooled \cap Outside = {}
  BY PooledInside, PooledSessions DEF ServiceInv
<1>6. Place' = [v \in Sessions |-> IF v = s0 THEN "pooled" ELSE IF v \in out THEN "gone" ELSE Place[v]]
  BY <1>1, <1>3, <1>5 DEF Place
<1>7. Owner' = [Owner EXCEPT ![s0] = t0]
  BY <1>1, <1>3, <1>5 DEF Owner
<1>8. out \in SUBSET Service!Free
  BY <1>3, <1>5, Seen DEF Service!Free
<1>9. Place[s0] = "outside"
  BY <1>1, Seen
<1>10. QED BY <1>1, <1>4, <1>6, <1>7, <1>8, <1>9 DEF Service!Next, Service!Admit

\* What no client notices changes nothing in the service.
LEMMA StillStutters == ASSUME ServiceInv, Still PROVE UNCHANGED Service!vars
BY DEF Still, Service!vars, Place, Owner, Granted

\* The pool implements the lease service: a session has one holder at a time,
\* no token is handed out twice, and what has left the pool serves nobody.
THEOREM PoolRefinesService == Spec => ImplementsLeaseService
<1>1. Init => Service!Init
  <2> SUFFICES ASSUME Init PROVE Service!Init
    OBVIOUS
  <2>1. Granted = {} /\ Owner = [s \in Sessions |-> NoLease]
    BY DEF Init, Granted, Owner
  <2>2. Place \in [Sessions -> {"outside", "pooled"}]
    BY DEF Init, Place, Outside
  <2>3. QED BY <2>1, <2>2 DEF Service!Init
<1>2. ServiceInv /\ Move => Service!Next \/ UNCHANGED Service!vars
  <2> SUFFICES ASSUME ServiceInv, Move PROVE Service!Next \/ UNCHANGED Service!vars
    OBVIOUS
  <2>1. CASE Still
    BY <2>1, StillStutters
  <2>2. CASE Purged \/ Stopping
    BY <2>2, PoppedRetires DEF Purged, Stopping
  <2>3. ASSUME NEW r \in Requests, Deleted(r) PROVE Service!Next
    <3>1. {sid[r]} \in SUBSET Pooled /\ Popped({sid[r]})
      BY <2>3 DEF Deleted, MayClose
    <3>2. QED BY <3>1, PoppedRetires
  <2>4. ASSUME NEW s \in Sessions, Swept(s) \/ Evicted(s) PROVE Service!Next
    <3>1. {s} \in SUBSET Pooled /\ Popped({s})
      BY <2>4 DEF Swept, Evicted, MayClose
    <3>2. QED BY <3>1, PoppedRetires
  <2>5. QED BY <2>1, <2>2, <2>3, <2>4, WithdrawnRetires, AdmittedAdmits, ReusedGrants,
               GivenBackReleases DEF Move
<1>3. UNCHANGED vars => UNCHANGED Service!vars
  BY DEF vars, poolVars, sessVars, gwVars, reqVars, procVars, Service!vars, Place, Owner, Granted, Outside, Pooled, CreatorHas
<1>4. ServiceInv /\ [Move]_vars => [Service!Next]_(Service!vars)
  BY <1>2, <1>3
<1>5. QED BY <1>1, <1>4, ServiceInvariant, PTL DEF Spec, ImplementsLeaseService, Service!Spec

=============================================================================
