---------------------------- MODULE LspPoolProofs ----------------------------
(***************************************************************************)
(* The MCP LSP server for any calls, sessions and pool size: IInv relates  *)
(* the bindings, the table, the calls and the leases of the gym server.    *)
(*   Wired       what a call or the table refers to exists;                *)
(*   ScratchInv  the scratch pool is counted exactly;                      *)
(*   LeaseInv    a lease has one session and somebody who will release it, *)
(*               or is lost;                                               *)
(*   CacheInv    what a binding caches is in its session while the last    *)
(*               load in it was the binding's and ended with its text.     *)
(* Each has one lemma per action; the moves of a call that leave the       *)
(* sessions, the bindings and the table alone are taken together, and so   *)
(* are the requests that change documents only.                            *)
(***************************************************************************)
EXTENDS LspPool, FiniteSetTheorems, TLAPS

\* Where a call may be.
Points == {"new", "open", "rebind", "relock", "opened", "rebound", "relocked", "read", "lock",
           "load", "loading", "reload", "query", "close", "scratch", "waiting", "creating",
           "trying", "done", "error", "cancelled"}

\* The records of the state.
SessionRecords == [state : {"none", "free", "leased", "gone"}, lease : Leases \cup {None},
                   doc : Texts \cup {None}, late : Texts \cup {None}]
BindingRecords == [sid : Sessions, lease : Leases, cached : Texts \cup {None}]
CallRecords == [pc : Points, tool : Tools \cup {None}, bind : Leases \cup {None},
                text : Texts \cup {None}, again : BOOLEAN, old : Leases \cup {None},
                fresh : Leases \cup {None}, on : Sessions \cup {None}]

\* Every variable has its type.
TypeOK ==
  /\ file \in Texts /\ leases \in 0..MaxLeases /\ evicts \in Nat
  /\ sess \in [Sessions -> SessionRecords]
  /\ binds \in [Leases -> BindingRecords \cup {NoBinding}]
  /\ bound \in Leases \cup {None}
  /\ call \in [Calls -> CallRecords]
  /\ idle \subseteq Sessions /\ count \in Nat
  /\ spoilt \subseteq Sessions /\ lost \subseteq Leases

\* Leased sessions, and binding objects that exist.  The calls that are about to overwrite their
\* binding, those that replace it, those that refer to one, and those that have just created one.
Alive == {s \in Sessions : sess[s].state = "leased"}
Made == {l \in 1..leases : binds[l] # NoBinding}
Copying == {"rebound", "relocked"}
Rebinding == Copying \cup {"rebind", "relock"}
Bound == Rebinding \cup {"read", "lock", "load", "loading", "reload", "query"}
Fetched == {"opened", "rebound", "relocked"}

\* What the table, a call or a leased session refers to exists.
Wired ==
  /\ \A l \in Leases : binds[l] # NoBinding => l <= leases /\ binds[l].lease \in l..leases
  /\ bound # None => bound \in Made
  /\ \A s \in Sessions : IF s \in Alive THEN sess[s].lease \in 1..leases ELSE sess[s].lease = None
  /\ \A c \in Calls :
       /\ call[c].pc \in Bound => call[c].bind \in Made
       /\ call[c].pc \in Fetched => call[c].fresh \in Made
       /\ call[c].old # None => call[c].old \in Made /\ call[c].pc \in Fetched
       /\ call[c].pc \in {"loading", "trying", "cancelled"} => call[c].on \in Sessions

\* Candidates with a place in the scratch pool, and the sessions of the pool.
OnScratch == Creating \cup Trying \cup Cancelled
Scratch(s) == s \in idle \/ \E c \in Trying \cup Cancelled : call[c].on = s

\* The pool is counted exactly, and its sessions were created.
ScratchInv ==
  /\ ScratchExact
  /\ IsFiniteSet(idle) /\ IsFiniteSet(OnScratch)
  /\ \A s \in Sessions : Scratch(s) => sess[s].state # "none"

\* Leases that somebody is going to release: the table or a call, or that are lost.
Kept == {l \in Leases : bound = l \/ l \in lost \/ \E c \in Calls : call[c].old = l}

\* A leased session is the scratch pool's, or nobody heard of it, or it is the one of a binding
\* whose lease is kept.
Pooled(s) == Scratch(s) /\ binds[sess[s].lease] = NoBinding
Missed(s) == sess[s].lease \in lost /\ binds[sess[s].lease] = NoBinding
Owned(s)  == /\ binds[sess[s].lease] # NoBinding /\ sess[s].lease \in Kept
             /\ binds[sess[s].lease].sid = s /\ binds[sess[s].lease].lease = sess[s].lease

\* A lease has one session, a leased session a holder; a binding under repair holds no lease.
LeaseInv ==
  /\ \A s, t \in Alive : sess[s].lease = sess[t].lease => s = t
  /\ \A s \in Alive : Pooled(s) \/ Missed(s) \/ Owned(s)
  /\ \A c \in Calls : call[c].pc \in Rebinding =>
       \A s \in Alive : sess[s].lease # call[c].bind

\* The binding that a lease was given for; a rebinding call overwrites its object with a copy
\* of a later one.
Own(l) == binds[l] # NoBinding /\ binds[l].lease = l

\* No load is under way in session s.
Settled(s) == \A c \in Calls : call[c].pc = "loading" => call[c].on # s

\* The table holds a binding's own object; an object is only overwritten by a later one.
TableOwn ==
  /\ bound # None => Own(bound)
  /\ \A c \in Calls : call[c].pc \in Copying => call[c].bind # bound /\ call[c].bind < call[c].fresh

\* A load in a session that is not spoilt runs alone and through the binding that holds its lease.
LoadsInv ==
  \A c \in Calls : call[c].pc = "loading" =>
    /\ Own(call[c].bind) => call[c].on = Mine(c).sid
    /\ call[c].on \notin spoilt =>
         /\ call[c].on \in Alive /\ sess[call[c].on].lease = call[c].bind /\ Own(call[c].bind)
         /\ \A d \in Calls : call[d].pc = "loading" /\ call[d].on = call[c].on => d = c

\* What a binding's own object caches is true, and a load given up spoils its session.
TextsInv ==
  /\ \A s \in Sessions : sess[s].late # None => s \in spoilt
  /\ \A l \in Leases :
       Own(l) /\ binds[l].cached # None /\ Ours(binds[l]) /\ Settled(binds[l].sid)
              /\ binds[l].sid \notin spoilt
         => sess[binds[l].sid].doc = binds[l].cached

CacheInv == TableOwn /\ LoadsInv /\ TextsInv

\* The inductive invariant.
IInv == TypeOK /\ Wired /\ ScratchInv /\ LeaseInv /\ CacheInv

\* One call steps.
Others(c) == \A d \in Calls : d # c => call'[d] = call[d]

\* A call becomes another record; the other calls stay.
LEMMA CallUpdate ==
  ASSUME call \in [Calls -> CallRecords], NEW c \in Calls, NEW r \in CallRecords,
         call' = [call EXCEPT ![c] = r]
  PROVE  call' \in [Calls -> CallRecords] /\ Others(c) /\ call'[c] = r
BY DEF Others

\* A call goes to another point.
LEMMA GoType ==
  ASSUME call \in [Calls -> CallRecords], NEW c \in Calls, NEW pc \in Points, To(c, pc)
  PROVE  /\ call' \in [Calls -> CallRecords] /\ Others(c)
         /\ call'[c] = [call[c] EXCEPT !.pc = pc]
BY DEF To, Others, CallRecords

\* A tool call that uses the file starts from the binding in the table.
LEMMA StartType ==
  ASSUME TypeOK, NEW c \in Calls, NEW t \in Tools, Start(c, t)
  PROVE  /\ TypeOK' /\ Others(c)
         /\ call'[c].pc \in {"scratch", "close", "open", "query", "read"}
         /\ call'[c].pc \in {"query", "read"} => call'[c].bind = bound /\ bound # None
         /\ call'[c].old = call[c].old
BY LspAssumption DEF TypeOK, Start, CallRecords, Points, Others, server, scratch, Tools

\* _create_binding remembers the replaced binding in the call.
LEMMA CreateType ==
  ASSUME TypeOK, NEW c \in Calls, NEW s \in Sessions, Create(c, s)
  PROVE  /\ TypeOK' /\ Others(c)
         /\ \/ call[c].pc = "open" /\ call'[c].pc = "opened"
            \/ call[c].pc = "rebind" /\ call'[c].pc = "rebound"
            \/ call[c].pc = "relock" /\ call'[c].pc = "relocked"
         /\ call'[c].old = bound /\ call'[c].fresh = leases + 1
         /\ call'[c].bind = call[c].bind
         /\ leases + 1 \in Leases
<1> DEFINE n == leases + 1
           p == CASE call[c].pc = "open" -> "opened" [] call[c].pc = "rebind" -> "rebound"
                  [] call[c].pc = "relock" -> "relocked"
           r == [call[c] EXCEPT !.old = bound, !.fresh = n, !.pc = p]
           b == [sid |-> s, lease |-> n, cached |-> None]
<1>1. n \in Leases /\ n \in 0..MaxLeases
  BY LspAssumption DEF Create, TypeOK, Leases
<1>2. call[c] \in CallRecords /\ call[c].pc \in {"open", "rebind", "relock"}
  BY DEF Create, TypeOK
<1>3. p \in {"opened", "rebound", "relocked"}
  BY <1>2
<1>4. call' = [call EXCEPT ![c] = r]
  BY <1>2 DEF Create, TypeOK
<1>5. r \in CallRecords
  BY <1>1, <1>2, <1>3 DEF CallRecords, Points, TypeOK
<1>6. /\ \/ call[c].pc = "open" /\ p = "opened"
         \/ call[c].pc = "rebind" /\ p = "rebound"
         \/ call[c].pc = "relock" /\ p = "relocked"
      /\ r.pc = p /\ r.old = bound /\ r.fresh = n /\ r.bind = call[c].bind
  BY <1>2 DEF CallRecords
<1>7. call' \in [Calls -> CallRecords] /\ Others(c) /\ call'[c] = r
  <2> HIDE DEF r
  <2>1. QED BY <1>4, <1>5, CallUpdate DEF TypeOK
<1>8. b \in BindingRecords
  BY <1>1 DEF BindingRecords
<1>9. Leased(s) \in SessionRecords
  BY <1>1 DEF Leased, SessionRecords, TypeOK
<1>10. /\ binds' = [binds EXCEPT ![n] = b] /\ sess' = [sess EXCEPT ![s] = Leased(s)]
       /\ bound' = n /\ leases' = n
       /\ UNCHANGED <<file, evicts, idle, count, spoilt, lost>>
  BY DEF Create, scratch
<1> HIDE DEF b, r, n
<1>11. TypeOK'
  BY <1>1, <1>7, <1>8, <1>9, <1>10 DEF TypeOK, Texts
<1>12. QED BY <1>1, <1>6, <1>7, <1>11 DEF n

\* A binding object that was made refers to a session and a lease.
LEMMA MadeBinding ==
  ASSUME TypeOK, NEW l, l \in Made
  PROVE  /\ l \in Leases /\ binds[l] \in BindingRecords
         /\ binds[l].sid \in Sessions /\ binds[l].lease \in Leases
BY LspAssumption DEF TypeOK, Made, Leases, BindingRecords

\* _safe_release and close: the session of the binding is given up, which nobody is loading, or
\* nothing happens and the lease is lost.
GivenUp(b, how) ==
  /\ sess' \in [Sessions -> SessionRecords] /\ lost' \subseteq Leases /\ lost \subseteq lost'
  /\ \A s \in Sessions : s # b.sid => sess'[s] = sess[s]
  /\ \/ /\ Ours(b) /\ ~Loading(b.sid) /\ sess'[b.sid].state = how /\ sess'[b.sid].lease = None
        /\ sess'[b.sid].late = sess[b.sid].late
     \/ (Ours(b) => b.lease \in lost') /\ sess' = sess

\* Freed is GivenUp.
LEMMA FreedType ==
  ASSUME TypeOK, NEW b \in BindingRecords, NEW how \in {"free", "gone"}, Freed(b, how)
  PROVE  GivenUp(b, how)
<1>1. b.sid \in Sessions /\ b.lease \in Leases
  BY DEF BindingRecords
<1>2. CASE /\ Ours(b) /\ ~Loading(b.sid) /\ UNCHANGED lost
           /\ sess' = [sess EXCEPT ![b.sid].state = how, ![b.sid].lease = None]
  BY <1>1, <1>2 DEF TypeOK, SessionRecords, GivenUp
<1>3. CASE lost' = lost \cup (IF Ours(b) THEN {b.lease} ELSE {}) /\ UNCHANGED sess
  BY <1>1, <1>3 DEF TypeOK, GivenUp
<1>4. QED BY <1>2, <1>3 DEF Freed

\* A request that nobody hears of leases a session or changes nothing.
LEMMA UnheardType ==
  ASSUME TypeOK, NEW S \in SUBSET Sessions, Unheard(S)
  PROVE  \/ UNCHANGED <<sess, leases, evicts, lost>>
         \/ /\ leases + 1 \in Leases /\ leases' = leases + 1 /\ leases' \in 0..MaxLeases
            /\ evicts' = evicts /\ lost' = lost \cup {leases + 1} /\ lost' \subseteq Leases
            /\ sess' \in [Sessions -> SessionRecords]
            /\ \E s \in S : sess' = [sess EXCEPT ![s] = Leased(s)]
<1>1. CASE UNCHANGED <<server, lost>>
  BY <1>1 DEF server
<1>2. CASE /\ leases < MaxLeases /\ leases' = leases + 1
           /\ \E s \in S : sess' = [sess EXCEPT ![s] = Leased(s)]
           /\ lost' = lost \cup {leases + 1} /\ UNCHANGED evicts
  <2>1. leases + 1 \in Leases /\ leases + 1 \in 0..MaxLeases
    BY <1>2, LspAssumption DEF TypeOK, Leases
  <2>2. PICK s \in S : sess' = [sess EXCEPT ![s] = Leased(s)]
    BY <1>2
  <2>3. Leased(s) \in SessionRecords
    BY <2>1 DEF Leased, SessionRecords, TypeOK
  <2>4. sess' \in [Sessions -> SessionRecords]
    BY <2>2, <2>3 DEF TypeOK
  <2>5. QED BY <1>2, <2>1, <2>4 DEF TypeOK
<1>3. QED BY <1>1, <1>2 DEF Unheard

\* The step after _create_binding, by where the call came from.
LEMMA ReleaseOldType ==
  ASSUME TypeOK, Wired, NEW c \in Calls, ReleaseOld(c)
  PROVE  /\ TypeOK' /\ Others(c) /\ call[c].pc \in Fetched
         /\ IF call[c].old = None THEN sess' = sess /\ lost' = lost
            ELSE GivenUp(binds[call[c].old], "free")
         /\ \/ /\ call[c].pc = "opened" /\ call'[c].pc \in {"query", "read"} /\ binds' = binds
               /\ call'[c].bind = call[c].fresh
            \/ /\ call[c].pc \in Copying /\ call'[c].pc \in {"read", "reload"}
               /\ binds' = [binds EXCEPT ![call[c].bind] = [binds[call[c].fresh] EXCEPT !.cached = None]]
               /\ call'[c].bind = call[c].bind
         /\ call'[c].old = None
<1> DEFINE p == CASE call[c].pc = "opened"  -> IF Retracts(c) THEN "query" ELSE "read"
                  [] call[c].pc = "rebound" -> "read"
                  [] OTHER                  -> "reload"
           b == IF call[c].pc = "opened" THEN call[c].fresh ELSE call[c].bind
           r == [call[c] EXCEPT !.old = None, !.fresh = None, !.pc = p, !.bind = b]
<1>1. call[c] \in CallRecords /\ call[c].pc \in {"opened", "rebound", "relocked"}
  BY DEF ReleaseOld, TypeOK
<1>2. /\ call[c].pc = "opened" => p \in {"query", "read"} /\ b = call[c].fresh
      /\ call[c].pc # "opened" => p \in {"read", "reload"} /\ b = call[c].bind
  BY <1>1
<1>3. call' = [call EXCEPT ![c] = r]
  BY <1>1 DEF ReleaseOld, TypeOK
<1>4. r \in CallRecords /\ r.pc = p /\ r.old = None /\ r.bind = b
  BY <1>1, <1>2 DEF CallRecords, Points
<1>5. call' \in [Calls -> CallRecords] /\ Others(c) /\ call'[c] = r
  <2> HIDE DEF r
  <2>1. QED BY <1>3, <1>4, CallUpdate DEF TypeOK
<1>6. [binds[call[c].fresh] EXCEPT !.cached = None] \in BindingRecords
  <2>1. binds[call[c].fresh] \in BindingRecords
    BY <1>1, MadeBinding DEF Wired, Fetched
  <2>2. QED BY <2>1 DEF BindingRecords
<1>7. call[c].pc # "opened" => call[c].bind \in Leases
  BY <1>1, MadeBinding DEF Wired, Bound, Rebinding, Copying
<1>8. binds' \in [Leases -> BindingRecords \cup {NoBinding}]
  BY <1>1, <1>6, <1>7 DEF ReleaseOld, TypeOK
<1>9. call[c].old # None => binds[call[c].old] \in BindingRecords
  BY MadeBinding DEF Wired
<1>10. IF call[c].old = None THEN sess' = sess /\ lost' = lost
       ELSE GivenUp(binds[call[c].old], "free")
  BY <1>9, FreedType DEF ReleaseOld
<1>11. sess' \in [Sessions -> SessionRecords] /\ lost' \subseteq Leases
  BY <1>10 DEF GivenUp, TypeOK
<1>13. UNCHANGED <<file, leases, evicts, bound, idle, count, spoilt>>
  BY DEF ReleaseOld, scratch
<1>14. TypeOK'
  BY <1>5, <1>8, <1>11, <1>13 DEF TypeOK
<1>15. /\ call[c].pc = "opened" => binds' = binds
       /\ call[c].pc # "opened" =>
            binds' = [binds EXCEPT ![call[c].bind] = [binds[call[c].fresh] EXCEPT !.cached = None]]
  BY DEF ReleaseOld
<1> HIDE DEF r, p, b
<1>16. QED BY <1>1, <1>2, <1>4, <1>5, <1>10, <1>14, <1>15 DEF Fetched, Copying

\* close_binding gives up the session of the binding in the table.
LEMMA CloseType ==
  ASSUME TypeOK, Wired, NEW c \in Calls, NEW how \in {"free", "gone"}, Close(c, how)
  PROVE  /\ TypeOK' /\ Others(c) /\ call'[c] = [call[c] EXCEPT !.pc = "done"]
         /\ IF bound = None THEN sess' = sess /\ lost' = lost ELSE GivenUp(binds[bound], how)
<1>1. call' \in [Calls -> CallRecords] /\ Others(c) /\ call'[c] = [call[c] EXCEPT !.pc = "done"]
  BY GoType DEF Close, TypeOK, Points
<1>2. bound # None => binds[bound] \in BindingRecords
  BY MadeBinding DEF Wired
<1>3. IF bound = None THEN sess' = sess /\ lost' = lost ELSE GivenUp(binds[bound], how)
  BY <1>2, FreedType DEF Close
<1>4. sess' \in [Sessions -> SessionRecords] /\ lost' \subseteq Leases
  BY <1>3 DEF GivenUp, TypeOK
<1>6. UNCHANGED <<file, leases, evicts, binds, idle, count, spoilt>> /\ bound' = None
  BY DEF Close, scratch
<1>7. TypeOK'
  BY <1>1, <1>4, <1>6 DEF TypeOK
<1>8. QED BY <1>1, <1>3, <1>7

\* A cancelled call that was releasing a replaced binding.
LEMMA CancelOldType ==
  ASSUME TypeOK, Wired, NEW c \in Calls, Cancel(c), call[c].old # None
  PROVE  /\ TypeOK' /\ Others(c) /\ call[c].pc \in Fetched
         /\ call'[c] = [call[c] EXCEPT !.pc = "error", !.old = None]
         /\ GivenUp(binds[call[c].old], "free")
<1> DEFINE r == [call[c] EXCEPT !.pc = "error", !.old = None]
<1>1. call[c] \in CallRecords /\ call[c].pc \in Fetched
  BY DEF Wired, TypeOK
<1>2. call' = [call EXCEPT ![c] = r] /\ Freed(binds[call[c].old], "free")
  BY <1>1 DEF Cancel, Fetched, TypeOK
<1>3. r \in CallRecords
  BY <1>1 DEF CallRecords, Points
<1>4. call' \in [Calls -> CallRecords] /\ Others(c) /\ call'[c] = r
  <2> HIDE DEF r
  <2>1. QED BY <1>2, <1>3, CallUpdate DEF TypeOK
<1>5. binds[call[c].old] \in BindingRecords
  BY MadeBinding DEF Wired
<1>6. GivenUp(binds[call[c].old], "free")
  BY <1>2, <1>5, FreedType
<1>7. UNCHANGED <<file, leases, evicts, binds, bound, idle, count, spoilt>>
  BY DEF Cancel, scratch
<1>8. TypeOK'
  BY <1>4, <1>6, <1>7 DEF TypeOK, GivenUp
<1>9. QED BY <1>1, <1>4, <1>6, <1>8

\* A call that is cancelled otherwise.
LEMMA CancelType ==
  ASSUME TypeOK, Wired, NEW c \in Calls, Cancel(c), call[c].old = None
  PROVE  /\ TypeOK' /\ Others(c) /\ UNCHANGED <<sess, lost>>
         /\ \/ call[c].pc \in {"lock", "waiting"} /\ call'[c] = [call[c] EXCEPT !.pc = "error"]
            \/ call[c].pc = "trying" /\ call'[c] = [call[c] EXCEPT !.pc = "cancelled"]
<1>1. /\ \/ call[c].pc \in {"lock", "waiting"} /\ To(c, "error")
         \/ call[c].pc = "trying" /\ To(c, "cancelled")
      /\ UNCHANGED <<file, sess, leases, evicts, binds, bound, idle, count, spoilt, lost>>
  BY DEF Cancel, scratch
<1>2. /\ call' \in [Calls -> CallRecords] /\ Others(c)
      /\ \/ call[c].pc \in {"lock", "waiting"} /\ call'[c] = [call[c] EXCEPT !.pc = "error"]
         \/ call[c].pc = "trying" /\ call'[c] = [call[c] EXCEPT !.pc = "cancelled"]
  BY <1>1, GoType DEF TypeOK, Points
<1>3. TypeOK'
  BY <1>1, <1>2 DEF TypeOK
<1>4. QED BY <1>1, <1>2, <1>3

\* The file is read, or there is none.
LEMMA ReadType ==
  ASSUME TypeOK, NEW c \in Calls, Read(c)
  PROVE  /\ TypeOK' /\ Others(c)
         /\ \/ call'[c] = [call[c] EXCEPT !.text = file, !.pc = "lock"]
            \/ call'[c] = [call[c] EXCEPT !.pc = "error"]
<1> DEFINE r == [call[c] EXCEPT !.text = file, !.pc = "lock"]
<1>1. r \in CallRecords
  <2>1. call[c] \in CallRecords /\ "lock" \in Points /\ file \in Texts
    BY DEF TypeOK, Points
  <2>2. QED BY <2>1 DEF CallRecords
<1>2. call' = [call EXCEPT ![c] = r] \/ To(c, "error")
  BY DEF Read, TypeOK
<1>3. /\ call' \in [Calls -> CallRecords] /\ Others(c)
      /\ call'[c] = r \/ call'[c] = [call[c] EXCEPT !.pc = "error"]
  <2>1. CASE call' = [call EXCEPT ![c] = r]
    <3> HIDE DEF r
    <3>1. QED BY <1>1, <2>1, CallUpdate DEF TypeOK
  <2>2. CASE To(c, "error")
    BY <2>2, GoType DEF TypeOK, Points
  <2>3. QED BY <1>2, <2>1, <2>2
<1>4. UNCHANGED <<file, sess, leases, evicts, binds, bound, idle, count, spoilt, lost>>
  BY DEF Read, server, scratch
<1>5. TypeOK'
  BY <1>3, <1>4 DEF TypeOK
<1>6. QED BY <1>3, <1>5

\* The lock is taken, and the cached text decides whether to load.
LEMMA LockType ==
  ASSUME TypeOK, NEW c \in Calls, Lock(c)
  PROVE  /\ TypeOK' /\ Others(c)
         /\ \E pc \in {"scratch", "query", "load"} : call'[c] = [call[c] EXCEPT !.pc = pc]
<1>1. PICK pc \in {"scratch", "query", "load"} : To(c, pc)
  BY DEF Lock, Synced
<1>5. pc \in Points
  BY DEF Points
<1>2. call' \in [Calls -> CallRecords] /\ Others(c) /\ call'[c] = [call[c] EXCEPT !.pc = pc]
  BY <1>1, <1>5, GoType DEF TypeOK
<1>3. UNCHANGED <<file, sess, leases, evicts, binds, bound, idle, count, spoilt, lost>>
  BY DEF Lock, server, scratch
<1>4. QED BY <1>2, <1>3 DEF TypeOK

\* A load starts under a valid lease, or ends, or rebinds after a 404.
LEMMA LoadBeginsType ==
  ASSUME TypeOK, Wired, NEW c \in Calls, LoadBegins(c)
  PROVE  /\ TypeOK' /\ Others(c) /\ Mine(c) \in BindingRecords
         /\ \/ /\ Ours(Mine(c)) /\ call'[c] = [call[c] EXCEPT !.pc = "loading", !.on = Mine(c).sid]
               /\ spoilt' = IF Alone(c) THEN spoilt \ {Mine(c).sid} ELSE spoilt \cup {Mine(c).sid}
            \/ /\ spoilt' = spoilt
               /\ \E pc \in {"relock", "error"} : /\ call'[c] = [call[c] EXCEPT !.pc = pc]
                                                  /\ pc = "relock" => Gone(Mine(c))
<1> DEFINE r == [call[c] EXCEPT !.pc = "loading", !.on = Mine(c).sid]
<1>1. Mine(c) \in BindingRecords /\ Mine(c).sid \in Sessions
  BY MadeBinding DEF LoadBegins, Wired, Bound, Mine
<1>2. UNCHANGED <<file, sess, leases, evicts, binds, bound, idle, count, lost>>
  BY DEF LoadBegins, server, scratch
<1>3. CASE Ours(Mine(c))
  <2>1. call' = [call EXCEPT ![c] = r]
    BY <1>3 DEF LoadBegins, TypeOK
  <2>2. r \in CallRecords
    <3>1. call[c] \in CallRecords /\ "loading" \in Points
      BY DEF TypeOK, Points
    <3>2. QED BY <1>1, <3>1 DEF CallRecords
  <2>3. call' \in [Calls -> CallRecords] /\ Others(c) /\ call'[c] = r
    <3> HIDE DEF r
    <3>1. QED BY <2>1, <2>2, CallUpdate DEF TypeOK
  <2>4. spoilt' = IF Alone(c) THEN spoilt \ {Mine(c).sid} ELSE spoilt \cup {Mine(c).sid}
    BY <1>3 DEF LoadBegins
  <2>5. spoilt' \subseteq Sessions
    BY <1>1, <2>4 DEF TypeOK
  <2>6. TypeOK'
    BY <1>2, <2>3, <2>5 DEF TypeOK
  <2>7. QED BY <1>1, <1>3, <2>3, <2>4, <2>6
<1>4. CASE ~Ours(Mine(c))
  <2>1. PICK pc \in {"relock", "error"} : To(c, pc) /\ (pc = "relock" => Gone(Mine(c)))
    BY <1>4 DEF LoadBegins
  <2>6. pc \in Points
    BY DEF Points
  <2>2. call' \in [Calls -> CallRecords] /\ Others(c) /\ call'[c] = [call[c] EXCEPT !.pc = pc]
    BY <2>1, <2>6, GoType DEF TypeOK
  <2>3. spoilt' = spoilt
    BY <1>4 DEF LoadBegins
  <2>4. TypeOK'
    BY <1>2, <2>2, <2>3 DEF TypeOK
  <2>5. QED BY <1>1, <2>1, <2>2, <2>3, <2>4
<1>5. QED BY <1>3, <1>4

\* The requests that change documents, and the texts that bindings cache, only.
Documents(c) ==
  /\ TypeOK' /\ Others(c) /\ UNCHANGED <<leases, bound, idle, count, lost>>
  /\ \A s \in Sessions : sess'[s].state = sess[s].state /\ sess'[s].lease = sess[s].lease
  /\ \A l \in Leases : /\ (binds'[l] = NoBinding) = (binds[l] = NoBinding)
                       /\ binds'[l].sid = binds[l].sid /\ binds'[l].lease = binds[l].lease
  /\ call[c].pc \in {"loading", "query"}
  /\ \E pc \in {"scratch", "query", "done", "error", "rebind"} :
       call'[c].pc = pc /\ (pc = "rebind" => Gone(Mine(c)))
  /\ call'[c].old = call[c].old /\ call'[c].bind = call[c].bind

\* A load ends with an answer.
LEMMA LoadEndsType ==
  ASSUME TypeOK, Wired, NEW c \in Calls, LoadEnds(c)
  PROVE  /\ Documents(c) /\ call'[c].pc \in {"scratch", "query"}
         /\ call[c].bind \in Leases /\ Mine(c) \in BindingRecords /\ call[c].on \in Sessions
<1> DEFINE k == call[c].bind  u == call[c].on
<1>1. k \in Leases /\ Mine(c) \in BindingRecords /\ u \in Sessions /\ call[c].pc = "loading"
  BY MadeBinding DEF LoadEnds, Loaded, Wired, Bound, Mine
<1>2. PICK pc \in {"scratch", "query"} : To(c, pc)
  BY DEF LoadEnds, Loaded, Synced
<1>11. pc \in Points
  BY DEF Points
<1>3. call' \in [Calls -> CallRecords] /\ Others(c) /\ call'[c] = [call[c] EXCEPT !.pc = pc]
  BY <1>2, <1>11, GoType DEF TypeOK
<1>12. call'[c].pc = pc /\ call'[c].old = call[c].old /\ call'[c].bind = call[c].bind
  BY <1>3 DEF TypeOK, CallRecords
<1>4. call[c].text \in Texts \cup {None}
  BY <1>1 DEF TypeOK, CallRecords
<1>5. PICK d \in {None, call[c].text} :
        /\ sess' = [sess EXCEPT ![u].doc = d]
        /\ spoilt' = spoilt \cup IF d = None THEN {u} ELSE {}
  BY DEF LoadEnds, Loaded
<1>6. d \in Texts \cup {None}
  BY <1>4, <1>5
<1>7. sess' \in [Sessions -> SessionRecords]
  BY <1>1, <1>5, <1>6 DEF TypeOK, SessionRecords
<1>8. \A s \in Sessions : sess'[s].state = sess[s].state /\ sess'[s].lease = sess[s].lease
  BY <1>1, <1>5 DEF TypeOK, SessionRecords
<1>9. binds' = [binds EXCEPT ![k].cached = call[c].text]
  BY DEF LoadEnds, Loaded
<1>10. binds[k] \in BindingRecords
  BY <1>1 DEF Mine
<1>13. binds' \in [Leases -> BindingRecords \cup {NoBinding}]
  BY <1>1, <1>4, <1>9, <1>10 DEF TypeOK, BindingRecords
<1>14. /\ binds'[k].sid = binds[k].sid /\ binds'[k].lease = binds[k].lease /\ binds[k].sid \in Sessions
       /\ \A l \in Leases : l # k => binds'[l] = binds[l]
  BY <1>1, <1>9, <1>10 DEF TypeOK, BindingRecords
<1>15. binds'[k] # NoBinding /\ binds[k] # NoBinding
  BY <1>14, LspAssumption DEF NoBinding
<1>16. UNCHANGED <<file, leases, evicts, bound, idle, count, lost>> /\ spoilt' \subseteq Sessions
  BY <1>1, <1>5 DEF LoadEnds, Loaded, scratch, TypeOK
<1>17. TypeOK'
  BY <1>3, <1>7, <1>13, <1>16 DEF TypeOK
<1>18. \A l \in Leases : /\ (binds'[l] = NoBinding) = (binds[l] = NoBinding)
                        /\ binds'[l].sid = binds[l].sid /\ binds'[l].lease = binds[l].lease
  BY <1>14, <1>15
<1>19. QED
  BY <1>1, <1>2, <1>3, <1>8, <1>12, <1>16, <1>17, <1>18 DEF Documents

\* A load ends with an error, or is given up.
LEMMA LoadFailsType ==
  ASSUME TypeOK, Wired, NEW c \in Calls, LoadFails(c)
  PROVE  /\ Documents(c) /\ call'[c].pc = "error" /\ binds' = binds /\ call[c].on \in Sessions
         /\ \A s \in Sessions : s # call[c].on => sess'[s] = sess[s]
<1> DEFINE u == call[c].on
<1>1. u \in Sessions /\ call[c].pc = "loading" /\ call[c].text \in Texts \cup {None}
  BY DEF LoadFails, Wired, TypeOK, CallRecords
<1>2. call' \in [Calls -> CallRecords] /\ Others(c) /\ call'[c] = [call[c] EXCEPT !.pc = "error"]
  BY GoType DEF LoadFails, TypeOK, Points
<1>3. call'[c].pc = "error" /\ call'[c].old = call[c].old /\ call'[c].bind = call[c].bind
  BY <1>2 DEF TypeOK, CallRecords
<1>4. \/ sess' = [sess EXCEPT ![u].doc = None] \/ sess' = sess
      \/ sess' = [sess EXCEPT ![u].late = call[c].text]
  BY DEF LoadFails
<1>5. sess' \in [Sessions -> SessionRecords]
  BY <1>1, <1>4 DEF TypeOK, SessionRecords
<1>6. \A s \in Sessions : sess'[s].state = sess[s].state /\ sess'[s].lease = sess[s].lease
  BY <1>1, <1>4 DEF TypeOK, SessionRecords
<1>14. \A s \in Sessions : s # u => sess'[s] = sess[s]
  BY <1>1, <1>4 DEF TypeOK
<1>7. /\ UNCHANGED <<file, leases, evicts, binds, bound, idle, count, lost>>
      /\ spoilt' \subseteq Sessions
  BY <1>1 DEF LoadFails, scratch, TypeOK
<1>8. TypeOK'
  BY <1>2, <1>5, <1>7 DEF TypeOK
<1>10. \A l \in Leases : /\ (binds'[l] = NoBinding) = (binds[l] = NoBinding)
                         /\ binds'[l].sid = binds[l].sid /\ binds'[l].lease = binds[l].lease
  BY <1>7
<1>11. \E pc \in {"scratch", "query", "done", "error", "rebind"} :
         call'[c].pc = pc /\ (pc = "rebind" => Gone(Mine(c)))
  BY <1>3
<1>13. UNCHANGED <<leases, bound, idle, count, lost>>
  BY <1>7
<1>15. binds' = binds
  BY <1>7
<1>12. Documents(c)
  BY <1>1, <1>2, <1>3, <1>6, <1>8, <1>10, <1>11, <1>13 DEF Documents
<1>9. QED BY <1>1, <1>3, <1>12, <1>14, <1>15

\* A tool's own request ends, or finds its session gone and rebinds.
LEMMA QueryType ==
  ASSUME TypeOK, Wired, NEW c \in Calls, Query(c) \/ QueryFails(c)
  PROVE  /\ Documents(c) /\ call[c].pc = "query" /\ binds' = binds
         /\ call'[c].pc \in {"done", "error", "rebind"} /\ spoilt \subseteq spoilt'
         /\ \A s \in Sessions : \/ sess'[s] = sess[s]
                                \/ s \in spoilt' /\ sess'[s].late = sess[s].late
<1>1. PICK p \in {"done", "rebind", "error"}, a \in BOOLEAN :
        /\ call' = [call EXCEPT ![c].again = a, ![c].pc = p]
        /\ p = "rebind" => Gone(Mine(c))
  <2>1. CASE Query(c)
    <3>1. PICK p \in {"done", "rebind", "error"} :
            /\ call' = [call EXCEPT ![c].again = TRUE, ![c].pc = p]
            /\ p = "rebind" => Gone(Mine(c))
      BY <2>1 DEF Query
    <3>2. QED BY <3>1
  <2>2. CASE QueryFails(c)
    <3>1. call[c].again \in BOOLEAN
      BY DEF TypeOK, CallRecords
    <3>2. call' = [call EXCEPT ![c].again = call[c].again, ![c].pc = "error"]
      BY <2>2 DEF QueryFails, To, TypeOK, CallRecords
    <3>3. QED BY <3>1, <3>2
  <2>3. QED BY <2>1, <2>2
<1> DEFINE r == [call[c] EXCEPT !.again = a, !.pc = p]
<1>2. call' = [call EXCEPT ![c] = r] /\ call[c] \in CallRecords
  BY <1>1 DEF TypeOK
<1>3. r \in CallRecords /\ r.pc = p /\ r.old = call[c].old /\ r.bind = call[c].bind
  <2>1. p \in Points
    BY DEF Points
  <2>2. QED BY <1>2, <2>1 DEF CallRecords
<1>4. call' \in [Calls -> CallRecords] /\ Others(c) /\ call'[c] = r
  <2> HIDE DEF r
  <2>1. QED BY <1>2, <1>3, CallUpdate DEF TypeOK
<1> HIDE DEF r
<1>5. call[c].pc = "query" /\ Mine(c).sid \in Sessions
  BY MadeBinding DEF Query, QueryFails, Wired, Bound, Mine
<1>6. Retracted(c) \/ UNCHANGED <<sess, spoilt>>
  BY DEF Query, QueryFails
<1>7. sess' \in [Sessions -> SessionRecords] /\ spoilt' \subseteq Sessions /\ spoilt \subseteq spoilt'
  BY <1>5, <1>6 DEF Retracted, TypeOK, SessionRecords
<1>8. \A s \in Sessions : sess'[s].state = sess[s].state /\ sess'[s].lease = sess[s].lease
  BY <1>5, <1>6 DEF Retracted, TypeOK, SessionRecords
<1>17. \A s \in Sessions :
         sess'[s] = sess[s] \/ (s \in spoilt' /\ sess'[s].late = sess[s].late)
  BY <1>5, <1>6 DEF Retracted, TypeOK, SessionRecords
<1>9. UNCHANGED <<file, leases, evicts, binds, bound, idle, count, lost>>
  BY DEF Query, QueryFails, scratch
<1>10. TypeOK'
  BY <1>4, <1>7, <1>9 DEF TypeOK
<1>11. \A l \in Leases : /\ (binds'[l] = NoBinding) = (binds[l] = NoBinding)
                         /\ binds'[l].sid = binds[l].sid /\ binds'[l].lease = binds[l].lease
  BY <1>9
<1>12. call'[c].pc = p /\ call'[c].old = call[c].old /\ call'[c].bind = call[c].bind
  BY <1>3, <1>4
<1>13. \E pc \in {"scratch", "query", "done", "error", "rebind"} :
         call'[c].pc = pc /\ (pc = "rebind" => Gone(Mine(c)))
  BY <1>1, <1>12
<1>16. UNCHANGED <<leases, bound, idle, count, lost>>
  BY <1>9
<1>18. binds' = binds
  BY <1>9
<1>14. Documents(c)
  BY <1>4, <1>5, <1>8, <1>10, <1>11, <1>12, <1>13, <1>16 DEF Documents
<1>15. QED BY <1>1, <1>5, <1>7, <1>12, <1>14, <1>17, <1>18

\* A creation fails, and the server did nothing or leased a session that nobody hears of.
LEMMA CreateFailsType ==
  ASSUME TypeOK, NEW c \in Calls, CreateFails(c)
  PROVE  /\ TypeOK' /\ Others(c) /\ call'[c] = [call[c] EXCEPT !.pc = "error"]
         /\ Unheard(In({"none", "free"}))
<1>1. call' \in [Calls -> CallRecords] /\ Others(c) /\ call'[c] = [call[c] EXCEPT !.pc = "error"]
  BY GoType DEF CreateFails, TypeOK, Points
<1>2. UNCHANGED <<file, binds, bound, idle, count, spoilt>> /\ Unheard(In({"none", "free"}))
  BY DEF CreateFails, scratch
<1>3. In({"none", "free"}) \in SUBSET Sessions
  BY DEF In
<1>4. QED BY <1>1, <1>2, <1>3, UnheardType DEF TypeOK

\* A call takes a scratch session.
LEMMA TryType ==
  ASSUME call \in [Calls -> CallRecords], NEW c \in Calls, NEW s \in Sessions,
         call' = [call EXCEPT ![c].pc = "trying", ![c].on = s]
  PROVE  /\ call' \in [Calls -> CallRecords] /\ Others(c)
         /\ call'[c] = [call[c] EXCEPT !.pc = "trying", !.on = s]
<1> DEFINE r == [call[c] EXCEPT !.pc = "trying", !.on = s]
<1>1. call' = [call EXCEPT ![c] = r]
  OBVIOUS
<1>2. r \in CallRecords
  <2>1. call[c] \in CallRecords /\ "trying" \in Points
    BY DEF Points
  <2>2. QED BY <2>1 DEF CallRecords
<1> HIDE DEF r
<1>3. call' \in [Calls -> CallRecords] /\ Others(c) /\ call'[c] = r
  BY <1>1, <1>2, CallUpdate
<1>4. QED BY <1>3 DEF r

\* A candidate takes an idle scratch session.
LEMMA ScratchTakeType ==
  ASSUME TypeOK, NEW c \in Calls, NEW s \in Sessions, ScratchTake(c, s)
  PROVE  TypeOK' /\ Others(c) /\ call'[c] = [call[c] EXCEPT !.pc = "trying", !.on = s]
<1>1. /\ call' \in [Calls -> CallRecords] /\ Others(c)
      /\ call'[c] = [call[c] EXCEPT !.pc = "trying", !.on = s]
  BY TryType DEF ScratchTake, TypeOK
<1>2. /\ idle' \subseteq Sessions
      /\ UNCHANGED <<file, sess, leases, evicts, binds, bound, count, spoilt, lost>>
  BY DEF ScratchTake, server, TypeOK
<1>3. QED BY <1>1, <1>2 DEF TypeOK

\* A candidate creates a scratch session below the cap, or waits.
LEMMA ScratchMissType ==
  ASSUME TypeOK, NEW c \in Calls, ScratchMiss(c)
  PROVE  /\ TypeOK' /\ Others(c)
         /\ \/ /\ call'[c] = [call[c] EXCEPT !.pc = "creating"]
               /\ count < ScratchSize /\ count' = count + 1
            \/ call'[c] = [call[c] EXCEPT !.pc = "waiting"] /\ count' = count
<1>1. \/ To(c, "creating") /\ count < ScratchSize /\ count' = count + 1
      \/ To(c, "waiting") /\ count' = count
  BY DEF ScratchMiss
<1>2. /\ call' \in [Calls -> CallRecords] /\ Others(c)
      /\ \/ /\ call'[c] = [call[c] EXCEPT !.pc = "creating"]
            /\ count < ScratchSize /\ count' = count + 1
         \/ call'[c] = [call[c] EXCEPT !.pc = "waiting"] /\ count' = count
  BY <1>1, GoType DEF TypeOK, Points
<1>3. count' \in Nat
  BY <1>2 DEF TypeOK
<1>4. UNCHANGED <<file, sess, leases, evicts, binds, bound, idle, spoilt, lost>>
  BY DEF ScratchMiss, server
<1>5. TypeOK'
  BY <1>2, <1>3, <1>4 DEF TypeOK
<1>6. QED BY <1>2, <1>5

\* A scratch session is leased.
LEMMA ScratchCreateType ==
  ASSUME TypeOK, NEW c \in Calls, NEW s \in Sessions, ScratchCreate(c, s)
  PROVE  /\ TypeOK' /\ Others(c) /\ call'[c] = [call[c] EXCEPT !.pc = "trying", !.on = s]
         /\ leases + 1 \in Leases
<1>1. leases + 1 \in Leases /\ leases + 1 \in 0..MaxLeases
  BY LspAssumption DEF ScratchCreate, TypeOK, Leases
<1>2. Leased(s) \in SessionRecords
  BY <1>1 DEF Leased, SessionRecords, TypeOK
<1>3. /\ call' \in [Calls -> CallRecords] /\ Others(c)
      /\ call'[c] = [call[c] EXCEPT !.pc = "trying", !.on = s]
  BY TryType DEF ScratchCreate, TypeOK
<1>4. /\ sess' = [sess EXCEPT ![s] = Leased(s)] /\ leases' = leases + 1
      /\ UNCHANGED <<file, evicts, binds, bound, idle, count, spoilt, lost>>
  BY DEF ScratchCreate, scratch
<1>5. TypeOK'
  BY <1>1, <1>2, <1>3, <1>4 DEF TypeOK
<1>6. QED BY <1>1, <1>3, <1>5

\* A candidate ends, and its session is kept or dropped, or its creation fails.
LEMMA ScratchEndsType ==
  ASSUME TypeOK, Wired, ScratchInv, NEW c \in Calls,
         ScratchCreateFails(c) \/ ScratchDone(c) \/ ScratchDrop(c)
  PROVE  /\ TypeOK' /\ Others(c)
         /\ \E pc \in {"done", "error"} : call'[c] = [call[c] EXCEPT !.pc = pc]
         /\ call[c].pc \in {"creating", "trying"}
         /\ UNCHANGED <<file, binds, bound, spoilt>>
         /\ UNCHANGED <<sess, leases, evicts, lost>> \/ (ScratchCreateFails(c) /\ Unheard(In({"none"})))
<1>1. PICK pc \in {"done", "error"} : To(c, pc)
  BY DEF ScratchCreateFails, ScratchDone, ScratchDrop
<1>2. pc \in Points
  BY DEF Points
<1>3. call' \in [Calls -> CallRecords] /\ Others(c) /\ call'[c] = [call[c] EXCEPT !.pc = pc]
  BY <1>1, <1>2, GoType DEF TypeOK
<1>4. call[c].pc \in {"creating", "trying"}
  BY DEF ScratchCreateFails, ScratchDone, ScratchDrop
<1>5. count > 0
  <2>1. c \in OnScratch
    BY <1>4 DEF OnScratch, Creating, Trying
  <2>2. Cardinality(OnScratch) \in Nat /\ Cardinality(OnScratch) # 0
    BY <2>1, FS_CardinalityType, FS_EmptySet DEF ScratchInv
  <2>3. Cardinality(idle) \in Nat
    BY FS_CardinalityType DEF ScratchInv
  <2>4. count = Cardinality(idle) + Cardinality(OnScratch)
    BY DEF ScratchInv, ScratchExact, OnScratch
  <2>5. QED BY <2>2, <2>3, <2>4
<1>6. count' \in Nat
  BY <1>5 DEF ScratchCreateFails, ScratchDone, ScratchDrop, TypeOK
<1>7. idle' \subseteq Sessions
  <2>1. CASE ScratchDone(c)
    <3>1. call[c].on \in Sessions
      BY <2>1 DEF ScratchDone, Wired
    <3>2. QED BY <2>1, <3>1 DEF ScratchDone, TypeOK
  <2>2. CASE ScratchCreateFails(c) \/ ScratchDrop(c)
    BY <2>2 DEF ScratchCreateFails, ScratchDrop, TypeOK
  <2>3. QED BY <2>1, <2>2
<1>8. /\ UNCHANGED <<file, binds, bound, spoilt>>
      /\ UNCHANGED <<sess, leases, evicts, lost>> \/ (ScratchCreateFails(c) /\ Unheard(In({"none"})))
  BY DEF ScratchCreateFails, ScratchDone, ScratchDrop, server
<1>9. /\ sess' \in [Sessions -> SessionRecords] /\ leases' \in 0..MaxLeases /\ evicts' \in Nat
      /\ lost' \subseteq Leases
  <2>1. In({"none"}) \in SUBSET Sessions
    BY DEF In
  <2>2. QED BY <1>8, <2>1, UnheardType DEF TypeOK
<1>10. TypeOK'
  BY <1>3, <1>6, <1>7, <1>8, <1>9 DEF TypeOK
<1>11. QED BY <1>3, <1>4, <1>8, <1>10

\* A session is evicted.
LEMMA EvictType ==
  ASSUME TypeOK, NEW s \in Sessions, Evict(s)
  PROVE  /\ TypeOK' /\ sess'[s] = [NewSession EXCEPT !.state = "gone"]
         /\ \A t \in Sessions : t # s => sess'[t] = sess[t]
         /\ UNCHANGED <<binds, bound, call, idle, count, leases, spoilt, lost>> /\ ~Loading(s)
<1> DEFINE g == [NewSession EXCEPT !.state = "gone"]
<1>1. g \in SessionRecords
  BY DEF SessionRecords, NewSession
<1>2. /\ sess' = [sess EXCEPT ![s] = g] /\ evicts' = evicts + 1 /\ ~Loading(s)
      /\ UNCHANGED <<file, leases, binds, bound, call, idle, count, spoilt, lost>>
  BY DEF Evict, scratch
<1> HIDE DEF g
<1>3. TypeOK'
  BY <1>1, <1>2 DEF TypeOK
<1>4. QED BY <1>2, <1>3 DEF TypeOK, g

\* A load given up by its client comes to its end.
LEMMA LateType ==
  ASSUME TypeOK, NEW s \in Sessions, Late(s)
  PROVE  /\ TypeOK' /\ UNCHANGED <<binds, bound, call, idle, count, leases, spoilt, lost>>
         /\ \A t \in Sessions : sess'[t].state = sess[t].state /\ sess'[t].lease = sess[t].lease
         /\ sess[s].late # None /\ sess'[s].late = None
         /\ \A t \in Sessions : t # s => sess'[t] = sess[t]
<1>1. PICK d \in {None, sess[s].late} : sess' = [sess EXCEPT ![s].doc = d, ![s].late = None]
  BY DEF Late
<1>2. d \in Texts \cup {None}
  BY <1>1 DEF TypeOK, SessionRecords
<1>3. UNCHANGED <<file, leases, binds, bound, call, idle, count, evicts, spoilt, lost>> /\ sess[s].late # None
  BY DEF Late, scratch
<1>4. sess' \in [Sessions -> SessionRecords]
  <2>1. sess[s] \in SessionRecords
    BY DEF TypeOK
  <2>2. [sess[s] EXCEPT !.doc = d, !.late = None] \in SessionRecords
    BY <1>2, <2>1 DEF SessionRecords
  <2> DEFINE x == [sess[s] EXCEPT !.doc = d, !.late = None]
  <2>3. sess' = [sess EXCEPT ![s] = x]
    BY <1>1 DEF TypeOK
  <2> HIDE DEF x
  <2>4. QED BY <2>2, <2>3 DEF TypeOK, x
<1>5. TypeOK'
  BY <1>3, <1>4 DEF TypeOK
<1>6. QED BY <1>1, <1>3, <1>5 DEF TypeOK, SessionRecords

\* The file is edited.
LEMMA EditType ==
  ASSUME TypeOK, Edit PROVE TypeOK'
<1>1. file' \in Texts
  BY LspAssumption DEF Edit, TypeOK, Texts
<1>2. UNCHANGED <<sess, leases, evicts, binds, bound, call, idle, count, spoilt, lost>>
  BY DEF Edit, server, scratch
<1>3. QED BY <1>1, <1>2 DEF TypeOK

-----------------------------------------------------------------------------
\* What the table, the calls and the sessions refer to after a step that forgets no binding.
LEMMA WiredStep ==
  ASSUME TypeOK, Wired, leases' \in {leases, leases + 1},
         \A l \in Leases :
           \/ /\ (binds'[l] = NoBinding) = (binds[l] = NoBinding)
              /\ binds'[l].lease = binds[l].lease
           \/ binds'[l] # NoBinding /\ l <= leases' /\ binds'[l].lease \in l..leases',
         bound' \in {bound, None} \/ bound' \in Made',
         \A s \in Sessions :
           \/ sess'[s].state = sess[s].state /\ sess'[s].lease = sess[s].lease
           \/ sess'[s].state # "leased" /\ sess'[s].lease = None
           \/ sess'[s].state = "leased" /\ sess'[s].lease \in 1..leases',
         \A d \in Calls :
           \/ call'[d] = call[d]
           \/ /\ call'[d].pc \in Bound => call'[d].bind \in Made \cup Made'
              /\ call'[d].pc \in Fetched => call'[d].fresh \in Made'
              /\ call'[d].old # None => call'[d].old \in Made /\ call'[d].pc \in Fetched
              /\ call'[d].pc \in {"loading", "trying", "cancelled"} => call'[d].on \in Sessions
  PROVE  Wired'
<1>1. leases \in Nat /\ leases' \in Nat /\ leases <= leases'
  BY DEF TypeOK
<1>2. ASSUME NEW l \in Leases, binds'[l] # NoBinding
      PROVE  l <= leases' /\ binds'[l].lease \in l..leases'
  <2>1. CASE binds[l] # NoBinding /\ binds'[l].lease = binds[l].lease
    <3>1. l <= leases /\ binds[l].lease \in l..leases /\ l \in Int
      BY <2>1 DEF Wired, Leases
    <3>2. QED BY <1>1, <2>1, <3>1
  <2>2. QED BY <1>2, <2>1
<1>3. Made \subseteq Made'
  BY <1>1, MadeBinding DEF Made
<1>4. bound' # None => bound' \in Made'
  BY <1>3 DEF Wired
<1>5. \A s \in Sessions :
        IF s \in Alive' THEN sess'[s].lease \in 1..leases' ELSE sess'[s].lease = None
  BY <1>1 DEF Wired, Alive
<1>6. \A d \in Calls :
        /\ call'[d].pc \in Bound => call'[d].bind \in Made'
        /\ call'[d].pc \in Fetched => call'[d].fresh \in Made'
        /\ call'[d].old # None => call'[d].old \in Made' /\ call'[d].pc \in Fetched
        /\ call'[d].pc \in {"loading", "trying", "cancelled"} => call'[d].on \in Sessions
  BY <1>3 DEF Wired
<1>7. QED BY <1>2, <1>4, <1>5, <1>6 DEF Wired

\* A call goes on: what it refers to from now on exists.
LEMMA WiredByCall ==
  ASSUME TypeOK, Wired, NEW c \in Calls, Others(c), UNCHANGED <<sess, leases, binds, bound>>,
         call'[c].pc \in Bound => call'[c].bind \in Made,
         call'[c].pc \notin Fetched, call'[c].old = None,
         call'[c].pc \in {"loading", "trying", "cancelled"} => call'[c].on \in Sessions
  PROVE  Wired'
BY WiredStep DEF Others

\* Only a call that has just created a binding holds a replaced one.
LEMMA OldNone ==
  ASSUME TypeOK, Wired, NEW c \in Calls, call[c].pc \notin Fetched
  PROVE  call[c].old = None
BY DEF Wired

\* A started call refers to the binding in the table.
LEMMA StartWired ==
  ASSUME TypeOK, Wired, NEW c \in Calls, NEW t \in Tools, Start(c, t)
  PROVE  Wired'
<1>1. call[c].old = None
  BY OldNone DEF Start, Fetched
<1>2. UNCHANGED <<sess, leases, binds, bound>>
  BY DEF Start, server
<1>3. call'[c].pc \in Bound => call'[c].bind \in Made
  BY StartType DEF Wired, Bound, Rebinding, Copying
<1>4. QED BY <1>1, <1>2, <1>3, StartType, WiredByCall DEF Fetched

\* A call that only goes to another point.
LEMMA MovesWired ==
  ASSUME TypeOK, Wired, NEW c \in Calls, Others(c), NEW pc \in Points,
         call'[c] = [call[c] EXCEPT !.pc = pc],
         UNCHANGED <<sess, leases, binds, bound>>,
         call[c].pc \notin Fetched, pc \notin Fetched, pc \notin {"loading", "trying"},
         pc = "cancelled" => call[c].pc = "trying",
         pc \in Bound => call[c].pc \in Bound
  PROVE  Wired'
<1>1. call[c].old = None
  BY OldNone
<1>2. /\ call'[c].pc = pc /\ call'[c].bind = call[c].bind /\ call'[c].old = call[c].old
      /\ call'[c].on = call[c].on
  BY DEF TypeOK, CallRecords
<1>3. (pc \in Bound => call[c].bind \in Made) /\ (call[c].pc = "trying" => call[c].on \in Sessions)
  BY DEF Wired
<1>4. QED BY <1>1, <1>2, <1>3, WiredByCall

\* The new binding exists, and so do all the earlier ones.
LEMMA CreateWired ==
  ASSUME TypeOK, Wired, NEW c \in Calls, NEW s \in Sessions, Create(c, s)
  PROVE  Wired'
<1> DEFINE n == leases + 1
           b == [sid |-> s, lease |-> n, cached |-> None]
<1>1. /\ binds' = [binds EXCEPT ![n] = b] /\ sess' = [sess EXCEPT ![s] = Leased(s)]
      /\ bound' = n /\ leases' = n
  BY DEF Create
<1>2. TypeOK' /\ n \in Leases /\ Others(c)
  BY CreateType
<1>3. b # NoBinding /\ b.lease = n
  BY LspAssumption, <1>2 DEF NoBinding, Leases
<1>4. Leased(s).state = "leased" /\ Leased(s).lease = n
  BY DEF Leased, TypeOK, SessionRecords
<1> HIDE DEF b
<1>5. leases \in Nat /\ n \in 1..n /\ n \in n..n
  BY DEF TypeOK
<1>6. binds'[n] = b /\ \A l \in Leases : l # n => binds'[l] = binds[l]
  BY <1>1, <1>2 DEF TypeOK
<1>7. n \in Made'
  BY <1>1, <1>3, <1>5, <1>6 DEF Made
<1>8. \A t \in Sessions : sess'[t] = sess[t] \/ (sess'[t].state = "leased" /\ sess'[t].lease = n)
  BY <1>1, <1>4 DEF TypeOK
<1>9. call'[c].pc \in Fetched /\ call'[c].fresh = n /\ call'[c].old = bound
  BY CreateType DEF Fetched
<1>10. call'[c].pc \in Bound => call'[c].bind \in Made
  <2>1. call'[c].pc \in Bound => call[c].pc \in Bound
    BY CreateType DEF Bound, Rebinding, Copying
  <2>2. QED BY <2>1, CreateType DEF Wired
<1>11. /\ call'[c].pc \in Fetched => call'[c].fresh \in Made'
       /\ call'[c].old # None => call'[c].old \in Made /\ call'[c].pc \in Fetched
       /\ call'[c].pc \notin {"loading", "trying", "cancelled"}
  BY <1>7, <1>9 DEF Wired, Fetched
<1>12. \A d \in Calls : d # c => call'[d] = call[d]
  BY <1>2 DEF Others
<1>13. QED BY <1>1, <1>3, <1>5, <1>6, <1>7, <1>8, <1>10, <1>11, <1>12, WiredStep

\* A session that is given up loses its lease.
LEMMA GivenUpSession ==
  ASSUME NEW b, NEW how \in {"free", "gone"}, GivenUp(b, how)
  PROVE  \A t \in Sessions :
           \/ sess'[t] = sess[t]
           \/ sess'[t].state \in {"free", "gone"} /\ sess'[t].lease = None
BY DEF GivenUp

\* A rebinding call overwrites its object with a later one that exists.
LEMMA ReleaseOldWired ==
  ASSUME TypeOK, Wired, CacheInv, NEW c \in Calls, ReleaseOld(c)
  PROVE  Wired'
<1> DEFINE k == call[c].bind  f == call[c].fresh
           x == [binds[f] EXCEPT !.cached = None]
<1>1. /\ TypeOK' /\ Others(c) /\ bound' = bound /\ leases' = leases
      /\ call[c].pc \in Fetched
  BY ReleaseOldType DEF ReleaseOld
<1>2. f \in Made /\ (call[c].pc \in Copying => k \in Made /\ k < f)
  BY <1>1 DEF Wired, Bound, Rebinding, CacheInv, TableOwn
<1>3. /\ f \in Leases /\ binds[f] \in BindingRecords
      /\ binds[f] # NoBinding /\ binds[f].lease \in f..leases
      /\ (call[c].pc \in Copying => k \in Leases /\ k <= leases)
  BY <1>2, MadeBinding DEF Wired, Made
<1>4. x.lease = binds[f].lease /\ x # NoBinding
  BY <1>3, LspAssumption DEF BindingRecords, NoBinding
<1>5. leases \in Nat
  BY DEF TypeOK
<1>6. call[c].pc \in Copying => k \in Nat /\ f \in Nat /\ x.lease \in k..leases
  BY <1>2, <1>3, <1>4, <1>5 DEF Leases
<1> HIDE DEF x
<1>7. \A l \in Leases : \/ binds'[l] = binds[l]
                        \/ binds'[l] # NoBinding /\ l <= leases' /\ binds'[l].lease \in l..leases'
  <2>1. CASE binds' = binds
    BY <2>1
  <2>2. CASE call[c].pc \in Copying /\ binds' = [binds EXCEPT ![k] = x]
    BY <1>1, <1>3, <1>4, <1>6, <2>2 DEF TypeOK
  <2>3. QED BY <2>1, <2>2, ReleaseOldType DEF x
<1>8. \A t \in Sessions : \/ sess'[t] = sess[t]
                          \/ sess'[t].state # "leased" /\ sess'[t].lease = None
  BY ReleaseOldType, GivenUpSession
<1>9. /\ call'[c].old = None /\ call'[c].bind \in Made
      /\ call'[c].pc \notin Fetched \cup {"loading", "trying", "cancelled"}
  BY <1>2, ReleaseOldType DEF Fetched
<1>10. QED BY <1>1, <1>7, <1>8, <1>9, WiredStep DEF Others

\* A close empties the table.
LEMMA CloseWired ==
  ASSUME TypeOK, Wired, NEW c \in Calls, NEW how \in {"free", "gone"}, Close(c, how)
  PROVE  Wired'
<1>1. TypeOK' /\ Others(c) /\ call'[c] = [call[c] EXCEPT !.pc = "done"]
  BY CloseType
<1>2. call'[c].pc = "done" /\ call'[c].old = None
  BY <1>1, OldNone DEF TypeOK, CallRecords, Close, Fetched
<1>3. binds' = binds /\ leases' = leases /\ bound' = None
  BY DEF Close
<1>4. \A t \in Sessions : \/ sess'[t] = sess[t]
                          \/ sess'[t].state # "leased" /\ sess'[t].lease = None
  BY CloseType, GivenUpSession
<1>5. call'[c].pc \notin Bound \cup Fetched \cup {"loading", "trying", "cancelled"}
  BY <1>2 DEF Bound, Rebinding, Copying, Fetched
<1>6. QED BY <1>1, <1>2, <1>3, <1>4, <1>5, WiredStep DEF Others

\* A cancelled call forgets the replaced binding.
LEMMA CancelOldWired ==
  ASSUME TypeOK, Wired, NEW c \in Calls, Cancel(c), call[c].old # None
  PROVE  Wired'
<1>1. Others(c) /\ call'[c] = [call[c] EXCEPT !.pc = "error", !.old = None]
  BY CancelOldType
<1>2. call'[c].pc = "error" /\ call'[c].old = None
  BY <1>1 DEF TypeOK, CallRecords
<1>3. binds' = binds /\ leases' = leases /\ bound' = bound
  BY DEF Cancel
<1>4. \A t \in Sessions : \/ sess'[t] = sess[t]
                          \/ sess'[t].state # "leased" /\ sess'[t].lease = None
  BY CancelOldType, GivenUpSession
<1>5. call'[c].pc \notin Bound \cup Fetched \cup {"loading", "trying", "cancelled"}
  BY <1>2 DEF Bound, Rebinding, Copying, Fetched
<1>6. QED BY <1>1, <1>2, <1>3, <1>4, <1>5, WiredStep DEF Others

\* A request for a document changes no session's lease.
LEMMA DocumentsWired ==
  ASSUME TypeOK, Wired, NEW c \in Calls, Documents(c)
  PROVE  Wired'
<1>1. call'[c].old = None /\ call[c].bind \in Made
  BY OldNone DEF Documents, Fetched, Wired, Bound
<1>2. call'[c].bind \in Made /\ call'[c].pc \notin Fetched \cup {"loading", "trying", "cancelled"}
  BY <1>1 DEF Documents, Fetched
<1>3. QED BY <1>1, <1>2, WiredStep DEF Documents, Others

\* Eviction takes no binding away.
LEMMA EvictWired ==
  ASSUME TypeOK, Wired, NEW s \in Sessions, Evict(s)
  PROVE  Wired'
<1>1. UNCHANGED <<binds, bound, call, leases>>
  BY DEF Evict
<1>2. \A t \in Sessions : \/ sess'[t] = sess[t]
                          \/ sess'[t].state # "leased" /\ sess'[t].lease = None
  BY EvictType DEF NewSession
<1>3. QED BY <1>1, <1>2, WiredStep

\* The same for the end of a load given up.
LEMMA LateWired ==
  ASSUME TypeOK, Wired, NEW s \in Sessions, Late(s)
  PROVE  Wired'
BY LateType, WiredStep

\* A lease that no binding holds: a scratch session's, or one that nobody hears of.
LEMMA UnboundWired ==
  ASSUME TypeOK, Wired, NEW c \in Calls, NEW s \in Sessions, Others(c),
         call[c].pc \notin Fetched, call'[c].old = call[c].old,
         call'[c].pc = "error" \/ (call'[c].pc = "trying" /\ call'[c].on = s),
         sess' = [sess EXCEPT ![s] = Leased(s)], leases' = leases + 1,
         binds' = binds, bound' = bound
  PROVE  Wired'
<1>1. Leased(s).state = "leased" /\ Leased(s).lease = leases + 1 /\ leases \in Nat
  BY DEF Leased, TypeOK, SessionRecords
<1>2. \A t \in Sessions : \/ sess'[t] = sess[t]
                          \/ sess'[t].state = "leased" /\ sess'[t].lease = leases + 1
  BY <1>1 DEF TypeOK
<1>3. call'[c].old = None /\ call'[c].pc \notin Bound \cup Fetched
  BY OldNone DEF Bound, Rebinding, Copying, Fetched
<1>4. QED BY <1>1, <1>2, <1>3, WiredStep DEF Others

-----------------------------------------------------------------------------
\* The points of a call with a place in the scratch pool.
Placed == {"creating", "trying", "cancelled"}

\* The scratch pool is not touched.
LEMMA ScratchKept ==
  ASSUME ScratchInv, idle' = idle, count' = count,
         \A d \in Calls : \/ call'[d] = call[d]
                          \/ call[d].pc \notin Placed /\ call'[d].pc \notin Placed,
         \A s \in Sessions : sess'[s].state = "none" => sess[s].state = "none"
  PROVE  ScratchInv'
<1>1. OnScratch' = OnScratch /\ Trying' = Trying /\ Cancelled' = Cancelled
  BY DEF OnScratch, Creating, Trying, Cancelled, Placed
<1>2. \A d \in Trying \cup Cancelled : call'[d] = call[d]
  BY DEF Trying, Cancelled, Placed
<1>3. \A s \in Sessions : Scratch(s)' => Scratch(s)
  BY <1>1, <1>2 DEF Scratch
<1>4. \A s \in Sessions : Scratch(s)' => sess'[s].state # "none"
  BY <1>3 DEF ScratchInv
<1>5. count' = Cardinality(idle') + Cardinality(OnScratch') /\ count' <= ScratchSize
  BY <1>1 DEF ScratchInv, ScratchExact, OnScratch
<1>6. \A d \in Trying' : /\ call'[d].on \notin idle'
                         /\ \A e \in Trying' : call'[d].on = call'[e].on => d = e
  BY <1>1, <1>2 DEF ScratchInv, ScratchExact
<1>7. IsFiniteSet(idle') /\ IsFiniteSet(OnScratch')
  BY <1>1 DEF ScratchInv
<1>8. QED BY <1>4, <1>5, <1>6, <1>7 DEF ScratchInv, ScratchExact, OnScratch

\* An idle session becomes the one of a candidate.
LEMMA ScratchTakeInv ==
  ASSUME TypeOK, ScratchInv, NEW c \in Calls, NEW s \in Sessions, ScratchTake(c, s)
  PROVE  ScratchInv'
<1>1. TypeOK' /\ Others(c) /\ call'[c] = [call[c] EXCEPT !.pc = "trying", !.on = s]
  BY ScratchTakeType
<1>2. call'[c].pc = "trying" /\ call'[c].on = s
  BY <1>1 DEF TypeOK, CallRecords
<1>3. /\ s \in idle /\ idle' = idle \ {s} /\ count' = count /\ sess' = sess
      /\ call[c].pc \notin Placed
  BY DEF ScratchTake, server, Placed
<1>4. /\ c \notin OnScratch /\ OnScratch' = OnScratch \cup {c}
      /\ c \notin Trying /\ Trying' = Trying \cup {c} /\ Cancelled' = Cancelled
  BY <1>1, <1>2, <1>3 DEF OnScratch, Creating, Trying, Cancelled, Others, Placed
<1>5. \A d \in Trying \cup Cancelled : call'[d] = call[d]
  BY <1>1, <1>3 DEF Others, Trying, Cancelled, Placed
<1>6. IsFiniteSet(idle') /\ Cardinality(idle') = Cardinality(idle) - 1 /\ Cardinality(idle) \in Nat
  BY <1>3, FS_RemoveElement, FS_CardinalityType DEF ScratchInv
<1>7. IsFiniteSet(OnScratch') /\ Cardinality(OnScratch') = Cardinality(OnScratch) + 1
  BY <1>4, FS_AddElement DEF ScratchInv
<1>8. Cardinality(OnScratch) \in Nat
  BY FS_CardinalityType DEF ScratchInv
<1>9. count' = Cardinality(idle') + Cardinality(OnScratch') /\ count' <= ScratchSize
  BY <1>3, <1>6, <1>7, <1>8 DEF ScratchInv, ScratchExact, OnScratch
<1>10. \A d \in Trying' : /\ call'[d].on \notin idle'
                          /\ \A e \in Trying' : call'[d].on = call'[e].on => d = e
  BY <1>2, <1>3, <1>4, <1>5 DEF ScratchInv, ScratchExact
<1>11. \A t \in Sessions : Scratch(t)' => Scratch(t)
  BY <1>2, <1>3, <1>4, <1>5 DEF Scratch
<1>12. \A t \in Sessions : Scratch(t)' => sess'[t].state # "none"
  BY <1>3, <1>11 DEF ScratchInv
<1>13. QED BY <1>6, <1>7, <1>9, <1>10, <1>12 DEF ScratchInv, ScratchExact, OnScratch

\* A place is counted before the session is created.
LEMMA ScratchMissInv ==
  ASSUME TypeOK, ScratchInv, NEW c \in Calls, ScratchMiss(c)
  PROVE  ScratchInv'
<1>1. TypeOK' /\ Others(c)
  BY ScratchMissType
<1>2. sess' = sess /\ idle' = idle /\ call[c].pc \notin Placed
  BY DEF ScratchMiss, server, Placed
<1>3. CASE call'[c] = [call[c] EXCEPT !.pc = "waiting"] /\ count' = count
  <2>1. call'[c].pc \notin Placed
    BY <1>3 DEF TypeOK, CallRecords, Placed
  <2>2. QED BY <1>1, <1>2, <1>3, <2>1, ScratchKept DEF Others
<1>4. CASE /\ call'[c] = [call[c] EXCEPT !.pc = "creating"]
           /\ count < ScratchSize /\ count' = count + 1
  <2>1. call'[c].pc = "creating"
    BY <1>4 DEF TypeOK, CallRecords
  <2>2. /\ c \notin OnScratch /\ OnScratch' = OnScratch \cup {c} /\ Trying' = Trying
        /\ Cancelled' = Cancelled
    BY <1>1, <1>2, <2>1 DEF OnScratch, Creating, Trying, Cancelled, Others, Placed
  <2>3. \A d \in Trying \cup Cancelled : call'[d] = call[d]
    BY <1>1, <1>2 DEF Others, Trying, Cancelled, Placed
  <2>4. IsFiniteSet(OnScratch') /\ Cardinality(OnScratch') = Cardinality(OnScratch) + 1
    BY <2>2, FS_AddElement DEF ScratchInv
  <2>5. Cardinality(OnScratch) \in Nat /\ Cardinality(idle) \in Nat
    BY FS_CardinalityType DEF ScratchInv
  <2>6. count' = Cardinality(idle') + Cardinality(OnScratch') /\ count' <= ScratchSize
    BY <1>2, <1>4, <2>4, <2>5, LspAssumption DEF ScratchInv, ScratchExact, OnScratch
  <2>7. QED
    BY <1>2, <2>2, <2>3, <2>4, <2>6 DEF ScratchInv, ScratchExact, OnScratch, Scratch
<1>5. QED BY <1>3, <1>4, ScratchMissType

\* The session of a place that was counted.
LEMMA ScratchCreateInv ==
  ASSUME TypeOK, ScratchInv, NEW c \in Calls, NEW s \in Sessions, ScratchCreate(c, s)
  PROVE  ScratchInv'
<1>1. TypeOK' /\ Others(c) /\ call'[c] = [call[c] EXCEPT !.pc = "trying", !.on = s]
  BY ScratchCreateType
<1>2. call'[c].pc = "trying" /\ call'[c].on = s
  BY <1>1 DEF TypeOK, CallRecords
<1>3. /\ idle' = idle /\ count' = count /\ sess' = [sess EXCEPT ![s] = Leased(s)]
      /\ call[c].pc = "creating" /\ sess[s].state = "none"
  BY DEF ScratchCreate, scratch, In
<1>4. /\ OnScratch' = OnScratch /\ Trying' = Trying \cup {c} /\ c \notin Trying
      /\ Cancelled' = Cancelled /\ c \notin Cancelled
  BY <1>1, <1>2, <1>3 DEF OnScratch, Creating, Trying, Cancelled, Others
<1>5. \A d \in Trying \cup Cancelled : call'[d] = call[d]
  BY <1>1, <1>4 DEF Others, Trying, Cancelled
<1>6. s \notin idle /\ \A d \in Trying \cup Cancelled : call[d].on # s
  BY <1>3 DEF ScratchInv, Scratch
<1>7. count' = Cardinality(idle') + Cardinality(OnScratch') /\ count' <= ScratchSize
  BY <1>3, <1>4 DEF ScratchInv, ScratchExact, OnScratch
<1>8. \A d \in Trying' : /\ call'[d].on \notin idle'
                         /\ \A e \in Trying' : call'[d].on = call'[e].on => d = e
  BY <1>2, <1>3, <1>4, <1>5, <1>6 DEF ScratchInv, ScratchExact
<1>9. \A t \in Sessions : Scratch(t)' => Scratch(t) \/ t = s
  BY <1>2, <1>3, <1>4, <1>5 DEF Scratch
<1>10. sess'[s].state = "leased" /\ \A t \in Sessions : t # s => sess'[t] = sess[t]
  BY <1>3 DEF Leased, TypeOK, SessionRecords
<1>11. \A t \in Sessions : Scratch(t)' => sess'[t].state # "none"
  BY <1>9, <1>10 DEF ScratchInv
<1>12. QED BY <1>3, <1>4, <1>7, <1>8, <1>11 DEF ScratchInv, ScratchExact, OnScratch

\* A kept session returns to the queue, a dropped one gives its place back.
LEMMA ScratchEndsInv ==
  ASSUME TypeOK, Wired, ScratchInv, NEW c \in Calls,
         ScratchCreateFails(c) \/ ScratchDone(c) \/ ScratchDrop(c)
  PROVE  ScratchInv'
<1>1. TypeOK' /\ Others(c) /\ call[c].pc \in {"creating", "trying"}
  BY ScratchEndsType
<1>2. call'[c].pc \notin Placed
  <2>1. PICK pc \in {"done", "error"} : call'[c] = [call[c] EXCEPT !.pc = pc]
    BY ScratchEndsType
  <2>2. QED BY <2>1 DEF TypeOK, CallRecords, Placed
<1>3. \A s \in Sessions : sess'[s].state = "none" => sess[s].state = "none"
  <2>1. \/ sess' = sess \/ \E s \in In({"none"}) : sess' = [sess EXCEPT ![s] = Leased(s)]
    BY ScratchEndsType DEF Unheard, server
  <2>2. \A s \in Sessions : Leased(s).state = "leased"
    BY DEF Leased, TypeOK, SessionRecords
  <2>3. QED BY <2>1, <2>2 DEF In, TypeOK
<1>4. /\ c \in OnScratch /\ OnScratch' = OnScratch \ {c} /\ Trying' = Trying \ {c}
      /\ Cancelled' = Cancelled /\ c \notin Cancelled
  BY <1>1, <1>2 DEF OnScratch, Creating, Trying, Cancelled, Others, Placed
<1>5. \A d \in Trying' \cup Cancelled : call'[d] = call[d] /\ d \in Trying \cup Cancelled
  BY <1>1, <1>4 DEF Others, Trying, Cancelled
<1>6. IsFiniteSet(OnScratch') /\ Cardinality(OnScratch') = Cardinality(OnScratch) - 1
  BY <1>4, FS_RemoveElement DEF ScratchInv
<1>7. Cardinality(OnScratch) \in Nat /\ Cardinality(idle) \in Nat /\ Cardinality(OnScratch') \in Nat
  BY <1>6, FS_CardinalityType DEF ScratchInv
<1>8. count = Cardinality(idle) + Cardinality(OnScratch) /\ count <= ScratchSize
  BY DEF ScratchInv, ScratchExact, OnScratch
<1>9. CASE ScratchDone(c)
  <2> DEFINE s == call[c].on
  <2>1. c \in Trying /\ idle' = idle \cup {s} /\ count' = count
    BY <1>9 DEF ScratchDone, Trying
  <2>2. s \notin idle /\ \A d \in Trying : call[d].on = s => d = c
    BY <2>1 DEF ScratchInv, ScratchExact
  <2>3. IsFiniteSet(idle') /\ Cardinality(idle') = Cardinality(idle) + 1
    BY <2>1, <2>2, FS_AddElement DEF ScratchInv
  <2>4. count' = Cardinality(idle') + Cardinality(OnScratch') /\ count' <= ScratchSize
    BY <1>6, <1>7, <1>8, <2>1, <2>3
  <2>5. \A d \in Trying' : /\ call'[d].on \notin idle'
                           /\ \A e \in Trying' : call'[d].on = call'[e].on => d = e
    BY <1>4, <1>5, <2>1, <2>2 DEF ScratchInv, ScratchExact
  <2>6. \A t \in Sessions : Scratch(t)' => Scratch(t)
    BY <1>4, <1>5, <2>1 DEF Scratch
  <2>7. \A t \in Sessions : Scratch(t)' => sess'[t].state # "none"
    BY <1>3, <2>6 DEF ScratchInv
  <2>8. QED BY <1>6, <2>3, <2>4, <2>5, <2>7 DEF ScratchInv, ScratchExact, OnScratch
<1>10. CASE ScratchCreateFails(c) \/ ScratchDrop(c)
  <2>1. idle' = idle
    BY <1>10 DEF ScratchCreateFails, ScratchDrop
  <2>2. count' = count - 1
    BY <1>6, <1>7, <1>8, <1>10 DEF ScratchCreateFails, ScratchDrop, TypeOK
  <2>3. count' = Cardinality(idle') + Cardinality(OnScratch') /\ count' <= ScratchSize
    BY <1>6, <1>7, <1>8, <2>1, <2>2, LspAssumption DEF TypeOK
  <2>4. \A d \in Trying' : /\ call'[d].on \notin idle'
                           /\ \A e \in Trying' : call'[d].on = call'[e].on => d = e
    BY <1>4, <1>5, <2>1 DEF ScratchInv, ScratchExact
  <2>5. \A t \in Sessions : Scratch(t)' => Scratch(t)
    BY <1>4, <1>5, <2>1 DEF Scratch
  <2>6. \A t \in Sessions : Scratch(t)' => sess'[t].state # "none"
    BY <1>3, <2>5 DEF ScratchInv
  <2>7. QED BY <1>6, <2>1, <2>3, <2>4, <2>6 DEF ScratchInv, ScratchExact, OnScratch
<1>11. QED BY <1>9, <1>10

\* A cancelled candidate keeps its place, and its session is given to nobody else.
LEMMA CancelScratch ==
  ASSUME TypeOK, Wired, ScratchInv, NEW c \in Calls, Cancel(c), call[c].old = None
  PROVE  ScratchInv'
<1>1. TypeOK' /\ Others(c) /\ sess' = sess
  BY CancelType
<1>2. idle' = idle /\ count' = count
  BY DEF Cancel, scratch
<1>3. CASE call[c].pc \in {"lock", "waiting"} /\ call'[c] = [call[c] EXCEPT !.pc = "error"]
  <2>1. call[c].pc \notin Placed /\ call'[c].pc \notin Placed
    BY <1>3 DEF TypeOK, CallRecords, Placed
  <2>2. QED BY <1>1, <1>2, <2>1, ScratchKept DEF Others
<1>4. CASE call[c].pc = "trying" /\ call'[c] = [call[c] EXCEPT !.pc = "cancelled"]
  <2>1. call'[c].pc = "cancelled" /\ call'[c].on = call[c].on
    BY <1>4 DEF TypeOK, CallRecords
  <2>2. OnScratch' = OnScratch /\ Trying' = Trying \ {c} /\ Cancelled' = Cancelled \cup {c}
    BY <1>1, <1>4, <2>1 DEF OnScratch, Creating, Trying, Cancelled, Others
  <2>3. \A d \in Calls : call'[d].on = call[d].on
    BY <1>1, <2>1 DEF Others
  <2>4. c \in Trying
    BY <1>4 DEF Trying
  <2>5. \A t \in Sessions : Scratch(t)' => Scratch(t)
    BY <1>2, <2>2, <2>3, <2>4 DEF Scratch, Trying, Cancelled
  <2>6. \A t \in Sessions : Scratch(t)' => sess'[t].state # "none"
    BY <1>1, <2>5 DEF ScratchInv
  <2>7. \A d \in Trying' : /\ call'[d].on \notin idle'
                           /\ \A e \in Trying' : call'[d].on = call'[e].on => d = e
    <3>1. \A d \in Trying' : d \in Trying /\ d \in Calls
      BY <2>2 DEF Trying
    <3>2. QED BY <1>2, <2>3, <3>1 DEF ScratchInv, ScratchExact
  <2>8. QED BY <1>2, <2>2, <2>6, <2>7 DEF ScratchInv, ScratchExact, OnScratch
<1>5. QED BY <1>3, <1>4, CancelType

-----------------------------------------------------------------------------
\* The moves of a call that leave the sessions, the bindings and the table alone.
Move(c) == \/ \E t \in Tools : Start(c, t)
           \/ Read(c) \/ Lock(c) \/ LoadBegins(c) \/ ScratchMiss(c)
           \/ \E s \in Sessions : ScratchTake(c, s)
           \/ ScratchDone(c) \/ ScratchDrop(c)
           \/ Cancel(c) /\ call[c].old = None
           \/ (CreateFails(c) \/ ScratchCreateFails(c)) /\ UNCHANGED <<sess, leases, lost>>

\* What a move keeps.
LEMMA MoveKeeps ==
  ASSUME TypeOK, Wired, ScratchInv, NEW c \in Calls, Move(c)
  PROVE  /\ TypeOK' /\ Others(c) /\ UNCHANGED <<sess, leases, binds, bound, lost>>
         /\ call[c].pc \notin Fetched \cup {"loading"}
<1>1. CASE Cancel(c) /\ call[c].old = None
  BY <1>1, CancelType DEF Cancel, Fetched
<1>2. CASE ~(Cancel(c) /\ call[c].old = None)
  <2>1. /\ UNCHANGED <<sess, leases, binds, bound, lost>>
        /\ call[c].pc \notin Fetched \cup {"loading"}
    BY <1>2 DEF Move, Start, CreateFails, Read, Lock, LoadBegins, ScratchMiss, ScratchTake,
           ScratchCreateFails, ScratchDone, ScratchDrop, server, Fetched
  <2>2. TypeOK' /\ Others(c)
    BY <1>2, StartType, CreateFailsType, ReadType, LockType, LoadBeginsType, ScratchMissType,
       ScratchTakeType, ScratchEndsType DEF Move
  <2>3. QED BY <2>1, <2>2
<1>3. QED BY <1>1, <1>2

\* After a move the call refers to a binding that exists.
LEMMA MoveWired ==
  ASSUME TypeOK, Wired, ScratchInv, NEW c \in Calls, Move(c)
  PROVE  Wired'
<1>1. TypeOK' /\ Others(c) /\ UNCHANGED <<sess, leases, binds, bound>> /\ call[c].pc \notin Fetched
  BY MoveKeeps
<1>2. CASE \E t \in Tools : Start(c, t)
  BY <1>2, StartWired
<1>3. CASE CreateFails(c)
  <2>1. call'[c] = [call[c] EXCEPT !.pc = "error"]
    BY <1>3, CreateFailsType
  <2>2. "error" \in Points \ (Bound \cup Fetched)
    BY DEF Points, Bound, Rebinding, Copying, Fetched
  <2>3. QED BY <1>1, <2>1, <2>2, MovesWired
<1>4. CASE Read(c)
  <2>1. /\ call'[c].pc \in {"lock", "error"} /\ call'[c].bind = call[c].bind
        /\ call'[c].old = call[c].old
    <3>1. call[c] \in CallRecords
      BY DEF TypeOK
    <3>2. QED BY <1>4, <3>1, ReadType DEF CallRecords
  <2>2. call[c].bind \in Made
    BY <1>4 DEF Read, Wired, Bound
  <2>3. QED BY <1>1, <2>1, <2>2, OldNone, WiredByCall DEF Fetched
<1>5. CASE Lock(c)
  <2>1. PICK pc \in {"scratch", "query", "load"} : call'[c] = [call[c] EXCEPT !.pc = pc]
    BY <1>5, LockType
  <2>2. /\ pc \in Points /\ pc \notin Fetched \cup {"loading", "trying", "cancelled"}
        /\ call[c].pc \in Bound
    BY <1>5 DEF Points, Fetched, Bound, Lock
  <2>3. QED BY <1>1, <2>1, <2>2, MovesWired
<1>6. CASE LoadBegins(c)
  <2>1. /\ call'[c].bind = call[c].bind /\ call'[c].old = call[c].old
        /\ \/ call'[c].pc = "loading" /\ call'[c].on = Mine(c).sid
           \/ call'[c].pc \in {"relock", "error"}
    <3>1. call[c] \in CallRecords
      BY DEF TypeOK
    <3>2. QED BY <1>6, <3>1, LoadBeginsType DEF CallRecords
  <2>2. call[c].bind \in Made /\ Mine(c).sid \in Sessions
    BY <1>6, MadeBinding DEF LoadBegins, Wired, Bound, Mine
  <2>3. QED BY <1>1, <2>1, <2>2, OldNone, WiredByCall DEF Fetched
<1>7. CASE ScratchMiss(c)
  <2>1. PICK pc \in {"creating", "waiting"} : call'[c] = [call[c] EXCEPT !.pc = pc]
    BY <1>7, ScratchMissType
  <2>2. /\ pc \in Points \ (Bound \cup Fetched) /\ pc \notin {"loading", "trying", "cancelled"}
    BY DEF Points, Fetched, Bound, Rebinding, Copying
  <2>3. QED BY <1>1, <2>1, <2>2, MovesWired
<1>8. CASE \E s \in Sessions : ScratchTake(c, s)
  <2>1. PICK s \in Sessions : call'[c] = [call[c] EXCEPT !.pc = "trying", !.on = s]
    BY <1>8, ScratchTakeType
  <2>2. call'[c].pc = "trying" /\ call'[c].on = s /\ call'[c].old = call[c].old
    BY <2>1 DEF TypeOK, CallRecords
  <2>3. QED BY <1>1, <2>2, OldNone, WiredByCall DEF Fetched, Bound, Rebinding, Copying
<1>9. CASE ScratchCreateFails(c) \/ ScratchDone(c) \/ ScratchDrop(c)
  <2>1. PICK pc \in {"done", "error"} : call'[c] = [call[c] EXCEPT !.pc = pc]
    BY <1>9, ScratchEndsType
  <2>2. /\ pc \in Points \ (Bound \cup Fetched) /\ pc \notin {"loading", "trying", "cancelled"}
    BY DEF Points, Fetched, Bound, Rebinding, Copying
  <2>3. QED BY <1>1, <2>1, <2>2, MovesWired
<1>10. CASE Cancel(c) /\ call[c].old = None
  <2>1. PICK pc \in {"error", "cancelled"} :
          call'[c] = [call[c] EXCEPT !.pc = pc] /\ (pc = "cancelled" => call[c].pc = "trying")
    BY <1>10, CancelType
  <2>2. /\ pc \in Points \ (Bound \cup Fetched) /\ pc \notin {"loading", "trying"}
    BY DEF Points, Fetched, Bound, Rebinding, Copying
  <2>3. QED BY <1>1, <2>1, <2>2, MovesWired
<1>11. QED BY <1>2, <1>3, <1>4, <1>5, <1>6, <1>7, <1>8, <1>9, <1>10 DEF Move

\* A move takes, returns, counts and drops scratch sessions so that the pool stays exact.
LEMMA MoveScratch ==
  ASSUME TypeOK, Wired, ScratchInv, NEW c \in Calls, Move(c)
  PROVE  ScratchInv'
<1>1. TypeOK' /\ Others(c) /\ sess' = sess
  BY MoveKeeps
<1>2. ASSUME idle' = idle, count' = count, call[c].pc \notin Placed, call'[c].pc \notin Placed
      PROVE  ScratchInv'
  BY <1>1, <1>2, ScratchKept DEF Others
<1>3. CASE \E t \in Tools : Start(c, t)
  BY <1>2, <1>3, StartType DEF Start, scratch, Placed
<1>4. CASE CreateFails(c)
  <2>1. call'[c].pc = "error"
    BY <1>4, CreateFailsType DEF TypeOK, CallRecords
  <2>2. QED BY <1>2, <1>4, <2>1 DEF CreateFails, scratch, Placed
<1>5. CASE Read(c)
  <2>1. call'[c].pc \in {"lock", "error"}
    <3>1. call[c] \in CallRecords
      BY DEF TypeOK
    <3>2. \/ call'[c] = [call[c] EXCEPT !.text = file, !.pc = "lock"]
          \/ call'[c] = [call[c] EXCEPT !.pc = "error"]
      BY <1>5, ReadType
    <3>3. QED BY <3>1, <3>2 DEF CallRecords
  <2>2. call[c].pc = "read" /\ scratch' = scratch
    BY <1>5 DEF Read
  <2>3. idle' = idle /\ count' = count
    BY <2>2 DEF scratch
  <2>4. call[c].pc \notin Placed /\ call'[c].pc \notin Placed
    BY <2>1, <2>2 DEF Placed
  <2>5. QED BY <1>2, <2>3, <2>4
<1>6. CASE Lock(c)
  <2>1. call'[c].pc \in {"scratch", "query", "load"}
    BY <1>6, LockType DEF TypeOK, CallRecords
  <2>2. QED BY <1>2, <1>6, <2>1 DEF Lock, scratch, Placed
<1>7. CASE LoadBegins(c)
  <2>1. call'[c].pc \in {"loading", "relock", "error"}
    BY <1>7, LoadBeginsType DEF TypeOK, CallRecords
  <2>2. QED BY <1>2, <1>7, <2>1 DEF LoadBegins, scratch, Placed
<1>8. QED
  BY <1>3, <1>4, <1>5, <1>6, <1>7, ScratchMissInv, ScratchTakeInv, ScratchEndsInv, CancelScratch
  DEF Move

\* The steps that acquire, load, change or give up sessions for bindings leave the pool alone.
LEMMA CreateScratch ==
  ASSUME TypeOK, ScratchInv, NEW c \in Calls, NEW s \in Sessions, Create(c, s)
  PROVE  ScratchInv'
<1>1. TypeOK' /\ Others(c) /\ call'[c].pc \in {"opened", "rebound", "relocked"}
  BY CreateType
<1>2. /\ idle' = idle /\ count' = count /\ call[c].pc \in {"open", "rebind", "relock"}
      /\ sess' = [sess EXCEPT ![s] = Leased(s)]
  BY DEF Create, scratch
<1>3. Leased(s).state = "leased"
  BY DEF Leased, TypeOK, SessionRecords
<1>4. \A t \in Sessions : sess'[t].state = "none" => sess[t].state = "none"
  BY <1>2, <1>3 DEF TypeOK
<1>5. QED BY <1>1, <1>2, <1>4, ScratchKept DEF Others, Placed

\* A creation that nobody hears of, the same.
LEMMA UnheardScratch ==
  ASSUME TypeOK, Wired, ScratchInv, NEW c \in Calls, CreateFails(c)
  PROVE  ScratchInv'
<1>1. TypeOK' /\ Others(c)
  BY CreateFailsType
<1>2. call'[c].pc = "error" /\ call[c].pc \in {"open", "rebind", "relock"}
  BY CreateFailsType DEF TypeOK, CallRecords, CreateFails
<1>3. idle' = idle /\ count' = count
  BY DEF CreateFails, scratch
<1>4. sess' = sess \/ \E s \in Sessions : sess' = [sess EXCEPT ![s] = Leased(s)]
  BY DEF CreateFails, Unheard, server, In
<1>5. \A s \in Sessions : Leased(s).state = "leased"
  BY DEF Leased, TypeOK, SessionRecords
<1>6. \A t \in Sessions : sess'[t].state = "none" => sess[t].state = "none"
  BY <1>4, <1>5 DEF TypeOK
<1>7. QED BY <1>1, <1>2, <1>3, <1>6, ScratchKept DEF Others, Placed

\* A given up session is free or gone.
LEMMA ReleaseOldScratch ==
  ASSUME TypeOK, Wired, ScratchInv, NEW c \in Calls, ReleaseOld(c)
  PROVE  ScratchInv'
<1>1. Others(c) /\ call[c].pc \notin Placed /\ call'[c].pc \notin Placed
  BY ReleaseOldType DEF Fetched, Placed
<1>2. idle' = idle /\ count' = count
  BY DEF ReleaseOld, scratch
<1>3. \A t \in Sessions : sess'[t].state = "none" => sess[t].state = "none"
  BY ReleaseOldType, GivenUpSession
<1>4. QED BY <1>1, <1>2, <1>3, ScratchKept DEF Others

\* The same for a close and a cancelled release.
LEMMA CloseScratch ==
  ASSUME TypeOK, Wired, ScratchInv, NEW c \in Calls,
         (\E how \in {"free", "gone"} : Close(c, how)) \/ (Cancel(c) /\ call[c].old # None)
  PROVE  ScratchInv'
<1>1. Others(c) /\ call[c].pc \notin Placed
  BY CloseType, CancelOldType DEF Close, Fetched, Placed
<1>2. call'[c].pc \notin Placed
  <2>1. \/ call'[c] = [call[c] EXCEPT !.pc = "done"]
        \/ call'[c] = [call[c] EXCEPT !.pc = "error", !.old = None]
    BY CloseType, CancelOldType
  <2>2. QED BY <2>1 DEF TypeOK, CallRecords, Placed
<1>3. idle' = idle /\ count' = count
  BY DEF Close, Cancel, scratch
<1>4. \A t \in Sessions : sess'[t].state = "none" => sess[t].state = "none"
  <2>1. CASE \E how \in {"free", "gone"} : Close(c, how)
    BY <2>1, CloseType, GivenUpSession
  <2>2. CASE Cancel(c) /\ call[c].old # None
    BY <2>2, CancelOldType, GivenUpSession
  <2>3. QED BY <2>1, <2>2
<1>5. QED BY <1>1, <1>2, <1>3, <1>4, ScratchKept DEF Others

\* A load or a tool's own request changes documents only.
LEMMA DocumentsScratch ==
  ASSUME TypeOK, ScratchInv, NEW c \in Calls, Documents(c)
  PROVE  ScratchInv'
BY ScratchKept DEF Documents, Others, Placed

\* An evicted session stays in the pool and is found to be gone when it is used.
LEMMA EvictScratch ==
  ASSUME TypeOK, ScratchInv, NEW s \in Sessions, Evict(s) \/ Late(s)
  PROVE  ScratchInv'
<1>1. idle' = idle /\ count' = count /\ call' = call
  BY DEF Evict, Late, scratch
<1>2. \A t \in Sessions : sess'[t].state = "none" => sess[t].state = "none"
  BY EvictType, LateType DEF NewSession
<1>3. QED BY <1>1, <1>2, ScratchKept

-----------------------------------------------------------------------------
\* A binding whose session is gone holds no lease: whoever rebinds it loses nothing.
LEMMA GoneHoldsNothing ==
  ASSUME LeaseInv, NEW l, l \in Made, Gone(binds[l])
  PROVE  \A s \in Alive : sess[s].lease # l
BY DEF LeaseInv, Pooled, Missed, Owned, Gone, Alive, Made

\* A leased session holds a lease that was given out.
LEMMA AliveLease ==
  ASSUME TypeOK, Wired
  PROVE  \A t \in Alive : t \in Sessions /\ sess[t].lease \in Leases /\ sess[t].lease \in 1..leases
<1>1. 1..leases \subseteq Leases
  BY LspAssumption DEF TypeOK, Leases
<1>2. \A t \in Alive : sess[t].lease \in 1..leases
  BY DEF Wired, Alive
<1>3. QED BY <1>1, <1>2 DEF Alive

\* A session that stays leased stays with a holder, and a new lease has one.
LEMMA LeaseStep ==
  ASSUME TypeOK, Wired, LeaseInv, lost \subseteq lost',
         \A t \in Alive' : t \in Alive =>
           /\ sess'[t].lease = sess[t].lease
           /\ Scratch(t) => Scratch(t)'
           /\ Owned(t) => sess[t].lease \in Kept'
           /\ (binds'[sess[t].lease] = NoBinding) = (binds[sess[t].lease] = NoBinding)
           /\ binds'[sess[t].lease].sid = binds[sess[t].lease].sid
           /\ binds'[sess[t].lease].lease = binds[sess[t].lease].lease,
         \A t \in Alive' : t \notin Alive =>
           sess'[t].lease = leases + 1 /\ (Pooled(t)' \/ Missed(t)' \/ Owned(t)'),
         \A t, u \in Alive' : t \notin Alive /\ u \notin Alive => t = u,
         \A d \in Calls : call'[d].pc \in Rebinding
                            => \A t \in Alive' : sess'[t].lease # call'[d].bind
  PROVE  LeaseInv'
<1>1. leases \in Nat /\ \A t \in Alive : sess[t].lease \in 1..leases
  BY AliveLease DEF TypeOK
<1>2. ASSUME NEW t \in Alive', NEW u \in Alive', sess'[t].lease = sess'[u].lease PROVE t = u
  <2>1. CASE t \in Alive /\ u \in Alive
    BY <1>2, <2>1 DEF LeaseInv
  <2>2. CASE t \notin Alive /\ u \notin Alive
    BY <2>2
  <2>3. CASE t \in Alive /\ u \notin Alive
    BY <1>1, <1>2, <2>3
  <2>4. CASE t \notin Alive /\ u \in Alive
    BY <1>1, <1>2, <2>4
  <2>5. QED BY <2>1, <2>2, <2>3, <2>4
<1>3. ASSUME NEW t \in Alive' PROVE Pooled(t)' \/ Missed(t)' \/ Owned(t)'
  <2>1. CASE t \notin Alive
    BY <2>1
  <2>2. CASE t \in Alive /\ Pooled(t)
    BY <2>2 DEF Pooled, Alive
  <2>3. CASE t \in Alive /\ Missed(t)
    BY <2>3 DEF Missed
  <2>4. CASE t \in Alive /\ Owned(t)
    BY <2>4 DEF Owned
  <2>5. QED BY <2>1, <2>2, <2>3, <2>4 DEF LeaseInv
<1>4. QED BY <1>2, <1>3 DEF LeaseInv

\* A call steps, and the leases stay.
LEMMA LeaseKept ==
  ASSUME TypeOK, Wired, LeaseInv, NEW c \in Calls, Others(c),
         UNCHANGED <<bound, binds, sess, lost>>, call'[c].old = call[c].old,
         \A s \in Sessions : Scratch(s) => Scratch(s)' \/ s \notin Alive,
         call'[c].pc \in Rebinding => \A s \in Alive : sess[s].lease # call'[c].bind
  PROVE  LeaseInv'
<1>1. Alive' = Alive
  BY DEF Alive
<1>2. Kept \subseteq Kept'
  BY DEF Kept, Others
<1>3. \A d \in Calls : call'[d].pc \in Rebinding => \A s \in Alive' : sess'[s].lease # call'[d].bind
  BY <1>1 DEF LeaseInv, Others
<1>4. \A t \in Alive : (Scratch(t) => Scratch(t)') /\ (Owned(t) => sess[t].lease \in Kept')
  BY <1>2 DEF Alive, Owned
<1>5. QED BY <1>1, <1>3, <1>4, LeaseStep

\* A move outside the scratch pool.
LEMMA OutsideLease ==
  ASSUME TypeOK, Wired, LeaseInv, NEW c \in Calls, Others(c), idle' = idle,
         UNCHANGED <<sess, binds, bound, lost>>, NEW pc, call'[c].pc = pc,
         call[c].pc \notin {"trying", "cancelled"}, call'[c].old = call[c].old,
         pc \in Rebinding => call'[c].bind \in Made /\ Gone(binds[call'[c].bind])
  PROVE  LeaseInv'
<1>1. \A s \in Sessions : Scratch(s) => Scratch(s)'
  BY DEF Scratch, Others, Trying, Cancelled
<1>2. call'[c].pc \in Rebinding => \A s \in Alive : sess[s].lease # call'[c].bind
  BY GoneHoldsNothing
<1>3. QED BY <1>1, <1>2, LeaseKept

\* A move keeps every lease with its holder; a scratch session passes between the queue
\* and the candidate that runs on it.
LEMMA MoveLease ==
  ASSUME TypeOK, Wired, ScratchInv, LeaseInv, NEW c \in Calls, Move(c)
  PROVE  LeaseInv'
<1>1. TypeOK' /\ Others(c) /\ UNCHANGED <<sess, leases, binds, bound, lost>> /\ call[c] \in CallRecords
  BY MoveKeeps DEF TypeOK
<1>2. CASE \E t \in Tools : Start(c, t)
  BY <1>1, <1>2, StartType, OutsideLease DEF Start, scratch, Rebinding, Copying
<1>3. CASE CreateFails(c)
  <2>1. call'[c].pc = "error" /\ call'[c].old = call[c].old
    BY <1>1, <1>3, CreateFailsType DEF CallRecords
  <2>2. QED BY <1>1, <1>3, <2>1, OutsideLease DEF CreateFails, scratch, Rebinding, Copying
<1>4. CASE Read(c)
  <2>1. call'[c].pc \in {"lock", "error"} /\ call'[c].old = call[c].old
    BY <1>1, <1>4, ReadType DEF CallRecords
  <2>2. QED BY <1>1, <1>4, <2>1, OutsideLease DEF Read, scratch, Rebinding, Copying
<1>5. CASE Lock(c)
  <2>1. call'[c].pc \in {"scratch", "query", "load"} /\ call'[c].old = call[c].old
    BY <1>1, <1>5, LockType DEF CallRecords
  <2>2. QED BY <1>1, <1>5, <2>1, OutsideLease DEF Lock, scratch, Rebinding, Copying
<1>6. CASE LoadBegins(c)
  <2>1. /\ call'[c].old = call[c].old /\ call'[c].bind = call[c].bind
        /\ call'[c].pc \in {"loading", "error"} \/ (call'[c].pc = "relock" /\ Gone(Mine(c)))
    BY <1>1, <1>6, LoadBeginsType DEF CallRecords
  <2>2. /\ call[c].bind \in Made /\ idle' = idle /\ call[c].pc \notin {"trying", "cancelled"}
    BY <1>6 DEF LoadBegins, Wired, Bound, scratch
  <2>3. call'[c].pc \in Rebinding => Gone(Mine(c))
    BY <2>1 DEF Rebinding, Copying
  <2>4. QED BY <1>1, <2>1, <2>2, <2>3, OutsideLease DEF Mine
<1>7. CASE ScratchMiss(c)
  <2>1. call'[c].pc \in {"creating", "waiting"} /\ call'[c].old = call[c].old
    BY <1>1, <1>7, ScratchMissType DEF CallRecords
  <2>2. QED BY <1>1, <1>7, <2>1, OutsideLease DEF ScratchMiss, Rebinding, Copying
<1>8. CASE \E s \in Sessions : ScratchTake(c, s)
  <2>1. PICK s \in Sessions : ScratchTake(c, s)
    BY <1>8
  <2>2. call'[c].pc = "trying" /\ call'[c].on = s /\ call'[c].old = call[c].old
    BY <1>1, <2>1, ScratchTakeType DEF CallRecords
  <2>3. idle' = idle \ {s} /\ call[c].pc \notin {"trying", "cancelled"}
    BY <2>1 DEF ScratchTake
  <2>4. \A t \in Sessions : Scratch(t) => Scratch(t)'
    BY <1>1, <2>2, <2>3 DEF Scratch, Others, Trying, Cancelled
  <2>5. QED BY <1>1, <2>2, <2>4, LeaseKept DEF Rebinding, Copying
<1>9. CASE ScratchCreateFails(c) \/ ScratchDone(c) \/ ScratchDrop(c)
  <2>1. call'[c].pc \in {"done", "error"} /\ call'[c].old = call[c].old
    BY <1>1, <1>9, ScratchEndsType DEF CallRecords
  <2>2. \A t \in Sessions : Scratch(t) => Scratch(t)' \/ t \notin Alive
    BY <1>1, <1>9, <2>1 DEF Scratch, Others, Trying, Cancelled, ScratchCreateFails, ScratchDone,
                             ScratchDrop, Alive
  <2>3. QED BY <1>1, <2>1, <2>2, LeaseKept DEF Rebinding, Copying
<1>10. CASE Cancel(c) /\ call[c].old = None
  <2>1. /\ call'[c].old = call[c].old /\ call'[c].on = call[c].on
        /\ call'[c].pc \in {"error", "cancelled"}
        /\ call[c].pc \in {"lock", "waiting"} \/ (call[c].pc = "trying" /\ call'[c].pc = "cancelled")
    BY <1>1, <1>10, CancelType DEF CallRecords
  <2>2. idle' = idle
    BY <1>10 DEF Cancel, scratch
  <2>3. \A t \in Sessions : Scratch(t) => Scratch(t)'
    BY <1>1, <2>1, <2>2 DEF Scratch, Others, Trying, Cancelled
  <2>4. QED BY <1>1, <2>1, <2>3, LeaseKept DEF Rebinding, Copying
<1>11. QED BY <1>2, <1>3, <1>4, <1>5, <1>6, <1>7, <1>8, <1>9, <1>10 DEF Move

\* A release or a close ends the lease, or the lease is lost.
LEMMA GivenUpLease ==
  ASSUME TypeOK, NEW o \in Leases, binds[o] \in BindingRecords, NEW how \in {"free", "gone"},
         GivenUp(binds[o], how)
  PROVE  /\ Alive' \subseteq Alive /\ \A t \in Alive' : sess'[t].lease = sess[t].lease
         /\ \A t \in Alive' : Owned(t) /\ sess[t].lease = o => o \in lost'
         /\ lost \subseteq lost'
<1>1. Alive' \subseteq Alive /\ \A t \in Alive' : sess'[t].lease = sess[t].lease
  BY DEF GivenUp, Alive
<1>2. ASSUME NEW t \in Alive', Owned(t), sess[t].lease = o PROVE o \in lost'
  <2>1. Ours(binds[o]) /\ binds[o].sid = t /\ binds[o].lease = o
    BY <1>1, <1>2 DEF Owned, Ours, Alive
  <2>2. sess'[t].state # how
    BY <1>2 DEF Alive
  <2>3. QED BY <2>1, <2>2 DEF GivenUp
<1>3. QED BY <1>1, <1>2 DEF GivenUp

\* A replaced binding's session is released: its lease ends, or it is on record as lost.
\* The object that a rebinding call overwrites held no lease any more.
LEMMA ReleaseOldLease ==
  ASSUME TypeOK, Wired, LeaseInv, NEW c \in Calls, ReleaseOld(c)
  PROVE  LeaseInv'
<1> DEFINE o == call[c].old
<1>1. /\ Others(c) /\ bound' = bound /\ idle' = idle /\ call[c].pc \in Fetched
      /\ call'[c].pc \notin Rebinding
  BY ReleaseOldType DEF ReleaseOld, scratch, Rebinding, Copying
<1>2. o # None => o \in Leases /\ binds[o] \in BindingRecords
  BY MadeBinding DEF Wired
<1>3. /\ Alive' \subseteq Alive /\ \A t \in Alive' : sess'[t].lease = sess[t].lease
      /\ \A t \in Alive' : Owned(t) /\ o # None /\ sess[t].lease = o => o \in lost'
      /\ lost \subseteq lost'
  <2>1. CASE o = None
    BY <2>1, ReleaseOldType DEF Alive
  <2>2. CASE o # None
    BY <1>2, <2>2, ReleaseOldType, GivenUpLease
  <2>3. QED BY <2>1, <2>2
<1>4. \A t \in Alive' : Owned(t) => sess[t].lease \in Kept'
  BY <1>1, <1>3, LspAssumption DEF Owned, Kept, Others, Leases
<1>5. \A t \in Alive' : binds'[sess[t].lease] = binds[sess[t].lease]
  <2>1. CASE binds' = binds
    BY <2>1
  <2>2. CASE /\ call[c].pc \in Copying
             /\ binds' = [binds EXCEPT ![call[c].bind] = [binds[call[c].fresh] EXCEPT !.cached = None]]
    <3>1. \A t \in Alive' : sess[t].lease # call[c].bind
      BY <1>3, <2>2 DEF LeaseInv, Rebinding
    <3>2. \A t \in Alive' : sess[t].lease \in Leases
      BY <1>3, AliveLease
    <3>3. QED BY <2>2, <3>1, <3>2 DEF TypeOK
  <2>3. QED BY <2>1, <2>2, ReleaseOldType
<1>6. \A t \in Sessions : Scratch(t) => Scratch(t)'
  BY <1>1 DEF Scratch, Others, Trying, Cancelled, Fetched
<1>7. \A d \in Calls : call'[d].pc \in Rebinding => \A t \in Alive' : sess'[t].lease # call'[d].bind
  BY <1>1, <1>3 DEF LeaseInv, Others
<1>8. \A t \in Alive' : t \in Alive /\ t \in Sessions
  BY <1>3 DEF Alive
<1>9. QED BY <1>3, <1>4, <1>5, <1>6, <1>7, <1>8, LeaseStep

\* close_binding drops the binding in the table in the same way, a cancelled call the one it
\* was about to release.
LEMMA CloseLease ==
  ASSUME TypeOK, Wired, LeaseInv, NEW c \in Calls,
         (\E how \in {"free", "gone"} : Close(c, how)) \/ (Cancel(c) /\ call[c].old # None)
  PROVE  LeaseInv'
<1> DEFINE o == IF Cancel(c) /\ call[c].old # None THEN call[c].old ELSE bound
<1>1. /\ Others(c) /\ binds' = binds /\ idle' = idle /\ call[c].pc \notin {"trying", "cancelled"}
  BY CloseType, CancelOldType DEF Close, Cancel, scratch, Fetched
<1>2. /\ call'[c].pc \in {"done", "error"}
      /\ \A l \in Leases : (bound = l \/ call[c].old = l) /\ l # o
                             => bound' = l \/ call'[c].old = l
  <2>1. call[c] \in CallRecords
    BY DEF TypeOK
  <2>2. CASE Cancel(c) /\ call[c].old # None
    <3>1. call'[c] = [call[c] EXCEPT !.pc = "error", !.old = None] /\ bound' = bound
      BY <2>2, CancelOldType DEF Cancel
    <3>2. QED BY <2>1, <2>2, <3>1 DEF CallRecords
  <2>3. CASE ~(Cancel(c) /\ call[c].old # None)
    <3>1. call'[c] = [call[c] EXCEPT !.pc = "done"]
      BY <2>3, CloseType
    <3>2. QED BY <2>1, <2>3, <3>1 DEF CallRecords
  <2>4. QED BY <2>2, <2>3
<1>3. o # None => o \in Leases /\ binds[o] \in BindingRecords
  BY MadeBinding DEF Wired
<1>4. IF o = None THEN sess' = sess /\ lost' = lost
      ELSE \E how \in {"free", "gone"} : GivenUp(binds[o], how)
  <2>1. CASE Cancel(c) /\ call[c].old # None
    BY <2>1, CancelOldType
  <2>2. CASE ~(Cancel(c) /\ call[c].old # None)
    BY <2>2, CloseType
  <2>3. QED BY <2>1, <2>2
<1> HIDE DEF o
<1>5. /\ Alive' \subseteq Alive /\ \A t \in Alive' : sess'[t].lease = sess[t].lease
      /\ \A t \in Alive' : Owned(t) /\ o # None /\ sess[t].lease = o => o \in lost'
      /\ lost \subseteq lost'
  <2>1. CASE o = None
    BY <1>4, <2>1 DEF Alive
  <2>2. CASE o # None
    BY <1>3, <1>4, <2>2, GivenUpLease
  <2>3. QED BY <2>1, <2>2
<1>6. \A t \in Alive' : Owned(t) => sess[t].lease \in Kept'
  <2> SUFFICES ASSUME NEW t \in Alive', Owned(t) PROVE sess[t].lease \in Kept'
    OBVIOUS
  <2> DEFINE l == sess[t].lease
  <2>1. l \in Kept /\ l \in Leases
    BY DEF Owned, Kept
  <2>2. l = o => l \in Kept'
    BY <1>5, <2>1, LspAssumption DEF Kept, Leases
  <2>3. l \in lost => l \in Kept'
    BY <1>5, <2>1 DEF Kept
  <2>4. l # o => l \in Kept'
    BY <1>1, <1>2, <2>1, <2>3 DEF Kept, Others
  <2>5. QED BY <2>2, <2>4
<1>7. \A t \in Sessions : Scratch(t) => Scratch(t)'
  BY <1>1 DEF Scratch, Others, Trying, Cancelled
<1>8. \A d \in Calls : call'[d].pc \in Rebinding => \A t \in Alive' : sess'[t].lease # call'[d].bind
  <2>1. \A d \in Calls : call'[d].pc \in Rebinding => d # c /\ call'[d] = call[d]
    BY <1>1, <1>2 DEF Others, Rebinding, Copying
  <2>2. QED BY <1>5, <2>1 DEF LeaseInv
<1>9. \A t \in Alive' : t \in Alive /\ t \in Sessions
  BY <1>5 DEF Alive
<1>10. QED BY <1>1, <1>5, <1>6, <1>7, <1>8, <1>9, LeaseStep

\* A session that is leased now was free, and its lease is a new one.
LEMMA LeasedNow ==
  ASSUME TypeOK, Wired, NEW s \in Sessions, s \notin Alive, sess' = [sess EXCEPT ![s] = Leased(s)]
  PROVE  /\ Alive' = Alive \cup {s} /\ sess'[s].lease = leases + 1
         /\ sess'[s].late = sess[s].late
         /\ \A t \in Sessions : t # s => sess'[t] = sess[t]
         /\ \A t \in Alive : /\ t # s /\ sess[t].lease # leases + 1 /\ sess[t].lease \in Leases
         /\ \A l \in Made : l # leases + 1
         /\ leases + 1 \in Leases => binds[leases + 1] = NoBinding
<1>1. /\ Leased(s).state = "leased" /\ Leased(s).lease = leases + 1 /\ Leased(s).late = sess[s].late
  BY DEF Leased, TypeOK, SessionRecords
<1>2. leases \in Nat
  BY DEF TypeOK
<1>3. sess'[s] = Leased(s) /\ \A t \in Sessions : t # s => sess'[t] = sess[t]
  BY DEF TypeOK
<1>4. Alive' = Alive \cup {s}
  BY <1>1, <1>3 DEF Alive
<1>5. \A t \in Alive : /\ t # s /\ sess[t].lease # leases + 1 /\ sess[t].lease \in Leases
  BY <1>2, AliveLease
<1>6. \A l \in Made : l # leases + 1
  BY <1>2 DEF Made
<1>7. leases + 1 \in Leases => binds[leases + 1] = NoBinding
  BY <1>2 DEF Wired
<1>8. QED BY <1>1, <1>3, <1>4, <1>5, <1>6, <1>7

\* A new lease belongs to the binding in the table; the one that was there is the caller's to
\* release.
LEMMA CreateLease ==
  ASSUME TypeOK, Wired, LeaseInv, NEW c \in Calls, NEW s \in Sessions, Create(c, s)
  PROVE  LeaseInv'
<1> DEFINE n == leases + 1
           b == [sid |-> s, lease |-> n, cached |-> None]
<1>1. /\ binds' = [binds EXCEPT ![n] = b] /\ sess' = [sess EXCEPT ![s] = Leased(s)]
      /\ bound' = n /\ lost' = lost /\ idle' = idle
      /\ s \notin Alive /\ call[c].pc \in {"open", "rebind", "relock"}
  BY DEF Create, scratch, In, Alive
<1>2. n \in Leases /\ Others(c) /\ call'[c].old = bound /\ call'[c].bind = call[c].bind
  BY CreateType
<1>3. b # NoBinding /\ b.lease = n /\ b.sid = s
  BY LspAssumption, <1>2 DEF NoBinding, Leases
<1> HIDE DEF b
<1>4. /\ Alive' = Alive \cup {s} /\ sess'[s].lease = n
      /\ \A t \in Alive : sess'[t] = sess[t] /\ sess[t].lease # n /\ sess[t].lease \in Leases
  BY <1>1, LeasedNow DEF Alive
<1>5. \A t \in Alive : binds'[sess[t].lease] = binds[sess[t].lease]
  BY <1>1, <1>4 DEF TypeOK
<1>6. binds'[n] = b
  BY <1>1, <1>2 DEF TypeOK
<1>7. Kept \subseteq Kept' /\ n \in Kept'
  BY <1>1, <1>2, OldNone, LspAssumption DEF Kept, Others, Leases, Fetched
<1>8. \A t \in Alive : (Scratch(t) => Scratch(t)') /\ (Owned(t) => sess[t].lease \in Kept')
  BY <1>1, <1>2, <1>7 DEF Scratch, Others, Trying, Cancelled, Owned
<1>9. Owned(s)'
  BY <1>3, <1>4, <1>6, <1>7 DEF Owned
<1>10. ASSUME NEW d \in Calls, call'[d].pc \in Rebinding
       PROVE  \A t \in Alive' : sess'[t].lease # call'[d].bind
  <2>1. call[d].pc \in Rebinding /\ call'[d].bind = call[d].bind
    <3>1. CASE d # c
      BY <1>2, <1>10, <3>1 DEF Others
    <3>2. CASE d = c
      BY <1>2, <1>10, <3>2, CreateType DEF Rebinding, Copying
    <3>3. QED BY <3>1, <3>2
  <2>2. call[d].bind \in Made
    BY <2>1 DEF Wired, Bound
  <2>3. call[d].bind # n
    BY <1>1, <2>2, LeasedNow
  <2>4. QED BY <1>4, <2>1, <2>3 DEF LeaseInv
<1>11. QED BY <1>1, <1>4, <1>5, <1>8, <1>9, <1>10, LeaseStep

\* A lease that no binding holds belongs to a candidate, or is lost.
LEMMA UnboundLease ==
  ASSUME TypeOK, Wired, LeaseInv, NEW c \in Calls, NEW s \in Sessions, Others(c), s \notin Alive,
         call[c].pc \notin {"trying", "cancelled"}, call'[c].old = call[c].old,
         \/ call'[c].pc = "error" /\ leases + 1 \in lost'
         \/ call'[c].pc = "trying" /\ call'[c].on = s,
         sess' = [sess EXCEPT ![s] = Leased(s)], leases + 1 \in Leases, lost \subseteq lost',
         binds' = binds, bound' = bound, idle' = idle
  PROVE  LeaseInv'
<1> DEFINE n == leases + 1
<1>1. /\ Alive' = Alive \cup {s} /\ sess'[s].lease = n /\ binds[n] = NoBinding
      /\ \A t \in Alive : sess'[t] = sess[t] /\ sess[t].lease # n /\ sess[t].lease \in Leases
      /\ \A l \in Made : l # n
  BY LeasedNow DEF Alive
<1>2. Kept \subseteq Kept'
  BY DEF Kept, Others
<1>3. \A d \in Trying \cup Cancelled : call'[d] = call[d] /\ d \in Trying' \cup Cancelled'
  BY DEF Others, Trying, Cancelled
<1>4. \A t \in Alive : (Scratch(t) => Scratch(t)') /\ (Owned(t) => sess[t].lease \in Kept')
  BY <1>2, <1>3 DEF Scratch, Owned
<1>5. Pooled(s)' \/ Missed(s)'
  <2>1. CASE call'[c].pc = "error" /\ n \in lost'
    BY <1>1, <2>1 DEF Missed
  <2>2. CASE call'[c].pc = "trying" /\ call'[c].on = s
    <3>1. Scratch(s)'
      BY <2>2 DEF Scratch, Trying
    <3>2. QED BY <1>1, <3>1 DEF Pooled
  <2>3. QED BY <2>1, <2>2
<1>6. ASSUME NEW d \in Calls, call'[d].pc \in Rebinding
      PROVE  \A t \in Alive' : sess'[t].lease # call'[d].bind
  <2>1. call'[c].pc \notin Rebinding
    BY DEF Rebinding, Copying
  <2>2. call'[d] = call[d]
    BY <1>6, <2>1 DEF Others
  <2>3. call[d].bind \in Made
    BY <1>6, <2>2 DEF Wired, Bound
  <2>4. QED BY <1>1, <1>6, <2>2, <2>3 DEF LeaseInv
<1>7. QED BY <1>1, <1>4, <1>5, <1>6, LeaseStep

\* A load or a request of a tool changes documents and the cache, not who holds what.
LEMMA DocumentsLease ==
  ASSUME TypeOK, Wired, LeaseInv, NEW c \in Calls, Documents(c)
  PROVE  LeaseInv'
<1>1. Alive' = Alive /\ \A t \in Sessions : Scratch(t) => Scratch(t)'
  BY DEF Documents, Alive, Scratch, Others, Trying, Cancelled
<1>2. Kept \subseteq Kept'
  BY DEF Kept, Others, Documents
<1>3. \A t \in Alive : Owned(t) => sess[t].lease \in Kept'
  BY <1>2 DEF Owned
<1>4. call'[c].pc \in Rebinding => call'[c].bind \in Made /\ Gone(binds[call'[c].bind])
  BY DEF Documents, Rebinding, Copying, Wired, Bound, Mine
<1>5. \A d \in Calls : call'[d].pc \in Rebinding => \A t \in Alive : sess[t].lease # call'[d].bind
  BY <1>4, GoneHoldsNothing DEF LeaseInv, Others, Documents
<1>6. \A t \in Alive : t \in Sessions /\ sess[t].lease \in Leases
  BY AliveLease
<1>7. QED BY <1>1, <1>3, <1>5, <1>6, LeaseStep DEF Documents

\* An evicted session is leased to nobody; a load given up changes a document.
LEMMA EvictLease ==
  ASSUME TypeOK, Wired, LeaseInv, NEW s \in Sessions, Evict(s) \/ Late(s)
  PROVE  LeaseInv'
<1>1. UNCHANGED <<binds, bound, call, idle, lost>>
  BY DEF Evict, Late, scratch
<1>2. \A t \in Sessions : \/ sess'[t].state = sess[t].state /\ sess'[t].lease = sess[t].lease
                          \/ sess'[t].state # "leased"
  BY EvictType, LateType DEF NewSession
<1>3. Alive' \subseteq Alive /\ \A t \in Alive' : sess'[t].lease = sess[t].lease
  BY <1>2 DEF Alive
<1>4. \A t \in Alive' : (Scratch(t) => Scratch(t)') /\ (Owned(t) => sess[t].lease \in Kept')
  BY <1>1 DEF Scratch, Trying, Cancelled, Owned, Kept
<1>5. \A d \in Calls : call'[d].pc \in Rebinding => \A t \in Alive' : sess'[t].lease # call'[d].bind
  BY <1>1, <1>3 DEF LeaseInv
<1>6. QED BY <1>1, <1>3, <1>4, <1>5, LeaseStep

-----------------------------------------------------------------------------
\* The binding in the table stays its own object unless it is the one that is overwritten.
LEMMA TableKept ==
  ASSUME TypeOK, Wired, TableOwn, bound' \in {bound, None},
         bound' # None => binds'[bound].lease = binds[bound].lease /\ binds'[bound] # NoBinding,
         \A d \in Calls : call'[d].pc \in Copying => call'[d] = call[d]
  PROVE  TableOwn'
<1>1. \A d \in Calls : call[d].pc \in Copying => call[d].bind # None
  BY MadeBinding, LspAssumption DEF Wired, Bound, Rebinding, Leases
<1>2. bound' # None => binds'[bound'] # NoBinding /\ binds'[bound'].lease = bound'
  BY DEF TableOwn, Own
<1>3. \A d \in Calls : call'[d].pc \in Copying => call'[d].bind # bound' /\ call'[d].bind < call'[d].fresh
  BY <1>1 DEF TableOwn
<1>4. QED BY <1>2, <1>3 DEF TableOwn, Own

\* A loading call refers to a binding object.
LEMMA LoadingBinding ==
  ASSUME TypeOK, Wired, NEW d \in Calls, call[d].pc = "loading"
  PROVE  /\ call[d].bind \in Leases /\ call[d].bind \in Made /\ call[d].on \in Sessions
         /\ binds[call[d].bind] # NoBinding /\ binds[call[d].bind].sid \in Sessions
BY MadeBinding DEF Wired, Bound, Made

\* A step that begins no load and caches no text leaves the cached texts true: what it changes
\* otherwise is spoilt, no longer leased or not bound yet.
LEMMA CacheStep ==
  ASSUME TypeOK, Wired, CacheInv, TableOwn', spoilt \subseteq spoilt',
         \A l \in Leases :
           \/ binds'[l] = binds[l]
           \/ binds'[l].lease # l /\ \A t \in Alive : sess[t].lease # l
           \/ binds[l] = NoBinding /\ binds'[l].cached = None,
         \A t \in Sessions :
           \/ sess'[t] = sess[t]
           \/ t \in spoilt'
           \/ sess'[t].state # "leased" /\ ~Loading(t) /\ sess'[t].late \in {None, sess[t].late}
           \/ t \notin Alive /\ sess'[t].lease = leases + 1 /\ sess'[t].late = sess[t].late,
         \A d \in Calls :
           \/ call'[d] = call[d]
           \/ call'[d].pc # "loading" /\ (call[d].pc = "loading" => call[d].on \in spoilt')
  PROVE  CacheInv'
<1>1. ASSUME NEW d \in Calls, call'[d].pc = "loading"
      PROVE  /\ Own(call[d].bind)' => call'[d].on = Mine(d)'.sid
             /\ call'[d].on \notin spoilt' =>
                  /\ call'[d].on \in Alive' /\ sess'[call'[d].on].lease = call'[d].bind
                  /\ Own(call[d].bind)'
                  /\ \A e \in Calls : call'[e].pc = "loading" /\ call'[e].on = call'[d].on => e = d
  <2> DEFINE k == call[d].bind  u == call[d].on
  <2>1. call'[d] = call[d] /\ call[d].pc = "loading"
    BY <1>1
  <2>2. k \in Leases /\ u \in Sessions /\ binds[k] # NoBinding
    BY <2>1, LoadingBinding
  <2>3. binds'[k] = binds[k] \/ (binds'[k].lease # k /\ \A t \in Alive : sess[t].lease # k)
    BY <2>2
  <2>4. Own(k)' => call'[d].on = Mine(d)'.sid
    BY <2>1, <2>3 DEF CacheInv, LoadsInv, Own, Mine
  <2>5. ASSUME u \notin spoilt'
        PROVE  /\ u \in Alive' /\ sess'[u].lease = k /\ Own(k)'
               /\ \A e \in Calls : call'[e].pc = "loading" /\ call'[e].on = u => e = d
    <3>1. /\ u \in Alive /\ sess[u].lease = k /\ Own(k)
          /\ \A e \in Calls : call[e].pc = "loading" /\ call[e].on = u => e = d
      BY <2>1, <2>5 DEF CacheInv, LoadsInv
    <3>2. sess'[u] = sess[u]
      BY <2>1, <2>2, <2>5, <3>1 DEF Loading
    <3>3. binds'[k] = binds[k]
      BY <2>3, <3>1
    <3>4. \A e \in Calls : call'[e].pc = "loading" => call'[e] = call[e]
      OBVIOUS
    <3>5. Own(k)'
      BY <2>1, <3>1, <3>3 DEF Own
    <3>6. QED BY <3>1, <3>2, <3>4, <3>5 DEF Alive
  <2>6. call'[d].on = u /\ call'[d].bind = k
    BY <2>1
  <2>7. call'[d].on \notin spoilt' =>
          /\ call'[d].on \in Alive' /\ sess'[call'[d].on].lease = call'[d].bind
          /\ Own(k)'
          /\ \A e \in Calls : call'[e].pc = "loading" /\ call'[e].on = call'[d].on => e = d
    BY <2>5, <2>6
  <2>8. QED BY <2>4, <2>7
<1>2. LoadsInv'
  <2>1. \A d \in Calls : call'[d].pc = "loading" => call'[d] = call[d]
    OBVIOUS
  <2>2. QED BY <1>1, <2>1 DEF LoadsInv
<1>3. \A t \in Sessions : sess'[t].late # None => t \in spoilt'
  BY DEF CacheInv, TextsInv
<1>4. ASSUME NEW l \in Leases, Own(l)', binds'[l].cached # None, Ours(binds[l])',
             Settled(binds[l].sid)', binds'[l].sid \notin spoilt'
      PROVE  sess'[binds'[l].sid].doc = binds'[l].cached
  <2> DEFINE u == binds[l].sid
  <2>1. binds'[l] = binds[l] /\ binds[l] # NoBinding /\ binds[l].lease = l
    BY <1>4 DEF Own
  <2>2. u \in Sessions /\ l <= leases /\ l \in Nat /\ leases \in Nat
    BY <2>1, MadeBinding DEF Wired, Made, TypeOK, BindingRecords, Leases
  <2>3. sess'[u].state = "leased" /\ sess'[u].lease = l /\ u \notin spoilt'
    BY <1>4, <2>1 DEF Ours
  <2>4. sess'[u] = sess[u]
    BY <2>2, <2>3
  <2>5. ASSUME NEW d \in Calls, call[d].pc = "loading" PROVE call[d].on # u
    BY <1>4, <2>1, <2>3, <2>5 DEF Settled
  <2>6. Own(l) /\ Ours(binds[l]) /\ Settled(u) /\ u \notin spoilt /\ binds[l].cached # None
    BY <1>4, <2>1, <2>3, <2>4, <2>5 DEF Own, Ours, Settled
  <2>7. sess[u].doc = binds[l].cached
    BY <2>6 DEF CacheInv, TextsInv
  <2>8. QED BY <2>1, <2>4, <2>7
<1>5. TextsInv'
  BY <1>3, <1>4 DEF TextsInv
<1>6. QED BY <1>2, <1>5 DEF CacheInv

\* A move that begins no load.
LEMMA MoveCache ==
  ASSUME TypeOK, Wired, ScratchInv, CacheInv, NEW c \in Calls, Move(c), ~LoadBegins(c)
  PROVE  CacheInv'
<1>1. /\ Others(c) /\ UNCHANGED <<sess, leases, binds, bound>> /\ call[c].pc # "loading"
      /\ call[c] \in CallRecords
  BY MoveKeeps DEF TypeOK
<1>2. spoilt' = spoilt
  BY DEF Move, Start, Read, Lock, ScratchMiss, ScratchTake, ScratchDone, ScratchDrop, Cancel,
         CreateFails, ScratchCreateFails
<1>3. call'[c].pc \notin Copying \cup {"loading"}
  <2>1. CASE \E t \in Tools : Start(c, t)
    BY <2>1, StartType DEF Copying
  <2>2. CASE Read(c) \/ Lock(c)
    BY <1>1, <2>2, ReadType, LockType DEF CallRecords, Copying
  <2>3. CASE \E s \in Sessions : ScratchTake(c, s)
    <3>1. PICK s \in Sessions : call'[c] = [call[c] EXCEPT !.pc = "trying", !.on = s]
      BY <2>3, ScratchTakeType
    <3>2. QED BY <1>1, <3>1 DEF CallRecords, Copying
  <2>4. CASE ScratchMiss(c) \/ ScratchDone(c) \/ ScratchDrop(c) \/ ScratchCreateFails(c)
    BY <1>1, <2>4, ScratchMissType, ScratchEndsType DEF CallRecords, Copying
  <2>5. CASE CreateFails(c) \/ (Cancel(c) /\ call[c].old = None)
    BY <1>1, <2>5, CreateFailsType, CancelType DEF CallRecords, Copying
  <2>6. QED BY <2>1, <2>2, <2>3, <2>4, <2>5 DEF Move
<1>4. \A d \in Calls : call'[d] = call[d] \/ (call'[d].pc # "loading" /\ call[d].pc # "loading")
  BY <1>1, <1>3 DEF Others
<1>5. bound # None => binds[bound] # NoBinding
  BY DEF CacheInv, TableOwn, Own
<1>6. \A d \in Calls : call'[d].pc \in Copying => call'[d] = call[d]
  BY <1>1, <1>3 DEF Others
<1>7. TableOwn'
  BY <1>1, <1>5, <1>6, TableKept DEF CacheInv
<1>8. QED BY <1>1, <1>2, <1>4, <1>7, CacheStep

\* A load begins: nothing is claimed of its session until it ends, and if it runs alone and
\* through the binding that holds the lease, the session is not spoilt any more.
LEMMA LoadBeginsCache ==
  ASSUME TypeOK, Wired, CacheInv, NEW c \in Calls, LoadBegins(c)
  PROVE  CacheInv'
<1> DEFINE k == call[c].bind  u == Mine(c).sid
<1>1. /\ Others(c) /\ UNCHANGED <<sess, leases, binds, bound>> /\ call[c].pc # "loading"
      /\ call[c] \in CallRecords /\ k \in Made
  BY LoadBeginsType DEF LoadBegins, server, TypeOK, Wired, Bound
<1>2. k \in Leases /\ u \in Sessions /\ Mine(c) = binds[k] /\ binds[k] # NoBinding
  BY <1>1, MadeBinding DEF Made, Mine
<1>3. call'[c].pc \notin Copying
  BY <1>1, LoadBeginsType DEF CallRecords, Copying
<1>4. TableOwn'
  <2>1. bound # None => binds[bound] # NoBinding
    BY DEF CacheInv, TableOwn, Own
  <2>2. \A d \in Calls : call'[d].pc \in Copying => call'[d] = call[d]
    BY <1>1, <1>3 DEF Others
  <2>3. QED BY <1>1, <2>1, <2>2, TableKept DEF CacheInv
<1>5. CASE spoilt' = spoilt /\ \E pc \in {"relock", "error"} : call'[c] = [call[c] EXCEPT !.pc = pc]
  <2>1. call'[c].pc # "loading"
    BY <1>1, <1>5 DEF CallRecords
  <2>2. \A d \in Calls : call'[d] = call[d] \/ (call'[d].pc # "loading" /\ call[d].pc # "loading")
    BY <1>1, <2>1 DEF Others
  <2>3. QED BY <1>1, <1>4, <1>5, <2>2, CacheStep
<1>6. CASE /\ Ours(Mine(c)) /\ call'[c] = [call[c] EXCEPT !.pc = "loading", !.on = u]
           /\ spoilt' = IF Alone(c) THEN spoilt \ {u} ELSE spoilt \cup {u}
  <2>1. call'[c].pc = "loading" /\ call'[c].on = u /\ call'[c].bind = k
    BY <1>1, <1>6 DEF CallRecords
  <2>2. u \in Alive /\ sess[u].lease = binds[k].lease
    BY <1>2, <1>6 DEF Ours, Alive
  <2>3. u \notin spoilt' => /\ sess[u].lease = k /\ Own(k) /\ sess[u].late = None
                            /\ \A d \in Calls : call[d].pc = "loading" => call[d].on # u
    BY <1>2, <1>6, <2>2 DEF Alone, Own, Loading
  <2>4. \A t \in Sessions : t # u => (t \in spoilt' <=> t \in spoilt)
    BY <1>6
  <2>5. ASSUME NEW d \in Calls, d # c, call'[d].pc = "loading"
        PROVE  /\ Own(call[d].bind)' => call'[d].on = Mine(d)'.sid
               /\ call'[d].on \notin spoilt' =>
                    /\ call'[d].on \in Alive' /\ sess'[call'[d].on].lease = call'[d].bind
                    /\ Own(call[d].bind)'
                    /\ \A e \in Calls : call'[e].pc = "loading" /\ call'[e].on = call'[d].on => e = d
    <3>1. call'[d] = call[d] /\ call[d].on \in Sessions
      BY <1>1, <2>5, LoadingBinding DEF Others
    <3>2. Own(call[d].bind)' => call'[d].on = Mine(d)'.sid
      BY <1>1, <2>5, <3>1 DEF CacheInv, LoadsInv, Own, Mine
    <3>3. ASSUME call[d].on \notin spoilt'
          PROVE  /\ call[d].on \in Alive' /\ sess'[call[d].on].lease = call[d].bind
                 /\ Own(call[d].bind)'
                 /\ \A e \in Calls : call'[e].pc = "loading" /\ call'[e].on = call[d].on => e = d
      <4>1. call[d].on # u /\ call[d].on \notin spoilt
        BY <2>3, <2>4, <2>5, <3>1, <3>3
      <4>2. /\ call[d].on \in Alive /\ sess[call[d].on].lease = call[d].bind
            /\ Own(call[d].bind)
            /\ \A e \in Calls : call[e].pc = "loading" /\ call[e].on = call[d].on => e = d
        BY <2>5, <3>1, <4>1 DEF CacheInv, LoadsInv
      <4>3. \A e \in Calls : call'[e].pc = "loading" /\ call'[e].on = call[d].on => e = d
        BY <1>1, <2>1, <4>1, <4>2 DEF Others
      <4>4. QED BY <1>1, <3>1, <4>2, <4>3 DEF Alive, Own
    <3>4. QED BY <3>1, <3>2, <3>3
  <2>6. /\ call'[c].on = Mine(c)'.sid
        /\ call'[c].on \notin spoilt' =>
             /\ call'[c].on \in Alive' /\ sess'[call'[c].on].lease = call'[c].bind
             /\ Own(call[c].bind)'
             /\ \A e \in Calls : call'[e].pc = "loading" /\ call'[e].on = call'[c].on => e = c
    <3>1. Mine(c)' = binds[k]
      BY <1>1, <2>1 DEF Mine
    <3>2. Alive' = Alive /\ (Own(k) => Own(call[c].bind)')
      BY <1>1, <2>1 DEF Alive, Own
    <3>3. u \notin spoilt' => \A e \in Calls : call'[e].pc = "loading" /\ call'[e].on = u => e = c
      BY <1>1, <2>3 DEF Others
    <3>4. QED BY <1>1, <1>2, <2>1, <2>2, <2>3, <3>1, <3>2, <3>3
  <2>7. LoadsInv'
    BY <2>1, <2>5, <2>6 DEF LoadsInv
  <2>8. \A t \in Sessions : sess'[t].late # None => t \in spoilt'
    BY <1>1, <2>3, <2>4 DEF CacheInv, TextsInv
  <2>9. ASSUME NEW l \in Leases, Own(l)', binds'[l].cached # None, Ours(binds[l])',
               Settled(binds[l].sid)', binds'[l].sid \notin spoilt'
        PROVE  sess'[binds'[l].sid].doc = binds'[l].cached
    <3>1. binds'[l] = binds[l] /\ Own(l) /\ Ours(binds[l]) /\ binds[l].sid \in Sessions
      BY <1>1, <2>9, MadeBinding DEF Own, Ours, Wired, TypeOK, BindingRecords
    <3>2. \A d \in Calls : call'[d].pc = "loading" => call'[d].on # binds[l].sid
      BY <2>9, <3>1 DEF Settled
    <3>3. binds[l].sid # u
      BY <2>1, <3>2
    <3>4. Settled(binds[l].sid)
      BY <1>1, <3>2 DEF Settled, Others
    <3>5. binds[l].sid \notin spoilt
      BY <2>4, <2>9, <3>1, <3>3
    <3>6. sess[binds[l].sid].doc = binds[l].cached
      BY <2>9, <3>1, <3>4, <3>5 DEF CacheInv, TextsInv
    <3>7. QED BY <1>1, <3>6
  <2>10. TextsInv'
    BY <2>8, <2>9 DEF TextsInv
  <2>11. QED BY <1>4, <2>7, <2>10 DEF CacheInv
<1>7. QED BY <1>5, <1>6, LoadBeginsType

\* A load ends: its binding caches the text that it put there; a session whose text was
\* discarded is spoilt.
LEMMA LoadEndsCache ==
  ASSUME TypeOK, Wired, CacheInv, NEW c \in Calls, LoadEnds(c)
  PROVE  CacheInv'
<1> DEFINE k == call[c].bind  u == call[c].on  x == call[c].text
<1>1. /\ Others(c) /\ call[c].pc = "loading" /\ binds' = [binds EXCEPT ![k].cached = x]
      /\ bound' = bound /\ call'[c].pc \in {"scratch", "query"}
  BY LoadEndsType DEF LoadEnds, Loaded, Documents
<1>2. PICK d0 \in {None, x} : /\ sess' = [sess EXCEPT ![u].doc = d0]
                              /\ spoilt' = spoilt \cup IF d0 = None THEN {u} ELSE {}
  BY DEF LoadEnds, Loaded
<1>3. k \in Leases /\ u \in Sessions /\ binds[k] \in BindingRecords
  BY LoadEndsType DEF Mine
<1>4. /\ sess'[u].state = sess[u].state /\ sess'[u].lease = sess[u].lease
      /\ sess'[u].late = sess[u].late /\ sess'[u].doc = d0
      /\ \A t \in Sessions : t # u => sess'[t] = sess[t]
  BY <1>2, <1>3 DEF TypeOK, SessionRecords
<1>5. /\ binds'[k].cached = x /\ binds'[k].sid = binds[k].sid /\ binds'[k].lease = binds[k].lease
      /\ \A l \in Leases : l # k => binds'[l] = binds[l]
  BY <1>1, <1>3 DEF TypeOK, BindingRecords
<1>6. binds'[k] # NoBinding /\ binds[k] # NoBinding /\ binds[k].sid \in Sessions
  BY <1>3, <1>5, LspAssumption DEF NoBinding, BindingRecords
<1>7. \A l \in Leases : /\ Own(l)' <=> Own(l)
                        /\ binds'[l].sid = binds[l].sid /\ binds'[l].lease = binds[l].lease
  BY <1>5, <1>6 DEF Own
<1>8. \A t \in Sessions : sess'[t].state = sess[t].state /\ sess'[t].lease = sess[t].lease
                          /\ sess'[t].late = sess[t].late
  BY <1>4
<1>9. Alive' = Alive
  BY <1>8 DEF Alive
<1>10. \A d \in Calls : d # c => call'[d] = call[d]
  BY <1>1 DEF Others
<1>11. TableOwn'
  <2>1. bound # None => bound \in Leases
    BY DEF TypeOK
  <2>2. bound # None => binds'[bound].lease = binds[bound].lease /\ binds'[bound] # NoBinding
    BY <1>5, <1>6, <2>1 DEF CacheInv, TableOwn, Own
  <2>3. \A d \in Calls : call'[d].pc \in Copying => call'[d] = call[d]
    BY <1>1, <1>10 DEF Copying
  <2>4. QED BY <1>1, <2>2, <2>3, TableKept DEF CacheInv
<1>12. ASSUME NEW d \in Calls, call'[d].pc = "loading"
       PROVE  /\ Own(call[d].bind)' => call'[d].on = Mine(d)'.sid
              /\ call'[d].on \notin spoilt' =>
                   /\ call'[d].on \in Alive' /\ sess'[call'[d].on].lease = call'[d].bind
                   /\ Own(call[d].bind)'
                   /\ \A e \in Calls : call'[e].pc = "loading" /\ call'[e].on = call'[d].on => e = d
  <2>1. call'[d] = call[d] /\ d # c
    BY <1>1, <1>10, <1>12
  <2>2. call[d].bind \in Leases /\ call[d].on \in Sessions
    BY <1>12, <2>1, LoadingBinding
  <2>3. Own(call[d].bind)' <=> Own(call[d].bind)
    BY <1>7, <2>1, <2>2 DEF Own
  <2>4. Mine(d)'.sid = Mine(d).sid
    BY <1>7, <2>1, <2>2 DEF Mine
  <2>5. Own(call[d].bind)' => call'[d].on = Mine(d)'.sid
    BY <1>12, <2>1, <2>3, <2>4 DEF CacheInv, LoadsInv
  <2>6. ASSUME call[d].on \notin spoilt'
        PROVE  /\ call[d].on \in Alive' /\ sess'[call[d].on].lease = call[d].bind
               /\ Own(call[d].bind)'
               /\ \A e \in Calls : call'[e].pc = "loading" /\ call'[e].on = call[d].on => e = d
    <3>1. call[d].on \notin spoilt
      BY <1>2, <2>6
    <3>2. /\ call[d].on \in Alive /\ sess[call[d].on].lease = call[d].bind /\ Own(call[d].bind)
          /\ \A e \in Calls : call[e].pc = "loading" /\ call[e].on = call[d].on => e = d
      BY <1>12, <2>1, <3>1 DEF CacheInv, LoadsInv
    <3>3. \A e \in Calls : call'[e].pc = "loading" => call'[e] = call[e]
      BY <1>1, <1>10
    <3>4. QED BY <1>8, <1>9, <2>2, <2>3, <3>2, <3>3
  <2>7. QED BY <2>1, <2>5, <2>6
<1>13. LoadsInv'
  BY <1>12 DEF LoadsInv
<1>14. \A t \in Sessions : sess'[t].late # None => t \in spoilt'
  BY <1>2, <1>8 DEF CacheInv, TextsInv
<1>15. ASSUME NEW l \in Leases, Own(l)', binds'[l].cached # None, Ours(binds[l])',
              Settled(binds[l].sid)', binds'[l].sid \notin spoilt'
       PROVE  sess'[binds'[l].sid].doc = binds'[l].cached
  <2> DEFINE v == binds[l].sid
  <2>1. Own(l) /\ binds'[l].sid = v /\ v \in Sessions /\ v \notin spoilt' /\ v \notin spoilt
    <3>1. Own(l) /\ binds'[l].sid = v
      BY <1>7, <1>15
    <3>2. v \in Sessions
      BY <1>3, <3>1 DEF Own, TypeOK, BindingRecords
    <3>3. QED BY <1>2, <1>15, <3>1, <3>2
  <2>2. Ours(binds[l]) /\ sess[v].state = "leased" /\ sess[v].lease = l
    BY <1>7, <1>8, <1>15, <2>1 DEF Ours, Own
  <2>3. CASE l = k
    <3>1. u = v
      BY <1>1, <2>1, <2>3 DEF CacheInv, LoadsInv, Mine
    <3>2. d0 = x
      BY <1>2, <2>1, <3>1
    <3>3. QED BY <1>4, <1>5, <2>1, <2>3, <3>1, <3>2
  <2>4. CASE l # k
    <3>1. u # v
      <4>1. u = v => sess[u].lease = k
        BY <1>1, <2>1 DEF CacheInv, LoadsInv
      <4>2. QED BY <2>2, <2>4, <4>1
    <3>2. ASSUME NEW d \in Calls, call[d].pc = "loading" PROVE call[d].on # v
      BY <1>10, <1>15, <2>1, <3>1, <3>2 DEF Settled
    <3>3. Settled(v)
      BY <3>2 DEF Settled
    <3>4. binds'[l] = binds[l] /\ sess'[v] = sess[v]
      BY <1>4, <1>5, <2>1, <2>4, <3>1
    <3>5. sess[v].doc = binds[l].cached
      BY <1>15, <2>1, <2>2, <3>3, <3>4 DEF CacheInv, TextsInv
    <3>6. QED BY <3>4, <3>5
  <2>5. QED BY <2>3, <2>4
<1>16. TextsInv'
  BY <1>14, <1>15 DEF TextsInv
<1>17. QED BY <1>11, <1>13, <1>16 DEF CacheInv

\* A load that failed, and a request that retracts text, spoil the session.
LEMMA SpoiltCache ==
  ASSUME TypeOK, Wired, CacheInv, NEW c \in Calls, LoadFails(c) \/ Query(c) \/ QueryFails(c)
  PROVE  CacheInv'
<1>1. Documents(c) /\ binds' = binds /\ call'[c].pc \in {"done", "error", "rebind"}
  BY LoadFailsType, QueryType
<1>2. spoilt \subseteq spoilt' /\ (call[c].pc = "loading" => call[c].on \in spoilt')
  BY QueryType DEF LoadFails
<1>3. \A t \in Sessions : sess'[t] = sess[t] \/ t \in spoilt'
  BY LoadFailsType, QueryType DEF LoadFails
<1>4. \A d \in Calls : d # c => call'[d] = call[d]
  BY <1>1 DEF Documents, Others
<1>5. TableOwn'
  <2>1. bound # None => binds[bound] # NoBinding
    BY DEF CacheInv, TableOwn, Own
  <2>2. \A d \in Calls : call'[d].pc \in Copying => call'[d] = call[d]
    BY <1>1, <1>4 DEF Copying
  <2>3. QED BY <1>1, <2>1, <2>2, TableKept DEF CacheInv, Documents
<1>6. \A d \in Calls : \/ call'[d] = call[d]
                       \/ call'[d].pc # "loading" /\ (call[d].pc = "loading" => call[d].on \in spoilt')
  BY <1>1, <1>2, <1>4
<1>7. QED BY <1>1, <1>2, <1>3, <1>5, <1>6, CacheStep

\* A replaced binding is released; a rebinding call's object becomes a copy of a later one, which
\* no alive session is leased to.
LEMMA ReleaseOldCache ==
  ASSUME TypeOK, Wired, LeaseInv, CacheInv, NEW c \in Calls, ReleaseOld(c)
  PROVE  CacheInv'
<1> DEFINE k == call[c].bind  f == call[c].fresh
           x == [binds[f] EXCEPT !.cached = None]
<1>1. /\ Others(c) /\ call[c].pc \in Fetched /\ call'[c].pc \notin Copying \cup {"loading"}
      /\ bound' = bound /\ spoilt' = spoilt
  BY ReleaseOldType DEF ReleaseOld, Copying
<1>2. f \in Made /\ f \in Leases /\ binds[f] \in BindingRecords /\ binds[f].lease \in f..leases
  BY <1>1, MadeBinding DEF Wired, Made
<1>3. x.lease = binds[f].lease
  BY <1>2 DEF BindingRecords
<1>4. call[c].pc \in Copying =>
        /\ k \in Leases /\ k < f /\ k # bound /\ \A t \in Alive : sess[t].lease # k
  BY MadeBinding DEF Wired, Bound, Rebinding, CacheInv, TableOwn, LeaseInv
<1>5. call[c].pc \in Copying => x.lease # k
  BY <1>2, <1>3, <1>4 DEF Leases
<1> HIDE DEF x
<1>6. \A l \in Leases :
        binds'[l] = binds[l] \/ (l # bound /\ binds'[l].lease # l /\ \A t \in Alive : sess[t].lease # l)
  <2>1. CASE binds' = binds
    BY <2>1
  <2>2. CASE call[c].pc \in Copying /\ binds' = [binds EXCEPT ![k] = x]
    BY <1>4, <1>5, <2>2 DEF TypeOK
  <2>3. QED BY <2>1, <2>2, ReleaseOldType DEF x
<1>7. \A t \in Sessions : \/ sess'[t] = sess[t]
                          \/ sess'[t].state # "leased" /\ ~Loading(t) /\ sess'[t].late = sess[t].late
  BY ReleaseOldType DEF GivenUp
<1>8. TableOwn'
  <2>1. bound # None => bound \in Leases /\ binds[bound] # NoBinding
    BY DEF CacheInv, TableOwn, Own, TypeOK
  <2>2. bound # None => binds'[bound] = binds[bound]
    BY <1>6, <2>1
  <2>3. \A d \in Calls : call'[d].pc \in Copying => call'[d] = call[d]
    BY <1>1 DEF Others
  <2>4. QED BY <1>1, <2>1, <2>2, <2>3, TableKept DEF CacheInv
<1>9. \A d \in Calls : call'[d] = call[d] \/ (call'[d].pc # "loading" /\ call[d].pc # "loading")
  BY <1>1 DEF Others, Fetched
<1>10. QED BY <1>1, <1>6, <1>7, <1>8, <1>9, CacheStep

\* A session given up by a close or a cancelled call.
LEMMA CloseCache ==
  ASSUME TypeOK, Wired, CacheInv, NEW c \in Calls,
         (\E how \in {"free", "gone"} : Close(c, how)) \/ (Cancel(c) /\ call[c].old # None)
  PROVE  CacheInv'
<1>1. Others(c) /\ call[c].pc # "loading"
  BY CloseType, CancelOldType DEF Close, Fetched
<1>2. binds' = binds /\ bound' \in {bound, None} /\ spoilt' = spoilt
  BY DEF Close, Cancel
<1>3. call'[c].pc \notin Copying \cup {"loading"}
  <2>1. \/ call'[c] = [call[c] EXCEPT !.pc = "done"]
        \/ call'[c] = [call[c] EXCEPT !.pc = "error", !.old = None]
    BY CloseType, CancelOldType
  <2>2. QED BY <2>1 DEF TypeOK, CallRecords, Copying
<1>4. \A t \in Sessions : \/ sess'[t] = sess[t]
                          \/ sess'[t].state # "leased" /\ ~Loading(t) /\ sess'[t].late = sess[t].late
  <2>1. CASE \E how \in {"free", "gone"} : Close(c, how)
    BY <2>1, CloseType DEF GivenUp
  <2>2. CASE Cancel(c) /\ call[c].old # None
    BY <2>2, CancelOldType DEF GivenUp
  <2>3. QED BY <2>1, <2>2
<1>5. TableOwn'
  <2>1. bound # None => binds[bound] # NoBinding
    BY DEF CacheInv, TableOwn, Own
  <2>2. \A d \in Calls : call'[d].pc \in Copying => call'[d] = call[d]
    BY <1>1, <1>3 DEF Others
  <2>3. QED BY <1>2, <2>1, <2>2, TableKept DEF CacheInv
<1>6. \A d \in Calls : call'[d] = call[d] \/ (call'[d].pc # "loading" /\ call[d].pc # "loading")
  BY <1>1, <1>3 DEF Others
<1>7. QED BY <1>2, <1>4, <1>5, <1>6, CacheStep

\* The server evicts no session with a load under way; a load given up has spoilt its session.
LEMMA EvictCache ==
  ASSUME TypeOK, Wired, CacheInv, NEW s \in Sessions, Evict(s) \/ Late(s)
  PROVE  CacheInv'
<1>1. UNCHANGED <<binds, bound, call, spoilt>>
  BY DEF Evict, Late
<1>2. \A t \in Sessions : \/ sess'[t] = sess[t] \/ t \in spoilt
                          \/ sess'[t].state # "leased" /\ ~Loading(t) /\ sess'[t].late = None
  BY EvictType, LateType DEF NewSession, CacheInv, TextsInv
<1>3. TableOwn'
  BY <1>1 DEF CacheInv, TableOwn, Own
<1>4. QED BY <1>1, <1>2, <1>3, CacheStep

\* A new binding is its own object and caches nothing yet.
LEMMA CreateCache ==
  ASSUME TypeOK, Wired, CacheInv, NEW c \in Calls, NEW s \in Sessions, Create(c, s)
  PROVE  CacheInv'
<1> DEFINE n == leases + 1
           b == [sid |-> s, lease |-> n, cached |-> None]
<1>1. /\ binds' = [binds EXCEPT ![n] = b] /\ sess' = [sess EXCEPT ![s] = Leased(s)]
      /\ bound' = n /\ spoilt' = spoilt /\ s \notin Alive
      /\ call[c].pc \in {"open", "rebind", "relock"}
  BY DEF Create, In, Alive
<1>2. /\ n \in Leases /\ Others(c) /\ call'[c].bind = call[c].bind /\ call'[c].fresh = n
      /\ call'[c].pc \in Copying => call[c].pc \in {"rebind", "relock"}
      /\ call'[c].pc # "loading"
  BY CreateType DEF Copying
<1>3. b # NoBinding /\ b.lease = n /\ b.cached = None
  BY LspAssumption, <1>2 DEF NoBinding, Leases
<1> HIDE DEF b
<1>4. binds'[n] = b /\ \A l \in Leases : l # n => binds'[l] = binds[l]
  BY <1>1, <1>2 DEF TypeOK
<1>5. /\ sess'[s].lease = n /\ sess'[s].late = sess[s].late
      /\ \A t \in Sessions : t # s => sess'[t] = sess[t]
      /\ binds[n] = NoBinding /\ \A l \in Made : l # n
  BY <1>1, <1>2, LeasedNow
<1>6. \A d \in Calls : call'[d].pc \in Copying => call'[d].bind # n /\ call'[d].bind < call'[d].fresh
  <2> SUFFICES ASSUME NEW d \in Calls, call'[d].pc \in Copying
               PROVE  call'[d].bind # n /\ call'[d].bind < call'[d].fresh
    OBVIOUS
  <2>1. CASE d # c
    <3>1. call'[d] = call[d] /\ call[d].bind \in Made
      BY <1>2, <2>1 DEF Others, Wired, Bound, Rebinding
    <3>2. QED BY <1>5, <3>1 DEF CacheInv, TableOwn
  <2>2. CASE d = c
    <3>1. call[c].bind \in Made
      BY <1>2, <2>2 DEF Wired, Bound, Rebinding
    <3>2. call[c].bind < n
      BY <3>1 DEF Made, TypeOK
    <3>3. QED BY <1>2, <1>5, <2>2, <3>1, <3>2
  <2>3. QED BY <2>1, <2>2
<1>7. TableOwn'
  BY <1>1, <1>3, <1>4, <1>6 DEF TableOwn, Own
<1>8. \A d \in Calls : call'[d] = call[d] \/ (call'[d].pc # "loading" /\ call[d].pc # "loading")
  BY <1>1, <1>2 DEF Others
<1>9. \A l \in Leases : binds'[l] = binds[l] \/ (binds[l] = NoBinding /\ binds'[l].cached = None)
  BY <1>3, <1>4, <1>5
<1>10. QED BY <1>1, <1>5, <1>7, <1>8, <1>9, CacheStep

\* A lease that no binding holds.
LEMMA UnboundCache ==
  ASSUME TypeOK, Wired, CacheInv, NEW c \in Calls, NEW s \in Sessions, Others(c), s \notin Alive,
         call[c].pc # "loading", call'[c].pc \in {"error", "trying"},
         sess' = [sess EXCEPT ![s] = Leased(s)], UNCHANGED <<binds, bound, spoilt>>
  PROVE  CacheInv'
<1>1. /\ sess'[s].lease = leases + 1 /\ sess'[s].late = sess[s].late
      /\ \A t \in Sessions : t # s => sess'[t] = sess[t]
  BY LeasedNow
<1>2. \A d \in Calls : call'[d] = call[d] \/ (call'[d].pc # "loading" /\ call[d].pc # "loading")
  BY DEF Others
<1>3. TableOwn'
  <2>1. bound # None => binds[bound] # NoBinding
    BY DEF CacheInv, TableOwn, Own
  <2>2. \A d \in Calls : call'[d].pc \in Copying => call'[d] = call[d]
    BY DEF Others, Copying
  <2>3. QED BY <2>1, <2>2, TableKept DEF CacheInv
<1>4. QED BY <1>1, <1>2, <1>3, CacheStep

-----------------------------------------------------------------------------
\* Nothing is leased or bound at the start.
LEMMA InitInv ==
  ASSUME Init PROVE IInv
<1>1. TypeOK
  <2>1. NewCall \in CallRecords
    BY DEF NewCall, CallRecords, Points
  <2>2. NewSession \in SessionRecords
    BY DEF SessionRecords, NewSession
  <2>3. 0 \in Texts /\ 0 \in 0..MaxLeases /\ 0 \in Nat
    BY LspAssumption DEF Texts
  <2>4. QED BY <2>1, <2>2, <2>3 DEF Init, TypeOK
<1>2. Wired
  BY DEF Init, Wired, Alive, NewCall, NewSession, NoBinding, Bound, Rebinding, Copying, Fetched
<1>3. OnScratch = {} /\ Trying = {} /\ Cancelled = {} /\ idle = {} /\ count = 0
  BY DEF Init, NewCall, OnScratch, Creating, Trying, Cancelled
<1>4. ScratchInv
  BY <1>3, LspAssumption, FS_EmptySet DEF ScratchInv, ScratchExact, OnScratch, Scratch
<1>5. LeaseInv
  BY DEF Init, LeaseInv, Alive, NewCall, NewSession, Rebinding, Copying
<1>6. CacheInv
  BY DEF Init, CacheInv, TableOwn, LoadsInv, TextsInv, Own, NewCall, NewSession, Copying
<1>7. QED BY <1>1, <1>2, <1>4, <1>5, <1>6 DEF IInv

\* Only the file changes.
LEMMA EditInv ==
  ASSUME IInv, Edit \/ UNCHANGED vars PROVE IInv'
<1>1. UNCHANGED <<sess, leases, binds, bound, call, idle, count, spoilt, lost>>
  BY DEF Edit, vars, server, scratch
<1>2. TypeOK'
  BY EditType DEF IInv, TypeOK, vars
<1>3. Wired'
  BY <1>1 DEF IInv, Wired, Made, Alive
<1>4. ScratchInv'
  BY <1>1, ScratchKept DEF IInv
<1>5. LeaseInv'
  BY <1>1 DEF IInv, LeaseInv, Alive, Pooled, Missed, Owned, Kept, Scratch, Trying, Cancelled
<1>6. CacheInv'
  <2>1. TableOwn'
    BY <1>1 DEF IInv, CacheInv, TableOwn, Own
  <2>2. QED BY <1>1, <2>1, CacheStep DEF IInv
<1>7. QED BY <1>2, <1>3, <1>4, <1>5, <1>6 DEF IInv

\* A creation whose answer never comes.
LEMMA UnheardInv ==
  ASSUME IInv, NEW c \in Calls, CreateFails(c) \/ ScratchCreateFails(c)
  PROVE  IInv'
<1> USE DEF IInv
<1>1. /\ TypeOK' /\ Others(c) /\ UNCHANGED <<binds, bound, idle, spoilt>>
      /\ Unheard(In({"none", "free"})) \/ Unheard(In({"none"})) \/ UNCHANGED <<sess, leases, lost>>
      /\ call[c].pc \in {"open", "rebind", "relock", "creating"}
  BY CreateFailsType, ScratchEndsType DEF CreateFails, ScratchCreateFails, scratch
<1>2. call'[c].pc = "error" /\ call'[c].old = call[c].old
  BY DEF CreateFails, ScratchCreateFails, To, TypeOK, CallRecords
<1>3. ScratchInv'
  BY UnheardScratch, ScratchEndsInv
<1>4. CASE UNCHANGED <<sess, leases, lost>>
  <2>1. Move(c) /\ ~LoadBegins(c)
    BY <1>1, <1>4 DEF Move, LoadBegins
  <2>2. QED BY <1>1, <1>3, <2>1, MoveWired, MoveLease, MoveCache
<1>5. CASE ~UNCHANGED <<sess, leases, lost>>
  <2>1. In({"none", "free"}) \in SUBSET Sessions /\ In({"none"}) \in SUBSET Sessions
    BY DEF In
  <2>2. /\ leases + 1 \in Leases /\ leases' = leases + 1 /\ lost' = lost \cup {leases + 1}
        /\ \E s \in In({"none", "free"}) : sess' = [sess EXCEPT ![s] = Leased(s)]
    <3>1. CASE Unheard(In({"none", "free"}))
      BY <1>5, <2>1, <3>1, UnheardType
    <3>2. CASE Unheard(In({"none"}))
      BY <1>5, <2>1, <3>2, UnheardType DEF In
    <3>3. QED BY <1>1, <1>5, <3>1, <3>2
  <2>3. PICK s \in Sessions : s \notin Alive /\ sess' = [sess EXCEPT ![s] = Leased(s)]
    BY <2>2 DEF In, Alive
  <2>4. call[c].pc \notin Fetched \cup {"trying", "cancelled", "loading"}
    BY <1>1 DEF Fetched
  <2>5. Wired'
    BY <1>1, <1>2, <2>2, <2>3, <2>4, UnboundWired
  <2>6. LeaseInv'
    BY <1>1, <1>2, <2>2, <2>3, <2>4, UnboundLease
  <2>7. CacheInv'
    BY <1>1, <1>2, <2>3, <2>4, UnboundCache
  <2>8. QED BY <1>1, <1>3, <2>5, <2>6, <2>7
<1>6. QED BY <1>4, <1>5

\* A scratch session is leased for a candidate.
LEMMA ScratchCreateKeeps ==
  ASSUME IInv, NEW c \in Calls, NEW s \in Sessions, ScratchCreate(c, s)
  PROVE  IInv'
<1> USE DEF IInv
<1>1. /\ TypeOK' /\ Others(c) /\ call'[c] = [call[c] EXCEPT !.pc = "trying", !.on = s]
      /\ leases + 1 \in Leases
  BY ScratchCreateType
<1>2. call'[c].pc = "trying" /\ call'[c].on = s /\ call'[c].old = call[c].old
  BY <1>1 DEF TypeOK, CallRecords
<1>3. /\ call[c].pc \notin Fetched \cup {"trying", "cancelled", "loading"} /\ s \notin Alive
      /\ sess' = [sess EXCEPT ![s] = Leased(s)] /\ leases' = leases + 1
      /\ UNCHANGED <<binds, bound, idle, spoilt, lost>>
  BY DEF ScratchCreate, scratch, Fetched, In, Alive
<1>4. Wired'
  BY <1>1, <1>2, <1>3, UnboundWired
<1>5. LeaseInv'
  BY <1>1, <1>2, <1>3, UnboundLease
<1>6. CacheInv'
  BY <1>1, <1>2, <1>3, UnboundCache
<1>7. QED BY <1>1, <1>4, <1>5, <1>6, ScratchCreateInv

\* A step of a tool call.
LEMMA CallInv ==
  ASSUME IInv, NEW c \in Calls, Step(c) \/ (\E t \in Tools : Start(c, t)) \/ Cancel(c)
  PROVE  IInv'
<1> USE DEF IInv
<1>1. CASE CreateFails(c) \/ ScratchCreateFails(c)
  BY <1>1, UnheardInv
<1>2. CASE LoadBegins(c)
  <2>1. Move(c)
    BY <1>2 DEF Move
  <2>2. QED BY <1>2, <2>1, MoveKeeps, MoveWired, MoveScratch, MoveLease, LoadBeginsCache
<1>3. CASE Move(c) /\ ~LoadBegins(c)
  BY <1>3, MoveKeeps, MoveWired, MoveScratch, MoveLease, MoveCache
<1>4. CASE \E s \in Sessions : Create(c, s)
  <2>1. PICK s \in Sessions : Create(c, s)
    BY <1>4
  <2>2. QED BY <2>1, CreateType, CreateWired, CreateScratch, CreateLease, CreateCache
<1>5. CASE ReleaseOld(c)
  BY <1>5, ReleaseOldType, ReleaseOldWired, ReleaseOldScratch, ReleaseOldLease, ReleaseOldCache
<1>6. CASE \E how \in {"free", "gone"} : Close(c, how)
  <2>1. TypeOK' /\ Wired'
    BY <1>6, CloseType, CloseWired
  <2>2. QED BY <1>6, <2>1, CloseScratch, CloseLease, CloseCache
<1>7. CASE Cancel(c) /\ call[c].old # None
  BY <1>7, CancelOldType, CancelOldWired, CloseScratch, CloseLease, CloseCache
<1>8. CASE LoadEnds(c)
  <2>1. Documents(c)
    BY <1>8, LoadEndsType
  <2>2. QED BY <1>8, <2>1, DocumentsWired, DocumentsScratch, DocumentsLease, LoadEndsCache
            DEF Documents
<1>9. CASE LoadFails(c) \/ Query(c) \/ QueryFails(c)
  <2>1. Documents(c)
    BY <1>9, LoadFailsType, QueryType
  <2>2. QED BY <1>9, <2>1, DocumentsWired, DocumentsScratch, DocumentsLease, SpoiltCache
            DEF Documents
<1>10. CASE \E s \in Sessions : ScratchCreate(c, s)
  BY <1>10, ScratchCreateKeeps
<1>11. QED
  BY <1>1, <1>2, <1>3, <1>4, <1>5, <1>6, <1>7, <1>8, <1>9, <1>10 DEF Step, Move

\* A step of the event loop or of the server.
LEMMA StepInv ==
  ASSUME IInv, [Next]_vars PROVE IInv'
<1>1. ASSUME NEW s \in Sessions, Evict(s) \/ Late(s) PROVE IInv'
  <2> USE DEF IInv
  <2>1. TypeOK'
    BY <1>1, EvictType, LateType
  <2>2. Wired'
    BY <1>1, EvictWired, LateWired
  <2>3. QED BY <1>1, <2>1, <2>2, EvictScratch, EvictLease, EvictCache
<1>2. QED BY <1>1, CallInv, EditInv DEF Next

\* The bindings, the leases of the server, the scratch pool and the cached texts of an MCP LSP
\* server agree after every step of its event loop, whatever the calls, the evictions, the
\* cancellations and the answers, errors and lost answers of the gym server.
THEOREM PoolConsistent == Spec => []IInv
<1>1. Init => IInv
  BY InitInv
<1>2. IInv /\ [Next]_vars => IInv'
  BY StepInv
<1>3. QED BY <1>1, <1>2, PTL DEF Spec

\* _scratch_counts is exact but for cancelled candidates: it is the number of idle scratch
\* sessions plus those that are created or run on and those that a cancelled candidate left,
\* never exceeds SCRATCH_POOL_SIZE, and no two candidates share a session.
THEOREM ScratchCounted == Spec => []ScratchExact
<1>1. IInv => ScratchExact
  BY DEF IInv, ScratchInv
<1>2. QED BY <1>1, PoolConsistent, PTL

\* A session is leased to nobody only after a lost answer, a failed release or a cancelled
\* candidate: the binding that _create_binding replaces is released by the call that replaced it.
THEOREM NothingOrphaned == Spec => []NoOrphan
<1>1. ASSUME IInv, NEW s \in Sessions, sess[s].state = "leased"
      PROVE  \/ bound # None /\ binds[bound].lease = sess[s].lease
             \/ \E c \in Calls : call[c].old # None /\ binds[call[c].old].lease = sess[s].lease
             \/ s \in idle \/ \E c \in Trying \cup Cancelled : call[c].on = s
             \/ sess[s].lease \in lost
  <2> USE DEF IInv
  <2>1. CASE Pooled(s)
    BY <2>1 DEF Pooled, Scratch
  <2>2. CASE Missed(s)
    BY <2>2 DEF Missed
  <2>3. CASE Owned(s)
    <3> DEFINE l == sess[s].lease
    <3>1. l # None /\ binds[l].lease = l /\ l \in Kept
      BY <2>3, LspAssumption DEF Owned, Kept, Leases
    <3>2. QED BY <3>1 DEF Kept
  <2>4. QED BY <1>1, <2>1, <2>2, <2>3 DEF LeaseInv, Alive
<1>2. IInv => NoOrphan
  BY <1>1 DEF NoOrphan
<1>3. QED BY <1>2, PoolConsistent, PTL

\* cached_text of the binding in the table is what its session holds, so a tool call that finds
\* the file unchanged may skip load_document, as long as the last load in the session was the
\* binding's, ended with its text and nothing was retracted since.
THEOREM CachedTextTrue == Spec => []CacheTrue
<1>1. IInv => CacheTrue
  <2> SUFFICES ASSUME IInv, bound # None, binds[bound].cached # None, Ours(binds[bound]),
                      ~Loading(binds[bound].sid), binds[bound].sid \notin spoilt
               PROVE  sess[binds[bound].sid].doc = binds[bound].cached
    BY DEF CacheTrue
  <2>1. bound \in Leases /\ Own(bound)
    BY DEF IInv, TypeOK, CacheInv, TableOwn
  <2>2. Settled(binds[bound].sid)
    BY DEF Settled, Loading
  <2>3. QED BY <2>1, <2>2 DEF IInv, CacheInv, TextsInv
<1>2. QED BY <1>1, PoolConsistent, PTL
=============================================================================
