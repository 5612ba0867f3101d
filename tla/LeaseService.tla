---------------------------- MODULE LeaseService ----------------------------
(***************************************************************************)
(* What the session pool promises its clients: a pooled session has at     *)
(* most one holder, a lease token is handed out once in the life of the    *)
(* server, a new session enters the pool only together with its first      *)
(* holder, and a session that has left the pool never serves anybody       *)
(* again.  SessionPool, the model of SessionManager, implements this.      *)
(***************************************************************************)
CONSTANTS Sessions,  \* session ids
          Leases,    \* lease tokens
          NoLease    \* "not leased"

VARIABLES place,     \* place[s]: "outside", "pooled" or "gone"
          owner,     \* owner[s]: the holder's token, NoLease unless pooled
          granted    \* tokens handed out so far

vars == <<place, owner, granted>>

Init == /\ place \in [Sessions -> {"outside", "pooled"}]
        /\ owner = [s \in Sessions |-> NoLease]
        /\ granted = {}

\* The sessions in out leave for good; whatever lease they had is void.
Leave(out) == /\ place' = [s \in Sessions |-> IF s \in out THEN "gone" ELSE place[s]]
              /\ owner' = [s \in Sessions |-> IF s \in out THEN NoLease ELSE owner[s]]

\* May be handed out, and must make room for others.
Free == {s \in Sessions : place[s] = "pooled" /\ owner[s] = NoLease}

\* A free pooled session is handed to the holder of a new token.
Grant(s, t) == /\ s \in Free
               /\ t \in Leases \ granted
               /\ owner' = [owner EXCEPT ![s] = t]
               /\ granted' = granted \cup {t}
               /\ UNCHANGED place

\* A new session enters the pool leased to t; free sessions may make room.
Admit(s, t, out) == /\ place[s] = "outside"
                    /\ t \in Leases \ granted
                    /\ place' = [v \in Sessions |-> IF v = s THEN "pooled"
                                                    ELSE IF v \in out THEN "gone"
                                                    ELSE place[v]]
                    /\ owner' = [owner EXCEPT ![s] = t]
                    /\ granted' = granted \cup {t}

\* The holder gives the session back to the pool.
Release(s) == /\ owner[s] # NoLease
              /\ owner' = [owner EXCEPT ![s] = NoLease]
              /\ UNCHANGED <<place, granted>>

\* Sessions are retired: closed, evicted, purged, or refused on arrival.
Retire(out) == Leave(out) /\ UNCHANGED granted

Next == \/ \E s \in Sessions, t \in Leases : Grant(s, t)
        \/ \E out \in SUBSET Free, s \in Sessions, t \in Leases : Admit(s, t, out)
        \/ \E s \in Sessions : Release(s)
        \/ \E out \in SUBSET {s \in Sessions : place[s] # "gone"} : Retire(out)

Spec == Init /\ [][Next]_vars
=============================================================================
