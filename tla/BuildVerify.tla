----------------------------- MODULE BuildVerify -----------------------------
(***************************************************************************)
(* The strict verifier behind POST /sessions/bigstep                       *)
(* (server/app/services/build_verify.py): every request wants its theory   *)
(* checked by a fresh `isabelle build`, at most MaxBuilds of which run at  *)
(* once; requests for the same theory wait for one build, and successes    *)
(* are cached for the life of the server.                                  *)
(***************************************************************************)
EXTENDS Naturals, FiniteSets

CONSTANTS Requests,
          Names,      \* theory names
          Texts,      \* theory texts, as submitted
          Sources,    \* contents of theory files
          Written,    \* text -> the file written for it: _strip_mlval, normalise_for_isabelle
          Declares,   \* text -> the name its header declares, or None
          ImportsOf,  \* text -> the theories its header imports
          Fields,     \* parent sessions
          HOL,        \* the default one
          Imports,    \* theories a request may name
          MaxBuilds,
          None

Args == [name : Names, text : Texts, deps : SUBSET Imports, field : Fields \cup {None}]

ASSUME VerifyAssumption ==
  /\ Declares \in [Texts -> Names \cup {None}] /\ ImportsOf \in [Texts -> SUBSET Imports]
  /\ Written \in [Texts -> Sources]
  /\ HOL \in Fields /\ None \notin Fields \cup Names \cup Texts \cup BOOLEAN \cup Args
  /\ MaxBuilds \in Nat \ {0}

VARIABLES req,    \* the arguments of each request
          pc,     \* where verify() is
          answer, \* the result it returned
          cache,  \* _cache: hashes of verified theories
          built   \* (hash, file, name) for which isabelle returned 0

buildVars == <<req, pc, answer, cache, built>>

Hashes == Fields \X (SUBSET Imports) \X Texts

Parent(q) == IF q.field = None THEN HOL ELSE q.field

\* Explicit dependencies win over the imports of the text.
Deps(q) == IF q.deps # {} THEN q.deps ELSE ImportsOf[q.text]

\* dependency_key and stable_theory_hash.  The name of the request is not
\* part of the hash; the isabelle session is named after the same values.
Hash(q) == <<Parent(q), Deps(q), q.text>>

HashOf(r) == Hash(req[r])
\* (bug: the lock is released as soon as the timeout fires)
HoldingUntilTimeout == {r \in Requests : pc[r] \in {"queued", "building"}}
Holding == {r \in Requests : pc[r] \in {"queued", "building", "killing"}}  \* _locks
InProcess == {r \in Requests : pc[r] \in {"building", "killing"}}          \* _sem

BuildInit == /\ req = [r \in Requests |-> None] /\ pc = [r \in Requests |-> "new"]
             /\ answer = [r \in Requests |-> None] /\ cache = {} /\ built = {}

Return(r, ok) == /\ pc' = [pc EXCEPT ![r] = "done"]
                 /\ answer' = [answer EXCEPT ![r] = ok]

-----------------------------------------------------------------------------
\* The first look at the cache.
Arrive(r, q) ==
  /\ pc[r] = "new"
  /\ req' = [req EXCEPT ![r] = q]
  /\ IF Hash(q) \in cache THEN Return(r, TRUE)
     ELSE pc' = [pc EXCEPT ![r] = "waiting"] /\ UNCHANGED answer
  /\ UNCHANGED <<cache, built>>

LockFree(r) == \A s \in Holding : HashOf(s) # HashOf(r)

\* (bug: the cache is read only before the lock)
TakeLockBlind(r) ==
  /\ pc[r] = "waiting" /\ LockFree(r)
  /\ pc' = [pc EXCEPT ![r] = "queued"]
  /\ UNCHANGED <<req, answer, cache, built>>

\* The lock of the hash, and the second look.
TakeLock(r) ==
  /\ pc[r] = "waiting" /\ LockFree(r) /\ HashOf(r) \notin cache
  /\ pc' = [pc EXCEPT ![r] = "queued"]
  /\ UNCHANGED <<req, answer, cache, built>>

\* (bug: a result found under the lock sends the request back to wait)
FoundUnderLockAgain(r) ==
  /\ pc[r] = "waiting" /\ LockFree(r) /\ HashOf(r) \in cache
  /\ UNCHANGED buildVars

FoundUnderLock(r) ==
  /\ pc[r] = "waiting" /\ LockFree(r) /\ HashOf(r) \in cache
  /\ Return(r, TRUE)
  /\ UNCHANGED <<req, cache, built>>

\* _run_build: no declared name, or another one than the request's.
NameMatches(r) == Declares[req[r].text] = req[r].name

RefuseName(r) ==
  /\ pc[r] = "queued" /\ Cardinality(InProcess) < MaxBuilds /\ ~NameMatches(r)
  /\ Return(r, FALSE)
  /\ UNCHANGED <<req, cache, built>>

StartBuild(r) ==
  /\ pc[r] = "queued" /\ Cardinality(InProcess) < MaxBuilds /\ NameMatches(r)
  /\ pc' = [pc EXCEPT ![r] = "building"]
  /\ UNCHANGED <<req, answer, cache, built>>

BuildSucceeds(r) ==
  /\ pc[r] = "building"
  /\ built' = built \cup {<<HashOf(r), Written[req[r].text], req[r].name>>}
  /\ cache' = cache \cup {HashOf(r)}
  /\ Return(r, TRUE)
  /\ UNCHANGED req

\* (bug: every result is cached)
BuildFailsCached(r) ==
  /\ pc[r] = "building"
  /\ cache' = cache \cup {HashOf(r)}
  /\ Return(r, FALSE)
  /\ UNCHANGED <<req, built>>

\* A return code other than 0, or the process could not be started.
BuildFails(r) ==
  /\ pc[r] = "building"
  /\ Return(r, FALSE)
  /\ UNCHANGED <<req, cache, built>>

\* The timeout kills the process and waits for it; lock and permit are kept.
BuildTimeout(r) ==
  /\ pc[r] = "building"
  /\ pc' = [pc EXCEPT ![r] = "killing"]
  /\ UNCHANGED <<req, answer, cache, built>>

Killed(r) ==
  /\ pc[r] = "killing"
  /\ Return(r, FALSE)
  /\ UNCHANGED <<req, cache, built>>

Step(r) == \/ TakeLock(r) \/ FoundUnderLock(r) \/ RefuseName(r) \/ StartBuild(r)
           \/ BuildSucceeds(r) \/ BuildFails(r) \/ BuildTimeout(r) \/ Killed(r)

BuildNext == \E r \in Requests : Step(r) \/ \E q \in Args : Arrive(r, q)

BuildSpec == BuildInit /\ [][BuildNext]_buildVars

\* The event loop runs what is ready, locks and permits go to a waiter, the
\* timer fires and a killed process ends.
BuildFairSpec == BuildSpec /\ \A r \in Requests : WF_buildVars(Step(r))

-----------------------------------------------------------------------------
\* The types of the variables.
BuildTypeOK == /\ req \in [Requests -> Args \cup {None}]
               /\ pc \in [Requests -> {"new", "waiting", "queued", "building", "killing", "done"}]
               /\ answer \in [Requests -> BOOLEAN \cup {None}]
               /\ \A r \in Requests : /\ pc[r] = "new" <=> req[r] = None
                                      /\ pc[r] = "done" <=> answer[r] # None
               /\ cache \subseteq Hashes /\ built \subseteq (Hashes \X Sources \X Names)

\* Two isabelle processes never build the same session, named after the hash,
\* not even while a timed out one is being killed; and no more than MaxBuilds
\* are alive.
BuildsExclusive ==
  /\ \A r, s \in InProcess : HashOf(r) = HashOf(s) => r = s
  /\ Cardinality(InProcess) <= MaxBuilds

\* A client is told that a theory is verified only if isabelle, asked for that parent
\* and under the name the text declares, accepted the file that stripping and
\* normalising make of the text, whatever name the request gave and whoever asked
\* first.  It is not the submitted text that isabelle saw: lines of ML_val, which a
\* build rejects, are gone from the file and stay in the text called verified.
SuccessWasBuilt ==
  \A r \in Requests :
    answer[r] = TRUE => LET t == req[r].text
                        IN  <<HashOf(r), Written[t], Declares[t]>> \in built

\* A theory that was verified is never built again, however the requests for
\* it overlap.
NoRebuild ==
  [][\A r \in Requests : pc'[r] = "building" /\ pc[r] # "building"
       => \A f \in Sources, n \in Names : <<HashOf(r), f, n>> \notin built]_buildVars

\* Every request is answered: waiting for another one's build, for a permit
\* or for a killed process never lasts for ever.
AllAnswered == \A r \in Requests : pc[r] = "waiting" ~> pc[r] = "done"
=============================================================================
