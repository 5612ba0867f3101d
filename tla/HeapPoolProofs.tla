---------------------------- MODULE HeapPoolProofs ----------------------------
(***************************************************************************)
(* The heap pool for any groups, projects, build requests, edits and       *)
(* crashes: IInv of HeapPool is inductive, so that the registry is on disk *)
(* and a heap that is called ready was built; and with it the gate of      *)
(* session creation and the image collector are right.                     *)
(***************************************************************************)
EXTENDS HeapPool, TLAPS

\* The pool starts empty.
LEMMA InitInv == Init => IInv
BY HeapAssumption, NoneAssumption
DEF Init, IInv, TypeOK, BuildOwnsKey, OneProcess, RegistryOnDisk, ReadyWasBuilt, NewTask, Reload,
    Keys, Dirs

\* _root_and_session and _fingerprint give an entry.
LEMMA NewEntry ==
  ASSUME TypeOK, NEW k \in Keys, NEW want \in Names \cup {None}, Buildable(k)
  PROVE  /\ BuildName(k, want) \in Names
         /\ Fingerprint(k, BuildName(k, want)) \in Fingerprints
<1>1. Proj(k) \in Projects
  BY DEF Keys, Proj
<1>2. /\ src[Proj(k)] # None
      /\ src[Proj(k)].root \in Names \cup {None} /\ src[Proj(k)].thy \in Contents \cup {None}
  BY <1>1 DEF TypeOK, Dirs, Buildable
<1>3. BuildName(k, want) \in Names
  <2>1. entries[k] # None => entries[k].name \in Names
    BY DEF TypeOK, Entries
  <2>2. DefaultName[Proj(k)] \in Names
    BY <1>1, HeapAssumption
  <2>3. QED BY <1>2, <2>1, <2>2 DEF BuildName
<1>4. QED BY <1>2, <1>3 DEF Fingerprint, Fingerprints

\* A request takes the key's lock.
LEMMA BuildInv ==
  ASSUME IInv, NEW t \in Tasks, NEW k \in Keys, NEW want \in Names \cup {None}, Build(t, k, want)
  PROVE  IInv'
<1> USE HeapAssumption, NoneAssumption DEF disk
<1>1. TypeOK'
  BY DEF Build, IInv, TypeOK
<1>2. BuildOwnsKey'
  BY DEF Build, IInv, TypeOK, BuildOwnsKey, Locked
<1>3. OneProcess' /\ RegistryOnDisk' /\ ReadyWasBuilt'
  BY DEF Build, IInv, TypeOK, OneProcess, RegistryOnDisk, ReadyWasBuilt, Procs
<1>4. QED BY <1>1, <1>2, <1>3 DEF IInv

\* The new entry replaces the old one in memory and on disk; the key is the build's own.
LEMMA BuildStartInv ==
  ASSUME IInv, NEW t \in Tasks, BuildStart(t)
  PROVE  IInv'
<1> USE HeapAssumption, NoneAssumption DEF disk
<1> DEFINE k == task[t].key
           name == BuildName(k, task[t].want)
           own == (src[Proj(k)].root = None)
           e == [name |-> name, scratch |-> own, fp |-> Fingerprint(k, name),
                 by |-> t, status |-> "building"]
           p == [by |-> t, key |-> k, name |-> name, scratch |-> own, read |-> None]
<1>1. k \in Keys /\ task[t].pc = "queued" /\ task[t].want \in Names \cup {None}
  BY DEF BuildStart, Admitted, IInv, TypeOK, BuildOwnsKey
<1>2. name \in Names /\ Fingerprint(k, name) \in Fingerprints
  BY <1>1, NewEntry DEF BuildStart, IInv
<1>3. own \in BOOLEAN
  BY Zenon
<1>4. /\ entries' = [entries EXCEPT ![k] = e] /\ manifest' = [manifest EXCEPT ![k] = e]
      /\ task' = [task EXCEPT ![t].pc = "running", ![t].entry = e]
      /\ procs' = procs \cup {p} /\ UNCHANGED <<built, image, src>>
  BY DEF BuildStart
<1> HIDE DEF k, name, own
<1>5. e \in Entries /\ p \in Procs /\ e # None /\ e.status = "building" /\ p.by = t
  BY <1>1, <1>2, <1>3 DEF Entries, Procs
<1> HIDE DEF e, p
<1>6. TypeOK'
  <2>1. task'[t] = [task[t] EXCEPT !.pc = "running", !.entry = e]
    BY <1>4 DEF IInv, TypeOK
  <2>2. task' = [task EXCEPT ![t] = task'[t]]
    BY <1>4, <2>1 DEF IInv, TypeOK
  <2>3. task'[t] \in [pc : {"new", "queued", "running", "ended"}, key : Keys \cup {None},
                      want : Names \cup {None}, entry : Entries \cup {None}]
    <3>1. task[t] \in [pc : {"new", "queued", "running", "ended"}, key : Keys \cup {None},
                       want : Names \cup {None}, entry : Entries \cup {None}]
      BY DEF IInv, TypeOK
    <3>2. QED BY <1>5, <2>1, <3>1
  <2>4. procs' \subseteq Procs
    BY <1>4, <1>5 DEF IInv, TypeOK
  <2>5. QED BY <1>1, <1>4, <1>5, <2>2, <2>3, <2>4 DEF IInv, TypeOK
<1>7. BuildOwnsKey'
  BY <1>1, <1>4, <1>5 DEF IInv, TypeOK, BuildOwnsKey, k
<1>8. OneProcess'
  BY <1>1, <1>4, <1>5 DEF IInv, TypeOK, OneProcess, Procs
<1>9. RegistryOnDisk' /\ ReadyWasBuilt'
  BY <1>1, <1>4, <1>5 DEF IInv, TypeOK, RegistryOnDisk, ReadyWasBuilt, Reload
<1>10. QED BY <1>6, <1>7, <1>8, <1>9 DEF IInv

\* A refused build releases its key.
LEMMA BuildRefusedInv ==
  ASSUME IInv, NEW t \in Tasks, BuildRefused(t)
  PROVE  IInv'
<1> USE HeapAssumption, NoneAssumption DEF disk, EndedTask, NewTask
<1>1. TypeOK'
  BY DEF BuildRefused, IInv, TypeOK
<1>2. BuildOwnsKey'
  BY DEF BuildRefused, Admitted, IInv, TypeOK, BuildOwnsKey
<1>3. OneProcess' /\ RegistryOnDisk' /\ ReadyWasBuilt'
  BY DEF BuildRefused, Admitted, IInv, TypeOK, OneProcess, RegistryOnDisk, ReadyWasBuilt, Procs
<1>4. QED BY <1>1, <1>2, <1>3 DEF IInv

\* The end of _build_locked, for whatever reason, when its process is not waited for
\* any more.
LEMMA SettleInv ==
  ASSUME IInv, NEW t \in Tasks, NEW ok \in BOOLEAN, task[t].pc = "running", Settle(t, ok),
         procs' \subseteq Procs, \A pr \in procs' : pr.by # t,
         \A pr \in procs' : pr.by # None => pr \in procs,
         image' \in [Names -> (Projects \X Contents) \cup {None}], src' = src
  PROVE  IInv'
<1> USE HeapAssumption, NoneAssumption
<1> DEFINE k == task[t].key
           e == [task[t].entry EXCEPT !.status = IF ok THEN "ready" ELSE "failed"]
<1>1. /\ k \in Keys /\ task[t].entry \in Entries /\ task[t].entry.status = "building"
      /\ entries[k] \in {None, task[t].entry}
  BY DEF IInv, TypeOK, BuildOwnsKey
<1>2. /\ e \in Entries /\ e # None /\ e.status \in {"ready", "failed"}
      /\ e.status = "ready" => ok
  BY <1>1 DEF Entries
<1>3. /\ entries' = [entries EXCEPT ![k] = IF entries[k] = None THEN None ELSE e]
      /\ manifest' = [manifest EXCEPT ![k] = e]
      /\ task' = [task EXCEPT ![t] = EndedTask]
      /\ built' = IF ok THEN built \cup {<<k, e.name, e.fp>>} ELSE built
  BY <1>1 DEF Settle, IInv, TypeOK
<1> HIDE DEF e, k
<1>4. TypeOK'
  BY <1>1, <1>2, <1>3 DEF IInv, TypeOK, EndedTask, NewTask
<1>5. BuildOwnsKey'
  BY <1>1, <1>2, <1>3 DEF IInv, TypeOK, BuildOwnsKey, EndedTask, NewTask, k
<1>6. OneProcess'
  BY <1>3 DEF IInv, TypeOK, OneProcess, Procs
<1>7. RegistryOnDisk' /\ ReadyWasBuilt'
  BY <1>1, <1>2, <1>3 DEF IInv, TypeOK, RegistryOnDisk, ReadyWasBuilt
<1>8. QED BY <1>4, <1>5, <1>6, <1>7 DEF IInv
\* isabelle reads the theories: the process is another one with the same waiter.
LEMMA ProcReadsInv ==
  ASSUME IInv, NEW pr \in procs, ProcReads(pr)
  PROVE  IInv'
<1> USE HeapAssumption, NoneAssumption DEF disk
<1> DEFINE q == [pr EXCEPT !.read = src[Proj(pr.key)].thy]
<1>1. Proj(pr.key) \in Projects /\ pr \in Procs
  BY DEF IInv, TypeOK, Procs, Keys, Proj
<1>2. q \in Procs /\ q.by = pr.by
  BY <1>1 DEF ProcReads, IInv, TypeOK, Dirs, Procs
<1>3. procs' = (procs \ {pr}) \cup {q}
  BY DEF ProcReads
<1> HIDE DEF q
<1>4. TypeOK' /\ OneProcess'
  BY <1>2, <1>3 DEF ProcReads, IInv, TypeOK, OneProcess
<1>5. BuildOwnsKey' /\ RegistryOnDisk' /\ ReadyWasBuilt'
  BY DEF ProcReads, IInv, BuildOwnsKey, RegistryOnDisk, ReadyWasBuilt
<1>6. QED BY <1>4, <1>5 DEF IInv

\* A process ends.  Whoever waits for it settles its build; nobody waits for one that
\* was given up.
LEMMA ProcEndsInv ==
  ASSUME IInv, NEW pr \in procs, ProcSucceeds(pr) \/ ProcFails(pr)
  PROVE  IInv'
<1> USE HeapAssumption, NoneAssumption DEF disk
<1>1. Proj(pr.key) \in Projects /\ pr \in Procs
  BY DEF IInv, TypeOK, Procs, Keys, Proj
<1>2. procs' = procs \ {pr} /\ src' = src
  BY DEF ProcSucceeds, ProcFails
<1>3. image' \in [Names -> (Projects \X Contents) \cup {None}]
  <2>1. pr.read # None => <<Proj(pr.key), pr.read>> \in Projects \X Contents
    BY <1>1 DEF Procs
  <2>2. QED BY <2>1 DEF ProcSucceeds, ProcFails, IInv, TypeOK
<1>4. CASE pr.by = None
  <2>1. UNCHANGED <<entries, manifest, task, built>>
    BY <1>4 DEF ProcSucceeds, ProcFails, Finished
  <2>2. TypeOK' /\ OneProcess'
    BY <1>2, <1>3, <2>1 DEF IInv, TypeOK, OneProcess
  <2>3. BuildOwnsKey' /\ RegistryOnDisk' /\ ReadyWasBuilt'
    BY <2>1 DEF IInv, BuildOwnsKey, RegistryOnDisk, ReadyWasBuilt
  <2>4. QED BY <2>2, <2>3 DEF IInv
<1>5. CASE pr.by # None
  <2>1. pr.by \in Tasks /\ task[pr.by].pc = "running"
    BY <1>1, <1>5 DEF IInv, OneProcess, Procs
  <2>2. Settle(pr.by, TRUE) \/ Settle(pr.by, FALSE)
    BY <1>5 DEF ProcSucceeds, ProcFails, Finished
  <2>3. procs' \subseteq Procs /\ \A p \in procs' : p.by # pr.by /\ p \in procs
    BY <1>2, <1>5 DEF IInv, TypeOK, OneProcess
  <2>4. QED BY <1>2, <1>3, <2>1, <2>2, <2>3, SettleInv
<1>6. QED BY <1>4, <1>5

\* wait_for gives up: the process stays, with nobody waiting.
LEMMA BuildTimeoutInv ==
  ASSUME IInv, NEW t \in Tasks, BuildTimeout(t)
  PROVE  IInv'
<1> USE HeapAssumption, NoneAssumption DEF disk
<1>1. procs' = {IF pr.by = t THEN [pr EXCEPT !.by = None] ELSE pr : pr \in procs}
  BY DEF BuildTimeout
<1>2. ASSUME NEW p \in procs'
      PROVE  p \in Procs /\ p.by # t /\ (p.by # None => p \in procs)
  <2>1. PICK pr \in procs : p = IF pr.by = t THEN [pr EXCEPT !.by = None] ELSE pr
    BY <1>1
  <2>2. pr \in Procs
    BY DEF IInv, TypeOK
  <2>3. CASE pr.by = t
    BY <2>1, <2>2, <2>3 DEF Procs
  <2>4. CASE pr.by # t
    BY <2>1, <2>2, <2>4
  <2>5. QED BY <2>3, <2>4
<1>3. QED BY <1>2, SettleInv DEF BuildTimeout, IInv, TypeOK

\* check_stale flips an entry that is ready, in memory and on disk.
LEMMA ResolveInv ==
  ASSUME IInv, NEW g \in Groups, NEW s \in Names \cup {None}, NEW p \in Projects \cup {None},
         ResolveReady(g, s, p) \/ ResolveStale(g, s, p)
  PROVE  IInv'
<1> USE HeapAssumption, NoneAssumption DEF disk
<1>1. CASE ResolveReady(g, s, p)
  BY <1>1 DEF ResolveReady, IInv, TypeOK, BuildOwnsKey, OneProcess, RegistryOnDisk, ReadyWasBuilt
<1>2. CASE ResolveStale(g, s, p)
  <2>1. PICK k \in Target(g, s, p) :
          /\ entries[k].status = "ready"
          /\ entries' = [entries EXCEPT ![k].status = "stale"]
          /\ manifest' = [manifest EXCEPT ![k] = entries'[k]]
          /\ UNCHANGED <<task, procs, built, image, src>>
    BY <1>2 DEF ResolveStale
  <2>2. k \in Keys /\ entries[k] # None
    BY DEF Target, FindBySession, Keys
  <2> DEFINE e == [entries[k] EXCEPT !.status = "stale"]
  <2>3. /\ e \in Entries /\ e # None /\ e.status = "stale"
        /\ e.name = entries[k].name /\ e.fp = entries[k].fp /\ entries[k] \in Entries
    BY <2>2 DEF IInv, TypeOK, Entries
  <2>4. entries' = [entries EXCEPT ![k] = e] /\ manifest' = [manifest EXCEPT ![k] = e]
    BY <2>1, <2>2 DEF IInv, TypeOK
  <2> HIDE DEF e
  <2>5. TypeOK' /\ OneProcess'
    BY <2>1, <2>2, <2>3, <2>4 DEF IInv, TypeOK, OneProcess
  <2>6. BuildOwnsKey'
    BY <2>1, <2>2, <2>3, <2>4 DEF IInv, TypeOK, BuildOwnsKey
  <2>7. RegistryOnDisk' /\ ReadyWasBuilt'
    <3>1. entries'[k] = e /\ manifest'[k] = e
      BY <2>2, <2>4 DEF IInv, TypeOK
    <3>2. \A j \in Keys : j # k => entries'[j] = entries[j] /\ manifest'[j] = manifest[j]
      BY <2>2, <2>4 DEF IInv, TypeOK
    <3>3. <<k, e.name, e.fp>> \in built
      BY <2>1, <2>2, <2>3 DEF IInv, ReadyWasBuilt
    <3>4. QED BY <2>1, <2>3, <3>1, <3>2, <3>3 DEF IInv, RegistryOnDisk, ReadyWasBuilt
  <2>8. QED BY <2>5, <2>6, <2>7 DEF IInv
<1>3. QED BY <1>1, <1>2

\* Records are deleted in memory and on disk.
LEMMA DeleteInv ==
  ASSUME IInv, NEW gone \in SUBSET Keys, Delete(gone)
  PROVE  IInv'
<1> USE HeapAssumption, NoneAssumption
<1>1. /\ \A k \in Keys : entries'[k] = IF k \in gone THEN None ELSE entries[k]
      /\ \A k \in Keys : manifest'[k] = manifest[k] \/ (manifest'[k] = None /\ entries'[k] = None)
      /\ UNCHANGED <<task, procs, built, src>>
  BY DEF Delete
<1>2. TypeOK'
  BY DEF Delete, IInv, TypeOK
<1>3. BuildOwnsKey' /\ OneProcess'
  BY <1>1 DEF IInv, TypeOK, BuildOwnsKey, OneProcess
<1>4. RegistryOnDisk' /\ ReadyWasBuilt'
  BY <1>1 DEF IInv, RegistryOnDisk, ReadyWasBuilt
<1>5. QED BY <1>2, <1>3, <1>4 DEF IInv

\* The next server reads the manifests; every build is over.
LEMMA RestartInv ==
  ASSUME IInv, Restart
  PROVE  IInv'
<1> USE HeapAssumption, NoneAssumption
<1>1. ASSUME NEW e \in Entries \cup {None}
      PROVE  /\ Reload(e) \in Entries \cup {None} /\ (Reload(e) = None <=> e = None)
             /\ Reload(e) = e \/ Reload(e).status = "failed"
  BY DEF Reload, Entries
<1>2. \A k \in Keys : entries'[k] = Reload(manifest[k]) /\ manifest[k] \in Entries \cup {None}
  BY DEF Restart, IInv, TypeOK
<1>3. \A t \in Tasks : task'[t] = NewTask \/ task'[t] = EndedTask
  BY DEF Restart
<1>4. \A p \in procs' : p \in Procs /\ p.by = None
  BY DEF Restart, IInv, TypeOK, Procs
<1>5. TypeOK'
  <2>1. entries' \in [Keys -> Entries \cup {None}]
    BY <1>1, <1>2 DEF Restart
  <2>2. task' \in [Tasks -> [pc : {"new", "queued", "running", "ended"},
                            key : Keys \cup {None}, want : Names \cup {None},
                            entry : Entries \cup {None}]]
    BY DEF Restart, NewTask, EndedTask
  <2>3. QED BY <1>4, <2>1, <2>2 DEF Restart, IInv, TypeOK
<1>6. BuildOwnsKey' /\ OneProcess'
  BY <1>3, <1>4 DEF BuildOwnsKey, OneProcess, NewTask, EndedTask
<1>7. RegistryOnDisk' /\ ReadyWasBuilt'
  BY <1>1, <1>2 DEF Restart, IInv, RegistryOnDisk, ReadyWasBuilt
<1>8. QED BY <1>5, <1>6, <1>7 DEF IInv

\* Neither an edit of a project nor the removal of an image touches the registry.
LEMMA OutsideInv ==
  ASSUME IInv, (\E n \in Names : DeleteImage(n)) \/ \E p \in Projects, d \in Dirs : Edit(p, d)
  PROVE  IInv'
<1>1. TypeOK'
  BY DEF DeleteImage, Edit, IInv, TypeOK
<1>2. BuildOwnsKey' /\ OneProcess' /\ RegistryOnDisk' /\ ReadyWasBuilt'
  BY DEF DeleteImage, Edit, IInv, BuildOwnsKey, OneProcess, RegistryOnDisk, ReadyWasBuilt
<1>3. QED BY <1>1, <1>2 DEF IInv

\* No step of a request, a process, a client, a user or a crash breaks the invariant.
LEMMA NextInv == IInv /\ [Next]_vars => IInv'
<1> SUFFICES ASSUME IInv, [Next]_vars PROVE IInv'
  OBVIOUS
<1>1. CASE UNCHANGED vars
  BY <1>1 DEF vars, IInv, TypeOK, BuildOwnsKey, OneProcess, RegistryOnDisk, ReadyWasBuilt
<1>2. ASSUME NEW t \in Tasks,
             \/ \E k \in Keys, want \in Names \cup {None} : Build(t, k, want)
             \/ BuildStart(t) \/ BuildRefused(t) \/ BuildTimeout(t)
      PROVE  IInv'
  BY <1>2, BuildInv, BuildStartInv, BuildRefusedInv, BuildTimeoutInv
<1>3. ASSUME NEW pr \in procs, ProcReads(pr) \/ ProcSucceeds(pr) \/ ProcFails(pr) PROVE IInv'
  BY <1>3, ProcReadsInv, ProcEndsInv
<1>4. ASSUME NEW k \in Keys, DeleteHeap(k) PROVE IInv'
  BY <1>4, DeleteInv DEF DeleteHeap
<1>5. ASSUME NEW g \in Groups, DeleteGroup(g) PROVE IInv'
  <2>1. {g} \X Projects \in SUBSET Keys
    BY DEF Keys
  <2>2. QED BY <1>5, <2>1, DeleteInv DEF DeleteGroup
<1>6. QED
  BY <1>1, <1>2, <1>3, <1>4, <1>5, ResolveInv, RestartInv, OutsideInv DEF Next

\* The types hold.
THEOREM Typed == Spec => []TypeOK
<1>1. IInv => TypeOK
  BY DEF IInv
<1>2. QED BY InitInv, NextInv, <1>1, PTL DEF Spec

\* Whatever builds, timeouts, deletions and restarts came before, what the registry
\* says of a heap is in its manifest.
THEOREM OnDisk == Spec => []RegistryOnDisk
<1>1. IInv => RegistryOnDisk
  BY DEF IInv
<1>2. QED BY InitInv, NextInv, <1>1, PTL DEF Spec

\* A heap that is called ready was built from the sources it names.
THEOREM Built == Spec => []ReadyWasBuilt
<1>1. IInv => ReadyWasBuilt
  BY DEF IInv
<1>2. QED BY InitInv, NextInv, <1>1, PTL DEF Spec

\* resolve_for_session lets a session through only to a heap of its group that was
\* built from the theory files as they are.
THEOREM Gated == Spec => SessionsGated
<1> DEFINE A == \A s \in {served'} \ {served, None} :
                  /\ s.key[1] = s.group /\ <<s.key, s.name, s.fp>> \in built
                  /\ s.fp.thy = TheoryFiles(Proj(s.key))
<1>1. ASSUME IInv, [Next]_vars PROVE A
  <2>1. SUFFICES ASSUME served' # None, served' # served
                 PROVE  /\ served'.key[1] = served'.group
                        /\ <<served'.key, served'.name, served'.fp>> \in built
                        /\ served'.fp.thy = TheoryFiles(Proj(served'.key))
    OBVIOUS
  <2>2. PICK g \in Groups, s \in Names \cup {None}, p \in Projects \cup {None} :
          ResolveReady(g, s, p)
    BY <1>1, <2>1 DEF Next, vars, Build, BuildStart, BuildRefused, BuildTimeout, ProcReads,
       ProcSucceeds, ProcFails, ResolveStale, DeleteHeap, DeleteGroup, Delete, DeleteImage,
       Restart, Edit
  <2>3. PICK k \in Target(g, s, p) :
          /\ entries[k].status = "ready" /\ ~Stale(k)
          /\ served' = [group |-> g, key |-> k, name |-> entries[k].name, fp |-> entries[k].fp]
    BY <2>2 DEF ResolveReady
  <2>4. k \in Keys /\ entries[k] # None /\ k[1] = g
    BY HeapAssumption DEF Target, FindBySession, Keys
  <2>5. <<k, entries[k].name, entries[k].fp>> \in built
    BY <1>1, <2>3, <2>4 DEF IInv, ReadyWasBuilt
  <2>6. QED BY <2>3, <2>4, <2>5 DEF Stale
<1>2. A => [\A s \in {served'} \ {served, None} :
              /\ s.key[1] = s.group /\ <<s.key, s.name, s.fp>> \in built
              /\ s.fp.thy = TheoryFiles(Proj(s.key))]_vars
  OBVIOUS
<1>3. QED BY InitInv, NextInv, <1>1, <1>2, PTL DEF Spec, SessionsGated

\* Deleting records removes no image that a record left in the registry names.
THEOREM GcSafe == Spec => GcKeepsReferenced
<1> USE HeapAssumption, NoneAssumption DEF disk
<1> DEFINE A == \A k \in Keys : entries'[k] # None /\ image'[entries'[k].name] = None
                  => \/ image[entries'[k].name] = None
                     \/ \A j \in Keys : entries'[j] = entries[j]
<1>1. ASSUME IInv, IInv', [Next]_vars PROVE A
  <2> SUFFICES ASSUME NEW k \in Keys, entries'[k] # None, image'[entries'[k].name] = None,
                      image[entries'[k].name] # None
               PROVE  \A j \in Keys : entries'[j] = entries[j]
    OBVIOUS
  <2> DEFINE n == entries'[k].name
  <2>1. n \in Names
    BY <1>1 DEF IInv, TypeOK, Entries
  <2>2. image' # image
    OBVIOUS
  <2>3. ASSUME NEW pr \in procs, ProcSucceeds(pr) PROVE FALSE
    <3>1. <<Proj(pr.key), pr.read>> \in Projects \X Contents
      BY <1>1, <2>3 DEF ProcSucceeds, IInv, TypeOK, Procs, Keys, Proj
    <3>2. image'[n] = IF n = pr.name THEN <<Proj(pr.key), pr.read>> ELSE image[n]
      BY <1>1, <2>1, <2>3 DEF ProcSucceeds, IInv, TypeOK
    <3>3. QED BY <3>1, <3>2
  <2>4. ASSUME NEW gone \in SUBSET Keys, Delete(gone) PROVE FALSE
    <3>1. Unreferenced(n, gone)
      BY <2>1, <2>4 DEF Delete
    <3>2. k \notin gone /\ entries[k] = entries'[k]
      BY <2>4 DEF Delete
    <3>3. QED BY <3>1, <3>2 DEF Unreferenced
  <2>5. \A k1 \in Keys : {k1} \in SUBSET Keys
    OBVIOUS
  <2>6. \A g \in Groups : {g} \X Projects \in SUBSET Keys
    BY DEF Keys
  <2>7. ASSUME NEW m \in Names, DeleteImage(m) PROVE entries' = entries
    BY <2>7 DEF DeleteImage
  <2>8. QED
    BY <1>1, <2>2, <2>3, <2>4, <2>5, <2>6, <2>7 DEF Next, vars, Build, BuildStart, BuildRefused,
       BuildTimeout, ProcReads, ProcFails, ResolveReady, ResolveStale, DeleteHeap, DeleteGroup,
       Restart, Edit
<1>2. A => [\A k \in Keys : entries'[k] # None /\ image'[entries'[k].name] = None
              => \/ image[entries'[k].name] = None
                 \/ \A j \in Keys : entries'[j] = entries[j]]_vars
  OBVIOUS
<1>3. QED BY InitInv, NextInv, <1>1, <1>2, PTL DEF Spec, GcKeepsReferenced
=============================================================================
