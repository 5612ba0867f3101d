------------------------------ MODULE HeapPool ------------------------------
(***************************************************************************)
(* The heap pool (server/app/services/heap_pool.py): a registry of heaps   *)
(* keyed by (task group, project) and held in memory, one manifest file    *)
(* per heap, and the `isabelle build -b` processes that write the images.  *)
(* Everything runs on one event loop, so a step is what happens between    *)
(* two awaits.  Users edit the project directories at any time, a build    *)
(* that times out leaves its process running, and the server may crash.    *)
(***************************************************************************)
EXTENDS Naturals, FiniteSets

CONSTANTS Groups, Projects,
          Names,        \* session names
          DefaultName,  \* project -> name derived from its directory
          Contents,     \* contents of a project's theory files
          Tasks,        \* requests to POST /heaps/build that are not refused with 409
          MaxBuilds,    \* Heap.MAX_CONCURRENT_BUILDS
          MaxEdits, MaxCrashes,  \* bounds of the model
          None

Keys == Groups \X Projects
Proj(k) == k[2]

ASSUME HeapAssumption ==
  /\ DefaultName \in [Projects -> Names] /\ MaxBuilds \in Nat \ {0}
  /\ MaxEdits \in Nat /\ MaxCrashes \in Nat
  /\ None \notin Groups \cup Projects \cup Names \cup Contents \cup Tasks
  /\ None \notin Keys /\ None \notin Projects \X Contents

VARIABLES entries,  \* _entries
          manifest, \* the manifest files
          image,    \* user heaps directory: image[n] = the sources it was built from
          src,      \* the project directories
          task,     \* build requests: where each is and what it holds
          procs,    \* isabelle processes
          served,   \* the heap this step gave to a session creation, if any
          built,    \* (key, name, fingerprint) whose build returned 0
          edits, crashes

vars == <<entries, manifest, image, src, task, procs, served, built, edits, crashes>>
disk == <<image, src, edits, crashes>>

\* A directory is missing (None), or has theory files (None: no .thy) and a
\* ROOT (None: the user wrote none) that declares one session.
Dirs == [root : Names \cup {None}, thy : Contents \cup {None}] \cup {None}
\* Session name, whether the ROOT is generated, ROOT text, source hash.
Fingerprints == [root : Names, thy : Contents \cup {None}]
Entries == [name : Names, scratch : BOOLEAN, fp : Fingerprints, by : Tasks,
            status : {"building", "ready", "stale", "failed"}]
ASSUME NoneAssumption == None \notin Entries /\ None \notin [root : Names \cup {None},
                                                          thy : Contents \cup {None}]
NewTask == [pc |-> "new", key |-> None, want |-> None, entry |-> None]
EndedTask == [NewTask EXCEPT !.pc = "ended"]
Procs == [by : Tasks \cup {None}, key : Keys, name : Names, scratch : BOOLEAN,
          read : Contents \cup {None}]

\* A key's asyncio.Lock is held from the request until its build returns.
Locked(k) == \E t \in Tasks : task[t].key = k
Running == {t \in Tasks : task[t].pc = "running"}

Init == /\ entries = [k \in Keys |-> None] /\ manifest = entries
        /\ image = [n \in Names |-> None]
        /\ src \in [Projects -> {d \in Dirs : d # None}]
        /\ \A p \in Projects : src[p].thy # None /\ src[p].root = None
        /\ task = [t \in Tasks |-> NewTask] /\ procs = {}
        /\ served = None /\ built = {} /\ edits = 0 /\ crashes = 0

-----------------------------------------------------------------------------
(* build().  409 leaves no trace; the unlocked lock is taken at once.      *)

Build(t, k, want) ==
  /\ task[t].pc = "new" /\ ~Locked(k)
  /\ task' = [task EXCEPT ![t] = [pc |-> "queued", key |-> k, want |-> want, entry |-> None]]
  /\ UNCHANGED <<entries, manifest, procs, built, disk>> /\ served' = None

\* The explicit name, the name of the entry being rebuilt, the name the
\* user's ROOT declares, the name of the directory.
BuildName(k, want) ==
  LET d == src[Proj(k)]
  IN  CASE want # None           -> want
        [] entries[k] # None     -> entries[k].name
        [] d.root # None         -> d.root
        [] OTHER                 -> DefaultName[Proj(k)]

Admitted(t) == task[t].pc = "queued" /\ Cardinality(Running) < MaxBuilds
Buildable(k) == LET d == src[Proj(k)] IN d # None /\ (d.root # None \/ d.thy # None)

Fingerprint(k, name) == LET d == src[Proj(k)]
                        IN  [root |-> IF d.root = None THEN name ELSE d.root, thy |-> d.thy]

\* _build_locked up to its await: the entry replaces the previous one, in
\* memory and on disk, and the process starts.
BuildStart(t) ==
  LET k == task[t].key
      name == BuildName(k, task[t].want)
      e == [name |-> name, scratch |-> src[Proj(k)].root = None, fp |-> Fingerprint(k, name),
            by |-> t, status |-> "building"]
  IN  /\ Admitted(t) /\ Buildable(k)
      /\ entries' = [entries EXCEPT ![k] = e]
      /\ manifest' = [manifest EXCEPT ![k] = e]
      /\ task' = [task EXCEPT ![t].pc = "running", ![t].entry = e]
      /\ procs' = procs \cup {[by |-> t, key |-> k, name |-> name, scratch |-> e.scratch,
                               read |-> None]}
      /\ UNCHANGED <<built, disk>> /\ served' = None

\* No such directory, no theory files.
BuildRefused(t) ==
  /\ Admitted(t) /\ ~Buildable(task[t].key)
  /\ task' = [task EXCEPT ![t] = EndedTask]
  /\ UNCHANGED <<entries, manifest, procs, built, disk>> /\ served' = None

\* The end of _build_locked.  The entry object is still in _entries unless it
\* was deleted; it is written to its manifest in both cases.
Settle(t, ok) ==
  LET k == task[t].key
      e == [task[t].entry EXCEPT !.status = IF ok THEN "ready" ELSE "failed"]
  IN  /\ entries' = [entries EXCEPT ![k] = IF @ = task[t].entry THEN e ELSE @]
      /\ manifest' = [manifest EXCEPT ![k] = e]
      /\ task' = [task EXCEPT ![t] = EndedTask]
      /\ built' = IF ok THEN built \cup {<<k, e.name, e.fp>>} ELSE built

\* isabelle reads the theories some time after the fingerprint was taken.
ProcReads(pr) ==
  /\ pr.read = None /\ src[Proj(pr.key)] # None /\ src[Proj(pr.key)].thy # None
  /\ procs' = (procs \ {pr}) \cup {[pr EXCEPT !.read = src[Proj(pr.key)].thy]}
  /\ UNCHANGED <<entries, manifest, task, built, disk>> /\ served' = None

Finished(pr, ok) == IF pr.by = None THEN UNCHANGED <<entries, manifest, task, built>>
                                    ELSE Settle(pr.by, ok)

\* Return code 0: the ROOT it was given declares the session, the image is
\* written whoever still waits for it.
ProcSucceeds(pr) ==
  /\ pr.read # None
  /\ pr.scratch \/ (src[Proj(pr.key)] # None /\ src[Proj(pr.key)].root = pr.name)
  /\ image' = [image EXCEPT ![pr.name] = <<Proj(pr.key), pr.read>>]
  /\ procs' = procs \ {pr}
  /\ Finished(pr, TRUE)
  /\ UNCHANGED <<src, edits, crashes>> /\ served' = None

ProcFails(pr) ==
  /\ procs' = procs \ {pr}
  /\ Finished(pr, FALSE)
  /\ UNCHANGED disk /\ served' = None

\* wait_for gives up after BUILD_TIMEOUT_S; the process is not killed.
BuildTimeout(t) ==
  /\ task[t].pc = "running"
  /\ procs' = {IF pr.by = t THEN [pr EXCEPT !.by = None] ELSE pr : pr \in procs}
  /\ Settle(t, FALSE)
  /\ UNCHANGED disk /\ served' = None

-----------------------------------------------------------------------------
(* Session creation against a heap: resolve_for_session and check_stale.   *)

FindBySession(g, s) ==
  LET matches == {k \in Keys : k[1] = g /\ entries[k] # None /\ entries[k].name = s}
  IN  IF Cardinality(matches) = 1 THEN matches ELSE {}

\* The key a request names by project, else by session name; empty: 403 or 404.
Target(g, s, p) ==
  IF p # None /\ entries[<<g, p>>] # None THEN {<<g, p>>}
  ELSE IF s # None THEN FindBySession(g, s) ELSE {}

\* _scan_sources: the glob of a directory that is not there is empty.
TheoryFiles(p) == IF src[p] = None THEN None ELSE src[p].thy

\* (bug: only a missing directory counts as a change)
StaleMissingOnly(k) == src[Proj(k)] = None

\* The entry keeps its own ROOT text: only the theory files are read again.
Stale(k) == entries[k].fp.thy # TheoryFiles(Proj(k))

ResolveReady(g, s, p) ==
  \E k \in Target(g, s, p) :
    /\ entries[k].status = "ready" /\ ~Stale(k)
    /\ served' = [group |-> g, key |-> k, name |-> entries[k].name, fp |-> entries[k].fp]
    /\ UNCHANGED <<entries, manifest, task, procs, built, disk>>

\* (bug: the flip is not persisted)
ResolveStaleInMemory(g, s, p) ==
  \E k \in Target(g, s, p) :
    /\ entries[k].status = "ready" /\ Stale(k)
    /\ entries' = [entries EXCEPT ![k].status = "stale"]
    /\ UNCHANGED <<manifest, task, procs, built, disk>> /\ served' = None

ResolveStale(g, s, p) ==
  \E k \in Target(g, s, p) :
    /\ entries[k].status = "ready" /\ Stale(k)
    /\ entries' = [entries EXCEPT ![k].status = "stale"]
    /\ manifest' = [manifest EXCEPT ![k] = entries'[k]]
    /\ UNCHANGED <<task, procs, built, disk>> /\ served' = None

-----------------------------------------------------------------------------
(* delete(), delete_group() and the two ways an image goes away.           *)

\* (bug: only the group's own records are asked)
UnreferencedInGroup(n, gone) ==
  \A k \in Keys \ gone : (\E j \in gone : j[1] = k[1]) /\ entries[k] # None
                             => entries[k].name # n

\* _gc_heap_image runs after the entry was popped.
Unreferenced(n, gone) == \A k \in Keys \ gone : entries[k] # None => entries[k].name # n

Delete(gone) ==
  LET here == {k \in gone : entries[k] # None}
      names == {entries[k].name : k \in here}
  IN  /\ here # {}
      /\ entries' = [k \in Keys |-> IF k \in gone THEN None ELSE entries[k]]
      /\ manifest' = [k \in Keys |-> IF k \in here THEN None ELSE manifest[k]]
      /\ image' = [n \in Names |-> IF n \in names /\ Unreferenced(n, gone) THEN None
                                                                           ELSE image[n]]
      /\ UNCHANGED <<task, procs, built, src, edits, crashes>> /\ served' = None

DeleteHeap(k) == Delete({k})
DeleteGroup(g) == Delete({g} \X Projects)

\* The admin's delete_heap_image asks no entry.
DeleteImage(n) ==
  /\ image[n] # None
  /\ image' = [image EXCEPT ![n] = None]
  /\ UNCHANGED <<entries, manifest, task, procs, built, src, edits, crashes>> /\ served' = None

-----------------------------------------------------------------------------
(* The server stops at any point; the next one reads the manifests.  The   *)
(* isabelle processes go on without anybody waiting for them.              *)

\* (bug: an interrupted build is believed to have ended)
ReloadOptimistic(e) == IF e # None /\ e.status = "building" THEN [e EXCEPT !.status = "ready"]
                                                            ELSE e

Reload(e) == IF e # None /\ e.status = "building" THEN [e EXCEPT !.status = "failed"] ELSE e

Restart ==
  /\ crashes < MaxCrashes /\ crashes' = crashes + 1
  /\ entries' = [k \in Keys |-> Reload(manifest[k])]
  /\ task' = [t \in Tasks |-> IF task[t].pc = "new" THEN NewTask ELSE EndedTask]
  /\ procs' = {[pr EXCEPT !.by = None] : pr \in procs}
  /\ served' = None
  /\ UNCHANGED <<manifest, image, src, built, edits>>

Edit(p, d) ==
  /\ edits < MaxEdits /\ edits' = edits + 1
  /\ d # src[p] /\ src' = [src EXCEPT ![p] = d]
  /\ UNCHANGED <<entries, manifest, image, task, procs, built, crashes>> /\ served' = None

Next == \/ \E t \in Tasks : \/ \E k \in Keys, want \in Names \cup {None} : Build(t, k, want)
                            \/ BuildStart(t) \/ BuildRefused(t) \/ BuildTimeout(t)
        \/ \E pr \in procs : ProcReads(pr) \/ ProcSucceeds(pr) \/ ProcFails(pr)
        \/ \E g \in Groups, s \in Names \cup {None}, p \in Projects \cup {None} :
             ResolveReady(g, s, p) \/ ResolveStale(g, s, p)
        \/ \E k \in Keys : DeleteHeap(k)
        \/ \E g \in Groups : DeleteGroup(g)
        \/ \E n \in Names : DeleteImage(n)
        \/ Restart
        \/ \E p \in Projects, d \in Dirs : Edit(p, d)

Spec == Init /\ [][Next]_vars

-----------------------------------------------------------------------------
\* The types of the variables.
TypeOK == /\ entries \in [Keys -> Entries \cup {None}]
          /\ manifest \in [Keys -> Entries \cup {None}]
          /\ image \in [Names -> (Projects \X Contents) \cup {None}]
          /\ src \in [Projects -> Dirs]
          /\ task \in [Tasks -> [pc : {"new", "queued", "running", "ended"},
                                key : Keys \cup {None}, want : Names \cup {None},
                                entry : Entries \cup {None}]]
          /\ procs \subseteq Procs

\* A crash at any point loses nothing a client was told: every registered
\* heap is what its manifest says, except that an interrupted build's
\* manifest still says "building" (it is rewritten by the next build).
RegistryOnDisk == \A k \in Keys : entries[k] # None => entries[k] = manifest[k]
                                                    \/ entries[k] = Reload(manifest[k])

\* A heap is called ready (or stale, once ready) only when a build of exactly
\* these sources under this name for this group returned 0, whatever
\* timeouts, deletions, rebuilds and restarts came between.
ReadyWasBuilt ==
  \A k \in Keys : \A e \in {entries[k], manifest[k]} \ {None} :
    e.status \in {"ready", "stale"} => <<k, e.name, e.fp>> \in built

-----------------------------------------------------------------------------
(* What these two rest on.                                                 *)

\* A build owns its key: nobody else replaces the entry it will settle, which can only
\* be deleted under its hands.
BuildOwnsKey ==
  /\ \A t \in Tasks : /\ task[t].pc \in {"new", "ended"} <=> task[t].key = None
                      /\ task[t].pc = "running" <=> task[t].entry # None
  /\ \A t, u \in Tasks : task[t].key # None /\ task[t].key = task[u].key => t = u
  /\ \A t \in Tasks : task[t].pc = "running" =>
       /\ task[t].entry.status = "building"
       /\ entries[task[t].key] \in {None, task[t].entry}

\* The process a build waits for is its own.
OneProcess ==
  /\ \A pr \in procs : pr.by # None => task[pr.by].pc = "running"
  /\ \A pr, qr \in procs : pr.by # None /\ pr.by = qr.by => pr = qr

IInv == TypeOK /\ BuildOwnsKey /\ OneProcess /\ RegistryOnDisk /\ ReadyWasBuilt

-----------------------------------------------------------------------------
\* A session is started only on a heap of its own group whose theory files
\* still hash to what was built (resolve_for_session: "status ready, sources
\* fresh").  A project whose directory has gone has no theory files.
SessionsGated ==
  [][\A s \in {served'} \ {served, None} :
       /\ s.key[1] = s.group /\ <<s.key, s.name, s.fp>> \in built
       /\ s.fp.thy = TheoryFiles(Proj(s.key))]_vars

\* Deleting heap records removes no image that a record left in the registry
\* names: two groups may share a session name.
GcKeepsReferenced ==
  [][\A k \in Keys : entries'[k] # None /\ image'[entries'[k].name] = None
                       => \/ image[entries'[k].name] = None
                          \/ \A j \in Keys : entries'[j] = entries[j]]_vars
=============================================================================
