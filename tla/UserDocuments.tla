--------------------------- MODULE UserDocuments ---------------------------
(***************************************************************************)
(* The documents of one owner in several instances of rag-service: upload, *)
(* delete and search (UserDocumentService, UserRagService), the owner's    *)
(* index (UserIndexManager) and its versions in Qdrant (QdrantVectorStore).*)
(*                                                                         *)
(* A thread is a request in a process.  lock_for(owner) is a lock of the   *)
(* process, the Redis lock of _commit one of all processes.  A document's  *)
(* chunks are one element of a snapshot; document_chunks prepares the      *)
(* index like a search.  The two reads of the READY rows at the start of a *)
(* search are one.  Left out: the hash that refuses a duplicate, the quota *)
(* in bytes (kept like that in documents), the staging file, and outages   *)
(* that only end a search.  The points of old versions are deleted without *)
(* waiting, but before any later upsert.                                   *)
(***************************************************************************)
EXTENDS Naturals, FiniteSets

CONSTANTS
  Procs, Threads, NoThread, Docs, NoDoc,
  ProcOf,           \* [Threads -> Procs]
  MaxDocuments,     \* MAX_DOCUMENTS_PER_USER
  PatientOwner,     \* TRUE: the owner deletes a document after its upload only
  ShortCommits,     \* TRUE: no commit outlasts the 600 s of the Redis lock
  MaxVersions,      \* bound: versions committed or begun
  MaxRequests,      \* bound: uploads, deletes and searches
  MaxCrashes        \* bound

ASSUME DocumentAssumptions ==
  /\ ProcOf \in [Threads -> Procs] /\ NoThread \notin Threads /\ NoDoc \notin Docs
  /\ IsFiniteSet(Procs) /\ IsFiniteSet(Docs)
  /\ MaxDocuments \in Nat \ {0}
  /\ {PatientOwner, ShortCommits} \subseteq BOOLEAN
  /\ {MaxVersions, MaxRequests, MaxCrashes} \subseteq Nat

VARIABLES
  row,      \* [Docs -> status]: table documents
  object,   \* documents whose file is in the object storage
  active,   \* active_version of the snapshot record; 0: no record
  docsOf,   \* what the manifest of a version says it holds
  before,   \* the version that was active before a version
  points,   \* [version -> documents whose chunks are in Qdrant]
  fresh,    \* the next version id
  cached,   \* [Procs -> version]: the snapshot a process has loaded
  lock,     \* [Procs -> thread]: lock_for(owner)
  redis,    \* holder of the distributed lock
  thread, requests, crashes

vars == <<row, object, active, docsOf, before, points, fresh, cached, lock,
          redis, thread, requests, crashes>>
store == <<active, docsOf, before, points, fresh, cached>>
bounds == <<requests, crashes>>

Versions == 0 .. MaxVersions
Statuses == {"ABSENT", "UPLOADED", "PROCESSING", "READY", "FAILED", "DELETED"}
Counted == {"UPLOADED", "PROCESSING", "READY"}

Pcs == {"idle", "counting", "reserving", "storing", "processing", "parsing", "indexing",
        "locking", "upserting", "activating", "cleaning", "marking", "failing", "recording",
        "unindexing", "erasing", "checking", "rebuilding", "reading", "querying"}
Thread == [pc: Pcs,
           op: {"none", "upload", "undo", "delete", "search"},
           doc: Docs \union {NoDoc},
           want: SUBSET Docs,       \* the documents of the version to commit
           version: Versions, previous: Versions,
           ready: SUBSET Docs,      \* READY when the search began
           alone: BOOLEAN]          \* no other request since the search began

Idle == [pc |-> "idle", op |-> "none", doc |-> NoDoc, want |-> {}, version |-> 0,
         previous |-> 0, ready |-> {}, alone |-> FALSE]

Init ==
  /\ row = [d \in Docs |-> "ABSENT"] /\ object = {}
  /\ active = 0 /\ fresh = 1
  /\ docsOf = [v \in Versions |-> {}] /\ before = [v \in Versions |-> 0]
  /\ points = [v \in Versions |-> {}]
  /\ cached = [p \in Procs |-> 0]
  /\ lock = [p \in Procs |-> NoThread] /\ redis = NoThread
  /\ thread = [t \in Threads |-> Idle]
  /\ requests = 0 /\ crashes = 0

-----------------------------------------------------------------------------

At(t, pc) == thread[t].pc = pc
Goto(t, pc) == thread' = [thread EXCEPT ![t].pc = pc]
End(t) == thread' = [thread EXCEPT ![t] = Idle]

Free(t) == lock[ProcOf[t]] = NoThread
Take(t) == Free(t) /\ lock' = [lock EXCEPT ![ProcOf[t]] = t]
Release(t) == lock' = [lock EXCEPT ![ProcOf[t]] = NoThread]

Begin(t, op, pc, doc) ==
  /\ At(t, "idle") /\ redis # t
  /\ requests < MaxRequests /\ requests' = requests + 1
  /\ thread' = [u \in Threads |->
       IF u # t THEN [thread[u] EXCEPT !.alone = FALSE]
       ELSE [Idle EXCEPT !.op = op, !.pc = pc, !.doc = doc,
               !.ready = {d \in Docs : row[d] = "READY"},
               !.alone = \A v \in Threads \ {t} : thread[v].pc = "idle"]]

-----------------------------------------------------------------------------
(* Upload, as far as the index.                                            *)

BeginUpload(t, d) ==
  /\ row[d] = "ABSENT" /\ \A u \in Threads : thread[u].doc # d
  /\ Begin(t, "upload", "counting", d)
  /\ UNCHANGED <<row, object, store, lock, redis, crashes>>

InUse == Cardinality({d \in Docs : row[d] \in Counted})

\* Mutant: the rows are counted before the lock is taken.
CountsUnlocked(t) ==
  /\ At(t, "counting") /\ InUse < MaxDocuments
  /\ Goto(t, "reserving") /\ UNCHANGED <<row, object, store, lock, redis, bounds>>
CountDocuments(t) ==
  /\ At(t, "counting")
  /\ IF InUse >= MaxDocuments
     THEN Free(t) /\ End(t) /\ UNCHANGED lock
     ELSE Take(t) /\ Goto(t, "reserving")
  /\ UNCHANGED <<row, object, store, redis, bounds>>

Reserve(t) ==
  /\ At(t, "reserving")
  /\ row' = [row EXCEPT ![thread[t].doc] = "UPLOADED"]
  /\ Release(t) /\ Goto(t, "storing")
  /\ UNCHANGED <<object, store, redis, bounds>>

Store(t) ==
  /\ At(t, "storing")
  /\ \/ object' = object \union {thread[t].doc} /\ Goto(t, "processing")
     \/ object' \in {object, object \union {thread[t].doc}} /\ Goto(t, "failing")
  /\ UNCHANGED <<row, store, lock, redis, bounds>>

SetProcessing(t) ==
  /\ At(t, "processing")
  /\ row' = [row EXCEPT ![thread[t].doc] = "PROCESSING"]
  /\ Goto(t, "parsing")
  /\ UNCHANGED <<object, store, lock, redis, bounds>>

Parse(t) ==
  /\ At(t, "parsing")
  /\ \/ thread[t].doc \in object /\ Goto(t, "indexing")
     \/ Goto(t, "failing")
  /\ UNCHANGED <<row, object, store, lock, redis, bounds>>

-----------------------------------------------------------------------------
(* The index: a snapshot is read, changed and committed as a new version.  *)

\* QdrantVectorStore.current loads the active version when it is another one;
\* a version that has lost points is refused.
CanLoad(p) == cached[p] = active \/ points[active] = docsOf[active]
Load(p) == cached' = [cached EXCEPT ![p] = active]

Commits(t, docs) ==
  thread' = [thread EXCEPT ![t].pc = "locking", ![t].want = docs]

\* What follows a commit of thread t, and what a failed one.
After(t) == CASE thread[t].op = "upload" -> "marking"
              [] thread[t].op = "undo" -> "failing"
              [] thread[t].op = "delete" -> "erasing"
              [] thread[t].op = "search" -> "reading"
Abandon(t) ==
  CASE thread[t].op \in {"upload", "undo"} -> Goto(t, "failing")
    [] thread[t].op = "delete" -> Goto(t, "erasing")
    [] thread[t].op = "search" -> End(t)

AddToIndex(t) ==
  /\ At(t, "indexing")
  /\ IF CanLoad(ProcOf[t])
     THEN /\ Take(t) /\ Load(ProcOf[t])
          /\ Commits(t, docsOf[active] \union {thread[t].doc})
     ELSE Free(t) /\ Goto(t, "failing") /\ UNCHANGED <<lock, cached>>
  /\ UNCHANGED <<row, object, active, docsOf, before, points, fresh, redis, bounds>>

\* The Redis lock is taken, or not in time, or Redis is down.
\* Mutant: the lock is held by each process for itself.
LocksNobody(t) ==
  /\ At(t, "locking") /\ redis' = t /\ Goto(t, "upserting")
  /\ UNCHANGED <<row, object, store, lock, bounds>>
LockIndex(t) ==
  /\ At(t, "locking")
  /\ \/ redis = NoThread /\ redis' = t /\ Goto(t, "upserting") /\ UNCHANGED lock
     \/ Abandon(t) /\ Release(t) /\ UNCHANGED redis
  /\ UNCHANGED <<row, object, store, bounds>>

Unlocks(t) == redis' = IF redis = t THEN NoThread ELSE redis

\* The points of a new version are written in batches; a failed batch leaves
\* those before it.
Upsert(t) ==
  /\ At(t, "upserting") /\ fresh <= MaxVersions
  /\ fresh' = fresh + 1
  /\ \/ /\ points' = [points EXCEPT ![fresh] = thread[t].want]
        /\ thread' = [thread EXCEPT ![t].pc = "activating", ![t].version = fresh,
                                    ![t].previous = active]
        /\ UNCHANGED <<lock, redis>>
     \/ /\ \E part \in SUBSET thread[t].want : points' = [points EXCEPT ![fresh] = part]
        /\ Abandon(t) /\ Release(t) /\ Unlocks(t)
  /\ UNCHANGED <<row, object, active, docsOf, before, cached, bounds>>

\* The record with the active version is the commit.
Activate(t) ==
  LET v == thread[t].version IN
  /\ At(t, "activating")
  /\ active' = v
  /\ docsOf' = [docsOf EXCEPT ![v] = thread[t].want]
  /\ before' = [before EXCEPT ![v] = active]
  /\ cached' = [cached EXCEPT ![ProcOf[t]] = v]
  /\ Goto(t, "cleaning")
  /\ UNCHANGED <<row, object, points, fresh, lock, redis, bounds>>

\* Points of versions other than the new one and the one before it go.
\* Mutant: only the new version is kept.
KeepsNewest(t) == {thread[t].version}
Kept(t) == {thread[t].version, thread[t].previous}

Clean(t) ==
  /\ At(t, "cleaning")
  /\ \/ points' = [v \in Versions |-> IF v \in Kept(t) THEN points[v] ELSE {}]
     \/ UNCHANGED points
  /\ Goto(t, After(t)) /\ Unlocks(t)
  /\ IF thread[t].op = "upload" THEN UNCHANGED lock ELSE Release(t)
  /\ UNCHANGED <<row, object, active, docsOf, before, fresh, cached, bounds>>

-----------------------------------------------------------------------------
(* The end of an upload; delete.                                           *)

\* Under lock_for still; when the row cannot be written the document is taken
\* out of the index again.
MarkReady(t) ==
  /\ At(t, "marking")
  /\ row' = [row EXCEPT ![thread[t].doc] = "READY"]
  /\ Release(t) /\ End(t)
  /\ UNCHANGED <<object, store, redis, bounds>>

MarkFails(t) ==
  /\ At(t, "marking")
  /\ IF CanLoad(ProcOf[t])
     THEN /\ thread' = [thread EXCEPT ![t].op = "undo", ![t].pc = "locking",
                                      ![t].want = docsOf[active] \ {thread[t].doc}]
          /\ Load(ProcOf[t]) /\ UNCHANGED lock
     ELSE Release(t) /\ Goto(t, "failing") /\ UNCHANGED cached
  /\ UNCHANGED <<row, object, active, docsOf, before, points, fresh, redis, bounds>>

DiscardFile(t) ==
  /\ At(t, "failing")
  /\ \/ object' = object \ {thread[t].doc}
     \/ UNCHANGED object
  /\ Goto(t, "recording")
  /\ UNCHANGED <<row, store, lock, redis, bounds>>

MarkFailed(t) ==
  LET d == thread[t].doc IN
  /\ At(t, "recording")
  /\ row' = [row EXCEPT ![d] = IF @ \in {"ABSENT", "READY"} THEN @ ELSE "FAILED"]
  /\ End(t)
  /\ UNCHANGED <<object, store, lock, redis, bounds>>

\* Mutant: the row is left until the file is gone.
DeletesFileFirst(t, d) ==
  /\ row[d] \notin {"ABSENT", "DELETED"} /\ \A u \in Threads : thread[u].doc # d
  /\ Begin(t, "delete", "unindexing", d)
  /\ object' = object \ {d}
  /\ UNCHANGED <<row, store, lock, redis, crashes>>
Delete(t, d) ==
  /\ row[d] \notin {"ABSENT", "DELETED"}
  /\ PatientOwner => \A u \in Threads : thread[u].op \in {"upload", "undo"} => thread[u].doc # d
  /\ row' = [row EXCEPT ![d] = "DELETED"]
  /\ Begin(t, "delete", "unindexing", d)
  /\ UNCHANGED <<object, store, lock, redis, crashes>>

Unindex(t) ==
  /\ At(t, "unindexing")
  /\ IF active = 0 \/ ~CanLoad(ProcOf[t])
     THEN Free(t) /\ Goto(t, "erasing") /\ UNCHANGED <<lock, cached>>
     ELSE Take(t) /\ Load(ProcOf[t]) /\ Commits(t, docsOf[active] \ {thread[t].doc})
  /\ UNCHANGED <<row, object, active, docsOf, before, points, fresh, redis, bounds>>

EraseFile(t) ==
  /\ At(t, "erasing")
  /\ \/ object' = object \ {thread[t].doc}
     \/ UNCHANGED object
  /\ End(t)
  /\ UNCHANGED <<row, store, lock, redis, bounds>>

-----------------------------------------------------------------------------
(* Search: the corpora are prepared, then the points of a snapshot queried.*)

BeginSearch(t) ==
  /\ Begin(t, "search", "checking", NoDoc)
  /\ UNCHANGED <<row, object, store, lock, redis, crashes>>

\* Mutant: an index that has every READY document will do.
HoldsReady(t) == thread[t].ready \subseteq docsOf[active]
IsConsistent(t) == docsOf[active] = thread[t].ready

Check(t) ==
  /\ At(t, "checking") /\ Free(t)
  /\ IF CanLoad(ProcOf[t])
     THEN Load(ProcOf[t]) /\ Goto(t, IF IsConsistent(t) THEN "reading" ELSE "rebuilding")
     ELSE End(t) /\ UNCHANGED cached
  /\ UNCHANGED <<row, object, active, docsOf, before, points, fresh, lock, redis, bounds>>

\* rebuild_index: the READY documents are read again, and their files.
Rebuild(t) ==
  LET ready == {d \in Docs : row[d] = "READY"} IN
  /\ At(t, "rebuilding")
  /\ IF ready \subseteq object
     THEN Take(t) /\ Commits(t, ready)
     ELSE Free(t) /\ End(t) /\ UNCHANGED lock
  /\ UNCHANGED <<row, object, store, redis, bounds>>

ReadSnapshot(t) ==
  /\ At(t, "reading") /\ Free(t)
  /\ IF CanLoad(ProcOf[t])
     THEN /\ Load(ProcOf[t])
          /\ thread' = [thread EXCEPT ![t].pc = "querying", ![t].version = active]
     ELSE End(t) /\ UNCHANGED cached
  /\ UNCHANGED <<row, object, active, docsOf, before, points, fresh, lock, redis, bounds>>

\* The points of the version, filtered by the READY documents.
Found(t) == points[thread[t].version] \cap thread[t].ready

Query(t) ==
  /\ At(t, "querying") /\ End(t)
  /\ UNCHANGED <<row, object, store, lock, redis, bounds>>

-----------------------------------------------------------------------------
(* A crash of a process; the Redis lock expires.                           *)

Crash(p) ==
  /\ crashes < MaxCrashes /\ crashes' = crashes + 1
  /\ thread' = [t \in Threads |-> IF ProcOf[t] = p THEN Idle ELSE thread[t]]
  /\ lock' = [lock EXCEPT ![p] = NoThread]
  /\ cached' = [cached EXCEPT ![p] = 0]
  /\ UNCHANGED <<row, object, active, docsOf, before, points, fresh, redis, requests>>

LockExpires(t) ==
  /\ redis = t /\ (ShortCommits => thread[t].pc = "idle")
  /\ redis' = NoThread
  /\ UNCHANGED <<row, object, store, lock, thread, bounds>>

Next ==
  \/ \E t \in Threads :
       \/ \E d \in Docs : BeginUpload(t, d) \/ Delete(t, d)
       \/ CountDocuments(t) \/ Reserve(t) \/ Store(t) \/ SetProcessing(t) \/ Parse(t)
       \/ AddToIndex(t) \/ LockIndex(t) \/ Upsert(t) \/ Activate(t) \/ Clean(t)
       \/ MarkReady(t) \/ MarkFails(t) \/ DiscardFile(t) \/ MarkFailed(t)
       \/ Unindex(t) \/ EraseFile(t)
       \/ BeginSearch(t) \/ Check(t) \/ Rebuild(t) \/ ReadSnapshot(t) \/ Query(t)
       \/ LockExpires(t)
  \/ \E p \in Procs : Crash(p)

Spec == Init /\ [][Next]_vars

-----------------------------------------------------------------------------
(* Properties.                                                             *)

TypeOK ==
  /\ row \in [Docs -> Statuses] /\ object \subseteq Docs
  /\ active \in Versions /\ fresh \in 1 .. MaxVersions + 1
  /\ docsOf \in [Versions -> SUBSET Docs] /\ points \in [Versions -> SUBSET Docs]
  /\ before \in [Versions -> Versions] /\ cached \in [Procs -> Versions]
  /\ lock \in [Procs -> Threads \union {NoThread}]
  /\ redis \in Threads \union {NoThread}
  /\ thread \in [Threads -> Thread]
  /\ requests \in 0 .. MaxRequests /\ crashes \in 0 .. MaxCrashes

\* The active version has all its points in Qdrant, and so has the one before
\* it, which a search that began before the last commit still queries:
\* whatever the other processes commit, clean up or leave behind in a crash.
SnapshotsAreWhole ==
  \A v \in {active, before[active]} : points[v] = docsOf[v]

\* A READY document has its file, so that the index can always be built again
\* from the files; and the owner's documents exceed the quota by at most one
\* for each further process, as each counts and reserves under its own lock.
RowsAreSound ==
  /\ \A d \in Docs : row[d] = "READY" => d \in object
  /\ InUse < MaxDocuments + Cardinality(Procs)

\* Table, object storage, snapshot record and Qdrant agree, and each variable
\* keeps its type.
StoresAgree == TypeOK /\ SnapshotsAreWhole /\ RowsAreSound

\* A search no other request ran into finds all READY documents and nothing
\* else, whatever lost updates, failures and crashes before it left in the
\* index.
SearchFindsReady ==
  \A t \in Threads :
    At(t, "querying") /\ thread[t].alone
      => /\ docsOf[thread[t].version] = {d \in Docs : row[d] = "READY"}
         /\ Found(t) = docsOf[thread[t].version]
=============================================================================
