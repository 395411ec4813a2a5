------------------------- MODULE UserDocumentsProofs -------------------------
(***************************************************************************)
(* What is true of the stores of one owner for any number of instances,    *)
(* requests, documents and versions.  The invariant has two halves.        *)
(*                                                                         *)
(* The index: as long as no commit outlasts the Redis lock, who is between *)
(* LockIndex and Clean holds it (IndexLocked), so that what it remembers   *)
(* of the active version is still so, and the points it writes or deletes  *)
(* are never those of the active version or the one before (VersionsFit).  *)
(* A search alone keeps what it has read (Undisturbed).                    *)
(*                                                                         *)
(* Rows and files: an owner who deletes what is uploaded only leaves each  *)
(* upload the only request of its document (DocumentsOwned); a process     *)
(* reserves at most one row beyond what it has counted (QuotaHeld).        *)
(*                                                                         *)
(* Both rest on Basic: types, what each program counter means (Shape) and  *)
(* the locks of the processes (LocksHeld).  Basic is preserved first; the  *)
(* Moves lemmas then say what each action does to its thread, and the      *)
(* other conjuncts follow, one after the other, from these.                *)
(*                                                                         *)
(* The last part is about functions, for every input: the chunks a text is *)
(* cut into, the index a synchronisation leaves, the sources of an answer  *)
(* and what a search may depend on.                                        *)
(***************************************************************************)
EXTENDS UserDocuments, Grounding, SystemIndex, FiniteSetTheorems, WellFoundedInduction, TLAPS

Uploading == {"counting", "reserving", "storing", "processing", "parsing", "indexing", "marking"}
Committing == {"upserting", "activating", "cleaning"}
Holding == {"reserving", "locking", "marking"} \cup Committing

\* A thread's operation, and whether it has a document, by its program counter.
OpFits(s) ==
  /\ s.pc = "idle" => s = Idle
  /\ s.pc \in Uploading => s.op = "upload"
  /\ s.pc \in {"failing", "recording"} => s.op \in {"upload", "undo"}
  /\ s.pc \in {"unindexing", "erasing"} => s.op = "delete"
  /\ s.pc \in {"checking", "rebuilding", "reading", "querying"} => s.op = "search"
  /\ s.pc \in {"locking"} \cup Committing => s.op # "none"
  /\ s.op \in {"upload", "undo", "delete"} => s.doc \in Docs
  /\ s.op \in {"none", "search"} => s.doc = NoDoc
Shape == \A t \in Threads : OpFits(thread[t])

\* lock_for(owner): who is between its acquisition and its release holds it,
\* and only threads of the process do.
LocksHeld ==
  /\ \A t \in Threads : thread[t].pc \in Holding => lock[ProcOf[t]] = t
  /\ \A p \in Procs : lock[p] # NoThread => ProcOf[lock[p]] = p

\* The Redis lock, as long as no commit outlasts it.
IndexLocked == \A t \in Threads : thread[t].pc \in Committing => redis = t

\* The active version and the one before it are whole and older than the next
\* id; what the holder of the Redis lock remembers of them is still so.
VersionsFit ==
  /\ active < fresh /\ before[active] < fresh /\ SnapshotsAreWhole
  /\ \A t \in Threads :
       thread[t].pc = "activating" =>
         /\ thread[t].version < fresh /\ thread[t].version # active
         /\ thread[t].previous = active
         /\ points[thread[t].version] = thread[t].want
  /\ \A t \in Threads :
       thread[t].pc = "cleaning" =>
         /\ thread[t].version = active /\ thread[t].previous = before[active]
         /\ docsOf[active] = thread[t].want

\* A patient owner: the document of an upload is in no other request, and its
\* row and its file are what the upload has made of them.
RowFits(s) ==
  /\ s.op \in {"upload", "undo"} =>
       /\ s.pc \in {"counting", "reserving"} => row[s.doc] = "ABSENT"
       /\ s.pc \in {"storing", "processing"} => row[s.doc] = "UPLOADED"
       /\ s.pc \in {"parsing", "indexing", "locking", "marking"} \cup Committing
            => row[s.doc] = "PROCESSING"
       /\ s.pc \in {"failing", "recording"} => row[s.doc] \in {"UPLOADED", "PROCESSING"}
  /\ s.op = "upload" /\ s.pc \in {"indexing", "locking", "marking"} \cup Committing
       => s.doc \in object
  /\ s.op = "delete" => row[s.doc] = "DELETED"
DocumentsOwned ==
  /\ \A t, u \in Threads :
       t # u /\ thread[t].op \in {"upload", "undo"} => thread[u].doc # thread[t].doc
  /\ \A t \in Threads : RowFits(thread[t])
  /\ \A d \in Docs : row[d] = "READY" => d \in object

\* The processes that have counted and not yet reserved.
Reserving == {p \in Procs : lock[p] \in Threads /\ thread[lock[p]].pc = "reserving"}
QuotaHeld == InUse + Cardinality(Reserving) < MaxDocuments + Cardinality(Procs)

ReadyRows == {d \in Docs : row[d] = "READY"}
AloneFits(t) ==
  /\ \A u \in Threads \ {t} : thread[u].pc = "idle"
  /\ thread[t].op = "search" =>
       /\ thread[t].ready = ReadyRows
       /\ thread[t].pc \in {"locking"} \cup Committing => thread[t].want = ReadyRows
       /\ thread[t].pc \in {"reading", "querying"} => docsOf[active] = ReadyRows
       /\ thread[t].pc = "querying" => thread[t].version = active
Undisturbed == \A t \in Threads : thread[t].alone => AloneFits(t)

\* All threads but t stay.
Others(t) == \A u \in Threads \ {t} : thread'[u] = thread[u]

\* A new program counter; the rest of the thread stays.
Moved(t, pc) ==
  /\ thread'[t].pc = pc /\ thread'[t].op = thread[t].op /\ thread'[t].doc = thread[t].doc
  /\ thread'[t].want = thread[t].want /\ thread'[t].version = thread[t].version
  /\ thread'[t].previous = thread[t].previous /\ thread'[t].ready = thread[t].ready

LEMMA GotoEffect ==
  ASSUME thread \in [Threads -> Thread], NEW t \in Threads, NEW pc \in Pcs, Goto(t, pc)
  PROVE  /\ thread' \in [Threads -> Thread] /\ Moved(t, pc) /\ Others(t)
         /\ thread'[t].alone = thread[t].alone
<1>1. thread[t] \in Thread
  OBVIOUS
<1>2. [thread[t] EXCEPT !.pc = pc] \in Thread
  BY <1>1 DEF Thread
<1>3. thread' = [thread EXCEPT ![t] = [thread[t] EXCEPT !.pc = pc]]
  BY DEF Goto
<1>4. thread'[t] = [thread[t] EXCEPT !.pc = pc]
  BY <1>3
<1>5. Moved(t, pc) /\ thread'[t].alone = thread[t].alone
  BY <1>1, <1>4 DEF Moved, Thread
<1> QED BY <1>2, <1>3, <1>5 DEF Others

LEMMA EndEffect ==
  ASSUME thread \in [Threads -> Thread], NEW t \in Threads, End(t)
  PROVE  thread' \in [Threads -> Thread] /\ thread'[t] = Idle /\ Others(t)
<1>1. Idle \in Thread
  BY DocumentAssumptions DEF Idle, Thread, Pcs, Versions
<1> QED BY <1>1 DEF End, Others


LEMMA LocksKept ==
  ASSUME TypeOK, LocksHeld, NEW t \in Threads, Others(t), lock' = lock,
         thread'[t].pc \in Holding => thread[t].pc \in Holding
  PROVE  LocksHeld'
BY DEF LocksHeld, Others

LEMMA LockTaken ==
  ASSUME TypeOK, LocksHeld, NEW t \in Threads, Others(t), Take(t)
  PROVE  LocksHeld' /\ lock' \in [Procs -> Threads \cup {NoThread}]
BY DocumentAssumptions DEF TypeOK, LocksHeld, Others, Take, Free

LEMMA LockReleased ==
  ASSUME TypeOK, LocksHeld, NEW t \in Threads, Others(t), Release(t),
         thread[t].pc \in Holding, thread'[t].pc \notin Holding
  PROVE  LocksHeld' /\ lock' \in [Procs -> Threads \cup {NoThread}]
BY DocumentAssumptions DEF TypeOK, LocksHeld, Others, Release

LEMMA ShapeKept ==
  ASSUME Shape, NEW t \in Threads, Others(t), OpFits(thread'[t])
  PROVE  Shape'
BY DEF Shape, Others

LEMMA BeginEffect ==
  ASSUME TypeOK, NEW t \in Threads, NEW op, NEW pc \in Pcs, NEW d \in Docs \cup {NoDoc},
         op \in {"upload", "delete", "search"}, Begin(t, op, pc, d)
  PROVE  /\ thread' \in [Threads -> Thread] /\ requests' \in 0 .. MaxRequests
         /\ thread'[t].pc = pc /\ thread'[t].op = op /\ thread'[t].doc = d
         /\ thread'[t].ready = ReadyRows /\ thread'[t].want = {}
         /\ thread'[t].alone => \A u \in Threads \ {t} : thread[u].pc = "idle"
         /\ \A u \in Threads \ {t} : /\ thread'[u] = [thread[u] EXCEPT !.alone = FALSE]
                                     /\ Moved(u, thread[u].pc) /\ ~thread'[u].alone
<1>1. PICK a \in BOOLEAN : a <=> \A v \in Threads \ {t} : thread[v].pc = "idle"
  OBVIOUS
<1>2. PICK new : new = [Idle EXCEPT !.op = op, !.pc = pc, !.doc = d, !.ready = ReadyRows,
                          !.alone = \A v \in Threads \ {t} : thread[v].pc = "idle"]
  OBVIOUS
<1>3. thread' = [u \in Threads |->
                   IF u # t THEN [thread[u] EXCEPT !.alone = FALSE] ELSE new]
  BY <1>2 DEF Begin, ReadyRows
<1>4. new = [pc |-> pc, op |-> op, doc |-> d, want |-> {}, version |-> 0, previous |-> 0,
             ready |-> ReadyRows, alone |-> a]
  BY <1>1, <1>2, Zenon DEF Idle
<1>5. new \in Thread
  BY <1>4, DocumentAssumptions DEF Thread, Versions, ReadyRows
<1>6. \A u \in Threads : [thread[u] EXCEPT !.alone = FALSE] \in Thread
  BY DEF TypeOK, Thread
<1>7. thread'[t] = new /\ \A u \in Threads \ {t} : thread'[u] = [thread[u] EXCEPT !.alone = FALSE]
  BY <1>3
<1>8. thread' \in [Threads -> Thread]
  BY <1>3, <1>5, <1>6
<1>9. requests < MaxRequests /\ requests' = requests + 1
  BY DEF Begin
<1>10. requests' \in 0 .. MaxRequests
  BY <1>9, DocumentAssumptions DEF TypeOK
<1>11. \A u \in Threads \ {t} : Moved(u, thread[u].pc) /\ ~thread'[u].alone
  <2> TAKE u \in Threads \ {t}
  <2>1. thread'[u] = [thread[u] EXCEPT !.alone = FALSE]
    BY <1>7
  <2>2. thread[u] \in Thread
    BY DEF TypeOK
  <2> QED BY <2>1, <2>2 DEF Moved, Thread
<1> QED BY <1>1, <1>4, <1>7, <1>8, <1>10, <1>11

-----------------------------------------------------------------------------
(* The steps of a thread, grouped as the module groups them.               *)

UploadStep(t) ==
  \/ \E d \in Docs : BeginUpload(t, d)
  \/ CountDocuments(t) \/ Reserve(t) \/ Store(t) \/ SetProcessing(t) \/ Parse(t)
IndexStep(t) == AddToIndex(t) \/ LockIndex(t) \/ Upsert(t) \/ Activate(t) \/ Clean(t)
DocumentStep(t) ==
  \/ MarkReady(t) \/ MarkFails(t) \/ DiscardFile(t) \/ MarkFailed(t)
  \/ \E d \in Docs : Delete(t, d)
  \/ Unindex(t) \/ EraseFile(t)
SearchStep(t) ==
  \/ BeginSearch(t) \/ Check(t) \/ Rebuild(t) \/ ReadSnapshot(t) \/ Query(t)
  \/ LockExpires(t)

LEMMA NextCases ==
  Next => \/ \E t \in Threads : UploadStep(t) \/ IndexStep(t) \/ DocumentStep(t) \/ SearchStep(t)
          \/ \E p \in Procs : Crash(p)
BY DEF Next, UploadStep, IndexStep, DocumentStep, SearchStep

-----------------------------------------------------------------------------
(* Types, shapes and process locks.                                        *)

Basic == TypeOK /\ Shape /\ LocksHeld

LEMMA BasicFacts ==
  ASSUME Basic, NEW t \in Threads
  PROVE  /\ thread \in [Threads -> Thread] /\ thread[t] \in Thread
         /\ ProcOf[t] \in Procs /\ OpFits(thread[t])
         /\ thread[t].op \in {"upload", "undo", "delete"} => thread[t].doc \in Docs
BY DocumentAssumptions DEF Basic, TypeOK, Shape, OpFits

\* The new program counter fits the operation of the thread.
LEMMA BasicGoto ==
  ASSUME Basic, NEW t \in Threads, NEW pc \in Pcs, Goto(t, pc),
         OpFits([thread[t] EXCEPT !.pc = pc])
  PROVE  /\ thread' \in [Threads -> Thread] /\ Moved(t, pc) /\ Others(t) /\ Shape'
         /\ thread'[t].alone = thread[t].alone
<1>1. thread[t] \in Thread /\ thread \in [Threads -> Thread]
  BY BasicFacts
<1>2. /\ thread' \in [Threads -> Thread] /\ Moved(t, pc) /\ Others(t)
      /\ thread'[t].alone = thread[t].alone
  BY <1>1, GotoEffect
<1>3. thread'[t] = [thread[t] EXCEPT !.pc = pc]
  BY <1>1 DEF Goto
<1> QED BY <1>2, <1>3, ShapeKept DEF Basic

LEMMA BasicEnd ==
  ASSUME Basic, NEW t \in Threads, End(t)
  PROVE  /\ thread' \in [Threads -> Thread] /\ thread'[t] = Idle /\ Others(t) /\ Shape'
<1>1. thread' \in [Threads -> Thread] /\ thread'[t] = Idle /\ Others(t)
  BY BasicFacts, EndEffect
<1>2. OpFits(Idle)
  BY DocumentAssumptions DEF OpFits, Idle, Uploading, Committing
<1> QED BY <1>1, <1>2, ShapeKept DEF Basic

LEMMA BasicBegin ==
  ASSUME Basic, NEW t \in Threads, NEW op, NEW pc, NEW d,
         \/ op = "upload" /\ pc = "counting" /\ d \in Docs
         \/ op = "delete" /\ pc = "unindexing" /\ d \in Docs
         \/ op = "search" /\ pc = "checking" /\ d = NoDoc,
         Begin(t, op, pc, d), lock' = lock
  PROVE  /\ thread' \in [Threads -> Thread] /\ requests' \in 0 .. MaxRequests
         /\ thread'[t].pc = pc /\ thread'[t].op = op /\ thread'[t].doc = d
         /\ thread'[t].ready = ReadyRows /\ thread'[t].want = {}
         /\ thread'[t].alone => \A u \in Threads \ {t} : thread[u].pc = "idle"
         /\ \A u \in Threads \ {t} : Moved(u, thread[u].pc) /\ ~thread'[u].alone
         /\ thread[t].pc = "idle"
         /\ Shape' /\ LocksHeld'
<1>1. TypeOK /\ pc \in Pcs /\ d \in Docs \cup {NoDoc} /\ op \in {"upload", "delete", "search"}
  BY DEF Basic, Pcs
<1>2. /\ thread' \in [Threads -> Thread] /\ requests' \in 0 .. MaxRequests
      /\ thread'[t].pc = pc /\ thread'[t].op = op /\ thread'[t].doc = d
      /\ thread'[t].ready = ReadyRows /\ thread'[t].want = {}
      /\ thread'[t].alone => \A u \in Threads \ {t} : thread[u].pc = "idle"
      /\ \A u \in Threads \ {t} : /\ thread'[u] = [thread[u] EXCEPT !.alone = FALSE]
                                  /\ Moved(u, thread[u].pc) /\ ~thread'[u].alone
  BY <1>1, BeginEffect, Zenon
<1>3. thread[t].pc = "idle"
  BY DEF Begin, At
<1>4. Shape'
  BY <1>2, BasicFacts DEF Basic, Shape, OpFits, Uploading, Committing, Idle, Thread
<1>5. LocksHeld'
  BY <1>2, <1>3 DEF Basic, LocksHeld, Moved, Holding, Committing
<1> QED BY <1>2, <1>3, <1>4, <1>5

LEMMA UploadBasic ==
  ASSUME Basic, NEW t \in Threads, UploadStep(t)
  PROVE  Basic'
<1> USE BasicFacts DEF Basic
<1>1. ASSUME NEW d \in Docs, BeginUpload(t, d) PROVE Basic'
  <2>1. Begin(t, "upload", "counting", d) /\ lock' = lock
    BY <1>1 DEF BeginUpload
  <2>2. /\ thread' \in [Threads -> Thread] /\ requests' \in 0 .. MaxRequests
        /\ Shape' /\ LocksHeld'
    BY <2>1, BasicBegin
  <2> QED BY <1>1, <2>2 DEF BeginUpload, store, TypeOK
<1>2. CASE CountDocuments(t)
  <2>1. CASE End(t) /\ UNCHANGED lock
    <3>1. thread' \in [Threads -> Thread] /\ thread'[t] = Idle /\ Others(t) /\ Shape'
      BY <2>1, BasicEnd
    <3>2. LocksHeld'
      BY <3>1, <2>1, LocksKept DEF Idle, Holding, Committing
    <3> QED BY <1>2, <2>1, <3>1, <3>2 DEF CountDocuments, store, bounds, TypeOK
  <2>2. CASE Take(t) /\ Goto(t, "reserving")
    <3>1. thread' \in [Threads -> Thread] /\ Others(t) /\ Shape'
      BY <1>2, <2>2, BasicGoto DEF Pcs, OpFits, Uploading, Committing, CountDocuments, At
    <3>2. LocksHeld' /\ lock' \in [Procs -> Threads \cup {NoThread}]
      BY <2>2, <3>1, LockTaken
    <3> QED BY <1>2, <3>1, <3>2 DEF CountDocuments, store, bounds, TypeOK
  <2> QED BY <1>2, <2>1, <2>2 DEF CountDocuments
<1>3. CASE Reserve(t)
  <2>1. /\ thread' \in [Threads -> Thread] /\ Moved(t, "storing") /\ Others(t) /\ Shape'
    BY <1>3, BasicGoto DEF Reserve, At, Pcs, OpFits, Uploading, Committing
  <2>2. LocksHeld' /\ lock' \in [Procs -> Threads \cup {NoThread}]
    BY <1>3, <2>1, LockReleased DEF Reserve, At, Moved, Holding, Committing
  <2> QED BY <1>3, <2>1, <2>2 DEF Reserve, store, bounds, TypeOK, Statuses
<1>4. CASE Store(t)
  <2>1. PICK pc \in {"processing", "failing"} : Goto(t, pc)
    BY <1>4 DEF Store
  <2>2. /\ thread' \in [Threads -> Thread] /\ Moved(t, pc) /\ Others(t) /\ Shape'
    BY <1>4, <2>1, BasicGoto DEF Store, At, Pcs, OpFits, Uploading, Committing
  <2>3. LocksHeld'
    BY <1>4, <2>2, LocksKept DEF Store, Moved, Holding, Committing
  <2>4. thread[t].doc \in Docs
    BY <1>4 DEF Store, At, OpFits, Uploading
  <2> QED BY <1>4, <2>2, <2>3, <2>4 DEF Store, store, bounds, TypeOK
<1>5. CASE SetProcessing(t)
  <2>1. /\ thread' \in [Threads -> Thread] /\ Moved(t, "parsing") /\ Others(t) /\ Shape'
    BY <1>5, BasicGoto DEF SetProcessing, At, Pcs, OpFits, Uploading, Committing
  <2>2. LocksHeld'
    BY <1>5, <2>1, LocksKept DEF SetProcessing, Moved, Holding, Committing
  <2> QED BY <1>5, <2>1, <2>2 DEF SetProcessing, store, bounds, TypeOK, Statuses
<1>6. CASE Parse(t)
  <2>1. PICK pc \in {"indexing", "failing"} : Goto(t, pc)
    BY <1>6 DEF Parse
  <2>2. /\ thread' \in [Threads -> Thread] /\ Moved(t, pc) /\ Others(t) /\ Shape'
    BY <1>6, <2>1, BasicGoto DEF Parse, At, Pcs, OpFits, Uploading, Committing
  <2>3. LocksHeld'
    BY <1>6, <2>2, LocksKept DEF Parse, Moved, Holding, Committing
  <2> QED BY <1>6, <2>2, <2>3 DEF Parse, store, bounds, TypeOK
<1> QED BY <1>1, <1>2, <1>3, <1>4, <1>5, <1>6 DEF UploadStep

\* A commit begins, is given up, or goes on to what follows it.
LEMMA CommitsEffect ==
  ASSUME Basic, NEW t \in Threads, NEW docs \in SUBSET Docs, Commits(t, docs),
         thread[t].op # "none"
  PROVE  /\ thread' \in [Threads -> Thread] /\ Others(t) /\ Shape'
         /\ thread'[t].pc = "locking" /\ thread'[t].want = docs
         /\ thread'[t].op = thread[t].op /\ thread'[t].doc = thread[t].doc
         /\ thread'[t].ready = thread[t].ready /\ thread'[t].alone = thread[t].alone
<1>1. thread' = [thread EXCEPT ![t] = [thread[t] EXCEPT !.pc = "locking", !.want = docs]]
  BY BasicFacts DEF Commits
<1>2. [thread[t] EXCEPT !.pc = "locking", !.want = docs] \in Thread
  <2>1. thread[t] \in Thread /\ "locking" \in Pcs
    BY BasicFacts DEF Pcs
  <2>. QED BY ONLY <2>1, docs \in SUBSET Docs DEF Thread
<1>3. thread' \in [Threads -> Thread] /\ Others(t)
  BY <1>1, <1>2, BasicFacts DEF Others
<1>4. thread'[t] = [thread[t] EXCEPT !.pc = "locking", !.want = docs]
  BY <1>1, BasicFacts
<1>5. /\ thread'[t].pc = "locking" /\ thread'[t].want = docs
      /\ thread'[t].op = thread[t].op /\ thread'[t].doc = thread[t].doc
      /\ thread'[t].ready = thread[t].ready /\ thread'[t].alone = thread[t].alone
  BY <1>4, BasicFacts DEF Thread
<1>6. OpFits(thread'[t])
  BY <1>5, BasicFacts DEF OpFits, Uploading, Committing
<1> QED BY <1>3, <1>5, <1>6, ShapeKept DEF Basic

LEMMA AbandonEffect ==
  ASSUME Basic, NEW t \in Threads, Abandon(t), thread[t].pc \in {"locking", "upserting"}
  PROVE  /\ thread' \in [Threads -> Thread] /\ Others(t) /\ Shape'
         /\ \/ thread[t].op \in {"upload", "undo"} /\ Moved(t, "failing")
            \/ thread[t].op = "delete" /\ Moved(t, "erasing")
            \/ thread[t].op = "search" /\ thread'[t] = Idle
         /\ thread'[t].alone => thread[t].alone
<1>1. thread[t].op \in {"upload", "undo", "delete", "search"}
  BY BasicFacts DEF OpFits, Committing, Thread
<1>2. CASE thread[t].op \in {"upload", "undo"}
  <2>1. Goto(t, "failing")
    BY <1>2 DEF Abandon
  <2>2. OpFits([thread[t] EXCEPT !.pc = "failing"]) /\ "failing" \in Pcs
    BY <1>2, BasicFacts DEF OpFits, Uploading, Committing, Pcs, Thread
  <2> QED BY <1>2, <2>1, <2>2, BasicGoto
<1>3. CASE thread[t].op = "delete"
  BY <1>3, BasicGoto, BasicFacts DEF Abandon, OpFits, Uploading, Committing, Pcs, Thread
<1>4. CASE thread[t].op = "search"
  <2>1. thread' \in [Threads -> Thread] /\ thread'[t] = Idle /\ Others(t) /\ Shape'
    BY <1>4, BasicEnd DEF Abandon
  <2> QED BY <1>4, <2>1 DEF Idle
<1> QED BY <1>1, <1>2, <1>3, <1>4

LEMMA AfterEffect ==
  ASSUME Basic, NEW t \in Threads, Goto(t, After(t)), thread[t].pc = "cleaning"
  PROVE  /\ thread' \in [Threads -> Thread] /\ Others(t) /\ Shape' /\ Moved(t, After(t))
         /\ thread'[t].alone = thread[t].alone
         /\ \/ thread[t].op = "upload" /\ After(t) = "marking"
            \/ thread[t].op = "undo" /\ After(t) = "failing"
            \/ thread[t].op = "delete" /\ After(t) = "erasing"
            \/ thread[t].op = "search" /\ After(t) = "reading"
<1>1. thread[t].op \in {"upload", "undo", "delete", "search"}
  BY BasicFacts DEF OpFits, Committing, Thread
<1>2. \/ thread[t].op = "upload" /\ After(t) = "marking"
      \/ thread[t].op = "undo" /\ After(t) = "failing"
      \/ thread[t].op = "delete" /\ After(t) = "erasing"
      \/ thread[t].op = "search" /\ After(t) = "reading"
  BY <1>1 DEF After
<1>3. PICK pc \in {"marking", "failing", "erasing", "reading"} : pc = After(t)
  BY <1>2
<1>4. OpFits([thread[t] EXCEPT !.pc = pc]) /\ pc \in Pcs
  BY <1>2, <1>3, BasicFacts DEF OpFits, Uploading, Committing, Pcs, Thread
<1>5. Goto(t, pc)
  BY <1>3
<1> QED BY <1>2, <1>3, <1>4, <1>5, BasicGoto

LEMMA UpsertEffect ==
  ASSUME Basic, NEW t \in Threads, fresh \in Versions, thread[t].pc = "upserting",
         thread' = [thread EXCEPT ![t].pc = "activating", ![t].version = fresh,
                                  ![t].previous = active]
  PROVE  /\ thread' \in [Threads -> Thread] /\ Others(t) /\ OpFits(thread'[t])
         /\ thread'[t].pc = "activating" /\ thread'[t].version = fresh
         /\ thread'[t].previous = active
         /\ thread'[t].op = thread[t].op /\ thread'[t].doc = thread[t].doc
         /\ thread'[t].want = thread[t].want
         /\ thread'[t].ready = thread[t].ready /\ thread'[t].alone = thread[t].alone
<1>1. PICK new : new = [thread[t] EXCEPT !.pc = "activating", !.version = fresh, !.previous = active]
  OBVIOUS
<1>2. thread' = [thread EXCEPT ![t] = new]
  BY <1>1, BasicFacts
<1>3. new \in Thread
  <2>1. thread[t] \in Thread /\ "activating" \in Pcs /\ active \in Versions
    BY BasicFacts DEF Basic, TypeOK, Pcs
  <2>. QED BY ONLY <1>1, <2>1, fresh \in Versions DEF Thread
<1>4. thread' \in [Threads -> Thread] /\ Others(t) /\ thread'[t] = new
  BY <1>2, <1>3, BasicFacts DEF Others
<1>5. /\ new.pc = "activating" /\ new.version = fresh
      /\ new.previous = active
      /\ new.op = thread[t].op /\ new.doc = thread[t].doc
      /\ new.want = thread[t].want
      /\ new.ready = thread[t].ready /\ new.alone = thread[t].alone
  BY <1>1, BasicFacts DEF Thread
<1>6. OpFits(new)
  BY <1>5, BasicFacts DEF OpFits, Uploading, Committing
<1> QED BY <1>4, <1>5, <1>6

LEMMA IndexBasic ==
  ASSUME Basic, NEW t \in Threads, IndexStep(t)
  PROVE  Basic'
<1> USE BasicFacts DEF Basic
<1>1. CASE AddToIndex(t)
  <2>1. thread[t].op = "upload" /\ thread[t].doc \in Docs
    BY <1>1 DEF AddToIndex, At, OpFits, Uploading
  <2>2. CASE Take(t) /\ Load(ProcOf[t]) /\ Commits(t, docsOf[active] \cup {thread[t].doc})
    <3>1. docsOf[active] \cup {thread[t].doc} \in SUBSET Docs
      BY <2>1 DEF TypeOK
    <3>2. thread' \in [Threads -> Thread] /\ Others(t) /\ Shape'
      BY <2>1, <2>2, <3>1, CommitsEffect
    <3>3. LocksHeld' /\ lock' \in [Procs -> Threads \cup {NoThread}]
      BY <2>2, <3>2, LockTaken
    <3> QED BY <1>1, <2>2, <3>2, <3>3 DEF AddToIndex, Load, bounds, TypeOK
  <2>3. CASE Free(t) /\ Goto(t, "failing") /\ UNCHANGED <<lock, cached>>
    <3>1. thread' \in [Threads -> Thread] /\ Moved(t, "failing") /\ Others(t) /\ Shape'
      BY <2>1, <2>3, BasicGoto DEF Pcs, OpFits, Uploading, Committing
    <3>2. LocksHeld'
      BY <2>3, <3>1, LocksKept DEF Moved, Holding, Committing
    <3> QED BY <1>1, <2>3, <3>1, <3>2 DEF AddToIndex, bounds, TypeOK
  <2> QED BY <1>1, <2>2, <2>3 DEF AddToIndex
<1>2. CASE LockIndex(t)
  <2>1. thread[t].pc = "locking"
    BY <1>2 DEF LockIndex, At
  <2>2. CASE redis = NoThread /\ redis' = t /\ Goto(t, "upserting") /\ UNCHANGED lock
    <3>1. thread' \in [Threads -> Thread] /\ Moved(t, "upserting") /\ Others(t) /\ Shape'
      BY <2>1, <2>2, BasicGoto DEF Pcs, OpFits, Uploading, Committing
    <3>2. LocksHeld'
      BY <2>1, <2>2, <3>1, LocksKept DEF Moved, Holding, Committing
    <3> QED BY <1>2, <2>2, <3>1, <3>2 DEF LockIndex, store, bounds, TypeOK
  <2>3. CASE Abandon(t) /\ Release(t) /\ UNCHANGED redis
    <3>1. thread' \in [Threads -> Thread] /\ Others(t) /\ Shape' /\ thread'[t].pc \notin Holding
      BY <2>1, <2>3, AbandonEffect DEF Moved, Idle, Holding, Committing
    <3>2. LocksHeld' /\ lock' \in [Procs -> Threads \cup {NoThread}]
      BY <2>1, <2>3, <3>1, LockReleased DEF Holding
    <3> QED BY <1>2, <2>3, <3>1, <3>2 DEF LockIndex, store, bounds, TypeOK
  <2> QED BY <1>2, <2>2, <2>3 DEF LockIndex
<1>3. CASE Upsert(t)
  <2>1. /\ thread[t].pc = "upserting" /\ fresh \in Versions \ {0} /\ fresh' \in 1 .. MaxVersions + 1
        /\ thread[t].want \in SUBSET Docs
    BY <1>3, DocumentAssumptions DEF Upsert, At, TypeOK, Versions, Thread
  <2>2. points' \in [Versions -> SUBSET Docs]
    BY <1>3, <2>1 DEF Upsert, TypeOK
  <2>3. CASE /\ thread' = [thread EXCEPT ![t].pc = "activating", ![t].version = fresh,
                                        ![t].previous = active]
             /\ UNCHANGED <<lock, redis>>
    <3>1. /\ thread' \in [Threads -> Thread] /\ Others(t) /\ OpFits(thread'[t])
          /\ thread'[t].pc = "activating"
      BY <2>1, <2>3, UpsertEffect
    <3>2. Shape' /\ LocksHeld'
      BY <2>1, <2>3, <3>1, ShapeKept, LocksKept DEF Holding, Committing
    <3> QED BY <1>3, <2>1, <2>2, <2>3, <3>1, <3>2 DEF Upsert, bounds, TypeOK
  <2>4. CASE Abandon(t) /\ Release(t) /\ Unlocks(t)
    <3>1. thread' \in [Threads -> Thread] /\ Others(t) /\ Shape' /\ thread'[t].pc \notin Holding
      BY <2>1, <2>4, AbandonEffect DEF Moved, Idle, Holding, Committing
    <3>2. LocksHeld' /\ lock' \in [Procs -> Threads \cup {NoThread}]
      BY <2>1, <2>4, <3>1, LockReleased DEF Holding, Committing
    <3> QED BY <1>3, <2>1, <2>2, <2>4, <3>1, <3>2 DEF Upsert, Unlocks, bounds, TypeOK
  <2> QED BY <1>3, <2>3, <2>4 DEF Upsert
<1>4. CASE Activate(t)
  <2>1. thread[t].pc = "activating"
    BY <1>4 DEF Activate, At
  <2>2. thread' \in [Threads -> Thread] /\ Moved(t, "cleaning") /\ Others(t) /\ Shape'
    BY <1>4, <2>1, BasicGoto DEF Activate, Pcs, OpFits, Uploading, Committing
  <2>3. LocksHeld'
    BY <1>4, <2>1, <2>2, LocksKept DEF Activate, Moved, Holding, Committing
  <2>4. thread[t].version \in Versions /\ thread[t].want \in SUBSET Docs
    BY DEF Thread
  <2>5. /\ active' \in Versions /\ docsOf' \in [Versions -> SUBSET Docs]
        /\ before' \in [Versions -> Versions] /\ cached' \in [Procs -> Versions]
    BY <1>4, <2>4 DEF Activate, TypeOK
  <2> QED BY <1>4, <2>2, <2>3, <2>5 DEF Activate, bounds, TypeOK
<1>5. CASE Clean(t)
  <2>1. thread[t].pc = "cleaning" /\ Goto(t, After(t))
    BY <1>5 DEF Clean, At
  <2>2. /\ thread' \in [Threads -> Thread] /\ Others(t) /\ Shape' /\ Moved(t, After(t))
        /\ After(t) = "marking" <=> thread[t].op = "upload"
        /\ After(t) \in {"marking", "failing", "erasing", "reading"}
    BY <2>1, AfterEffect
  <2>3. LocksHeld' /\ lock' \in [Procs -> Threads \cup {NoThread}]
    <3>1. CASE thread[t].op = "upload"
      BY <1>5, <2>1, <2>2, <3>1, LocksKept DEF Clean, Moved, Holding, Committing, TypeOK
    <3>2. CASE thread[t].op # "upload"
      BY <1>5, <2>1, <2>2, <3>2, LockReleased DEF Clean, Moved, Holding, Committing
    <3> QED BY <3>1, <3>2
  <2>4. points' \in [Versions -> SUBSET Docs] /\ redis' \in Threads \cup {NoThread}
    BY <1>5 DEF Clean, Unlocks, TypeOK
  <2> QED BY <1>5, <2>2, <2>3, <2>4 DEF Clean, bounds, TypeOK
<1> QED BY <1>1, <1>2, <1>3, <1>4, <1>5 DEF IndexStep

LEMMA UndoEffect ==
  ASSUME Basic, NEW t \in Threads, thread[t].pc = "marking", thread[t].op = "upload",
         thread' = [thread EXCEPT ![t].op = "undo", ![t].pc = "locking",
                                  ![t].want = docsOf[active] \ {thread[t].doc}]
  PROVE  /\ thread' \in [Threads -> Thread] /\ Others(t) /\ OpFits(thread'[t])
         /\ thread'[t].pc = "locking" /\ thread'[t].op = "undo"
         /\ thread'[t].doc = thread[t].doc /\ thread'[t].alone = thread[t].alone
<1>1. PICK new : new = [thread[t] EXCEPT !.op = "undo", !.pc = "locking",
                                         !.want = docsOf[active] \ {thread[t].doc}]
  OBVIOUS
<1>2. thread' = [thread EXCEPT ![t] = new]
  BY <1>1, BasicFacts
<1>3. new \in Thread
  <2>1. thread[t] \in Thread /\ "locking" \in Pcs
    BY BasicFacts DEF Pcs
  <2>2. docsOf[active] \ {thread[t].doc} \in SUBSET Docs
    BY DEF Basic, TypeOK
  <2>. PICK docs : docs = docsOf[active] \ {thread[t].doc}
    OBVIOUS
  <2>3. new = [thread[t] EXCEPT !.op = "undo", !.pc = "locking", !.want = docs] /\ docs \in SUBSET Docs
    BY <1>1, <2>2
  <2>. QED BY ONLY <2>1, <2>3 DEF Thread
<1>4. thread' \in [Threads -> Thread] /\ Others(t) /\ thread'[t] = new
  <2>1. thread \in [Threads -> Thread]
    BY BasicFacts
  <2>. QED BY ONLY <1>2, <1>3, <2>1, t \in Threads DEF Others
<1>5. new.pc = "locking" /\ new.op = "undo" /\ new.doc = thread[t].doc /\ new.alone = thread[t].alone
  BY <1>1, BasicFacts DEF Thread
<1>6. OpFits(new)
  BY <1>5, BasicFacts DEF OpFits, Uploading, Committing
<1> QED BY <1>4, <1>5, <1>6

LEMMA ReadEffect ==
  ASSUME Basic, NEW t \in Threads, thread[t].pc = "reading",
         thread' = [thread EXCEPT ![t].pc = "querying", ![t].version = active]
  PROVE  /\ thread' \in [Threads -> Thread] /\ Others(t) /\ OpFits(thread'[t])
         /\ thread'[t].pc = "querying" /\ thread'[t].version = active
         /\ thread'[t].op = thread[t].op /\ thread'[t].doc = thread[t].doc
         /\ thread'[t].ready = thread[t].ready /\ thread'[t].alone = thread[t].alone
<1>1. PICK new : new = [thread[t] EXCEPT !.pc = "querying", !.version = active]
  OBVIOUS
<1>2. thread' = [thread EXCEPT ![t] = new]
  BY <1>1, BasicFacts
<1>3. new \in Thread
  <2>1. thread[t] \in Thread /\ "querying" \in Pcs /\ active \in Versions
    BY BasicFacts DEF Basic, TypeOK, Pcs
  <2>. QED BY ONLY <1>1, <2>1 DEF Thread
<1>4. thread' \in [Threads -> Thread] /\ Others(t) /\ thread'[t] = new
  BY <1>2, <1>3, BasicFacts DEF Others
<1>5. /\ new.pc = "querying" /\ new.version = active /\ new.op = thread[t].op
      /\ new.doc = thread[t].doc /\ new.ready = thread[t].ready /\ new.alone = thread[t].alone
  BY <1>1, BasicFacts DEF Thread
<1>6. OpFits(new)
  BY <1>5, BasicFacts DEF OpFits, Uploading, Committing
<1> QED BY <1>4, <1>5, <1>6

LEMMA DocumentBasic ==
  ASSUME Basic, NEW t \in Threads, DocumentStep(t)
  PROVE  Basic'
<1> USE BasicFacts DEF Basic
<1>1. CASE MarkReady(t)
  <2>1. thread' \in [Threads -> Thread] /\ thread'[t] = Idle /\ Others(t) /\ Shape'
    BY <1>1, BasicEnd DEF MarkReady
  <2>2. LocksHeld' /\ lock' \in [Procs -> Threads \cup {NoThread}]
    BY <1>1, <2>1, LockReleased DEF MarkReady, At, Idle, Holding, Committing
  <2> QED BY <1>1, <2>1, <2>2 DEF MarkReady, store, bounds, TypeOK, Statuses
<1>2. CASE MarkFails(t)
  <2>1. thread[t].pc = "marking" /\ thread[t].op = "upload" /\ thread[t].doc \in Docs
    BY <1>2 DEF MarkFails, At, OpFits, Uploading
  <2>2. CASE /\ thread' = [thread EXCEPT ![t].op = "undo", ![t].pc = "locking",
                                        ![t].want = docsOf[active] \ {thread[t].doc}]
             /\ Load(ProcOf[t]) /\ UNCHANGED lock
    <3>1. /\ thread' \in [Threads -> Thread] /\ Others(t) /\ OpFits(thread'[t])
          /\ thread'[t].pc = "locking"
      BY <2>1, <2>2, UndoEffect
    <3>2. Shape' /\ LocksHeld'
      BY <2>1, <2>2, <3>1, ShapeKept, LocksKept DEF Holding
    <3> QED BY <1>2, <2>2, <3>1, <3>2 DEF MarkFails, Load, bounds, TypeOK
  <2>3. CASE Release(t) /\ Goto(t, "failing") /\ UNCHANGED cached
    <3>1. thread' \in [Threads -> Thread] /\ Moved(t, "failing") /\ Others(t) /\ Shape'
      BY <2>1, <2>3, BasicGoto DEF Pcs, OpFits, Uploading, Committing
    <3>2. LocksHeld' /\ lock' \in [Procs -> Threads \cup {NoThread}]
      BY <2>1, <2>3, <3>1, LockReleased DEF Moved, Holding, Committing
    <3> QED BY <1>2, <2>3, <3>1, <3>2 DEF MarkFails, bounds, TypeOK
  <2> QED BY <1>2, <2>2, <2>3 DEF MarkFails
<1>3. CASE DiscardFile(t)
  <2>1. thread' \in [Threads -> Thread] /\ Moved(t, "recording") /\ Others(t) /\ Shape'
    BY <1>3, BasicGoto DEF DiscardFile, At, Pcs, OpFits, Uploading, Committing
  <2>2. LocksHeld'
    BY <1>3, <2>1, LocksKept DEF DiscardFile, Moved, Holding, Committing
  <2> QED BY <1>3, <2>1, <2>2 DEF DiscardFile, store, bounds, TypeOK
<1>4. CASE MarkFailed(t)
  <2>1. thread' \in [Threads -> Thread] /\ thread'[t] = Idle /\ Others(t) /\ Shape'
    BY <1>4, BasicEnd DEF MarkFailed
  <2>2. LocksHeld'
    BY <1>4, <2>1, LocksKept DEF MarkFailed, Idle, Holding, Committing
  <2>3. row' \in [Docs -> Statuses]
    BY <1>4 DEF MarkFailed, TypeOK, Statuses
  <2> QED BY <1>4, <2>1, <2>2, <2>3 DEF MarkFailed, store, bounds, TypeOK
<1>5. ASSUME NEW d \in Docs, Delete(t, d) PROVE Basic'
  <2>1. Begin(t, "delete", "unindexing", d) /\ lock' = lock
    BY <1>5 DEF Delete
  <2>2. thread' \in [Threads -> Thread] /\ requests' \in 0 .. MaxRequests /\ Shape' /\ LocksHeld'
    BY <2>1, BasicBegin
  <2> QED BY <1>5, <2>2 DEF Delete, store, TypeOK, Statuses
<1>6. CASE Unindex(t)
  <2>1. thread[t].pc = "unindexing" /\ thread[t].op = "delete"
    BY <1>6 DEF Unindex, At, OpFits
  <2>2. CASE Free(t) /\ Goto(t, "erasing") /\ UNCHANGED <<lock, cached>>
    <3>1. thread' \in [Threads -> Thread] /\ Moved(t, "erasing") /\ Others(t) /\ Shape'
      BY <2>1, <2>2, BasicGoto DEF Pcs, OpFits, Uploading, Committing
    <3>2. LocksHeld'
      BY <2>2, <3>1, LocksKept DEF Moved, Holding, Committing
    <3> QED BY <1>6, <2>2, <3>1, <3>2 DEF Unindex, bounds, TypeOK
  <2>3. CASE Take(t) /\ Load(ProcOf[t]) /\ Commits(t, docsOf[active] \ {thread[t].doc})
    <3>1. docsOf[active] \ {thread[t].doc} \in SUBSET Docs
      BY DEF TypeOK
    <3>2. thread' \in [Threads -> Thread] /\ Others(t) /\ Shape'
      BY <2>1, <2>3, <3>1, CommitsEffect
    <3>3. LocksHeld' /\ lock' \in [Procs -> Threads \cup {NoThread}]
      BY <2>3, <3>2, LockTaken
    <3> QED BY <1>6, <2>3, <3>2, <3>3 DEF Unindex, Load, bounds, TypeOK
  <2> QED BY <1>6, <2>2, <2>3 DEF Unindex
<1>7. CASE EraseFile(t)
  <2>1. thread' \in [Threads -> Thread] /\ thread'[t] = Idle /\ Others(t) /\ Shape'
    BY <1>7, BasicEnd DEF EraseFile
  <2>2. LocksHeld'
    BY <1>7, <2>1, LocksKept DEF EraseFile, Idle, Holding, Committing
  <2> QED BY <1>7, <2>1, <2>2 DEF EraseFile, store, bounds, TypeOK
<1> QED BY <1>1, <1>2, <1>3, <1>4, <1>5, <1>6, <1>7 DEF DocumentStep

LEMMA SearchBasic ==
  ASSUME Basic, NEW t \in Threads, SearchStep(t)
  PROVE  Basic'
<1> USE BasicFacts DEF Basic
<1>1. CASE BeginSearch(t)
  <2>1. Begin(t, "search", "checking", NoDoc) /\ lock' = lock
    BY <1>1 DEF BeginSearch
  <2>2. thread' \in [Threads -> Thread] /\ requests' \in 0 .. MaxRequests /\ Shape' /\ LocksHeld'
    BY <2>1, BasicBegin
  <2> QED BY <1>1, <2>2 DEF BeginSearch, store, TypeOK
<1>2. CASE Check(t)
  <2>1. CASE Load(ProcOf[t]) /\ Goto(t, IF IsConsistent(t) THEN "reading" ELSE "rebuilding")
    <3>1. PICK pc \in {"reading", "rebuilding"} : Goto(t, pc)
      BY <2>1
    <3>2. thread' \in [Threads -> Thread] /\ Moved(t, pc) /\ Others(t) /\ Shape'
      BY <1>2, <3>1, BasicGoto DEF Check, At, Pcs, OpFits, Uploading, Committing
    <3>3. LocksHeld'
      BY <1>2, <3>2, LocksKept DEF Check, Moved, Holding, Committing
    <3> QED BY <1>2, <2>1, <3>2, <3>3 DEF Check, Load, bounds, TypeOK
  <2>2. CASE End(t) /\ UNCHANGED cached
    <3>1. thread' \in [Threads -> Thread] /\ thread'[t] = Idle /\ Others(t) /\ Shape'
      BY <2>2, BasicEnd
    <3>2. LocksHeld'
      BY <1>2, <3>1, LocksKept DEF Check, Idle, Holding, Committing
    <3> QED BY <1>2, <2>2, <3>1, <3>2 DEF Check, bounds, TypeOK
  <2> QED BY <1>2, <2>1, <2>2 DEF Check
<1>3. CASE Rebuild(t)
  <2>1. CASE Take(t) /\ Commits(t, ReadyRows)
    <3>1. thread[t].op # "none" /\ ReadyRows \in SUBSET Docs
      BY <1>3 DEF Rebuild, At, OpFits, ReadyRows
    <3>2. thread' \in [Threads -> Thread] /\ Others(t) /\ Shape'
      BY <2>1, <3>1, CommitsEffect
    <3>3. LocksHeld' /\ lock' \in [Procs -> Threads \cup {NoThread}]
      BY <2>1, <3>2, LockTaken
    <3> QED BY <1>3, <2>1, <3>2, <3>3 DEF Rebuild, store, bounds, TypeOK
  <2>2. CASE Free(t) /\ End(t) /\ UNCHANGED lock
    <3>1. thread' \in [Threads -> Thread] /\ thread'[t] = Idle /\ Others(t) /\ Shape'
      BY <2>2, BasicEnd
    <3>2. LocksHeld'
      BY <2>2, <3>1, LocksKept DEF Idle, Holding, Committing
    <3> QED BY <1>3, <2>2, <3>1, <3>2 DEF Rebuild, store, bounds, TypeOK
  <2> QED BY <1>3, <2>1, <2>2 DEF Rebuild, ReadyRows
<1>4. CASE ReadSnapshot(t)
  <2>1. CASE /\ Load(ProcOf[t])
             /\ thread' = [thread EXCEPT ![t].pc = "querying", ![t].version = active]
    <3>1. /\ thread' \in [Threads -> Thread] /\ Others(t) /\ OpFits(thread'[t])
          /\ thread'[t].pc = "querying"
      BY <1>4, <2>1, ReadEffect DEF ReadSnapshot, At
    <3>2. Shape' /\ LocksHeld'
      BY <1>4, <3>1, ShapeKept, LocksKept DEF ReadSnapshot, Holding, Committing
    <3> QED BY <1>4, <2>1, <3>1, <3>2 DEF ReadSnapshot, Load, bounds, TypeOK
  <2>2. CASE End(t) /\ UNCHANGED cached
    <3>1. thread' \in [Threads -> Thread] /\ thread'[t] = Idle /\ Others(t) /\ Shape'
      BY <2>2, BasicEnd
    <3>2. LocksHeld'
      BY <1>4, <3>1, LocksKept DEF ReadSnapshot, Idle, Holding, Committing
    <3> QED BY <1>4, <2>2, <3>1, <3>2 DEF ReadSnapshot, bounds, TypeOK
  <2> QED BY <1>4, <2>1, <2>2 DEF ReadSnapshot
<1>5. CASE Query(t)
  <2>1. thread' \in [Threads -> Thread] /\ thread'[t] = Idle /\ Others(t) /\ Shape'
    BY <1>5, BasicEnd DEF Query
  <2>2. LocksHeld'
    BY <1>5, <2>1, LocksKept DEF Query, Idle, Holding, Committing
  <2> QED BY <1>5, <2>1, <2>2 DEF Query, store, bounds, TypeOK
<1>6. CASE LockExpires(t)
  BY <1>6 DEF LockExpires, store, bounds, TypeOK, Shape, LocksHeld
<1> QED BY <1>1, <1>2, <1>3, <1>4, <1>5, <1>6 DEF SearchStep

LEMMA CrashBasic ==
  ASSUME Basic, NEW p \in Procs, Crash(p)
  PROVE  Basic'
<1>1. Idle \in Thread
  BY DocumentAssumptions DEF Idle, Thread, Pcs, Versions
<1>2. thread' \in [Threads -> Thread]
  BY <1>1 DEF Basic, TypeOK, Crash
<1>3. \A t \in Threads : thread'[t] = IF ProcOf[t] = p THEN Idle ELSE thread[t]
  BY DEF Crash
<1>4. OpFits(Idle)
  BY DocumentAssumptions DEF OpFits, Idle, Uploading, Committing
<1>5. Shape'
  BY <1>3, <1>4 DEF Basic, Shape
<1>6. Idle.pc \notin Holding
  BY DEF Idle, Holding, Committing
<1>7. LocksHeld'
  BY <1>3, <1>6, DocumentAssumptions DEF Basic, TypeOK, LocksHeld, Crash
<1>8. crashes' \in 0 .. MaxCrashes
  BY DocumentAssumptions DEF Basic, TypeOK, Crash
<1>9. lock' \in [Procs -> Threads \cup {NoThread}] /\ cached' \in [Procs -> Versions]
  BY DocumentAssumptions DEF Basic, TypeOK, Crash, Versions
<1> QED BY <1>2, <1>5, <1>7, <1>8, <1>9 DEF Basic, TypeOK, Crash


LEMMA BasicStep == Basic /\ [Next]_vars => Basic'
<1> SUFFICES ASSUME Basic, [Next]_vars PROVE Basic'
  OBVIOUS
<1>1. CASE UNCHANGED vars
  BY <1>1 DEF vars, store, Basic, TypeOK, Shape, LocksHeld
<1>2. CASE Next
  BY <1>2, NextCases, UploadBasic, IndexBasic, DocumentBasic, SearchBasic, CrashBasic
<1> QED BY <1>1, <1>2

LEMMA BasicInit == Init => Basic
<1> SUFFICES ASSUME Init PROVE Basic
  OBVIOUS
<1>1. Idle \in Thread /\ OpFits(Idle) /\ Idle.pc \notin Holding
  BY DocumentAssumptions
     DEF Idle, Thread, Pcs, Versions, OpFits, Uploading, Committing, Holding
<1>2. /\ docsOf \in [Versions -> SUBSET Docs] /\ points \in [Versions -> SUBSET Docs]
      /\ before \in [Versions -> Versions] /\ cached \in [Procs -> Versions]
      /\ row \in [Docs -> Statuses] /\ active \in Versions /\ fresh \in 1 .. MaxVersions + 1
  BY DocumentAssumptions DEF Init, Versions, Statuses
<1>3. /\ thread \in [Threads -> Thread] /\ lock \in [Procs -> Threads \cup {NoThread}]
      /\ \A t \in Threads : thread[t] = Idle
  BY <1>1 DEF Init
<1>4. requests \in 0 .. MaxRequests /\ crashes \in 0 .. MaxCrashes
  BY DocumentAssumptions DEF Init
<1> QED BY <1>1, <1>2, <1>3, <1>4, DocumentAssumptions DEF Init, Basic, TypeOK, Shape, LocksHeld

-----------------------------------------------------------------------------
(* What each step does to its thread.                                      *)

\* On to another program counter; the request ends; a commit begins; a commit
\* is given up.
Goes(t, from, to) ==
  /\ thread[t].pc = from /\ Moved(t, to)
  /\ thread'[t].alone = thread[t].alone /\ Others(t)
Ends(t, from) == thread[t].pc = from /\ thread'[t] = Idle /\ Others(t)
Enters(t, from, docs) ==
  /\ thread[t].pc = from /\ Others(t)
  /\ thread'[t].pc = "locking" /\ thread'[t].want = docs
  /\ thread'[t].op = thread[t].op /\ thread'[t].doc = thread[t].doc
  /\ thread'[t].ready = thread[t].ready /\ thread'[t].alone = thread[t].alone
GivesUp(t, from) ==
  \/ thread[t].op \in {"upload", "undo"} /\ Goes(t, from, "failing")
  \/ thread[t].op = "delete" /\ Goes(t, from, "erasing")
  \/ thread[t].op = "search" /\ Ends(t, from)

LEMMA Going ==
  ASSUME Basic, NEW t \in Threads, NEW from \in Pcs, NEW to \in Pcs, At(t, from), Goto(t, to)
  PROVE  Goes(t, from, to)
BY BasicFacts, GotoEffect DEF Goes, At

LEMMA Ending ==
  ASSUME Basic, NEW t \in Threads, NEW from \in Pcs, At(t, from), End(t)
  PROVE  Ends(t, from)
BY BasicFacts, EndEffect DEF Ends, At

LEMMA Entering ==
  ASSUME Basic, NEW t \in Threads, NEW from \in Pcs, NEW docs \in SUBSET Docs,
         At(t, from), thread[t].op # "none", Commits(t, docs)
  PROVE  Enters(t, from, docs)
BY CommitsEffect DEF Enters, At

LEMMA GivingUp ==
  ASSUME Basic, NEW t \in Threads, NEW from \in {"locking", "upserting"}, At(t, from), Abandon(t)
  PROVE  GivesUp(t, from)
<1>1. from \in Pcs /\ thread[t].op \in {"upload", "undo", "delete", "search"}
  BY BasicFacts DEF Pcs, OpFits, Committing, Thread, At
<1>2. CASE thread[t].op \in {"upload", "undo"}
  BY <1>1, <1>2, Going DEF GivesUp, Abandon, Pcs
<1>3. CASE thread[t].op = "delete"
  BY <1>1, <1>3, Going DEF GivesUp, Abandon, Pcs
<1>4. CASE thread[t].op = "search"
  BY <1>1, <1>4, Ending DEF GivesUp, Abandon
<1> QED BY <1>1, <1>2, <1>3, <1>4

LEMMA UploadMoves ==
  ASSUME Basic, NEW t \in Threads
  PROVE  /\ CountDocuments(t) =>
              \/ Ends(t, "counting") /\ UNCHANGED lock
              \/ Goes(t, "counting", "reserving") /\ Take(t) /\ InUse < MaxDocuments
         /\ Reserve(t) => Goes(t, "reserving", "storing")
         /\ Store(t) =>
              \/ Goes(t, "storing", "processing") /\ object' = object \cup {thread[t].doc}
              \/ Goes(t, "storing", "failing")
         /\ SetProcessing(t) => Goes(t, "processing", "parsing")
         /\ Parse(t) =>
              \/ Goes(t, "parsing", "indexing") /\ thread[t].doc \in object
              \/ Goes(t, "parsing", "failing")
<1>1. CountDocuments(t) =>
              \/ Ends(t, "counting") /\ UNCHANGED lock
              \/ Goes(t, "counting", "reserving") /\ Take(t) /\ ~(InUse >= MaxDocuments)
  BY Going, Ending DEF CountDocuments, Pcs
<1>2. InUse \in Nat
  BY DocumentAssumptions, FS_Subset, FS_CardinalityType DEF InUse
<1>3. ~(InUse >= MaxDocuments) => InUse < MaxDocuments
  BY <1>2, DocumentAssumptions
<1>4. Reserve(t) => Goes(t, "reserving", "storing")
  BY Going DEF Reserve, Pcs
<1>5. Store(t) =>
              \/ Goes(t, "storing", "processing") /\ object' = object \cup {thread[t].doc}
              \/ Goes(t, "storing", "failing")
  BY Going DEF Store, Pcs
<1>6. SetProcessing(t) => Goes(t, "processing", "parsing")
  BY Going DEF SetProcessing, Pcs
<1>7. Parse(t) =>
              \/ Goes(t, "parsing", "indexing") /\ thread[t].doc \in object
              \/ Goes(t, "parsing", "failing")
  BY Going DEF Parse, Pcs
<1> QED BY <1>1, <1>3, <1>4, <1>5, <1>6, <1>7

LEMMA IndexMoves ==
  ASSUME Basic, NEW t \in Threads
  PROVE  /\ AddToIndex(t) =>
              \/ Enters(t, "indexing", docsOf[active] \cup {thread[t].doc}) /\ Take(t)
              \/ Goes(t, "indexing", "failing") /\ UNCHANGED lock
         /\ LockIndex(t) =>
              \/ redis = NoThread /\ redis' = t /\ Goes(t, "locking", "upserting") /\ UNCHANGED lock
              \/ GivesUp(t, "locking") /\ Release(t) /\ UNCHANGED redis
         /\ Activate(t) => Goes(t, "activating", "cleaning")
         /\ Clean(t) =>
              \/ thread[t].op = "upload" /\ Goes(t, "cleaning", "marking") /\ UNCHANGED lock
              \/ thread[t].op = "undo" /\ Goes(t, "cleaning", "failing") /\ Release(t)
              \/ thread[t].op = "delete" /\ Goes(t, "cleaning", "erasing") /\ Release(t)
              \/ thread[t].op = "search" /\ Goes(t, "cleaning", "reading") /\ Release(t)
<1>1. ASSUME AddToIndex(t)
      PROVE  \/ Enters(t, "indexing", docsOf[active] \cup {thread[t].doc}) /\ Take(t)
             \/ Goes(t, "indexing", "failing") /\ UNCHANGED lock
  <2>1. At(t, "indexing") /\ thread[t].op = "upload" /\ thread[t].doc \in Docs
    BY <1>1, BasicFacts DEF AddToIndex, At, OpFits, Uploading
  <2>2. docsOf[active] \cup {thread[t].doc} \in SUBSET Docs
    BY <2>1 DEF Basic, TypeOK
  <2>3. "indexing" \in Pcs /\ "failing" \in Pcs
    BY DEF Pcs
  <2>4. \/ Take(t) /\ Commits(t, docsOf[active] \cup {thread[t].doc})
        \/ Goto(t, "failing") /\ UNCHANGED lock
    BY <1>1 DEF AddToIndex
  <2> QED BY <2>1, <2>2, <2>3, <2>4, Going, Entering
<1>2. LockIndex(t) =>
              \/ redis = NoThread /\ redis' = t /\ Goes(t, "locking", "upserting") /\ UNCHANGED lock
              \/ GivesUp(t, "locking") /\ Release(t) /\ UNCHANGED redis
  BY Going, GivingUp DEF LockIndex, Pcs
<1>3. Activate(t) => Goes(t, "activating", "cleaning")
  BY Going DEF Activate, Pcs
<1>4. ASSUME Clean(t)
      PROVE  \/ thread[t].op = "upload" /\ Goes(t, "cleaning", "marking") /\ UNCHANGED lock
             \/ thread[t].op = "undo" /\ Goes(t, "cleaning", "failing") /\ Release(t)
             \/ thread[t].op = "delete" /\ Goes(t, "cleaning", "erasing") /\ Release(t)
             \/ thread[t].op = "search" /\ Goes(t, "cleaning", "reading") /\ Release(t)
  <2>1. thread[t].pc = "cleaning" /\ Goto(t, After(t))
    BY <1>4 DEF Clean, At
  <2>2. /\ Goes(t, "cleaning", After(t))
        /\ \/ thread[t].op = "upload" /\ After(t) = "marking"
           \/ thread[t].op = "undo" /\ After(t) = "failing"
           \/ thread[t].op = "delete" /\ After(t) = "erasing"
           \/ thread[t].op = "search" /\ After(t) = "reading"
    BY <2>1, AfterEffect DEF Goes
  <2>3. IF thread[t].op = "upload" THEN UNCHANGED lock ELSE Release(t)
    BY <1>4 DEF Clean
  <2> QED BY <2>2, <2>3
<1> QED BY <1>1, <1>2, <1>3, <1>4

LEMMA DocumentMoves ==
  ASSUME Basic, NEW t \in Threads
  PROVE  /\ MarkReady(t) => Ends(t, "marking")
         /\ MarkFails(t) =>
              \/ /\ thread[t].pc = "marking" /\ Others(t) /\ UNCHANGED lock
                 /\ thread'[t].pc = "locking" /\ thread'[t].op = "undo"
                 /\ thread'[t].doc = thread[t].doc /\ thread'[t].alone = thread[t].alone
              \/ Goes(t, "marking", "failing") /\ Release(t)
         /\ DiscardFile(t) => Goes(t, "failing", "recording")
         /\ MarkFailed(t) => Ends(t, "recording")
         /\ Unindex(t) =>
              \/ Enters(t, "unindexing", docsOf[active] \ {thread[t].doc}) /\ Take(t)
              \/ Goes(t, "unindexing", "erasing") /\ UNCHANGED lock
         /\ EraseFile(t) => Ends(t, "erasing")
<1>1. MarkReady(t) => Ends(t, "marking")
  BY Ending DEF MarkReady, Pcs
<1>2. ASSUME MarkFails(t)
      PROVE  \/ /\ thread[t].pc = "marking" /\ Others(t) /\ UNCHANGED lock
                /\ thread'[t].pc = "locking" /\ thread'[t].op = "undo"
                /\ thread'[t].doc = thread[t].doc /\ thread'[t].alone = thread[t].alone
             \/ Goes(t, "marking", "failing") /\ Release(t)
  <2>1. At(t, "marking") /\ thread[t].op = "upload"
    BY <1>2, BasicFacts DEF MarkFails, At, OpFits, Uploading
  <2>2. CASE CanLoad(ProcOf[t])
    BY <1>2, <2>1, <2>2, UndoEffect DEF MarkFails, At
  <2>3. CASE ~CanLoad(ProcOf[t])
    BY <1>2, <2>1, <2>3, Going DEF MarkFails, Pcs
  <2> QED BY <2>2, <2>3
<1>3. DiscardFile(t) => Goes(t, "failing", "recording")
  BY Going DEF DiscardFile, Pcs
<1>4. MarkFailed(t) => Ends(t, "recording")
  BY Ending DEF MarkFailed, Pcs
<1>5. ASSUME Unindex(t)
      PROVE  \/ Enters(t, "unindexing", docsOf[active] \ {thread[t].doc}) /\ Take(t)
             \/ Goes(t, "unindexing", "erasing") /\ UNCHANGED lock
  <2>1. At(t, "unindexing") /\ thread[t].op = "delete"
    BY <1>5, BasicFacts DEF Unindex, At, OpFits
  <2>2. docsOf[active] \ {thread[t].doc} \in SUBSET Docs
    BY DEF Basic, TypeOK
  <2>3. "unindexing" \in Pcs /\ "erasing" \in Pcs
    BY DEF Pcs
  <2>4. \/ Take(t) /\ Commits(t, docsOf[active] \ {thread[t].doc})
        \/ Goto(t, "erasing") /\ UNCHANGED lock
    BY <1>5 DEF Unindex
  <2> QED BY <2>1, <2>2, <2>3, <2>4, Going, Entering
<1>6. EraseFile(t) => Ends(t, "erasing")
  BY Ending DEF EraseFile, Pcs
<1> QED BY <1>1, <1>2, <1>3, <1>4, <1>5, <1>6

LEMMA SearchMoves ==
  ASSUME Basic, NEW t \in Threads
  PROVE  /\ Check(t) =>
              \/ Goes(t, "checking", "reading") /\ IsConsistent(t)
              \/ Goes(t, "checking", "rebuilding")
              \/ Ends(t, "checking")
         /\ Rebuild(t) =>
              \/ Enters(t, "rebuilding", ReadyRows) /\ Take(t)
              \/ Ends(t, "rebuilding") /\ UNCHANGED lock
         /\ ReadSnapshot(t) =>
              \/ /\ thread[t].pc = "reading" /\ Others(t)
                 /\ thread'[t].pc = "querying" /\ thread'[t].version = active
                 /\ thread'[t].op = thread[t].op /\ thread'[t].doc = thread[t].doc
                 /\ thread'[t].ready = thread[t].ready /\ thread'[t].alone = thread[t].alone
              \/ Ends(t, "reading")
         /\ Query(t) => Ends(t, "querying")
<1>1. Check(t) =>
              \/ Goes(t, "checking", "reading") /\ IsConsistent(t)
              \/ Goes(t, "checking", "rebuilding")
              \/ Ends(t, "checking")
  BY Going, Ending DEF Check, Pcs
<1>2. ASSUME Rebuild(t)
      PROVE  \/ Enters(t, "rebuilding", ReadyRows) /\ Take(t)
             \/ Ends(t, "rebuilding") /\ UNCHANGED lock
  <2>1. At(t, "rebuilding") /\ thread[t].op # "none" /\ ReadyRows \in SUBSET Docs
    BY <1>2, BasicFacts DEF Rebuild, At, OpFits, ReadyRows
  <2>2. "rebuilding" \in Pcs
    BY DEF Pcs
  <2>3. \/ Take(t) /\ Commits(t, ReadyRows)
        \/ End(t) /\ UNCHANGED lock
    BY <1>2 DEF Rebuild, ReadyRows
  <2> QED BY <2>1, <2>2, <2>3, Ending, Entering
<1>3. ASSUME ReadSnapshot(t)
      PROVE  \/ /\ thread[t].pc = "reading" /\ Others(t)
                /\ thread'[t].pc = "querying" /\ thread'[t].version = active
                /\ thread'[t].op = thread[t].op /\ thread'[t].doc = thread[t].doc
                /\ thread'[t].ready = thread[t].ready /\ thread'[t].alone = thread[t].alone
             \/ Ends(t, "reading")
  <2>1. At(t, "reading") /\ "reading" \in Pcs
    BY <1>3 DEF ReadSnapshot, Pcs
  <2> QED BY <1>3, <2>1, Ending, ReadEffect DEF ReadSnapshot, At
<1>4. Query(t) => Ends(t, "querying")
  BY Ending DEF Query, Pcs
<1> QED BY <1>1, <1>2, <1>3, <1>4

LEMMA BeginMoves ==
  ASSUME Basic, NEW t \in Threads,
         (\E d \in Docs : BeginUpload(t, d) \/ Delete(t, d)) \/ BeginSearch(t)
  PROVE  \E pc \in {"counting", "unindexing", "checking"} :
           thread'[t].pc = pc /\ \A u \in Threads \ {t} : Moved(u, thread[u].pc)
<1>1. ASSUME NEW d \in Docs, BeginUpload(t, d)
      PROVE  thread'[t].pc = "counting" /\ \A u \in Threads \ {t} : Moved(u, thread[u].pc)
  BY <1>1, BasicBegin, Zenon DEF BeginUpload
<1>2. ASSUME NEW d \in Docs, Delete(t, d)
      PROVE  thread'[t].pc = "unindexing" /\ \A u \in Threads \ {t} : Moved(u, thread[u].pc)
  BY <1>2, BasicBegin, Zenon DEF Delete
<1>3. ASSUME BeginSearch(t)
      PROVE  thread'[t].pc = "checking" /\ \A u \in Threads \ {t} : Moved(u, thread[u].pc)
  BY <1>3, BasicBegin, Zenon DEF BeginSearch
<1> QED BY <1>1, <1>2, <1>3

-----------------------------------------------------------------------------
(* The index: the holder of the Redis lock writes alone.                   *)

Versioned == <<active, docsOf, before, points, fresh>>

LEMMA QuietThread ==
  ASSUME NEW t \in Threads, Others(t), thread'[t].pc \notin Committing
  PROVE  \A u \in Threads : thread'[u].pc \in Committing => Moved(u, thread[u].pc)
BY DEF Others, Moved

LEMMA Quiet ==
  ASSUME Basic, NEW t \in Threads,
         UploadStep(t) \/ DocumentStep(t) \/ SearchStep(t) \/ AddToIndex(t)
  PROVE  /\ UNCHANGED Versioned
         /\ \A u \in Threads : thread'[u].pc \in Committing => Moved(u, thread[u].pc)
         /\ UNCHANGED redis \/ LockExpires(t)
<1>1. UNCHANGED Versioned /\ (UNCHANGED redis \/ LockExpires(t))
  BY DEF UploadStep, DocumentStep, SearchStep, AddToIndex, BeginUpload, CountDocuments, Reserve,
         Store, SetProcessing, Parse, MarkReady, MarkFails, DiscardFile, MarkFailed, Delete,
         Unindex, EraseFile, BeginSearch, Check, Rebuild, ReadSnapshot, Query, LockExpires,
         store, Versioned
<1>2. CASE (\E d \in Docs : BeginUpload(t, d) \/ Delete(t, d)) \/ BeginSearch(t)
  BY <1>1, <1>2, BeginMoves DEF Moved, Committing
<1>3. CASE LockExpires(t)
  BY <1>1, <1>3 DEF LockExpires, Moved
<1>4. ASSUME Others(t), thread'[t].pc \notin Committing
      PROVE  \A u \in Threads : thread'[u].pc \in Committing => Moved(u, thread[u].pc)
  BY <1>4, QuietThread
<1>5. CASE \/ CountDocuments(t) \/ Reserve(t) \/ Store(t) \/ SetProcessing(t) \/ Parse(t)
           \/ AddToIndex(t)
  BY <1>1, <1>4, <1>5, UploadMoves, IndexMoves DEF Goes, Ends, Enters, Moved, Idle, Committing
<1>6. CASE \/ MarkReady(t) \/ MarkFails(t) \/ DiscardFile(t) \/ MarkFailed(t)
           \/ Unindex(t) \/ EraseFile(t)
  BY <1>1, <1>4, <1>6, DocumentMoves DEF Goes, Ends, Enters, Moved, Idle, Committing
<1>7. CASE Check(t) \/ Rebuild(t) \/ ReadSnapshot(t) \/ Query(t)
  BY <1>1, <1>4, <1>7, SearchMoves DEF Goes, Ends, Enters, Moved, Idle, Committing
<1> QED BY <1>2, <1>3, <1>5, <1>6, <1>7 DEF UploadStep, DocumentStep, SearchStep

LEMMA QuietCrash ==
  ASSUME Basic, NEW p \in Procs, Crash(p)
  PROVE  /\ UNCHANGED Versioned /\ UNCHANGED redis
         /\ \A u \in Threads : thread'[u].pc \in Committing => Moved(u, thread[u].pc)
BY DEF Crash, Versioned, Moved, Idle, Committing

LEMMA QuietKeeps ==
  ASSUME Basic, IndexLocked, VersionsFit, UNCHANGED Versioned,
         \A u \in Threads : thread'[u].pc \in Committing => redis' = u,
         \A u \in Threads : thread'[u].pc \in {"activating", "cleaning"} => Moved(u, thread[u].pc)
  PROVE  IndexLocked' /\ VersionsFit'
<1>1. IndexLocked'
  BY DEF IndexLocked
<1>2. /\ active' = active /\ docsOf' = docsOf /\ before' = before /\ points' = points
      /\ fresh' = fresh
  BY DEF Versioned
<1>3. SnapshotsAreWhole'
  BY <1>2 DEF VersionsFit, SnapshotsAreWhole
<1> QED BY <1>1, <1>2, <1>3 DEF VersionsFit, Moved

LEMMA LockIndexKeeps ==
  ASSUME Basic, IndexLocked, VersionsFit, NEW t \in Threads, LockIndex(t)
  PROVE  IndexLocked' /\ VersionsFit'
<1>1. UNCHANGED Versioned
  BY DEF LockIndex, store, Versioned
<1>2. CASE redis = NoThread /\ redis' = t /\ Goes(t, "locking", "upserting")
  <2>1. \A u \in Threads : thread[u].pc \notin Committing
    BY <1>2, DocumentAssumptions DEF IndexLocked
  <2>2. \A u \in Threads : thread'[u].pc \in Committing => redis' = u
    BY <1>2, <2>1 DEF Goes, Others
  <2>3. \A u \in Threads : thread'[u].pc \in {"activating", "cleaning"} => Moved(u, thread[u].pc)
    BY <1>2, <2>1 DEF Goes, Others, Committing, Moved
  <2> QED BY <1>1, <2>2, <2>3, QuietKeeps
<1>3. CASE GivesUp(t, "locking") /\ UNCHANGED redis
  <2>1. Others(t) /\ thread'[t].pc \notin Committing
    BY <1>3 DEF GivesUp, Goes, Ends, Moved, Idle, Committing
  <2>2. \A u \in Threads : thread'[u].pc \in Committing => Moved(u, thread[u].pc)
    BY <2>1, QuietThread
  <2>3. \A u \in Threads : thread'[u].pc \in Committing => redis' = u
    BY <1>3, <2>2 DEF IndexLocked, Moved
  <2> QED BY <1>1, <2>2, <2>3, QuietKeeps DEF Committing
<1> QED BY <1>2, <1>3, IndexMoves

LEMMA UpsertKeeps ==
  ASSUME Basic, IndexLocked, VersionsFit, NEW t \in Threads, Upsert(t)
  PROVE  IndexLocked' /\ VersionsFit'
<1>1. /\ thread[t].pc = "upserting" /\ fresh \in Versions /\ fresh' = fresh + 1
      /\ active' = active /\ docsOf' = docsOf /\ before' = before
      /\ \A v \in Versions : v # fresh => points'[v] = points[v]
  BY DocumentAssumptions DEF Basic, TypeOK, Upsert, At, Versions
<1>2. /\ active \in Nat /\ before[active] \in Nat /\ fresh \in Nat
      /\ active \in Versions /\ before[active] \in Versions
  BY DocumentAssumptions DEF Basic, TypeOK, Versions
<1>3. /\ active < fresh' /\ before[active] < fresh' /\ active # fresh /\ before[active] # fresh
  BY <1>1, <1>2 DEF VersionsFit
<1>4. SnapshotsAreWhole'
  BY <1>1, <1>2, <1>3 DEF VersionsFit, SnapshotsAreWhole
<1>5. \A u \in Threads \ {t} : thread[u].pc \notin Committing
  BY <1>1 DEF IndexLocked, Committing
<1>6. CASE /\ points' = [points EXCEPT ![fresh] = thread[t].want]
           /\ thread' = [thread EXCEPT ![t].pc = "activating", ![t].version = fresh,
                                       ![t].previous = active]
           /\ UNCHANGED <<lock, redis>>
  <2>1. /\ thread'[t].pc = "activating" /\ thread'[t].version = fresh
        /\ thread'[t].previous = active /\ thread'[t].want = thread[t].want /\ Others(t)
    BY <1>1, <1>6, UpsertEffect
  <2>2. points'[fresh] = thread[t].want
    BY <1>1, <1>6 DEF Basic, TypeOK
  <2>3. IndexLocked'
    BY <1>1, <1>6, <2>1 DEF IndexLocked, Others, Committing
  <2>4. fresh < fresh'
    BY <1>1, <1>2
  <2> QED BY <1>1, <1>3, <1>4, <1>5, <2>1, <2>2, <2>3, <2>4 DEF VersionsFit, Others, Committing
<1>7. CASE Abandon(t) /\ Unlocks(t)
  <2>1. Others(t) /\ thread'[t].pc \notin Committing
    BY <1>1, <1>7, AbandonEffect DEF Moved, Idle, Committing
  <2>2. \A u \in Threads : thread'[u].pc \notin Committing
    BY <1>5, <2>1 DEF Others
  <2> QED BY <1>1, <1>3, <1>4, <2>2 DEF VersionsFit, IndexLocked, Committing
<1> QED BY <1>6, <1>7 DEF Upsert

LEMMA ActivateKeeps ==
  ASSUME Basic, IndexLocked, VersionsFit, NEW t \in Threads, Activate(t)
  PROVE  IndexLocked' /\ VersionsFit'
<1>1. /\ Goes(t, "activating", "cleaning") /\ redis' = redis
      /\ points' = points /\ fresh' = fresh
  BY IndexMoves DEF Activate
<1>2. PICK v \in Versions : v = thread[t].version
  BY BasicFacts DEF Thread
<1>3. /\ v < fresh /\ v # active /\ thread[t].previous = active /\ points[v] = thread[t].want
  BY <1>1, <1>2 DEF VersionsFit, Goes
<1>4. /\ active' = v /\ docsOf' = [docsOf EXCEPT ![v] = thread[t].want]
      /\ before' = [before EXCEPT ![v] = active]
  BY <1>2 DEF Activate
<1>5. /\ docsOf'[v] = thread[t].want /\ before'[v] = active
      /\ docsOf'[active] = docsOf[active] /\ active \in Versions
  BY <1>3, <1>4 DEF Basic, TypeOK
<1>6. SnapshotsAreWhole'
  BY <1>1, <1>3, <1>4, <1>5 DEF VersionsFit, SnapshotsAreWhole
<1>7. \A u \in Threads \ {t} : thread'[u].pc \notin Committing
  BY <1>1 DEF IndexLocked, Committing, Goes, Others
<1>8. /\ thread'[t].pc = "cleaning" /\ thread'[t].version = v /\ thread'[t].previous = active
      /\ thread'[t].want = thread[t].want
  BY <1>1, <1>2, <1>3 DEF Goes, Moved
<1>9. IndexLocked'
  BY <1>1, <1>7 DEF IndexLocked, Goes, Committing
<1> QED BY <1>1, <1>3, <1>4, <1>5, <1>6, <1>7, <1>8, <1>9 DEF VersionsFit, Committing

LEMMA CleanKeeps ==
  ASSUME Basic, IndexLocked, VersionsFit, NEW t \in Threads, Clean(t)
  PROVE  IndexLocked' /\ VersionsFit'
<1>1. /\ thread[t].pc = "cleaning" /\ Others(t) /\ thread'[t].pc \notin Committing
  BY IndexMoves DEF Goes, Moved, Committing
<1>2. \A u \in Threads : thread'[u].pc \notin Committing
  BY <1>1 DEF IndexLocked, Others, Committing
<1>3. /\ active' = active /\ docsOf' = docsOf /\ before' = before /\ fresh' = fresh
      /\ active \in Versions /\ before[active] \in Versions
  BY DEF Clean, Basic, TypeOK
<1>4. Kept(t) = {active, before[active]}
  BY <1>1 DEF VersionsFit, Kept
<1>5. points'[active] = points[active] /\ points'[before[active]] = points[before[active]]
  BY <1>3, <1>4 DEF Clean
<1>6. SnapshotsAreWhole'
  BY <1>3, <1>5 DEF VersionsFit, SnapshotsAreWhole
<1> QED BY <1>2, <1>3, <1>6 DEF VersionsFit, IndexLocked, Committing

\* No step of a commit is ever taken by two at once, and what the active
\* version and the one before it hold is never touched.
LEMMA IndexKept ==
  ASSUME ShortCommits, Basic, IndexLocked, VersionsFit, [Next]_vars
  PROVE  IndexLocked' /\ VersionsFit'
<1>1. ASSUME NEW t \in Threads,
             UploadStep(t) \/ DocumentStep(t) \/ SearchStep(t) \/ AddToIndex(t)
      PROVE  IndexLocked' /\ VersionsFit'
  <2>1. /\ UNCHANGED Versioned
        /\ \A u \in Threads : thread'[u].pc \in Committing => Moved(u, thread[u].pc)
        /\ UNCHANGED redis \/ LockExpires(t)
    BY <1>1, Quiet
  <2>2. \A u \in Threads : thread'[u].pc \in Committing => redis' = u
    <3>1. CASE UNCHANGED redis
      BY <2>1, <3>1 DEF IndexLocked, Moved
    <3>2. CASE LockExpires(t)
      BY <3>2 DEF IndexLocked, LockExpires, Committing
    <3> QED BY <2>1, <3>1, <3>2
  <2> QED BY <2>1, <2>2, QuietKeeps DEF Committing
<1>2. ASSUME NEW p \in Procs, Crash(p) PROVE IndexLocked' /\ VersionsFit'
  <2>1. /\ UNCHANGED Versioned /\ UNCHANGED redis
        /\ \A u \in Threads : thread'[u].pc \in Committing => Moved(u, thread[u].pc)
    BY <1>2, QuietCrash
  <2>2. \A u \in Threads : thread'[u].pc \in Committing => redis' = u
    BY <2>1 DEF IndexLocked, Moved
  <2> QED BY <2>1, <2>2, QuietKeeps DEF Committing
<1>3. CASE UNCHANGED vars
  <2>1. UNCHANGED Versioned /\ redis' = redis /\ thread' = thread
    BY <1>3 DEF vars, store, Versioned
  <2> QED BY <2>1, QuietKeeps DEF IndexLocked, Moved
<1> QED BY <1>1, <1>2, <1>3, NextCases, LockIndexKeeps, UpsertKeeps, ActivateKeeps, CleanKeeps
        DEF IndexStep

-----------------------------------------------------------------------------
(* A search alone: what it has read of the rows and of the index stays.    *)

\* A step of t ends the solitude of no other thread only when that other has
\* none: a thread with a step to take that is not idle is the only one.
LEMMA AloneMeansIdle ==
  ASSUME Basic, Undisturbed, NEW t \in Threads, NEW u \in Threads, u # t, thread[t].pc # "idle"
  PROVE  ~thread[u].alone
BY DEF Undisturbed, AloneFits

\* A step of t that is not idle: only t may still be alone.
LEMMA AloneStep ==
  ASSUME Basic, Undisturbed, NEW t \in Threads, thread[t].pc # "idle", Others(t),
         thread'[t].alone => thread[t].alone,
         thread'[t].alone /\ thread'[t].op = "search" =>
           /\ thread'[t].ready = ReadyRows'
           /\ thread'[t].pc \in {"locking"} \cup Committing => thread'[t].want = ReadyRows'
           /\ thread'[t].pc \in {"reading", "querying"} => docsOf'[active'] = ReadyRows'
           /\ thread'[t].pc = "querying" => thread'[t].version = active'
  PROVE  Undisturbed'
<1>1. \A u \in Threads \ {t} : ~thread'[u].alone
  BY AloneMeansIdle DEF Others
<1>2. thread'[t].alone => \A u \in Threads \ {t} : thread'[u].pc = "idle"
  BY DEF Undisturbed, AloneFits, Others
<1>3. thread'[t].alone => AloneFits(t)'
  BY <1>2 DEF AloneFits
<1> QED BY <1>1, <1>3 DEF Undisturbed

LEMMA AloneFacts ==
  ASSUME Undisturbed, NEW t \in Threads, thread[t].alone, thread[t].op = "search"
  PROVE  /\ thread[t].ready = ReadyRows
         /\ thread[t].pc \in {"locking"} \cup Committing => thread[t].want = ReadyRows
         /\ thread[t].pc \in {"reading", "querying"} => docsOf[active] = ReadyRows
         /\ thread[t].pc = "querying" => thread[t].version = active
BY DEF Undisturbed, AloneFits

\* A request begins: it is alone, or no one is.
LEMMA AloneBegin ==
  ASSUME Basic, Undisturbed, NEW t \in Threads,
         thread'[t].pc \in {"counting", "unindexing", "checking"},
         thread'[t].op = "search" => thread'[t].ready = ReadyRows',
         thread'[t].alone => \A u \in Threads \ {t} : thread[u].pc = "idle",
         \A u \in Threads \ {t} : Moved(u, thread[u].pc) /\ ~thread'[u].alone
  PROVE  Undisturbed'
<1>1. thread'[t].alone => \A u \in Threads \ {t} : thread'[u].pc = "idle"
  BY DEF Moved
<1>2. thread'[t].alone => AloneFits(t)'
  BY <1>1 DEF AloneFits, Committing
<1> QED BY <1>2 DEF Undisturbed

\* Operations other than a search keep op # "search" as long as they go on.
LEMMA AloneOther ==
  ASSUME Basic, Undisturbed, NEW t \in Threads, thread[t].pc # "idle", Others(t),
         thread'[t].alone => thread[t].alone, thread'[t].op # "search"
  PROVE  Undisturbed'
BY AloneStep

LEMMA IdleIsNotAlone == ~Idle.alone /\ Idle.op = "none" /\ Idle.pc = "idle"
BY DEF Idle

LEMMA UploadAlone ==
  ASSUME Basic, Undisturbed, NEW t \in Threads, UploadStep(t)
  PROVE  Undisturbed'
<1>1. ASSUME NEW d \in Docs, BeginUpload(t, d) PROVE Undisturbed'
  <2>1. Begin(t, "upload", "counting", d) /\ lock' = lock
    BY <1>1 DEF BeginUpload
  <2>2. /\ thread'[t].pc = "counting" /\ thread'[t].op = "upload"
        /\ thread'[t].alone => \A u \in Threads \ {t} : thread[u].pc = "idle"
        /\ \A u \in Threads \ {t} : Moved(u, thread[u].pc) /\ ~thread'[u].alone
    BY <2>1, BasicBegin, Zenon
  <2> QED BY <2>2, AloneBegin
<1>2. CASE CountDocuments(t) \/ Reserve(t) \/ Store(t) \/ SetProcessing(t) \/ Parse(t)
  <2>1. /\ thread[t].pc \in Uploading \ {"indexing", "marking"} /\ Others(t)
        /\ \/ thread'[t].op = thread[t].op /\ thread'[t].alone = thread[t].alone
           \/ thread'[t] = Idle
    BY <1>2, UploadMoves DEF Goes, Ends, Moved, Uploading
  <2>2. thread[t].op = "upload" /\ thread[t].pc # "idle"
    BY <2>1, BasicFacts DEF OpFits, Uploading
  <2> QED BY <2>1, <2>2, AloneOther, IdleIsNotAlone
<1> QED BY <1>1, <1>2 DEF UploadStep

LEMMA DocumentAlone ==
  ASSUME Basic, Undisturbed, NEW t \in Threads, DocumentStep(t)
  PROVE  Undisturbed'
<1>1. ASSUME NEW d \in Docs, Delete(t, d) PROVE Undisturbed'
  <2>1. Begin(t, "delete", "unindexing", d) /\ lock' = lock
    BY <1>1 DEF Delete
  <2>2. /\ thread'[t].pc = "unindexing" /\ thread'[t].op = "delete"
        /\ thread'[t].alone => \A u \in Threads \ {t} : thread[u].pc = "idle"
        /\ \A u \in Threads \ {t} : Moved(u, thread[u].pc) /\ ~thread'[u].alone
    BY <2>1, BasicBegin, Zenon
  <2> QED BY <2>2, AloneBegin
<1>2. CASE \/ MarkReady(t) \/ MarkFails(t) \/ DiscardFile(t) \/ MarkFailed(t)
           \/ Unindex(t) \/ EraseFile(t)
  <2>1. /\ thread[t].pc \in {"marking", "failing", "recording", "unindexing", "erasing"} /\ Others(t)
        /\ \/ thread'[t].op \in {thread[t].op, "undo"} /\ thread'[t].alone = thread[t].alone
           \/ thread'[t] = Idle
    BY <1>2, DocumentMoves DEF Goes, Ends, Enters, Moved
  <2>2. thread[t].op \in {"upload", "undo", "delete"} /\ thread[t].pc # "idle"
    BY <2>1, BasicFacts DEF OpFits, Uploading
  <2> QED BY <2>1, <2>2, AloneOther, IdleIsNotAlone
<1> QED BY <1>1, <1>2 DEF DocumentStep

LEMMA IndexAlone ==
  ASSUME Basic, Undisturbed, VersionsFit, NEW t \in Threads, IndexStep(t)
  PROVE  Undisturbed'
<1>1. CASE AddToIndex(t)
  <2>1. /\ thread[t].pc = "indexing" /\ Others(t)
        /\ thread'[t].op = thread[t].op /\ thread'[t].alone = thread[t].alone
    BY <1>1, IndexMoves DEF Goes, Enters, Moved
  <2>2. thread[t].op = "upload" /\ thread[t].pc # "idle"
    BY <2>1, BasicFacts DEF OpFits, Uploading
  <2> QED BY <2>1, <2>2, AloneOther
<1>2. ASSUME GivesUp(t, "locking") \/ GivesUp(t, "upserting")
      PROVE  Undisturbed'
  <2>1. /\ thread[t].pc # "idle" /\ Others(t)
        /\ thread'[t].alone => thread[t].alone
        /\ thread'[t].op # "search"
    BY <1>2, IdleIsNotAlone DEF GivesUp, Goes, Ends, Moved
  <2> QED BY <2>1, AloneOther
<1>3. CASE LockIndex(t)
  <2>1. CASE Goes(t, "locking", "upserting")
    <3>1. row' = row
      BY <1>3 DEF LockIndex
    <3>2. /\ thread[t].pc = "locking" /\ thread'[t].pc = "upserting" /\ Others(t)
          /\ thread'[t].op = thread[t].op /\ thread'[t].alone = thread[t].alone
          /\ thread'[t].ready = thread[t].ready /\ thread'[t].want = thread[t].want
      BY <2>1 DEF Goes, Moved
    <3> QED BY <3>1, <3>2, AloneStep, AloneFacts DEF ReadyRows, Committing
  <2> QED BY <1>2, <1>3, <2>1, IndexMoves
<1>4. CASE Upsert(t)
  <2>1. thread[t].pc = "upserting" /\ fresh \in Versions /\ row' = row
    BY <1>4, DocumentAssumptions DEF Upsert, At, Basic, TypeOK, Versions
  <2>2. CASE thread' = [thread EXCEPT ![t].pc = "activating", ![t].version = fresh,
                                      ![t].previous = active]
    <3>1. /\ thread'[t].pc = "activating" /\ Others(t)
          /\ thread'[t].op = thread[t].op /\ thread'[t].alone = thread[t].alone
          /\ thread'[t].ready = thread[t].ready /\ thread'[t].want = thread[t].want
      BY <2>1, <2>2, UpsertEffect
    <3> QED BY <2>1, <3>1, AloneStep, AloneFacts DEF ReadyRows, Committing
  <2>3. CASE Abandon(t)
    BY <1>2, <2>1, <2>3, GivingUp DEF At
  <2> QED BY <1>4, <2>2, <2>3 DEF Upsert
<1>5. CASE Activate(t)
  <2>1. row' = row
    BY <1>5 DEF Activate
  <2>2. /\ thread[t].pc = "activating" /\ thread'[t].pc = "cleaning" /\ Others(t)
        /\ thread'[t].op = thread[t].op /\ thread'[t].alone = thread[t].alone
        /\ thread'[t].ready = thread[t].ready /\ thread'[t].want = thread[t].want
    BY <1>5, IndexMoves DEF Goes, Moved
  <2> QED BY <2>1, <2>2, AloneStep, AloneFacts DEF ReadyRows, Committing
<1>6. CASE Clean(t)
  <2>1. row' = row /\ docsOf' = docsOf /\ active' = active
    BY <1>6 DEF Clean
  <2>2. /\ thread[t].pc = "cleaning" /\ Others(t)
        /\ thread'[t].pc \in {"marking", "failing", "erasing", "reading"}
        /\ thread'[t].op = thread[t].op /\ thread'[t].alone = thread[t].alone
        /\ thread'[t].ready = thread[t].ready /\ thread'[t].want = thread[t].want
    BY <1>6, IndexMoves DEF Goes, Moved
  <2>3. docsOf[active] = thread[t].want
    BY <2>2 DEF VersionsFit
  <2> QED BY <2>1, <2>2, <2>3, AloneStep, AloneFacts DEF ReadyRows, Committing
<1> QED BY <1>1, <1>3, <1>4, <1>5, <1>6 DEF IndexStep

LEMMA SearchAlone ==
  ASSUME Basic, Undisturbed, NEW t \in Threads, SearchStep(t)
  PROVE  Undisturbed'
<1>1. CASE BeginSearch(t)
  <2>1. Begin(t, "search", "checking", NoDoc) /\ lock' = lock /\ row' = row
    BY <1>1 DEF BeginSearch
  <2>2. /\ thread'[t].pc = "checking" /\ thread'[t].ready = ReadyRows
        /\ thread'[t].alone => \A u \in Threads \ {t} : thread[u].pc = "idle"
        /\ \A u \in Threads \ {t} : Moved(u, thread[u].pc) /\ ~thread'[u].alone
    BY <2>1, BasicBegin, Zenon
  <2>3. ReadyRows' = ReadyRows
    BY <2>1 DEF ReadyRows
  <2> QED BY <2>2, <2>3, AloneBegin
<1>2. CASE Check(t)
  <2>1. row' = row /\ docsOf' = docsOf /\ active' = active
    BY <1>2 DEF Check
  <2>2. CASE Ends(t, "checking")
    BY <2>2, AloneOther, IdleIsNotAlone DEF Ends
  <2>3. CASE Goes(t, "checking", "rebuilding")
    <3>1. /\ thread[t].pc = "checking" /\ Others(t) /\ thread'[t].pc = "rebuilding"
          /\ thread'[t].op = thread[t].op /\ thread'[t].alone = thread[t].alone
          /\ thread'[t].ready = thread[t].ready
      BY <2>3 DEF Goes, Moved
    <3> QED BY <2>1, <3>1, AloneStep, AloneFacts DEF ReadyRows, Committing
  <2>4. CASE Goes(t, "checking", "reading") /\ IsConsistent(t)
    <3>1. /\ thread[t].pc = "checking" /\ Others(t) /\ thread'[t].pc = "reading"
          /\ thread'[t].op = thread[t].op /\ thread'[t].alone = thread[t].alone
          /\ thread'[t].ready = thread[t].ready
      BY <2>4 DEF Goes, Moved
    <3>2. docsOf[active] = thread[t].ready
      BY <2>4 DEF IsConsistent
    <3> QED BY <2>1, <3>1, <3>2, AloneStep, AloneFacts DEF ReadyRows, Committing
  <2> QED BY <1>2, <2>2, <2>3, <2>4, SearchMoves
<1>3. CASE Rebuild(t)
  <2>1. row' = row
    BY <1>3 DEF Rebuild
  <2>2. CASE Enters(t, "rebuilding", ReadyRows)
    BY <2>1, <2>2, AloneStep, AloneFacts DEF Enters, ReadyRows, Committing
  <2>3. CASE Ends(t, "rebuilding")
    BY <2>3, AloneOther, IdleIsNotAlone DEF Ends
  <2> QED BY <1>3, <2>2, <2>3, SearchMoves
<1>4. CASE ReadSnapshot(t)
  <2>1. row' = row /\ docsOf' = docsOf /\ active' = active
    BY <1>4 DEF ReadSnapshot
  <2>2. CASE /\ thread[t].pc = "reading" /\ Others(t)
             /\ thread'[t].pc = "querying" /\ thread'[t].version = active
             /\ thread'[t].op = thread[t].op /\ thread'[t].doc = thread[t].doc
             /\ thread'[t].ready = thread[t].ready /\ thread'[t].alone = thread[t].alone
    BY <2>1, <2>2, AloneStep, AloneFacts DEF ReadyRows, Committing
  <2>3. CASE Ends(t, "reading")
    BY <2>3, AloneOther, IdleIsNotAlone DEF Ends
  <2> QED BY <1>4, <2>2, <2>3, SearchMoves
<1>5. CASE Query(t)
  BY <1>5, SearchMoves, AloneOther, IdleIsNotAlone DEF Ends
<1>6. CASE LockExpires(t)
  BY <1>6 DEF LockExpires, store, Undisturbed, AloneFits, ReadyRows
<1> QED BY <1>1, <1>2, <1>3, <1>4, <1>5, <1>6 DEF SearchStep

LEMMA CrashAlone ==
  ASSUME Basic, Undisturbed, NEW p \in Procs, Crash(p)
  PROVE  Undisturbed'
<1>1. /\ \A t \in Threads : thread'[t] = Idle \/ thread'[t] = thread[t]
      /\ row' = row /\ docsOf' = docsOf /\ active' = active
  BY DEF Crash
<1> QED BY <1>1, IdleIsNotAlone DEF Undisturbed, AloneFits, ReadyRows

LEMMA AloneKept ==
  ASSUME Basic, Undisturbed, VersionsFit, [Next]_vars
  PROVE  Undisturbed'
<1>1. CASE UNCHANGED vars
  BY <1>1 DEF vars, store, Undisturbed, AloneFits, ReadyRows
<1> QED BY <1>1, NextCases, UploadAlone, IndexAlone, DocumentAlone, SearchAlone, CrashAlone

-----------------------------------------------------------------------------
(* A patient owner: rows, files and the quota.                             *)

\* A step of t touches the row and the file of t's document only, the row only
\* in an upload.
LEMMA OwnedKept ==
  ASSUME Basic, DocumentsOwned, NEW t \in Threads, Others(t),
         \A d \in Docs : d # thread[t].doc => /\ row'[d] = row[d]
                                              /\ d \in object' <=> d \in object,
         thread[t].op \in {"upload", "undo"} \/ row' = row,
         \/ thread'[t].op = "none" /\ thread'[t].doc = NoDoc
         \/ thread'[t].op = thread[t].op /\ thread'[t].doc = thread[t].doc
         \/ thread'[t].op = "undo" /\ thread[t].op = "upload" /\ thread'[t].doc = thread[t].doc,
         RowFits(thread[t])',
         thread[t].doc \in Docs /\ row'[thread[t].doc] = "READY" => thread[t].doc \in object'
  PROVE  DocumentsOwned'
<1>1. \A u, v \in Threads :
        u # v /\ thread'[u].op \in {"upload", "undo"} => thread'[v].doc # thread'[u].doc
  <2>1. \A u \in Threads : thread[u].op \in {"upload", "undo"} => thread[u].doc \in Docs
    BY BasicFacts
  <2> QED BY <2>1, DocumentAssumptions DEF DocumentsOwned, Others
<1>2. \A u \in Threads \ {t} : RowFits(thread[u])'
  <2> TAKE u \in Threads \ {t}
  <2>1. thread'[u] = thread[u] /\ RowFits(thread[u])
    BY DEF Others, DocumentsOwned
  <2>2. thread[u].op \in {"upload", "undo", "delete"} => thread[u].doc \in Docs
    BY BasicFacts
  <2>3. CASE thread[u].op \in {"upload", "undo"}
    <3>1. thread[u].doc # thread[t].doc /\ thread[u].doc \in Docs
      BY <2>2, <2>3 DEF DocumentsOwned
    <3>2. row'[thread[u].doc] = row[thread[u].doc]
      BY <3>1
    <3>3. thread[u].doc \in object' <=> thread[u].doc \in object
      BY <3>1
    <3> QED BY <2>1, <2>3, <3>2, <3>3 DEF RowFits
  <2>4. CASE thread[u].op = "delete"
    <3>1. row'[thread[u].doc] = row[thread[u].doc]
      BY <2>2, <2>4 DEF DocumentsOwned
    <3> QED BY <2>1, <2>4, <3>1 DEF RowFits
  <2>5. CASE thread[u].op \notin {"upload", "undo", "delete"}
    BY <2>1, <2>5 DEF RowFits
  <2> QED BY <2>3, <2>4, <2>5
<1>3. \A d \in Docs : row'[d] = "READY" => d \in object'
  BY DEF DocumentsOwned
<1> QED BY <1>1, <1>2, <1>3 DEF DocumentsOwned

LEMMA OwnedFacts ==
  ASSUME Basic, DocumentsOwned, NEW t \in Threads
  PROVE  /\ RowFits(thread[t]) /\ OpFits(thread[t])
         /\ thread[t].op \in {"upload", "undo", "delete"} => thread[t].doc \in Docs
         /\ row \in [Docs -> Statuses]
         /\ \A d \in Docs : row[d] = "READY" => d \in object
BY BasicFacts DEF DocumentsOwned, Basic, TypeOK

\* Steps that leave the rows and the files alone.
LEMMA OwnedStill ==
  ASSUME Basic, DocumentsOwned, NEW t \in Threads, Others(t), row' = row, object' = object,
         \/ thread'[t].op = "none" /\ thread'[t].doc = NoDoc
         \/ thread'[t].op = thread[t].op /\ thread'[t].doc = thread[t].doc
         \/ thread'[t].op = "undo" /\ thread[t].op = "upload" /\ thread'[t].doc = thread[t].doc,
         RowFits(thread[t])'
  PROVE  DocumentsOwned'
BY OwnedKept, OwnedFacts

\* The request ends and leaves the rows and the files alone.
LEMMA OwnedEnd ==
  ASSUME Basic, DocumentsOwned, NEW t \in Threads, Others(t), thread'[t] = Idle,
         row' = row, object' = object
  PROVE  DocumentsOwned'
<1>1. thread'[t].op = "none" /\ thread'[t].doc = NoDoc
  BY DEF Idle
<1>2. RowFits(thread[t])'
  BY <1>1 DEF RowFits
<1> QED BY <1>1, <1>2, OwnedStill

LEMMA UploadOwned ==
  ASSUME Basic, DocumentsOwned, NEW t \in Threads, UploadStep(t)
  PROVE  DocumentsOwned'
<1>1. ASSUME NEW d \in Docs, BeginUpload(t, d) PROVE DocumentsOwned'
  <2>0. /\ row' = row /\ object' = object
        /\ row[d] = "ABSENT" /\ \A u \in Threads : thread[u].doc # d
    BY <1>1 DEF BeginUpload
  <2>1. Begin(t, "upload", "counting", d) /\ lock' = lock
    BY <1>1 DEF BeginUpload
  <2>2. /\ thread'[t].pc = "counting" /\ thread'[t].op = "upload" /\ thread'[t].doc = d
        /\ \A u \in Threads \ {t} : Moved(u, thread[u].pc)
    BY <2>1, BasicBegin, Zenon
  <2>3. RowFits(thread[t])'
    BY <2>0, <2>2 DEF RowFits, Committing
  <2>4. \A u \in Threads \ {t} : RowFits(thread[u])'
    BY <2>0, <2>2 DEF DocumentsOwned, RowFits, Moved
  <2> QED BY <2>0, <2>2, <2>3, <2>4 DEF DocumentsOwned, Moved
<1>2. CASE CountDocuments(t)
  <2>1. row' = row /\ object' = object
    BY <1>2 DEF CountDocuments
  <2>2. CASE Ends(t, "counting")
    BY <2>1, <2>2, OwnedEnd DEF Ends
  <2>3. CASE Goes(t, "counting", "reserving")
    <3>1. RowFits(thread[t])'
      BY <2>1, <2>3, OwnedFacts DEF RowFits, Goes, Moved, Committing, OpFits, Uploading
    <3> QED BY <2>1, <2>3, <3>1, OwnedStill DEF Goes, Moved
  <2> QED BY <1>2, <2>2, <2>3, UploadMoves
<1>3. CASE Reserve(t)
  <2>1. PICK d \in Docs : d = thread[t].doc
    BY <1>3, OwnedFacts DEF Reserve, At, OpFits, Uploading
  <2>2. /\ row' = [row EXCEPT ![d] = "UPLOADED"] /\ object' = object
        /\ thread[t].op = "upload" /\ Goes(t, "reserving", "storing")
    BY <1>3, <2>1, UploadMoves, OwnedFacts DEF Reserve, Goes, OpFits, Uploading
  <2>3. row'[d] = "UPLOADED" /\ \A e \in Docs \ {d} : row'[e] = row[e]
    BY <2>2, OwnedFacts
  <2>4. RowFits(thread[t])'
    BY <2>1, <2>2, <2>3 DEF RowFits, Goes, Moved, Committing
  <2> QED BY <2>1, <2>2, <2>3, <2>4, OwnedKept DEF Goes, Moved
<1>4. CASE Store(t)
  <2>1. PICK d \in Docs : d = thread[t].doc
    BY <1>4, OwnedFacts DEF Store, At, OpFits, Uploading
  <2>2. /\ row' = row /\ object' \in {object, object \cup {d}}
        /\ thread[t].op = "upload" /\ row[d] = "UPLOADED"
        /\ Goes(t, "storing", "processing") \/ Goes(t, "storing", "failing")
    BY <1>4, <2>1, UploadMoves, OwnedFacts DEF Store, Goes, OpFits, Uploading, RowFits
  <2>3. RowFits(thread[t])'
    BY <2>1, <2>2 DEF RowFits, Goes, Moved, Committing
  <2> QED BY <2>1, <2>2, <2>3, OwnedKept DEF Goes, Moved
<1>5. CASE SetProcessing(t)
  <2>1. PICK d \in Docs : d = thread[t].doc
    BY <1>5, OwnedFacts DEF SetProcessing, At, OpFits, Uploading
  <2>2. /\ row' = [row EXCEPT ![d] = "PROCESSING"] /\ object' = object
        /\ thread[t].op = "upload" /\ Goes(t, "processing", "parsing")
    BY <1>5, <2>1, UploadMoves, OwnedFacts DEF SetProcessing, Goes, OpFits, Uploading
  <2>3. row'[d] = "PROCESSING" /\ \A e \in Docs \ {d} : row'[e] = row[e]
    BY <2>2, OwnedFacts
  <2>4. RowFits(thread[t])'
    BY <2>1, <2>2, <2>3 DEF RowFits, Goes, Moved, Committing
  <2> QED BY <2>1, <2>2, <2>3, <2>4, OwnedKept DEF Goes, Moved
<1>6. CASE Parse(t)
  <2>1. /\ row' = row /\ object' = object /\ thread[t].op = "upload"
        /\ row[thread[t].doc] = "PROCESSING"
        /\ \/ Goes(t, "parsing", "indexing") /\ thread[t].doc \in object
           \/ Goes(t, "parsing", "failing")
    BY <1>6, UploadMoves, OwnedFacts DEF Parse, Goes, OpFits, Uploading, RowFits
  <2>2. RowFits(thread[t])'
    BY <2>1 DEF RowFits, Goes, Moved, Committing
  <2> QED BY <2>1, <2>2, OwnedStill DEF Goes, Moved
<1> QED BY <1>1, <1>2, <1>3, <1>4, <1>5, <1>6 DEF UploadStep

LEMMA IndexOwned ==
  ASSUME Basic, DocumentsOwned, NEW t \in Threads, IndexStep(t)
  PROVE  DocumentsOwned'
<1>1. row' = row /\ object' = object
  BY DEF IndexStep, AddToIndex, LockIndex, Upsert, Activate, Clean, store
<1>2. ASSUME GivesUp(t, "locking") \/ GivesUp(t, "upserting")
      PROVE  DocumentsOwned'
  <2>1. CASE Ends(t, "locking") \/ Ends(t, "upserting")
    BY <1>1, <2>1, OwnedEnd DEF Ends
  <2>2. CASE /\ thread[t].op \in {"upload", "undo"}
             /\ Goes(t, "locking", "failing") \/ Goes(t, "upserting", "failing")
    <3>1. RowFits(thread[t])'
      BY <1>1, <2>2, OwnedFacts DEF RowFits, Goes, Moved, Committing
    <3> QED BY <1>1, <2>2, <3>1, OwnedStill DEF Goes, Moved
  <2>3. CASE /\ thread[t].op = "delete"
             /\ Goes(t, "locking", "erasing") \/ Goes(t, "upserting", "erasing")
    <3>1. RowFits(thread[t])'
      BY <1>1, <2>3, OwnedFacts DEF RowFits, Goes, Moved
    <3> QED BY <1>1, <2>3, <3>1, OwnedStill DEF Goes, Moved
  <2> QED BY <1>2, <2>1, <2>2, <2>3 DEF GivesUp
<1>3. CASE AddToIndex(t)
  <2>1. /\ Others(t) /\ thread[t].pc = "indexing" /\ thread[t].op = "upload"
        /\ thread'[t].op = thread[t].op /\ thread'[t].doc = thread[t].doc
        /\ thread'[t].pc \in {"locking", "failing"}
    BY <1>3, IndexMoves, OwnedFacts DEF Goes, Enters, Moved, OpFits, Uploading
  <2>2. RowFits(thread[t])'
    BY <1>1, <2>1, OwnedFacts DEF RowFits, Committing
  <2> QED BY <1>1, <2>1, <2>2, OwnedStill
<1>4. CASE Goes(t, "locking", "upserting")
  <2>1. RowFits(thread[t])'
    BY <1>1, <1>4, OwnedFacts DEF RowFits, Goes, Moved, Committing
  <2> QED BY <1>1, <1>4, <2>1, OwnedStill DEF Goes, Moved
<1>5. CASE Upsert(t)
  <2>1. thread[t].pc = "upserting" /\ fresh \in Versions
    BY <1>5, DocumentAssumptions DEF Upsert, At, Basic, TypeOK, Versions
  <2>2. CASE thread' = [thread EXCEPT ![t].pc = "activating", ![t].version = fresh,
                                      ![t].previous = active]
    <3>1. /\ thread'[t].pc = "activating" /\ Others(t)
          /\ thread'[t].op = thread[t].op /\ thread'[t].doc = thread[t].doc
      BY <2>1, <2>2, UpsertEffect
    <3>2. RowFits(thread[t])'
      BY <1>1, <2>1, <3>1, OwnedFacts DEF RowFits, Committing
    <3> QED BY <1>1, <3>1, <3>2, OwnedStill
  <2>3. CASE Abandon(t)
    BY <1>2, <2>1, <2>3, GivingUp DEF At
  <2> QED BY <1>5, <2>2, <2>3 DEF Upsert
<1>6. CASE Activate(t)
  <2>1. Goes(t, "activating", "cleaning")
    BY <1>6, IndexMoves
  <2>2. RowFits(thread[t])'
    BY <1>1, <2>1, OwnedFacts DEF RowFits, Goes, Moved, Committing
  <2> QED BY <1>1, <2>1, <2>2, OwnedStill DEF Goes, Moved
<1>7. CASE Clean(t)
  <2>1. /\ thread[t].pc = "cleaning" /\ Others(t)
        /\ thread'[t].op = thread[t].op /\ thread'[t].doc = thread[t].doc
        /\ \/ thread[t].op = "upload" /\ thread'[t].pc = "marking"
           \/ thread[t].op = "undo" /\ thread'[t].pc = "failing"
           \/ thread[t].op = "delete"
           \/ thread[t].op = "search"
    BY <1>7, IndexMoves DEF Goes, Moved
  <2>2. RowFits(thread[t])'
    BY <1>1, <2>1, OwnedFacts DEF RowFits, Committing
  <2> QED BY <1>1, <2>1, <2>2, OwnedStill
<1> QED BY <1>2, <1>3, <1>4, <1>5, <1>6, <1>7, IndexMoves DEF IndexStep

LEMMA DocumentOwned ==
  ASSUME PatientOwner, Basic, DocumentsOwned, NEW t \in Threads, DocumentStep(t)
  PROVE  DocumentsOwned'
<1>1. ASSUME NEW d \in Docs, Delete(t, d) PROVE DocumentsOwned'
  <2>1. /\ Begin(t, "delete", "unindexing", d) /\ lock' = lock /\ object' = object
        /\ row' = [row EXCEPT ![d] = "DELETED"]
        /\ \A u \in Threads : thread[u].op \in {"upload", "undo"} => thread[u].doc # d
    BY <1>1 DEF Delete
  <2>2. /\ thread'[t].pc = "unindexing" /\ thread'[t].op = "delete" /\ thread'[t].doc = d
        /\ \A u \in Threads \ {t} : Moved(u, thread[u].pc)
    BY <2>1, BasicBegin, Zenon
  <2>3. row'[d] = "DELETED" /\ \A e \in Docs \ {d} : row'[e] = row[e]
    BY <2>1, OwnedFacts
  <2>4. RowFits(thread[t])'
    BY <2>2, <2>3 DEF RowFits
  <2>5. \A u \in Threads \ {t} : RowFits(thread[u])'
    <3> TAKE u \in Threads \ {t}
    <3>1. RowFits(thread[u]) /\ Moved(u, thread[u].pc)
      BY <2>2, OwnedFacts
    <3>2. CASE thread[u].op \in {"upload", "undo"}
      <4>1. thread[u].doc \in Docs \ {d}
        BY <2>1, <3>2, OwnedFacts
      <4>2. row'[thread[u].doc] = row[thread[u].doc]
        BY <2>3, <4>1
      <4> QED BY <2>1, <3>1, <3>2, <4>2 DEF RowFits, Moved
    <3>3. CASE thread[u].op = "delete"
      <4>1. thread[u].doc \in Docs /\ row[thread[u].doc] = "DELETED"
        BY <3>1, <3>3, OwnedFacts DEF RowFits
      <4>2. row'[thread[u].doc] = "DELETED"
        BY <2>3, <4>1
      <4> QED BY <3>1, <3>3, <4>2 DEF RowFits, Moved
    <3>4. CASE thread[u].op \notin {"upload", "undo", "delete"}
      BY <3>1, <3>4 DEF RowFits, Moved
    <3> QED BY <3>2, <3>3, <3>4
  <2>6. \A e \in Docs : row'[e] = "READY" => e \in object'
    BY <2>1, <2>3, OwnedFacts
  <2> QED BY <2>1, <2>2, <2>4, <2>5, <2>6 DEF DocumentsOwned, Moved
<1>2. CASE MarkReady(t)
  <2>1. PICK d \in Docs : d = thread[t].doc
    BY <1>2, OwnedFacts DEF MarkReady, At, OpFits, Uploading
  <2>2. /\ row' = [row EXCEPT ![d] = "READY"] /\ object' = object /\ d \in object
        /\ thread[t].op = "upload" /\ Ends(t, "marking")
    BY <1>2, <2>1, DocumentMoves, OwnedFacts DEF MarkReady, Ends, OpFits, Uploading, RowFits
  <2>3. \A e \in Docs \ {d} : row'[e] = row[e]
    BY <2>2, OwnedFacts
  <2>4. thread'[t].op = "none" /\ thread'[t].doc = NoDoc
    BY <2>2 DEF Ends, Idle
  <2>5. RowFits(thread[t])'
    BY <2>4 DEF RowFits
  <2> QED BY <2>1, <2>2, <2>3, <2>4, <2>5, OwnedKept DEF Ends
<1>3. CASE MarkFails(t)
  <2>1. /\ row' = row /\ object' = object /\ thread[t].pc = "marking" /\ thread[t].op = "upload"
    BY <1>3, OwnedFacts DEF MarkFails, At, OpFits, Uploading
  <2>2. /\ Others(t) /\ thread'[t].doc = thread[t].doc
        /\ \/ thread'[t].pc = "locking" /\ thread'[t].op = "undo"
           \/ thread'[t].pc = "failing" /\ thread'[t].op = "upload"
    BY <1>3, <2>1, DocumentMoves DEF Goes, Moved
  <2>3. RowFits(thread[t])'
    BY <2>1, <2>2, OwnedFacts DEF RowFits, Committing
  <2> QED BY <2>1, <2>2, <2>3, OwnedStill
<1>4. CASE DiscardFile(t)
  <2>1. PICK d \in Docs : d = thread[t].doc
    BY <1>4, OwnedFacts DEF DiscardFile, At, OpFits
  <2>2. /\ row' = row /\ object' \in {object, object \ {d}} /\ Goes(t, "failing", "recording")
        /\ thread[t].op \in {"upload", "undo"} /\ row[d] \in {"UPLOADED", "PROCESSING"}
    BY <1>4, <2>1, DocumentMoves, OwnedFacts DEF DiscardFile, Goes, OpFits, RowFits
  <2>3. RowFits(thread[t])'
    BY <2>1, <2>2 DEF RowFits, Goes, Moved, Committing
  <2> QED BY <2>1, <2>2, <2>3, OwnedKept DEF Goes, Moved
<1>5. CASE MarkFailed(t)
  <2>1. PICK d \in Docs : d = thread[t].doc
    BY <1>5, OwnedFacts DEF MarkFailed, At, OpFits
  <2>2. /\ object' = object /\ Ends(t, "recording")
        /\ thread[t].op \in {"upload", "undo"} /\ row[d] \in {"UPLOADED", "PROCESSING"}
        /\ row' = [row EXCEPT ![d] = IF @ \in {"ABSENT", "READY"} THEN @ ELSE "FAILED"]
    BY <1>5, <2>1, DocumentMoves, OwnedFacts DEF MarkFailed, Ends, OpFits, RowFits
  <2>3. row'[d] = "FAILED" /\ \A e \in Docs \ {d} : row'[e] = row[e]
    BY <2>2, OwnedFacts
  <2>4. thread'[t].op = "none" /\ thread'[t].doc = NoDoc
    BY <2>2 DEF Ends, Idle
  <2>5. RowFits(thread[t])'
    BY <2>4 DEF RowFits
  <2> QED BY <2>1, <2>2, <2>3, <2>4, <2>5, OwnedKept DEF Ends
<1>6. CASE Unindex(t)
  <2>1. /\ row' = row /\ object' = object /\ thread[t].op = "delete"
    BY <1>6, OwnedFacts DEF Unindex, At, OpFits
  <2>2. Others(t) /\ thread'[t].doc = thread[t].doc /\ thread'[t].op = thread[t].op
    BY <1>6, DocumentMoves DEF Goes, Moved, Enters
  <2>3. RowFits(thread[t])'
    BY <2>1, <2>2, OwnedFacts DEF RowFits
  <2> QED BY <2>1, <2>2, <2>3, OwnedStill
<1>7. CASE EraseFile(t)
  <2>1. PICK d \in Docs : d = thread[t].doc
    BY <1>7, OwnedFacts DEF EraseFile, At, OpFits
  <2>2. /\ row' = row /\ object' \in {object, object \ {d}} /\ Ends(t, "erasing")
        /\ row[d] = "DELETED"
    BY <1>7, <2>1, DocumentMoves, OwnedFacts DEF EraseFile, Ends, OpFits, RowFits
  <2>3. thread'[t].op = "none" /\ thread'[t].doc = NoDoc
    BY <2>2 DEF Ends, Idle
  <2>4. RowFits(thread[t])'
    BY <2>3 DEF RowFits
  <2> QED BY <2>1, <2>2, <2>3, <2>4, OwnedKept DEF Ends
<1> QED BY <1>1, <1>2, <1>3, <1>4, <1>5, <1>6, <1>7 DEF DocumentStep

LEMMA SearchOwned ==
  ASSUME Basic, DocumentsOwned, NEW t \in Threads, SearchStep(t)
  PROVE  DocumentsOwned'
<1>1. row' = row /\ object' = object
  BY DEF SearchStep, BeginSearch, Check, Rebuild, ReadSnapshot, Query, LockExpires
<1>2. CASE BeginSearch(t)
  <2>1. Begin(t, "search", "checking", NoDoc) /\ lock' = lock
    BY <1>2 DEF BeginSearch
  <2>2. /\ thread'[t].op = "search" /\ thread'[t].doc = NoDoc
        /\ \A u \in Threads \ {t} : Moved(u, thread[u].pc)
    BY <2>1, BasicBegin, Zenon
  <2>3. \A u \in Threads : RowFits(thread[u])'
    BY <1>1, <2>2 DEF DocumentsOwned, RowFits, Moved
  <2>4. \A u \in Threads : thread[u].op \in {"upload", "undo"} => thread[u].doc \in Docs
    BY BasicFacts
  <2> QED BY <1>1, <2>2, <2>3, <2>4, DocumentAssumptions DEF DocumentsOwned, Moved
<1>3. CASE LockExpires(t)
  BY <1>3 DEF LockExpires, DocumentsOwned, RowFits
<1>4. CASE Check(t) \/ Rebuild(t) \/ ReadSnapshot(t) \/ Query(t)
  <2>1. /\ thread[t].pc \in {"checking", "rebuilding", "reading", "querying"} /\ Others(t)
        /\ \/ thread'[t] = Idle
           \/ thread'[t].op = thread[t].op /\ thread'[t].doc = thread[t].doc
    BY <1>4, SearchMoves DEF Goes, Ends, Enters, Moved
  <2>2. thread[t].op = "search"
    BY <2>1, BasicFacts DEF OpFits
  <2>3. CASE thread'[t] = Idle
    BY <1>1, <2>1, <2>3, OwnedEnd
  <2>4. CASE thread'[t].op = thread[t].op /\ thread'[t].doc = thread[t].doc
    <3>1. RowFits(thread[t])'
      BY <2>2, <2>4 DEF RowFits
    <3> QED BY <1>1, <2>1, <2>4, <3>1, OwnedStill
  <2> QED BY <2>1, <2>3, <2>4
<1> QED BY <1>2, <1>3, <1>4 DEF SearchStep

LEMMA CrashOwned ==
  ASSUME Basic, DocumentsOwned, NEW p \in Procs, Crash(p)
  PROVE  DocumentsOwned'
<1>1. /\ \A t \in Threads : thread'[t] = Idle \/ thread'[t] = thread[t]
      /\ row' = row /\ object' = object
  BY DEF Crash
<1>2. Idle.op = "none" /\ Idle.doc = NoDoc
  BY DEF Idle
<1>3. \A t \in Threads : thread[t].op \in {"upload", "undo"} => thread[t].doc \in Docs
  BY BasicFacts
<1>4. \A t \in Threads : RowFits(thread[t])'
  BY <1>1, <1>2 DEF DocumentsOwned, RowFits
<1>5. \A t, u \in Threads :
        t # u /\ thread'[t].op \in {"upload", "undo"} => thread'[u].doc # thread'[t].doc
  BY <1>1, <1>2, <1>3, DocumentAssumptions DEF DocumentsOwned
<1> QED BY <1>1, <1>4, <1>5 DEF DocumentsOwned

LEMMA OwnedStep ==
  ASSUME PatientOwner, Basic, DocumentsOwned, [Next]_vars
  PROVE  DocumentsOwned'
<1>1. CASE UNCHANGED vars
  BY <1>1 DEF vars, DocumentsOwned, RowFits
<1> QED BY <1>1, NextCases, UploadOwned, IndexOwned, DocumentOwned, SearchOwned, CrashOwned

-----------------------------------------------------------------------------
(* The quota: each process counts and reserves under its own lock.         *)

CountedRows == {d \in Docs : row[d] \in Counted}

LEMMA QuotaNumbers ==
  /\ InUse = Cardinality(CountedRows) /\ IsFiniteSet(CountedRows) /\ InUse \in Nat
  /\ IsFiniteSet(Reserving) /\ Cardinality(Reserving) \in Nat
  /\ Cardinality(Procs) \in Nat /\ Cardinality(Reserving) <= Cardinality(Procs)
<1>1. CountedRows \subseteq Docs /\ Reserving \subseteq Procs
  BY DEF CountedRows, Reserving
<1>2. /\ IsFiniteSet(CountedRows) /\ IsFiniteSet(Reserving)
      /\ Cardinality(Reserving) <= Cardinality(Procs)
  BY <1>1, DocumentAssumptions, FS_Subset
<1> QED BY <1>2, DocumentAssumptions, FS_CardinalityType DEF InUse, CountedRows

\* Neither set grows.
LEMMA QuotaLess ==
  ASSUME QuotaHeld, CountedRows' \subseteq CountedRows, Reserving' \subseteq Reserving
  PROVE  QuotaHeld'
<1>1. /\ Cardinality(CountedRows') <= Cardinality(CountedRows)
      /\ Cardinality(Reserving') <= Cardinality(Reserving)
  BY QuotaNumbers, FS_Subset
<1>2. InUse' \in Nat /\ Cardinality(Reserving') \in Nat /\ InUse' = Cardinality(CountedRows')
  <2>1. CountedRows' \subseteq Docs /\ Reserving' \subseteq Procs
    BY DEF CountedRows, Reserving
  <2>2. IsFiniteSet(CountedRows') /\ IsFiniteSet(Reserving')
    BY <2>1, DocumentAssumptions, FS_Subset
  <2> QED BY <2>2, FS_CardinalityType DEF InUse, CountedRows
<1> QED BY <1>1, <1>2, QuotaNumbers, DocumentAssumptions DEF QuotaHeld

LEMMA ReservingShrinks ==
  ASSUME Basic, NEW t \in Threads, thread'[t].pc # "reserving",
         \A u \in Threads \ {t} : thread'[u].pc = thread[u].pc,
         UNCHANGED lock \/ Take(t) \/ Release(t)
  PROVE  Reserving' \subseteq Reserving
<1>1. ASSUME NEW p \in Reserving'
      PROVE  p \in Reserving
  <2>1. /\ p \in Procs /\ lock'[p] \in Threads /\ thread'[lock'[p]].pc = "reserving"
        /\ lock'[p] # t
    BY <1>1 DEF Reserving
  <2>2. lock'[p] = lock[p]
    <3>1. CASE UNCHANGED lock
      BY <3>1
    <3>2. CASE Take(t)
      BY <2>1, <3>2, DocumentAssumptions DEF Take, Basic, TypeOK
    <3>3. CASE Release(t)
      BY <2>1, <3>3, DocumentAssumptions DEF Release, Basic, TypeOK
    <3> QED BY <3>1, <3>2, <3>3
  <2> QED BY <2>1, <2>2 DEF Reserving
<1> QED BY <1>1

LEMMA QuotaStill ==
  ASSUME Basic, QuotaHeld, NEW t \in Threads, thread'[t].pc # "reserving",
         \A u \in Threads \ {t} : thread'[u].pc = thread[u].pc,
         UNCHANGED lock \/ Take(t) \/ Release(t),
         \A d \in Docs : row'[d] \in Counted => row[d] \in Counted
  PROVE  QuotaHeld'
<1>1. CountedRows' \subseteq CountedRows
  BY DEF CountedRows
<1> QED BY <1>1, ReservingShrinks, QuotaLess

LEMMA QuotaReserve ==
  ASSUME Basic, DocumentsOwned, QuotaHeld, NEW t \in Threads, Reserve(t)
  PROVE  QuotaHeld'
<1>1. PICK d \in Docs : d = thread[t].doc
  BY OwnedFacts DEF Reserve, At, OpFits, Uploading
<1>2. PICK p \in Procs : p = ProcOf[t]
  BY DocumentAssumptions
<1>3. /\ row' = [row EXCEPT ![d] = "UPLOADED"] /\ lock' = [lock EXCEPT ![p] = NoThread]
      /\ Goes(t, "reserving", "storing") /\ Release(t)
  BY <1>1, <1>2, UploadMoves DEF Reserve, Release
<1>4. lock[p] = t /\ thread[t].pc = "reserving"
  BY <1>2, <1>3 DEF Basic, LocksHeld, Holding, Goes
<1>5. p \in Reserving
  BY <1>4 DEF Reserving
<1>6. Reserving' \subseteq Reserving \ {p}
  <2>1. Reserving' \subseteq Reserving
    BY <1>3, ReservingShrinks DEF Goes, Moved, Others
  <2>2. p \notin Reserving'
    BY <1>3, DocumentAssumptions DEF Reserving, Basic, TypeOK
  <2> QED BY <2>1, <2>2
<1>7. Cardinality(Reserving \ {p}) = Cardinality(Reserving) - 1 /\ IsFiniteSet(Reserving \ {p})
  BY <1>5, QuotaNumbers, FS_RemoveElement
<1>8. Cardinality(Reserving') <= Cardinality(Reserving) - 1 /\ IsFiniteSet(Reserving')
  BY <1>6, <1>7, FS_Subset
<1>9. CountedRows' \subseteq CountedRows \cup {d}
  BY <1>3 DEF CountedRows, Basic, TypeOK
<1>10. /\ IsFiniteSet(CountedRows \cup {d})
       /\ Cardinality(CountedRows \cup {d}) <= Cardinality(CountedRows) + 1
  <2>1. /\ IsFiniteSet(CountedRows \cup {d})
        /\ \/ Cardinality(CountedRows \cup {d}) = Cardinality(CountedRows)
           \/ Cardinality(CountedRows \cup {d}) = Cardinality(CountedRows) + 1
    BY QuotaNumbers, FS_AddElement
  <2>2. Cardinality(CountedRows) \in Nat
    BY QuotaNumbers
  <2> QED BY <2>1, <2>2
<1>11. Cardinality(CountedRows') <= Cardinality(CountedRows \cup {d}) /\ IsFiniteSet(CountedRows')
  BY <1>9, <1>10, FS_Subset
<1>12. /\ InUse' = Cardinality(CountedRows') /\ Cardinality(CountedRows') \in Nat
       /\ Cardinality(Reserving') \in Nat /\ Cardinality(CountedRows \cup {d}) \in Nat
  BY <1>8, <1>10, <1>11, FS_CardinalityType DEF InUse, CountedRows
<1> QED BY <1>8, <1>10, <1>11, <1>12, QuotaNumbers, DocumentAssumptions DEF QuotaHeld

LEMMA QuotaCount ==
  ASSUME Basic, QuotaHeld, NEW t \in Threads, CountDocuments(t)
  PROVE  QuotaHeld'
<1>1. row' = row
  BY DEF CountDocuments
<1>2. CASE Ends(t, "counting") /\ UNCHANGED lock
  <2>1. /\ thread'[t].pc # "reserving" /\ lock' = lock
        /\ \A u \in Threads \ {t} : thread'[u].pc = thread[u].pc
    BY <1>2 DEF Ends, Idle, Others
  <2> QED BY <1>1, <2>1, QuotaStill
<1>3. CASE InUse < MaxDocuments
  <2>1. InUse' = InUse
    BY <1>1 DEF InUse
  <2>2. Reserving' \subseteq Procs
    BY DEF Reserving
  <2>3. Cardinality(Reserving') <= Cardinality(Procs) /\ Cardinality(Reserving') \in Nat
    BY <2>2, DocumentAssumptions, FS_Subset, FS_CardinalityType
  <2> QED BY <1>3, <2>1, <2>3, QuotaNumbers, DocumentAssumptions DEF QuotaHeld
<1> QED BY <1>2, <1>3, UploadMoves

LEMMA QuotaKept ==
  ASSUME Basic, DocumentsOwned, QuotaHeld, [Next]_vars
  PROVE  QuotaHeld'
<1>1. ASSUME NEW t \in Threads,
             (\E d \in Docs : BeginUpload(t, d) \/ Delete(t, d)) \/ BeginSearch(t)
      PROVE  QuotaHeld'
  <2>1. \A d \in Docs : row'[d] \in Counted => row[d] \in Counted
    BY <1>1 DEF BeginUpload, Delete, BeginSearch, Counted, Basic, TypeOK
  <2>2. PICK pc \in {"counting", "unindexing", "checking"} :
          thread'[t].pc = pc /\ \A u \in Threads \ {t} : Moved(u, thread[u].pc)
    BY <1>1, BeginMoves
  <2>3. UNCHANGED lock
    BY <1>1 DEF BeginUpload, Delete, BeginSearch
  <2> QED BY <2>1, <2>2, <2>3, QuotaStill DEF Moved
<1>2. ASSUME NEW t \in Threads, Store(t) \/ SetProcessing(t) \/ Parse(t)
      PROVE  QuotaHeld'
  <2>1. UNCHANGED lock
    BY <1>2 DEF Store, SetProcessing, Parse
  <2>2. \A d \in Docs : row'[d] \in Counted => row[d] \in Counted
    <3>1. CASE Store(t) \/ Parse(t)
      BY <3>1 DEF Store, Parse
    <3>2. CASE SetProcessing(t)
      <4>1. thread[t].doc \in Docs /\ row[thread[t].doc] = "UPLOADED"
        BY <3>2, OwnedFacts DEF SetProcessing, At, OpFits, Uploading, RowFits
      <4> QED BY <3>2, <4>1, OwnedFacts DEF SetProcessing, Counted
    <3> QED BY <1>2, <3>1, <3>2
  <2>3. thread'[t].pc # "reserving" /\ Others(t)
    BY <1>2, UploadMoves DEF Goes, Moved
  <2> QED BY <2>1, <2>2, <2>3, QuotaStill DEF Others
<1>3. ASSUME NEW t \in Threads, IndexStep(t)
      PROVE  QuotaHeld'
  <2>1. row' = row
    BY <1>3 DEF IndexStep, AddToIndex, LockIndex, Upsert, Activate, Clean
  <2>2. UNCHANGED lock \/ Take(t) \/ Release(t)
    BY <1>3 DEF IndexStep, AddToIndex, LockIndex, Upsert, Activate, Clean
  <2>3. thread'[t].pc # "reserving" /\ Others(t)
    <3>1. CASE Upsert(t)
      <4>1. thread[t].pc = "upserting" /\ fresh \in Versions
        BY <3>1, DocumentAssumptions DEF Upsert, At, Basic, TypeOK, Versions
      <4>2. CASE Abandon(t)
        BY <4>1, <4>2, AbandonEffect DEF Moved, Idle
      <4>3. CASE thread' = [thread EXCEPT ![t].pc = "activating", ![t].version = fresh,
                                          ![t].previous = active]
        BY <4>1, <4>3, UpsertEffect
      <4> QED BY <3>1, <4>2, <4>3 DEF Upsert
    <3>2. CASE AddToIndex(t) \/ LockIndex(t) \/ Activate(t) \/ Clean(t)
      BY <3>2, IndexMoves DEF GivesUp, Goes, Ends, Enters, Moved, Idle
    <3> QED BY <1>3, <3>1, <3>2 DEF IndexStep
  <2> QED BY <2>1, <2>2, <2>3, QuotaStill DEF Others
<1>4. ASSUME NEW t \in Threads,
             MarkReady(t) \/ MarkFails(t) \/ DiscardFile(t) \/ MarkFailed(t)
               \/ Unindex(t) \/ EraseFile(t)
      PROVE  QuotaHeld'
  <2>1. UNCHANGED lock \/ Take(t) \/ Release(t)
    BY <1>4 DEF MarkReady, MarkFails, DiscardFile, MarkFailed, Unindex, EraseFile
  <2>2. thread'[t].pc # "reserving" /\ Others(t)
    BY <1>4, DocumentMoves DEF Goes, Ends, Enters, Moved, Idle
  <2>3. \A d \in Docs : row'[d] \in Counted => row[d] \in Counted
    <3>1. CASE MarkReady(t)
      <4>1. thread[t].doc \in Docs /\ row[thread[t].doc] = "PROCESSING"
        BY <3>1, OwnedFacts DEF MarkReady, At, OpFits, Uploading, RowFits
      <4> QED BY <3>1, <4>1, OwnedFacts DEF MarkReady, Counted
    <3>2. CASE MarkFailed(t)
      <4>1. thread[t].doc \in Docs /\ row[thread[t].doc] \in {"UPLOADED", "PROCESSING"}
        BY <3>2, OwnedFacts DEF MarkFailed, At, OpFits, RowFits
      <4> QED BY <3>2, <4>1, OwnedFacts DEF MarkFailed, Counted
    <3>3. CASE MarkFails(t) \/ DiscardFile(t) \/ Unindex(t) \/ EraseFile(t)
      BY <3>3 DEF MarkFails, DiscardFile, Unindex, EraseFile
    <3> QED BY <1>4, <3>1, <3>2, <3>3
  <2> QED BY <2>1, <2>2, <2>3, QuotaStill DEF Others
<1>5. ASSUME NEW t \in Threads, Check(t) \/ Rebuild(t) \/ ReadSnapshot(t) \/ Query(t)
      PROVE  QuotaHeld'
  <2>1. row' = row /\ (UNCHANGED lock \/ Take(t) \/ Release(t))
    BY <1>5 DEF Check, Rebuild, ReadSnapshot, Query
  <2>2. thread'[t].pc # "reserving" /\ Others(t)
    BY <1>5, SearchMoves DEF Goes, Ends, Enters, Moved, Idle
  <2> QED BY <2>1, <2>2, QuotaStill DEF Others
<1>6. ASSUME row' = row, \A p \in Procs : lock'[p] \in {lock[p], NoThread},
             \A t \in Threads : thread'[t] \in {thread[t], Idle}
      PROVE  QuotaHeld'
  <2>1. CountedRows' \subseteq CountedRows
    BY <1>6 DEF CountedRows
  <2>2. Reserving' \subseteq Reserving
    BY <1>6, DocumentAssumptions DEF Reserving, Idle
  <2> QED BY <2>1, <2>2, QuotaLess
<1>7. ASSUME NEW t \in Threads, LockExpires(t) PROVE QuotaHeld'
  BY <1>6, <1>7 DEF LockExpires
<1>8. ASSUME NEW p \in Procs, Crash(p) PROVE QuotaHeld'
  BY <1>6, <1>8 DEF Crash, Basic, TypeOK
<1>9. CASE UNCHANGED vars
  BY <1>6, <1>9 DEF vars
<1> QED BY <1>1, <1>2, <1>3, <1>4, <1>5, <1>7, <1>8, <1>9, NextCases, QuotaReserve, QuotaCount
        DEF UploadStep, DocumentStep, SearchStep

LEMMA OwnerInit ==
  ASSUME Init
  PROVE  DocumentsOwned /\ QuotaHeld
<1>1. /\ \A t \in Threads : thread[t].op = "none" /\ thread[t].doc = NoDoc /\ thread[t].pc = "idle"
      /\ \A d \in Docs : row[d] = "ABSENT"
      /\ \A p \in Procs : lock[p] = NoThread
  BY DEF Init, Idle
<1>2. DocumentsOwned
  BY <1>1 DEF DocumentsOwned, RowFits
<1>3. CountedRows = {} /\ Reserving = {}
  BY <1>1, DocumentAssumptions DEF CountedRows, Counted, Reserving
<1>4. InUse = 0 /\ Cardinality(Reserving) = 0
  BY <1>3, QuotaNumbers, FS_EmptySet
<1> QED BY <1>2, <1>4, QuotaNumbers, DocumentAssumptions DEF QuotaHeld

LEMMA IndexInit ==
  ASSUME Init
  PROVE  IndexLocked /\ VersionsFit /\ Undisturbed
<1>1. \A t \in Threads : thread[t].pc = "idle" /\ ~thread[t].alone
  BY DEF Init, Idle
<1>2. active = 0 /\ before[0] = 0 /\ fresh = 1 /\ points[0] = docsOf[0]
  BY DocumentAssumptions DEF Init, Versions
<1> QED BY <1>1, <1>2 DEF IndexLocked, VersionsFit, SnapshotsAreWhole, Undisturbed, Committing

-----------------------------------------------------------------------------
(* The theorems.                                                           *)

\* Whatever uploads, deletes, searches, failures and crashes interleave, every
\* variable keeps its type, the operation of a request fits where it is, and
\* lock_for(owner) is held by who is between its acquisition and its release,
\* by a thread of its own process.
THEOREM DocumentsTyped == Spec => [](TypeOK /\ Shape /\ LocksHeld)
<1>1. Basic /\ [Next]_vars => Basic'
  BY BasicStep
<1> QED BY <1>1, BasicInit, PTL DEF Spec, Basic

\* As long as no commit outlasts the 600 s of the Redis lock and the owner does
\* not delete what is being uploaded: for any number of instances, requests
\* and documents, the active version and the one before it have all their
\* points in Qdrant, a READY document has its file, and the quota is exceeded
\* by less than the number of instances.
THEOREM StoresStayWhole ==
  ASSUME ShortCommits, PatientOwner
  PROVE  Spec => []StoresAgree
<1> DEFINE Inv == Basic /\ IndexLocked /\ VersionsFit /\ DocumentsOwned /\ QuotaHeld
<1>1. Init => Inv
  BY BasicInit, IndexInit, OwnerInit
<1>2. Inv /\ [Next]_vars => Inv'
  BY BasicStep, IndexKept, OwnedStep, QuotaKept
<1>3. Inv => StoresAgree
  <2> SUFFICES ASSUME Inv PROVE StoresAgree
    OBVIOUS
  <2>1. InUse < MaxDocuments + Cardinality(Procs)
    BY QuotaNumbers, DocumentAssumptions DEF QuotaHeld
  <2> QED BY <2>1 DEF StoresAgree, Basic, VersionsFit, RowsAreSound, DocumentsOwned
<1> HIDE DEF Inv
<1> QED BY <1>1, <1>2, <1>3, PTL DEF Spec

\* Under the same bound on commits, for any owner: a search that no other
\* request ran into finds exactly the READY documents, whatever was lost or
\* left over in the index before it.
THEOREM UndisturbedSearch ==
  ASSUME ShortCommits
  PROVE  Spec => []SearchFindsReady
<1> DEFINE Inv == Basic /\ IndexLocked /\ VersionsFit /\ Undisturbed
<1>1. Init => Inv
  BY BasicInit, IndexInit
<1>2. Inv /\ [Next]_vars => Inv'
  BY BasicStep, IndexKept, AloneKept
<1>3. Inv => SearchFindsReady
  <2> SUFFICES ASSUME Inv, NEW t \in Threads, At(t, "querying"), thread[t].alone
               PROVE  /\ docsOf[thread[t].version] = {d \in Docs : row[d] = "READY"}
                      /\ Found(t) = docsOf[thread[t].version]
    BY DEF SearchFindsReady
  <2>1. thread[t].op = "search" /\ thread[t].pc = "querying"
    BY BasicFacts DEF At, OpFits
  <2>2. /\ thread[t].version = active /\ docsOf[active] = ReadyRows
        /\ thread[t].ready = ReadyRows
    BY <2>1, AloneFacts
  <2>3. points[active] = docsOf[active]
    BY DEF VersionsFit, SnapshotsAreWhole
  <2> QED BY <2>2, <2>3 DEF ReadyRows, Found
<1> HIDE DEF Inv
<1> QED BY <1>1, <1>2, <1>3, PTL DEF Spec

-----------------------------------------------------------------------------
(* What holds of numbers, and induction.                                   *)

\* A set of natural numbers that is not empty has a least one.
LEMMA LeastOf ==
  ASSUME NEW S \in SUBSET Nat, S # {}
  PROVE  Min(S) \in S /\ \A m \in S : Min(S) <= m
<1>1. PICK n \in S : \A m \in S : ~(<<m, n>> \in OpToRel(<, Nat))
  BY NatLessThanWellFounded, WFMin, Zenon
<1>2. \A m \in S : ~(m < n)
  BY <1>1 DEF OpToRel
<1>3. \E x \in S : \A y \in S : x <= y
  BY <1>2
<1>. QED BY <1>3 DEF Min

\* A bounded set of natural numbers that is not empty has a greatest one.
LEMMA GreatestOf ==
  ASSUME NEW n \in Nat, NEW S \in SUBSET (0..n), S # {}
  PROVE  Max(S) \in S /\ \A m \in S : m <= Max(S)
<1>. DEFINE T == {n - m : m \in S}
<1>1. T \in SUBSET Nat /\ T # {}
  <2>1. \A m \in 0..n : n - m \in Nat
    OBVIOUS
  <2>. QED BY <2>1
<1>2. PICK t \in T : \A u \in T : t <= u
  <2>. HIDE DEF T
  <2>. QED BY <1>1, LeastOf
<1>3. PICK x \in S : t = n - x
  OBVIOUS
<1>4. \A m \in S : m \in Int /\ x \in Int /\ n - x <= n - m
  BY <1>2, <1>3
<1>5. \A m \in S : x >= m
  BY <1>4
<1>6. Max(S) \in S /\ \A m \in S : Max(S) >= m
  BY <1>5 DEF Max
<1>7. \A m \in S : m \in Int
  OBVIOUS
<1>. QED BY <1>6, <1>7

\* Induction over the natural numbers, for a set instead of an operator.
LEMMA SetInduction ==
  ASSUME NEW S, 0 \in S, \A n \in Nat : n \in S => n + 1 \in S
  PROVE  Nat \subseteq S
<1>. SUFFICES ASSUME Nat \ S # {} PROVE FALSE
  OBVIOUS
<1>1. PICK n \in Nat \ S : \A m \in Nat \ S : n <= m
  BY LeastOf
<1>2. n # 0 /\ n - 1 \in Nat /\ ~(n <= n - 1) /\ n = (n - 1) + 1
  OBVIOUS
<1>3. n - 1 \in S
  BY <1>1, <1>2
<1>. QED BY <1>2, <1>3

\* F is what step makes of base, one number after the other.
Iterates(F, N, base, step) ==
  F = [n \in 0..N |-> IF n = 0 THEN base ELSE step[<<F[n - 1], n>>]]

\* What is true of the first and passed on is true of all.
LEMMA PassedOn ==
  ASSUME NEW X, NEW N \in Nat, NEW F, F[0] \in X,
         \A n \in 1..N : F[n - 1] \in X => F[n] \in X
  PROVE  \A n \in 0..N : F[n] \in X
<1>. DEFINE S == {n \in Nat : n <= N => F[n] \in X}
<1>1. 0 \in S
  OBVIOUS
<1>2. ASSUME NEW n \in Nat, n \in S PROVE n + 1 \in S
  <2>1. n + 1 <= N => n <= N /\ n + 1 \in 1..N /\ (n + 1) - 1 = n
    OBVIOUS
  <2>. QED BY <1>2, <2>1
<1>. HIDE DEF S
<1>3. Nat \subseteq S
  BY <1>1, <1>2, SetInduction
<1>. QED BY <1>3 DEF S

\* Iteration is defined.
LEMMA IterationExists ==
  ASSUME NEW X, NEW N \in Nat, NEW base \in X, NEW step \in [X \X (1..N) -> X]
  PROVE  \E F \in [0..N -> X] : Iterates(F, N, base, step)
<1>. DEFINE G(M) == \E F \in [0..M -> X] :
                      /\ F[0] = base
                      /\ \A n \in 1..M : F[n] = step[<<F[n - 1], n>>]
            S == {M \in Nat : M <= N => G(M)}
<1>1. 0 \in S
  <2>1. 0..0 = {0} /\ 1..0 = {}
    OBVIOUS
  <2>2. [n \in 0..0 |-> base] \in [0..0 -> X] /\ [n \in 0..0 |-> base][0] = base
    BY <2>1
  <2>. QED BY <2>1, <2>2
<1>2. ASSUME NEW M \in Nat, M \in S PROVE M + 1 \in S
  <2>. SUFFICES ASSUME M + 1 <= N PROVE G(M + 1)
    OBVIOUS
  <2>1. M <= N /\ M + 1 \in 1..N /\ M \in 0..M /\ 0 \in 0..M
    OBVIOUS
  <2>2. PICK F \in [0..M -> X] : /\ F[0] = base
                                /\ \A n \in 1..M : F[n] = step[<<F[n - 1], n>>]
    BY <1>2, <2>1
  <2>. DEFINE H == [n \in 0..(M + 1) |-> IF n = M + 1 THEN step[<<F[M], M + 1>>] ELSE F[n]]
  <2>3. step[<<F[M], M + 1>>] \in X
    BY <2>1
  <2>4. \A n \in 0..(M + 1) : n # M + 1 => n \in 0..M
    OBVIOUS
  <2>5. H \in [0..(M + 1) -> X]
    BY <2>3, <2>4
  <2>6. H[0] = base
    <3>1. 0 # M + 1 /\ 0 \in 0..(M + 1)
      OBVIOUS
    <3>. QED BY <3>1, <2>2
  <2>7. ASSUME NEW n \in 1..(M + 1) PROVE H[n] = step[<<H[n - 1], n>>]
    <3>1. n \in 0..(M + 1) /\ n - 1 \in 0..(M + 1) /\ n - 1 # M + 1 /\ (n # M + 1 => n \in 1..M)
      OBVIOUS
    <3>2. H[n - 1] = F[n - 1]
      BY <3>1
    <3>3. CASE n = M + 1
      <4>1. n - 1 = M
        BY <3>3
      <4>. QED BY <3>1, <3>2, <3>3, <4>1
    <3>4. CASE n # M + 1
      BY <3>1, <3>2, <3>4, <2>2
    <3>. QED BY <3>3, <3>4
  <2>. HIDE DEF H
  <2>. QED BY <2>5, <2>6, <2>7
<1>. HIDE DEF S
<1>3. N \in S
  BY <1>1, <1>2, SetInduction
<1>4. PICK F \in [0..N -> X] : /\ F[0] = base
                              /\ \A n \in 1..N : F[n] = step[<<F[n - 1], n>>]
  BY <1>3 DEF S
<1>5. \A n \in 0..N : n # 0 => n \in 1..N
  OBVIOUS
<1>6. F = [n \in 0..N |-> IF n = 0 THEN base ELSE step[<<F[n - 1], n>>]]
  BY <1>4, <1>5
<1>. QED BY <1>6 DEF Iterates

\* Of two numbers.
LEMMA TwoNumbers ==
  ASSUME NEW a \in Nat, NEW b \in Int
  PROVE  /\ Max({a, b}) \in Nat /\ Max({a, b}) >= a /\ Max({a, b}) >= b /\ Max({a, b}) \in {a, b}
         /\ b \in Nat => Min({a, b}) \in {a, b} /\ Min({a, b}) <= a /\ Min({a, b}) <= b
<1>1. \E x \in {a, b} : \A y \in {a, b} : x >= y
  OBVIOUS
<1>2. Max({a, b}) \in {a, b} /\ \A y \in {a, b} : Max({a, b}) >= y
  BY <1>1 DEF Max
<1>3. \E x \in {a, b} : \A y \in {a, b} : x <= y
  OBVIOUS
<1>4. Min({a, b}) \in {a, b} /\ \A y \in {a, b} : Min({a, b}) <= y
  BY <1>3 DEF Min
<1>. QED BY <1>2, <1>4

-----------------------------------------------------------------------------
(* ChunkingService.                                                        *)

\* A chunk ends behind its start, in the text, and within the size.
LEMMA PreferredEndFacts ==
  ASSUME NEW n \in Nat, NEW text, Len(text) = n, NEW start \in Nat, start < n,
         NEW limit \in Nat, start < limit, limit <= n
  PROVE  PreferredEnd(text, start, limit) \in start + 1 .. limit
<1>. DEFINE low == start + Max({1, (limit - start) \div 2})
            Places(sep) == {p \in low .. limit - Len(sep) : SubSeq(text, p + 1, p + Len(sep)) = sep}
            occurring == {k \in DOMAIN Separators : Places(Separators[k]) # {}}
            best == Separators[Min(occurring)]
<1>1. low \in Nat /\ low >= start + 1
  <2>1. (limit - start) \div 2 \in Int
    OBVIOUS
  <2>2. Max({1, (limit - start) \div 2}) \in Nat /\ Max({1, (limit - start) \div 2}) >= 1
    BY <2>1, TwoNumbers
  <2>. QED BY <2>2
<1>2. /\ DOMAIN Separators = 1..3
      /\ \A k \in 1..3 : Len(Separators[k]) \in {1, 2}
  BY DEF Separators
<1>3. PreferredEnd(text, start, limit) =
        IF limit >= Len(text) THEN Len(text)
        ELSE IF occurring = {} THEN limit ELSE Max(Places(best)) + Len(best) - 1
  BY DEF PreferredEnd
<1>4. CASE limit >= Len(text)
  <2>1. PreferredEnd(text, start, limit) = Len(text)
    BY <1>3, <1>4
  <2>. QED BY ONLY <2>1, <1>4, Len(text) = n, n \in Nat, start \in Nat, limit \in Nat,
                   start < limit, limit <= n
<1>5. CASE limit < Len(text) /\ occurring = {}
  <2>1. PreferredEnd(text, start, limit) = limit
    <3>. HIDE DEF occurring, best, Places
    <3>. QED BY <1>3, <1>5
  <2>. QED BY ONLY <2>1, start \in Nat, limit \in Nat, start < limit
<1>6. CASE limit < Len(text) /\ occurring # {}
  <2>. HIDE DEF low
  <2>1. Min(occurring) \in occurring
    <3>1. occurring \in SUBSET Nat
      BY <1>2
    <3>. HIDE DEF occurring
    <3>. QED BY <3>1, <1>6, LeastOf
  <2>2. Places(best) # {} /\ Len(best) \in {1, 2}
    BY <1>2, <2>1
  <2>3. Places(best) \subseteq low .. limit - Len(best)
    OBVIOUS
  <2>. HIDE DEF best, Places, occurring
  <2>4. low .. limit - Len(best) \subseteq 0 .. n
    BY <1>1, <2>2
  <2>5. Max(Places(best)) \in Places(best)
    BY <2>2, <2>3, <2>4, GreatestOf
  <2>6. Max(Places(best)) \in low .. limit - Len(best)
    BY <2>3, <2>5
  <2>. PICK m, l : m = Max(Places(best)) /\ l = Len(best)
    OBVIOUS
  <2>7. m + l - 1 \in start + 1 .. limit
    <3>1. m \in low .. limit - l /\ l \in {1, 2}
      BY <2>2, <2>6
    <3>. QED BY <1>1, <3>1
  <2>8. PreferredEnd(text, start, limit) = m + l - 1
    BY <1>3, <1>6
  <2>. QED BY <2>7, <2>8
<1>9. limit >= Len(text) \/ limit < Len(text)
  OBVIOUS
<1>. HIDE DEF occurring
<1>. QED BY <1>4, <1>5, <1>6, <1>9

\* The next chunk starts further on, not behind the end, and repeats no more
\* than the overlap.
LEMMA NextStartFacts ==
  ASSUME NEW text, NEW start \in Nat, NEW end \in Nat, start < end
  PROVE  /\ NextStart(text, start, end) \in start + 1 .. end
         /\ NextStart(text, start, end) >= end - Overlap
<1>. DEFINE low == Max({start + 1, end - Overlap})
            S == {n \in low .. end : n = end \/ text[n + 1] \notin Spaces}
<1>1. Overlap \in Nat
  BY SystemAssumptions
<1>2. low \in Nat /\ low >= start + 1 /\ low >= end - Overlap /\ low \in {start + 1, end - Overlap}
  BY <1>1, TwoNumbers
<1>3. low <= end
  BY <1>1, <1>2
<1>4. NextStart(text, start, end) = Min(S)
  BY DEF NextStart
<1>. HIDE DEF low
<1>5. S \in SUBSET Nat /\ S # {}
  <2>1. end \in S
    BY <1>2, <1>3
  <2>2. S \subseteq low .. end /\ low .. end \subseteq Nat
    BY <1>2
  <2>. QED BY <2>1, <2>2
<1>6. Min(S) \in low .. end
  <2>1. S \subseteq low .. end
    OBVIOUS
  <2>. HIDE DEF S
  <2>. QED BY <1>5, <2>1, LeastOf
<1>. HIDE DEF S
<1>. QED BY <1>1, <1>2, <1>4, <1>6

\* What is so after every round: the text before the next start is covered,
\* the chunks keep to the size and to the overlap, and so will the next.
Chunked(text) ==
  {s \in [start : 0 .. Len(text), chunks : Seq([start : Nat, end : Nat])] :
     /\ \A i \in 1 .. s.start : text[i] \in Spaces
          \/ \E k \in DOMAIN s.chunks : i \in s.chunks[k].start + 1 .. s.chunks[k].end
     /\ \A k \in DOMAIN s.chunks : s.chunks[k].end - s.chunks[k].start \in 1 .. ChunkSize
     /\ \A k \in 2 .. Len(s.chunks) :
          /\ s.chunks[k].start > s.chunks[k - 1].start
          /\ s.chunks[k].start >= s.chunks[k - 1].end - Overlap
     /\ \A k \in DOMAIN s.chunks : s.start > s.chunks[k].start /\ s.start >= s.chunks[k].end - Overlap}

\* A sequence has its members.
LEMMA MemberOfSeq ==
  ASSUME NEW T, NEW c \in Seq(T), NEW k \in DOMAIN c
  PROVE  c[k] \in T
OBVIOUS

\* A round keeps it so and starts further on, unless it is at the end.
LEMMA CutFacts ==
  ASSUME NEW text \in Sections, NEW s \in Chunked(text)
  PROVE  /\ Cut(text, s) \in Chunked(text)
         /\ s.start < Len(text) => Cut(text, s).start > s.start
         /\ s.start = Len(text) => Cut(text, s) = s
<1>1. text \in Seq(STRING) /\ ChunkSize \in Nat /\ ChunkSize > 0 /\ Overlap \in Nat
  BY SystemAssumptions
<1>. PICK n \in Nat : n = Len(text)
  BY <1>1
<1>2. /\ s \in [start : 0 .. n, chunks : Seq([start : Nat, end : Nat])]
      /\ \A i \in 1 .. s.start : text[i] \in Spaces
           \/ \E k \in DOMAIN s.chunks : i \in s.chunks[k].start + 1 .. s.chunks[k].end
      /\ \A k \in DOMAIN s.chunks : s.chunks[k].end - s.chunks[k].start \in 1 .. ChunkSize
      /\ \A k \in 2 .. Len(s.chunks) :
           /\ s.chunks[k].start > s.chunks[k - 1].start
           /\ s.chunks[k].start >= s.chunks[k - 1].end - Overlap
      /\ \A k \in DOMAIN s.chunks :
           s.start > s.chunks[k].start /\ s.start >= s.chunks[k].end - Overlap
  BY DEF Chunked
<1>. PICK start \in 0 .. n, chunks \in Seq([start : Nat, end : Nat]) :
       start = s.start /\ chunks = s.chunks
  BY <1>2
<1>3. CASE start >= n
  <2>1. Cut(text, s) = s
    BY <1>3 DEF Cut
  <2>. QED BY <2>1, <1>3
<1>4. CASE start < n
  <2>. DEFINE limit == Min({start + ChunkSize, n})
  <2>1. limit \in Nat /\ start < limit /\ limit <= n /\ limit <= start + ChunkSize
    <3>1. start + ChunkSize \in Nat /\ n \in Int
      BY <1>1
    <3>2. limit \in {start + ChunkSize, n} /\ limit <= start + ChunkSize /\ limit <= n
      BY <3>1, TwoNumbers
    <3>. HIDE DEF limit
    <3>. QED BY ONLY <3>1, <3>2, <1>1, <1>4, start \in 0 .. n, n \in Nat
  <2>. PICK end : end = PreferredEnd(text, start, limit)
    OBVIOUS
  <2>2. end \in start + 1 .. limit
    <3>. HIDE DEF limit
    <3>. QED BY <2>1, <1>4, PreferredEndFacts
  <2>3. end \in Nat /\ start < end /\ end <= n /\ end - start \in 1 .. ChunkSize
    <3>. HIDE DEF limit
    <3>. QED BY ONLY <2>1, <2>2, <1>1, start \in 0 .. n, n \in Nat
  <2>. PICK next : next = IF end >= n THEN end ELSE NextStart(text, start, end)
    OBVIOUS
  <2>4. next \in 0 .. n /\ next > start /\ next <= end /\ next >= end - Overlap
    <3>1. NextStart(text, start, end) \in start + 1 .. end /\ NextStart(text, start, end) >= end - Overlap
      BY <2>3, NextStartFacts
    <3>. PICK m : m = NextStart(text, start, end)
      OBVIOUS
    <3>2. next = end \/ next = m
      OBVIOUS
    <3>3. m \in start + 1 .. end /\ m >= end - Overlap
      BY <3>1
    <3>. QED BY ONLY <1>1, <2>3, <3>2, <3>3, start \in 0 .. n, n \in Nat
  <2>. PICK blank \in BOOLEAN : blank = \A i \in start + 1 .. end : text[i] \in Spaces
    OBVIOUS
  <2>. PICK more : more = IF blank THEN chunks
                          ELSE Append(chunks, [start |-> start, end |-> end])
    OBVIOUS
  <2>5. Cut(text, s) = [start |-> next, chunks |-> more]
    <3>1. ~(s.start >= Len(text))
      BY <1>4
    <3>. QED BY <3>1 DEF Cut
  <2>. DEFINE Covered(c) ==
         /\ c \in Seq([start : Nat, end : Nat])
         /\ \A i \in 1 .. next : text[i] \in Spaces
              \/ \E k \in DOMAIN c : i \in c[k].start + 1 .. c[k].end
         /\ \A k \in DOMAIN c : c[k].end - c[k].start \in 1 .. ChunkSize
         /\ \A k \in 2 .. Len(c) : c[k].start > c[k - 1].start /\ c[k].start >= c[k - 1].end - Overlap
         /\ \A k \in DOMAIN c : next > c[k].start /\ next >= c[k].end - Overlap
  <2>6. \A i \in 1 .. next : i \in 1 .. start \/ i \in start + 1 .. end
    BY ONLY <2>3, <2>4, start \in 0 .. n, n \in Nat
  <2>7. \A k \in DOMAIN chunks : next > chunks[k].start /\ next >= chunks[k].end - Overlap
    <3>. SUFFICES ASSUME NEW k \in DOMAIN chunks
         PROVE  next > chunks[k].start /\ next >= chunks[k].end - Overlap
      OBVIOUS
    <3>1. chunks[k].start \in Nat /\ chunks[k].end \in Nat
      <4>1. chunks[k] \in [start : Nat, end : Nat]
        BY MemberOfSeq
      <4>. QED BY ONLY <4>1
    <3>2. start > chunks[k].start /\ start >= chunks[k].end - Overlap
      BY <1>2
    <3>. PICK x, y : x = chunks[k].start /\ y = chunks[k].end
      OBVIOUS
    <3>3. next > x /\ next >= y - Overlap
      <4>1. x \in Nat /\ y \in Nat /\ start > x /\ start >= y - Overlap
        BY <3>1, <3>2
      <4>. QED BY ONLY <4>1, <1>1, <2>4, start \in 0 .. n, n \in Nat
    <3>. QED BY <3>3
  <2>8. ASSUME blank PROVE Covered(more)
    <3>1. more = chunks
      BY <2>8
    <3>2. Covered(chunks)
      BY <1>2, <2>6, <2>7, <2>8
    <3>. HIDE DEF Covered
    <3>. QED BY <3>1, <3>2
  <2>9. ASSUME ~blank PROVE Covered(more)
    <3>. PICK new : new = [start |-> start, end |-> end]
      OBVIOUS
    <3>0. new \in [start : Nat, end : Nat] /\ new.start = start /\ new.end = end
      BY <2>3
    <3>. PICK l \in Nat : l = Len(chunks)
      OBVIOUS
    <3>a. more = Append(chunks, new)
      BY <2>9
    <3>b. chunks \in Seq([start : Nat, end : Nat]) /\ l = Len(chunks)
      OBVIOUS
    <3>1. /\ more = Append(chunks, new) /\ more \in Seq([start : Nat, end : Nat])
          /\ Len(more) = l + 1 /\ DOMAIN more = 1 .. l + 1
          /\ DOMAIN chunks = 1 .. l
      BY ONLY <3>a, <3>b, <3>0
    <3>2. more[l + 1] = new /\ \A k \in 1 .. l : more[k] = chunks[k]
      BY ONLY <3>a, <3>b, <3>0
    <3>3. 1 .. l + 1 = (1 .. l) \cup {l + 1}
      OBVIOUS
    <3>4. ASSUME NEW i \in 1 .. next
          PROVE  text[i] \in Spaces \/ \E k \in DOMAIN more : i \in more[k].start + 1 .. more[k].end
      <4>1. CASE i \in 1 .. start
        <5>1. \A k \in DOMAIN chunks : k \in DOMAIN more /\ more[k] = chunks[k]
          BY <3>1, <3>2, <3>3
        <5>2. text[i] \in Spaces \/ \E k \in DOMAIN chunks : i \in chunks[k].start + 1 .. chunks[k].end
          BY <1>2, <4>1
        <5>. QED BY ONLY <5>1, <5>2
      <4>2. CASE i \in start + 1 .. end
        <5>1. l + 1 \in DOMAIN more
          BY <3>1, <3>3
        <5>2. i \in more[l + 1].start + 1 .. more[l + 1].end
          BY ONLY <3>0, <3>2, <4>2
        <5>. QED BY ONLY <5>1, <5>2
      <4>. QED BY <2>6, <4>1, <4>2
    <3>5. ASSUME NEW k \in DOMAIN more
          PROVE  /\ more[k].end - more[k].start \in 1 .. ChunkSize
                 /\ next > more[k].start /\ next >= more[k].end - Overlap
      <4>1. CASE k \in 1 .. l
        BY <1>2, <2>7, <3>1, <3>2, <4>1
      <4>2. CASE k = l + 1
        <5>1. more[k].start = start /\ more[k].end = end
          BY <3>0, <3>2, <4>2
        <5>. QED BY <2>3, <2>4, <5>1
      <4>. QED BY <3>1, <3>3, <4>1, <4>2
    <3>6. ASSUME NEW k \in 2 .. Len(more)
          PROVE  more[k].start > more[k - 1].start /\ more[k].start >= more[k - 1].end - Overlap
      <4>1. k - 1 \in 1 .. l /\ (k \in 2 .. l \/ k = l + 1)
        BY ONLY <3>1, l \in Nat, k \in 2 .. Len(more)
      <4>2. CASE k \in 2 .. l
        <5>1. k \in 1 .. l
          BY <4>2
        <5>. QED BY <1>2, <3>2, <4>1, <4>2, <5>1
      <4>3. CASE k = l + 1
        <5>1. more[k].start = start /\ more[k - 1] = chunks[k - 1] /\ k - 1 \in DOMAIN chunks
          BY <3>0, <3>1, <3>2, <4>1, <4>3
        <5>. QED BY <1>2, <5>1
      <4>. QED BY <4>1, <4>2, <4>3
    <3>. QED BY <3>1, <3>4, <3>5, <3>6
  <2>10. Covered(more)
    <3>. HIDE DEF Covered
    <3>. QED BY <2>8, <2>9
  <2>11. [start |-> next, chunks |-> more] \in Chunked(text)
    <3>. DEFINE r == [start |-> next, chunks |-> more]
    <3>1. r.start = next /\ r.chunks = more
      OBVIOUS
    <3>2. r \in [start : 0 .. n, chunks : Seq([start : Nat, end : Nat])]
      BY <2>4, <2>10
    <3>. HIDE DEF r
    <3>3. r \in Chunked(text)
      BY <2>10, <3>1, <3>2 DEF Chunked
    <3>. QED BY <3>3 DEF r
  <2>12. [start |-> next, chunks |-> more].start = next
    OBVIOUS
  <2>13. Cut(text, s) \in Chunked(text) /\ Cut(text, s).start = next
    BY ONLY <2>5, <2>11, <2>12
  <2>14. next > s.start /\ ~(s.start = Len(text))
    <3>1. next > start /\ ~(start = n)
      BY ONLY <2>4, <1>4, start \in 0 .. n, n \in Nat
    <3>. QED BY <3>1
  <2>. QED BY ONLY <2>13, <2>14
<1>. QED BY <1>3, <1>4

\* The rounds of chunk_section, one after the other.
IsRounds(text, F) ==
  F = [n \in 0 .. Len(text) |->
         IF n = 0 THEN [start |-> 0, chunks |-> << >>] ELSE Cut(text, F[n - 1])]

\* The recursion is defined, and its last round is at the end of the text.
LEMMA RoundsExist ==
  ASSUME NEW text \in Sections
  PROVE  \E F : IsRounds(text, F)
<1>. DEFINE N == Len(text)
            X == Chunked(text)
            base == [start |-> 0, chunks |-> << >>]
            step == [a \in X \X (1..N) |-> Cut(text, a[1])]
<1>1. N \in Nat
  BY SystemAssumptions
<1>2. base \in X
  <2>1. base.start = 0 /\ base.chunks = << >> /\ Len(<< >>) = 0 /\ DOMAIN << >> = {}
        /\ << >> \in Seq([start : Nat, end : Nat]) /\ 1 .. 0 = {} /\ 2 .. 0 = {}
    OBVIOUS
  <2>2. base \in [start : 0 .. N, chunks : Seq([start : Nat, end : Nat])]
    BY <1>1
  <2>. HIDE DEF base
  <2>. QED BY <2>1, <2>2 DEF Chunked
<1>3. step \in [X \X (1..N) -> X]
  <2>1. \A a \in X \X (1..N) : Cut(text, a[1]) \in X
    <3>. SUFFICES ASSUME NEW a \in X \X (1..N) PROVE Cut(text, a[1]) \in X
      OBVIOUS
    <3>1. a[1] \in X
      OBVIOUS
    <3>. QED BY <3>1, CutFacts
  <2>. HIDE DEF X, N
  <2>. QED BY <2>1
<1>4. PICK F \in [0..N -> X] : Iterates(F, N, base, step)
  <2>. HIDE DEF X, N, base, step
  <2>. QED BY <1>1, <1>2, <1>3, IterationExists
<1>5. ASSUME NEW n \in 0..N, n # 0 PROVE step[<<F[n - 1], n>>] = Cut(text, F[n - 1])
  <2>1. n \in 1..N /\ n - 1 \in 0..N
    BY <1>1, <1>5
  <2>2. F[n - 1] \in X
    BY <2>1
  <2>. HIDE DEF X, N
  <2>. QED BY <2>1, <2>2
<1>6. F = [n \in 0..N |-> IF n = 0 THEN base ELSE Cut(text, F[n - 1])]
  <2>. HIDE DEF step, base, N, X
  <2>1. F = [n \in 0..N |-> IF n = 0 THEN base ELSE step[<<F[n - 1], n>>]]
    BY <1>4 DEF Iterates
  <2>2. [n \in 0..N |-> IF n = 0 THEN base ELSE step[<<F[n - 1], n>>]]
          = [n \in 0..N |-> IF n = 0 THEN base ELSE Cut(text, F[n - 1])]
    BY <1>5
  <2>. QED BY <2>1, <2>2
<1>. QED BY <1>6 DEF IsRounds

\* The last round is at the end of the text.
LEMMA RoundsCover ==
  ASSUME NEW text \in Sections, NEW F, IsRounds(text, F)
  PROVE  F[Len(text)] \in Chunked(text) /\ F[Len(text)].start = Len(text)
<1>. DEFINE base == [start |-> 0, chunks |-> << >>]
<1>. PICK N : N = Len(text)
  OBVIOUS
<1>1. N \in Nat
  BY SystemAssumptions
<1>2. base \in Chunked(text) /\ base.start = 0
  <2>1. base.start = 0 /\ base.chunks = << >> /\ Len(<< >>) = 0 /\ DOMAIN << >> = {}
        /\ << >> \in Seq([start : Nat, end : Nat]) /\ 1 .. 0 = {} /\ 2 .. 0 = {}
    OBVIOUS
  <2>2. base \in [start : 0 .. N, chunks : Seq([start : Nat, end : Nat])]
    BY <1>1
  <2>. HIDE DEF base
  <2>. QED BY <2>1, <2>2 DEF Chunked
<1>3. F[0] = base /\ \A n \in 1..N : F[n] = Cut(text, F[n - 1])
  <2>1. 0 \in 0..N /\ \A n \in 1..N : n \in 0..N /\ n # 0
    BY <1>1
  <2>. HIDE DEF base
  <2>2. F = [n \in 0 .. N |-> IF n = 0 THEN base ELSE Cut(text, F[n - 1])]
    BY DEF IsRounds, base
  <2>3. F[0] = base
    BY <2>1, <2>2
  <2>4. \A n \in 1..N : F[n] = Cut(text, F[n - 1])
    <3>. TAKE n \in 1..N
    <3>. QED BY <2>1, <2>2
  <2>. QED BY <2>3, <2>4
<1>. DEFINE S == {n \in Nat : n <= N => F[n] \in Chunked(text) /\ F[n].start \in n .. N}
<1>4. 0 \in S
  BY <1>1, <1>2, <1>3
<1>5. ASSUME NEW n \in Nat, n \in S PROVE n + 1 \in S
  <2>. SUFFICES ASSUME n + 1 <= N
       PROVE  F[n + 1] \in Chunked(text) /\ F[n + 1].start \in n + 1 .. N
    OBVIOUS
  <2>1. n <= N /\ n + 1 \in 1..N /\ (n + 1) - 1 = n
    BY <1>1
  <2>. PICK r : r = F[n]
    OBVIOUS
  <2>2. r \in Chunked(text) /\ r.start \in n .. N
    BY <1>5, <2>1
  <2>3. F[n + 1] = Cut(text, r)
    BY <1>3, <2>1
  <2>. PICK q : q = Cut(text, r)
    OBVIOUS
  <2>4. q \in Chunked(text) /\ (r.start < N => q.start > r.start) /\ (r.start = N => q = r)
    BY <2>2, CutFacts
  <2>5. q.start \in 0 .. N
    BY <2>4 DEF Chunked
  <2>6. q.start \in n + 1 .. N
    <3>. PICK i, k : i = r.start /\ k = q.start
      OBVIOUS
    <3>1. i \in n .. N /\ k \in 0 .. N /\ (i < N => k > i) /\ (i = N => k = i)
      BY <2>2, <2>4, <2>5
    <3>2. k \in n + 1 .. N
      BY ONLY <1>1, <3>1, n \in Nat, n + 1 <= N
    <3>. QED BY <3>2
  <2>. QED BY <2>3, <2>4, <2>6
<1>. HIDE DEF S
<1>6. N \in S
  BY <1>1, <1>4, <1>5, SetInduction
<1>7. N \in Nat => N .. N = {N}
  OBVIOUS
<1>. QED BY <1>1, <1>6, <1>7 DEF S

\* ChunkingService.chunk_sections: whatever the text, the size and the
\* overlap, every character but white space gets into a chunk, no chunk
\* exceeds the size, and each goes further than the one before and repeats no
\* more of it than the overlap.
THEOREM ChunksStayWhole == ChunksCoverText
<1>. SUFFICES ASSUME NEW text \in Sections
     PROVE LET chunks == chunk_section(text).chunks
           IN /\ \A i \in DOMAIN text : text[i] \in Spaces
                   \/ \E k \in DOMAIN chunks : i \in chunks[k].start + 1 .. chunks[k].end
              /\ \A k \in DOMAIN chunks : chunks[k].end - chunks[k].start \in 1 .. ChunkSize
              /\ \A k \in 2 .. Len(chunks) :
                   /\ chunks[k].start > chunks[k - 1].start
                   /\ chunks[k].start >= chunks[k - 1].end - Overlap
  BY DEF ChunksCoverText
<1>. DEFINE F == CHOOSE f : IsRounds(text, f)
<1>1. IsRounds(text, F)
  BY RoundsExist
<1>2. chunk_section(text) = F[Len(text)]
  BY DEF chunk_section, IsRounds
<1>. HIDE DEF F
<1>. PICK r : r = chunk_section(text)
  OBVIOUS
<1>3. r \in Chunked(text) /\ r.start = Len(text)
  BY <1>1, <1>2, RoundsCover
<1>4. DOMAIN text = 1 .. Len(text)
  BY SystemAssumptions
<1>. QED BY <1>3, <1>4 DEF Chunked

-----------------------------------------------------------------------------
(* SystemIndexingService.                                                  *)

\* What an index holds for a file it lists as indexed is the contents it
\* lists, embedded by its runtime.
IsCurrent(index) ==
  \A p \in DOMAIN index.entries \cap DOMAIN index.chunks :
    index.entries[p].indexed => index.chunks[p] = <<index.entries[p].hash, index.runtime>>

\* The chunks of a full index.
Full(files, runtime) == [p \in Canonical(files) |-> <<files[p], runtime>>]

\* A synchronisation ends where it started or with a full index.
LEMMA SynchronizeFacts ==
  ASSUME NEW old, IsCurrent(old), NEW files, NEW force, NEW runtime,
         NEW new, new = Synchronize(old, files, force, runtime)
  PROVE  /\ IsCurrent(new)
         /\ new # old => new.chunks = Full(files, runtime)
<1>. DEFINE kept == {p \in Canonical(files) : Unchanged(old, files, force, runtime, p)}
            entries == [p \in DOMAIN files |-> [hash |-> files[p], indexed |-> p \in Canonical(files)]]
            chunks == [p \in Canonical(files) |->
                         IF p \in kept THEN old.chunks[p] ELSE <<files[p], runtime>>]
<1>1. new = old \/ new = [entries |-> entries, chunks |-> chunks, runtime |-> runtime]
  BY DEF Synchronize
<1>2. \A p \in kept : old.chunks[p] = <<files[p], runtime>>
  BY DEF IsCurrent, Unchanged
<1>3. chunks = Full(files, runtime)
  <2>. HIDE DEF kept
  <2>. QED BY <1>2 DEF Full
<1>4. CASE new = old
  BY <1>4
<1>5. CASE new = [entries |-> entries, chunks |-> chunks, runtime |-> runtime]
  <2>. HIDE DEF chunks
  <2>1. new.entries = entries /\ new.chunks = Full(files, runtime) /\ new.runtime = runtime
    BY <1>3, <1>5
  <2>2. IsCurrent(new)
    BY <2>1 DEF IsCurrent, Full
  <2>. QED BY <2>1, <2>2
<1>. QED BY <1>1, <1>4, <1>5

\* SystemIndexingService.synchronize: however the directory, the runtime and
\* what could be parsed changed, what a run that commits leaves is what a full
\* one would build.
THEOREM SyncsStayFull == SyncsAreFull
<1>. SUFFICES ASSUME NEW first \in Folders, NEW second \in Folders, NEW third \in Folders,
                     NEW r \in Runtimes, NEW s \in Runtimes, NEW force \in BOOLEAN
     PROVE LET prior == Synchronize(Synchronize(NoIndex, first, FALSE, r), second, FALSE, r)
               after == Synchronize(prior, third, force, s)
           IN after # prior => after.chunks = [p \in Canonical(third) |-> <<third[p], s>>]
  BY DEF SyncsAreFull
<1>1. IsCurrent(NoIndex)
  BY DEF IsCurrent, NoIndex
<1>. PICK one : one = Synchronize(NoIndex, first, FALSE, r)
  OBVIOUS
<1>2. IsCurrent(one)
  BY <1>1, SynchronizeFacts
<1>. PICK two : two = Synchronize(one, second, FALSE, r)
  OBVIOUS
<1>3. IsCurrent(two)
  BY <1>2, SynchronizeFacts
<1>. PICK after : after = Synchronize(two, third, force, s)
  OBVIOUS
<1>4. after # two => after.chunks = Full(third, s)
  <2>1. after = Synchronize(two, third, force, s)
    OBVIOUS
  <2>. QED BY ONLY <1>3, <2>1, SynchronizeFacts
<1>. QED BY <1>4 DEF Full

-----------------------------------------------------------------------------
(* Answers and searches.                                                   *)

\* GroundedAnswerService: an answer cites only what it lists, and lists only
\* what was in its context; only a reply that fell short of it is repaired.
THEOREM AnswersStayGrounded == AnswersAreGrounded
<1>. SUFFICES ASSUME NEW context \in Contexts, NEW first \in Answers, NEW second \in Answers
     PROVE LET answer == Answer(context, first, second)
           IN /\ answer.cited \subseteq answer.sources /\ answer.sources \subseteq context
              /\ answer.status = "answered" /\ answer.cited # first.cited
                   => ~(first.cited \subseteq first.used /\ first.used \subseteq context)
  BY DEF AnswersAreGrounded
<1>. PICK reply : reply = IF first.parses THEN Repaired(context, first, second) ELSE Malformed
  OBVIOUS
<1>. PICK answer : answer = Answer(context, first, second)
  OBVIOUS
<1>1. answer = IF context = {} THEN Insufficient
               ELSE IF ~reply.parses THEN Failed
               ELSE IF reply.insufficient THEN Insufficient
               ELSE [status |-> "answered", cited |-> reply.cited,
                     sources |-> context \cap reply.used]
  BY DEF Answer
<1>2. reply.parses => ~grounding_invalid(reply, context)
  BY DEF Repaired, Malformed
<1>3. answer.cited \subseteq answer.sources /\ answer.sources \subseteq context
  BY <1>1, <1>2 DEF grounding_invalid, Insufficient, Failed
<1>4. ASSUME answer.status = "answered", ~grounding_invalid(first, context)
      PROVE  answer.cited = first.cited
  <2>1. reply.parses /\ answer.cited = reply.cited
    BY <1>1, <1>4 DEF Insufficient, Failed
  <2>2. reply = first
    BY <1>4, <2>1 DEF Repaired, Malformed
  <2>. QED BY <2>1, <2>2
<1>. QED BY <1>3, <1>4 DEF grounding_invalid

\* What a view is without the chunks the owner may not see.
Own(v) == [v EXCEPT !.chunks = [c \in Visible(v) |-> v.chunks[c]]]

\* Leaving them out leaves the others.
LEMMA OwnIsVisible ==
  ASSUME NEW v \in Views
  PROVE  Visible(Own(v)) = Visible(v)
<1>1. Own(v).allowed = v.allowed /\ Own(v).chunks = [c \in Visible(v) |-> v.chunks[c]]
  BY GroundingAssumptions DEF Own
<1>2. DOMAIN Own(v).chunks = Visible(v)
  BY <1>1
<1>3. \A c \in Visible(v) : Own(v).chunks[c] = v.chunks[c]
  BY <1>1
<1>4. Visible(Own(v)) = {c \in Visible(v) : v.chunks[c].doc \in v.allowed}
  <2>1. Visible(Own(v)) = {c \in DOMAIN Own(v).chunks : Own(v).chunks[c].doc \in Own(v).allowed}
    BY DEF Visible
  <2>. HIDE DEF Visible, Own
  <2>. QED BY <1>1, <1>2, <1>3, <2>1
<1>. QED BY <1>4 DEF Visible

\* HybridRetrievalService: the filter comes before every limit, so that a
\* search finds what it would find if the chunks the owner may not see did not
\* exist, in the same order.
THEOREM HiddenTakeNoPlace ==
  \A view, other \in Views : \A score, topK :
    Search({view, other}, score, topK) = Search({Own(view), Own(other)}, score, topK)
<1>. SUFFICES ASSUME NEW view \in Views, NEW other \in Views, NEW score, NEW topK
     PROVE Search({view, other}, score, topK) = Search({Own(view), Own(other)}, score, topK)
  OBVIOUS
<1>1. Visible(Own(view)) = Visible(view) /\ Visible(Own(other)) = Visible(other)
  BY OwnIsVisible
<1>. DEFINE Best(v) == ToSet(FirstOnes(ByScore(Visible(v), score), VectorLimit))
            found(views) == UNION {Best(v) : v \in views}
            Floor(F) == FirstOnes(ByScore({c \in F : score[c] >= MinScore}, score), VectorLimit)
            seen(views) == UNION {Visible(v) : v \in views}
            Words(C) == FirstOnes(ByScore({c \in C : score[c] > 0}, score), Bm25Limit)
<1>2. found({view, other}) = found({Own(view), Own(other)})
  <2>1. Best(Own(view)) = Best(view) /\ Best(Own(other)) = Best(other)
    BY <1>1
  <2>. HIDE DEF Best
  <2>2. {Best(v) : v \in {view, other}} = {Best(view), Best(other)}
    OBVIOUS
  <2>3. {Best(v) : v \in {Own(view), Own(other)}} = {Best(Own(view)), Best(Own(other))}
    OBVIOUS
  <2>. QED BY <2>1, <2>2, <2>3
<1>3. seen({view, other}) = seen({Own(view), Own(other)})
  <2>1. {Visible(v) : v \in {view, other}} = {Visible(view), Visible(other)}
    OBVIOUS
  <2>2. {Visible(v) : v \in {Own(view), Own(other)}} = {Visible(Own(view)), Visible(Own(other))}
    OBVIOUS
  <2>. QED BY <1>1, <2>1, <2>2
<1>4. \A views : /\ VectorRanking(views, score) = Floor(found(views))
                 /\ Bm25Ranking(views, score) = Words(seen(views))
  BY DEF VectorRanking, Bm25Ranking
<1>. HIDE DEF found, seen, Floor, Words
<1>5. /\ VectorRanking({view, other}, score) = VectorRanking({Own(view), Own(other)}, score)
      /\ Bm25Ranking({view, other}, score) = Bm25Ranking({Own(view), Own(other)}, score)
  <2>1. /\ VectorRanking({view, other}, score) = Floor(found({view, other}))
        /\ VectorRanking({Own(view), Own(other)}, score) = Floor(found({Own(view), Own(other)}))
        /\ Bm25Ranking({view, other}, score) = Words(seen({view, other}))
        /\ Bm25Ranking({Own(view), Own(other)}, score) = Words(seen({Own(view), Own(other)}))
    BY <1>4
  <2>. QED BY <1>2, <1>3, <2>1
<1>. QED BY <1>5 DEF Search
==============================================================================
