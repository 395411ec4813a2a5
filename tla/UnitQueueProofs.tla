-------------------------- MODULE UnitQueueProofs --------------------------
(***************************************************************************)
(* Proofs about UnitQueue for any corpus, any number of coordinator        *)
(* identities and any number of faults.                                    *)
(*                                                                         *)
(* Basic says that the one living coordinator holds the lock of BASE       *)
(* (LockHeld), and that the notebook's cell only commands a coordinator    *)
(* that waits for it (CellFits).  So nobody else touches Drive, the        *)
(* attempts or the GPU meanwhile, and what a coordinator has seen of Drive *)
(* in its scan is still so (KnowsDrive).                                   *)
(***************************************************************************)
EXTENDS UnitQueue, WellFoundedInduction, TLAPS

-----------------------------------------------------------------------------
(* The choice of the first unit and of the latest ZIP.                     *)

LEMMA LeastNumber ==
  ASSUME NEW S \in SUBSET Nat, S # {}
  PROVE  Min(S) \in S
<1>. DEFINE R == {p \in Nat \X Nat : p[1] < p[2]}
<1>1. IsWellFoundedOn(R, Nat)
  BY NatLessThanWellFounded DEF OpToRel
<1>2. PICK x \in S : \A y \in S : <<y, x>> \notin R
  <2>. HIDE DEF R
  <2>. QED BY <1>1, WFMin
<1>3. \A y \in S : x =< y
  <2>1. SUFFICES ASSUME NEW y \in S PROVE ~ y < x
    OBVIOUS
  <2>. QED BY <1>2
<1>. QED BY <1>3 DEF Min

LEMMA GreatestNumber ==
  ASSUME NEW n \in Nat, NEW S \in SUBSET (1 .. n), S # {}
  PROVE  Max(S) \in S
<1>. DEFINE R == {p \in Nat \X Nat : p[1] < p[2]}
            T == {n - x : x \in S}
<1>1. IsWellFoundedOn(R, Nat)
  BY NatLessThanWellFounded DEF OpToRel
<1>2. T \subseteq Nat /\ T # {}
  <2>1. \A x \in S : x \in Nat /\ x <= n /\ n - x \in Nat
    OBVIOUS
  <2>. QED BY <2>1
<1>3. PICK t \in T : \A y \in T : <<y, t>> \notin R
  <2>. HIDE DEF R, T
  <2>. QED BY <1>1, <1>2, WFMin
<1>4. PICK x \in S : t = n - x
  BY <1>3
<1>5. \A y \in S : y \in Nat
  OBVIOUS
<1>6. \A y \in S : x >= y
  <2>1. SUFFICES ASSUME NEW y \in S, n - y < n - x PROVE FALSE
    <3>. HIDE DEF R, T
    <3>. QED BY <1>5
  <2>2. n - y \in T /\ n - y \in Nat /\ n - x \in Nat
    BY <1>2, <1>4
  <2>. QED BY <1>3, <1>4, <2>1, <2>2
<1>. QED BY <1>6 DEF Max

LEMMA StageFacts ==
  /\ Len(RunOrder) = 12
  /\ RunOrder[1] = "input" /\ RunOrder[2] = "native" /\ RunOrder[12] = "export"
  /\ \A i \in 1 .. 12 : RunOrder[i] = "export" => i = 12
<1>1. Len(RunOrder) = 12
  BY DEF RunOrder
<1>2. /\ RunOrder[1] = "input" /\ RunOrder[2] = "native" /\ RunOrder[3] = "ocr"
      /\ RunOrder[4] = "structure" /\ RunOrder[5] = "docling" /\ RunOrder[6] = "discovery"
      /\ RunOrder[7] = "ocr_regions" /\ RunOrder[8] = "formula" /\ RunOrder[9] = "table"
      /\ RunOrder[10] = "vlm" /\ RunOrder[11] = "merge" /\ RunOrder[12] = "export"
  BY DEF RunOrder
<1>3. \A i \in 1 .. 12 : \/ i = 1 \/ i = 2 \/ i = 3 \/ i = 4 \/ i = 5 \/ i = 6
                          \/ i = 7 \/ i = 8 \/ i = 9 \/ i = 10 \/ i = 11 \/ i = 12
  OBVIOUS
<1>. QED BY <1>1, <1>2, <1>3

-----------------------------------------------------------------------------
(* The inductive invariant.                                                *)

\* What the program counter of a coordinator says of the rest of it.
Fits(s) ==
  /\ s.pc = "off" => s = Off
  /\ s.reply # "none" => s.pc = "idle"
  /\ s.pc \in {"run", "saved", "kept"} => s.unit # 0
  /\ s.pc = "run" => s.step # 0
  /\ s.pc \in {"scan", "reused"} => s.todo # {}
  /\ s.paddle => s.vlm # "gpu" /\ s.pc = "run" /\ RunOrder[s.step] \in PaddleRoles
Shape == \A d \in Daemons : Fits(daemon[d])

\* A living coordinator holds the lock of BASE.
LockHeld == \A d \in Daemons : daemon[d].pc # "off" => lock = d

\* The cell decides only while its coordinator is idle, and the coordinator of
\* a session still has its input open.
CellFits ==
  LET d == notebook.session
  IN  /\ notebook.pc \in {"ready", "wait"} => d # NoDaemon
      /\ notebook.pc = "ready" => daemon[d].pc = "idle"
      /\ notebook.pc = "off" /\ d # NoDaemon => daemon[d].pc \in {"off", "idle"}
      /\ d # NoDaemon /\ daemon[d].pc # "off" => daemon[d].open

Typed ==
  /\ TypeOK
  /\ results \in [Units -> Seq(Zips)] /\ receipt \in [Units -> Nat]

Basic == Typed /\ Shape /\ LockHeld /\ CellFits

\* Every ZIP on Drive has all jobs of its unit, and one was just copied while
\* its receipt is outstanding.
ZipsFit ==
  /\ \A u \in Units : \A i \in 1 .. Len(results[u]) : results[u][i].jobs = JobsOf[u]
  /\ \A d \in Daemons :
       /\ daemon[d].pc = "saved" => results[daemon[d].unit] # <<>>
       /\ daemon[d].pc = "reused" => results[Min(daemon[d].todo)] # <<>>

\* The units of which a coordinator may meet a whole result on Drive: not yet
\* scanned, completed, just copied, or copied without a receipt.
Known(s) ==
  s.completed \cup s.unreceipted
    \cup (IF s.pc = "scan" THEN s.todo ELSE {})
    \cup (IF s.pc = "saved" THEN {s.unit} ELSE {})
    \cup (IF s.pc = "reused" THEN {Min(s.todo)} ELSE {})
KnowsDrive ==
  \A d \in Daemons : daemon[d].pc # "off" =>
    \A u \in Units : OnDrive(u) => u \in Known(daemon[d])

UnitInv == Basic /\ ZipsFit /\ AttemptDirectoryStays /\ KnowsDrive

-----------------------------------------------------------------------------
(* Types, shape, the lock and the cell.                                    *)

Others(d) == \A e \in Daemons \ {d} : daemon'[e] = daemon[e]

\* A coordinator goes on with the command it works on.
Turn(d) ==
  /\ daemon[d].pc \notin {"off", "idle"} /\ daemon'[d].pc # "off"
  /\ daemon'[d].open = daemon[d].open /\ Others(d) /\ Fits(daemon'[d])
  /\ UNCHANGED <<lock, notebook>>

LEMMA TurnBasic ==
  ASSUME Basic, NEW d \in Daemons, Turn(d)
  PROVE  Shape' /\ LockHeld' /\ CellFits'
<1>1. Shape'
  BY DEF Basic, Shape, Turn, Others
<1>2. LockHeld'
  BY DEF Basic, LockHeld, Turn, Others
<1>3. CellFits'
  <2>1. notebook.session \in Daemons \cup {NoDaemon}
    BY DEF Basic, Typed, TypeOK, Notebook
  <2>. QED BY <2>1, UnitQueueAssumption DEF Basic, CellFits, Turn, Others
<1>. QED BY <1>1, <1>2, <1>3

\* A coordinator that ends takes the lock with it.
LEMMA StopBasic ==
  ASSUME Basic, NEW d \in Daemons, Stopped(d), daemon[d].pc # "off",
         notebook.session = d /\ notebook.pc = "ready" => notebook'.pc = "off",
         notebook' = notebook \/ notebook' = [notebook EXCEPT !.pc = "off"],
         notebook' # notebook => notebook.session = d
  PROVE  daemon' \in [Daemons -> Daemon] /\ lock' = NoDaemon /\ Shape' /\ LockHeld' /\ CellFits'
<1>1. Off \in Daemon /\ Fits(Off) /\ Off.pc = "off"
  BY StageFacts, UnitQueueAssumption DEF Off, Daemon, Fits, Pcs
<1>2. daemon' \in [Daemons -> Daemon] /\ daemon'[d] = Off /\ Others(d)
  BY <1>1 DEF Stopped, Basic, Typed, TypeOK, Others
<1>3. lock' = NoDaemon
  BY DEF Basic, LockHeld, Stopped
<1>4. Shape'
  BY <1>1, <1>2 DEF Basic, Shape, Others
<1>5. LockHeld'
  BY <1>1, <1>2 DEF Basic, LockHeld, Others
<1>6. CellFits'
  <2>1. notebook \in Notebook /\ notebook'.session = notebook.session
    BY DEF Basic, Typed, TypeOK, Notebook
  <2>2. notebook.session \in Daemons \cup {NoDaemon}
    BY <2>1 DEF Notebook
  <2>. QED BY <1>1, <1>2, <2>1, <2>2, UnitQueueAssumption DEF Basic, CellFits, Others, Notebook
<1>. QED BY <1>2, <1>3, <1>4, <1>5, <1>6

-----------------------------------------------------------------------------
(* What Basic needs of each action.                                        *)

LEMMA TodoFacts ==
  ASSUME Basic, NEW d \in Daemons, daemon[d].todo # {}
  PROVE  /\ Min(daemon[d].todo) \in daemon[d].todo
         /\ Min(daemon[d].todo) \in Units
<1>1. daemon[d].todo \subseteq Units
  BY DEF Basic, Typed, TypeOK, Daemon
<1>2. Units \subseteq Nat
  BY UnitQueueAssumption DEF Units
<1>. QED BY <1>1, <1>2, LeastNumber

LEMMA DaemonFacts ==
  ASSUME Basic, NEW d \in Daemons
  PROVE  daemon[d] \in Daemon /\ Fits(daemon[d])
BY DEF Basic, Typed, TypeOK, Shape

LEMMA Blank ==
  /\ 0 \in 0 .. NUnits /\ 0 \in 0 .. Len(RunOrder)
  /\ {} \in SUBSET UNION {JobsOf[u] : u \in Units}
BY StageFacts, UnitQueueAssumption

LEMMA ReceiptFacts ==
  ASSUME Basic, NEW u \in Units, NEW i \in 1 .. Len(results[u]), Remember(u, i),
         results' = results
  PROVE  /\ receipt' \in [Units -> Nat]
         /\ \A v \in Units : receipt'[v] \in 0 .. Len(results[v])
<1>1. Len(results[u]) \in Nat /\ i \in Nat
  BY DEF Basic, Typed
<1>. QED BY <1>1 DEF Remember, Basic, Typed, TypeOK

LEMMA CopyFacts ==
  ASSUME Basic, NEW u \in Units, NEW jobs \in SUBSET UNION {JobsOf[v] : v \in Units},
         CopyVerified(u, jobs)
  PROVE  /\ results' \in [Units -> Seq(Zips)]
         /\ Len(results'[u]) = Len(results[u]) + 1 /\ Len(results[u]) \in Nat
         /\ results'[u][Len(results[u]) + 1] = [state |-> "whole", jobs |-> jobs]
         /\ \A i \in 1 .. Len(results[u]) : results'[u][i] = results[u][i]
         /\ \A v \in Units \ {u} : results'[v] = results[v]
         /\ \A v \in Units : /\ Len(results'[v]) <= MaxZips
                             /\ receipt[v] \in 0 .. Len(results'[v])
<1>. DEFINE zip == [state |-> "whole", jobs |-> jobs]
<1>1. zip \in Zips
  BY DEF Zips
<1>2. results[u] \in Seq(Zips) /\ Len(results[u]) \in Nat
  BY DEF Basic, Typed
<1>3. results' = [results EXCEPT ![u] = Append(results[u], zip)]
  BY DEF CopyVerified
<1>4. results'[u] = Append(results[u], zip) /\ \A v \in Units \ {u} : results'[v] = results[v]
  BY <1>3 DEF Basic, Typed
<1>. HIDE DEF zip
<1>5. /\ Append(results[u], zip) \in Seq(Zips) /\ Len(Append(results[u], zip)) = Len(results[u]) + 1
      /\ \A i \in 1 .. Len(results[u]) : Append(results[u], zip)[i] = results[u][i]
      /\ Append(results[u], zip)[Len(results[u]) + 1] = zip
  BY <1>1, <1>2
<1>6. results' \in [Units -> Seq(Zips)]
  BY <1>3, <1>5 DEF Basic, Typed
<1>7. Len(results'[u]) <= MaxZips /\ receipt[u] \in 0 .. Len(results'[u])
  BY <1>2, <1>4, <1>5, UnitQueueAssumption DEF CopyVerified, Basic, Typed, TypeOK
<1>8. \A v \in Units : Len(results'[v]) <= MaxZips /\ receipt[v] \in 0 .. Len(results'[v])
  BY <1>4, <1>7 DEF Basic, Typed, TypeOK
<1>. QED BY <1>2, <1>4, <1>5, <1>6, <1>8 DEF zip

LEMMA ScanMoves ==
  ASSUME Basic, NEW d \in Daemons, ScanUnit(d)
  PROVE  Basic' /\ Turn(d)
<1>. DEFINE u == Min(daemon[d].todo)
            left == daemon[d].todo \ {u}
            found == ReceiptValid(u) \/ Recoverable(u) # {}
            done == daemon[d].completed \cup (IF found THEN {u} ELSE {})
            now == [daemon[d] EXCEPT !.completed = done,
                                     !.todo = IF left = {} THEN Units \ done ELSE left,
                                     !.pc = IF left = {} THEN "reuse" ELSE "scan"]
<1>1. daemon[d].pc = "scan" /\ u \in Units /\ daemon[d] \in Daemon /\ Fits(daemon[d])
  BY DaemonFacts, TodoFacts DEF ScanUnit, Fits
<1>2. daemon' = [daemon EXCEPT ![d] = now]
  BY DEF ScanUnit
<1>3. done \subseteq Units /\ left \subseteq Units
  BY <1>1 DEF Daemon
<1>. HIDE DEF done, left
<1>4. now \in Daemon /\ Fits(now) /\ now.pc # "off" /\ now.open = daemon[d].open
  BY <1>1, <1>3 DEF Daemon, Fits, Pcs
<1>. HIDE DEF now
<1>5. daemon' \in [Daemons -> Daemon] /\ daemon'[d] = now /\ Others(d)
  BY <1>2, <1>4 DEF Basic, Typed, TypeOK, Others
<1>6. results' = results /\ UNCHANGED rest
  BY DEF ScanUnit
<1>7. Turn(d)
  BY <1>1, <1>4, <1>5, <1>6 DEF Turn, rest
<1>8. receipt' \in [Units -> Nat] /\ \A v \in Units : receipt'[v] \in 0 .. Len(results[v])
  <2>1. CASE UNCHANGED receipt
    BY <2>1 DEF Basic, Typed, TypeOK
  <2>2. CASE Recoverable(u) # {} /\ Remember(u, Max(Recoverable(u)))
    <3>1. Len(results[u]) \in Nat
      BY <1>1 DEF Basic, Typed
    <3>2. Recoverable(u) \in SUBSET (1 .. Len(results[u]))
      BY DEF Recoverable
    <3>3. Max(Recoverable(u)) \in 1 .. Len(results[u])
      BY <2>2, <3>1, <3>2, GreatestNumber
    <3>. QED BY <1>1, <1>6, <2>2, <3>3, ReceiptFacts
  <2>. QED BY <2>1, <2>2 DEF ScanUnit
<1>. QED BY <1>5, <1>6, <1>7, <1>8, TurnBasic DEF Basic, Typed, TypeOK, rest

LEMMA ReuseMoves ==
  ASSUME Basic, NEW d \in Daemons, ReuseUnit(d)
  PROVE  Basic' /\ Turn(d)
<1>. DEFINE u == Min(daemon[d].todo)
<1>1. daemon[d].pc = "reuse" /\ u \in Units /\ daemon[d] \in Daemon /\ Fits(daemon[d])
      /\ UNCHANGED rest /\ receipt' = receipt
  BY DaemonFacts, TodoFacts DEF ReuseUnit
<1>. HIDE DEF u
<1>2. PICK now \in {[daemon[d] EXCEPT !.pc = "reused"], [daemon[d] EXCEPT !.todo = @ \ {u}]} :
        daemon' = [daemon EXCEPT ![d] = now]
  BY DEF ReuseUnit, u
<1>3. now \in Daemon /\ Fits(now) /\ now.pc # "off" /\ now.open = daemon[d].open
  BY <1>1, <1>2 DEF Daemon, Fits, Pcs, ReuseUnit
<1>4. daemon' \in [Daemons -> Daemon] /\ daemon'[d] = now /\ Others(d)
  BY <1>2, <1>3 DEF Basic, Typed, TypeOK, Others
<1>5. Turn(d)
  BY <1>1, <1>3, <1>4 DEF Turn, rest
<1>6. /\ results' \in [Units -> Seq(Zips)]
      /\ \A v \in Units : Len(results'[v]) <= MaxZips /\ receipt[v] \in 0 .. Len(results'[v])
  <2>1. CASE results' = results
    BY <2>1 DEF Basic, Typed, TypeOK
  <2>2. CASE CopyVerified(u, JobsOf[u])
    BY <1>1, <2>2, CopyFacts
  <2>. QED BY <2>1, <2>2 DEF ReuseUnit, u
<1>7. \A v \in Units : results'[v] \in Seq(Zips)
  BY <1>6
<1>. QED BY <1>1, <1>4, <1>5, <1>6, <1>7, TurnBasic DEF Basic, Typed, TypeOK, rest

LEMMA RememberMoves ==
  ASSUME Basic, ZipsFit, NEW d \in Daemons, ReuseRemember(d)
  PROVE  Basic' /\ Turn(d)
<1>. DEFINE u == Min(daemon[d].todo)
            now == [daemon[d] EXCEPT !.completed = @ \cup {u}, !.todo = @ \ {u}, !.pc = "reuse"]
<1>1. daemon[d].pc = "reused" /\ u \in Units /\ daemon[d] \in Daemon /\ Fits(daemon[d])
      /\ UNCHANGED rest /\ results' = results
  BY DaemonFacts, TodoFacts DEF ReuseRemember, Fits
<1>2. daemon' = [daemon EXCEPT ![d] = now]
  BY DEF ReuseRemember
<1>3. Remember(u, Len(results[u])) /\ results[u] # <<>>
  BY <1>1 DEF ReuseRemember, ZipsFit
<1>. HIDE DEF u
<1>4. now \in Daemon /\ Fits(now) /\ now.pc # "off" /\ now.open = daemon[d].open
  BY <1>1 DEF Daemon, Fits, Pcs
<1>. HIDE DEF now
<1>5. daemon' \in [Daemons -> Daemon] /\ daemon'[d] = now /\ Others(d)
  BY <1>2, <1>4 DEF Basic, Typed, TypeOK, Others
<1>6. Turn(d)
  BY <1>1, <1>4, <1>5 DEF Turn, rest
<1>7. results[u] \in Seq(Zips) /\ Len(results[u]) \in 1 .. Len(results[u])
  BY <1>1, <1>3 DEF Basic, Typed
<1>8. receipt' \in [Units -> Nat] /\ \A v \in Units : receipt'[v] \in 0 .. Len(results[v])
  BY <1>1, <1>3, <1>7, ReceiptFacts
<1>. QED BY <1>1, <1>5, <1>6, <1>8, TurnBasic DEF Basic, Typed, TypeOK, rest

LEMMA ReuseFailsMoves ==
  ASSUME Basic, NEW d \in Daemons, ReuseFails(d)
  PROVE  Basic' /\ Turn(d)
<1>. DEFINE u == Min(daemon[d].todo)
            now == [daemon[d] EXCEPT !.todo = @ \ {u}, !.pc = "reuse",
                      !.unreceipted = IF daemon[d].pc = "reused" THEN @ \cup {u} ELSE @]
<1>1. daemon[d].pc \in {"reuse", "reused"} /\ u \in Units /\ daemon[d] \in Daemon /\ Fits(daemon[d])
  BY DaemonFacts, TodoFacts DEF ReuseFails
<1>2. daemon' = [daemon EXCEPT ![d] = now]
  BY DEF ReuseFails
<1>. HIDE DEF u
<1>3. now \in Daemon /\ Fits(now) /\ now.pc # "off" /\ now.open = daemon[d].open
  BY <1>1 DEF Daemon, Fits, Pcs
<1>. HIDE DEF now
<1>4. daemon' \in [Daemons -> Daemon] /\ daemon'[d] = now /\ Others(d)
  BY <1>2, <1>3 DEF Basic, Typed, TypeOK, Others
<1>5. Turn(d)
  BY <1>1, <1>3, <1>4 DEF Turn, ReuseFails
<1>6. faults' \in 0 .. MaxFaults
  BY UnitQueueAssumption DEF ReuseFails, Basic, Typed, TypeOK
<1>. QED BY <1>4, <1>5, <1>6, TurnBasic DEF Basic, Typed, TypeOK, ReuseFails, drive

LEMMA EndScanMoves ==
  ASSUME Basic, NEW d \in Daemons, EndScan(d)
  PROVE  Basic' /\ Turn(d)
<1>. DEFINE now == [daemon[d] EXCEPT !.pc = "idle", !.reply = "ok"]
<1>1. daemon[d].pc = "reuse" /\ daemon[d] \in Daemon /\ Fits(daemon[d])
  BY DaemonFacts DEF EndScan
<1>2. daemon' = [daemon EXCEPT ![d] = now]
  BY DEF EndScan
<1>3. now \in Daemon /\ Fits(now) /\ now.pc # "off" /\ now.open = daemon[d].open
  BY <1>1 DEF Daemon, Fits, Pcs
<1>. HIDE DEF now
<1>4. daemon' \in [Daemons -> Daemon] /\ daemon'[d] = now /\ Others(d)
  BY <1>2, <1>3 DEF Basic, Typed, TypeOK, Others
<1>5. Turn(d)
  BY <1>1, <1>3, <1>4 DEF Turn, EndScan
<1>. QED BY <1>4, <1>5, TurnBasic DEF Basic, Typed, TypeOK, EndScan, drive

\* The stages of a unit change neither Drive nor what the coordinator knows of it.
StageStep(d) ==
  \/ StageInput(d) \/ Prepare(d) \/ BeginStage(d) \/ EndStage(d) \/ MergeDiscovery(d)
  \/ MergeInference(d)

Computes(d) ==
  /\ daemon[d].pc = "run" /\ daemon'[d].pc = "run"
  /\ daemon'[d].unit = daemon[d].unit /\ daemon'[d].completed = daemon[d].completed
  /\ daemon'[d].unreceipted = daemon[d].unreceipted

LEMMA StageRecord ==
  ASSUME Basic, NEW d \in Daemons, StageStep(d)
  PROVE  /\ daemon[d].pc = "run" /\ UNCHANGED <<results, receipt, rest>>
         /\ \E now \in Daemon :
              /\ daemon' = [daemon EXCEPT ![d] = now]
              /\ Fits(now) /\ now.pc = "run" /\ now.open = daemon[d].open
              /\ now.unit = daemon[d].unit /\ now.completed = daemon[d].completed
              /\ now.unreceipted = daemon[d].unreceipted
<1>. DEFINE w == daemon[d]
            Result(now) ==
              /\ now \in Daemon /\ Fits(now) /\ now.pc = "run" /\ now.open = w.open
              /\ now.unit = w.unit /\ now.completed = w.completed
              /\ now.unreceipted = w.unreceipted
<1>1. w \in Daemon /\ Fits(w)
  BY DaemonFacts
<1>2. w.pc = "run" /\ UNCHANGED <<results, receipt, rest>>
  BY DEF StageStep, StageInput, Prepare, BeginStage, EndStage, MergeDiscovery, MergeInference
<1>3. w.step \in 1 .. 12 /\ w.unit \in Units /\ Step(d) = RunOrder[w.step]
  BY <1>1, <1>2, StageFacts DEF Daemon, Fits, Units, Step
<1>4. \A p \in {w, Park(w)} :
        /\ p \in Daemon /\ p.pc = "run" /\ p.open = w.open /\ p.unit = w.unit
        /\ p.completed = w.completed /\ p.unreceipted = w.unreceipted
        /\ p.reply = w.reply /\ p.step = w.step /\ p.paddle = w.paddle
  BY <1>1, <1>2 DEF Park, Daemon
<1>5. Park(w).vlm # "gpu"
  BY <1>1 DEF Park, Daemon
\* A stage that is not the export and has no specialist at work may be left.
<1>6. ASSUME NEW p \in Daemon, p.pc = "run", p.open = w.open, p.unit = w.unit,
             p.completed = w.completed, p.unreceipted = w.unreceipted, p.reply = w.reply,
             p.step = w.step, ~p.paddle, Step(d) # "export"
      PROVE  Result(Next1(p))
  <2>1. w.step # 12
    BY <1>3, <1>6, StageFacts
  <2>2. p.step + 1 \in 1 .. 12 /\ p.unit # 0
    BY <1>1, <1>2, <1>3, <1>6, <2>1 DEF Fits
  <2>. QED BY <1>1, <1>2, <1>6, <2>2, StageFacts DEF Next1, Daemon, Fits
<1>7. Step(d) \in {"input", "native", "discovery", "merge"} => ~w.paddle
  BY <1>1, <1>3 DEF Fits, PaddleRoles
<1>8. CASE StageInput(d) \/ Prepare(d)
  BY <1>1, <1>2, <1>6, <1>7, <1>8 DEF StageInput, Prepare
<1>9. CASE BeginStage(d)
  <2>1. ~w.paddle /\ Step(d) # "export"
    BY <1>9 DEF BeginStage, PaddleRoles
  <2>2. CASE Pending(d) = {}
    BY <1>1, <1>2, <1>6, <1>9, <2>1, <2>2 DEF BeginStage
  <2>3. CASE Pending(d) # {} /\ Step(d) = "vlm"
    <3>. DEFINE now == [w EXCEPT !.vlm = "gpu"]
    <3>1. daemon' = [daemon EXCEPT ![d] = now]
      BY <1>9, <2>3 DEF BeginStage
    <3>2. Result(now)
      BY <1>1, <1>2, <2>1 DEF Daemon, Fits
    <3>. QED BY <1>2, <3>1, <3>2
  <2>4. CASE Pending(d) # {} /\ Step(d) = "docling"
    <3>. DEFINE p == [Park(w) EXCEPT !.docling = TRUE]
    <3>1. daemon' = [daemon EXCEPT ![d] = Next1(p)]
      BY <1>9, <2>4 DEF BeginStage
    <3>2. /\ p \in Daemon /\ p.pc = "run" /\ p.open = w.open /\ p.unit = w.unit
          /\ p.completed = w.completed /\ p.unreceipted = w.unreceipted
          /\ p.reply = w.reply /\ p.step = w.step /\ ~p.paddle
      BY <1>4, <2>1 DEF Daemon
    <3>. HIDE DEF p
    <3>3. Result(Next1(p))
      BY <1>6, <2>1, <3>2
    <3>. QED BY <1>2, <3>1, <3>3
  <2>5. CASE Pending(d) # {} /\ Step(d) \notin {"vlm", "docling"}
    <3>. DEFINE now == [Park(w) EXCEPT !.paddle = TRUE]
    <3>1. daemon' = [daemon EXCEPT ![d] = now] /\ Step(d) \in PaddleRoles
      BY <1>9, <2>5 DEF BeginStage
    <3>2. w.unit # 0 /\ w.step # 0 /\ w.reply = "none"
      BY <1>1, <1>2 DEF Fits, Daemon
    <3>3. Result(now)
      <4>1. /\ Park(w) \in Daemon /\ Park(w).pc = "run" /\ Park(w).vlm # "gpu"
            /\ Park(w).open = w.open /\ Park(w).unit = w.unit /\ Park(w).completed = w.completed
            /\ Park(w).unreceipted = w.unreceipted /\ Park(w).reply = w.reply /\ Park(w).step = w.step
        BY <1>4, <1>5
      <4>2. /\ now \in Daemon /\ now.pc = "run" /\ now.paddle /\ now.vlm # "gpu"
            /\ now.open = w.open /\ now.unit = w.unit /\ now.completed = w.completed
            /\ now.unreceipted = w.unreceipted /\ now.reply = w.reply /\ now.step = w.step
        BY ONLY <4>1 DEF Daemon
      <4>3. RunOrder[w.step] \in PaddleRoles
        BY <1>3, <3>1
      <4>. HIDE DEF now
      <4>4. Fits(now)
        BY ONLY <3>2, <4>2, <4>3 DEF Fits
      <4>. QED BY <4>2, <4>4
    <3>. QED BY <1>2, <3>1, <3>3
  <2>. QED BY <2>2, <2>3, <2>4, <2>5
<1>10. CASE EndStage(d)
  <2>1. CASE w.paddle
    <3>. DEFINE p == [w EXCEPT !.paddle = FALSE]
    <3>1. daemon' = [daemon EXCEPT ![d] = Next1(p)]
      BY <1>10, <2>1 DEF EndStage
    <3>2. /\ p \in Daemon /\ p.pc = "run" /\ p.open = w.open /\ p.unit = w.unit
          /\ p.completed = w.completed /\ p.unreceipted = w.unreceipted
          /\ p.reply = w.reply /\ p.step = w.step /\ ~p.paddle
      BY <1>1, <1>2 DEF Daemon
    <3>3. Step(d) # "export"
      BY <1>1, <1>3, <2>1 DEF Fits, PaddleRoles
    <3>. HIDE DEF p
    <3>4. Result(Next1(p))
      BY <1>6, <3>2, <3>3
    <3>. QED BY <1>2, <3>1, <3>4
  <2>2. CASE ~w.paddle
    <3>1. daemon' = [daemon EXCEPT ![d] = Next1(Park(w))] /\ Step(d) # "export"
      BY <1>10, <2>2 DEF EndStage
    <3>2. Result(Next1(Park(w)))
      BY <1>4, <1>6, <2>2, <3>1
    <3>. QED BY <1>2, <3>1, <3>2
  <2>. QED BY <2>1, <2>2
<1>11. CASE MergeDiscovery(d)
  <2>1. PICK notReady \in SUBSET (Jobs(d) \cap LayoutJobs) :
          daemon' = [daemon EXCEPT ![d] = Next1([w EXCEPT !.blocked = notReady])]
    BY <1>11 DEF MergeDiscovery
  <2>. DEFINE p == [w EXCEPT !.blocked = notReady]
  <2>2. notReady \subseteq UNION {JobsOf[u] : u \in Units}
    BY <1>3 DEF Jobs
  <2>3. /\ p \in Daemon /\ p.pc = "run" /\ p.open = w.open /\ p.unit = w.unit
        /\ p.completed = w.completed /\ p.unreceipted = w.unreceipted
        /\ p.reply = w.reply /\ p.step = w.step /\ ~p.paddle
    BY <1>1, <1>2, <1>7, <1>11, <2>2 DEF Daemon, MergeDiscovery
  <2>. HIDE DEF p
  <2>4. Result(Next1(p))
    BY <1>6, <1>11, <2>3 DEF MergeDiscovery
  <2>. QED BY <1>2, <2>1, <2>4 DEF p
<1>12. CASE MergeInference(d)
  <2>. DEFINE p == [w EXCEPT !.merged = Jobs(d) \ w.blocked]
  <2>1. daemon' = [daemon EXCEPT ![d] = Next1(p)]
    BY <1>12 DEF MergeInference
  <2>2. Jobs(d) \subseteq UNION {JobsOf[u] : u \in Units}
    BY <1>3 DEF Jobs
  <2>3. /\ p \in Daemon /\ p.pc = "run" /\ p.open = w.open /\ p.unit = w.unit
        /\ p.completed = w.completed /\ p.unreceipted = w.unreceipted
        /\ p.reply = w.reply /\ p.step = w.step /\ ~p.paddle
    BY <1>1, <1>2, <1>7, <1>12, <2>2 DEF Daemon, MergeInference
  <2>. HIDE DEF p
  <2>4. Result(Next1(p))
    BY <1>6, <1>12, <2>3 DEF MergeInference
  <2>. QED BY <1>2, <2>1, <2>4
<1>. QED BY <1>8, <1>9, <1>10, <1>11, <1>12 DEF StageStep

LEMMA StageMoves ==
  ASSUME Basic, NEW d \in Daemons, StageStep(d)
  PROVE  Basic' /\ Turn(d) /\ Computes(d) /\ UNCHANGED <<results, receipt, rest>>
<1>1. UNCHANGED <<results, receipt, rest>> /\ daemon[d].pc = "run"
  BY StageRecord
<1>2. PICK now \in Daemon :
        /\ daemon' = [daemon EXCEPT ![d] = now]
        /\ Fits(now) /\ now.pc = "run" /\ now.open = daemon[d].open
        /\ now.unit = daemon[d].unit /\ now.completed = daemon[d].completed
        /\ now.unreceipted = daemon[d].unreceipted
  BY StageRecord
<1>3. daemon' \in [Daemons -> Daemon] /\ daemon'[d] = now /\ Others(d)
  BY <1>2 DEF Basic, Typed, TypeOK, Others
<1>4. Turn(d) /\ Computes(d)
  BY <1>1, <1>2, <1>3 DEF Turn, Computes, rest
<1>. QED BY <1>1, <1>3, <1>4, TurnBasic DEF Basic, Typed, TypeOK, rest

LEMMA PublishMoves ==
  ASSUME Basic, NEW d \in Daemons, Publish(d)
  PROVE  Basic' /\ Turn(d)
<1>. DEFINE now == [daemon[d] EXCEPT !.pc = "saved"]
<1>1. daemon[d].pc = "run" /\ daemon[d] \in Daemon /\ Fits(daemon[d]) /\ Step(d) = "export"
      /\ UNCHANGED rest /\ receipt' = receipt /\ CopyVerified(daemon[d].unit, daemon[d].merged)
  BY DaemonFacts DEF Publish
<1>2. daemon' = [daemon EXCEPT ![d] = now]
  BY DEF Publish
<1>3. daemon[d].unit \in Units /\ daemon[d].merged \in SUBSET UNION {JobsOf[v] : v \in Units}
  BY <1>1 DEF Daemon, Fits, Units
<1>4. now \in Daemon /\ Fits(now) /\ now.pc # "off" /\ now.open = daemon[d].open
  BY <1>1 DEF Daemon, Fits, Pcs, Step, PaddleRoles
<1>. HIDE DEF now
<1>5. daemon' \in [Daemons -> Daemon] /\ daemon'[d] = now /\ Others(d)
  BY <1>2, <1>4 DEF Basic, Typed, TypeOK, Others
<1>6. Turn(d)
  BY <1>1, <1>4, <1>5 DEF Turn, rest
<1>7. /\ results' \in [Units -> Seq(Zips)]
      /\ \A v \in Units : Len(results'[v]) <= MaxZips /\ receipt[v] \in 0 .. Len(results'[v])
  BY <1>1, <1>3, CopyFacts
<1>8. \A v \in Units : results'[v] \in Seq(Zips)
  BY <1>7
<1>. QED BY <1>1, <1>5, <1>6, <1>7, <1>8, TurnBasic DEF Basic, Typed, TypeOK, rest

LEMMA ReceiptMoves ==
  ASSUME Basic, ZipsFit, NEW d \in Daemons, WriteReceipt(d)
  PROVE  Basic' /\ Turn(d)
<1>. DEFINE u == daemon[d].unit
            now == [daemon[d] EXCEPT !.completed = @ \cup {u}, !.pc = "kept"]
<1>1. daemon[d].pc = "saved" /\ daemon[d] \in Daemon /\ Fits(daemon[d])
      /\ UNCHANGED rest /\ results' = results
  BY DaemonFacts DEF WriteReceipt
<1>2. daemon' = [daemon EXCEPT ![d] = now]
  BY DEF WriteReceipt
<1>3. u \in Units /\ Remember(u, Len(results[u])) /\ results[u] # <<>>
  BY <1>1 DEF WriteReceipt, ZipsFit, Daemon, Fits, Units
<1>4. now \in Daemon /\ Fits(now) /\ now.pc # "off" /\ now.open = daemon[d].open
  BY <1>1, <1>3 DEF Daemon, Fits, Pcs
<1>. HIDE DEF now
<1>5. daemon' \in [Daemons -> Daemon] /\ daemon'[d] = now /\ Others(d)
  BY <1>2, <1>4 DEF Basic, Typed, TypeOK, Others
<1>6. Turn(d)
  BY <1>1, <1>4, <1>5 DEF Turn, rest
<1>7. results[u] \in Seq(Zips) /\ Len(results[u]) \in 1 .. Len(results[u])
  BY <1>1, <1>3 DEF Basic, Typed
<1>8. receipt' \in [Units -> Nat] /\ \A v \in Units : receipt'[v] \in 0 .. Len(results[v])
  BY <1>1, <1>3, <1>7, ReceiptFacts
<1>. QED BY <1>1, <1>5, <1>6, <1>8, TurnBasic DEF Basic, Typed, TypeOK, rest

LEMMA AnswerMoves ==
  ASSUME Basic, NEW d \in Daemons, AnswerProcess(d)
  PROVE  Basic' /\ Turn(d)
<1>. DEFINE now == [daemon[d] EXCEPT !.pc = "idle", !.reply = "ok", !.unit = 0, !.step = 0,
                                     !.blocked = {}, !.merged = {}]
<1>1. daemon[d].pc = "kept" /\ daemon[d] \in Daemon /\ Fits(daemon[d])
  BY DaemonFacts DEF AnswerProcess
<1>2. daemon' = [daemon EXCEPT ![d] = now]
  BY DEF AnswerProcess
<1>3. now \in Daemon /\ Fits(now) /\ now.pc # "off" /\ now.open = daemon[d].open
  BY <1>1, Blank DEF Daemon, Fits, Pcs
<1>. HIDE DEF now
<1>4. daemon' \in [Daemons -> Daemon] /\ daemon'[d] = now /\ Others(d)
  BY <1>2, <1>3 DEF Basic, Typed, TypeOK, Others
<1>5. Turn(d)
  BY <1>1, <1>3, <1>4 DEF Turn, AnswerProcess
<1>. QED BY <1>4, <1>5, TurnBasic DEF Basic, Typed, TypeOK, AnswerProcess, drive

LEMMA FailMoves ==
  ASSUME Basic, NEW d \in Daemons, FailUnit(d)
  PROVE  Basic' /\ Turn(d)
<1>. DEFINE p == ClosePool(daemon[d])
            now == [p EXCEPT
               !.pc = "idle", !.reply = "error", !.unit = 0, !.step = 0,
               !.blocked = {}, !.merged = {},
               !.unreceipted = @ \cup (IF daemon[d].pc = "saved" THEN {daemon[d].unit} ELSE {})]
<1>1. daemon[d].pc \in {"run", "saved", "kept"} /\ daemon[d] \in Daemon /\ Fits(daemon[d])
  BY DaemonFacts DEF FailUnit, InputRefused, GuardTrips, WorkerFails, Unexecuted, CopyFails,
                     StoreFails
<1>2. daemon' = [daemon EXCEPT ![d] = now]
  BY DEF FailUnit
<1>3. daemon[d].unit \in Units
  BY <1>1 DEF Daemon, Fits, Units
<1>4. now \in Daemon /\ Fits(now) /\ now.pc # "off" /\ now.open = daemon[d].open
  <2>1. p \in Daemon /\ ~p.paddle /\ p.open = daemon[d].open
    BY <1>1 DEF ClosePool, Daemon
  <2>. DEFINE more == IF daemon[d].pc = "saved" THEN {daemon[d].unit} ELSE {}
  <2>2. more \subseteq Units
    BY <1>3
  <2>. HIDE DEF p, more
  <2>3. now.pc = "idle" /\ now.open = p.open /\ now.paddle = p.paddle
    BY <2>1 DEF Daemon
  <2>4. now \in Daemon
    BY <2>1, <2>2, Blank DEF Daemon, Pcs, more
  <2>. QED BY <2>1, <2>3, <2>4 DEF Fits
<1>. HIDE DEF now
<1>5. daemon' \in [Daemons -> Daemon] /\ daemon'[d] = now /\ Others(d)
  BY <1>2, <1>4 DEF Basic, Typed, TypeOK, Others
<1>6. Turn(d)
  BY <1>1, <1>4, <1>5 DEF Turn, FailUnit, rest
<1>. QED BY <1>5, <1>6, TurnBasic DEF Basic, Typed, TypeOK, FailUnit, rest

LEMMA ExitMoves ==
  ASSUME Basic, NEW d \in Daemons, Exit(d)
  PROVE  Basic' /\ Stopped(d)
<1>1. daemon[d].pc = "idle" /\ ~daemon[d].open /\ Stopped(d) /\ notebook' = notebook
  BY DEF Exit
<1>2. notebook.session = d /\ notebook.pc = "ready" => FALSE
  BY <1>1, UnitQueueAssumption DEF Basic, CellFits
<1>3. daemon' \in [Daemons -> Daemon] /\ lock' = NoDaemon /\ Shape' /\ LockHeld' /\ CellFits'
  BY <1>1, <1>2, StopBasic
<1>. QED BY <1>1, <1>3 DEF Basic, Typed, TypeOK, Exit, drive

LEMMA StartMoves ==
  ASSUME Basic, NEW d \in Daemons, StartCell(d)
  PROVE  /\ Basic' /\ Others(d) /\ daemon'[d].pc = "scan" /\ daemon'[d].todo = Units
         /\ daemon[d].pc \in {"off", "idle"} /\ lock' = d
<1>. DEFINE now == [daemon[d] EXCEPT !.pc = "scan", !.open = TRUE, !.reply = "none",
                             !.completed = {}, !.todo = Units, !.unreceipted = {}]
<1>1. daemon[d] \in Daemon /\ Fits(daemon[d]) /\ daemon' = [daemon EXCEPT ![d] = now]
      /\ notebook' = [pc |-> "wait", session |-> d, attempted |-> {}, unit |-> 0]
      /\ UNCHANGED <<drive, attempts, faults>> /\ notebook.pc = "off"
  BY DaemonFacts DEF StartCell
<1>2. daemon[d].pc \in {"off", "idle"} /\ lock' = d /\ \A e \in Daemons \ {d} : daemon[e].pc = "off"
  <2>1. CASE Alive(notebook.session)
    BY <2>1 DEF StartCell, Alive, Basic, CellFits, LockHeld
  <2>2. CASE ~Alive(notebook.session)
    BY <2>2, UnitQueueAssumption DEF StartCell, MayStart, Basic, LockHeld
  <2>. QED BY <2>1, <2>2
<1>3. ~daemon[d].paddle /\ Units # {}
  BY <1>1, <1>2, UnitQueueAssumption DEF Fits, Units
<1>4. now \in Daemon /\ Fits(now) /\ now.pc = "scan" /\ now.open /\ now.todo = Units
  BY <1>1, <1>3 DEF Daemon, Fits, Pcs
<1>. HIDE DEF now
<1>5. daemon' \in [Daemons -> Daemon] /\ daemon'[d] = now /\ Others(d)
  BY <1>1, <1>4 DEF Basic, Typed, TypeOK, Others
<1>6. Shape'
  BY <1>4, <1>5 DEF Basic, Shape, Others
<1>7. LockHeld'
  BY <1>2, <1>5 DEF LockHeld, Others
<1>8. CellFits' /\ notebook' \in Notebook
  BY <1>1, <1>4, <1>5, UnitQueueAssumption DEF CellFits, Notebook
<1>. QED BY <1>1, <1>2, <1>4, <1>5, <1>6, <1>7, <1>8 DEF Basic, Typed, TypeOK, drive

\* The cell picks a unit, or ends and with it the coordinator.
Picks(d, u) ==
  /\ notebook.pc = "ready" /\ notebook.session = d /\ daemon[d].pc = "idle"
  /\ u \in Units \ daemon[d].completed
  /\ Others(d) /\ daemon'[d].pc = "run" /\ daemon'[d].unit = u
  /\ daemon'[d].completed = daemon[d].completed
  /\ daemon'[d].unreceipted = daemon[d].unreceipted
  /\ attempts' = attempts \cup {<<u, d>>} /\ UNCHANGED drive

LEMMA ChooseMoves ==
  ASSUME Basic, ChooseUnit
  PROVE  /\ Basic'
         /\ \/ \E d \in Daemons : \E u \in Units : Picks(d, u)
            \/ UNCHANGED <<drive, attempts, daemon>>
            \/ UNCHANGED <<drive, attempts>> /\ \E d \in Daemons : Stopped(d)
<1>. DEFINE d == notebook.session
            eligible == (Units \ daemon[d].completed) \ (Blocked \cup notebook.attempted)
            u == Min(eligible)
<1>1. /\ notebook \in Notebook /\ notebook.pc = "ready" /\ d \in Daemons
      /\ daemon[d].pc = "idle" /\ daemon[d] \in Daemon /\ Fits(daemon[d])
      /\ lock = d /\ daemon[d].open /\ UNCHANGED <<drive, faults>>
  <2>1. notebook \in Notebook /\ notebook.pc = "ready" /\ UNCHANGED <<drive, faults>>
    BY DEF ChooseUnit, Basic, Typed, TypeOK
  <2>2. d \in Daemons /\ daemon[d].pc = "idle"
    BY <2>1 DEF Basic, CellFits, Notebook
  <2>. QED BY <2>1, <2>2, DaemonFacts, UnitQueueAssumption DEF Basic, LockHeld, CellFits
<1>2. CASE eligible # {} /\ u \in uploaded /\ notebook'.pc = "wait"
  <2>. DEFINE now == [daemon[d] EXCEPT !.pc = "run", !.reply = "none", !.unit = u, !.step = 1]
  <2>1. u \in Units \ daemon[d].completed
    <3>1. eligible \in SUBSET Nat
      BY UnitQueueAssumption DEF Units
    <3>2. u \in eligible
      BY <1>2, <3>1, LeastNumber
    <3>. QED BY <3>2
  <2>2. /\ daemon' = [daemon EXCEPT ![d] = now]
        /\ attempts' = attempts \cup {<<u, d>>}
        /\ notebook' = [notebook EXCEPT !.pc = "wait", !.unit = u, !.attempted = @ \cup {u}]
        /\ lock' = lock
    <3>1. ~(notebook' = [notebook EXCEPT !.pc = "off"])
      BY <1>1, <1>2 DEF Notebook
    <3>2. ~(eligible # {} /\ u \in uploaded) \/
            /\ daemon' = [daemon EXCEPT ![d].pc = "run", ![d].reply = "none", ![d].unit = u, ![d].step = 1]
            /\ attempts' = attempts \cup {<<u, d>>}
            /\ notebook' = [notebook EXCEPT !.pc = "wait", !.unit = u, !.attempted = @ \cup {u}]
            /\ lock' = lock
      <4>1. ChooseUnit
        OBVIOUS
      <4>. QED BY ONLY <3>1, <4>1 DEF ChooseUnit
    <3>3. daemon \in [Daemons -> Daemon]
      BY DEF Basic, Typed, TypeOK
    <3>4. eligible # {} /\ u \in uploaded
      BY <1>2
    <3>. HIDE DEF u, d, eligible
    <3>. QED BY ONLY <1>1, <3>2, <3>3, <3>4
  <2>3. UNCHANGED drive
    BY <1>1
  <2>. HIDE DEF u, d
  <2>4. /\ now \in Daemon /\ Fits(now) /\ now.pc = "run" /\ now.unit = u /\ now.open
        /\ now.completed = daemon[d].completed /\ now.unreceipted = daemon[d].unreceipted
    <3>1. u \in 0 .. NUnits /\ u # 0 /\ 1 \in 0 .. Len(RunOrder)
      BY <2>1, StageFacts, UnitQueueAssumption DEF Units
    <3>2. now \in Daemon
      BY <1>1, <3>1 DEF Daemon, Pcs
    <3>3. /\ now.pc = "run" /\ now.unit = u /\ now.open /\ now.step = 1 /\ now.reply = "none"
          /\ now.completed = daemon[d].completed /\ now.unreceipted = daemon[d].unreceipted
          /\ now.paddle = daemon[d].paddle
      BY <1>1 DEF Daemon
    <3>4. ~daemon[d].paddle
      BY <1>1 DEF Fits
    <3>. QED BY <3>1, <3>2, <3>3, <3>4 DEF Fits
  <2>. HIDE DEF now
  <2>5. daemon' \in [Daemons -> Daemon] /\ daemon'[d] = now /\ Others(d)
    BY <1>1, <2>2, <2>4 DEF Basic, Typed, TypeOK, Others
  <2>6. Shape' /\ LockHeld'
    BY <1>1, <2>2, <2>4, <2>5 DEF Basic, Shape, LockHeld, Others
  <2>7. notebook' \in Notebook /\ notebook'.session = d /\ notebook'.pc = "wait"
    <3>1. u \in 0 .. NUnits /\ notebook.attempted \cup {u} \in SUBSET Units
      BY <1>1, <2>1, UnitQueueAssumption DEF Notebook, Units
    <3>. QED BY <1>1, <2>2, <3>1 DEF Notebook, d
  <2>8. CellFits'
    BY <1>1, <2>4, <2>5, <2>7, UnitQueueAssumption DEF CellFits
  <2>9. attempts' \in SUBSET (Units \X Daemons)
    BY <1>1, <2>1, <2>2 DEF Basic, Typed, TypeOK
  <2>10. Basic'
    BY <1>1, <2>2, <2>3, <2>5, <2>6, <2>7, <2>8, <2>9 DEF Basic, Typed, TypeOK, drive
  <2>11. Picks(d, u)
    BY <1>1, <2>1, <2>2, <2>3, <2>4, <2>5 DEF Picks, d
  <2>. QED BY <1>1, <2>1, <2>10, <2>11
<1>3. CASE notebook'.pc = "off"
  <2>1. notebook' = [notebook EXCEPT !.pc = "off"] /\ UNCHANGED attempts
    BY <1>1, <1>3 DEF ChooseUnit, Notebook
  <2>2. Stopped(d) \/ UNCHANGED <<daemon, lock>>
    BY <1>1, <1>3 DEF ChooseUnit, Notebook
  <2>3. notebook' \in Notebook /\ notebook'.pc = "off" /\ notebook'.session = d
    BY <1>1, <2>1 DEF Notebook
  <2>4. CASE Stopped(d)
    <3>1. daemon' \in [Daemons -> Daemon] /\ lock' = NoDaemon /\ Shape' /\ LockHeld' /\ CellFits'
      BY <1>1, <2>1, <2>3, <2>4, StopBasic
    <3>. QED BY <1>1, <2>1, <2>3, <2>4, <3>1 DEF Basic, Typed, TypeOK, drive
  <2>5. CASE UNCHANGED <<daemon, lock>>
    <3>1. Shape' /\ LockHeld' /\ CellFits'
      BY <1>1, <2>3, <2>5 DEF Basic, Shape, LockHeld, CellFits
    <3>. QED BY <1>1, <2>1, <2>3, <2>5, <3>1 DEF Basic, Typed, TypeOK, drive
  <2>. QED BY <2>2, <2>4, <2>5
<1>. QED BY <1>1, <1>2, <1>3 DEF ChooseUnit, Notebook

LEMMA AnsweredMoves ==
  ASSUME Basic, Answered
  PROVE  Basic' /\ UNCHANGED <<results, receipt, attempts, daemon>>
<1>. DEFINE d == notebook.session
            ok == daemon[d].reply = "ok"
<1>1. /\ notebook \in Notebook /\ notebook.pc = "wait" /\ d \in Daemons
      /\ daemon[d] \in Daemon /\ Fits(daemon[d])
      /\ UNCHANGED <<results, receipt, previous, uploaded, attempts, lock, daemon, faults>>
  <2>1. notebook \in Notebook /\ notebook.pc = "wait"
    BY DEF Answered, Basic, Typed, TypeOK
  <2>2. d \in Daemons
    BY <2>1 DEF Basic, CellFits, Notebook
  <2>. QED BY <2>1, <2>2, DaemonFacts DEF Answered
<1>2. PICK stops \in (IF ok THEN {FALSE} ELSE IF Alive(d) THEN BOOLEAN ELSE {TRUE}) :
        notebook' = [notebook EXCEPT !.pc = IF stops THEN "off" ELSE "ready", !.unit = 0]
  BY DEF Answered
<1>3. daemon[d].pc \in {"off", "idle"} /\ (~stops => daemon[d].pc = "idle")
  <2>1. daemon[d].reply # "none" \/ daemon[d].pc = "off"
    BY DEF Answered
  <2>2. daemon[d].reply # "none" => daemon[d].pc = "idle"
    BY <1>1 DEF Fits
  <2>3. ~stops => ok \/ Alive(d)
    BY <1>2
  <2>. QED BY <2>1, <2>2, <2>3 DEF Alive
<1>4. /\ notebook' \in Notebook /\ notebook'.session = d
      /\ notebook'.pc = IF stops THEN "off" ELSE "ready"
  BY <1>1, <1>2, Blank DEF Notebook
<1>5. CellFits'
  BY <1>1, <1>3, <1>4 DEF Basic, CellFits
<1>6. failed' \subseteq Units
  BY DEF Answered, Basic, Typed, TypeOK
<1>7. Shape' /\ LockHeld'
  BY <1>1 DEF Basic, Shape, LockHeld
<1>. QED BY <1>1, <1>4, <1>5, <1>6, <1>7 DEF Basic, Typed, TypeOK

LEMMA DeadlineMoves ==
  ASSUME Basic, Deadline
  PROVE  /\ Basic' /\ UNCHANGED <<drive, attempts>>
         /\ \E d \in Daemons : Stopped(d)
<1>. DEFINE d == notebook.session
<1>1. /\ d \in Daemons /\ daemon[d].pc # "off" /\ notebook.pc = "wait" /\ notebook' = notebook
      /\ Stopped(d) /\ UNCHANGED <<drive, attempts>>
  <2>1. d \in Daemons \cup {NoDaemon}
    BY DEF Basic, Typed, TypeOK, Notebook
  <2>. QED BY <2>1 DEF Deadline, Alive
<1>2. daemon' \in [Daemons -> Daemon] /\ lock' = NoDaemon /\ Shape' /\ LockHeld' /\ CellFits'
  BY <1>1, StopBasic
<1>3. faults' \in 0 .. MaxFaults
  BY UnitQueueAssumption DEF Deadline, Basic, Typed, TypeOK
<1>. QED BY <1>1, <1>2, <1>3 DEF Basic, Typed, TypeOK, drive

\* The kernel restarts, the machine is lost: the coordinators go on or are gone.
LEMMA RestartMoves ==
  ASSUME Basic, KernelRestart
  PROVE  /\ Basic' /\ UNCHANGED <<drive, attempts>>
         /\ \A e \in Daemons : \/ daemon'[e] = daemon[e]
                               \/ daemon'[e] = [daemon[e] EXCEPT !.open = FALSE]
<1>. DEFINE d == notebook.session
            now == [daemon[d] EXCEPT !.open = FALSE]
<1>1. /\ d \in Daemons /\ notebook' = NewKernel /\ UNCHANGED <<drive, attempts, lock>>
      /\ daemon' = [daemon EXCEPT ![d] = now]
  <2>1. d \in Daemons \cup {NoDaemon}
    BY DEF Basic, Typed, TypeOK, Notebook
  <2>. QED BY <2>1 DEF KernelRestart
<1>2. daemon[d] \in Daemon /\ Fits(daemon[d])
  BY <1>1, DaemonFacts
<1>3. now \in Daemon /\ now.pc = daemon[d].pc
  BY <1>2 DEF Daemon
<1>4. Fits(now)
  <2>1. CASE daemon[d].pc = "off"
    <3>1. daemon[d] = Off
      BY <1>2, <2>1 DEF Fits
    <3>2. Off.open = FALSE
      BY DEF Off
    <3>3. [Off EXCEPT !.open = FALSE] = Off
      BY <1>2, <3>1, <3>2 DEF Daemon
    <3>. QED BY <1>2, <3>1, <3>3
  <2>2. CASE daemon[d].pc # "off"
    <3>1. /\ now.pc = daemon[d].pc /\ now.reply = daemon[d].reply /\ now.unit = daemon[d].unit
          /\ now.step = daemon[d].step /\ now.todo = daemon[d].todo
          /\ now.paddle = daemon[d].paddle /\ now.vlm = daemon[d].vlm
      BY <1>2 DEF Daemon
    <3>. HIDE DEF now
    <3>. QED BY <1>2, <2>2, <3>1 DEF Fits
  <2>. QED BY <2>1, <2>2
<1>. HIDE DEF now
<1>5. daemon' \in [Daemons -> Daemon] /\ daemon'[d] = now /\ Others(d)
  BY <1>1, <1>3 DEF Basic, Typed, TypeOK, Others
<1>6. Shape' /\ LockHeld'
  BY <1>1, <1>3, <1>4, <1>5 DEF Basic, Shape, LockHeld, Others
<1>7. CellFits' /\ notebook' \in Notebook
  BY <1>1, UnitQueueAssumption DEF CellFits, NewKernel, Notebook
<1>8. faults' \in 0 .. MaxFaults
  BY UnitQueueAssumption DEF KernelRestart, Basic, Typed, TypeOK
<1>. QED BY <1>1, <1>5, <1>6, <1>7, <1>8 DEF Basic, Typed, TypeOK, drive, Others, now

LEMMA LossMoves ==
  ASSUME Basic, MachineLost
  PROVE  Basic' /\ UNCHANGED drive /\ \A e \in Daemons : daemon'[e] = Off
<1>1. Off \in Daemon /\ Fits(Off) /\ Off.pc = "off"
  BY StageFacts, UnitQueueAssumption DEF Off, Daemon, Fits, Pcs
<1>2. /\ \A e \in Daemons : daemon'[e] = Off
      /\ notebook' = NewKernel /\ UNCHANGED drive /\ attempts' = {} /\ lock' = NoDaemon
      /\ daemon' \in [Daemons -> Daemon]
  BY <1>1 DEF MachineLost
<1>3. Shape' /\ LockHeld'
  BY <1>1, <1>2 DEF Shape, LockHeld
<1>4. CellFits' /\ notebook' \in Notebook
  BY <1>2, UnitQueueAssumption DEF CellFits, NewKernel, Notebook
<1>5. faults' \in 0 .. MaxFaults
  BY UnitQueueAssumption DEF MachineLost, Basic, Typed, TypeOK
<1>. QED BY <1>2, <1>3, <1>4, <1>5 DEF Basic, Typed, TypeOK, drive

LEMMA DriveMoves ==
  ASSUME Basic, NEW u \in Units, DriveFault(u)
  PROVE  /\ Basic' /\ UNCHANGED <<daemon, attempts>>
         /\ \A v \in Units :
              /\ Len(results'[v]) = Len(results[v])
              /\ \A i \in 1 .. Len(results[v]) :
                   /\ results'[v][i].jobs = results[v][i].jobs
                   /\ results'[v][i].state = "whole" => results[v][i].state = "whole"
<1>1. PICK i \in 1 .. Len(results[u]), s \in {"damaged", "lost"} :
        results' = [results EXCEPT ![u][i].state = s]
  BY DEF DriveFault
<1>. DEFINE zip == [results[u][i] EXCEPT !.state = s]
            new == [results[u] EXCEPT ![i] = zip]
<1>2. results[u] \in Seq(Zips) /\ Len(results[u]) \in Nat
  BY DEF Basic, Typed
<1>3. zip \in Zips /\ zip.jobs = results[u][i].jobs /\ zip.state # "whole"
  <2>1. results[u][i] \in Zips
    BY <1>2
  <2>. QED BY <2>1 DEF Zips
<1>4. results' = [results EXCEPT ![u] = new]
  BY <1>1
<1>. HIDE DEF zip
<1>5. /\ new \in Seq(Zips) /\ Len(new) = Len(results[u]) /\ new[i] = zip
      /\ \A k \in 1 .. Len(results[u]) : k # i => new[k] = results[u][k]
  BY <1>2, <1>3
<1>. HIDE DEF new
<1>6. /\ results' \in [Units -> Seq(Zips)] /\ results'[u] = new
      /\ \A v \in Units \ {u} : results'[v] = results[v]
  BY <1>4, <1>5 DEF Basic, Typed
<1>7. \A v \in Units :
        /\ Len(results'[v]) = Len(results[v])
        /\ \A k \in 1 .. Len(results[v]) :
             /\ results'[v][k].jobs = results[v][k].jobs
             /\ results'[v][k].state = "whole" => results[v][k].state = "whole"
  BY <1>3, <1>5, <1>6
<1>8. faults' \in 0 .. MaxFaults
  BY UnitQueueAssumption DEF DriveFault, Basic, Typed, TypeOK
<1>9. UNCHANGED <<receipt, previous, uploaded, failed, attempts, lock, daemon, notebook>>
  BY DEF DriveFault
<1>10. \A v \in Units : results'[v] \in Seq(Zips)
  BY <1>6
<1>. QED
  BY <1>6, <1>7, <1>8, <1>9, <1>10 DEF Basic, Typed, TypeOK, Shape, LockHeld, CellFits

LEMMA UploadMoves ==
  ASSUME Basic, NEW u \in Units, Upload(u)
  PROVE  Basic' /\ UNCHANGED <<results, receipt, attempts, daemon>>
BY DEF Upload, Basic, Typed, TypeOK, Shape, LockHeld, CellFits

-----------------------------------------------------------------------------
(* What each action does to the knowledge of its coordinator.              *)

\* While a coordinator lives, the others are off.
LEMMA Alone ==
  ASSUME Basic, NEW d \in Daemons, daemon[d].pc # "off"
  PROVE  \A e \in Daemons \ {d} : daemon[e].pc = "off"
BY DEF Basic, LockHeld

LEMMA ScanEffect ==
  ASSUME Basic, NEW d \in Daemons, ScanUnit(d)
  PROVE  LET u == Min(daemon[d].todo)
             found == ReceiptValid(u) \/ Recoverable(u) # {}
         IN  /\ daemon[d].pc = "scan" /\ daemon'[d].pc \in {"scan", "reuse"}
             /\ results' = results /\ attempts' = attempts
             /\ daemon'[d].completed = daemon[d].completed \cup (IF found THEN {u} ELSE {})
             /\ daemon'[d].unreceipted = daemon[d].unreceipted
             /\ daemon'[d].todo = IF daemon[d].todo \ {u} = {}
                                  THEN Units \ daemon'[d].completed ELSE daemon[d].todo \ {u}
             /\ daemon'[d].pc = IF daemon[d].todo \ {u} = {} THEN "reuse" ELSE "scan"
<1>1. daemon[d] \in Daemon
  BY DaemonFacts
<1>. QED BY <1>1 DEF ScanUnit, Basic, Typed, TypeOK, Daemon, rest

LEMMA ReuseEffect ==
  ASSUME Basic, NEW d \in Daemons, ReuseUnit(d)
  PROVE  /\ daemon[d].pc = "reuse" /\ attempts' = attempts
         /\ daemon'[d].completed = daemon[d].completed
         /\ daemon'[d].unreceipted = daemon[d].unreceipted
         /\ \/ /\ daemon'[d].pc = "reused" /\ daemon'[d].todo = daemon[d].todo
               /\ daemon[d].todo # {}
               /\ CopyVerified(Min(daemon[d].todo), JobsOf[Min(daemon[d].todo)])
            \/ daemon'[d].pc = "reuse" /\ results' = results
<1>1. daemon[d] \in Daemon
  BY DaemonFacts
<1>. QED BY <1>1 DEF ReuseUnit, Basic, Typed, TypeOK, Daemon, rest

LEMMA RememberEffect ==
  ASSUME Basic, NEW d \in Daemons, ReuseRemember(d)
  PROVE  /\ daemon[d].pc = "reused" /\ daemon'[d].pc = "reuse"
         /\ results' = results /\ attempts' = attempts
         /\ daemon'[d].completed = daemon[d].completed \cup {Min(daemon[d].todo)}
         /\ daemon'[d].unreceipted = daemon[d].unreceipted
<1>1. daemon[d] \in Daemon
  BY DaemonFacts
<1>. QED BY <1>1 DEF ReuseRemember, Basic, Typed, TypeOK, Daemon, rest

LEMMA ReuseFailsEffect ==
  ASSUME Basic, NEW d \in Daemons, ReuseFails(d)
  PROVE  /\ daemon[d].pc \in {"reuse", "reused"} /\ daemon'[d].pc = "reuse"
         /\ results' = results /\ attempts' = attempts
         /\ daemon'[d].completed = daemon[d].completed
         /\ daemon'[d].unreceipted = daemon[d].unreceipted \cup
              (IF daemon[d].pc = "reused" THEN {Min(daemon[d].todo)} ELSE {})
<1>1. daemon[d] \in Daemon
  BY DaemonFacts
<1>. QED BY <1>1 DEF ReuseFails, Basic, Typed, TypeOK, Daemon, drive

LEMMA EndScanEffect ==
  ASSUME Basic, NEW d \in Daemons, EndScan(d)
  PROVE  /\ daemon[d].pc = "reuse" /\ daemon'[d].pc = "idle" /\ results' = results
         /\ daemon'[d].completed = daemon[d].completed
         /\ daemon'[d].unreceipted = daemon[d].unreceipted
<1>1. daemon[d] \in Daemon
  BY DaemonFacts
<1>. QED BY <1>1 DEF EndScan, Basic, Typed, TypeOK, Daemon, drive

LEMMA PublishEffect ==
  ASSUME Basic, NEW d \in Daemons, Publish(d)
  PROVE  /\ daemon[d].pc = "run" /\ daemon'[d].pc = "saved" /\ attempts' = attempts
         /\ CopyVerified(daemon[d].unit, JobsOf[daemon[d].unit]) /\ daemon[d].unit \in Units
         /\ daemon'[d].unit = daemon[d].unit /\ daemon'[d].completed = daemon[d].completed
         /\ daemon'[d].unreceipted = daemon[d].unreceipted
<1>1. daemon[d] \in Daemon /\ Fits(daemon[d])
  BY DaemonFacts
<1>2. daemon[d].merged = JobsOf[daemon[d].unit]
  BY DEF Publish, Executed, Jobs
<1>. QED BY <1>1, <1>2 DEF Publish, Basic, Typed, TypeOK, Daemon, Fits, Units, rest

LEMMA ReceiptEffect ==
  ASSUME Basic, NEW d \in Daemons, WriteReceipt(d)
  PROVE  /\ daemon[d].pc = "saved" /\ daemon'[d].pc = "kept"
         /\ results' = results /\ attempts' = attempts
         /\ daemon'[d].unit = daemon[d].unit
         /\ daemon'[d].completed = daemon[d].completed \cup {daemon[d].unit}
         /\ daemon'[d].unreceipted = daemon[d].unreceipted
<1>1. daemon[d] \in Daemon
  BY DaemonFacts
<1>. QED BY <1>1 DEF WriteReceipt, Basic, Typed, TypeOK, Daemon, rest

LEMMA AnswerEffect ==
  ASSUME Basic, NEW d \in Daemons, AnswerProcess(d)
  PROVE  /\ daemon[d].pc = "kept" /\ daemon'[d].pc = "idle" /\ results' = results
         /\ daemon'[d].completed = daemon[d].completed
         /\ daemon'[d].unreceipted = daemon[d].unreceipted
<1>1. daemon[d] \in Daemon
  BY DaemonFacts
<1>. QED BY <1>1 DEF AnswerProcess, Basic, Typed, TypeOK, Daemon, drive

LEMMA FailEffect ==
  ASSUME Basic, NEW d \in Daemons, FailUnit(d)
  PROVE  /\ daemon[d].pc \in {"run", "saved", "kept"} /\ daemon'[d].pc = "idle"
         /\ results' = results
         /\ daemon'[d].completed = daemon[d].completed
         /\ daemon'[d].unreceipted = daemon[d].unreceipted \cup
              (IF daemon[d].pc = "saved" THEN {daemon[d].unit} ELSE {})
<1>. DEFINE p == ClosePool(daemon[d])
<1>1. daemon[d] \in Daemon
  BY DaemonFacts
<1>2. /\ p \in Daemon /\ p.completed = daemon[d].completed
      /\ p.unreceipted = daemon[d].unreceipted
  BY <1>1 DEF ClosePool, Daemon
<1>3. daemon[d].pc \in {"run", "saved", "kept"} /\ results' = results
  BY DEF FailUnit, InputRefused, GuardTrips, WorkerFails, Unexecuted, CopyFails, StoreFails
<1>4. daemon' = [daemon EXCEPT ![d] =
         [p EXCEPT !.pc = "idle", !.reply = "error", !.unit = 0, !.step = 0,
                   !.blocked = {}, !.merged = {},
                   !.unreceipted = @ \cup (IF daemon[d].pc = "saved"
                                           THEN {daemon[d].unit} ELSE {})]]
  BY DEF FailUnit
<1>. HIDE DEF p
<1>. QED BY <1>2, <1>3, <1>4 DEF Basic, Typed, TypeOK, Daemon

LEMMA StopEffect ==
  ASSUME Basic, NEW d \in Daemons, Stopped(d)
  PROVE  daemon'[d] = Off /\ Others(d) /\ Off.pc = "off" /\ ~Off.paddle /\ Off.unit = 0
BY DEF Stopped, Basic, Typed, TypeOK, Others, Off

\* The ways a step may change Drive, the attempts and the coordinators.
Work1(d) ==
  \/ ScanUnit(d) \/ ReuseUnit(d) \/ ReuseRemember(d) \/ ReuseFails(d) \/ EndScan(d)
  \/ StageStep(d) \/ Publish(d) \/ WriteReceipt(d) \/ AnswerProcess(d) \/ FailUnit(d)

LEMMA NextCases ==
  ASSUME Next
  PROVE  \/ \E d \in Daemons : Work1(d) \/ Exit(d) \/ StartCell(d)
         \/ ChooseUnit \/ Answered \/ Deadline \/ KernelRestart \/ MachineLost
         \/ \E u \in Units : DriveFault(u) \/ Upload(u)
BY DEF Next, Work, Work1, StageStep

LEMMA WorkBasic ==
  ASSUME Basic, ZipsFit, NEW d \in Daemons, Work1(d)
  PROVE  Basic' /\ Turn(d)
BY ScanMoves, ReuseMoves, RememberMoves, ReuseFailsMoves, EndScanMoves, StageMoves,
   PublishMoves, ReceiptMoves, AnswerMoves, FailMoves DEF Work1

LEMMA BasicStep ==
  ASSUME Basic, ZipsFit, [Next]_vars
  PROVE  Basic'
<1>1. CASE UNCHANGED vars
  BY <1>1 DEF vars, drive, Basic, Typed, TypeOK, Shape, LockHeld, CellFits
<1>2. CASE Next
  <2>1. ASSUME NEW d \in Daemons, Work1(d) \/ Exit(d) \/ StartCell(d) PROVE Basic'
    BY <2>1, WorkBasic, ExitMoves, StartMoves
  <2>2. CASE ChooseUnit \/ Answered \/ Deadline \/ KernelRestart \/ MachineLost
    BY <2>2, ChooseMoves, AnsweredMoves, DeadlineMoves, RestartMoves, LossMoves
  <2>3. ASSUME NEW u \in Units, DriveFault(u) \/ Upload(u) PROVE Basic'
    BY <2>3, DriveMoves, UploadMoves
  <2>. QED BY <1>2, <2>1, <2>2, <2>3, NextCases
<1>. QED BY <1>1, <1>2

-----------------------------------------------------------------------------
(* The ZIPs on Drive.                                                      *)

LEMMA ZipsKept ==
  ASSUME ZipsFit, results' = results,
         \A e \in Daemons : \/ daemon'[e] = daemon[e]
                            \/ daemon'[e].pc \notin {"saved", "reused"}
  PROVE  ZipsFit'
BY DEF ZipsFit

\* A copy of the jobs of u, made by a coordinator while the others are off.
LEMMA ZipsCopied ==
  ASSUME Basic, ZipsFit, NEW d \in Daemons, Turn(d), NEW u \in Units, CopyVerified(u, JobsOf[u]),
         daemon'[d].pc = "saved" => daemon'[d].unit = u,
         daemon'[d].pc = "reused" => Min(daemon'[d].todo) = u
  PROVE  ZipsFit'
<1>1. JobsOf[u] \in SUBSET UNION {JobsOf[v] : v \in Units}
  OBVIOUS
<1>2. /\ Len(results'[u]) = Len(results[u]) + 1 /\ Len(results[u]) \in Nat
      /\ results'[u][Len(results[u]) + 1].jobs = JobsOf[u]
      /\ \A i \in 1 .. Len(results[u]) : results'[u][i] = results[u][i]
      /\ \A v \in Units \ {u} : results'[v] = results[v]
  <2>1. results'[u][Len(results[u]) + 1] = [state |-> "whole", jobs |-> JobsOf[u]]
    BY <1>1, CopyFacts
  <2>2. results'[u][Len(results[u]) + 1].jobs = JobsOf[u]
    BY <2>1
  <2>. QED BY <1>1, <2>2, CopyFacts
<1>3. \A v \in Units : \A i \in 1 .. Len(results'[v]) : results'[v][i].jobs = JobsOf[v]
  <2>1. \A i \in 1 .. Len(results'[u]) : i \in 1 .. Len(results[u]) \/ i = Len(results[u]) + 1
    BY <1>2
  <2>. QED BY <1>2, <2>1 DEF ZipsFit
<1>4. results'[u] # <<>>
  <2>1. Len(results'[u]) # 0
    BY <1>2
  <2>. QED BY <2>1
<1>5. \A e \in Daemons \ {d} : daemon'[e].pc = "off"
  BY Alone DEF Turn, Others
<1>. QED BY <1>3, <1>4, <1>5 DEF ZipsFit

LEMMA ZipsStep ==
  ASSUME Basic, ZipsFit, [Next]_vars
  PROVE  ZipsFit'
<1>1. ASSUME NEW d \in Daemons, Work1(d)
      PROVE  ZipsFit'
  <2>0. Turn(d)
    BY <1>1, WorkBasic
  <2>1. CASE ReuseUnit(d) /\ results' # results
    <3>1. Min(daemon[d].todo) \in Units
      BY <2>1, ReuseEffect, TodoFacts
    <3>. QED BY <2>0, <2>1, <3>1, ReuseEffect, ZipsCopied
  <2>2. CASE Publish(d)
    BY <2>0, <2>2, PublishEffect, ZipsCopied
  <2>3. CASE ~Publish(d) /\ results' = results
    <3>1. daemon'[d].pc \notin {"saved", "reused"} \/ ReuseUnit(d)
      BY <1>1, <2>3, ScanEffect, RememberEffect, ReuseFailsEffect, EndScanEffect, StageMoves,
         ReceiptEffect, AnswerEffect, FailEffect DEF Work1, Computes
    <3>2. ReuseUnit(d) => daemon'[d].pc # "reused"
      <4>1. SUFFICES ASSUME ReuseUnit(d), daemon'[d].pc = "reused" PROVE FALSE
        OBVIOUS
      <4>2. Min(daemon[d].todo) \in Units
        BY <4>1, ReuseEffect, TodoFacts
      <4>3. results'[Min(daemon[d].todo)] # results[Min(daemon[d].todo)]
        <5>. DEFINE u == Min(daemon[d].todo)
        <5>1. JobsOf[u] \in SUBSET UNION {JobsOf[v] : v \in Units} /\ CopyVerified(u, JobsOf[u])
          BY <4>1, <4>2, ReuseEffect
        <5>2. Len(results'[u]) = Len(results[u]) + 1 /\ Len(results[u]) \in Nat
          BY <4>2, <5>1, CopyFacts
        <5>. QED BY <5>2
      <4>. QED BY <2>3, <4>3
    <3>3. ReuseUnit(d) => daemon'[d].pc # "saved"
      BY ReuseEffect
    <3>. QED BY <2>0, <2>3, <3>1, <3>2, <3>3, ZipsKept DEF Turn, Others
  <2>4. results' # results => ReuseUnit(d) \/ Publish(d)
    BY <1>1, ScanEffect, RememberEffect, ReuseFailsEffect, EndScanEffect, StageMoves,
       ReceiptEffect, AnswerEffect, FailEffect DEF Work1
  <2>. QED BY <2>1, <2>2, <2>3, <2>4
<1>2. ASSUME NEW d \in Daemons, Exit(d)
      PROVE  ZipsFit'
  BY <1>2, ExitMoves, StopEffect, ZipsKept DEF Exit, drive, Others
<1>3. ASSUME NEW d \in Daemons, StartCell(d)
      PROVE  ZipsFit'
  BY <1>3, StartMoves, ZipsKept DEF StartCell, drive, Others
<1>4. CASE ChooseUnit
  <2>1. CASE UNCHANGED <<drive, attempts, daemon>>
    BY <2>1, ZipsKept DEF drive
  <2>2. ASSUME NEW d \in Daemons, NEW u \in Units, Picks(d, u) PROVE ZipsFit'
    BY <2>2, ZipsKept DEF Picks, drive, Others
  <2>3. ASSUME NEW d \in Daemons, Stopped(d), UNCHANGED <<drive, attempts>> PROVE ZipsFit'
    BY <2>3, StopEffect, ZipsKept DEF drive, Others
  <2>. QED BY <1>4, <2>1, <2>2, <2>3, ChooseMoves
<1>5. CASE Answered \/ \E u \in Units : Upload(u)
  BY <1>5, AnsweredMoves, UploadMoves, ZipsKept
<1>6. CASE Deadline
  BY <1>6, DeadlineMoves, StopEffect, ZipsKept DEF drive, Others
<1>7. CASE KernelRestart
  <2>1. /\ results' = results
        /\ \A e \in Daemons : /\ daemon'[e].pc = daemon[e].pc /\ daemon'[e].unit = daemon[e].unit
                              /\ daemon'[e].todo = daemon[e].todo
    BY <1>7, RestartMoves, DaemonFacts DEF drive, Daemon
  <2>. QED BY <2>1 DEF ZipsFit
<1>8. CASE MachineLost
  BY <1>8, LossMoves, ZipsKept DEF drive, Off
<1>9. ASSUME NEW u \in Units, DriveFault(u)
      PROVE  ZipsFit'
  <2>1. /\ daemon' = daemon
        /\ \A v \in Units :
              /\ Len(results'[v]) = Len(results[v])
              /\ \A i \in 1 .. Len(results[v]) : results'[v][i].jobs = results[v][i].jobs
    BY <1>9, DriveMoves
  <2>2. \A v \in Units : results[v] # <<>> => results'[v] # <<>>
    <3>1. \A v \in Units : results[v] \in Seq(Zips)
      BY DEF Basic, Typed
    <3>. QED BY <2>1, <3>1
  <2>3. \A d \in Daemons : /\ daemon[d].pc = "saved" => daemon[d].unit \in Units
                           /\ daemon[d].pc = "reused" => Min(daemon[d].todo) \in Units
    <3>1. ASSUME NEW d \in Daemons
          PROVE  /\ daemon[d].unit \in 0 .. NUnits /\ (daemon[d].pc = "saved" => daemon[d].unit # 0)
                 /\ daemon[d].pc = "reused" => daemon[d].todo # {}
      BY DaemonFacts DEF Fits, Daemon
    <3>2. \A n \in 0 .. NUnits : n # 0 => n \in Units
      BY UnitQueueAssumption DEF Units
    <3>3. \A d \in Daemons : daemon[d].pc = "reused" => Min(daemon[d].todo) \in Units
      BY <3>1, TodoFacts
    <3>. QED BY ONLY <3>1, <3>2, <3>3
  <2>. QED BY <2>1, <2>2, <2>3 DEF ZipsFit
<1>10. CASE UNCHANGED vars
  BY <1>10 DEF vars, drive, ZipsFit
<1>. QED
  BY <1>1, <1>2, <1>3, <1>4, <1>5, <1>6, <1>7, <1>8, <1>9, <1>10, NextCases

-----------------------------------------------------------------------------
(* The attempt directories.                                                *)

LEMMA AttemptsStep ==
  ASSUME Basic, ZipsFit, AttemptDirectoryStays, [Next]_vars
  PROVE  AttemptDirectoryStays'
<1>. DEFINE Working(e) == daemon[e].pc \in {"run", "saved", "kept"}
<1>1. ASSUME NEW d \in Daemons, Work1(d)
      PROVE  AttemptDirectoryStays'
  <2>1. Turn(d) /\ \A e \in Daemons \ {d} : daemon'[e].pc = "off"
    BY <1>1, WorkBasic, Alone DEF Turn, Others
  <2>2. daemon'[d].pc \in {"run", "saved", "kept"} =>
          /\ Working(d) /\ daemon'[d].unit = daemon[d].unit /\ attempts' = attempts
    <3>. DEFINE Still == daemon'[d].pc \in {"run", "saved", "kept"} =>
                           /\ Working(d) /\ daemon'[d].unit = daemon[d].unit /\ attempts' = attempts
    <3>1. ScanUnit(d) \/ ReuseUnit(d) \/ ReuseRemember(d) => Still
      BY ScanEffect, ReuseEffect, RememberEffect
    <3>2. ReuseFails(d) \/ EndScan(d) => Still
      BY ReuseFailsEffect, EndScanEffect
    <3>3. StageStep(d) => Still
      BY StageMoves DEF Computes, rest
    <3>4. Publish(d) \/ WriteReceipt(d) => Still
      BY PublishEffect, ReceiptEffect
    <3>5. AnswerProcess(d) \/ FailUnit(d) => Still
      BY AnswerEffect, FailEffect
    <3>6. Still
      <4>. HIDE DEF Still
      <4>. QED BY ONLY <1>1, <3>1, <3>2, <3>3, <3>4, <3>5 DEF Work1
    <3>. QED BY <3>6
  <2>. QED BY <2>1, <2>2 DEF AttemptDirectoryStays
<1>2. ASSUME attempts' = attempts,
             \A e \in Daemons : daemon'[e] = daemon[e] \/ daemon'[e].pc \in {"off", "scan"}
      PROVE  AttemptDirectoryStays'
  BY <1>2 DEF AttemptDirectoryStays
<1>3. ASSUME NEW d \in Daemons, Exit(d) \/ StartCell(d)
      PROVE  AttemptDirectoryStays'
  BY <1>2, <1>3, ExitMoves, StopEffect, StartMoves DEF Exit, StartCell, Others
<1>4. CASE ChooseUnit
  <2>1. CASE UNCHANGED <<drive, attempts, daemon>>
    BY <1>2, <2>1
  <2>2. ASSUME NEW d \in Daemons, NEW u \in Units, Picks(d, u) PROVE AttemptDirectoryStays'
    BY <2>2 DEF Picks, Others, AttemptDirectoryStays
  <2>3. ASSUME NEW d \in Daemons, Stopped(d), UNCHANGED <<drive, attempts>>
        PROVE  AttemptDirectoryStays'
    BY <1>2, <2>3, StopEffect DEF Others
  <2>. QED BY <1>4, <2>1, <2>2, <2>3, ChooseMoves
<1>5. CASE Answered \/ \E u \in Units : DriveFault(u) \/ Upload(u)
  BY <1>2, <1>5, AnsweredMoves, UploadMoves, DriveMoves
<1>6. CASE Deadline
  BY <1>2, <1>6, DeadlineMoves, StopEffect DEF Others
<1>7. CASE KernelRestart
  <2>1. /\ attempts' = attempts
        /\ \A e \in Daemons : daemon'[e].pc = daemon[e].pc /\ daemon'[e].unit = daemon[e].unit
    BY <1>7, RestartMoves, DaemonFacts DEF Daemon
  <2>. QED BY <2>1 DEF AttemptDirectoryStays
<1>8. CASE MachineLost
  BY <1>8, LossMoves DEF Off, AttemptDirectoryStays
<1>9. CASE UNCHANGED vars
  BY <1>9 DEF vars, AttemptDirectoryStays
<1>. QED
  BY <1>1, <1>3, <1>4, <1>5, <1>6, <1>7, <1>8, <1>9, NextCases

-----------------------------------------------------------------------------
(* What a coordinator knows of Drive.                                      *)

\* A coordinator at work forgets nothing, while nobody else changes Drive.
LEMMA KnowledgeKept ==
  ASSUME Basic, KnowsDrive, NEW d \in Daemons, Turn(d), results' = results,
         Known(daemon[d]) \subseteq Known(daemon'[d])
  PROVE  KnowsDrive'
<1>1. \A e \in Daemons \ {d} : daemon'[e].pc = "off"
  BY Alone DEF Turn, Others
<1>2. \A u \in Units : OnDrive(u)' => OnDrive(u)
  BY DEF OnDrive
<1>3. \A u \in Units : OnDrive(u)' => u \in Known(daemon'[d])
  BY <1>2 DEF KnowsDrive, Turn
<1>. QED BY <1>1, <1>3 DEF KnowsDrive

LEMMA KnowledgeOfCopy ==
  ASSUME Basic, KnowsDrive, NEW d \in Daemons, Turn(d),
         NEW u \in Units, CopyVerified(u, JobsOf[u]),
         Known(daemon[d]) \cup {u} \subseteq Known(daemon'[d])
  PROVE  KnowsDrive'
<1>1. \A e \in Daemons \ {d} : daemon'[e].pc = "off"
  BY Alone DEF Turn, Others
<1>2. JobsOf[u] \in SUBSET UNION {JobsOf[v] : v \in Units}
  OBVIOUS
<1>3. \A v \in Units \ {u} : OnDrive(v)' => OnDrive(v)
  <2>1. \A v \in Units \ {u} : results'[v] = results[v]
    BY <1>2, CopyFacts
  <2>. QED BY <2>1 DEF OnDrive
<1>4. \A v \in Units : OnDrive(v)' => v \in Known(daemon'[d])
  BY <1>3 DEF KnowsDrive, Turn
<1>. QED BY <1>1, <1>4 DEF KnowsDrive

\* A whole ZIP holds all jobs, so the scan finds it.
LEMMA ScanFinds ==
  ASSUME ZipsFit, NEW u \in Units, OnDrive(u)
  PROVE  Recoverable(u) # {}
<1>1. PICK i \in 1 .. Len(results[u]) : results[u][i].state = "whole"
  BY DEF OnDrive
<1>2. i \in Recoverable(u)
  BY <1>1 DEF ZipsFit, Recoverable, InspectResult
<1>. QED BY <1>2

LEMMA KnowledgeScan ==
  ASSUME Basic, ZipsFit, KnowsDrive, NEW d \in Daemons, ScanUnit(d)
  PROVE  KnowsDrive'
<1>. DEFINE u == Min(daemon[d].todo)
            found == ReceiptValid(u) \/ Recoverable(u) # {}
<1>1. Turn(d) /\ u \in Units /\ u \in daemon[d].todo
  <2>1. daemon[d].todo # {}
    BY DaemonFacts DEF ScanUnit, Fits
  <2>. QED BY <2>1, ScanMoves, TodoFacts
<1>2. /\ daemon[d].pc = "scan" /\ results' = results
      /\ daemon'[d].completed = daemon[d].completed \cup (IF found THEN {u} ELSE {})
      /\ daemon'[d].unreceipted = daemon[d].unreceipted
      /\ daemon'[d].todo = IF daemon[d].todo \ {u} = {}
                           THEN Units \ daemon'[d].completed ELSE daemon[d].todo \ {u}
      /\ daemon'[d].pc = IF daemon[d].todo \ {u} = {} THEN "reuse" ELSE "scan"
  BY ScanEffect
<1>3. OnDrive(u) => found
  BY <1>1, ScanFinds
<1>. HIDE DEF u, found
<1>4. \A v \in Units : OnDrive(v) =>
        v \in daemon[d].completed \cup daemon[d].unreceipted \cup daemon[d].todo
  BY <1>2 DEF KnowsDrive, Known
<1>5. \A v \in Units : OnDrive(v) =>
        v \in daemon'[d].completed \cup daemon'[d].unreceipted
                \cup (IF daemon'[d].pc = "scan" THEN daemon'[d].todo ELSE {})
  BY <1>2, <1>3, <1>4
<1>6. \A v \in Units : OnDrive(v)' => OnDrive(v)
  BY <1>2 DEF OnDrive
<1>7. \A e \in Daemons \ {d} : daemon'[e].pc = "off"
  BY <1>1, Alone DEF Turn, Others
<1>8. \A v \in Units : OnDrive(v)' => v \in Known(daemon'[d])
  BY <1>5, <1>6 DEF Known
<1>. QED BY <1>7, <1>8 DEF KnowsDrive

LEMMA KnowledgeStep ==
  ASSUME Basic, ZipsFit, KnowsDrive, [Next]_vars
  PROVE  KnowsDrive'
<1>1. ASSUME NEW d \in Daemons, Work1(d)
      PROVE  KnowsDrive'
  <2>1. Turn(d)
    BY <1>1, WorkBasic
  <2>2. CASE ScanUnit(d)
    BY <2>2, KnowledgeScan
  <2>3. CASE ReuseUnit(d)
    <3>1. Known(daemon[d]) = daemon[d].completed \cup daemon[d].unreceipted
      BY <2>3, ReuseEffect DEF Known
    <3>2. CASE results' = results /\ daemon'[d].pc = "reuse"
      BY <2>1, <2>3, <3>1, <3>2, ReuseEffect, KnowledgeKept DEF Known
    <3>3. CASE /\ daemon'[d].pc = "reused" /\ daemon'[d].todo = daemon[d].todo
               /\ daemon[d].todo # {}
               /\ CopyVerified(Min(daemon[d].todo), JobsOf[Min(daemon[d].todo)])
      <4>1. Min(daemon[d].todo) \in Units
        BY <3>3, TodoFacts
      <4>2. Known(daemon[d]) \cup {Min(daemon[d].todo)} \subseteq Known(daemon'[d])
        BY <2>3, <3>1, <3>3, ReuseEffect DEF Known
      <4>. QED BY <2>1, <3>3, <4>1, <4>2, KnowledgeOfCopy
    <3>. QED BY <2>3, <3>2, <3>3, ReuseEffect
  <2>4. CASE Publish(d)
    <3>1. Known(daemon[d]) \cup {daemon[d].unit} \subseteq Known(daemon'[d])
      BY <2>4, PublishEffect DEF Known
    <3>. QED BY <2>1, <2>4, <3>1, PublishEffect, KnowledgeOfCopy
  <2>5. CASE ReuseRemember(d)
    BY <2>1, <2>5, RememberEffect, KnowledgeKept DEF Known
  <2>6. CASE ReuseFails(d)
    BY <2>1, <2>6, ReuseFailsEffect, KnowledgeKept DEF Known
  <2>7. CASE EndScan(d)
    BY <2>1, <2>7, EndScanEffect, KnowledgeKept DEF Known
  <2>8. CASE StageStep(d)
    <3>1. Computes(d) /\ results' = results
      BY <2>8, StageMoves
    <3>. QED BY <2>1, <3>1, KnowledgeKept DEF Known, Computes
  <2>9. CASE WriteReceipt(d)
    BY <2>1, <2>9, ReceiptEffect, KnowledgeKept DEF Known
  <2>10. CASE AnswerProcess(d)
    BY <2>1, <2>10, AnswerEffect, KnowledgeKept DEF Known
  <2>11. CASE FailUnit(d)
    BY <2>1, <2>11, FailEffect, KnowledgeKept DEF Known
  <2>. QED BY <1>1, <2>2, <2>3, <2>4, <2>5, <2>6, <2>7, <2>8, <2>9, <2>10, <2>11 DEF Work1
<1>2. ASSUME results' = results,
             \A e \in Daemons : daemon'[e] = daemon[e] \/ daemon'[e].pc = "off"
      PROVE  KnowsDrive'
  <2>1. \A v \in Units : OnDrive(v)' => OnDrive(v)
    BY <1>2 DEF OnDrive
  <2>. QED BY <1>2, <2>1 DEF KnowsDrive
<1>3. ASSUME NEW d \in Daemons, Exit(d)
      PROVE  KnowsDrive'
  BY <1>2, <1>3, ExitMoves, StopEffect DEF Exit, Others, drive
<1>4. ASSUME NEW d \in Daemons, StartCell(d)
      PROVE  KnowsDrive'
  <2>1. \A e \in Daemons \ {d} : daemon'[e].pc = "off"
    BY <1>4, StartMoves, UnitQueueAssumption DEF Basic, LockHeld
  <2>2. Units \subseteq Known(daemon'[d])
    BY <1>4, StartMoves DEF Known
  <2>. QED BY <2>1, <2>2 DEF KnowsDrive
<1>5. CASE ChooseUnit
  <2>1. CASE UNCHANGED <<drive, attempts, daemon>>
    BY <1>2, <2>1 DEF drive
  <2>2. ASSUME NEW d \in Daemons, NEW u \in Units, Picks(d, u) PROVE KnowsDrive'
    <3>1. \A e \in Daemons \ {d} : daemon'[e].pc = "off"
      BY <2>2, Alone DEF Picks, Others
    <3>2. \A v \in Units : OnDrive(v)' => OnDrive(v)
      BY <2>2 DEF Picks, drive, OnDrive
    <3>3. Known(daemon[d]) \subseteq Known(daemon'[d])
      BY <2>2 DEF Picks, Known
    <3>4. daemon[d].pc # "off"
      BY <2>2 DEF Picks
    <3>. QED BY <3>1, <3>2, <3>3, <3>4 DEF KnowsDrive
  <2>3. ASSUME NEW d \in Daemons, Stopped(d), UNCHANGED <<drive, attempts>> PROVE KnowsDrive'
    BY <1>2, <2>3, StopEffect DEF Others, drive
  <2>. QED BY <1>5, <2>1, <2>2, <2>3, ChooseMoves
<1>6. CASE Answered \/ \E u \in Units : Upload(u)
  BY <1>2, <1>6, AnsweredMoves, UploadMoves
<1>7. CASE Deadline
  BY <1>2, <1>7, DeadlineMoves, StopEffect DEF Others, drive
<1>8. CASE KernelRestart
  <2>1. results' = results /\ \A e \in Daemons : Known(daemon'[e]) = Known(daemon[e])
                           /\ daemon'[e].pc = daemon[e].pc
    <3>1. results' = results
      BY <1>8, RestartMoves DEF drive
    <3>2. ASSUME NEW e \in Daemons
          PROVE  /\ daemon'[e].pc = daemon[e].pc /\ daemon'[e].unit = daemon[e].unit
                 /\ daemon'[e].todo = daemon[e].todo
                 /\ daemon'[e].completed = daemon[e].completed
                 /\ daemon'[e].unreceipted = daemon[e].unreceipted
      BY <1>8, RestartMoves, DaemonFacts DEF Daemon
    <3>. QED BY <3>1, <3>2 DEF Known
  <2>2. \A v \in Units : OnDrive(v)' => OnDrive(v)
    BY <2>1 DEF OnDrive
  <2>. QED BY <2>1, <2>2 DEF KnowsDrive
<1>9. CASE MachineLost
  BY <1>9, LossMoves DEF KnowsDrive, Off
<1>10. ASSUME NEW u \in Units, DriveFault(u)
       PROVE  KnowsDrive'
  <2>1. \A v \in Units : OnDrive(v)' => OnDrive(v)
    BY <1>10, DriveMoves DEF OnDrive
  <2>2. daemon' = daemon
    BY <1>10, DriveMoves
  <2>. QED BY <2>1, <2>2 DEF KnowsDrive
<1>11. CASE UNCHANGED vars
  BY <1>2, <1>11 DEF vars, drive
<1>. QED
  BY <1>1, <1>3, <1>4, <1>5, <1>6, <1>7, <1>8, <1>9, <1>10, <1>11, NextCases

-----------------------------------------------------------------------------
LEMMA UnitInvInit == Init => UnitInv
<1>. SUFFICES ASSUME Init PROVE UnitInv
  OBVIOUS
<1>1. Off \in Daemon /\ Fits(Off) /\ Off.pc = "off"
  BY StageFacts, UnitQueueAssumption DEF Off, Daemon, Fits, Pcs
<1>2. \A d \in Daemons : daemon[d] = Off
  BY DEF Init
<1>3. /\ results \in [Units -> Seq(Zips)] /\ receipt \in [Units -> Nat]
      /\ \A u \in Units : /\ results[u] \in Seq(Zips) /\ Len(results[u]) <= MaxZips
                          /\ receipt[u] \in 0 .. Len(results[u])
  BY UnitQueueAssumption DEF Init
<1>4. notebook \in Notebook /\ CellFits
  BY Blank, UnitQueueAssumption DEF Init, NewKernel, Notebook, CellFits
<1>5. daemon \in [Daemons -> Daemon] /\ faults \in 0 .. MaxFaults
  BY <1>1, UnitQueueAssumption DEF Init
<1>6. Basic
  BY <1>1, <1>2, <1>3, <1>4, <1>5 DEF Init, Basic, Typed, TypeOK, Shape, LockHeld
<1>7. ZipsFit
  BY <1>1, <1>2 DEF Init, ZipsFit
<1>. QED BY <1>1, <1>2, <1>6, <1>7 DEF UnitInv, AttemptDirectoryStays, KnowsDrive

LEMMA UnitInvHolds == Spec => []UnitInv
<1>1. UnitInv /\ [Next]_vars => UnitInv'
  BY BasicStep, ZipsStep, AttemptsStep, KnowledgeStep DEF UnitInv
<1>. QED BY <1>1, UnitInvInit, PTL DEF Spec

\* unit_queue.py:183, ownership.py:1, orchestrator.py:279.  For any corpus and
\* any number of coordinators, losses and restarts: types, whole results under
\* receipts, undisturbed attempts, and one model on the GPU.
THEOREM UnitsStaySafe == Spec => []UnitSafety
<1>1. UnitInv => UnitSafety
  <2>1. SUFFICES ASSUME UnitInv PROVE UnitSafety
    OBVIOUS
  <2>2. ReceiptNamesWholeUnit
    <3>1. \A u \in Units : receipt[u] # 0 => receipt[u] \in 1 .. Len(results[u])
      <4>1. \A u \in Units : receipt[u] \in 0 .. Len(results[u]) /\ Len(results[u]) \in Nat
        BY <2>1 DEF UnitInv, Basic, Typed, TypeOK
      <4>. QED BY <4>1
    <3>. QED BY <2>1, <3>1 DEF UnitInv, ZipsFit, ReceiptNamesWholeUnit
  <2>3. OneModelOnGpu
    <3>1. SUFFICES ASSUME NEW d \in Daemons, NEW e \in Daemons, daemon[d].paddle
                   PROVE  daemon[e].vlm # "gpu"
      BY DEF OneModelOnGpu
    <3>2. Basic /\ daemon[d].vlm # "gpu" /\ daemon[d].pc = "run"
      BY <2>1, <3>1, DaemonFacts DEF UnitInv, Fits
    <3>3. CASE e # d
      <4>1. daemon[e] = Off
        BY <3>2, <3>3, Alone, DaemonFacts DEF Fits
      <4>. QED BY <4>1 DEF Off
    <3>. QED BY <3>2, <3>3
  <2>. QED BY <2>1, <2>2, <2>3 DEF UnitInv, Basic, Typed, UnitSafety
<1>. QED BY <1>1, UnitInvHolds, PTL

-----------------------------------------------------------------------------
(* Which steps begin a unit.                                               *)

\* A coordinator at work keeps its unit or leaves it.
LEMMA UnitLeft ==
  ASSUME Basic, ZipsFit, NEW d \in Daemons, Work1(d)
  PROVE  daemon'[d].unit \in {0, daemon[d].unit}
<1>1. daemon[d] \in Daemon /\ daemon \in [Daemons -> Daemon]
  BY DaemonFacts DEF Basic, Typed, TypeOK
<1>2. CASE ScanUnit(d)
  BY <1>1, <1>2 DEF ScanUnit, Daemon
<1>3. CASE ReuseUnit(d)
  BY <1>1, <1>3 DEF ReuseUnit, Daemon
<1>4. CASE ReuseRemember(d)
  BY <1>1, <1>4 DEF ReuseRemember, Daemon
<1>5. CASE ReuseFails(d)
  BY <1>1, <1>5 DEF ReuseFails, Daemon
<1>6. CASE EndScan(d)
  BY <1>1, <1>6 DEF EndScan, Daemon
<1>7. CASE StageStep(d)
  BY <1>7, StageMoves DEF Computes
<1>8. CASE Publish(d) \/ WriteReceipt(d)
  BY <1>8, PublishEffect, ReceiptEffect
<1>9. CASE AnswerProcess(d)
  BY <1>1, <1>9 DEF AnswerProcess, Daemon
<1>10. CASE FailUnit(d)
  <2>. DEFINE p == ClosePool(daemon[d])
  <2>1. p \in Daemon
    BY <1>1 DEF ClosePool, Daemon
  <2>2. daemon' = [daemon EXCEPT ![d] =
           [p EXCEPT !.pc = "idle", !.reply = "error", !.unit = 0, !.step = 0,
                     !.blocked = {}, !.merged = {},
                     !.unreceipted = @ \cup (IF daemon[d].pc = "saved"
                                             THEN {daemon[d].unit} ELSE {})]]
    BY <1>10 DEF FailUnit
  <2>. HIDE DEF p
  <2>. QED BY <1>1, <2>1, <2>2 DEF Daemon
<1>. QED BY <1>2, <1>3, <1>4, <1>5, <1>6, <1>7, <1>8, <1>9, <1>10 DEF Work1

\* Only the choice of the notebook cell gives a coordinator a unit.
LEMMA OnlyPicksBegin ==
  ASSUME Basic, ZipsFit, Next, NEW d \in Daemons, NEW u \in Units,
         daemon[d].unit # u, daemon'[d].unit = u
  PROVE  Picks(d, u)
<1>1. u # 0
  BY UnitQueueAssumption DEF Units
<1>2. ASSUME NEW e \in Daemons, Work1(e)
      PROVE  FALSE
  <2>1. daemon'[d].unit \in {0, daemon[d].unit}
    BY <1>2, UnitLeft, WorkBasic DEF Turn, Others
  <2>. QED BY <1>1, <2>1
<1>3. ASSUME NEW e \in Daemons, Stopped(e)
      PROVE  FALSE
  BY <1>1, <1>3, StopEffect DEF Others
<1>4. daemon' # daemon
  OBVIOUS
<1>5. ASSUME NEW e \in Daemons, Exit(e)
      PROVE  FALSE
  BY <1>3, <1>5, ExitMoves
<1>6. ASSUME NEW e \in Daemons, StartCell(e)
      PROVE  FALSE
  <2>1. daemon[e] \in Daemon /\ daemon \in [Daemons -> Daemon]
    BY DaemonFacts DEF Basic, Typed, TypeOK
  <2>2. daemon'[e].unit = daemon[e].unit
    BY <1>6, <2>1 DEF StartCell, Daemon
  <2>. QED BY <1>6, <2>2, StartMoves DEF Others
<1>7. CASE ChooseUnit
  <2>1. ASSUME NEW e \in Daemons, NEW v \in Units, Picks(e, v)
        PROVE  Picks(d, u)
    BY <2>1 DEF Picks, Others
  <2>. QED BY <1>3, <1>4, <1>7, <2>1, ChooseMoves
<1>8. ~Answered /\ ~\E v \in Units : DriveFault(v) \/ Upload(v)
  BY <1>4, AnsweredMoves, DriveMoves, UploadMoves
<1>9. ~Deadline
  BY <1>3, DeadlineMoves
<1>10. ~KernelRestart
  <2>1. daemon[d] \in Daemon
    BY DaemonFacts
  <2>2. [daemon[d] EXCEPT !.open = FALSE].unit = daemon[d].unit
    BY <2>1 DEF Daemon
  <2>. QED BY <2>2, RestartMoves
<1>11. ~MachineLost
  BY <1>1, LossMoves DEF Off
<1>. QED BY <1>2, <1>5, <1>6, <1>7, <1>8, <1>9, <1>10, <1>11, NextCases

\* unit_store.py:118.  Nothing is computed twice: whatever was lost before, a
\* unit is begun only when the scan found no whole result of it on Drive, and
\* none was copied since, except by a copy whose receipt failed.
THEOREM NothingIsRecomputed == Spec => SavedIsNotRecomputed
<1>. DEFINE Begun == \A d \in Daemons, u \in Units :
       (daemon[d].unit # u /\ daemon'[d].unit = u) => ~OnDrive(u) \/ u \in daemon[d].unreceipted
<1>1. UnitInv /\ [Next]_vars => [Begun]_vars
  <2>1. SUFFICES ASSUME UnitInv, Next, NEW d \in Daemons, NEW u \in Units,
                        daemon[d].unit # u, daemon'[d].unit = u
                 PROVE  ~OnDrive(u) \/ u \in daemon[d].unreceipted
    OBVIOUS
  <2>2. Picks(d, u)
    BY <2>1, OnlyPicksBegin DEF UnitInv
  <2>3. daemon[d].pc = "idle" /\ u \notin daemon[d].completed
    BY <2>2 DEF Picks
  <2>4. OnDrive(u) => u \in Known(daemon[d])
    BY <2>1, <2>3 DEF UnitInv, KnowsDrive
  <2>. QED BY <2>3, <2>4 DEF Known
<1>2. SavedIsNotRecomputed <=> [][Begun]_vars
  BY DEF SavedIsNotRecomputed
<1>. HIDE DEF Begun
<1>. QED BY <1>1, <1>2, UnitInvHolds, PTL DEF Spec
=============================================================================
