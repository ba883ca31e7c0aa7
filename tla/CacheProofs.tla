---------------------------- MODULE CacheProofs ----------------------------
(***************************************************************************)
(* Proofs about the two halves of the proxy's cache: CacheScan, for any     *)
(* number of scan requests, and ProxyCache, for any keys, requests, lengths *)
(* of contents and versions; both for every plan of faults and crashes.     *)
(***************************************************************************)
EXTENDS CacheScan, ProxyCache, TLAPS

-----------------------------------------------------------------------------
(* CacheScan.                                                               *)

\* The types that the proofs use of the state.
Typed ==
  /\ row \in Rows \cup {Null} /\ nextId \in Nat
  /\ queue \in [Jobs -> {"none", "queued", "processing", "completed", "failed"}]
  /\ scans \in SUBSET Jobs /\ reports \in SUBSET Jobs /\ lost \in SUBSET Jobs
  /\ place \in [Jobs -> {"new"} \cup Handler \cup Goroutine \cup Ended]
  /\ target \in [Jobs -> Nat]
  /\ verdict \in [Jobs -> {"none", "error", "clean", "critical"}]

\* Ids are given once: a row that comes back is nobody's target.
IdsAreFresh ==
  /\ row # Null => row.id <= nextId
  /\ \A j \in Jobs : target[j] <= nextId

\* What a job has written, and knows, by its place in the code.
Stage(j) ==
  /\ place[j] = "new" => j \notin lost
  /\ place[j] \in {"new", "checked"} => queue[j] = "none"
  /\ queue[j] # "none" => Exists(j)
  /\ queue[j] = "completed" => place[j] = "done"
  /\ place[j] \in {"inserting", "reporting", "updating"} => verdict[j] \in {"clean", "critical"}
  /\ place[j] = "reporting" => j \in scans \cup lost
  /\ place[j] \in {"updating", "finishing"} => j \in reports \cup lost
Stages == \A j \in Jobs : Stage(j)

Basis == Typed /\ IdsAreFresh /\ Stages

\* A row that is being scanned has a goroutine that has yet to write it: one
\* that has written it is no reason to refuse a scan.
Watches(j) == place[j] \in Goroutine \ {"finishing"} /\ target[j] = row.id
MarkedIsWatched ==
  row # Null /\ row.status = "scanning" =>
    \/ \E j \in Jobs : Watches(j)
    \/ Crashed
    \/ \E j \in lost : target[j] = row.id

\* The job whose report the row names is through with both.
ResultsAreFinal ==
  row # Null /\ row.results # Null =>
    /\ row.results \in reports \cup lost
    /\ place[row.results] \in {"finishing", "done", "dead"}
    /\ row.quarantined <=> verdict[row.results] = "critical"

\* A job that is through with the row has left a verdict in it, if it was there.
VerdictsAreLeft ==
  \A j \in Jobs \ lost :
    (place[j] = "finishing" \/ queue[j] = "completed") /\ Exists(j) => row.results # Null

-----------------------------------------------------------------------------
(* Types, ids and stages. *)

Step(j) ==
  \/ Request(j) \/ Enqueue(j) \/ Mark(j) \/ Process(j) \/ ScanWithAll(j) \/ FailQueue(j)
  \/ FailRow(j) \/ InsertScan(j) \/ InsertReport(j) \/ UpdateRow(j) \/ FinishQueue(j)

\* The ways in which the row changes.
SameRow  == row' = row /\ nextId' = nextId
RowComes == row = Null /\ row' = NewRow(nextId + 1) /\ nextId' = nextId + 1
RowMoves(j, q) ==
  /\ row # Null /\ row' # Null /\ row.id = target[j]
  /\ row' \in Rows /\ row'.id = row.id /\ row'.quarantined = row.quarantined
  /\ row'.results = row.results /\ row'.status = q /\ nextId' = nextId
RowIsScanned(j) ==
  /\ row # Null /\ row' # Null /\ row.id = target[j]
  /\ row' \in Rows /\ row'.id = row.id /\ row'.status = "completed" /\ row'.results = j
  /\ row'.quarantined <=> verdict[j] = "critical"
  /\ nextId' = nextId

\* Which statement of a job changes the row, and how.
LEMMA RowSteps ==
  ASSUME Typed, NEW j \in Jobs, Step(j)
  PROVE  \/ SameRow
         \/ Mark(j) /\ RowMoves(j, "scanning")
         \/ FailRow(j) /\ RowMoves(j, "failed")
         \/ UpdateRow(j) /\ RowIsScanned(j)
<1> USE CacheScanAssumption DEF CacheScanAssumption, SameRow
<1>1. CASE Mark(j)
  BY <1>1 DEF Mark, RowMoves, Attempt, RowGets, WithStatus, Exists, Typed, Rows
<1>2. CASE FailRow(j)
  BY <1>2 DEF FailRow, RowMoves, Attempt, RowGets, WithStatus, Exists, Typed, Rows
<1>3. CASE UpdateRow(j)
  <2> DEFINE new == [id |-> row.id, status |-> "completed", results |-> j,
                     quarantined |-> verdict[j] = "critical"]
  <2>1. SameRow \/ (Exists(j) /\ row' = new /\ nextId' = nextId)
    BY <1>3 DEF UpdateRow, Attempt, RowGets
  <2>2. new.quarantined <=> verdict[j] = "critical"
    OBVIOUS
  <2>3. Exists(j) => new \in Rows /\ new.id = row.id /\ new.status = "completed" /\ new.results = j
    BY DEF Exists, Typed, Rows
  <2> QED
    BY <1>3, <2>1, <2>2, <2>3 DEF RowIsScanned, Exists
<1>4. CASE Request(j) BY <1>4 DEF Request, tables
<1>5. CASE Enqueue(j) BY <1>5 DEF Enqueue
<1>6. CASE Process(j) BY <1>6 DEF Process
<1>7. CASE ScanWithAll(j) BY <1>7 DEF ScanWithAll, tables
<1>8. CASE FailQueue(j) BY <1>8 DEF FailQueue
<1>9. CASE InsertScan(j) BY <1>9 DEF InsertScan
<1>10. CASE InsertReport(j) BY <1>10 DEF InsertReport
<1>11. CASE FinishQueue(j) BY <1>11 DEF FinishQueue
<1> QED BY <1>1, <1>2, <1>3, <1>4, <1>5, <1>6, <1>7, <1>8, <1>9, <1>10, <1>11 DEF Step

\* A job's step leaves what the others have, and takes no record away.
Stays(q) ==
  /\ place'[q] = place[q] /\ queue'[q] = queue[q] /\ target'[q] = target[q]
  /\ verdict'[q] = verdict[q] /\ (q \in lost' <=> q \in lost)
Grows == scans \subseteq scans' /\ reports \subseteq reports' /\ lost \subseteq lost'

LEMMA OthersStay ==
  ASSUME Typed, NEW j \in Jobs, Step(j)
  PROVE  Grows /\ \A q \in Jobs \ {j} : Stays(q)
<1> USE DEF Typed, Stays, Grows, Go
<1>1. CASE Mark(j) BY <1>1 DEF Mark, Attempt
<1>2. CASE FailRow(j) BY <1>2 DEF FailRow, Attempt
<1>3. CASE UpdateRow(j) BY <1>3 DEF UpdateRow, Attempt
<1>4. CASE Request(j) BY <1>4 DEF Request, tables
<1>5. CASE Enqueue(j)
  <2>1. queue' = [queue EXCEPT ![j] = "queued"] \/ queue' = queue BY <1>5 DEF Enqueue
  <2>2. /\ place' = [place EXCEPT ![j] = "queued"] \/ place' = [place EXCEPT ![j] = "refused"]
        /\ scans' = scans /\ reports' = reports /\ lost' = lost
        /\ target' = target /\ verdict' = verdict
    BY <1>5 DEF Enqueue
  <2> QED BY <2>1, <2>2
<1>6. CASE Process(j) BY <1>6 DEF Process, Attempt, QueueGets
<1>7. CASE ScanWithAll(j) BY <1>7 DEF ScanWithAll, tables
<1>8. CASE FailQueue(j) BY <1>8 DEF FailQueue, Attempt, QueueGets
<1>9. CASE InsertScan(j) BY <1>9 DEF InsertScan, Attempt
<1>10. CASE InsertReport(j) BY <1>10 DEF InsertReport, Attempt
<1>11. CASE FinishQueue(j) BY <1>11 DEF FinishQueue, Attempt, QueueGets
<1> QED BY <1>1, <1>2, <1>3, <1>4, <1>5, <1>6, <1>7, <1>8, <1>9, <1>10, <1>11 DEF Step

LEMMA TypedSteps == Typed /\ [ScanNext]_scanVars => Typed'
<1> USE CacheScanAssumption DEF CacheScanAssumption
<1> SUFFICES ASSUME Typed, [ScanNext]_scanVars PROVE Typed'
  OBVIOUS
<1>1. ASSUME NEW j \in Jobs, Step(j) PROVE Typed'
  <2>1. row' \in Rows \cup {Null} /\ nextId' \in Nat
    <3>1. SameRow => row' \in Rows \cup {Null} /\ nextId' \in Nat
      BY DEF SameRow, Typed
    <3>2. RowMoves(j, "scanning") \/ RowMoves(j, "failed") => row' \in Rows /\ nextId' \in Nat
      BY DEF RowMoves, Typed
    <3>3. RowIsScanned(j) => row' \in Rows /\ nextId' \in Nat
      BY DEF RowIsScanned, Typed
    <3> QED BY <1>1, <3>1, <3>2, <3>3, RowSteps
  <2>2. /\ queue' \in [Jobs -> {"none", "queued", "processing", "completed", "failed"}]
        /\ scans' \in SUBSET Jobs /\ reports' \in SUBSET Jobs /\ lost' \in SUBSET Jobs
        /\ place' \in [Jobs -> {"new"} \cup Handler \cup Goroutine \cup Ended]
        /\ target' \in [Jobs -> Nat]
        /\ verdict' \in [Jobs -> {"none", "error", "clean", "critical"}]
    <3> USE DEF Typed, Go, Handler, Goroutine, Ended
    <3>1. CASE Mark(j) BY <3>1 DEF Mark, Attempt
    <3>2. CASE FailRow(j) BY <3>2 DEF FailRow, Attempt
    <3>3. CASE UpdateRow(j) BY <3>3 DEF UpdateRow, Attempt
    <3>4. CASE Request(j) BY <3>4 DEF Request, tables, Scannable, Rows
    <3>5. CASE Enqueue(j)
      <4>1. queue' = [queue EXCEPT ![j] = "queued"] \/ queue' = queue BY <3>5 DEF Enqueue
      <4>2. /\ place' = [place EXCEPT ![j] = "queued"] \/ place' = [place EXCEPT ![j] = "refused"]
            /\ scans' = scans /\ reports' = reports /\ lost' = lost
            /\ target' = target /\ verdict' = verdict
        BY <3>5 DEF Enqueue
      <4> QED BY <4>1, <4>2
    <3>6. CASE Process(j) BY <3>6 DEF Process, Attempt, QueueGets
    <3>7. CASE ScanWithAll(j) BY <3>7 DEF ScanWithAll, tables
    <3>8. CASE FailQueue(j) BY <3>8 DEF FailQueue, Attempt, QueueGets
    <3>9. CASE InsertScan(j) BY <3>9 DEF InsertScan, Attempt
    <3>10. CASE InsertReport(j) BY <3>10 DEF InsertReport, Attempt
    <3>11. CASE FinishQueue(j) BY <3>11 DEF FinishQueue, Attempt, QueueGets
    <3> QED BY <1>1, <3>1, <3>2, <3>3, <3>4, <3>5, <3>6, <3>7, <3>8, <3>9, <3>10, <3>11 DEF Step
  <2> QED BY <2>1, <2>2 DEF Typed
<1>2. CASE Persist BY <1>2 DEF Persist, Typed, NewRow, Rows
<1>3. CASE Evict BY <1>3 DEF Evict, Typed
<1>4. CASE ScanCrash BY <1>4 DEF ScanCrash, Typed, tables, Handler, Goroutine, Ended
<1>5. CASE UNCHANGED scanVars BY <1>5 DEF scanVars, Typed
<1> QED BY <1>1, <1>2, <1>3, <1>4, <1>5 DEF ScanNext, Scanning, Step

\* Where a row is there after a job's step it was there before, under its id.
LEMMA RowStays ==
  ASSUME Typed, NEW j \in Jobs, Step(j)
  PROVE  /\ nextId' = nextId
         /\ row = Null <=> row' = Null
         /\ row # Null => row'.id = row.id
         /\ \A q \in Jobs \ {j} : Exists(q)' <=> Exists(q)
<1>1. CASE SameRow BY <1>1, OthersStay DEF SameRow, Exists, Stays, Grows
<1>2. CASE RowMoves(j, "scanning") \/ RowMoves(j, "failed")
  BY <1>2, OthersStay DEF RowMoves, Exists, Stays, Grows
<1>3. CASE RowIsScanned(j) BY <1>3, OthersStay DEF RowIsScanned, Exists, Stays, Grows
<1> QED BY <1>1, <1>2, <1>3, RowSteps

LEMMA IdSteps == Typed /\ IdsAreFresh /\ [ScanNext]_scanVars => IdsAreFresh'
<1> USE CacheScanAssumption DEF CacheScanAssumption
<1> SUFFICES ASSUME Typed, IdsAreFresh, [ScanNext]_scanVars PROVE IdsAreFresh'
  OBVIOUS
<1>1. ASSUME NEW j \in Jobs, Step(j) PROVE IdsAreFresh'
  <2>1. target'[j] <= nextId
    <3>1. CASE Request(j) BY <3>1 DEF Request, Scannable, IdsAreFresh, Typed
    <3>2. CASE ~Request(j)
      <4>1. target' = target
        BY <1>1, <3>2 DEF Step, Enqueue, Mark, Process, ScanWithAll, FailQueue, FailRow, InsertScan,
                          InsertReport, UpdateRow, FinishQueue
      <4> QED BY <4>1 DEF IdsAreFresh
    <3> QED BY <3>1, <3>2
  <2> QED BY <1>1, <2>1, RowStays, OthersStay DEF IdsAreFresh, Stays
<1>2. CASE Persist BY <1>2 DEF Persist, Typed, IdsAreFresh, NewRow
<1>3. CASE Evict BY <1>3 DEF Evict, IdsAreFresh
<1>4. CASE ScanCrash BY <1>4 DEF ScanCrash, IdsAreFresh, tables
<1>5. CASE UNCHANGED scanVars BY <1>5 DEF scanVars, IdsAreFresh
<1> QED BY <1>1, <1>2, <1>3, <1>4, <1>5 DEF ScanNext, Scanning, Step

LEMMA StageSteps == Basis /\ [ScanNext]_scanVars => Stages'
<1> USE CacheScanAssumption DEF CacheScanAssumption
<1> SUFFICES ASSUME Basis, [ScanNext]_scanVars PROVE Stages'
  OBVIOUS
<1> USE DEF Basis
<1>1. ASSUME NEW j \in Jobs, Step(j) PROVE Stages'
  <2>1. ASSUME NEW q \in Jobs \ {j} PROVE Stage(q)'
    BY <1>1, RowStays, OthersStay DEF Stages, Stage, Stays, Grows
  <2>2. Stage(j)'
    <3> USE DEF Typed, Go
    <3>e. target' = target => (Exists(j)' <=> Exists(j))
      BY <1>1, RowStays DEF Exists
    <3>s. Stage(j) BY DEF Stages
    <3>1. CASE Mark(j) BY <3>1, <3>e, <3>s DEF Mark, Attempt, Stage
    <3>2. CASE FailRow(j) BY <3>2, <3>e, <3>s DEF FailRow, Attempt, Stage
    <3>3. CASE UpdateRow(j) BY <3>3, <3>e, <3>s DEF UpdateRow, Attempt, Stage
    <3>4. CASE Request(j) BY <3>4, <3>s DEF Request, tables, Stage
    <3>5. CASE Enqueue(j)
      <4>1. \/ Exists(j) /\ place' = [place EXCEPT ![j] = "queued"] /\ queue' = [queue EXCEPT ![j] = "queued"]
            \/ place' = [place EXCEPT ![j] = "refused"] /\ queue' = queue
        BY <3>5 DEF Enqueue
      <4>2. target' = target /\ lost' = lost BY <3>5 DEF Enqueue
      <4> QED BY <4>1, <4>2, <3>5, <3>e, <3>s DEF Enqueue, Stage
    <3>6. CASE Process(j) BY <3>6, <3>e, <3>s DEF Process, Attempt, QueueGets, Stage
    <3>7. CASE ScanWithAll(j) BY <3>7, <3>e, <3>s DEF ScanWithAll, tables, Stage
    <3>8. CASE FailQueue(j) BY <3>8, <3>e, <3>s DEF FailQueue, Attempt, QueueGets, Stage
    <3>9. CASE InsertScan(j) BY <3>9, <3>e, <3>s DEF InsertScan, Attempt, Stage
    <3>10. CASE InsertReport(j) BY <3>10, <3>e, <3>s DEF InsertReport, Attempt, Stage
    <3>11. CASE FinishQueue(j) BY <3>11, <3>e, <3>s DEF FinishQueue, Attempt, QueueGets, Stage
    <3> QED BY <1>1, <3>1, <3>2, <3>3, <3>4, <3>5, <3>6, <3>7, <3>8, <3>9, <3>10, <3>11 DEF Step
  <2> QED BY <2>1, <2>2 DEF Stages
<1>2. CASE Persist
  <2>1. \A q \in Jobs : Exists(q) => Exists(q)'
    BY <1>2 DEF Persist, Exists
  <2> QED BY <1>2, <2>1 DEF Persist, Stages, Stage
<1>3. CASE Evict
  <2>1. \A q \in Jobs : queue'[q] = "none" \/ queue[q] = "none"
    BY <1>3 DEF Evict, Stages, Stage, Exists, Typed
  <2>2. \A q \in Jobs : queue'[q] = "none"
    BY <1>3, <2>1 DEF Evict, Typed
  <2> QED BY <1>3, <2>2 DEF Evict, Stages, Stage
<1>4. CASE ScanCrash
  BY <1>4 DEF ScanCrash, Stages, Stage, tables, Exists, Typed, Handler, Goroutine
<1>5. CASE UNCHANGED scanVars BY <1>5 DEF scanVars, Stages, Stage, Exists
<1> QED BY <1>1, <1>2, <1>3, <1>4, <1>5 DEF ScanNext, Scanning, Step

LEMMA BasisHolds == ScanSpec => []Basis
<1>1. ScanInit => Basis
  BY CacheScanAssumption DEF CacheScanAssumption, ScanInit, Basis, Typed, IdsAreFresh, Stages, Stage,
                             Exists, Handler, Goroutine, Ended
<1>2. Basis /\ [ScanNext]_scanVars => Basis'
  BY TypedSteps, IdSteps, StageSteps DEF Basis
<1> QED BY <1>1, <1>2, PTL DEF ScanSpec

\* Type correctness of the scans: ids are given once, counters never go below
\* zero, and a report is stored only behind the row of its scan, as its foreign
\* key demands.
THEOREM ScanTypes == ScanSpec => []ScanTypeOK
<1> DEFINE Counters == [fills: Nat, evictions: Nat, faults: Nat, crashes: Nat]
           Rest == reports \in SUBSET scans /\ budget \in Counters
<1> USE CacheScanAssumption DEF CacheScanAssumption
<1>1. ScanInit => Rest
  BY DEF ScanInit
<1>2. Typed /\ Rest /\ [ScanNext]_scanVars => Rest'
  <2> SUFFICES ASSUME Typed, Rest, [ScanNext]_scanVars PROVE Rest'
    OBVIOUS
  <2>1. ASSUME NEW j \in Jobs, Step(j) PROVE (reports \in SUBSET scans)'
    BY <2>1, OthersStay DEF Step, Request, Enqueue, Mark, Process, ScanWithAll, FailQueue, FailRow,
       InsertScan, InsertReport, UpdateRow, FinishQueue, Attempt, tables, Grows
  <2>2. ASSUME NEW j \in Jobs, Step(j) PROVE budget' \in Counters
    <3>1. SpendScan("faults") => budget' \in Counters
      BY DEF SpendScan
    <3>2. Enqueue(j) => budget' \in Counters
      BY DEF Enqueue
    <3> QED
      BY <2>2, <3>1, <3>2 DEF Step, Request, Mark, Process, ScanWithAll, FailQueue, FailRow,
         InsertScan, InsertReport, UpdateRow, FinishQueue, Attempt
  <2>3. CASE Persist BY <2>3 DEF Persist, SpendScan
  <2>4. CASE Evict BY <2>4 DEF Evict, SpendScan
  <2>5. CASE ScanCrash BY <2>5 DEF ScanCrash, SpendScan, tables
  <2>6. CASE UNCHANGED scanVars BY <2>6 DEF scanVars
  <2> QED BY <2>1, <2>2, <2>3, <2>4, <2>5, <2>6 DEF ScanNext, Scanning, Step
<1>3. Basis /\ Rest => ScanTypeOK
  BY DEF Basis, Typed, IdsAreFresh, ScanTypeOK
<1>4. Basis => Typed
  BY DEF Basis
<1> HIDE DEF Rest
<1> QED BY <1>1, <1>2, <1>3, <1>4, BasisHolds, PTL DEF ScanSpec

-----------------------------------------------------------------------------
(* A row refuses scans only while it is being scanned. *)

LEMMA WatchSteps == Basis /\ MarkedIsWatched /\ [ScanNext]_scanVars => MarkedIsWatched'
<1> USE CacheScanAssumption DEF CacheScanAssumption
<1> SUFFICES ASSUME Basis, MarkedIsWatched, [ScanNext]_scanVars, row' # Null, row'.status = "scanning"
             PROVE  \/ \E j \in Jobs : Watches(j)'
                    \/ Crashed'
                    \/ \E j \in lost' : target'[j] = row'.id
  BY DEF MarkedIsWatched
<1> USE DEF Basis
<1>1. ASSUME NEW j \in Jobs, Step(j)
      PROVE  \/ \E q \in Jobs : Watches(q)'
             \/ Crashed'
             \/ \E q \in lost' : target'[q] = row'.id
  <2> USE <1>1
  <2>1. CASE Mark(j) /\ RowMoves(j, "scanning")
    <3>1. Watches(j)' BY <2>1 DEF Mark, Go, RowMoves, Watches, Typed, Goroutine
    <3> QED BY <3>1
  <2>2. CASE SameRow
    <3>1. CASE Crashed
      <4>1. PICK q \in Jobs : place[q] = "dead" BY <3>1 DEF Crashed
      <4>2. place[j] # "dead"
        BY DEF Step, Request, Enqueue, Mark, Process, ScanWithAll, FailQueue, FailRow, InsertScan,
               InsertReport, UpdateRow, FinishQueue, Go
      <4> QED BY <4>1, <4>2, OthersStay DEF Crashed, Stays
    <3>2. ASSUME NEW q \in lost, target[q] = row.id PROVE \E x \in lost' : target'[x] = row'.id
      <4>1. place[q] # "new" BY DEF Stages, Stage, Typed
      <4>2. target'[q] = target[q]
        <5>1. CASE q = j
          BY <5>1, <4>1 DEF Step, Request, Enqueue, Mark, Process, ScanWithAll, FailQueue, FailRow,
                        InsertScan, InsertReport, UpdateRow, FinishQueue, Go
        <5>2. CASE q # j BY <5>2, OthersStay DEF Stays, Typed
        <5> QED BY <5>1, <5>2
      <4>3. q \in lost' BY OthersStay DEF Grows
      <4> QED BY <4>2, <4>3, <3>2, <2>2 DEF SameRow
    <3>3. ASSUME NEW q \in Jobs, Watches(q)
          PROVE  Watches(q)' \/ \E x \in lost' : target'[x] = row'.id
      <4>1. CASE q # j
        BY <4>1, <3>3, <2>2, OthersStay DEF Watches, Stays, SameRow
      <4>2. CASE q = j
        <5> USE <4>2, <3>3, <2>2 DEF Watches, Typed, Go, SameRow, Goroutine
        <5>1. CASE Mark(j) BY <5>1 DEF Mark
        <5>2. CASE FailRow(j)
          <6>1. Exists(j) BY <5>2, RowStays DEF FailRow, Exists, SameRow
          <6>2. \/ row' = WithStatus("failed") \/ lost' = lost \cup {j}
            BY <5>2, <6>1 DEF FailRow, Attempt, RowGets
          <6>3. WithStatus("failed").status = "failed" BY DEF WithStatus
          <6> QED BY <6>2, <6>3, <5>2 DEF FailRow
        <5>3. CASE UpdateRow(j)
          <6>1. Exists(j) BY <5>3, RowStays DEF UpdateRow, Exists, SameRow
          <6>2. \/ row'.status = "completed" \/ lost' = lost \cup {j}
            BY <5>3, <6>1 DEF UpdateRow, Attempt, RowGets
          <6> QED BY <6>2, <5>3 DEF UpdateRow
        <5>4. CASE Request(j) BY <5>4 DEF Request
        <5>5. CASE Enqueue(j) BY <5>5 DEF Enqueue
        <5>6. CASE Process(j) BY <5>6 DEF Process
        <5>7. CASE ScanWithAll(j) BY <5>7 DEF ScanWithAll
        <5>8. CASE FailQueue(j) BY <5>8 DEF FailQueue
        <5>9. CASE InsertScan(j) BY <5>9 DEF InsertScan
        <5>10. CASE InsertReport(j) BY <5>10 DEF InsertReport
        <5>11. CASE FinishQueue(j) BY <5>11 DEF FinishQueue
        <5> QED BY <5>1, <5>2, <5>3, <5>4, <5>5, <5>6, <5>7, <5>8, <5>9, <5>10, <5>11 DEF Step
      <4> QED BY <4>1, <4>2
    <3>4. row # Null /\ row.status = "scanning" BY <2>2 DEF SameRow
    <3> QED BY <3>1, <3>2, <3>3, <3>4 DEF MarkedIsWatched
  <2> QED BY <2>1, <2>2, RowSteps DEF RowMoves, RowIsScanned
<1>2. CASE Persist
  <2>1. row' = row
    BY <1>2 DEF Persist, NewRow
  <2> QED BY <1>2, <2>1 DEF Persist, MarkedIsWatched, Watches, Crashed
<1>3. CASE Evict BY <1>3 DEF Evict
<1>4. CASE ScanCrash
  <2>1. row' = row /\ target' = target /\ lost' = lost BY <1>4 DEF ScanCrash, tables
  <2>2. \A q \in Jobs : Watches(q) \/ place[q] = "dead" => place'[q] = "dead"
    BY <1>4 DEF ScanCrash, Watches, Goroutine, Handler, Typed
  <2> QED BY <2>1, <2>2 DEF MarkedIsWatched, Crashed
<1>5. CASE UNCHANGED scanVars BY <1>5 DEF scanVars, MarkedIsWatched, Watches, Crashed
<1> QED BY <1>1, <1>2, <1>3, <1>4, <1>5 DEF ScanNext, Scanning, Step

\* "Scan already in progress": whoever is refused a scan has a scan to wait
\* for, unless the process crashed or a status update failed.
THEOREM OnlyWorkRefuses == ScanSpec => []RefusedOnlyByWork
<1>1. ScanInit => MarkedIsWatched
  BY DEF ScanInit, MarkedIsWatched
<1>2. MarkedIsWatched => RefusedOnlyByWork
  BY DEF MarkedIsWatched, RefusedOnlyByWork, Watches, Working
<1> QED BY <1>1, <1>2, WatchSteps, BasisHolds, PTL DEF ScanSpec

-----------------------------------------------------------------------------
(* What a row says of its scan. *)

\* A job that is through keeps its verdict, and its place is final.
LEMMA ThroughStays ==
  ASSUME Basis, NEW j \in Jobs, Step(j), NEW q \in Jobs, place[q] \in {"finishing", "done", "dead"}
  PROVE  place'[q] \in {"finishing", "done", "dead"} /\ verdict'[q] = verdict[q]
<1> USE DEF Basis, Typed
<1>1. CASE q # j BY <1>1, OthersStay DEF Stays
<1>2. CASE q = j
  BY <1>2 DEF Step, Request, Enqueue, Mark, Process, ScanWithAll, FailQueue, FailRow, InsertScan,
              InsertReport, UpdateRow, FinishQueue, Go
<1> QED BY <1>1, <1>2

LEMMA ResultSteps == Basis /\ ResultsAreFinal /\ [ScanNext]_scanVars => ResultsAreFinal'
<1> USE CacheScanAssumption DEF CacheScanAssumption
<1> SUFFICES ASSUME Basis, ResultsAreFinal, [ScanNext]_scanVars PROVE ResultsAreFinal'
  OBVIOUS
<1>t. Typed BY DEF Basis
<1>1. ASSUME NEW j \in Jobs, Step(j) PROVE ResultsAreFinal'
  <2> USE <1>1
  <2>1. ASSUME row # Null, row' # Null, row'.results = row.results,
               row'.quarantined = row.quarantined
        PROVE  ResultsAreFinal'
    <3>1. row \in Rows BY <2>1, <1>t DEF Typed
    <3>2. row.results # Null => row.results \in Jobs BY <3>1 DEF Rows
    <3>3. Grows BY <1>t, OthersStay
    <3> QED BY <2>1, <3>2, <3>3, ThroughStays DEF ResultsAreFinal, Grows
  <2>2. CASE SameRow BY <2>2, <2>1 DEF SameRow, ResultsAreFinal
  <2>3. CASE RowMoves(j, "scanning") \/ RowMoves(j, "failed")
    BY <2>3, <2>1 DEF RowMoves
  <2>4. CASE UpdateRow(j) /\ RowIsScanned(j)
    <3>1. place[j] = "updating" /\ place'[j] = "finishing" /\ verdict' = verdict
      BY <2>4, <1>t DEF UpdateRow, Go, Typed
    <3>2. j \in reports \cup lost BY <3>1 DEF Basis, Stages, Stage
    <3>3. Grows BY <1>t, OthersStay
    <3> QED BY <2>4, <3>1, <3>2, <3>3 DEF RowIsScanned, ResultsAreFinal, Grows
  <2> QED BY <1>t, <2>2, <2>3, <2>4, RowSteps
<1>2. CASE Persist
  <2>1. row' = row \/ row'.results = Null BY <1>2 DEF Persist, NewRow
  <2> QED BY <1>2, <2>1 DEF Persist, ResultsAreFinal
<1>3. CASE Evict BY <1>3 DEF Evict, ResultsAreFinal
<1>4. CASE ScanCrash
  <2>1. row # Null /\ row.results # Null => row.results \in Jobs BY <1>t DEF Typed, Rows
  <2> QED BY <1>4, <1>t, <2>1 DEF ScanCrash, ResultsAreFinal, tables, Typed, Handler, Goroutine
<1>5. CASE UNCHANGED scanVars BY <1>5 DEF scanVars, ResultsAreFinal
<1> QED BY <1>1, <1>2, <1>3, <1>4, <1>5 DEF ScanNext, Scanning, Step

\* A report stands behind the row that names it, and the row's quarantine is
\* what that report's scan found, unless the insert of the report failed.
THEOREM ReportsStandBehind == ScanSpec => []ReportBehindTheRow
<1>1. ScanInit => ResultsAreFinal
  BY DEF ScanInit, ResultsAreFinal
<1>2. ResultsAreFinal => ReportBehindTheRow
  BY DEF ResultsAreFinal, ReportBehindTheRow
<1> QED BY <1>1, <1>2, ResultSteps, BasisHolds, PTL DEF ScanSpec

\* No refetch, eviction, failed scan or restart ends a quarantine: a scan of
\* the row itself that found nothing critical does.
THEOREM QuarantinesAreKept == ScanSpec => QuarantineIsKept
<1> USE CacheScanAssumption DEF CacheScanAssumption
<1>1. ASSUME Basis, [ScanNext]_scanVars, row # Null, row.quarantined
      PROVE  /\ row' # Null /\ row'.id = row.id
             /\ row'.quarantined \/ \E j \in Jobs :
                  place[j] = "updating" /\ place'[j] # "updating"
                    /\ target[j] = row.id /\ verdict[j] = "clean"
  <2> USE <1>1 DEF Basis
  <2>1. ASSUME NEW j \in Jobs, Step(j)
        PROVE  /\ row' # Null /\ row'.id = row.id
               /\ row'.quarantined \/ (/\ place[j] = "updating" /\ place'[j] # "updating"
                                        /\ target[j] = row.id /\ verdict[j] = "clean")
    <3>1. CASE UpdateRow(j) /\ RowIsScanned(j)
      <4>1. place[j] = "updating" /\ place'[j] = "finishing" BY <3>1 DEF UpdateRow, Go, Typed
      <4>2. verdict[j] \in {"clean", "critical"} BY <4>1 DEF Stages, Stage
      <4> QED BY <3>1, <4>1, <4>2 DEF RowIsScanned
    <3>2. CASE SameRow \/ RowMoves(j, "scanning") \/ RowMoves(j, "failed")
      BY <3>2 DEF SameRow, RowMoves
    <3> QED BY <2>1, <3>1, <3>2, RowSteps
  <2>2. CASE Persist BY <2>2 DEF Persist
  <2>3. CASE Evict BY <2>3 DEF Evict
  <2>4. CASE ScanCrash BY <2>4 DEF ScanCrash, tables
  <2>5. CASE UNCHANGED scanVars BY <2>5 DEF scanVars
  <2> QED BY <2>1, <2>2, <2>3, <2>4, <2>5 DEF ScanNext, Scanning, Step
<1> QED BY <1>1, BasisHolds, PTL DEF ScanSpec, QuarantineIsKept

-----------------------------------------------------------------------------
(* What an entry of the queue says of its row. *)

LEMMA VerdictSteps == Basis /\ VerdictsAreLeft /\ [ScanNext]_scanVars => VerdictsAreLeft'
<1> USE CacheScanAssumption DEF CacheScanAssumption
<1> SUFFICES ASSUME Basis, VerdictsAreLeft, [ScanNext]_scanVars PROVE VerdictsAreLeft'
  OBVIOUS
<1> USE DEF Basis
<1>1. ASSUME NEW j \in Jobs, Step(j) PROVE VerdictsAreLeft'
  <2> USE <1>1
  <2>1. row # Null /\ row.results # Null => row' # Null /\ row'.results # Null
    BY RowSteps DEF SameRow, RowMoves, RowIsScanned
  <2>2. ASSUME NEW q \in Jobs \ {j}, q \notin lost',
               place'[q] = "finishing" \/ queue'[q] = "completed", Exists(q)'
        PROVE  row'.results # Null
    <3>1. Exists(q) /\ q \notin lost /\ (place[q] = "finishing" \/ queue[q] = "completed")
      BY <2>2, OthersStay, RowStays DEF Stays
    <3> QED BY <3>1, <2>1 DEF VerdictsAreLeft, Exists
  <2>3. ASSUME j \notin lost', place'[j] = "finishing" \/ queue'[j] = "completed", Exists(j)'
        PROVE  row'.results # Null
    <3>1. j \notin lost BY <2>3, OthersStay DEF Grows
    <3>2. CASE UpdateRow(j)
      <4>1. target' = target BY <3>2 DEF UpdateRow
      <4>2. Exists(j) BY <4>1, <2>3, RowStays DEF Exists
      <4>3. row'.results = j
        <5>1. lost' # lost \cup {j} BY <2>3
        <5>2. RowGets(j, [id |-> row.id, status |-> "completed", results |-> j,
                          quarantined |-> verdict[j] = "critical"])
          BY <3>2, <5>1 DEF UpdateRow, Attempt
        <5> QED BY <5>2, <4>2 DEF RowGets
      <4> QED BY <4>3
    <3>3. CASE FinishQueue(j)
      <4>1. place[j] = "finishing" /\ target' = target BY <3>3 DEF FinishQueue, Go
      <4>2. Exists(j) BY <4>1, <2>3, RowStays DEF Exists
      <4> QED BY <3>1, <4>1, <4>2, <2>1 DEF VerdictsAreLeft, Exists
    <3>4. CASE ~UpdateRow(j) /\ ~FinishQueue(j)
      <4>0. Stage(j) BY DEF Stages
      <4>1. place'[j] # "finishing"
        BY <3>4 DEF Step, Request, Enqueue, Mark, Process, ScanWithAll, FailQueue, FailRow,
                    InsertScan, InsertReport, Go, Typed
      <4>2. queue'[j] = "completed" => place[j] = "done"
        <5> USE <4>0 DEF Stage, Typed, Go
        <5>1. CASE Mark(j) BY <5>1 DEF Mark
        <5>2. CASE FailRow(j) BY <5>2 DEF FailRow
        <5>4. CASE Request(j) BY <5>4 DEF Request, tables
        <5>5. CASE Enqueue(j)
          <6>1. queue' = [queue EXCEPT ![j] = "queued"] \/ queue' = queue BY <5>5 DEF Enqueue
          <6> QED BY <6>1
        <5>6. CASE Process(j) BY <5>6 DEF Process, Attempt, QueueGets
        <5>7. CASE ScanWithAll(j) BY <5>7 DEF ScanWithAll, tables
        <5>8. CASE FailQueue(j) BY <5>8 DEF FailQueue, Attempt, QueueGets
        <5>9. CASE InsertScan(j) BY <5>9 DEF InsertScan
        <5>10. CASE InsertReport(j) BY <5>10 DEF InsertReport
        <5> QED BY <3>4, <5>1, <5>2, <5>4, <5>5, <5>6, <5>7, <5>8, <5>9, <5>10 DEF Step
      <4>3. place[j] # "done"
        BY DEF Step, Request, Enqueue, Mark, Process, ScanWithAll, FailQueue, FailRow, InsertScan,
               InsertReport, UpdateRow, FinishQueue, Go
      <4> QED BY <2>3, <4>1, <4>2, <4>3
    <3> QED BY <3>2, <3>3, <3>4
  <2> QED BY <2>2, <2>3 DEF VerdictsAreLeft
<1>2. CASE Persist
  <2>1. \A q \in Jobs : Exists(q)' => Exists(q)
    BY <1>2 DEF Persist, Exists, NewRow, IdsAreFresh, Typed
  <2> QED BY <1>2, <2>1 DEF Persist, VerdictsAreLeft, Exists
<1>3. CASE Evict BY <1>3 DEF Evict, VerdictsAreLeft, Exists
<1>4. CASE ScanCrash
  <2>1. \A q \in Jobs : place'[q] = "finishing" => place[q] = "finishing"
    BY <1>4 DEF ScanCrash, Typed, Handler, Goroutine
  <2> QED BY <1>4, <2>1 DEF ScanCrash, VerdictsAreLeft, Exists, tables
<1>5. CASE UNCHANGED scanVars BY <1>5 DEF scanVars, VerdictsAreLeft, Exists
<1> QED BY <1>1, <1>2, <1>3, <1>4, <1>5 DEF ScanNext, Scanning, Step

\* An entry of the queue that says completed has its row, and the row a report,
\* unless a statement of the job failed.
THEOREM CompletedEntries == ScanSpec => []CompletedEntryHasVerdict
<1>1. ScanInit => VerdictsAreLeft
  BY DEF ScanInit, VerdictsAreLeft, Exists
<1>2. Basis /\ VerdictsAreLeft => CompletedEntryHasVerdict
  BY DEF Basis, Stages, Stage, VerdictsAreLeft, CompletedEntryHasVerdict
<1> QED BY <1>1, <1>2, VerdictSteps, BasisHolds, PTL DEF ScanSpec

-----------------------------------------------------------------------------
(* ProxyCache: the inductive invariant.                                     *)

\* The types of what the program and its environment change.
ProxyTypes ==
  /\ origin \in [Keys -> Versions] /\ floor \in [Keys -> Versions]
  /\ l1 \in [Keys -> Contents] /\ l2 \in [Keys -> Contents]
  /\ pc \in [Requests -> Places] /\ key \in [Requests -> Keys]
  /\ route \in [Requests -> {"proxy", "download", "delete"}]
  /\ buf \in [Requests -> Contents]
  /\ source \in [Requests -> {"none", "redis", "disk", "remote"}]
  /\ promos \in [Keys -> [Contents -> Nat]]
  /\ linked \subseteq Requests /\ clean \subseteq Requests
  /\ spoiled \subseteq Keys /\ skewed \subseteq Keys

Promoting(k, x) == promos[k][x] > 0

\* A request that fills the tiers carries what upstream had when it asked, and
\* that is nothing a clean deletion has outdated.
FillsAreCurrent ==
  /\ \A k \in Keys : floor[k] <= origin[k]
  /\ \A r \in Requests : pc[r] \in {"setl1", "open", "write"} =>
       buf[r] \in Versions /\ buf[r] >= floor[key[r]]
  /\ \A r \in linked : pc[r] = "write"

\* A clean deletion has its key to itself.
DeletionsAreAlone ==
  \A d \in clean :
    /\ pc[d] \in {"del1", "del2"}
    /\ \A s \in Requests \ {d} : ~Busy(s, key[d])
    /\ \A x \in Contents : ~Promoting(key[d], x)
    /\ pc[d] = "del2" => l1[key[d]] = None

\* Nothing under way or in a tier is older than the last clean deletion.
NotOlder(k, x) == x \in Versions => x >= floor[k]
NothingIsOlder ==
  \A k \in Keys :
    /\ NotOlder(k, l1[k]) /\ NotOlder(k, l2[k])
    /\ \A x \in Contents : Promoting(k, x) => NotOlder(k, x)

\* Only a spoiled key has contents that are no version, except for the file
\* that its one writer has truncated.
Sound(k, x) == x \in Versions \/ k \in spoiled
ContentsAreSound ==
  \A k \in Keys :
    /\ l1[k] # None => Sound(k, l1[k])
    /\ \A x \in Contents : Promoting(k, x) => Sound(k, x)
    /\ l2[k] \in {Empty, Torn} => k \in spoiled \/ BeingWritten(k)
    /\ k \notin spoiled => \A r, s \in Requests :
         Writing(r, k) => l2[k] = Empty /\ (Writing(s, k) => r = s)

\* Of a key that is not skewed, one request at most fills the tiers, it found
\* both of them empty, and what promotions carry is what the file holds.
FilledSoFar(r, k) ==
  IF pc[r] = "write" THEN r \in linked /\ l2[k] = Empty ELSE l2[k] = None
FillsAreSingle ==
  \A k \in Keys \ skewed :
    /\ \A r, s \in Requests : Filling(r, k) /\ Filling(s, k) => r = s
    /\ \A r \in Requests : Filling(r, k) =>
         /\ FilledSoFar(r, k)
         /\ l1[k] \in Versions => pc[r] \in {"open", "write"} /\ l1[k] = buf[r]
    /\ \A x \in Versions : Promoting(k, x) => l2[k] = x

ProxyInv ==
  /\ ProxyTypes /\ FillsAreCurrent /\ DeletionsAreAlone /\ NothingIsOlder
  /\ ContentsAreSound /\ FillsAreSingle /\ TiersAgree

-----------------------------------------------------------------------------
(* It holds of the empty cache, and every step keeps it.                    *)

\* Versions are numbers, and nothing else that a file may hold is one.
LEMMA ContentFacts ==
  /\ Versions \subseteq Nat /\ 1 \in Versions /\ Versions \subseteq Contents
  /\ {None, Empty, Torn} \subseteq Contents
  /\ None \notin Versions /\ Empty \notin Versions /\ Torn \notin Versions
  /\ None # Empty /\ None # Torn /\ Empty # Torn
  /\ \A x \in Contents : x \in Versions \/ x \in {None, Empty, Torn}
  /\ \A k \in Keys : origin[k] \in Versions /\ origin[k] < MaxVersion
       => origin[k] + 1 \in Versions
  /\ Routable \subseteq Keys
BY ProxyCacheAssumption DEF ProxyCacheAssumption, Versions, Contents

LEMMA ProxyBegins == Init => ProxyInv
<1> SUFFICES ASSUME Init PROVE ProxyInv
  OBVIOUS
<1> USE ContentFacts DEF Init
<1>1. ProxyTypes
  <2>1. (CHOOSE k \in Keys : TRUE) \in Keys
    BY ProxyCacheAssumption DEF ProxyCacheAssumption
  <2> QED BY <2>1 DEF ProxyTypes, Places, NoPromotions
<1>2. FillsAreCurrent /\ DeletionsAreAlone
  BY DEF FillsAreCurrent, DeletionsAreAlone
<1>3. NothingIsOlder /\ ContentsAreSound /\ FillsAreSingle /\ TiersAgree
  BY DEF NothingIsOlder, NotOlder, ContentsAreSound, Sound, FillsAreSingle,
         TiersAgree, Promoting, NoPromotions, Filling, Writing
<1> QED BY <1>1, <1>2, <1>3 DEF ProxyInv

\* What a hit on disk reads, answers with and may promote.
HitsWith(r, x) ==
  /\ (x = l2[key[r]] /\ x # None) \/ (x = Torn /\ BeingWritten(key[r]))
  /\ buf' = [buf EXCEPT ![r] = x]
  /\ spoiled' = IF BeingWritten(key[r]) /\ x \notin Versions
                THEN spoiled \cup {key[r]} ELSE spoiled
  /\ promos' \in [Keys -> [Contents -> Nat]]
  /\ \A k \in Keys, y \in Contents :
       promos'[k][y] > 0 => promos[k][y] > 0 \/ (k = key[r] /\ y = x)

LEMMA HitOnDisk ==
  ASSUME ProxyTypes, NEW r \in Requests, L2Hit(r)
  PROVE  \E x \in Contents : HitsWith(r, x)
<1>1. PICK x \in Readable(key[r]) :
             /\ buf' = [buf EXCEPT ![r] = x]
             /\ spoiled' = IF BeingWritten(key[r]) /\ x \notin Versions
                           THEN spoiled \cup {key[r]} ELSE spoiled
             /\ \/ promos' = [promos EXCEPT ![key[r]][x] = promos[key[r]][x] + 1]
                \/ promos' = promos
  BY DEF L2Hit, Answer
<1>2. x \in Contents
  BY ContentFacts DEF Readable, ProxyTypes
<1>3. (x = l2[key[r]] /\ x # None) \/ (x = Torn /\ BeingWritten(key[r]))
  <2>1. l2[key[r]] # None
    BY DEF L2Hit
  <2>2. x \in Readable(key[r])
    BY <1>1
  <2> QED BY <2>1, <2>2 DEF Readable
<1>4. key[r] \in Keys /\ promos[key[r]][x] + 1 \in Nat
  BY <1>2 DEF ProxyTypes
<1>5. /\ promos' \in [Keys -> [Contents -> Nat]]
      /\ \A k \in Keys, y \in Contents :
           promos'[k][y] > 0 => promos[k][y] > 0 \/ (k = key[r] /\ y = x)
  <2>1. CASE promos' = promos
    BY <2>1 DEF ProxyTypes
  <2>2. CASE promos' = [promos EXCEPT ![key[r]][x] = promos[key[r]][x] + 1]
    <3> DEFINE n == promos[key[r]][x] + 1
    <3>1. n \in Nat /\ promos' = [promos EXCEPT ![key[r]][x] = n]
      BY <1>4, <2>2
    <3> HIDE DEF n
    <3> DEFINE k == key[r]
               counts == [promos[k] EXCEPT ![x] = n]
    <3>2. promos' = [promos EXCEPT ![k] = counts]
      BY <3>1
    <3>3. /\ promos[k] \in [Contents -> Nat] /\ k \in Keys
          /\ promos \in [Keys -> [Contents -> Nat]]
      BY <1>4 DEF ProxyTypes
    <3>4. /\ counts \in [Contents -> Nat]
          /\ \A y \in Contents \ {x} : counts[y] = promos[k][y]
      BY <1>2, <3>1, <3>3
    <3> HIDE DEF k, counts
    <3>5. /\ promos' \in [Keys -> [Contents -> Nat]] /\ promos'[k] = counts
          /\ \A j \in Keys \ {k} : promos'[j] = promos[j]
      BY <3>2, <3>3, <3>4
    <3> QED BY <3>3, <3>4, <3>5 DEF k
  <2> QED BY <1>1, <2>1, <2>2
<1> QED BY <1>1, <1>2, <1>3, <1>5 DEF HitsWith

\* Every action keeps to the types.
LEMMA StepKeepsTypesOfProxy == ASSUME ProxyTypes, [Next]_vars PROVE ProxyTypes'
<1> USE ContentFacts DEF ProxyTypes, Places, At, Goto, tiers, request, history
<1>1. ASSUME NEW r \in Requests, L1Hit(r) PROVE ProxyTypes'
  BY <1>1 DEF L1Hit, Answer
<1>2. ASSUME NEW r \in Requests, L1Miss(r) PROVE ProxyTypes'
  BY <1>2 DEF L1Miss
<1>3. ASSUME NEW r \in Requests, L2Hit(r) PROVE ProxyTypes'
  <2>1. /\ spoiled' \subseteq Keys /\ buf' \in [Requests -> Contents]
        /\ promos' \in [Keys -> [Contents -> Nat]]
    <3>1. PICK x \in Contents : HitsWith(r, x)
      BY <1>3, HitOnDisk
    <3> QED BY <3>1 DEF HitsWith
  <2>2. /\ source' \in [Requests -> {"none", "redis", "disk", "remote"}]
        /\ pc' \in [Requests -> Places]
    BY <1>3 DEF L2Hit, Answer
  <2> QED BY <1>3, <2>1, <2>2 DEF L2Hit
<1>4. ASSUME NEW r \in Requests, L2Miss(r) PROVE ProxyTypes'
  BY <1>4 DEF L2Miss
<1>5. ASSUME NEW r \in Requests, Fetch(r) PROVE ProxyTypes'
  BY <1>5 DEF Fetch
<1>6. ASSUME NEW r \in Requests, FetchFails(r) PROVE ProxyTypes'
  BY <1>6 DEF FetchFails
<1>7. ASSUME NEW r \in Requests, SetL1(r) PROVE ProxyTypes'
  <2>1. l1' \in [Keys -> Contents]
    BY <1>7 DEF SetL1
  <2>2. skewed' \subseteq Keys
    BY <1>7 DEF SetL1
  <2> QED BY <1>7, <2>1, <2>2 DEF SetL1
<1>8. ASSUME NEW r \in Requests, OpenL2(r) PROVE ProxyTypes'
  BY <1>8 DEF OpenL2
<1>9. ASSUME NEW r \in Requests, OpenL2Fails(r) PROVE ProxyTypes'
  BY <1>9 DEF OpenL2Fails, Answer
<1>10. ASSUME NEW r \in Requests, WriteL2(r) PROVE ProxyTypes'
  <2>1. l2' \in [Keys -> Contents]
    BY <1>10 DEF WriteL2, WriteThrough, Overwrite
  <2> QED BY <1>10, <2>1 DEF WriteL2, WriteThrough, Answer
<1>11. ASSUME NEW r \in Requests, WriteL2Fails(r) PROVE ProxyTypes'
  <2>1. l2' \in [Keys -> Contents]
    BY <1>11 DEF WriteL2Fails, WriteThrough
  <2> QED BY <1>11, <2>1 DEF WriteL2Fails, WriteThrough, Answer
<1>12. ASSUME NEW r \in Requests, DeleteL1(r) PROVE ProxyTypes'
  BY <1>12 DEF DeleteL1
<1>13. ASSUME NEW r \in Requests, DeleteL2(r) PROVE ProxyTypes'
  <2>1. /\ l2' \in [Keys -> Contents] /\ linked' \subseteq Requests
        /\ pc' \in [Requests -> Places]
    BY <1>13 DEF DeleteL2, Removed
  <2>2. spoiled' \subseteq Keys /\ skewed' \subseteq Keys
    BY <1>13 DEF DeleteL2, Forget
  <2>3. floor' = floor \/ floor' = [floor EXCEPT ![key[r]] = origin[key[r]]]
    BY <1>13 DEF DeleteL2, Forget
  <2>4. floor' \in [Keys -> Versions]
    BY <2>3
  <2>5. /\ UNCHANGED <<origin, l1, route, key, buf, source, promos>>
        /\ clean' \subseteq Requests
    BY <1>13 DEF DeleteL2
  <2> QED BY <2>1, <2>2, <2>4, <2>5
<1>14. ASSUME NEW r \in Requests, NEW k \in Keys, StartProxy(r, k)
      PROVE  ProxyTypes'
  BY <1>14 DEF StartProxy, Accept, Undisturbed
<1>15. ASSUME NEW r \in Requests, NEW k \in Keys, StartDelete(r, k)
      PROVE  ProxyTypes'
  BY <1>15 DEF StartDelete, Accept, Undisturbed
<1>16. ASSUME NEW r \in Requests, NEW k \in Keys, StartDownload(r, k)
      PROVE  ProxyTypes'
  BY <1>16 DEF StartDownload, Accept, Undisturbed
<1>17. ASSUME NEW k \in Keys, NEW x \in Contents, Promote(k, x)
      PROVE  ProxyTypes'
  <2>1. promos' \in [Keys -> [Contents -> Nat]]
    BY <1>17 DEF Promote, Landed
  <2> QED BY <1>17, <2>1 DEF Promote
<1>18. ASSUME NEW k \in Keys, NEW x \in Contents, PromotionDropped(k, x)
      PROVE  ProxyTypes'
  <2>1. promos' \in [Keys -> [Contents -> Nat]]
    BY <1>18 DEF PromotionDropped, Landed
  <2> QED BY <1>18, <2>1 DEF PromotionDropped
<1>19. ASSUME NEW k \in Keys, ExpireL1(k)
      PROVE  ProxyTypes'
  BY <1>19 DEF ExpireL1
<1>20. ASSUME NEW k \in Keys, Republish(k)
      PROVE  ProxyTypes'
  BY <1>20 DEF Republish
<1>21. CASE FlushCache
  BY <1>21 DEF FlushCache
<1>22. CASE Crash
  BY <1>22 DEF Crash, NoPromotions
<1>23. CASE UNCHANGED vars
  BY <1>23 DEF vars
<1> HIDE DEF ProxyTypes
<1> QED BY <1>1, <1>2, <1>3, <1>4, <1>5, <1>6, <1>7, <1>8,
           <1>9, <1>10, <1>11, <1>12, <1>13, <1>14, <1>15, <1>16,
           <1>17, <1>18, <1>19, <1>20, <1>21, <1>22, <1>23
        DEF Next, ProxyStep

\* What a fill carries is current: upstream only goes forward, and a deletion
\* that is clean meets no fill of its key.
LEMMA StepKeepsFillsCurrent ==
  ASSUME ProxyTypes, FillsAreCurrent, DeletionsAreAlone, [Next]_vars
  PROVE  FillsAreCurrent'
<1> USE ContentFacts DEF ProxyTypes, FillsAreCurrent, Places, At, Goto, Free,
        tiers, request, history
<1>1. ASSUME NEW r \in Requests, L1Hit(r) PROVE FillsAreCurrent'
  BY <1>1 DEF L1Hit, Answer
<1>2. ASSUME NEW r \in Requests, L1Miss(r) PROVE FillsAreCurrent'
  BY <1>2 DEF L1Miss
<1>3. ASSUME NEW r \in Requests, L2Hit(r) PROVE FillsAreCurrent'
  BY <1>3 DEF L2Hit, Answer, Readable
<1>4. ASSUME NEW r \in Requests, L2Miss(r) PROVE FillsAreCurrent'
  BY <1>4 DEF L2Miss
<1>5. ASSUME NEW r \in Requests, Fetch(r) PROVE FillsAreCurrent'
  BY <1>5 DEF Fetch
<1>6. ASSUME NEW r \in Requests, FetchFails(r) PROVE FillsAreCurrent'
  BY <1>6 DEF FetchFails
<1>7. ASSUME NEW r \in Requests, SetL1(r) PROVE FillsAreCurrent'
  BY <1>7 DEF SetL1
<1>8. ASSUME NEW r \in Requests, OpenL2(r) PROVE FillsAreCurrent'
  BY <1>8 DEF OpenL2
<1>9. ASSUME NEW r \in Requests, OpenL2Fails(r) PROVE FillsAreCurrent'
  BY <1>9 DEF OpenL2Fails, Answer
<1>10. ASSUME NEW r \in Requests, WriteL2(r) PROVE FillsAreCurrent'
  BY <1>10 DEF WriteL2, WriteThrough, Answer, Overwrite
<1>11. ASSUME NEW r \in Requests, WriteL2Fails(r) PROVE FillsAreCurrent'
  BY <1>11 DEF WriteL2Fails, WriteThrough, Answer
<1>12. ASSUME NEW r \in Requests, DeleteL1(r) PROVE FillsAreCurrent'
  BY <1>12 DEF DeleteL1
<1>13. ASSUME NEW r \in Requests, DeleteL2(r) PROVE FillsAreCurrent'
  <2>1. linked' \subseteq linked /\ pc' = [pc EXCEPT ![r] = "done"] /\ At(r, "del2")
        /\ UNCHANGED <<origin, key, buf>>
    BY <1>13 DEF DeleteL2, Removed
  <2>2. CASE floor' = floor
    BY <2>1, <2>2
  <2>3. CASE r \in clean /\ floor' = [floor EXCEPT ![key[r]] = origin[key[r]]]
    <3>1. ASSUME NEW k \in Keys PROVE floor'[k] <= origin'[k]
      <4>1. origin[k] \in Nat /\ floor[k] <= origin[k] /\ origin'[k] = origin[k]
        BY <2>1
      <4>2. floor'[k] = IF k = key[r] THEN origin[k] ELSE floor[k]
        BY <2>3
      <4> HIDE DEF ProxyTypes, FillsAreCurrent
      <4> QED BY <4>1, <4>2
    <3>2. \A s \in Requests : pc'[s] \in {"setl1", "open", "write"} => key[s] # key[r]
      BY <2>1, <2>3 DEF DeletionsAreAlone, Busy
    <3>3. \A s \in linked' : s \in linked /\ pc'[s] = "write"
      BY <2>1
    <3> QED BY <2>1, <2>3, <3>1, <3>2, <3>3
  <2> QED BY <1>13, <2>2, <2>3 DEF DeleteL2, Forget
<1>14. ASSUME NEW r \in Requests, NEW k \in Keys, StartProxy(r, k)
      PROVE  FillsAreCurrent'
  BY <1>14 DEF StartProxy, Accept, Undisturbed
<1>15. ASSUME NEW r \in Requests, NEW k \in Keys, StartDelete(r, k)
      PROVE  FillsAreCurrent'
  BY <1>15 DEF StartDelete, Accept, Undisturbed
<1>16. ASSUME NEW r \in Requests, NEW k \in Keys, StartDownload(r, k)
      PROVE  FillsAreCurrent'
  BY <1>16 DEF StartDownload, Accept, Undisturbed
<1>17. ASSUME NEW k \in Keys, NEW x \in Contents, Promote(k, x)
      PROVE  FillsAreCurrent'
  BY <1>17 DEF Promote, Landed
<1>18. ASSUME NEW k \in Keys, NEW x \in Contents, PromotionDropped(k, x)
      PROVE  FillsAreCurrent'
  BY <1>18 DEF PromotionDropped, Landed
<1>19. ASSUME NEW k \in Keys, ExpireL1(k)
      PROVE  FillsAreCurrent'
  BY <1>19 DEF ExpireL1
<1>20. ASSUME NEW k \in Keys, Republish(k)
      PROVE  FillsAreCurrent'
  <2>1. origin[k] \in Nat /\ \A j \in Keys : floor[j] \in Nat
    OBVIOUS
  <2>2. \A j \in Keys : origin'[j] = IF j = k THEN origin[k] + 1 ELSE origin[j]
    BY <1>20 DEF Republish
  <2>3. \A j \in Keys : floor[j] <= origin'[j]
    BY <2>1, <2>2
  <2> QED BY <1>20, <2>3 DEF Republish
<1>21. CASE FlushCache
  BY <1>21 DEF FlushCache
<1>22. CASE Crash
  BY <1>22 DEF Crash, NoPromotions
<1>23. CASE UNCHANGED vars
  BY <1>23 DEF vars
<1> HIDE DEF FillsAreCurrent
<1> QED BY <1>1, <1>2, <1>3, <1>4, <1>5, <1>6, <1>7, <1>8,
           <1>9, <1>10, <1>11, <1>12, <1>13, <1>14, <1>15, <1>16,
           <1>17, <1>18, <1>19, <1>20, <1>21, <1>22, <1>23
        DEF Next, ProxyStep

\* A clean deletion stays alone: whoever begins with its key ends it.
LEMMA StepKeepsDeletionsAlone ==
  ASSUME ProxyTypes, DeletionsAreAlone, [Next]_vars
  PROVE  DeletionsAreAlone'
<1> USE ContentFacts DEF ProxyTypes, DeletionsAreAlone, Promoting, Busy, Places,
        At, Goto, Free, tiers, request, history
<1>1. ASSUME NEW r \in Requests, L1Hit(r) PROVE DeletionsAreAlone'
  BY <1>1 DEF L1Hit, Answer
<1>2. ASSUME NEW r \in Requests, L1Miss(r) PROVE DeletionsAreAlone'
  BY <1>2 DEF L1Miss
<1>3. ASSUME NEW r \in Requests, L2Hit(r) PROVE DeletionsAreAlone'
  <2>1. PICK x \in Contents : HitsWith(r, x)
    BY <1>3, HitOnDisk
  <2>2. /\ UNCHANGED <<l1, l2, key, linked, clean, floor, skewed>> /\ pc[r] = "l2"
        /\ pc' = [pc EXCEPT ![r] = "done"] /\ \A s \in Requests \ {r} : buf'[s] = buf[s]
    BY <1>3 DEF L2Hit, Answer
  <2>3. \A d \in clean : d # r /\ key[d] # key[r]
    BY <2>2
  <2>4. \A d \in clean, y \in Contents : ~(promos'[key[d]][y] > 0)
    BY <2>1, <2>3 DEF HitsWith
  <2> QED BY <2>2, <2>3, <2>4
<1>4. ASSUME NEW r \in Requests, L2Miss(r) PROVE DeletionsAreAlone'
  BY <1>4 DEF L2Miss
<1>5. ASSUME NEW r \in Requests, Fetch(r) PROVE DeletionsAreAlone'
  BY <1>5 DEF Fetch
<1>6. ASSUME NEW r \in Requests, FetchFails(r) PROVE DeletionsAreAlone'
  BY <1>6 DEF FetchFails
<1>7. ASSUME NEW r \in Requests, SetL1(r) PROVE DeletionsAreAlone'
  BY <1>7 DEF SetL1
<1>8. ASSUME NEW r \in Requests, OpenL2(r) PROVE DeletionsAreAlone'
  BY <1>8 DEF OpenL2
<1>9. ASSUME NEW r \in Requests, OpenL2Fails(r) PROVE DeletionsAreAlone'
  BY <1>9 DEF OpenL2Fails, Answer
<1>10. ASSUME NEW r \in Requests, WriteL2(r) PROVE DeletionsAreAlone'
  BY <1>10 DEF WriteL2, WriteThrough, Answer, Overwrite
<1>11. ASSUME NEW r \in Requests, WriteL2Fails(r) PROVE DeletionsAreAlone'
  BY <1>11 DEF WriteL2Fails, WriteThrough, Answer
<1>12. ASSUME NEW r \in Requests, DeleteL1(r) PROVE DeletionsAreAlone'
  BY <1>12 DEF DeleteL1
<1>13. ASSUME NEW r \in Requests, DeleteL2(r) PROVE DeletionsAreAlone'
  BY <1>13 DEF DeleteL2, Removed, Forget
<1>14. ASSUME NEW r \in Requests, NEW k \in Keys, StartProxy(r, k)
      PROVE  DeletionsAreAlone'
  BY <1>14 DEF StartProxy, Accept, Undisturbed
<1>15. ASSUME NEW r \in Requests, NEW k \in Keys, StartDelete(r, k)
      PROVE  DeletionsAreAlone'
  BY <1>15 DEF StartDelete, Accept, Undisturbed, Quiet
<1>16. ASSUME NEW r \in Requests, NEW k \in Keys, StartDownload(r, k)
      PROVE  DeletionsAreAlone'
  BY <1>16 DEF StartDownload, Accept, Undisturbed
<1>17. ASSUME NEW k \in Keys, NEW x \in Contents, Promote(k, x)
      PROVE  DeletionsAreAlone'
  BY <1>17 DEF Promote, Landed
<1>18. ASSUME NEW k \in Keys, NEW x \in Contents, PromotionDropped(k, x)
      PROVE  DeletionsAreAlone'
  BY <1>18 DEF PromotionDropped, Landed
<1>19. ASSUME NEW k \in Keys, ExpireL1(k)
      PROVE  DeletionsAreAlone'
  BY <1>19 DEF ExpireL1
<1>20. ASSUME NEW k \in Keys, Republish(k)
      PROVE  DeletionsAreAlone'
  BY <1>20 DEF Republish
<1>21. CASE FlushCache
  BY <1>21 DEF FlushCache
<1>22. CASE Crash
  BY <1>22 DEF Crash, NoPromotions
<1>23. CASE UNCHANGED vars
  BY <1>23 DEF vars
<1> HIDE DEF DeletionsAreAlone
<1> QED BY <1>1, <1>2, <1>3, <1>4, <1>5, <1>6, <1>7, <1>8,
           <1>9, <1>10, <1>11, <1>12, <1>13, <1>14, <1>15, <1>16,
           <1>17, <1>18, <1>19, <1>20, <1>21, <1>22, <1>23
        DEF Next, ProxyStep

\* Nothing older than a clean deletion comes into a tier.
LEMMA StepKeepsNothingOlder ==
  ASSUME ProxyTypes, FillsAreCurrent, DeletionsAreAlone, NothingIsOlder, [Next]_vars
  PROVE  NothingIsOlder'
<1> USE ContentFacts DEF ProxyTypes, FillsAreCurrent, NothingIsOlder, NotOlder,
        Promoting, Places, At, Goto, tiers, request, history
<1>1. ASSUME NEW r \in Requests, L1Hit(r) PROVE NothingIsOlder'
  BY <1>1 DEF L1Hit, Answer
<1>2. ASSUME NEW r \in Requests, L1Miss(r) PROVE NothingIsOlder'
  BY <1>2 DEF L1Miss
<1>3. ASSUME NEW r \in Requests, L2Hit(r) PROVE NothingIsOlder'
  <2>1. PICK x \in Contents : HitsWith(r, x)
    BY <1>3, HitOnDisk
  <2>2. /\ UNCHANGED <<l1, l2, key, linked, clean, floor, skewed>> /\ pc[r] = "l2"
        /\ pc' = [pc EXCEPT ![r] = "done"] /\ \A s \in Requests \ {r} : buf'[s] = buf[s]
    BY <1>3 DEF L2Hit, Answer
  <2> QED BY <2>1, <2>2 DEF HitsWith
<1>4. ASSUME NEW r \in Requests, L2Miss(r) PROVE NothingIsOlder'
  BY <1>4 DEF L2Miss
<1>5. ASSUME NEW r \in Requests, Fetch(r) PROVE NothingIsOlder'
  BY <1>5 DEF Fetch
<1>6. ASSUME NEW r \in Requests, FetchFails(r) PROVE NothingIsOlder'
  BY <1>6 DEF FetchFails
<1>7. ASSUME NEW r \in Requests, SetL1(r) PROVE NothingIsOlder'
  BY <1>7 DEF SetL1
<1>8. ASSUME NEW r \in Requests, OpenL2(r) PROVE NothingIsOlder'
  BY <1>8 DEF OpenL2
<1>9. ASSUME NEW r \in Requests, OpenL2Fails(r) PROVE NothingIsOlder'
  BY <1>9 DEF OpenL2Fails, Answer
<1>10. ASSUME NEW r \in Requests, WriteL2(r) PROVE NothingIsOlder'
  BY <1>10 DEF WriteL2, WriteThrough, Answer, Overwrite
<1>11. ASSUME NEW r \in Requests, WriteL2Fails(r) PROVE NothingIsOlder'
  BY <1>11 DEF WriteL2Fails, WriteThrough, Answer
<1>12. ASSUME NEW r \in Requests, DeleteL1(r) PROVE NothingIsOlder'
  BY <1>12 DEF DeleteL1
<1>13. ASSUME NEW r \in Requests, DeleteL2(r) PROVE NothingIsOlder'
  BY <1>13 DEF DeleteL2, Removed, Forget, DeletionsAreAlone
<1>14. ASSUME NEW r \in Requests, NEW k \in Keys, StartProxy(r, k)
      PROVE  NothingIsOlder'
  BY <1>14 DEF StartProxy, Accept, Undisturbed
<1>15. ASSUME NEW r \in Requests, NEW k \in Keys, StartDelete(r, k)
      PROVE  NothingIsOlder'
  BY <1>15 DEF StartDelete, Accept, Undisturbed
<1>16. ASSUME NEW r \in Requests, NEW k \in Keys, StartDownload(r, k)
      PROVE  NothingIsOlder'
  BY <1>16 DEF StartDownload, Accept, Undisturbed
<1>17. ASSUME NEW k \in Keys, NEW x \in Contents, Promote(k, x)
      PROVE  NothingIsOlder'
  BY <1>17 DEF Promote, Landed
<1>18. ASSUME NEW k \in Keys, NEW x \in Contents, PromotionDropped(k, x)
      PROVE  NothingIsOlder'
  BY <1>18 DEF PromotionDropped, Landed
<1>19. ASSUME NEW k \in Keys, ExpireL1(k)
      PROVE  NothingIsOlder'
  BY <1>19 DEF ExpireL1
<1>20. ASSUME NEW k \in Keys, Republish(k)
      PROVE  NothingIsOlder'
  BY <1>20 DEF Republish
<1>21. CASE FlushCache
  BY <1>21 DEF FlushCache
<1>22. CASE Crash
  BY <1>22 DEF Crash, NoPromotions
<1>23. CASE UNCHANGED vars
  BY <1>23 DEF vars
<1> HIDE DEF NothingIsOlder
<1> QED BY <1>1, <1>2, <1>3, <1>4, <1>5, <1>6, <1>7, <1>8,
           <1>9, <1>10, <1>11, <1>12, <1>13, <1>14, <1>15, <1>16,
           <1>17, <1>18, <1>19, <1>20, <1>21, <1>22, <1>23
        DEF Next, ProxyStep

\* Contents that are no version spoil their key before anyone can read them.
LEMMA StepKeepsContentsSound ==
  ASSUME ProxyTypes, FillsAreCurrent, DeletionsAreAlone, ContentsAreSound, [Next]_vars
  PROVE  ContentsAreSound'
<1> USE ContentFacts DEF ProxyTypes, FillsAreCurrent, ContentsAreSound, Sound, Writing,
        BeingWritten, Promoting, Places, At, Goto, Free, tiers, request, history
<1>1. ASSUME NEW r \in Requests, L1Hit(r) PROVE ContentsAreSound'
  BY <1>1 DEF L1Hit, Answer
<1>2. ASSUME NEW r \in Requests, L1Miss(r) PROVE ContentsAreSound'
  BY <1>2 DEF L1Miss
<1>3. ASSUME NEW r \in Requests, L2Hit(r) PROVE ContentsAreSound'
  <2>1. PICK x \in Contents : HitsWith(r, x)
    BY <1>3, HitOnDisk
  <2>2. /\ UNCHANGED <<l1, l2, key, linked, clean, floor, skewed>> /\ pc[r] = "l2"
        /\ pc' = [pc EXCEPT ![r] = "done"] /\ \A s \in Requests \ {r} : buf'[s] = buf[s]
    BY <1>3 DEF L2Hit, Answer
  <2>3. \A w \in Requests, k \in Keys : Writing(w, k)' <=> Writing(w, k)
    BY <2>2
  <2>4. x \in Versions \/ key[r] \in spoiled'
    BY <2>1 DEF HitsWith
  <2>5. spoiled \subseteq spoiled'
    BY <2>1 DEF HitsWith
  <2>6. \A k \in Keys, y \in Contents :
          promos'[k][y] > 0 => promos[k][y] > 0 \/ (k = key[r] /\ y = x)
    BY <2>1 DEF HitsWith
  <2> HIDE DEF Writing
  <2> QED BY <2>2, <2>3, <2>4, <2>5, <2>6
<1>4. ASSUME NEW r \in Requests, L2Miss(r) PROVE ContentsAreSound'
  BY <1>4 DEF L2Miss
<1>5. ASSUME NEW r \in Requests, Fetch(r) PROVE ContentsAreSound'
  BY <1>5 DEF Fetch
<1>6. ASSUME NEW r \in Requests, FetchFails(r) PROVE ContentsAreSound'
  BY <1>6 DEF FetchFails
<1>7. ASSUME NEW r \in Requests, SetL1(r) PROVE ContentsAreSound'
  BY <1>7 DEF SetL1
<1>8. ASSUME NEW r \in Requests, OpenL2(r) PROVE ContentsAreSound'
  BY <1>8 DEF OpenL2
<1>9. ASSUME NEW r \in Requests, OpenL2Fails(r) PROVE ContentsAreSound'
  BY <1>9 DEF OpenL2Fails, Answer
<1>10. ASSUME NEW r \in Requests, WriteL2(r) PROVE ContentsAreSound'
  <2>1. /\ linked' = linked \ {r} /\ pc' = [pc EXCEPT ![r] = "done"]
        /\ UNCHANGED <<l1, key, promos, spoiled>> /\ pc[r] = "write"
    BY <1>10 DEF WriteL2, WriteThrough, Answer
  <2>5. \A w \in Requests, k \in Keys : Writing(w, k)' <=> Writing(w, k) /\ w # r
    BY <2>1
  <2>2. CASE r \notin linked
    <3>1. l2' = l2 /\ \A k \in Keys : ~Writing(r, k)
      BY <1>10, <2>2 DEF WriteL2, WriteThrough
    <3> HIDE DEF Writing
    <3> QED BY <2>1, <2>5, <3>1
  <2>3. CASE r \in linked /\ key[r] \in spoiled
    <3>1. \A k \in Keys \ {key[r]} : l2'[k] = l2[k]
      BY <1>10, <2>3 DEF WriteL2, WriteThrough
    <3>2. \A k \in Keys \ {key[r]} : ~Writing(r, k)
      OBVIOUS
    <3> HIDE DEF Writing
    <3> QED BY <2>1, <2>3, <2>5, <3>1, <3>2
  <2>4. CASE r \in linked /\ key[r] \notin spoiled
    <3>1. l2[key[r]] = Empty /\ \A s \in linked : pc[s] = "write" /\ key[s] = key[r] => s = r
      BY <2>1, <2>4
    <3>2. Overwrite(Empty, buf[r]) = {buf[r]}
      BY DEF Overwrite
    <3>3. l2' = [l2 EXCEPT ![key[r]] = buf[r]] /\ buf[r] \in Versions
      BY <1>10, <2>1, <2>4, <3>1, <3>2 DEF WriteL2, WriteThrough
    <3>4. \A k \in Keys \ {key[r]} : l2'[k] = l2[k]
      BY <3>3
    <3>5. l2'[key[r]] \in Versions
      BY <3>3
    <3> QED BY <2>1, <2>4, <3>1, <3>4, <3>5
  <2> QED BY <2>2, <2>3, <2>4
<1>11. ASSUME NEW r \in Requests, WriteL2Fails(r) PROVE ContentsAreSound'
  BY <1>11 DEF WriteL2Fails, WriteThrough, Answer
<1>12. ASSUME NEW r \in Requests, DeleteL1(r) PROVE ContentsAreSound'
  BY <1>12 DEF DeleteL1
<1>13. ASSUME NEW r \in Requests, DeleteL2(r) PROVE ContentsAreSound'
  BY <1>13 DEF DeleteL2, Removed, Forget, DeletionsAreAlone
<1>14. ASSUME NEW r \in Requests, NEW k \in Keys, StartProxy(r, k)
      PROVE  ContentsAreSound'
  BY <1>14 DEF StartProxy, Accept, Undisturbed
<1>15. ASSUME NEW r \in Requests, NEW k \in Keys, StartDelete(r, k)
      PROVE  ContentsAreSound'
  BY <1>15 DEF StartDelete, Accept, Undisturbed
<1>16. ASSUME NEW r \in Requests, NEW k \in Keys, StartDownload(r, k)
      PROVE  ContentsAreSound'
  BY <1>16 DEF StartDownload, Accept, Undisturbed
<1>17. ASSUME NEW k \in Keys, NEW x \in Contents, Promote(k, x)
      PROVE  ContentsAreSound'
  BY <1>17 DEF Promote, Landed
<1>18. ASSUME NEW k \in Keys, NEW x \in Contents, PromotionDropped(k, x)
      PROVE  ContentsAreSound'
  BY <1>18 DEF PromotionDropped, Landed
<1>19. ASSUME NEW k \in Keys, ExpireL1(k)
      PROVE  ContentsAreSound'
  BY <1>19 DEF ExpireL1
<1>20. ASSUME NEW k \in Keys, Republish(k)
      PROVE  ContentsAreSound'
  BY <1>20 DEF Republish
<1>21. CASE FlushCache
  BY <1>21 DEF FlushCache
<1>22. CASE Crash
  BY <1>22 DEF Crash, NoPromotions
<1>23. CASE UNCHANGED vars
  BY <1>23 DEF vars
<1> HIDE DEF ContentsAreSound
<1> QED BY <1>1, <1>2, <1>3, <1>4, <1>5, <1>6, <1>7, <1>8,
           <1>9, <1>10, <1>11, <1>12, <1>13, <1>14, <1>15, <1>16,
           <1>17, <1>18, <1>19, <1>20, <1>21, <1>22, <1>23
        DEF Next, ProxyStep

\* Two fills of a key at a time, or a fill over something, skew it.
LEMMA StepKeepsFillsSingle ==
  ASSUME ProxyTypes, FillsAreCurrent, DeletionsAreAlone, FillsAreSingle, [Next]_vars
  PROVE  FillsAreSingle'
<1> USE ContentFacts DEF ProxyTypes, FillsAreCurrent, FillsAreSingle, FilledSoFar,
        Filling, Promoting, Places, At, Goto, Free, tiers, request, history
<1>1. ASSUME NEW r \in Requests, L1Hit(r) PROVE FillsAreSingle'
  BY <1>1 DEF L1Hit, Answer
<1>2. ASSUME NEW r \in Requests, L1Miss(r) PROVE FillsAreSingle'
  BY <1>2 DEF L1Miss
<1>3. ASSUME NEW r \in Requests, L2Hit(r) PROVE FillsAreSingle'
  <2>1. PICK x \in Contents : HitsWith(r, x)
    BY <1>3, HitOnDisk
  <2>2. /\ UNCHANGED <<l1, l2, key, linked, clean, floor, skewed>> /\ pc[r] = "l2"
        /\ pc' = [pc EXCEPT ![r] = "done"] /\ \A s \in Requests \ {r} : buf'[s] = buf[s]
    BY <1>3 DEF L2Hit, Answer
  <2>3. \A s \in Requests, k \in Keys : Filling(s, k)' => s # r /\ Filling(s, k)
    BY <2>2
  <2>4. \A k \in Keys \ skewed, y \in Versions : promos'[k][y] > 0 => l2[k] = y
    BY <2>1 DEF HitsWith
  <2> QED BY <2>2, <2>3, <2>4
<1>4. ASSUME NEW r \in Requests, L2Miss(r) PROVE FillsAreSingle'
  BY <1>4 DEF L2Miss
<1>5. ASSUME NEW r \in Requests, Fetch(r) PROVE FillsAreSingle'
  BY <1>5 DEF Fetch
<1>6. ASSUME NEW r \in Requests, FetchFails(r) PROVE FillsAreSingle'
  BY <1>6 DEF FetchFails
<1>7. ASSUME NEW r \in Requests, SetL1(r) PROVE FillsAreSingle'
  BY <1>7 DEF SetL1
<1>8. ASSUME NEW r \in Requests, OpenL2(r) PROVE FillsAreSingle'
  BY <1>8 DEF OpenL2
<1>9. ASSUME NEW r \in Requests, OpenL2Fails(r) PROVE FillsAreSingle'
  BY <1>9 DEF OpenL2Fails, Answer
<1>10. ASSUME NEW r \in Requests, WriteL2(r) PROVE FillsAreSingle'
  BY <1>10 DEF WriteL2, WriteThrough, Answer, Overwrite
<1>11. ASSUME NEW r \in Requests, WriteL2Fails(r) PROVE FillsAreSingle'
  BY <1>11 DEF WriteL2Fails, WriteThrough, Answer
<1>12. ASSUME NEW r \in Requests, DeleteL1(r) PROVE FillsAreSingle'
  BY <1>12 DEF DeleteL1
<1>13. ASSUME NEW r \in Requests, DeleteL2(r) PROVE FillsAreSingle'
  <2> DEFINE k == key[r]
  <2>1. /\ pc' = [pc EXCEPT ![r] = "done"] /\ pc[r] = "del2"
        /\ UNCHANGED <<l1, key, buf, promos>>
    BY <1>13 DEF DeleteL2
  <2>2. CASE k \in skewed'
    <3>1. /\ \A j \in Keys \ {k} : l2'[j] = l2[j] /\ (j \in skewed' <=> j \in skewed)
          /\ \A w \in Requests : key[w] # k => (w \in linked' <=> w \in linked)
      BY <1>13 DEF DeleteL2, Removed, Forget
    <3>2. \A s \in Requests, j \in Keys : Filling(s, j)' => s # r /\ Filling(s, j)
      BY <2>1
    <3>3. \A s \in Requests, j \in Keys \ {k} :
            Filling(s, j)' /\ FilledSoFar(s, j) => FilledSoFar(s, j)'
      BY <2>1, <3>1, <3>2
    <3>4. ASSUME NEW j \in Keys \ skewed', NEW s \in Requests, Filling(s, j)'
          PROVE  /\ \A q \in Requests : Filling(q, j)' => s = q
                 /\ FilledSoFar(s, j)'
                 /\ l1'[j] \in Versions => pc'[s] \in {"open", "write"} /\ l1'[j] = buf'[s]
      <4>1. j # k /\ j \notin skewed /\ s # r /\ pc'[s] = pc[s]
        BY <2>1, <2>2, <3>1, <3>2, <3>4
      <4>2. Filling(s, j) /\ FilledSoFar(s, j)'
        BY <3>2, <3>3, <3>4, <4>1
      <4> QED BY <2>1, <3>2, <4>1, <4>2
    <3>5. ASSUME NEW j \in Keys \ skewed', NEW y \in Versions, Promoting(j, y)'
          PROVE  l2'[j] = y
      BY <2>1, <2>2, <3>1, <3>5
    <3> HIDE DEF FilledSoFar, Filling, Promoting
    <3> QED BY <3>4, <3>5
  <2>3. CASE k \notin skewed'
    <3>1. r \in clean /\ skewed' = skewed \ {k} /\ Removed(k)
      BY <1>13, <2>3 DEF DeleteL2, Forget
    <3>2. /\ \A s \in Requests : s # r => ~Filling(s, k)
          /\ \A x \in Contents : ~Promoting(k, x)
      BY <3>1 DEF DeletionsAreAlone, Busy
    <3>3. /\ \A j \in Keys \ {k} : l2'[j] = l2[j]
          /\ \A w \in Requests : key[w] # k => (w \in linked' <=> w \in linked)
      BY <3>1 DEF Removed
    <3> QED BY <2>1, <3>1, <3>2, <3>3
  <2> QED BY <2>2, <2>3
<1>14. ASSUME NEW r \in Requests, NEW k \in Keys, StartProxy(r, k)
      PROVE  FillsAreSingle'
  BY <1>14 DEF StartProxy, Accept, Undisturbed
<1>15. ASSUME NEW r \in Requests, NEW k \in Keys, StartDelete(r, k)
      PROVE  FillsAreSingle'
  BY <1>15 DEF StartDelete, Accept, Undisturbed
<1>16. ASSUME NEW r \in Requests, NEW k \in Keys, StartDownload(r, k)
      PROVE  FillsAreSingle'
  BY <1>16 DEF StartDownload, Accept, Undisturbed
<1>17. ASSUME NEW k \in Keys, NEW x \in Contents, Promote(k, x)
      PROVE  FillsAreSingle'
  BY <1>17 DEF Promote, Landed
<1>18. ASSUME NEW k \in Keys, NEW x \in Contents, PromotionDropped(k, x)
      PROVE  FillsAreSingle'
  BY <1>18 DEF PromotionDropped, Landed
<1>19. ASSUME NEW k \in Keys, ExpireL1(k)
      PROVE  FillsAreSingle'
  BY <1>19 DEF ExpireL1
<1>20. ASSUME NEW k \in Keys, Republish(k)
      PROVE  FillsAreSingle'
  BY <1>20 DEF Republish
<1>21. CASE FlushCache
  BY <1>21 DEF FlushCache
<1>22. CASE Crash
  BY <1>22 DEF Crash, NoPromotions, Busy
<1>23. CASE UNCHANGED vars
  BY <1>23 DEF vars
<1> HIDE DEF FillsAreSingle
<1> QED BY <1>1, <1>2, <1>3, <1>4, <1>5, <1>6, <1>7, <1>8,
           <1>9, <1>10, <1>11, <1>12, <1>13, <1>14, <1>15, <1>16,
           <1>17, <1>18, <1>19, <1>20, <1>21, <1>22, <1>23
        DEF Next, ProxyStep

\* So the tiers of a key that is not skewed agree.
LEMMA StepKeepsAgreement ==
  ASSUME ProxyTypes, FillsAreCurrent, DeletionsAreAlone, FillsAreSingle, TiersAgree, [Next]_vars
  PROVE  TiersAgree'
<1> USE ContentFacts DEF ProxyTypes, FillsAreCurrent, FillsAreSingle, FilledSoFar, TiersAgree,
        Filling, Promoting, Places, At, Goto, Free, tiers, request, history
<1>1. ASSUME NEW r \in Requests, L1Hit(r) PROVE TiersAgree'
  BY <1>1 DEF L1Hit, Answer
<1>2. ASSUME NEW r \in Requests, L1Miss(r) PROVE TiersAgree'
  BY <1>2 DEF L1Miss
<1>3. ASSUME NEW r \in Requests, L2Hit(r) PROVE TiersAgree'
  BY <1>3 DEF L2Hit, Answer, Readable
<1>4. ASSUME NEW r \in Requests, L2Miss(r) PROVE TiersAgree'
  BY <1>4 DEF L2Miss
<1>5. ASSUME NEW r \in Requests, Fetch(r) PROVE TiersAgree'
  BY <1>5 DEF Fetch
<1>6. ASSUME NEW r \in Requests, FetchFails(r) PROVE TiersAgree'
  BY <1>6 DEF FetchFails
<1>7. ASSUME NEW r \in Requests, SetL1(r) PROVE TiersAgree'
  BY <1>7 DEF SetL1
<1>8. ASSUME NEW r \in Requests, OpenL2(r) PROVE TiersAgree'
  BY <1>8 DEF OpenL2
<1>9. ASSUME NEW r \in Requests, OpenL2Fails(r) PROVE TiersAgree'
  <2>1. /\ pc' = [pc EXCEPT ![r] = "done"] /\ pc[r] = "open"
        /\ UNCHANGED <<l1, l2, key>> /\ skewed \subseteq skewed'
    BY <1>9 DEF OpenL2Fails, Answer
  <2>2. \A s \in Requests, k \in Keys : Filling(s, k) => s = r \/ Filling(s, k)'
    BY <2>1
  <2>3. key[r] \notin skewed => l2[key[r]] = None
    BY <2>1
  <2> QED BY <2>1, <2>2, <2>3
<1>10. ASSUME NEW r \in Requests, WriteL2(r) PROVE TiersAgree'
  BY <1>10 DEF WriteL2, WriteThrough, Answer, Overwrite
<1>11. ASSUME NEW r \in Requests, WriteL2Fails(r) PROVE TiersAgree'
  BY <1>11 DEF WriteL2Fails, WriteThrough, Answer
<1>12. ASSUME NEW r \in Requests, DeleteL1(r) PROVE TiersAgree'
  <2>1. /\ pc' = [pc EXCEPT ![r] = "del2"] /\ pc[r] = "del1"
        /\ UNCHANGED <<l2, key, skewed>>
        /\ \A k \in Keys : l1'[k] \in Versions => l1'[k] = l1[k]
    BY <1>12 DEF DeleteL1
  <2>2. \A s \in Requests, k \in Keys : Filling(s, k) => Filling(s, k)'
    BY <2>1
  <2> QED BY <2>1, <2>2
<1>13. ASSUME NEW r \in Requests, DeleteL2(r) PROVE TiersAgree'
  BY <1>13 DEF DeleteL2, Removed, Forget, DeletionsAreAlone, Busy
<1>14. ASSUME NEW r \in Requests, NEW k \in Keys, StartProxy(r, k)
      PROVE  TiersAgree'
  BY <1>14 DEF StartProxy, Accept, Undisturbed
<1>15. ASSUME NEW r \in Requests, NEW k \in Keys, StartDelete(r, k)
      PROVE  TiersAgree'
  BY <1>15 DEF StartDelete, Accept, Undisturbed
<1>16. ASSUME NEW r \in Requests, NEW k \in Keys, StartDownload(r, k)
      PROVE  TiersAgree'
  BY <1>16 DEF StartDownload, Accept, Undisturbed
<1>17. ASSUME NEW k \in Keys, NEW x \in Contents, Promote(k, x)
      PROVE  TiersAgree'
  BY <1>17 DEF Promote, Landed
<1>18. ASSUME NEW k \in Keys, NEW x \in Contents, PromotionDropped(k, x)
      PROVE  TiersAgree'
  BY <1>18 DEF PromotionDropped, Landed
<1>19. ASSUME NEW k \in Keys, ExpireL1(k)
      PROVE  TiersAgree'
  BY <1>19 DEF ExpireL1
<1>20. ASSUME NEW k \in Keys, Republish(k)
      PROVE  TiersAgree'
  BY <1>20 DEF Republish
<1>21. CASE FlushCache
  BY <1>21 DEF FlushCache
<1>22. CASE Crash
  BY <1>22 DEF Crash, NoPromotions, Busy
<1>23. CASE UNCHANGED vars
  BY <1>23 DEF vars
<1> HIDE DEF TiersAgree
<1> QED BY <1>1, <1>2, <1>3, <1>4, <1>5, <1>6, <1>7, <1>8,
           <1>9, <1>10, <1>11, <1>12, <1>13, <1>14, <1>15, <1>16,
           <1>17, <1>18, <1>19, <1>20, <1>21, <1>22, <1>23
        DEF Next, ProxyStep

LEMMA ProxyInvHolds == Spec => []ProxyInv
<1>1. ProxyInv /\ [Next]_vars => ProxyInv'
  BY StepKeepsTypesOfProxy, StepKeepsFillsCurrent, StepKeepsDeletionsAlone,
     StepKeepsNothingOlder, StepKeepsContentsSound, StepKeepsFillsSingle,
     StepKeepsAgreement DEF ProxyInv
<1> QED BY <1>1, ProxyBegins, PTL DEF Spec

-----------------------------------------------------------------------------
(* What follows from it.                                                    *)

\* What Invalidate has removed from both tiers, meeting no request for the key,
\* no promotion and no error, never comes back: neither tier holds a version
\* older than upstream's at that moment, whatever happens later.
THEOREM DeletionsLast == Spec => []NothingOlderThanADeletion
<1>1. ProxyInv => NothingOlderThanADeletion
  BY DEF ProxyInv, NothingIsOlder, NotOlder, NothingOlderThanADeletion
<1> QED BY <1>1, ProxyInvHolds, PTL

\* Redis and the disk hold the same version of a key unless two requests filled
\* it at once, a call failed or a deletion met another request (Get, Set,
\* promoteToL1).
THEOREM TiersHoldTheSame == Spec => []TiersAgree
<1>1. ProxyInv => TiersAgree
  BY DEF ProxyInv
<1> QED BY <1>1, ProxyInvHolds, PTL

\* A hit in either tier answers with a whole version: a file that is being
\* written, was cut short or had two writers is all that getFromL2 can return
\* else, and promoteToL1 carry on.
THEOREM HitsAreWhole == Spec => AnswersAreWhole
<1>1. ASSUME ProxyInv, [Next]_vars, NEW q \in Requests,
             source[q] = "none", source'[q] \in {"redis", "disk"}
      PROVE  buf'[q] \in Versions \/ key[q] \in spoiled'
  <2> USE ContentFacts, <1>1 DEF ProxyInv, ProxyTypes, ContentsAreSound, Sound
  <2>1. CASE L1Hit(q)
    BY <2>1 DEF L1Hit, Answer, Goto, history
  <2>2. CASE L2Hit(q)
    <3>1. PICK x \in Contents : HitsWith(q, x)
      BY <2>2, HitOnDisk
    <3> QED BY <3>1 DEF HitsWith
  <2>3. ASSUME ~L1Hit(q), ~L2Hit(q) PROVE source'[q] \notin {"redis", "disk"}
    <3> USE <2>3 DEF Answer, request
    <3>1. ASSUME NEW r \in Requests, L1Hit(r) \/ L2Hit(r) PROVE source'[q] = source[q]
      BY <3>1 DEF L1Hit, L2Hit
    <3>2. ASSUME NEW r \in Requests,
                 L1Miss(r) \/ L2Miss(r) \/ Fetch(r) \/ FetchFails(r) \/ SetL1(r)
                 \/ OpenL2(r) \/ DeleteL1(r) \/ DeleteL2(r)
          PROVE  source' = source
      BY <3>2 DEF L1Miss, L2Miss, Fetch, FetchFails, SetL1, OpenL2, DeleteL1, DeleteL2
    <3>3. ASSUME NEW r \in Requests,
                 OpenL2Fails(r) \/ WriteL2(r) \/ WriteL2Fails(r)
          PROVE  source'[q] \in {source[q], "remote"}
      BY <3>3 DEF OpenL2Fails, WriteL2, WriteL2Fails, WriteThrough
    <3>4. ASSUME NEW r \in Requests, NEW k \in Keys,
                 StartProxy(r, k) \/ StartDelete(r, k) \/ StartDownload(r, k)
          PROVE  source'[q] = "none"
      BY <3>4 DEF StartProxy, StartDelete, StartDownload, Accept
    <3>5. ASSUME NEW k \in Keys, NEW x \in Contents,
                 Promote(k, x) \/ PromotionDropped(k, x) \/ ExpireL1(k) \/ Republish(k)
          PROVE  source' = source
      BY <3>5 DEF Promote, PromotionDropped, ExpireL1, Republish
    <3>6. CASE FlushCache \/ Crash \/ UNCHANGED vars
      BY <3>6 DEF FlushCache, Crash, vars
    <3> QED BY <3>1, <3>2, <3>3, <3>4, <3>5, <3>6 DEF Next, ProxyStep
  <2> QED BY <2>1, <2>2, <2>3
<1>2. ProxyInv /\ [Next]_vars =>
        [\A r \in Requests :
           source[r] = "none" /\ source'[r] \in {"redis", "disk"} =>
             buf'[r] \in Versions \/ key[r] \in spoiled']_vars
  BY <1>1
<1> QED BY <1>2, ProxyInvHolds, PTL DEF Spec, AnswersAreWhole
============================================================================
