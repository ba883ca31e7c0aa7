----------------------------- MODULE CacheScan -----------------------------
(***************************************************************************)
(* Scans of cached artifacts (internal/handlers/cache_handler.go, with the *)
(* rows that remote_proxy_handler.go writes): the row of one cache key in   *)
(* cached_artifacts, its entries in scan_queue, and the reports.            *)
(*                                                                          *)
(* A scan request checks the row, queues a job, marks the row and starts a  *)
(* goroutine that scans and writes the outcome in four statements, none in  *)
(* a transaction.  Meanwhile the proxy fetches the artifact again, and the  *)
(* eviction of unused or expired rows removes the row, its id with it.      *)
(***************************************************************************)
EXTENDS Naturals

CONSTANTS
  Jobs,   \* scan requests, each with the goroutine it starts
  Null,   \* no row, no job, no report
  ScanPlans   \* bounds: how many fills, evictions, faults and crashes happen

Rows == [id: Nat, status: {"pending", "scanning", "completed", "failed"},
         quarantined: BOOLEAN, results: Jobs \cup {Null}]

ASSUME CacheScanAssumption ==
  /\ Null \notin Jobs \cup Rows
  /\ ScanPlans \subseteq [fills: Nat, evictions: Nat, faults: Nat, crashes: Nat]

VARIABLES
  row,       \* the row of cached_artifacts, or Null
  nextId,    \* ids given to rows so far; a row that comes back has a new one
  queue,     \* [Jobs -> status of its entry in scan_queue]
  scans,     \* jobs with a row in security_scans
  reports,   \* jobs with a row in scan_results
  place,     \* [Jobs -> where the request or its goroutine is]
  target,    \* [Jobs -> id of the row it scans]
  verdict,   \* [Jobs -> what the scanners found]
  lost,      \* history: jobs one of whose statements failed
  budget     \* what is left of the bounds

tables == <<row, nextId, queue, scans, reports>>
scanVars ==
  <<row, nextId, queue, scans, reports, place, target, verdict, lost, budget>>

Handler   == {"checked", "queued"}
Goroutine == {"started", "scanning", "failing", "failed", "inserting",
              "reporting", "updating", "finishing"}
Ended     == {"refused", "done", "dead"}

ScanTypeOK ==
  /\ row \in Rows \cup {Null}
  /\ nextId \in Nat
  /\ row # Null => row.id <= nextId
  /\ queue \in [Jobs -> {"none", "queued", "processing", "completed", "failed"}]
  /\ scans \in SUBSET Jobs
  /\ reports \in SUBSET scans
  /\ place \in [Jobs -> {"new"} \cup Handler \cup Goroutine \cup Ended]
  /\ target \in [Jobs -> Nat]
  /\ verdict \in [Jobs -> {"none", "error", "clean", "critical"}]
  /\ lost \in SUBSET Jobs
  /\ budget \in [fills: Nat, evictions: Nat, faults: Nat, crashes: Nat]

ScanInit ==
  /\ row = Null /\ nextId = 0
  /\ queue = [j \in Jobs |-> "none"]
  /\ scans = {} /\ reports = {}
  /\ place = [j \in Jobs |-> "new"]
  /\ target = [j \in Jobs |-> 0]
  /\ verdict = [j \in Jobs |-> "none"]
  /\ lost = {}
  /\ budget \in ScanPlans

SpendScan(what) == budget[what] > 0 /\ budget' = [budget EXCEPT ![what] = @ - 1]

-----------------------------------------------------------------------------
(* The row: written when the proxy has fetched, removed when it is old.     *)

NewRow(id) == [id |-> id, status |-> "pending", quarantined |-> FALSE,
               results |-> Null]

\* Mutant: the conflict clause resets what the scans wrote.
PersistAfresh ==
  /\ SpendScan("fills")
  /\ row' = IF row = Null THEN NewRow(nextId + 1) ELSE NewRow(row.id)
  /\ nextId' = IF row = Null THEN nextId + 1 ELSE nextId
  /\ UNCHANGED <<queue, scans, reports, place, target, verdict, lost>>

\* persistCachedArtifact: INSERT ... ON CONFLICT DO UPDATE, which writes size,
\* checksum and hits of a row that exists and nothing that a scan wrote.
Persist ==
  /\ SpendScan("fills")
  /\ row' = IF row = Null THEN NewRow(nextId + 1) ELSE row
  /\ nextId' = IF row = Null THEN nextId + 1 ELSE nextId
  /\ UNCHANGED <<queue, scans, reports, place, target, verdict, lost>>

\* EvictUnusedCache and CleanupExpiredCache: the ages are left open; the
\* entries in scan_queue go with the row (ON DELETE CASCADE).
Evict ==
  /\ row # Null /\ ~row.quarantined
  /\ SpendScan("evictions")
  /\ row' = Null
  /\ queue' = [j \in Jobs |-> IF target[j] = row.id THEN "none" ELSE queue[j]]
  /\ UNCHANGED <<nextId, scans, reports, place, target, verdict, lost>>

-----------------------------------------------------------------------------
(* ScanCacheItem. *)

Go(j, from, to) == place[j] = from /\ place' = [place EXCEPT ![j] = to]

\* A statement of job j whose error is logged or dropped: it runs, or fails.
Attempt(j, Effect, Nothing) ==
  \/ Effect /\ UNCHANGED <<lost, budget>>
  \/ Nothing /\ SpendScan("faults") /\ lost' = lost \cup {j}

Scannable == row # Null /\ row.status # "scanning"

\* The row is read; a missing one is a 404, one being scanned a 409.
Request(j) ==
  /\ Go(j, "new", IF Scannable THEN "checked" ELSE "refused")
  /\ target' = IF Scannable THEN [target EXCEPT ![j] = row.id] ELSE target
  /\ UNCHANGED <<tables, verdict, lost, budget>>

Exists(j) == row # Null /\ row.id = target[j]

\* INSERT INTO scan_queue, refused if the row has gone meanwhile.
Enqueue(j) ==
  /\ UNCHANGED <<row, nextId, scans, reports, target, verdict, lost>>
  /\ \/ /\ Exists(j)
        /\ Go(j, "checked", "queued")
        /\ queue' = [queue EXCEPT ![j] = "queued"]
        /\ UNCHANGED budget
     \/ /\ Go(j, "checked", "refused")
        /\ Exists(j) => budget.faults > 0
        /\ budget' = [budget EXCEPT !.faults = IF Exists(j) THEN @ - 1 ELSE @]
        /\ UNCHANGED queue

RowGets(j, fields) == row' = IF Exists(j) THEN fields ELSE row

WithStatus(status) == [id |-> row.id, status |-> status,
                       quarantined |-> row.quarantined, results |-> row.results]

QueueGets(j, status) ==
  queue' = [queue EXCEPT ![j] = IF queue[j] = "none" THEN "none" ELSE status]

\* UPDATE ... 'scanning', its error ignored, and the goroutine is started.
Mark(j) ==
  /\ Go(j, "queued", "started")
  /\ Attempt(j, RowGets(j, WithStatus("scanning")), UNCHANGED row)
  /\ UNCHANGED <<nextId, queue, scans, reports, target, verdict>>

-----------------------------------------------------------------------------
(* performScan. *)

Process(j) ==
  /\ Go(j, "started", "scanning")
  /\ Attempt(j, QueueGets(j, "processing"), UNCHANGED queue)
  /\ UNCHANGED <<row, nextId, scans, reports, target, verdict>>

\* ScanWithAll: an error, or at least one scanner's result.  A result-less
\* success, for which the handler has a branch, does not come out of it.
ScanWithAll(j) ==
  /\ \E v \in {"error", "clean", "critical"} :
       /\ verdict' = [verdict EXCEPT ![j] = v]
       /\ Go(j, "scanning", IF v = "error" THEN "failing" ELSE "inserting")
  /\ UNCHANGED <<tables, target, lost, budget>>

\* Mutant: a failed scan leaves the row as it is.
FailQueueAndStop(j) ==
  /\ Go(j, "failing", "done")
  /\ Attempt(j, QueueGets(j, "failed"), UNCHANGED queue)
  /\ UNCHANGED <<row, nextId, scans, reports, target, verdict>>

FailQueue(j) ==
  /\ Go(j, "failing", "failed")
  /\ Attempt(j, QueueGets(j, "failed"), UNCHANGED queue)
  /\ UNCHANGED <<row, nextId, scans, reports, target, verdict>>

FailRow(j) ==
  /\ Go(j, "failed", "done")
  /\ Attempt(j, RowGets(j, WithStatus("failed")), UNCHANGED row)
  /\ UNCHANGED <<nextId, queue, scans, reports, target, verdict>>

\* Mutant: the artifact is updated before its report is stored.
UpdateRowEarly(j) ==
  /\ Go(j, "inserting", "reporting")
  /\ scans' = scans \cup {j}
  /\ RowGets(j, [row EXCEPT !.status = "completed", !.results = j,
                            !.quarantined = (verdict[j] = "critical")])
  /\ UNCHANGED <<nextId, queue, reports, target, verdict, lost, budget>>

InsertScan(j) ==
  /\ Go(j, "inserting", "reporting")
  /\ Attempt(j, scans' = scans \cup {j}, UNCHANGED scans)
  /\ UNCHANGED <<row, nextId, queue, reports, target, verdict>>

\* The report's foreign key: no report without the row of the scan.
InsertReport(j) ==
  /\ Go(j, "reporting", "updating")
  /\ Attempt(j, reports' = reports \cup ({j} \cap scans), UNCHANGED reports)
  /\ UNCHANGED <<row, nextId, queue, scans, target, verdict>>

\* One statement sets status, report and quarantine together.
UpdateRow(j) ==
  /\ Go(j, "updating", "finishing")
  /\ Attempt(j, RowGets(j, [id |-> row.id, status |-> "completed", results |-> j,
                             quarantined |-> verdict[j] = "critical"]),
             UNCHANGED row)
  /\ UNCHANGED <<nextId, queue, scans, reports, target, verdict>>

FinishQueue(j) ==
  /\ Go(j, "finishing", "done")
  /\ Attempt(j, QueueGets(j, "completed"), UNCHANGED queue)
  /\ UNCHANGED <<row, nextId, scans, reports, target, verdict>>

\* The process dies with its requests and goroutines; nothing polls scan_queue
\* when it is back.
ScanCrash ==
  /\ SpendScan("crashes")
  /\ place' = [j \in Jobs |-> IF place[j] \in Handler \cup Goroutine
                              THEN "dead" ELSE place[j]]
  /\ UNCHANGED <<tables, target, verdict, lost>>

Scanning(j) ==
  \/ Process(j) \/ ScanWithAll(j) \/ FailQueue(j) \/ FailRow(j)
  \/ InsertScan(j) \/ InsertReport(j) \/ UpdateRow(j) \/ FinishQueue(j)

ScanNext ==
  \/ Persist \/ Evict \/ ScanCrash
  \/ \E j \in Jobs : Request(j) \/ Enqueue(j) \/ Mark(j) \/ Scanning(j)

ScanSpec == ScanInit /\ [][ScanNext]_scanVars

\* A handler and the goroutine it started run on; nobody need ask for a scan.
Fairness == \A j \in Jobs : WF_scanVars(Enqueue(j) \/ Mark(j) \/ Scanning(j))

FairScanSpec == ScanSpec /\ Fairness
-----------------------------------------------------------------------------
(* Properties. *)

Crashed == \E j \in Jobs : place[j] = "dead"

Working(j) == place[j] \in Goroutine /\ target[j] = row.id

\* "Scan already in progress": a row that refuses scans because it is being
\* scanned has a goroutine that will answer, unless the process crashed or a
\* status update failed, also when two requests passed the check together,
\* one scan outlived the row, and the row came back.
RefusedOnlyByWork ==
  row # Null /\ row.status = "scanning" =>
    \/ \E j \in Jobs : Working(j)
    \/ Crashed
    \/ \E j \in lost : target[j] = row.id

\* A quarantine outlives refetches, evictions, failed scans and crashes: only a
\* scan of the row itself that found nothing critical ends it, and never one of
\* an evicted row of the same artifact.
QuarantineIsKept ==
  [][row # Null /\ row.quarantined =>
       /\ row' # Null /\ row'.id = row.id
       /\ row'.quarantined \/ \E j \in Jobs :
            place[j] = "updating" /\ place'[j] # "updating"
              /\ target[j] = row.id /\ verdict[j] = "clean"]_scanVars

\* Whatever was interrupted, the report a row points to is there and says what
\* the row's quarantine says, unless an insert of that job failed.
ReportBehindTheRow ==
  row # Null /\ row.results # Null =>
    /\ row.results \in reports \cup lost
    /\ row.quarantined <=> verdict[row.results] = "critical"

\* A completed entry of the queue means that its artifact has a verdict: the
\* row is written before the entry, and no refetch and no eviction takes the
\* verdict from one and leaves the other.
CompletedEntryHasVerdict ==
  \A j \in Jobs \ lost : queue[j] = "completed" =>
    Exists(j) /\ row.results # Null

\* A row does not stay "scanning" for ever, unless the process crashed or an
\* update failed.
ScanningEnds ==
  (row # Null /\ row.status = "scanning")
    ~> (row = Null \/ row.status # "scanning" \/ Crashed \/ lost # {})
=============================================================================
