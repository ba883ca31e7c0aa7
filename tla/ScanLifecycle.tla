--------------------------- MODULE ScanLifecycle ---------------------------
(***************************************************************************)
(* ScanLifecycle (internal/service/scan_service.go, internal/handlers/      *)
(* scanning_handler.go, internal/repository/scan_repository.go): an upload  *)
(* or a request starts a security scan of an artifact, which a goroutine    *)
(* carries out and records step by step while others start scans of the     *)
(* same artifact or cancel this one.                                        *)
(*                                                                          *)
(* One artifact is modelled, with a version number for its contents: a new  *)
(* upload keeps the artifact's id.  A scan is known by the request that     *)
(* starts it.  What the scanners say of a version is an arbitrary finding.  *)
(***************************************************************************)
EXTENDS Naturals, FiniteSets

CONSTANTS
  Scans,        \* requests that start a scan, and the rows they create
  Cancellers,   \* requests that cancel a scan
  None,
  MaxVersion,   \* bound: uploads of the artifact
  MaxErrors,    \* bound: statements of the database that fail
  MaxCrashes    \* bound: crashes of the process

VARIABLES
  version,   \* contents of the artifact, 0 before the first upload
  status,    \* [Scans -> security_scans.status, None without a row]
  results,   \* scans with a row in scan_results
  audit,     \* the scan of the latest row of compliance_audits, or None
  pc,        \* [Scans -> where the request, then its goroutine, is]
  of,        \* [Scans -> the version of the artifact record it holds]
  found,     \* [Scans -> what the scanners reported]
  target,    \* [Cancellers -> the scan it has read as active, or None]
  raced,     \* history: pairs of scans that were both past the check, uncreated
  unchecked, \* history: scans whose check or whose last update failed
  cancelled, \* history: scans whose cancellation was answered with success
  errors, crashes

db   == <<status, results, audit>>
hist == <<raced, unchecked, cancelled>>
vars == <<version, status, results, audit, pc, of, found, target, raced,
          unchecked, cancelled, errors, crashes>>

Active   == {"initiated", "running"}
Statuses == Active \cup {"completed", "failed", "cancelled"}
PCs      == {"idle", "check", "create", "load", "run", "scan", "save",
             "complete", "comply", "fail", "end"}
Findings == {"none", "clean", "vulnerable", "error"}

ASSUME ScanAssumption ==
  /\ None \notin Scans \cup Cancellers \cup Statuses
  /\ {MaxVersion, MaxErrors, MaxCrashes} \subseteq Nat

\* The goroutine of a scan works on between the creation of its row and the
\* row's last status; the audit it adds comes after that.
Working(s) == pc[s] \in {"load", "run", "scan", "save", "complete", "fail"}

TypeOK ==
  /\ version \in Nat
  /\ status \in [Scans -> Statuses \cup {None}]
  /\ results \in SUBSET Scans
  /\ audit \in Scans \cup {None}
  /\ pc \in [Scans -> PCs]
  /\ of \in [Scans -> Nat]
  /\ found \in [Scans -> Findings]
  /\ target \in [Cancellers -> Scans \cup {None}]
  /\ raced \in SUBSET (SUBSET Scans)
  /\ unchecked \in SUBSET Scans
  /\ cancelled \in SUBSET Scans
  /\ errors \in Nat /\ crashes \in Nat

Init ==
  /\ version = 0
  /\ status = [s \in Scans |-> None]
  /\ results = {} /\ audit = None
  /\ pc = [s \in Scans |-> "idle"]
  /\ of = [s \in Scans |-> 0]
  /\ found = [s \in Scans |-> "none"]
  /\ target = [c \in Cancellers |-> None]
  /\ raced = {} /\ unchecked = {} /\ cancelled = {}
  /\ errors = 0 /\ crashes = 0

Goto(s, label) == pc' = [pc EXCEPT ![s] = label]
SetStatus(s, x) == status' = [status EXCEPT ![s] = x]
Fails == errors < MaxErrors /\ errors' = errors + 1
-----------------------------------------------------------------------------
(* The requests that start a scan. *)

\* An upload stores a new version and triggers a scan with its own record.
Upload(s) ==
  /\ pc[s] = "idle"
  /\ version < MaxVersion
  /\ version' = version + 1
  /\ of' = [of EXCEPT ![s] = version + 1]
  /\ Goto(s, "check")
  /\ UNCHANGED <<db, found, target, hist, errors, crashes>>

\* A request for a scan reads the artifact's record.
Request(s) ==
  /\ pc[s] = "idle"
  /\ version > 0
  /\ of' = [of EXCEPT ![s] = version]
  /\ Goto(s, "check")
  /\ UNCHANGED <<version, db, found, target, hist, errors, crashes>>

Pairs(s) == {{s, t} : t \in {t \in Scans \ {s} : pc[t] = "create"}}

\* Mutant: only a running scan counts as in progress.
CheckRunning(s) ==
  /\ pc[s] = "check"
  /\ \/ /\ \E t \in Scans : status[t] = "running"
        /\ Goto(s, "end")
        /\ UNCHANGED <<raced, unchecked, errors>>
     \/ /\ \A t \in Scans : status[t] # "running"
        /\ Goto(s, "create")
        /\ raced' = raced \cup Pairs(s)
        /\ UNCHANGED <<unchecked, errors>>
     \/ /\ Fails
        /\ Goto(s, "create")
        /\ unchecked' = unchecked \cup {s}
        /\ UNCHANGED raced
  /\ UNCHANGED <<version, db, of, found, target, cancelled, crashes>>

\* GetActiveScan: a scan in progress ends the request, an error does not.
Check(s) ==
  /\ pc[s] = "check"
  /\ \/ /\ \E t \in Scans : status[t] \in Active
        /\ Goto(s, "end")
        /\ UNCHANGED <<raced, unchecked, errors>>
     \/ /\ \A t \in Scans : status[t] \notin Active
        /\ Goto(s, "create")
        /\ raced' = raced \cup Pairs(s)
        /\ UNCHANGED <<unchecked, errors>>
     \/ /\ Fails
        /\ Goto(s, "create")
        /\ unchecked' = unchecked \cup {s}
        /\ UNCHANGED raced
  /\ UNCHANGED <<version, db, of, found, target, cancelled, crashes>>

\* The row is created and the goroutine started, or the request fails.
Create(s) ==
  /\ pc[s] = "create"
  /\ \/ /\ SetStatus(s, "initiated")
        /\ Goto(s, "load")
        /\ UNCHANGED errors
     \/ /\ Fails
        /\ Goto(s, "end")
        /\ UNCHANGED status
  /\ UNCHANGED <<version, results, audit, of, found, target, hist, crashes>>
-----------------------------------------------------------------------------
(* ScanArtifact, in the goroutine. *)

\* The data is downloaded, decrypted and written to a file, or is not.
Load(s) ==
  /\ pc[s] = "load"
  /\ \/ Goto(s, "run") \/ Goto(s, "fail")
  /\ UNCHANGED <<version, db, of, found, target, hist, errors, crashes>>

\* An update of the row writes the status the goroutine holds over whatever
\* the row has.
Run(s) ==
  /\ pc[s] = "run"
  /\ \/ /\ SetStatus(s, "running")
        /\ Goto(s, "scan")
        /\ UNCHANGED errors
     \/ /\ Fails
        /\ Goto(s, "fail")
        /\ UNCHANGED status
  /\ UNCHANGED <<version, results, audit, of, found, target, hist, crashes>>

\* The scanners run; if they fail the results are those of a clean artifact.
Scan(s) ==
  /\ pc[s] = "scan"
  /\ \E f \in Findings \ {"none"} : found' = [found EXCEPT ![s] = f]
  /\ Goto(s, "save")
  /\ UNCHANGED <<version, db, of, target, hist, errors, crashes>>

Save(s) ==
  /\ pc[s] = "save"
  /\ \/ /\ results' = results \cup {s}
        /\ Goto(s, "complete")
        /\ UNCHANGED errors
     \/ /\ Fails
        /\ Goto(s, "fail")
        /\ UNCHANGED results
  /\ UNCHANGED <<version, status, audit, of, found, target, hist, crashes>>

\* Mutant: the compliance is updated although the row was not.
CompleteIgnoringErrors(s) ==
  /\ pc[s] = "complete"
  /\ \/ /\ SetStatus(s, "completed")
        /\ UNCHANGED errors
     \/ /\ Fails
        /\ UNCHANGED status
  /\ Goto(s, "comply")
  /\ UNCHANGED <<version, results, audit, of, found, target, hist, crashes>>

Complete(s) ==
  /\ pc[s] = "complete"
  /\ \/ /\ SetStatus(s, "completed")
        /\ Goto(s, "comply")
        /\ UNCHANGED errors
     \/ /\ Fails
        /\ Goto(s, "fail")
        /\ UNCHANGED status
  /\ UNCHANGED <<version, results, audit, of, found, target, hist, crashes>>

\* updateComplianceFromScan adds an audit, and only logs an error.
Comply(s) ==
  /\ pc[s] = "comply"
  /\ \/ audit' = s /\ UNCHANGED errors
     \/ Fails /\ UNCHANGED audit
  /\ Goto(s, "end")
  /\ UNCHANGED <<version, status, results, of, found, target, hist, crashes>>

\* Mutant: an error ends the goroutine without an update.
FailSilently(s) ==
  /\ pc[s] = "fail"
  /\ Goto(s, "end")
  /\ UNCHANGED <<version, db, of, found, target, hist, errors, crashes>>

\* The goroutine records the failure; an error of that update is ignored.
Fail(s) ==
  /\ pc[s] = "fail"
  /\ \/ /\ SetStatus(s, "failed")
        /\ UNCHANGED <<unchecked, errors>>
     \/ /\ Fails
        /\ unchecked' = unchecked \cup {s}
        /\ UNCHANGED status
  /\ Goto(s, "end")
  /\ UNCHANGED <<version, results, audit, of, found, target, raced, cancelled,
                 crashes>>
-----------------------------------------------------------------------------
(* CancelScanByUUID, and the process. *)

CancelRead(c, s) ==
  /\ target[c] = None
  /\ status[s] \in Active
  /\ target' = [target EXCEPT ![c] = s]
  /\ UNCHANGED <<version, db, pc, of, found, hist, errors, crashes>>

\* The row is updated as it was read, and the goroutine is not told.
CancelWrite(c) ==
  /\ target[c] # None
  /\ \/ /\ SetStatus(target[c], "cancelled")
        /\ cancelled' = cancelled \cup {target[c]}
        /\ UNCHANGED errors
     \/ /\ Fails
        /\ UNCHANGED <<status, cancelled>>
  /\ target' = [target EXCEPT ![c] = None]
  /\ UNCHANGED <<version, results, audit, pc, of, found, raced, unchecked,
                 crashes>>

Crash ==
  /\ crashes < MaxCrashes
  /\ crashes' = crashes + 1
  /\ pc' = [s \in Scans |-> IF pc[s] = "idle" THEN "idle" ELSE "end"]
  /\ target' = [c \in Cancellers |-> None]
  /\ UNCHANGED <<version, db, of, found, hist, errors>>

ScanStep(s) ==
  \/ Check(s) \/ Create(s) \/ Load(s) \/ Run(s) \/ Scan(s) \/ Save(s)
  \/ Complete(s) \/ Comply(s) \/ Fail(s)

Next ==
  \/ \E s \in Scans : Upload(s) \/ Request(s) \/ ScanStep(s)
  \/ \E c \in Cancellers : CancelWrite(c) \/ \E s \in Scans : CancelRead(c, s)
  \/ Crash

Spec == Init /\ [][Next]_vars

\* A started goroutine runs on; scanners and statements return, because the
\* goroutine's context has a timeout of thirty minutes.
FairSpec == Spec /\ \A s \in Scans : WF_vars(ScanStep(s))
-----------------------------------------------------------------------------
(* Properties. *)

\* Two goroutines scan the artifact at one time only if their checks fell
\* between each other's check and insert, one was cancelled and scans on, or
\* a check failed: the row in the table serves as the lock.
OneScanAtATime ==
  \A s, t \in Scans : s # t /\ Working(s) /\ Working(t) =>
    \/ {s, t} \in raced
    \/ \E x \in {s, t} : x \in cancelled \cup unchecked

\* A row that blocks new scans has a goroutine that will free it, unless the
\* process crashed or the row of a failure could not be written.
BlockedOnlyByWork ==
  crashes = 0 => \A s \in Scans :
    status[s] \in Active => Working(s) \/ s \in unchecked

\* The compliance of an artifact comes from a scan whose results are stored
\* and which was recorded as completed, whatever cancellations wrote later.
ComplianceHasResults ==
  audit # None =>
    /\ audit \in results
    /\ status[audit] = "completed" \/ audit \in cancelled

\* A scan says completed only with its results in the table, in any order of
\* cancellations, failed statements and crashes.
CompletedHasResults ==
  \A s \in Scans : status[s] = "completed" => s \in results

\* A row that says initiated or running does not say so for ever.
EveryScanEnds ==
  \A s \in Scans : status[s] \in Active ~>
    status[s] \notin Active \/ crashes > 0 \/ s \in unchecked

\* upload_download_handler.go:655, "triggerAutomaticScan initiates a security
\* scan for a newly uploaded artifact": when all is quiet the last upload has a
\* scan.
NewUploadIsScanned ==
  errors = 0 /\ crashes = 0 /\ version > 0
  /\ (\A s \in Scans : pc[s] \in {"idle", "end"}) =>
    \E s \in Scans : status[s] # None /\ of[s] = version
=============================================================================
