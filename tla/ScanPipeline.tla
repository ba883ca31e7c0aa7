---------------------------- MODULE ScanPipeline ----------------------------
(***************************************************************************)
(* One call of ScanPipeline.Execute (internal/scanner/pipeline.go,          *)
(* executor.go, aggregator.go): the selected scanners run in a goroutine    *)
(* each, retry, and send one outcome into a channel with a slot for every   *)
(* scanner; a goroutine closes the channel when all are through; the caller *)
(* collects, and merges what it has into a report.  The time of the call    *)
(* may run out at any moment, and a fail-fast request stops collecting at   *)
(* the first error.                                                         *)
(*                                                                          *)
(* Scanners are external programs: an attempt ends in an error or in any    *)
(* answer, whatever the state of its context.  The report is a set: the     *)
(* sort by severity only orders it for display.                             *)
(***************************************************************************)
EXTENDS Naturals, Sequences, FiniteSets

CONSTANTS
  Scanners,   \* the scanners there are
  Keys,       \* what identifies a vulnerability: CVE, or package|ID|title
  Answers,    \* the answers a scanner may give, each a sequence of findings
  Requests    \* what may be asked: see Request

Severities == {"CRITICAL", "HIGH", "MEDIUM", "LOW"}
Finding    == [key: Keys, severity: Severities]

\* given: the scanners the request brings along; named: whether it names a
\* workflow; workflow: the scanners this lists, none if there is no such
\* workflow, which also ends the call with an error; typed: those that support
\* the type of the file; registered: those that were available at start-up;
\* expires: whether the time of the call can run out (a bound).
Request == [given: SUBSET Scanners, named: BOOLEAN, workflow: SUBSET Scanners,
            typed: SUBSET Scanners, registered: SUBSET Scanners,
            failFast: BOOLEAN, retries: Nat, skipUnavailable: BOOLEAN,
            expires: BOOLEAN]

ASSUME ScanPipelineAssumption ==
  /\ Answers \subseteq Seq(Finding) /\ <<>> \in Answers
  /\ Requests \subseteq Request

VARIABLES
  request,   \* the call and its options
  caller,    \* where the caller is: "new", "collecting", "merging", or its end
  live,      \* whether the call's context is live
  task,      \* [Scanners -> where the scanner's goroutine is]
  tries,     \* [Scanners -> attempts begun]
  late,      \* history: [Scanners -> attempts begun on a dead context]
  outcome,   \* [Scanners -> what execResult carries: "none", "error", "answer"]
  answer,    \* [Scanners -> the answer, for those that have one]
  channel,   \* resultChan: scanners whose outcome waits
  closed,    \* resultChan is closed
  results,   \* scanners whose answer was collected, in order of arrival
  errors,    \* scanners whose error was collected
  report     \* the vulnerabilities reported, when the caller has merged

vars == <<request, caller, live, task, tries, late, outcome, answer, channel,
          closed, results, errors, report>>

AtWork == {"checking", "scanning", "backoff", "sending"}
Ended  == {"answered", "failed"}

TypeOK ==
  /\ request \in Requests
  /\ caller \in {"new", "collecting", "merging"} \cup Ended
  /\ live \in BOOLEAN /\ closed \in BOOLEAN
  /\ task \in [Scanners -> {"idle", "done"} \cup AtWork]
  /\ tries \in [Scanners -> Nat] /\ late \in [Scanners -> Nat]
  /\ outcome \in [Scanners -> {"none", "error", "answer"}]
  /\ answer \in [Scanners -> Answers]
  /\ {channel, results, errors} \subseteq Seq(Scanners)
  /\ \A s \in Scanners : task[s] \in {"sending", "done"} => outcome[s] # "none"
  /\ report \in SUBSET Finding

Init ==
  /\ request \in Requests
  /\ caller = "new" /\ live = TRUE /\ closed = FALSE
  /\ task = [s \in Scanners |-> "idle"]
  /\ tries = [s \in Scanners |-> 0] /\ late = [s \in Scanners |-> 0]
  /\ outcome = [s \in Scanners |-> "none"]
  /\ answer = [s \in Scanners |-> <<>>]
  /\ channel = <<>> /\ results = <<>> /\ errors = <<>>
  /\ report = {}

\* GetScannersByWorkflow, GetScannersForType.
Registered(suitable) == suitable \cap request.registered

\* selectScanners: the scanners given, those of the workflow that is named, or
\* those for the type.
Selected == IF request.given # {} THEN request.given
            ELSE Registered(IF request.named THEN request.workflow ELSE request.typed)

-----------------------------------------------------------------------------
(* The executor: executeSingleScanner. *)

Go(s, from, to) == task[s] = from /\ task' = [task EXCEPT ![s] = to]

Fails(s)  == outcome' = [outcome EXCEPT ![s] = "error"]
Begins(s) == /\ tries' = [tries EXCEPT ![s] = @ + 1]
             /\ late' = [late EXCEPT ![s] = IF live THEN @ ELSE @ + 1]

collected == <<caller, live, closed, results, errors, report>>

MaxRetries == IF request.retries = 0 THEN 1 ELSE request.retries

Available(s) ==
  /\ Go(s, "checking", "scanning") /\ Begins(s)
  /\ UNCHANGED <<request, collected, outcome, answer, channel>>

\* Mutant: the return after the error was sent is missing.
UnavailableGoesOn(s) ==
  /\ Go(s, "checking", "scanning") /\ Begins(s)
  /\ Fails(s)
  /\ channel' = Append(channel, s)
  /\ UNCHANGED <<request, collected, answer>>

Unavailable(s) ==
  /\ Go(s, "checking", "sending") /\ Fails(s)
  /\ UNCHANGED <<request, collected, tries, late, answer, channel>>

Succeeds(s) ==
  /\ Go(s, "scanning", "sending")
  /\ outcome' = [outcome EXCEPT ![s] = "answer"]
  /\ \E a \in Answers : answer' = [answer EXCEPT ![s] = a]
  /\ UNCHANGED <<request, collected, tries, late, channel>>

Retries(s) ==
  /\ live /\ tries[s] < MaxRetries
  /\ Go(s, "scanning", "backoff")
  /\ UNCHANGED <<request, collected, tries, late, outcome, answer, channel>>

GivesUp(s) ==
  /\ ~live \/ tries[s] >= MaxRetries
  /\ Go(s, "scanning", "sending") /\ Fails(s)
  /\ UNCHANGED <<request, collected, tries, late, answer, channel>>

\* The timer fires, or the context dies; the break of that case leaves the
\* select only, so either way another attempt begins.
BackoffEnds(s) ==
  /\ Go(s, "backoff", "scanning") /\ Begins(s)
  /\ UNCHANGED <<request, collected, outcome, answer, channel>>

\* Mutant: one slot, whatever the number of scanners.
OneSlot == 1

Slots == Cardinality(Selected)

Sends(s) ==
  /\ Len(channel) < Slots
  /\ Go(s, "sending", "done")
  /\ channel' = Append(channel, s)
  /\ UNCHANGED <<request, collected, tries, late, outcome, answer>>

Scanner(s) ==
  \/ Available(s) \/ Unavailable(s) \/ Succeeds(s) \/ Retries(s) \/ GivesUp(s)
  \/ BackoffEnds(s) \/ Sends(s)

-----------------------------------------------------------------------------
(* The executor and the pipeline: Execute. *)

scans == <<tries, late, outcome, answer>>

Starts ==
  /\ caller = "new" /\ Selected # {}
  /\ caller' = "collecting"
  /\ task' = [s \in Scanners |-> IF s \in Selected THEN "checking" ELSE "idle"]
  /\ UNCHANGED <<request, live, scans, channel, closed, results, errors, report>>

NoScanners ==
  /\ caller = "new" /\ Selected = {}
  /\ caller' = "failed"
  /\ UNCHANGED <<request, live, task, scans, channel, closed, results, errors, report>>

\* wg.Wait returns: every goroutine has sent.
Closes ==
  /\ caller # "new" /\ ~closed
  /\ \A s \in Selected : task[s] = "done"
  /\ closed' = TRUE
  /\ UNCHANGED <<request, caller, live, task, scans, channel, results, errors, report>>

\* Mutant: any error ends the collection.
CollectsUntilError ==
  /\ caller = "collecting" /\ channel # <<>>
  /\ channel' = Tail(channel)
  /\ LET s == Head(channel) IN
       IF outcome[s] = "answer"
       THEN /\ results' = Append(results, s)
            /\ UNCHANGED <<caller, live, errors>>
       ELSE /\ errors' = Append(errors, s)
            /\ live' = FALSE /\ caller' = "merging"
            /\ UNCHANGED results
  /\ UNCHANGED <<request, task, scans, closed, report>>

Collects ==
  /\ caller = "collecting" /\ channel # <<>>
  /\ channel' = Tail(channel)
  /\ LET s == Head(channel) IN
       IF outcome[s] = "answer"
       THEN /\ results' = Append(results, s)
            /\ UNCHANGED <<caller, live, errors>>
       ELSE /\ errors' = Append(errors, s)
            /\ live' = (live /\ ~request.failFast)
            /\ caller' = IF request.failFast THEN "merging" ELSE caller
            /\ UNCHANGED results
  /\ UNCHANGED <<request, task, scans, closed, report>>

Drained ==
  /\ caller = "collecting" /\ channel = <<>> /\ closed
  /\ caller' = "merging"
  /\ UNCHANGED <<request, live, task, scans, channel, closed, results, errors, report>>

AllFailed == results = <<>> /\ errors # <<>> /\ ~request.skipUnavailable

\* The places of the findings of the answers collected, and their order.
Places == UNION {{i} \X DOMAIN answer[results[i]] : i \in DOMAIN results}
At(p)   == answer[results[p[1]]][p[2]]
Before(p, q) == p[1] < q[1] \/ (p[1] = q[1] /\ p[2] < q[2])

\* Mutant: the answers are not deduplicated among each other.
AggregateEach == {At(p) : p \in Places}

\* Aggregate: of the findings with one key the first to arrive is kept.
Aggregate == {At(p) : p \in {q \in Places : \A r \in Places :
                Before(r, q) => At(r).key # At(q).key}}

\* Execute returns, which ends its context, and the answers are merged.
Merges ==
  /\ caller = "merging"
  /\ live' = FALSE
  /\ caller' = IF AllFailed THEN "failed" ELSE "answered"
  /\ report' = IF AllFailed THEN {} ELSE Aggregate
  /\ UNCHANGED <<request, task, scans, channel, closed, results, errors>>

\* request.Timeout, or the request's own context, ends the call's context.
Expires ==
  /\ request.expires /\ live /\ caller \in {"collecting", "merging"}
  /\ live' = FALSE
  /\ UNCHANGED <<request, caller, task, scans, channel, closed, results, errors, report>>

Caller == Starts \/ NoScanners \/ Collects \/ Drained \/ Merges

Next == Caller \/ Closes \/ Expires \/ \E s \in Scanners : Scanner(s)

Spec == Init /\ [][Next]_vars

\* The caller and the goroutines run on; an attempt ends, because its context
\* kills the program after two minutes.
Fairness == WF_vars(Caller) /\ WF_vars(Closes) /\ \A s \in Scanners : WF_vars(Scanner(s))

FairSpec == Spec /\ Fairness
-----------------------------------------------------------------------------
(* Properties. *)

Working == \E s \in Scanners : task[s] \in AtWork

In(q)   == {q[i] : i \in DOMAIN q}
Once(q) == \A i, j \in DOMAIN q : q[i] = q[j] => i = j

\* An outcome is sent once and counted once: a scanner that is through is in
\* the channel, among the answers or among the errors, in one place only, and a
\* scanner that is not through is nowhere, retries and early ends included.
CountedOnce ==
  /\ Once(channel) /\ Once(results) /\ Once(errors)
  /\ In(channel) \cap In(results) = {}
  /\ In(channel) \cap In(errors) = {}
  /\ In(results) \cap In(errors) = {}
  /\ {s \in Scanners : task[s] = "done"} = In(channel) \cup In(results) \cup In(errors)

\* "Collect results": a call that ends well has at least one scanner's answer
\* behind it, so a clean report says that somebody looked; a caller that gave
\* SkipUnavailable asked for less.
CleanMeansSomebodyLooked ==
  caller = "answered" /\ ~request.skipUnavailable => results # <<>>

\* "Deduplicate vulnerabilities": unless the call was to stop at an error,
\* whatever any scanner found is in the report under its key, once, as one of
\* the scanners rated it.  A critical finding on which all agree is critical.
ReportIsComplete ==
  caller = "answered" =>
    /\ ~request.failFast =>
         \A s \in Scanners : outcome[s] = "answer" =>
           \A n \in DOMAIN answer[s] : \E f \in report : f.key = answer[s][n].key
    /\ \A f \in report : \E s \in Scanners : \E n \in DOMAIN answer[s] : f = answer[s][n]
    /\ \A f, g \in report : f.key = g.key => f = g

\* The callers remove the file under scan when Execute is back: no scanner is
\* at it then, except after an early end.
NoScannerOutlivesTheCall ==
  caller \in Ended /\ ~request.failFast => ~Working

\* "Check if context was cancelled (no point in retrying)": once the context is
\* dead a scanner begins one attempt at most.
FewLateAttempts == \A s \in Scanners : late[s] <= 1

\* wg.Wait returns and Execute does: the caller has an end and no goroutine
\* hangs in its send, also when nobody collects any more.
CallEnds == caller = "collecting" ~> (caller \in Ended /\ ~Working /\ closed)
=============================================================================
