--------------------------- MODULE PipelineProofs ---------------------------
(* Proofs about ScanPipeline, for any set of scanners, answers and requests. *)
EXTENDS ScanPipeline, FiniteSetTheorems, TLAPS

\* The types that the proofs use of the state.
Typed ==
  /\ request \in Request
  /\ caller \in {"new", "collecting", "merging"} \cup Ended
  /\ live \in BOOLEAN /\ closed \in BOOLEAN
  /\ task \in [Scanners -> {"idle", "done"} \cup AtWork]
  /\ late \in [Scanners -> Nat]
  /\ channel \in Seq(Scanners) /\ results \in Seq(Scanners) /\ errors \in Seq(Scanners)

\* Before the call begins nobody works, and only the selected ever do.
OnlySelected ==
  /\ caller = "new" => \A s \in Scanners : task[s] = "idle"
  /\ \A s \in Scanners \ Selected : task[s] = "idle"

Basis == Typed /\ OnlySelected

\* The channel is closed behind the last scanner.
ClosedIsThrough == closed => \A s \in Selected : task[s] = "done"

\* A caller that merges has seen the channel closed, or was to stop early.
MergesLast ==
  caller \in {"merging"} \cup Ended => closed \/ request.failFast \/ Selected = {}

\* A caller that merges has collected something.
MergesSomething ==
  /\ caller \in {"collecting", "merging"} => Selected # {}
  /\ caller = "merging" => results # <<>> \/ errors # <<>>

\* An attempt on a dead context was the last.
LateIsLast ==
  \A s \in Scanners :
    /\ late[s] <= 1
    /\ late[s] # 0 => ~live /\ task[s] \notin {"idle", "checking", "backoff"}

-----------------------------------------------------------------------------
(* Queues. *)

LEMMA AppendIn ==
  ASSUME NEW S, NEW q \in Seq(S), NEW e \in S
  PROVE  /\ Append(q, e) \in Seq(S) /\ Append(q, e) # <<>>
         /\ In(Append(q, e)) = In(q) \cup {e}
         /\ Once(q) /\ e \notin In(q) => Once(Append(q, e))
<1>1. /\ DOMAIN Append(q, e) = 1 .. Len(q) + 1 /\ DOMAIN q = 1 .. Len(q) /\ Len(q) \in Nat
      /\ \A i \in 1 .. Len(q) : Append(q, e)[i] = q[i]
      /\ Append(q, e)[Len(q) + 1] = e
  OBVIOUS
<1>2. In(Append(q, e)) = In(q) \cup {e}
  <2>1. \A i \in DOMAIN Append(q, e) : Append(q, e)[i] \in In(q) \cup {e}
    BY <1>1 DEF In
  <2>2. In(q) \cup {e} \subseteq In(Append(q, e))
    BY <1>1 DEF In
  <2> QED BY <2>1, <2>2 DEF In
<1>3. Once(q) /\ e \notin In(q) => Once(Append(q, e))
  BY <1>1 DEF Once, In
<1>4. Append(q, e) \in Seq(S)
  OBVIOUS
<1>5. Append(q, e) # <<>>
  <2>1. Len(Append(q, e)) = Len(q) + 1 /\ Len(q) \in Nat /\ Len(<<>>) = 0
    OBVIOUS
  <2> QED BY <2>1
<1> QED BY <1>2, <1>3, <1>4, <1>5

LEMMA TailIn ==
  ASSUME NEW S, NEW q \in Seq(S), q # <<>>, Once(q)
  PROVE  /\ Tail(q) \in Seq(S) /\ Head(q) \in S /\ Once(Tail(q))
         /\ Head(q) \in In(q) /\ In(Tail(q)) = In(q) \ {Head(q)}
<1>1. /\ DOMAIN Tail(q) = 1 .. Len(q) - 1 /\ DOMAIN q = 1 .. Len(q) /\ Len(q) \in Nat \ {0}
      /\ \A i \in 1 .. Len(q) - 1 : Tail(q)[i] = q[i + 1]
      /\ Head(q) = q[1] /\ Head(q) \in S /\ Tail(q) \in Seq(S)
  OBVIOUS
<1>2. Once(Tail(q))
  BY <1>1 DEF Once
<1>3. Head(q) \in In(q)
  BY <1>1 DEF In
<1>4. In(Tail(q)) \subseteq In(q) \ {Head(q)}
  BY <1>1 DEF In, Once
<1>5. ASSUME NEW x \in In(q) \ {Head(q)} PROVE x \in In(Tail(q))
  <2>1. PICK i \in 1 .. Len(q) : x = q[i] BY <1>1 DEF In
  <2>2. i # 1 BY <2>1, <1>1
  <2>3. i - 1 \in 1 .. Len(q) - 1 /\ Tail(q)[i - 1] = x
    BY <1>1, <2>1, <2>2
  <2> QED BY <2>3, <1>1 DEF In
<1> QED BY <1>1, <1>2, <1>3, <1>4, <1>5

-----------------------------------------------------------------------------
(* Types, and who works. *)

\* A scanner's goroutine moves alone and leaves the caller's state; a scanner
\* that is idle or done does not move.
LEMMA ScannerMoves ==
  ASSUME Typed, NEW s \in Scanners, Scanner(s)
  PROVE  /\ UNCHANGED <<request, caller, live, closed, results, errors>>
         /\ task[s] \in AtWork /\ task'[s] \in AtWork \cup {"done"}
         /\ task' \in [Scanners -> {"idle", "done"} \cup AtWork]
         /\ late' \in [Scanners -> Nat]
         /\ \A t \in Scanners \ {s} : task'[t] = task[t] /\ late'[t] = late[t]
         /\ \/ Sends(s) /\ task'[s] = "done" /\ channel' = Append(channel, s)
            \/ task'[s] # "done" /\ channel' = channel
<1> USE DEF Typed, Go, collected, Begins, AtWork
<1>1. CASE Available(s) BY <1>1 DEF Available
<1>2. CASE Unavailable(s) BY <1>2 DEF Unavailable
<1>3. CASE Succeeds(s) BY <1>3 DEF Succeeds
<1>4. CASE Retries(s) BY <1>4 DEF Retries
<1>5. CASE GivesUp(s) BY <1>5 DEF GivesUp
<1>6. CASE BackoffEnds(s) BY <1>6 DEF BackoffEnds
<1>7. CASE Sends(s) BY <1>7 DEF Sends
<1> QED BY <1>1, <1>2, <1>3, <1>4, <1>5, <1>6, <1>7 DEF Scanner

\* The caller's steps after the first, and those of the call's environment,
\* leave the scanners.
LEMMA TasksStay ==
  ASSUME Collects \/ Drained \/ Merges \/ NoScanners \/ Closes \/ Expires
  PROVE  UNCHANGED <<request, task, late>>
BY DEF Collects, Drained, Merges, NoScanners, Closes, Expires, scans

LEMMA TypedSteps == Typed /\ Once(channel) /\ [Next]_vars => Typed'
<1> SUFFICES ASSUME Typed, Once(channel), [Next]_vars PROVE Typed'
  OBVIOUS
<1>1. ASSUME NEW s \in Scanners, Scanner(s) PROVE Typed'
  <2>1. Append(channel, s) \in Seq(Scanners) BY AppendIn DEF Typed
  <2> QED BY <1>1, <2>1, ScannerMoves DEF Typed
<1>2. CASE Starts BY <1>2 DEF Starts, Typed, AtWork, scans
<1>3. CASE NoScanners BY <1>3 DEF NoScanners, Typed, Ended, scans
<1>4. CASE Collects
  <2>1. /\ Tail(channel) \in Seq(Scanners) /\ Head(channel) \in Scanners
    BY <1>4, TailIn DEF Typed, Collects
  <2>2. Append(results, Head(channel)) \in Seq(Scanners) /\ Append(errors, Head(channel)) \in Seq(Scanners)
    BY <2>1, AppendIn DEF Typed
  <2> QED BY <1>4, <2>1, <2>2, TasksStay DEF Collects, Typed
<1>5. CASE Drained BY <1>5 DEF Drained, Typed, scans
<1>6. CASE Merges
  <2>1. caller' \in Ended BY <1>6 DEF Merges, Ended
  <2> QED BY <1>6, <2>1 DEF Merges, Typed, scans
<1>7. CASE Closes BY <1>7 DEF Closes, Typed, scans
<1>8. CASE Expires BY <1>8 DEF Expires, Typed, scans
<1>9. CASE UNCHANGED vars BY <1>9 DEF vars, Typed
<1> QED BY <1>1, <1>2, <1>3, <1>4, <1>5, <1>6, <1>7, <1>8, <1>9 DEF Next, Caller

LEMMA SelectedSteps == Basis /\ [Next]_vars => OnlySelected' /\ Selected' = Selected
<1> SUFFICES ASSUME Basis, [Next]_vars PROVE OnlySelected' /\ Selected' = Selected
  OBVIOUS
<1>0. request' = request => Selected' = Selected
  BY DEF Selected, Registered
<1>1. ASSUME NEW s \in Scanners, Scanner(s) PROVE OnlySelected' /\ Selected' = Selected
  BY <1>0, <1>1, ScannerMoves DEF Basis, OnlySelected, AtWork
<1>2. CASE Starts BY <1>0, <1>2 DEF Starts, OnlySelected
<1>3. CASE Collects \/ Drained \/ Merges \/ NoScanners \/ Closes \/ Expires
  <2>1. caller' = "new" => caller = "new"
    BY <1>3 DEF Collects, Drained, Merges, NoScanners, Closes, Expires
  <2> QED BY <1>0, <1>3, <2>1, TasksStay DEF Basis, OnlySelected
<1>4. CASE UNCHANGED vars BY <1>0, <1>4 DEF vars, Basis, OnlySelected
<1> QED BY <1>1, <1>2, <1>3, <1>4 DEF Next, Caller

-----------------------------------------------------------------------------
(* Outcomes. *)

LEMMA CountSteps == Basis /\ CountedOnce /\ [Next]_vars => CountedOnce'
<1> SUFFICES ASSUME Basis, CountedOnce, [Next]_vars PROVE CountedOnce'
  OBVIOUS
<1>t. channel \in Seq(Scanners) /\ results \in Seq(Scanners) /\ errors \in Seq(Scanners)
  BY DEF Basis, Typed
<1>1. ASSUME NEW s \in Scanners, Scanner(s) PROVE CountedOnce'
  <2>0. Typed BY DEF Basis
  <2>1. /\ UNCHANGED <<results, errors>> /\ task[s] # "done"
        /\ \A t \in Scanners \ {s} : task'[t] = task[t]
    BY <1>1, <2>0, ScannerMoves DEF AtWork
  <2>2. CASE task'[s] # "done" /\ channel' = channel
    <3>1. {t \in Scanners : task'[t] = "done"} = {t \in Scanners : task[t] = "done"}
      BY <2>1, <2>2
    <3> QED BY <2>1, <2>2, <3>1 DEF CountedOnce
  <2>3. CASE task'[s] = "done" /\ channel' = Append(channel, s)
    <3>1. s \notin In(channel) \cup In(results) \cup In(errors)
      BY <2>1 DEF CountedOnce
    <3>2. Once(channel') /\ In(channel') = In(channel) \cup {s}
      BY <1>t, <2>3, <3>1, AppendIn DEF CountedOnce
    <3>3. In(results)' = In(results) /\ In(errors)' = In(errors) /\ Once(results)' /\ Once(errors)'
          /\ In(channel)' = In(channel') /\ Once(channel)' = Once(channel')
      BY <2>1 DEF In, Once, CountedOnce
    <3>4. {t \in Scanners : task'[t] = "done"} = {t \in Scanners : task[t] = "done"} \cup {s}
      BY <2>1, <2>3
    <3> QED BY <3>1, <3>2, <3>3, <3>4 DEF CountedOnce
  <2> QED BY <1>1, <2>0, <2>2, <2>3, ScannerMoves
<1>2. CASE Starts
  <2>1. UNCHANGED <<channel, results, errors>>
        /\ {s \in Scanners : task[s] = "done"} = {} /\ {s \in Scanners : task'[s] = "done"} = {}
    BY <1>2 DEF Starts, Basis, OnlySelected, scans
  <2> QED BY <2>1 DEF CountedOnce, In, Once
<1>3. CASE Collects
  <2> DEFINE s == Head(channel)
  <2>1. /\ s \in Scanners /\ s \in In(channel) /\ In(Tail(channel)) = In(channel) \ {s}
        /\ Once(Tail(channel))
    BY <1>3, <1>t, TailIn DEF Collects, CountedOnce
  <2>2. s \notin In(results) \cup In(errors) BY <2>1 DEF CountedOnce
  <2>3. channel' = Tail(channel) /\ task' = task
    BY <1>3, TasksStay DEF Collects
  <2>4. CASE results' = Append(results, s) /\ errors' = errors
    <3>1. Once(Append(results, s)) /\ In(Append(results, s)) = In(results) \cup {s}
      BY <1>t, <2>1, <2>2, AppendIn DEF CountedOnce
    <3>2. /\ In(results)' = In(Append(results, s)) /\ Once(results)' = Once(Append(results, s))
          /\ In(errors)' = In(errors) /\ Once(errors)' = Once(errors)
          /\ In(channel)' = In(Tail(channel)) /\ Once(channel)' = Once(Tail(channel))
      BY <2>3, <2>4 DEF In, Once
    <3> HIDE DEF s
    <3> QED BY <2>1, <2>2, <2>3, <3>1, <3>2 DEF CountedOnce
  <2>5. CASE errors' = Append(errors, s) /\ results' = results
    <3>1. Once(Append(errors, s)) /\ In(Append(errors, s)) = In(errors) \cup {s}
      BY <1>t, <2>1, <2>2, AppendIn DEF CountedOnce
    <3>2. /\ In(errors)' = In(Append(errors, s)) /\ Once(errors)' = Once(Append(errors, s))
          /\ In(results)' = In(results) /\ Once(results)' = Once(results)
          /\ In(channel)' = In(Tail(channel)) /\ Once(channel)' = Once(Tail(channel))
      BY <2>3, <2>5 DEF In, Once
    <3> HIDE DEF s
    <3> QED BY <2>1, <2>2, <2>3, <3>1, <3>2 DEF CountedOnce
  <2> QED BY <1>3, <2>4, <2>5 DEF Collects
<1>4. CASE Drained \/ Merges \/ NoScanners \/ Closes \/ Expires
  <2>1. UNCHANGED <<task, channel, results, errors>>
    BY <1>4 DEF Drained, Merges, NoScanners, Closes, Expires
  <2> QED BY <2>1 DEF CountedOnce, In, Once
<1>5. CASE UNCHANGED vars BY <1>5 DEF vars, CountedOnce, In, Once
<1> QED BY <1>1, <1>2, <1>3, <1>4, <1>5 DEF Next, Caller

LEMMA CountHolds == Spec => [](Basis /\ CountedOnce)
<1>1. Init => Basis /\ CountedOnce
  <2> SUFFICES ASSUME Init PROVE Basis /\ CountedOnce
    OBVIOUS
  <2>0. <<>> \in Seq(Scanners) OBVIOUS
  <2>a. request \in Request BY ScanPipelineAssumption DEF ScanPipelineAssumption, Init
  <2>1. Typed BY <2>0, <2>a DEF Init, Typed
  <2>2. OnlySelected BY DEF Init, OnlySelected
  <2>3. In(<<>>) = {} /\ Once(<<>>) BY DEF In, Once
  <2>4. {s \in Scanners : task[s] = "done"} = {} BY DEF Init
  <2> QED BY <2>1, <2>2, <2>3, <2>4 DEF Init, Basis, CountedOnce
<1>2. Basis /\ CountedOnce /\ [Next]_vars => (Basis /\ CountedOnce)'
  BY TypedSteps, SelectedSteps, CountSteps DEF Basis, CountedOnce
<1> QED BY <1>1, <1>2, PTL DEF Spec

\* Every outcome is sent once and counted once, for any number of scanners,
\* with retries, early ends and expired calls.
THEOREM OutcomesCountOnce == Spec => []CountedOnce
BY CountHolds, PTL

-----------------------------------------------------------------------------
(* The ends of a call. *)

EndInv == ClosedIsThrough /\ MergesLast /\ MergesSomething

LEMMA EndSteps == Basis /\ CountedOnce /\ EndInv /\ [Next]_vars => EndInv'
<1> SUFFICES ASSUME Basis, CountedOnce, EndInv, [Next]_vars PROVE EndInv'
  OBVIOUS
<1> USE DEF EndInv, ClosedIsThrough, MergesLast, MergesSomething
<1>s. Selected' = Selected /\ request' = request
  <2>1. request' = request
    BY DEF Next, Caller, Starts, NoScanners, Collects, Drained, Merges, Closes, Expires, Scanner,
           Available, Unavailable, Succeeds, Retries, GivesUp, BackoffEnds, Sends, vars
  <2> QED BY <2>1, SelectedSteps
<1>1. ASSUME NEW s \in Scanners, Scanner(s) PROVE EndInv'
  <2>1. /\ UNCHANGED <<request, caller, closed, results, errors>> /\ task[s] \in AtWork
        /\ \A t \in Scanners \ {s} : task'[t] = task[t]
    BY <1>1, ScannerMoves DEF Basis
  <2>2. s \in Selected BY <2>1 DEF Basis, OnlySelected, AtWork
  <2>3. ~closed BY <2>1, <2>2 DEF AtWork
  <2> QED BY <1>s, <2>1, <2>3
<1>2. CASE Starts
  <2>1. caller = "new" /\ Selected # {} /\ closed' = closed /\ caller' = "collecting"
    BY <1>2 DEF Starts
  <2>2. ~closed
    <3>1. \A s \in Scanners : task[s] = "idle" BY <2>1 DEF Basis, OnlySelected
    <3>2. PICK s \in Selected : TRUE BY <2>1
    <3>3. s \in Scanners BY DEF Basis, Typed, Selected, Registered, Request
    <3> QED BY <3>1, <3>2, <3>3
  <2> QED BY <1>s, <2>1, <2>2 DEF Ended
<1>3. CASE NoScanners
  BY <1>3, <1>s DEF NoScanners, Ended
<1>4. CASE Collects
  <2> DEFINE s == Head(channel)
  <2>1. s \in Scanners /\ results \in Seq(Scanners) /\ errors \in Seq(Scanners)
    BY <1>4, TailIn DEF Collects, Basis, Typed, CountedOnce
  <2>2. Append(errors, s) # <<>> BY <2>1, AppendIn
  <2>3. /\ caller = "collecting" /\ closed' = closed /\ task' = task
        /\ \/ caller' = "collecting"
           \/ caller' = "merging" /\ request.failFast /\ errors' = Append(errors, s)
    BY <1>4, TasksStay DEF Collects
  <2> HIDE DEF s
  <2> QED BY <1>s, <2>2, <2>3 DEF Ended
<1>5. CASE Drained
  <2>1. /\ closed /\ channel = <<>> /\ caller = "collecting" /\ caller' = "merging"
        /\ UNCHANGED <<closed, task, results, errors>>
    BY <1>5 DEF Drained
  <2>2. PICK s \in Selected : task[s] = "done" BY <2>1
  <2>3. s \in Scanners BY DEF Basis, Typed, Selected, Registered, Request
  <2>4. s \in In(results) \cup In(errors)
    BY <2>1, <2>2, <2>3 DEF CountedOnce, In
  <2>5. results # <<>> \/ errors # <<>> BY <2>4 DEF In
  <2> QED BY <1>s, <2>1, <2>5 DEF Ended
<1>6. CASE Merges
  BY <1>6, <1>s DEF Merges, Ended
<1>7. CASE Closes
  BY <1>7, <1>s DEF Closes
<1>8. CASE Expires BY <1>8, <1>s DEF Expires
<1>9. CASE UNCHANGED vars BY <1>9, <1>s DEF vars
<1> QED BY <1>1, <1>2, <1>3, <1>4, <1>5, <1>6, <1>7, <1>8, <1>9 DEF Next, Caller

LEMMA EndsHold == Spec => [](Basis /\ EndInv)
<1>1. Init => EndInv
  BY DEF Init, EndInv, ClosedIsThrough, MergesLast, MergesSomething, Ended
<1> QED BY <1>1, EndSteps, CountHolds, PTL DEF Spec

\* When a call that is not to stop early is back, no scanner is at the file.
THEOREM ScannersAreThrough == Spec => []NoScannerOutlivesTheCall
<1>1. Basis /\ EndInv => NoScannerOutlivesTheCall
  BY DEF Basis, OnlySelected, EndInv, ClosedIsThrough, MergesLast, NoScannerOutlivesTheCall,
         Working, AtWork
<1> QED BY <1>1, EndsHold, PTL

\* The answers a call had when it ended well are not none.
AnswersStay == caller = "answered" => results # <<>> \/ request.skipUnavailable

LEMMA AnswerSteps == Basis /\ EndInv /\ AnswersStay /\ [Next]_vars => AnswersStay'
<1> SUFFICES ASSUME Basis, EndInv, AnswersStay, [Next]_vars PROVE AnswersStay'
  OBVIOUS
<1> USE DEF AnswersStay
<1>1. ASSUME NEW s \in Scanners, Scanner(s) PROVE AnswersStay'
  BY <1>1, ScannerMoves DEF Basis
<1>2. CASE Starts \/ NoScanners \/ Collects \/ Drained
  BY <1>2 DEF Starts, NoScanners, Collects, Drained
<1>3. CASE Merges
  BY <1>3 DEF Merges, AllFailed, EndInv, MergesSomething
<1>4. CASE Closes \/ Expires BY <1>4 DEF Closes, Expires
<1>5. CASE UNCHANGED vars BY <1>5 DEF vars
<1> QED BY <1>1, <1>2, <1>3, <1>4, <1>5 DEF Next, Caller

\* A clean report has at least one scanner's answer behind it, unless the
\* caller asked for less.
THEOREM SomebodyLooked == Spec => []CleanMeansSomebodyLooked
<1>1. Init => AnswersStay BY DEF Init, AnswersStay
<1>2. AnswersStay => CleanMeansSomebodyLooked
  BY DEF AnswersStay, CleanMeansSomebodyLooked
<1> QED BY <1>1, <1>2, AnswerSteps, EndsHold, PTL DEF Spec

-----------------------------------------------------------------------------
(* Late attempts. *)

LEMMA LateSteps == Basis /\ LateIsLast /\ [Next]_vars => LateIsLast'
<1> SUFFICES ASSUME Basis, LateIsLast, [Next]_vars PROVE LateIsLast'
  OBVIOUS
<1>t. Typed BY DEF Basis
<1>1. ASSUME NEW s \in Scanners, Scanner(s) PROVE LateIsLast'
  <2>1. \A t \in Scanners \ {s} : task'[t] = task[t] /\ late'[t] = late[t]
    BY <1>1, <1>t, ScannerMoves
  <2>2. live' = live BY <1>1, <1>t, ScannerMoves
  <2>3. late'[s] <= 1 /\ (late'[s] # 0 => ~live /\ task'[s] \notin {"idle", "checking", "backoff"})
    <3> USE <1>t DEF Typed, Go, Begins, LateIsLast
    <3>1. CASE Available(s) BY <3>1 DEF Available
    <3>2. CASE Unavailable(s) BY <3>2 DEF Unavailable
    <3>3. CASE Succeeds(s) BY <3>3 DEF Succeeds
    <3>4. CASE Retries(s) BY <3>4 DEF Retries
    <3>5. CASE GivesUp(s) BY <3>5 DEF GivesUp
    <3>6. CASE BackoffEnds(s) BY <3>6 DEF BackoffEnds
    <3>7. CASE Sends(s) BY <3>7 DEF Sends
    <3> QED BY <1>1, <3>1, <3>2, <3>3, <3>4, <3>5, <3>6, <3>7 DEF Scanner
  <2> QED BY <2>1, <2>2, <2>3 DEF LateIsLast
<1>2. CASE Starts
  <2>1. \A s \in Scanners : task[s] = "idle" BY <1>2 DEF Starts, Basis, OnlySelected
  <2>2. \A s \in Scanners : late[s] = 0 BY <2>1 DEF LateIsLast
  <2> QED BY <1>2, <2>2 DEF Starts, scans, LateIsLast
<1>3. CASE Collects \/ Drained \/ Merges \/ NoScanners \/ Closes \/ Expires
  <2>1. UNCHANGED <<task, late>> BY <1>3, TasksStay
  <2>2. ~live => ~live'
    BY <1>3 DEF Collects, Drained, Merges, NoScanners, Closes, Expires
  <2> QED BY <2>1, <2>2 DEF LateIsLast
<1>4. CASE UNCHANGED vars BY <1>4 DEF vars, LateIsLast
<1> QED BY <1>1, <1>2, <1>3, <1>4 DEF Next, Caller

\* A dead context costs a scanner one attempt at most.
THEOREM LateAttempts == Spec => []FewLateAttempts
<1>1. Init => LateIsLast BY DEF Init, LateIsLast
<1>2. LateIsLast => FewLateAttempts BY DEF LateIsLast, FewLateAttempts
<1> QED BY <1>1, <1>2, LateSteps, CountHolds, PTL DEF Spec

-----------------------------------------------------------------------------
(* The report. *)

\* Every set of numbers has a least one; the library has it for the finite sets
\* 0 .. x under inclusion.
LEMMA Least ==
  ASSUME NEW T \in SUBSET Nat, T # {}
  PROVE  \E x \in T : \A y \in T : x <= y
<1> DEFINE C == {0 .. x : x \in T}
<1>1. C \subseteq FiniteSubsetsOf(Nat) /\ C # {}
  <2>1. \A x \in T : IsFiniteSet(0 .. x) /\ 0 .. x \subseteq Nat
    BY FS_Interval
  <2> QED BY <2>1 DEF FiniteSubsetsOf
<1>2. PICK c \in C : \A d \in C : ~ (<<d, c>> \in StrictSubsetOrdering(Nat))
  <2> HIDE DEF C
  <2> QED BY <1>1, WFMin, FS_StrictSubsetOrderingWellFounded
<1>3. PICK x \in T : c = 0 .. x
  OBVIOUS
<1>4. ASSUME NEW y \in T, y < x PROVE FALSE
  <2>1. 0 .. y \subseteq 0 .. x /\ x \in 0 .. x /\ x \notin 0 .. y
    BY <1>4
  <2>2. 0 .. y \in C /\ 0 .. y \in SUBSET Nat /\ 0 .. x \in SUBSET Nat
    OBVIOUS
  <2>3. <<0 .. y, 0 .. x>> \in StrictSubsetOrdering(Nat)
    BY <2>1, <2>2 DEF StrictSubsetOrdering
  <2> QED BY <1>2, <1>3, <2>2, <2>3
<1> QED BY <1>4

AnswersTyped == answer \in [Scanners -> Answers] /\ results \in Seq(Scanners)

LEMMA PlacesAre ==
  ASSUME AnswersTyped
  PROVE  /\ Places \subseteq Nat \X Nat
         /\ \A i, n \in Nat : <<i, n>> \in Places <=>
              i \in DOMAIN results /\ n \in DOMAIN answer[results[i]]
         /\ \A p \in Places : p = <<p[1], p[2]>>
<1>1. \A i \in DOMAIN results : i \in Nat /\ results[i] \in Scanners
  BY DEF AnswersTyped
<1>2. \A s \in Scanners : DOMAIN answer[s] \subseteq Nat
  <2>1. \A s \in Scanners : answer[s] \in Seq(Finding)
    BY ScanPipelineAssumption DEF ScanPipelineAssumption, AnswersTyped
  <2>2. \A q \in Seq(Finding) : DOMAIN q \subseteq Nat
    OBVIOUS
  <2> QED BY <2>1, <2>2
<1>3. \A p : p \in Places <=> \E i \in DOMAIN results : p \in {i} \X DOMAIN answer[results[i]]
  BY DEF Places
<1> QED BY <1>1, <1>2, <1>3

\* Whatever key was found is in the aggregate: its first place is kept.
LEMMA AggregateHasKeys ==
  ASSUME AnswersTyped, NEW p \in Places
  PROVE  \E f \in Aggregate : f.key = At(p).key
<1> DEFINE Is(q) == q \in Places /\ At(q).key = At(p).key
           I == {i \in Nat : \E n \in Nat : Is(<<i, n>>)}
           N(i) == {n \in Nat : Is(<<i, n>>)}
<1>1. p = <<p[1], p[2]>> /\ p[1] \in Nat /\ p[2] \in Nat BY PlacesAre
<1>2. p[1] \in I BY <1>1
<1>3. PICK i \in I : \A j \in I : i <= j BY <1>2, Least
<1>4. N(i) # {} /\ N(i) \in SUBSET Nat BY <1>3
<1>5. PICK n \in N(i) : \A m \in N(i) : n <= m BY <1>4, Least
<1>6. <<i, n>> \in Places /\ At(<<i, n>>).key = At(p).key BY <1>5
<1>7. ASSUME NEW r \in Places, Before(r, <<i, n>>), At(r).key = At(<<i, n>>).key PROVE FALSE
  <2>1. r = <<r[1], r[2]>> /\ r[1] \in Nat /\ r[2] \in Nat BY PlacesAre
  <2>2. Is(<<r[1], r[2]>>) BY <2>1, <1>6, <1>7
  <2>3. r[1] \in I /\ r[2] \in N(r[1]) BY <2>1, <2>2
  <2>4. i <= r[1] BY <1>3, <2>3
  <2>5. r[1] < i \/ (r[1] = i /\ r[2] < n) BY <1>7 DEF Before
  <2>6. i \in Nat /\ n \in Nat OBVIOUS
  <2>7. r[1] = i /\ r[2] < n BY <2>1, <2>4, <2>5, <2>6
  <2>8. n <= r[2] BY <1>5, <2>3, <2>7
  <2> QED BY <2>1, <2>6, <2>7, <2>8
<1>8. At(<<i, n>>) \in Aggregate
  BY <1>6, <1>7 DEF Aggregate
<1> QED BY <1>6, <1>8

\* It has each key once, and nothing that was not found.
LEMMA AggregateIsFound ==
  ASSUME AnswersTyped
  PROVE  /\ \A f \in Aggregate : \E p \in Places : f = At(p)
         /\ \A f, g \in Aggregate : f.key = g.key => f = g
<1>1. \A f \in Aggregate : \E p \in Places : f = At(p) /\ \A r \in Places :
         Before(r, p) => At(r).key # At(p).key
  BY DEF Aggregate
<1>2. ASSUME NEW f \in Aggregate, NEW g \in Aggregate, f.key = g.key PROVE f = g
  <2>1. PICK p \in Places : f = At(p) /\ \A r \in Places : Before(r, p) => At(r).key # At(p).key
    BY <1>1
  <2>2. PICK q \in Places : g = At(q) /\ \A r \in Places : Before(r, q) => At(r).key # At(q).key
    BY <1>1
  <2>3. ~Before(p, q) /\ ~Before(q, p) BY <1>2, <2>1, <2>2
  <2>4. p = <<p[1], p[2]>> /\ q = <<q[1], q[2]>> /\ p \in Nat \X Nat /\ q \in Nat \X Nat
    BY PlacesAre
  <2>5. p[1] = q[1] /\ p[2] = q[2] BY <2>3, <2>4 DEF Before
  <2> QED BY <2>1, <2>2, <2>4, <2>5
<1> QED BY <1>1, <1>2

\* What was collected does not change, so neither does what is made of it.
LEMMA AggregateStays ==
  ASSUME AnswersTyped, results' = results, \A t \in In(results) : answer'[t] = answer[t]
  PROVE  Aggregate' = Aggregate
<1>1. \A i \in DOMAIN results : answer'[results[i]] = answer[results[i]]
  BY DEF In
<1>2. Places' = Places
  BY <1>1 DEF Places
<1>3. \A p \in Places : p[1] \in DOMAIN results
  BY PlacesAre DEF Places
<1>4. ASSUME NEW p \in Places PROVE At(p)' = At(p)
  BY <1>1, <1>3 DEF At
<1>5. \A p, q : Before(p, q)' <=> Before(p, q)
  BY DEF Before
<1>6. \A p \in Places : (\A r \in Places' : Before(r, p)' => At(r)'.key # At(p)'.key)
                    <=> (\A r \in Places : Before(r, p) => At(r).key # At(p).key)
  BY <1>2, <1>4, <1>5
<1> QED BY <1>2, <1>4, <1>6 DEF Aggregate

\* Outcomes are final when they are sent, and sorted by the collector; a call
\* that is not to stop early leaves none in the channel; the report is made of
\* what was collected.
OutcomeInv ==
  /\ AnswersTyped /\ outcome \in [Scanners -> {"none", "error", "answer"}]
  /\ \A s \in Scanners : outcome[s] = "answer" => task[s] \in {"sending", "done"}
  /\ \A s \in In(results) : outcome[s] = "answer"
  /\ \A s \in In(errors) : outcome[s] # "answer"
  /\ caller \in {"merging"} \cup Ended /\ ~request.failFast => In(channel) = {}
  /\ caller = "answered" => report = Aggregate

\* The steps of a scanner on its own outcome.
LEMMA OutcomeMoves ==
  ASSUME Typed, OutcomeInv, NEW s \in Scanners, Scanner(s)
  PROVE  /\ answer' \in [Scanners -> Answers]
         /\ outcome' \in [Scanners -> {"none", "error", "answer"}]
         /\ outcome'[s] = "answer" => task'[s] \in {"sending", "done"}
         /\ \A t \in Scanners \ {s} : outcome'[t] = outcome[t] /\ answer'[t] = answer[t]
         /\ report' = report
<1> USE DEF Typed, OutcomeInv, AnswersTyped, Go, Fails, collected
<1>1. CASE Available(s) BY <1>1 DEF Available
<1>2. CASE Unavailable(s) BY <1>2 DEF Unavailable
<1>3. CASE Succeeds(s) BY <1>3 DEF Succeeds
<1>4. CASE Retries(s) BY <1>4 DEF Retries
<1>5. CASE GivesUp(s) BY <1>5 DEF GivesUp
<1>6. CASE BackoffEnds(s) BY <1>6 DEF BackoffEnds
<1>7. CASE Sends(s) BY <1>7 DEF Sends
<1> QED BY <1>1, <1>2, <1>3, <1>4, <1>5, <1>6, <1>7 DEF Scanner

LEMMA OutcomeSteps ==
  Basis /\ CountedOnce /\ EndInv /\ OutcomeInv /\ [Next]_vars => OutcomeInv'
<1> SUFFICES ASSUME Basis, CountedOnce, EndInv, OutcomeInv, [Next]_vars PROVE OutcomeInv'
  OBVIOUS
<1>t. Typed BY DEF Basis
<1>a. AnswersTyped BY DEF OutcomeInv
<1>1. ASSUME NEW s \in Scanners, Scanner(s) PROVE OutcomeInv'
  <2>1. /\ UNCHANGED <<request, caller, closed, results, errors>> /\ task[s] \in AtWork
        /\ \A t \in Scanners \ {s} : task'[t] = task[t]
        /\ channel' = channel \/ channel' = Append(channel, s)
    BY <1>1, <1>t, ScannerMoves
  <2>2. s \notin In(results) /\ s \notin In(errors)
    BY <2>1 DEF CountedOnce, AtWork
  <2>3. In(results) \subseteq Scanners /\ In(errors) \subseteq Scanners
    BY DEF CountedOnce
  <2>4. Aggregate' = Aggregate
    BY <1>1, <1>t, <1>a, <2>1, <2>2, <2>3, OutcomeMoves, AggregateStays
  <2>5. ~(caller \in {"merging"} \cup Ended /\ ~request.failFast)
    <3>1. s \in Selected BY <2>1 DEF Basis, OnlySelected, AtWork
    <3> QED BY <2>1, <3>1 DEF EndInv, MergesLast, ClosedIsThrough, AtWork
  <2>6. In(results)' = In(results) /\ In(errors)' = In(errors) BY <2>1 DEF In
  <2>7. AnswersTyped' BY <1>1, <1>t, <1>a, <2>1, OutcomeMoves DEF AnswersTyped
  <2> QED BY <1>1, <1>t, <2>1, <2>2, <2>3, <2>4, <2>5, <2>6, <2>7, OutcomeMoves DEF OutcomeInv
<1>2. CASE Starts
  <2>1. /\ UNCHANGED <<request, scans, channel, results, errors>> /\ caller' = "collecting"
        /\ \A s \in Scanners : task[s] = "idle"
    BY <1>2 DEF Starts, Basis, OnlySelected
  <2>2. \A s \in Scanners : outcome[s] # "answer" BY <2>1 DEF OutcomeInv
  <2> QED BY <1>a, <2>1, <2>2 DEF OutcomeInv, AnswersTyped, In, Ended, scans
<1>3. CASE NoScanners
  <2>1. UNCHANGED <<request, task, scans, channel, results, errors>> /\ caller' = "failed"
    BY <1>3 DEF NoScanners
  <2>2. In(channel) = {}
    <3>1. \A s \in Scanners : task[s] # "done" BY <1>3 DEF NoScanners, Basis, OnlySelected
    <3> QED BY <3>1 DEF CountedOnce
  <2>3. In(channel)' = {} /\ In(results)' = In(results) /\ In(errors)' = In(errors)
    BY <2>1, <2>2 DEF In
  <2> QED BY <1>a, <2>1, <2>3 DEF OutcomeInv, AnswersTyped, scans
<1>4. CASE Collects
  <2> DEFINE s == Head(channel)
  <2>1. s \in Scanners BY <1>4, <1>t, TailIn DEF Collects, CountedOnce, Typed
  <2>2. /\ UNCHANGED <<request, task, scans>> /\ caller = "collecting"
        /\ caller' = "collecting" \/ (caller' = "merging" /\ request.failFast)
        /\ \/ outcome[s] = "answer" /\ results' = Append(results, s) /\ errors' = errors
           \/ outcome[s] # "answer" /\ errors' = Append(errors, s) /\ results' = results
    BY <1>4 DEF Collects
  <2>3. /\ In(Append(results, s)) = In(results) \cup {s} /\ Append(results, s) \in Seq(Scanners)
        /\ In(Append(errors, s)) = In(errors) \cup {s}
    BY <2>1, <1>t, AppendIn DEF Typed
  <2>4. \/ outcome[s] = "answer" /\ In(results)' = In(results) \cup {s} /\ In(errors)' = In(errors)
        \/ outcome[s] # "answer" /\ In(errors)' = In(errors) \cup {s} /\ In(results)' = In(results)
    BY <2>2, <2>3 DEF In
  <2> HIDE DEF s
  <2>5. AnswersTyped' BY <1>a, <2>2, <2>3 DEF AnswersTyped, scans
  <2> QED BY <2>1, <2>2, <2>4, <2>5 DEF OutcomeInv, scans, Ended
<1>5. CASE Drained
  <2>1. /\ UNCHANGED <<request, task, scans, channel, results, errors>>
        /\ channel = <<>> /\ caller' = "merging"
    BY <1>5 DEF Drained
  <2>2. In(channel)' = {} /\ In(results)' = In(results) /\ In(errors)' = In(errors)
    BY <2>1 DEF In
  <2> QED BY <1>a, <2>1, <2>2 DEF OutcomeInv, AnswersTyped, scans
<1>6. CASE Merges
  <2>1. /\ UNCHANGED <<request, task, scans, channel, results, errors>> /\ caller = "merging"
        /\ \/ caller' = "failed"
           \/ caller' = "answered" /\ report' = Aggregate
    BY <1>6 DEF Merges
  <2>2. Aggregate' = Aggregate BY <1>a, <2>1, AggregateStays DEF scans
  <2>3. In(channel)' = In(channel) /\ In(results)' = In(results) /\ In(errors)' = In(errors)
    BY <2>1 DEF In
  <2> QED BY <1>a, <2>1, <2>2, <2>3 DEF OutcomeInv, AnswersTyped, scans, Ended
<1>7. CASE Closes \/ Expires \/ UNCHANGED vars
  <2>1. UNCHANGED <<request, caller, task, scans, channel, results, errors, report>>
    BY <1>7 DEF Closes, Expires, vars, scans
  <2>2. Aggregate' = Aggregate BY <1>a, <2>1, AggregateStays DEF scans
  <2>3. In(channel)' = In(channel) /\ In(results)' = In(results) /\ In(errors)' = In(errors)
    BY <2>1 DEF In
  <2> QED BY <1>a, <2>1, <2>2, <2>3 DEF OutcomeInv, AnswersTyped, scans
<1> QED BY <1>1, <1>2, <1>3, <1>4, <1>5, <1>6, <1>7 DEF Next, Caller

\* Whatever any scanner found is in the report under its key, once, and nothing
\* else is: for any number of scanners and any answers.
THEOREM ReportsAreComplete == Spec => []ReportIsComplete
<1>1. Init => OutcomeInv
  <2> SUFFICES ASSUME Init PROVE OutcomeInv
    OBVIOUS
  <2>1. <<>> \in Seq(Scanners) /\ <<>> \in Answers
    BY ScanPipelineAssumption DEF ScanPipelineAssumption
  <2>2. AnswersTyped /\ outcome \in [Scanners -> {"none", "error", "answer"}]
    BY <2>1 DEF Init, AnswersTyped
  <2>3. In(<<>>) = {} BY DEF In
  <2> QED BY <2>2, <2>3 DEF Init, OutcomeInv, Ended
<1>2. ASSUME Basis, CountedOnce, EndInv, OutcomeInv, caller = "answered" PROVE ReportIsComplete
  <2>a. AnswersTyped BY <1>2 DEF OutcomeInv
  <2>r. report = Aggregate BY <1>2 DEF OutcomeInv
  <2>1. ASSUME ~request.failFast, NEW s \in Scanners, outcome[s] = "answer",
               NEW n \in DOMAIN answer[s]
        PROVE  \E f \in report : f.key = answer[s][n].key
    <3>1. task[s] \in {"sending", "done"} BY <1>2, <2>1 DEF OutcomeInv
    <3>2. s \in Selected BY <1>2, <3>1 DEF Basis, OnlySelected
    <3>3. task[s] = "done"
      BY <1>2, <2>1, <3>2 DEF EndInv, MergesLast, ClosedIsThrough, Ended
    <3>4. s \in In(channel) \cup In(results) \cup In(errors)
      BY <1>2, <3>3 DEF CountedOnce
    <3>5. s \in In(results) BY <1>2, <2>1, <3>4 DEF OutcomeInv, Ended
    <3>6. PICK i \in DOMAIN results : results[i] = s BY <3>5 DEF In
    <3>7. i \in Nat /\ n \in Nat
      <4>1. results \in Seq(Scanners) /\ answer[s] \in Seq(Finding)
        BY <2>a, ScanPipelineAssumption DEF ScanPipelineAssumption, AnswersTyped
      <4> QED BY <4>1
    <3>8. <<i, n>> \in Places BY <2>a, <3>6, <3>7, PlacesAre
    <3>9. At(<<i, n>>) = answer[s][n] BY <3>6 DEF At
    <3> QED BY <2>a, <2>r, <3>8, <3>9, AggregateHasKeys
  <2>2. ASSUME NEW f \in report
        PROVE  \E s \in Scanners : \E n \in DOMAIN answer[s] : f = answer[s][n]
    <3>1. PICK p \in Places : f = At(p) BY <2>a, <2>r, AggregateIsFound
    <3>2. /\ p = <<p[1], p[2]>> /\ p[1] \in Nat /\ p[2] \in Nat
      BY <2>a, PlacesAre
    <3>3. p[1] \in DOMAIN results /\ p[2] \in DOMAIN answer[results[p[1]]]
      BY <2>a, <3>1, <3>2, PlacesAre
    <3>4. results[p[1]] \in Scanners BY <2>a, <3>3 DEF AnswersTyped
    <3> QED BY <3>1, <3>3, <3>4 DEF At
  <2>3. \A f, g \in report : f.key = g.key => f = g
    BY <2>a, <2>r, AggregateIsFound
  <2> QED BY <2>1, <2>2, <2>3 DEF ReportIsComplete
<1>3. caller # "answered" => ReportIsComplete BY DEF ReportIsComplete
<1>4. Basis /\ CountedOnce /\ EndInv /\ OutcomeInv => ReportIsComplete
  BY <1>2, <1>3
<1> QED BY <1>1, <1>4, OutcomeSteps, CountHolds, EndsHold, PTL DEF Spec
=============================================================================
