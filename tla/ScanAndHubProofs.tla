-------------------------- MODULE ScanAndHubProofs --------------------------
(***************************************************************************)
(* Proofs about ScanLifecycle, for every number of scans and cancellers and *)
(* every bound on uploads, errors and crashes; and about WebSocketHub, for  *)
(* every set of clients and every capacity.                                 *)
(***************************************************************************)
EXTENDS ScanLifecycle, WebSocketHub, SequenceTheorems, TLAPS

-----------------------------------------------------------------------------
(* ScanLifecycle.                                                           *)

\* The types that the proofs below use of the state.
Typed ==
  /\ status \in [Scans -> Statuses \cup {None}]
  /\ results \in SUBSET Scans
  /\ audit \in Scans \cup {None}
  /\ pc \in [Scans -> PCs]
  /\ target \in [Cancellers -> Scans \cup {None}]
  /\ crashes \in Nat

\* Before its insert a scan has no row, and after its last update the row is
\* not in progress, whoever wrote it last.
RowFollowsWork ==
  \A s \in Scans :
    /\ pc[s] \in {"idle", "check", "create"} => status[s] = None
    /\ pc[s] = "comply" => status[s] \in {"completed", "cancelled"}

\* What a canceller has read as in progress has its row.
TargetHasRow ==
  \A c \in Cancellers : target[c] # None =>
    pc[target[c]] \notin {"idle", "check", "create"}

\* A scan that nobody cancelled shows in the table for as long as it works.
WorkIsVisible ==
  \A s \in Scans : Working(s) /\ s \notin cancelled => status[s] \in Active

\* Two scans past the check: OneScanAtATime with the insert still to come.
Past(s) == pc[s] = "create" \/ Working(s)
Excused(s, t) == {s, t} \in raced \/ \E x \in {s, t} : x \in cancelled \cup unchecked
OnePastTheCheck ==
  \A s, t \in Scans : s # t /\ Past(s) /\ Past(t) => Excused(s, t)

\* A scan that may say completed has results, and the scan of the audit has
\* nothing left to write.
ResultsBeforeCompletion ==
  \A s \in Scans :
    /\ pc[s] \in {"complete", "comply"} => s \in results
    /\ pc[s] = "comply" => status[s] = "completed" \/ s \in cancelled
AuditIsLast == audit # None => pc[audit] = "end"

ScanInv ==
  /\ Typed /\ RowFollowsWork /\ TargetHasRow /\ WorkIsVisible
  /\ OnePastTheCheck
  /\ ResultsBeforeCompletion /\ AuditIsLast
  /\ BlockedOnlyByWork /\ ComplianceHasResults /\ CompletedHasResults

\* It holds before the first upload.
LEMMA InitScanInv == Init => ScanInv
BY ScanAssumption
   DEF ScanAssumption, Init, ScanInv, Typed, RowFollowsWork, TargetHasRow,
       WorkIsVisible, OnePastTheCheck, Past, Excused, Working,
       ResultsBeforeCompletion, AuditIsLast, BlockedOnlyByWork,
       ComplianceHasResults, CompletedHasResults, PCs, Active, Statuses

\* Every step keeps it.  The check is where a scan comes to be past it: a scan
\* that works without having been cancelled would have shown as active.
LEMMA StepKeepsScanInv == ScanInv /\ [Next]_vars => ScanInv'
<1> SUFFICES ASSUME ScanInv, [Next]_vars PROVE ScanInv'
  OBVIOUS
<1> USE ScanAssumption
    DEF ScanAssumption, ScanInv, Typed, RowFollowsWork, TargetHasRow,
        WorkIsVisible, OnePastTheCheck, Past, Excused, Working,
        ResultsBeforeCompletion, AuditIsLast, BlockedOnlyByWork,
        ComplianceHasResults, CompletedHasResults, PCs, Active, Statuses,
        Goto, SetStatus, Fails, db, hist
<1>1. ASSUME NEW s \in Scans, Upload(s) PROVE ScanInv'
  BY <1>1 DEF Upload
<1>2. ASSUME NEW s \in Scans, Request(s) PROVE ScanInv'
  BY <1>2 DEF Request
<1>3. ASSUME NEW s \in Scans, Check(s) PROVE ScanInv'
  BY <1>3 DEF Check, Pairs
<1>4. ASSUME NEW s \in Scans, Create(s) PROVE ScanInv'
  BY <1>4 DEF Create
<1>5. ASSUME NEW s \in Scans, Load(s) PROVE ScanInv'
  BY <1>5 DEF Load
<1>6. ASSUME NEW s \in Scans, Run(s) PROVE ScanInv'
  BY <1>6 DEF Run
<1>7. ASSUME NEW s \in Scans, Scan(s) PROVE ScanInv'
  BY <1>7 DEF Scan
<1>8. ASSUME NEW s \in Scans, Save(s) PROVE ScanInv'
  BY <1>8 DEF Save
<1>9. ASSUME NEW s \in Scans, Complete(s) PROVE ScanInv'
  BY <1>9 DEF Complete
<1>10. ASSUME NEW s \in Scans, Comply(s) PROVE ScanInv'
  BY <1>10 DEF Comply
<1>11. ASSUME NEW s \in Scans, Fail(s) PROVE ScanInv'
  BY <1>11 DEF Fail
<1>12. ASSUME NEW c \in Cancellers, CancelWrite(c) PROVE ScanInv'
  BY <1>12 DEF CancelWrite
<1>13. ASSUME NEW c \in Cancellers, NEW s \in Scans, CancelRead(c, s) PROVE ScanInv'
  BY <1>13 DEF CancelRead
<1>14. CASE Crash BY <1>14 DEF Crash
<1>15. CASE UNCHANGED vars BY <1>15 DEF vars
<1> HIDE DEF ScanInv
<1> QED BY <1>1, <1>2, <1>3, <1>4, <1>5, <1>6, <1>7, <1>8, <1>9, <1>10, <1>11,
           <1>12, <1>13, <1>14, <1>15 DEF Next, ScanStep

LEMMA Inductive == Spec => []ScanInv
BY InitScanInv, StepKeepsScanInv, PTL DEF Spec

\* The row in progress is the lock: no two scans of the artifact are at work
\* unless their checks raced, a check failed, or one of them was cancelled.
THEOREM RowIsTheLock == Spec => []OneScanAtATime
<1>1. ScanInv => OneScanAtATime
  BY DEF ScanInv, OnePastTheCheck, Past, Excused, OneScanAtATime
<1> QED BY <1>1, Inductive, PTL

\* Without a crash or a lost update, nothing blocks new scans for ever: behind
\* every row in progress there is a goroutine at work.
THEOREM NoOrphanedRow == Spec => []BlockedOnlyByWork
<1>1. ScanInv => BlockedOnlyByWork
  BY DEF ScanInv
<1> QED BY <1>1, Inductive, PTL

\* Completion and compliance rest on stored results.
THEOREM CompletionHasResults == Spec => [](ComplianceHasResults /\ CompletedHasResults)
<1>1. ScanInv => ComplianceHasResults /\ CompletedHasResults
  BY DEF ScanInv
<1> QED BY <1>1, Inductive, PTL

-----------------------------------------------------------------------------
(* WebSocketHub.                                                            *)

\* What the run checks of the hub is inductive with the types of the variables
\* it speaks of and two facts.  Whoever the hub's loop has yet to visit is
\* registered: clients leave in the loop's own visit or in the select, where no
\* loop is under way.  And a channel is open until its client has registered.
LocalTypes ==
  /\ clients \in SUBSET Clients
  /\ open \in [Clients -> BOOLEAN]
  /\ reader \in [Clients -> ReaderStages]
LoopSeesRegistered == current # 0 => todo \subseteq clients
OpenBeforeRegistered ==
  \A c \in Clients : reader[c] \in {"out", "register"} => open[c]
HubInv == /\ LocalTypes /\ LoopSeesRegistered /\ OpenBeforeRegistered
          /\ OpenWhileRegistered /\ HubNeverPanics

\* The hub never panics and a client's channel is open exactly while the
\* client is registered, in every behaviour: no order of departures, dropped
\* clients, pings and broadcasts closes a channel twice or sends on a closed one.
THEOREM HubSafe == HubSpec => [](OpenWhileRegistered /\ HubNeverPanics)
<1>1. HubInit => HubInv
  BY DEF HubInit, HubInv, LocalTypes, LoopSeesRegistered,
         OpenBeforeRegistered, OpenWhileRegistered, HubNeverPanics, ReaderStages
<1>2. HubInv /\ [HubNext]_hubVars => HubInv'
  <2> SUFFICES ASSUME HubInv, [HubNext]_hubVars PROVE HubInv'
    OBVIOUS
  <2> USE DEF HubInv, LocalTypes, LoopSeesRegistered, OpenBeforeRegistered,
              OpenWhileRegistered, HubNeverPanics, ReaderStages, chans, ends, hubHist
  <2>1. CASE HubTake BY <2>1 DEF HubTake, Selecting
  <2>2. CASE Publish BY <2>2 DEF Publish
  <2>3. ASSUME NEW c \in Clients, HubRegister(c) PROVE HubInv'
    BY <2>3 DEF HubRegister, Selecting
  <2>4. ASSUME NEW c \in Clients, HubUnregister(c) PROVE HubInv'
    <3>1. CASE c \in clients
      BY <2>4, <3>1 DEF HubUnregister, Selecting, Unregistered, CloseSend
    <3>2. CASE c \notin clients
      BY <2>4, <3>2 DEF HubUnregister, Selecting, Unregistered
    <3> QED BY <3>1, <3>2
  <2>5. ASSUME NEW c \in Clients, HubSend(c) PROVE HubInv'
    <3>1. c \in clients /\ open[c]
      BY <2>5 DEF HubSend, Visited
    <3>2. CASE Room(c) BY <2>5, <3>1, <3>2 DEF HubSend, Visited
    <3>3. CASE ~Room(c) BY <2>5, <3>1, <3>3 DEF HubSend, Visited, CloseSend
    <3> QED BY <3>2, <3>3
  <2>6. ASSUME NEW c \in Clients, NEW from \in ReaderStages,
               NEW to \in ReaderStages, ReaderGoes(c, from, to),
               to = "register" => from = "out",
               from = "out" => to = "register", from # "register", to # "out",
               process' # "hub panicked"
        PROVE  HubInv'
    <3>1. \A d \in Clients \ {c} : reader'[d] = reader[d]
      BY <2>6 DEF ReaderGoes
    <3>2. reader[c] = from /\ reader'[c] = to
      BY <2>6 DEF ReaderGoes
    <3>3. UNCHANGED <<clients, current, todo, open>> /\ LocalTypes'
      BY <2>6 DEF ReaderGoes
    <3>4. \A d \in Clients : reader'[d] \in {"out", "register"}
                             <=> reader[d] \in {"out", "register"}
      BY <2>6, <3>1, <3>2
    <3> QED BY <2>6, <3>3, <3>4
  <2>7. ASSUME NEW c \in Clients, HubIdle PROVE HubInv'
    BY <2>7 DEF HubIdle
  <2>8. ASSUME NEW c \in Clients, ClientStep(c) PROVE HubInv'
    <3>1. CASE Pong(c) BY <2>6, <3>1 DEF Pong
    <3>2. CASE ReadFails(c) BY <2>6, <3>2 DEF ReadFails
    <3>3. CASE StreamEvent(c) BY <3>3 DEF StreamEvent
    <3>4. CASE Take(c) BY <2>7, <3>4 DEF Take
    <3>5. CASE TakeClosed(c) BY <2>7, <3>5 DEF TakeClosed
    <3>6. CASE Write(c) BY <2>7, <3>6 DEF Write
    <3>7. CASE WriteFails(c) BY <2>7, <3>7 DEF WriteFails
    <3>8. CASE PingFails(c) BY <2>7, <3>8 DEF PingFails
    <3>9. CASE OpenMessage(c) BY <2>7, <3>9 DEF OpenMessage
    <3>10. CASE AddQueued(c) BY <2>7, <3>10 DEF AddQueued
    <3> QED BY <2>8, <3>1, <3>2, <3>3, <3>4, <3>5, <3>6, <3>7, <3>8, <3>9, <3>10
            DEF ClientStep
  <2>9. ASSUME NEW c \in Clients, Connect(c) PROVE HubInv'
    BY <2>6, <2>9 DEF Connect
  <2>10. ASSUME NEW c \in Clients, ReadPing(c) PROVE HubInv'
    BY <2>6, <2>10 DEF ReadPing
  <2>11. ASSUME NEW c \in Clients, PeerLeaves(c) PROVE HubInv'
    BY <2>11 DEF PeerLeaves
  <2>12. CASE UNCHANGED hubVars BY <2>12 DEF hubVars
  <2> HIDE DEF HubInv
  <2> QED BY <2>1, <2>2, <2>3, <2>4, <2>5, <2>8, <2>9, <2>10, <2>11, <2>12
          DEF HubNext, HubStep
<1>3. HubInv => OpenWhileRegistered /\ HubNeverPanics
  BY DEF HubInv
<1> QED BY <1>1, <1>2, <1>3, PTL DEF HubSpec
-----------------------------------------------------------------------------
(* The feed: WebSocketHub implements AtomicFeed.                            *)

\* In the sequence s, the numbers other than 0 are those from first up to,
\* and without, next, in their order.
RunsFrom(s, first, next) ==
  /\ first \in Nat /\ next \in Nat /\ first <= next
  /\ \A i \in 1 .. Len(s) : s[i] # 0 => first <= s[i] /\ s[i] < next
  /\ \A i, j \in 1 .. Len(s) : i < j /\ s[i] # 0 /\ s[j] # 0 => s[i] < s[j]
  /\ \A m \in first .. next - 1 : \E i \in 1 .. Len(s) : s[i] = m

\* What is taken from the front of such a sequence is a 0 or its first number.
LEMMA RunsTail ==
  ASSUME NEW s \in Seq(Nat), NEW first \in Nat \ {0}, NEW next \in Nat,
         s # <<>>, RunsFrom(s, first, next)
  PROVE  IF Head(s) = 0 THEN RunsFrom(Tail(s), first, next)
         ELSE /\ Head(s) = first /\ first < next
              /\ RunsFrom(Tail(s), first + 1, next)
<1> DEFINE t == Tail(s)
<1>1. /\ t \in Seq(Nat) /\ Len(t) = Len(s) - 1 /\ Len(s) \in Nat \ {0}
      /\ Head(s) = s[1] /\ \A i \in 1 .. Len(t) : t[i] = s[i + 1]
  OBVIOUS
<1>2. \A i \in 1 .. Len(s) : i = 1 \/ (i - 1 \in 1 .. Len(t) /\ t[i - 1] = s[i])
  BY <1>1
<1>3. \A i \in 1 .. Len(s) : s[i] \in Nat
  OBVIOUS
<1> HIDE DEF t
<1>4. /\ \A i \in 1 .. Len(t) : t[i] # 0 => first <= t[i] /\ t[i] < next
      /\ \A i, j \in 1 .. Len(t) : i < j /\ t[i] # 0 /\ t[j] # 0 => t[i] < t[j]
  <2>1. \A i \in 1 .. Len(t) : i + 1 \in 1 .. Len(s) /\ t[i] = s[i + 1]
    BY <1>1
  <2>2. ASSUME NEW i \in 1 .. Len(t), NEW j \in 1 .. Len(t),
               i < j, t[i] # 0, t[j] # 0
        PROVE  t[i] < t[j]
    <3>1. i + 1 < j + 1
      BY <2>2
    <3> QED BY <2>1, <2>2, <3>1 DEF RunsFrom
  <2> QED BY <2>1, <2>2 DEF RunsFrom
<1>5. CASE Head(s) = 0
  <2>1. ASSUME NEW m \in first .. next - 1 PROVE \E i \in 1 .. Len(t) : t[i] = m
    <3>1. PICK i \in 1 .. Len(s) : s[i] = m
      BY DEF RunsFrom
    <3>2. i # 1
      BY <1>1, <1>5, <3>1
    <3> QED BY <1>2, <3>1, <3>2
  <2> QED BY <1>4, <1>5, <2>1 DEF RunsFrom, t
<1>6. CASE Head(s) # 0
  <2>1. first <= s[1] /\ s[1] < next
    BY <1>1, <1>6 DEF RunsFrom
  <2>2. PICK k \in 1 .. Len(s) : s[k] = first
    BY <2>1, <1>3, <1>1 DEF RunsFrom
  <2>3. k = 1
    <3>1. SUFFICES ASSUME 1 < k PROVE FALSE
      BY <2>2
    <3>2. s[1] < s[k]
      BY <1>1, <1>6, <2>2, <3>1 DEF RunsFrom
    <3> QED BY <3>2, <2>1, <2>2, <1>3, <1>1
  <2>4. Head(s) = first /\ first < next
    BY <1>1, <2>1, <2>2, <2>3
  <2>5. \A i \in 1 .. Len(t) : t[i] # 0 => first + 1 <= t[i]
    <3> SUFFICES ASSUME NEW i \in 1 .. Len(t), t[i] # 0 PROVE first + 1 <= t[i]
      OBVIOUS
    <3>0. t[i] # 0
      OBVIOUS
    <3>1. /\ i + 1 \in 1 .. Len(s) /\ 1 \in 1 .. Len(s) /\ 1 < i + 1
          /\ s[i + 1] # 0 /\ s[1] # 0 /\ t[i] = s[i + 1]
      <4>1. t[i] = s[i + 1] /\ s[1] # 0
        BY <1>1, <1>6
      <4>2. i \in Nat /\ 1 <= i /\ i + 1 <= Len(s) /\ Len(s) \in Nat
        BY <1>1
      <4> QED BY <3>0, <4>1, <4>2
    <3>2. s[1] < s[i + 1]
      BY <3>1 DEF RunsFrom
    <3>3. s[1] = first /\ s[i + 1] \in Nat
      BY <1>1, <1>3, <2>4, <3>1
    <3> QED BY <3>1, <3>2, <3>3
  <2>6. ASSUME NEW m \in first + 1 .. next - 1 PROVE \E i \in 1 .. Len(t) : t[i] = m
    <3>1. PICK i \in 1 .. Len(s) : s[i] = m
      BY DEF RunsFrom
    <3>2. i # 1
      BY <1>1, <2>4, <3>1
    <3> QED BY <1>2, <3>1, <3>2
  <2> QED BY <1>4, <1>6, <2>4, <2>5, <2>6 DEF RunsFrom, t
<1> QED BY <1>5, <1>6

\* A pong at the end of such a sequence changes nothing, and the next number
\* extends it.
LEMMA RunsAppend ==
  ASSUME NEW s \in Seq(Nat), NEW first \in Nat \ {0}, NEW next \in Nat,
         RunsFrom(s, first, next)
  PROVE  /\ RunsFrom(Append(s, 0), first, next)
         /\ RunsFrom(Append(s, next), first, next + 1)
<1>1. ASSUME NEW x \in Nat
      PROVE  /\ Append(s, x) \in Seq(Nat) /\ Len(Append(s, x)) = Len(s) + 1
             /\ Len(s) \in Nat /\ Append(s, x)[Len(s) + 1] = x
             /\ \A i \in 1 .. Len(s) : Append(s, x)[i] = s[i] /\ s[i] \in Nat
  OBVIOUS
<1>2. ASSUME NEW x \in Nat, NEW end \in Nat, NEW a, a = Append(s, x),
             \/ x = 0 /\ end = next
             \/ x = next /\ end = next + 1
      PROVE  RunsFrom(a, first, end)
  <2>1. /\ a \in Seq(Nat) /\ Len(a) = Len(s) + 1 /\ Len(s) \in Nat
        /\ a[Len(s) + 1] = x
        /\ \A i \in 1 .. Len(s) : a[i] = s[i] /\ s[i] \in Nat
    BY <1>1, <1>2
  <2>2. \A i \in 1 .. Len(a) : i = Len(s) + 1 \/ (i \in 1 .. Len(s) /\ a[i] = s[i])
    BY <2>1
  <2>3. first <= end
    BY <1>2 DEF RunsFrom
  <2>4. \A i \in 1 .. Len(a) : a[i] # 0 => first <= a[i] /\ a[i] < end
    BY <1>2, <2>1, <2>2 DEF RunsFrom
  <2>5. ASSUME NEW i \in 1 .. Len(a), NEW j \in 1 .. Len(a),
               i < j, a[i] # 0, a[j] # 0
        PROVE  a[i] < a[j]
    <3>1. i \in 1 .. Len(s) /\ a[i] = s[i] /\ s[i] < next
      <4>1. i # Len(s) + 1
        BY <2>5, <2>1
      <4>2. i \in 1 .. Len(s) /\ a[i] = s[i]
        BY <4>1, <2>2, Zenon
      <4> QED BY <4>2, <2>5 DEF RunsFrom
    <3>2. CASE j = Len(s) + 1 BY <3>1, <3>2, <2>1, <2>5, <1>2
    <3>3. CASE j \in 1 .. Len(s) /\ a[j] = s[j]
      BY <3>1, <3>3, <2>5 DEF RunsFrom
    <3> QED BY <2>2, <3>2, <3>3
  <2>6. ASSUME NEW m \in first .. end - 1 PROVE \E i \in 1 .. Len(a) : a[i] = m
    <3>1. CASE m \in first .. next - 1
      <4>1. PICK i \in 1 .. Len(s) : s[i] = m
        BY <3>1 DEF RunsFrom
      <4>2. i \in 1 .. Len(a) /\ a[i] = m
        BY <4>1, <2>1
      <4> QED BY <4>2
    <3>2. CASE m = next /\ x = next BY <3>2, <2>1
    <3>3. m \in first .. next - 1 \/ (m = next /\ x = next)
      BY <1>2
    <3> QED BY <3>1, <3>2, <3>3
  <2> QED BY <1>2, <2>3, <2>4, <2>5, <2>6 DEF RunsFrom
<1>3. RunsFrom(Append(s, 0), first, next)
  BY <1>2
<1>4. next + 1 \in Nat
  OBVIOUS
<1>5. RunsFrom(Append(s, next), first, next + 1)
  BY <1>2, <1>4
<1> QED BY <1>3, <1>5
\* The broadcasts that client c's goroutines have taken, and the next one
\* that the hub will put into its channel.
TakenBy(c) == joined[c] + Len(delivered[c]) + Len(held[c])
NextFor(c) == IF c \in todo THEN Taken ELSE Taken + 1

FeedTypes ==
  /\ published \in Nat /\ broadcast \in Seq(Nat) /\ Len(broadcast) <= published
  /\ current \in Nat /\ clients \in SUBSET Clients /\ todo \in SUBSET clients
  /\ buf \in [Clients -> Seq(Nat)] /\ held \in [Clients -> Seq(Nat)]
  /\ delivered \in [Clients -> Seq(Nat)] /\ joined \in [Clients -> Nat]
  /\ reader \in [Clients -> ReaderStages] /\ writer \in [Clients -> WriterStages]
  /\ peer \in [Clients -> BOOLEAN]

\* The hub's channel holds the broadcasts that follow those it has taken, and
\* the hub passes on the last of these.
HubIsInOrder ==
  /\ \A i \in 1 .. Len(broadcast) : broadcast[i] = Taken + i
  /\ todo = {} => current = 0
  /\ todo # {} => current = Taken /\ Taken # 0

\* Before it registers a client has nothing.
NothingYet(c) ==
  reader[c] \in {"out", "register"} =>
    /\ writer[c] = "off" /\ c \notin clients
    /\ buf[c] = <<>> /\ held[c] = <<>> /\ delivered[c] = <<>>

\* An event stream has no write pump and sends itself no pong.
StreamIsPlain(c) ==
  c \in Streams =>
    /\ writer[c] = "off" /\ held[c] = <<>> /\ reader[c] # "pong"
    /\ \A i \in 1 .. Len(buf[c]) : buf[c][i] # 0

Given(c) == \A i \in 1 .. Len(delivered[c]) : delivered[c][i] = joined[c] + i

\* What the write pump holds continues what the client was given, what is in
\* the channel continues that, and the hub continues there.
HoldsNext(c) ==
  \A i \in 1 .. Len(held[c]) : held[c][i] = joined[c] + Len(delivered[c]) + i
Follows(c) ==
  peer[c] /\ writer[c] # "end" =>
    /\ HoldsNext(c)
    /\ \E next \in Nat :
         /\ next <= Taken + 1
         /\ c \in clients => next = NextFor(c)
         /\ RunsFrom(buf[c], TakenBy(c) + 1, next)

ClientInv(c) == NothingYet(c) /\ StreamIsPlain(c) /\ Given(c) /\ Follows(c)

FeedInv == FeedTypes /\ HubIsInOrder /\ \A c \in Clients : ClientInv(c)

LEMMA TakenType == FeedTypes => Taken \in Nat /\ \A c \in Clients : TakenBy(c) \in Nat
<1> SUFFICES ASSUME FeedTypes PROVE Taken \in Nat /\ \A c \in Clients : TakenBy(c) \in Nat
  OBVIOUS
<1>1. Taken \in Nat
  BY DEF FeedTypes, Taken
<1>2. ASSUME NEW c \in Clients PROVE TakenBy(c) \in Nat
  <2>1. joined[c] \in Nat /\ Len(delivered[c]) \in Nat /\ Len(held[c]) \in Nat
    BY DEF FeedTypes
  <2> QED BY <2>1 DEF TakenBy
<1> QED BY <1>1, <1>2

\* A step that neither gives client c anything nor takes from it.
LEMMA Untouched ==
  ASSUME FeedTypes, FeedTypes', NEW c \in Clients, ClientInv(c),
         UNCHANGED <<buf[c], held[c], delivered[c], joined[c]>>,
         peer'[c] => peer[c], writer'[c] # "end" => writer[c] # "end",
         writer'[c] = "off" <=> writer[c] = "off",
         reader'[c] \in {"out", "register"} => reader[c] \in {"out", "register"},
         reader'[c] = "pong" => reader[c] = "pong" \/ c \notin Streams,
         c \in clients' => c \in clients, Taken <= Taken',
         c \in clients' => NextFor(c)' = NextFor(c)
  PROVE  ClientInv(c)'
<1>1. NothingYet(c)' BY DEF ClientInv, NothingYet
<1>2. StreamIsPlain(c)' BY DEF ClientInv, StreamIsPlain
<1>3. Given(c)' BY DEF ClientInv, Given
<1>4. Follows(c)'
  <2> SUFFICES ASSUME peer'[c] /\ writer'[c] # "end" PROVE Follows(c)'
    BY DEF Follows
  <2>1. HoldsNext(c)' /\ TakenBy(c)' = TakenBy(c)
    BY DEF ClientInv, Follows, HoldsNext, TakenBy
  <2>2. PICK next \in Nat : /\ next <= Taken + 1
                            /\ c \in clients => next = NextFor(c)
                            /\ RunsFrom(buf[c], TakenBy(c) + 1, next)
    BY DEF ClientInv, Follows
  <2>3. Taken \in Nat /\ Taken' \in Nat
    BY DEF FeedTypes, Taken
  <2>4. next <= Taken' + 1
    <3>1. \A t, u \in Nat : t <= u /\ next <= t + 1 => next <= u + 1
      OBVIOUS
    <3> QED BY <2>2, <2>3, <3>1, Zenon
  <2>5. RunsFrom(buf[c], TakenBy(c) + 1, next)'
    BY <2>1, <2>2 DEF RunsFrom
  <2> QED BY <2>1, <2>2, <2>4, <2>5 DEF Follows
<1> QED BY <1>1, <1>2, <1>3, <1>4 DEF ClientInv

\* The write pump of client c returns.
LEMMA Ended ==
  ASSUME FeedTypes, FeedTypes', NEW c \in Clients, ClientInv(c),
         UNCHANGED <<delivered[c], joined[c], reader[c]>>,
         writer[c] # "off", writer'[c] = "end"
  PROVE  ClientInv(c)'
BY DEF ClientInv, NothingYet, StreamIsPlain, Given, Follows

\* The write pump receives from the channel.
LEMMA Received ==
  ASSUME FeedTypes, FeedTypes', NEW c \in Clients, ClientInv(c), Receives(c),
         UNCHANGED <<delivered, joined, reader, peer, clients>>, 
         writer[c] \notin {"off", "end"}, writer'[c] \notin {"off", "end"},
         UNCHANGED <<published, broadcast, todo>>
  PROVE  ClientInv(c)'
<1>1. NothingYet(c)' BY DEF ClientInv, NothingYet
<1>2. StreamIsPlain(c)' BY DEF ClientInv, StreamIsPlain
<1>3. Given(c)' BY DEF ClientInv, Given
<1>4. Follows(c)'
  <2> SUFFICES ASSUME peer[c] PROVE Follows(c)'
    BY DEF Follows
  <2>1. PICK next \in Nat : /\ next <= Taken + 1
                            /\ c \in clients => next = NextFor(c)
                            /\ RunsFrom(buf[c], TakenBy(c) + 1, next)
    BY DEF ClientInv, Follows
  <2>2. /\ Taken' = Taken /\ NextFor(c)' = NextFor(c) /\ clients' = clients
        /\ Taken \in Nat /\ TakenBy(c) \in Nat
    BY TakenType DEF Taken, NextFor
  <2>3. /\ buf[c] \in Seq(Nat) /\ buf[c] # <<>> /\ buf'[c] = Tail(buf[c])
        /\ Head(buf[c]) \in Nat
    BY DEF Receives, FeedTypes
  <2>4. TakenBy(c) + 1 \in Nat \ {0}
    BY <2>2
  <2>5. CASE Head(buf[c]) = 0
    <3>1. held' = held
      BY <2>5 DEF Receives
    <3>2. HoldsNext(c)' /\ TakenBy(c)' = TakenBy(c)
      BY <3>1 DEF ClientInv, Follows, HoldsNext, TakenBy
    <3>3. RunsFrom(buf'[c], TakenBy(c) + 1, next)
      BY <2>1, <2>3, <2>4, <2>5, RunsTail
    <3> QED BY <2>1, <2>2, <3>2, <3>3 DEF Follows
  <2>6. CASE Head(buf[c]) # 0
    <3>1. Head(buf[c]) = TakenBy(c) + 1 /\ RunsFrom(buf'[c], TakenBy(c) + 1 + 1, next)
      BY <2>1, <2>3, <2>4, <2>6, RunsTail
    <3>2. held'[c] = Append(held[c], TakenBy(c) + 1) /\ held[c] \in Seq(Nat)
      BY <3>1, <2>6 DEF Receives, FeedTypes
    <3>3. /\ Len(held'[c]) = Len(held[c]) + 1 /\ Len(held[c]) \in Nat
          /\ held'[c][Len(held[c]) + 1] = TakenBy(c) + 1
          /\ \A i \in 1 .. Len(held[c]) : held'[c][i] = held[c][i]
      BY <3>2, <2>2
    <3>4. joined[c] \in Nat /\ Len(delivered[c]) \in Nat
      BY DEF FeedTypes
    <3>5. TakenBy(c)' = TakenBy(c) + 1
      BY <3>3, <3>4 DEF TakenBy
    <3>6. HoldsNext(c)'
      <4>1. HoldsNext(c)
        BY DEF ClientInv, Follows
      <4>2. UNCHANGED <<joined[c], delivered[c]>>
        OBVIOUS
      <4>3. ASSUME NEW i \in 1 .. Len(held'[c])
            PROVE  held'[c][i] = joined[c] + Len(delivered[c]) + i
        <5>1. CASE i \in 1 .. Len(held[c]) BY <5>1, <4>1, <3>3 DEF HoldsNext
        <5>2. CASE i = Len(held[c]) + 1 BY <5>2, <3>3, <3>4 DEF TakenBy
        <5> QED BY <5>1, <5>2, <3>3
      <4> QED BY <4>2, <4>3 DEF HoldsNext
    <3> QED BY <2>1, <2>2, <3>1, <3>5, <3>6 DEF Follows
  <2> QED BY <2>5, <2>6
<1> QED BY <1>1, <1>2, <1>3, <1>4 DEF ClientInv

\* Something is put into the channel of client c: the broadcast that is due or
\* a pong.
LEMMA Queued ==
  ASSUME FeedTypes, FeedTypes', NEW c \in Clients, ClientInv(c), NEW x \in Nat,
         buf' = [buf EXCEPT ![c] = Append(@, x)],
         UNCHANGED <<held, delivered, joined, peer, writer, clients, Taken>>,
         reader[c] \notin {"out", "register"}, reader'[c] \notin {"out", "register"},
         reader'[c] = "pong" => reader[c] = "pong",
         \/ x = 0 /\ c \notin Streams /\ NextFor(c)' = NextFor(c)
         \/ x # 0 /\ x = Taken /\ c \in clients /\ c \in todo /\ c \notin todo'
  PROVE  ClientInv(c)'
<1>1. NothingYet(c)' BY DEF NothingYet
<1>2. StreamIsPlain(c)'
  <2> SUFFICES ASSUME c \in Streams PROVE StreamIsPlain(c)'
    BY DEF StreamIsPlain
  <2>1. x # 0 /\ buf[c] \in Seq(Nat) /\ buf'[c] = Append(buf[c], x)
    BY DEF FeedTypes
  <2>2. \A i \in 1 .. Len(buf[c]) : buf[c][i] # 0
    BY DEF ClientInv, StreamIsPlain
  <2>3. \A i \in 1 .. Len(buf'[c]) : buf'[c][i] # 0
    BY <2>1, <2>2
  <2> QED BY <2>3 DEF ClientInv, StreamIsPlain
<1>3. Given(c)' BY DEF ClientInv, Given
<1>4. Follows(c)'
  <2> SUFFICES ASSUME peer[c] /\ writer[c] # "end" PROVE Follows(c)'
    BY DEF Follows
  <2>1. PICK next \in Nat : /\ next <= Taken + 1
                            /\ c \in clients => next = NextFor(c)
                            /\ RunsFrom(buf[c], TakenBy(c) + 1, next)
    BY DEF ClientInv, Follows
  <2>2. HoldsNext(c)' /\ TakenBy(c)' = TakenBy(c)
    BY DEF ClientInv, Follows, HoldsNext, TakenBy
  <2>3. Taken \in Nat /\ TakenBy(c) + 1 \in Nat \ {0}
    BY TakenType
  <2>4. buf[c] \in Seq(Nat) /\ buf'[c] = Append(buf[c], x)
    BY DEF FeedTypes
  <2>5. /\ RunsFrom(Append(buf[c], 0), TakenBy(c) + 1, next)
        /\ RunsFrom(Append(buf[c], next), TakenBy(c) + 1, next + 1)
    BY <2>1, <2>3, <2>4, RunsAppend
  <2>6. CASE x = 0 /\ NextFor(c)' = NextFor(c)
    BY <2>1, <2>2, <2>4, <2>5, <2>6 DEF Follows
  <2>7. CASE x = Taken /\ c \in clients /\ c \in todo /\ c \notin todo'
    <3>1. next = x /\ NextFor(c)' = next + 1 /\ next + 1 <= Taken' + 1
      BY <2>1, <2>3, <2>7 DEF NextFor
    <3>2. next + 1 \in Nat
      OBVIOUS
    <3> QED BY <3>1, <3>2, <2>2, <2>4, <2>5 DEF Follows
  <2> QED BY <2>6, <2>7
<1> QED BY <1>1, <1>2, <1>3, <1>4 DEF ClientInv

\* Every step keeps the types.
LEMMA FeedTypesKept ==
  ASSUME FeedTypes, HubIsInOrder, [HubNext]_hubVars
  PROVE  FeedTypes'
<1> USE DEF FeedTypes, ReaderStages, WriterStages, chans, ends, hubHist
<1>0. current = 0 => todo = {}
  BY DEF HubIsInOrder
<1>1. CASE HubTake
  <2>1. /\ Tail(broadcast) \in Seq(Nat) /\ Head(broadcast) \in Nat
        /\ Len(Tail(broadcast)) <= Len(broadcast)
    BY <1>1 DEF HubTake
  <2> QED BY <1>1, <2>1 DEF HubTake
<1>2. CASE Publish BY <1>2 DEF Publish
<1>3. ASSUME NEW c \in Clients, HubRegister(c) PROVE FeedTypes'
  <2>1. Taken \in Nat
    BY TakenType
  <2> QED BY <1>3, <2>1 DEF HubRegister
<1>4. ASSUME NEW c \in Clients, HubUnregister(c) PROVE FeedTypes'
  BY <1>0, <1>4 DEF HubUnregister, Selecting, Unregistered
<1>5. ASSUME NEW c \in Clients, HubSend(c) PROVE FeedTypes'
  <2>1. Append(buf[c], current) \in Seq(Nat)
    OBVIOUS
  <2> QED BY <1>5, <2>1 DEF HubSend, Visited
<1>6. ASSUME NEW c \in Clients, Connect(c) PROVE FeedTypes'
  BY <1>6 DEF Connect, ReaderGoes
<1>7. ASSUME NEW c \in Clients, ReadPing(c) PROVE FeedTypes'
  BY <1>7 DEF ReadPing, ReaderGoes
<1>8. ASSUME NEW c \in Clients, Pong(c) PROVE FeedTypes'
  <2>1. Append(buf[c], 0) \in Seq(Nat)
    OBVIOUS
  <2> QED BY <1>8, <2>1 DEF Pong, ReaderGoes
<1>9. ASSUME NEW c \in Clients, ReadFails(c) PROVE FeedTypes'
  BY <1>9 DEF ReadFails, ReaderGoes
<1>10. ASSUME NEW c \in Clients, PeerLeaves(c) PROVE FeedTypes'
  BY <1>10 DEF PeerLeaves
<1>11. ASSUME NEW c \in Clients, buf[c] # <<>>
       PROVE  Tail(buf[c]) \in Seq(Nat) /\ Head(buf[c]) \in Nat
  BY <1>11
<1>12. ASSUME NEW c \in Clients, StreamEvent(c) PROVE FeedTypes'
  <2>1. Append(delivered[c], Head(buf[c])) \in Seq(Nat)
    BY <1>11, <1>12 DEF StreamEvent
  <2> QED BY <1>11, <1>12, <2>1 DEF StreamEvent
<1>13. ASSUME NEW c \in Clients, Receives(c), HubIdle, UNCHANGED delivered,
              writer' \in [Clients -> WriterStages]
       PROVE  FeedTypes'
  <2>1. Append(held[c], Head(buf[c])) \in Seq(Nat)
    BY <1>11, <1>13 DEF Receives
  <2> QED BY <1>11, <1>13, <2>1 DEF Receives, HubIdle
<1>14. ASSUME NEW c \in Clients, WriterReturns(c), HubIdle PROVE FeedTypes'
  BY <1>14 DEF WriterReturns, HubIdle
<1>15. ASSUME NEW c \in Clients, Write(c) PROVE FeedTypes'
  <2>1. delivered[c] \o held[c] \in Seq(Nat) /\ <<>> \in Seq(Nat)
    OBVIOUS
  <2> QED BY <1>15, <2>1 DEF Write, HubIdle
<1>16. ASSUME NEW c \in Clients, Take(c) \/ AddQueued(c) PROVE FeedTypes'
  BY <1>13, <1>16 DEF Take, AddQueued
<1>17. ASSUME NEW c \in Clients, OpenMessage(c) PROVE FeedTypes'
  BY <1>17 DEF OpenMessage, HubIdle
<1>18. ASSUME NEW c \in Clients, TakeClosed(c) \/ WriteFails(c) \/ PingFails(c)
       PROVE  FeedTypes'
  BY <1>14, <1>18 DEF TakeClosed, WriteFails, PingFails
<1>19. CASE UNCHANGED hubVars BY <1>19 DEF hubVars
<1> HIDE DEF FeedTypes
<1> QED
  BY <1>1, <1>2, <1>3, <1>4, <1>5, <1>6, <1>7, <1>8, <1>9, <1>10, <1>12, <1>15,
     <1>16, <1>17, <1>18, <1>19 DEF HubNext, HubStep, ClientStep

\* Every step keeps the order in which broadcasts reach the hub's loop.
LEMMA HubOrderKept ==
  ASSUME FeedTypes, HubIsInOrder, [HubNext]_hubVars
  PROVE  HubIsInOrder'
<1> USE DEF chans, ends, hubHist
<1>0. /\ Len(broadcast) \in Nat /\ published \in Nat /\ broadcast \in Seq(Nat)
      /\ Taken = published - Len(broadcast) /\ Taken \in Nat
      /\ current = 0 => todo = {}
  BY TakenType DEF FeedTypes, Taken, HubIsInOrder
<1>1. CASE HubTake
  <2>1. /\ Len(Tail(broadcast)) = Len(broadcast) - 1
        /\ \A i \in 1 .. Len(broadcast) - 1 : Tail(broadcast)[i] = broadcast[i + 1]
        /\ Head(broadcast) = broadcast[1] /\ Len(broadcast) >= 1
    BY <1>0, <1>1 DEF HubTake
  <2>2. Taken' = Taken + 1 /\ broadcast' = Tail(broadcast)
    BY <1>0, <1>1, <2>1 DEF HubTake, Taken
  <2>3. \A i \in 1 .. Len(broadcast') : broadcast'[i] = Taken' + i
    <3> SUFFICES ASSUME NEW i \in 1 .. Len(broadcast) - 1
                 PROVE  broadcast[i + 1] = Taken + 1 + i
      BY <2>1, <2>2
    <3>1. i + 1 \in 1 .. Len(broadcast)
      BY <1>0
    <3> QED BY <1>0, <3>1 DEF HubIsInOrder
  <2>4. Head(broadcast) = Taken + 1
    BY <1>0, <2>1 DEF HubIsInOrder
  <2> QED BY <1>0, <1>1, <2>2, <2>3, <2>4 DEF HubTake, HubIsInOrder
<1>2. CASE Publish
  <2>1. /\ Len(broadcast') = Len(broadcast) + 1
        /\ \A i \in 1 .. Len(broadcast) : broadcast'[i] = broadcast[i]
        /\ broadcast'[Len(broadcast) + 1] = published + 1
    BY <1>0, <1>2 DEF Publish
  <2>2. Taken' = Taken
    BY <1>0, <1>2, <2>1 DEF Publish, Taken
  <2>3. ASSUME NEW i \in 1 .. Len(broadcast') PROVE broadcast'[i] = Taken' + i
    <3>1. CASE i \in 1 .. Len(broadcast) BY <3>1, <2>1, <2>2 DEF HubIsInOrder
    <3>2. CASE i = Len(broadcast) + 1 BY <3>2, <1>0, <2>1, <2>2
    <3> QED BY <1>0, <2>1, <3>1, <3>2
  <2> QED BY <1>2, <2>2, <2>3 DEF Publish, HubIsInOrder
<1>3. ASSUME NEW c \in Clients, HubSend(c) PROVE HubIsInOrder'
  BY <1>3 DEF HubSend, Visited, HubIsInOrder, Taken
<1>4. CASE UNCHANGED <<published, broadcast, current, todo>>
  BY <1>4 DEF HubIsInOrder, Taken
<1>5. ASSUME NEW c \in Clients,
             HubRegister(c) \/ HubUnregister(c) \/ ClientStep(c) \/ Connect(c)
             \/ ReadPing(c) \/ PeerLeaves(c)
      PROVE  UNCHANGED <<published, broadcast, current, todo>>
  BY <1>5 DEF HubRegister, HubUnregister, ClientStep, Connect, ReadPing, Pong,
       ReadFails, ReaderGoes, PeerLeaves, StreamEvent, Take, TakeClosed,
       OpenMessage, AddQueued, Write, WriteFails, PingFails, HubIdle
<1> QED BY <1>1, <1>2, <1>3, <1>4, <1>5 DEF HubNext, HubStep, hubVars

\* An event goes out to the event stream of client c.
LEMMA Streamed ==
  ASSUME FeedTypes, FeedTypes', NEW c \in Clients, ClientInv(c), StreamEvent(c)
  PROVE  /\ ClientInv(c)'
         /\ peer[c] => /\ delivered' = [delivered EXCEPT ![c] =
                             Append(@, joined[c] + Len(delivered[c]) + 1)]
                       /\ joined[c] + Len(delivered[c]) + 1 <= Taken
<1>1. /\ c \in Streams /\ reader[c] = "read" /\ buf[c] # <<>>
      /\ buf[c] \in Seq(Nat) /\ buf'[c] = Tail(buf[c])
      /\ UNCHANGED <<reader, writer, held, joined, peer, clients, Taken, todo>>
      /\ writer[c] = "off" /\ held[c] = <<>> /\ Head(buf[c]) # 0
      /\ \A i \in 1 .. Len(buf[c]) : buf[c][i] # 0
      /\ Taken \in Nat /\ joined[c] \in Nat /\ delivered[c] \in Seq(Nat)
  BY TakenType DEF StreamEvent, ends, ClientInv, StreamIsPlain, FeedTypes, Taken
<1>2. NothingYet(c)' /\ StreamIsPlain(c)'
  <2>1. \A i \in 1 .. Len(Tail(buf[c])) : Tail(buf[c])[i] # 0
    BY <1>1
  <2> QED BY <1>1, <2>1 DEF NothingYet, StreamIsPlain
<1>3. CASE ~peer[c]
  <2>1. delivered'[c] = delivered[c]
    BY <1>3 DEF StreamEvent, FeedTypes
  <2> QED BY <1>1, <1>2, <1>3, <2>1 DEF ClientInv, Given, Follows
<1>4. CASE peer[c]
  <2> DEFINE m == joined[c] + Len(delivered[c]) + 1
  <2>1. TakenBy(c) + 1 = m /\ m \in Nat \ {0}
    BY <1>1 DEF TakenBy
  <2>2. PICK next \in Nat : /\ next <= Taken + 1
                            /\ c \in clients => next = NextFor(c)
                            /\ RunsFrom(buf[c], m, next)
    BY <1>1, <1>4, <2>1 DEF ClientInv, Follows
  <2>3. Head(buf[c]) = m /\ m < next /\ RunsFrom(buf'[c], m + 1, next)
    <3> HIDE DEF m
    <3> QED BY <1>1, <2>1, <2>2, RunsTail
  <2>4. delivered' = [delivered EXCEPT ![c] = Append(@, m)]
    BY <1>4, <2>3 DEF StreamEvent
  <2>5. delivered'[c] = Append(delivered[c], m)
    BY <2>4 DEF FeedTypes
  <2>6. /\ Len(delivered'[c]) = Len(delivered[c]) + 1
        /\ delivered'[c][Len(delivered[c]) + 1] = m
        /\ \A i \in 1 .. Len(delivered[c]) : delivered'[c][i] = delivered[c][i]
        /\ Len(delivered[c]) \in Nat
    BY <1>1, <2>1, <2>5
  <2>7. Given(c)'
    <3>1. ASSUME NEW i \in 1 .. Len(delivered'[c])
          PROVE  delivered'[c][i] = joined[c] + i
      <4>1. CASE i \in 1 .. Len(delivered[c])
        BY <4>1, <2>6 DEF ClientInv, Given
      <4>2. CASE i = Len(delivered[c]) + 1
        <5>1. joined[c] \in Nat /\ Len(delivered[c]) \in Nat
          BY <1>1, <2>6
        <5>2. m = joined[c] + i
          BY <4>2, <5>1
        <5> QED BY <4>2, <5>2, <2>6
      <4> QED BY <4>1, <4>2, <2>6
    <3> QED BY <1>1, <3>1 DEF Given
  <2>8. TakenBy(c)' + 1 = m + 1
    BY <1>1, <2>6 DEF TakenBy
  <2>9. HoldsNext(c)'
    BY <1>1 DEF HoldsNext
  <2>10. NextFor(c)' = NextFor(c)
    BY <1>1 DEF NextFor
  <2>11. Follows(c)'
    BY <1>1, <2>2, <2>3, <2>8, <2>9, <2>10 DEF Follows
  <2>12. m <= Taken
    BY <1>1, <2>1, <2>2, <2>3
  <2> QED BY <1>2, <2>4, <2>7, <2>11, <2>12 DEF ClientInv
<1> QED BY <1>3, <1>4

\* What the write pump writes goes out, up to a broadcast the hub has taken.
LEMMA Written ==
  ASSUME FeedTypes, FeedTypes', NEW c \in Clients, ClientInv(c), Write(c)
  PROVE  /\ ClientInv(c)' /\ HoldsNext(c)
         /\ joined[c] + Len(delivered[c]) + Len(held[c]) <= Taken
<1>1. /\ writer[c] = "write" /\ peer[c] /\ writer'[c] = "wait"
      /\ delivered'[c] = delivered[c] \o held[c] /\ held'[c] = <<>>
      /\ delivered[c] \in Seq(Nat) /\ held[c] \in Seq(Nat)
      /\ UNCHANGED <<reader, joined, peer, clients, Taken, todo, buf>>
      /\ Taken \in Nat /\ joined[c] \in Nat
  BY TakenType DEF Write, WriterAt, HubIdle, FeedTypes, Taken
<1>2. NothingYet(c)' /\ StreamIsPlain(c)'
  BY <1>1 DEF ClientInv, NothingYet, StreamIsPlain
<1>3. HoldsNext(c)
  BY <1>1 DEF ClientInv, Follows
<1>4. /\ Len(delivered[c]) \in Nat /\ Len(held[c]) \in Nat
      /\ Len(delivered'[c]) \in Nat
      /\ Len(delivered'[c]) = Len(delivered[c]) + Len(held[c])
      /\ \A i \in 1 .. Len(delivered[c]) : delivered'[c][i] = delivered[c][i]
      /\ \A i \in Len(delivered[c]) + 1 .. Len(delivered'[c]) :
            /\ i - Len(delivered[c]) \in 1 .. Len(held[c])
            /\ delivered'[c][i] = held[c][i - Len(delivered[c])]
  <2> DEFINE d == delivered[c]
             h == held[c]
  <2>1. /\ d \in Seq(Nat) /\ h \in Seq(Nat) /\ Len(d) \in Nat /\ Len(h) \in Nat
        /\ delivered'[c] = d \o h
    BY <1>1
  <2> HIDE DEF d, h
  <2>2. /\ Len(d \o h) = Len(d) + Len(h)
        /\ \A i \in 1 .. Len(d) + Len(h) :
              (d \o h)[i] = IF i <= Len(d) THEN d[i] ELSE h[i - Len(d)]
    BY <2>1
  <2>3. \A i \in Len(d) + 1 .. Len(d) + Len(h) :
          i - Len(d) \in 1 .. Len(h) /\ i \in 1 .. Len(d) + Len(h) /\ ~(i <= Len(d))
    BY <2>1
  <2>4. \A i \in 1 .. Len(d) : i \in 1 .. Len(d) + Len(h) /\ i <= Len(d)
    BY <2>1
  <2>5. /\ \A i \in 1 .. Len(d) : delivered'[c][i] = d[i]
        /\ \A i \in Len(d) + 1 .. Len(d) + Len(h) : delivered'[c][i] = h[i - Len(d)]
    BY <2>1, <2>2, <2>3, <2>4
  <2>6. Len(delivered'[c]) = Len(d) + Len(h) /\ Len(delivered'[c]) \in Nat
    BY <2>1, <2>2
  <2>7. \A i \in Len(d) + 1 .. Len(delivered'[c]) :
          i - Len(d) \in 1 .. Len(h) /\ delivered'[c][i] = h[i - Len(d)]
    BY <2>3, <2>5, <2>6, Zenon
  <2> QED BY <2>1, <2>5, <2>6, <2>7, Zenon DEF d, h
<1>5. Given(c)'
  <2>1. ASSUME NEW i \in 1 .. Len(delivered'[c])
        PROVE  delivered'[c][i] = joined[c] + i
    <3>1. CASE i \in 1 .. Len(delivered[c])
      BY <3>1, <1>4 DEF ClientInv, Given
    <3>2. CASE i \notin 1 .. Len(delivered[c])
      <4>1. i \in Len(delivered[c]) + 1 .. Len(delivered'[c])
        <5>1. Len(delivered'[c]) \in Nat /\ Len(delivered[c]) \in Nat
          BY <1>4, Zenon
        <5> QED BY <3>2, <5>1
      <4>2. PICK j \in 1 .. Len(held[c]) : /\ j = i - Len(delivered[c])
                                          /\ delivered'[c][i] = held[c][j]
        BY <4>1, <1>4
      <4>3. held[c][j] = joined[c] + Len(delivered[c]) + j
        BY <1>3 DEF HoldsNext
      <4> QED BY <4>1, <4>2, <4>3, <1>1, <1>4
    <3> QED BY <3>1, <3>2
  <2> QED BY <1>1, <2>1 DEF Given
<1>6. PICK next \in Nat : /\ next <= Taken + 1
                          /\ c \in clients => next = NextFor(c)
                          /\ RunsFrom(buf[c], TakenBy(c) + 1, next)
  BY <1>1 DEF ClientInv, Follows
<1>7. TakenBy(c)' = TakenBy(c) /\ TakenBy(c) \in Nat
  <2>1. joined'[c] = joined[c] /\ Len(held'[c]) = 0 /\ joined[c] \in Nat
    BY <1>1
  <2>2. /\ Len(delivered[c]) \in Nat /\ Len(held[c]) \in Nat
        /\ Len(delivered'[c]) = Len(delivered[c]) + Len(held[c])
    BY <1>4, Zenon
  <2>3. \A k, a, b \in Nat : k + (a + b) + 0 = k + a + b
    OBVIOUS
  <2>4. joined[c] + (Len(delivered[c]) + Len(held[c])) + 0
          = joined[c] + Len(delivered[c]) + Len(held[c])
    BY <2>1, <2>2, <2>3, Zenon
  <2>5. TakenBy(c)' = joined[c] + (Len(delivered[c]) + Len(held[c])) + 0
    BY <2>1, <2>2, Zenon DEF TakenBy
  <2> QED BY <2>4, <2>5, TakenType, Zenon DEF TakenBy
<1>8. Follows(c)'
  <2>1. HoldsNext(c)'
    BY <1>1 DEF HoldsNext
  <2>2. NextFor(c)' = NextFor(c)
    BY <1>1 DEF NextFor
  <2> QED BY <1>1, <1>6, <1>7, <2>1, <2>2 DEF Follows
<1>9. TakenBy(c) <= Taken
  <2>1. TakenBy(c) + 1 <= next
    BY <1>6 DEF RunsFrom
  <2> QED BY <2>1, <1>1, <1>6, <1>7
<1> QED BY <1>2, <1>3, <1>5, <1>8, <1>9 DEF ClientInv, TakenBy

\* Every step keeps, for every client, what it holds a run of the feed.
LEMMA ClientsKept ==
  ASSUME FeedInv, OpenWhileRegistered, [HubNext]_hubVars, NEW d \in Clients
  PROVE  ClientInv(d)'
<1> USE DEF chans, ends, hubHist
<1>0. /\ FeedTypes /\ HubIsInOrder /\ ClientInv(d)
      /\ FeedTypes' /\ Taken \in Nat /\ Taken' \in Nat
      /\ current = 0 => todo = {}
  <2>1. FeedTypes /\ HubIsInOrder /\ ClientInv(d)
    BY DEF FeedInv
  <2>2. FeedTypes'
    BY <2>1, FeedTypesKept
  <2>3. Taken \in Nat /\ Taken' \in Nat
    BY <2>1, <2>2 DEF FeedTypes, Taken
  <2> QED BY <2>1, <2>2, <2>3 DEF HubIsInOrder
<1>1. CASE HubTake
  <2>1. todo = {} /\ todo' = clients /\ clients' = clients
    BY <1>0, <1>1 DEF HubTake, Selecting
  <2>2. Taken' = Taken + 1
    <3>1. Len(Tail(broadcast)) = Len(broadcast) - 1 /\ Len(broadcast) \in Nat
      BY <1>0, <1>1 DEF HubTake, FeedTypes
    <3> QED BY <3>1, <1>0, <1>1 DEF HubTake, Taken, FeedTypes
  <2>3. Taken <= Taken' /\ (d \in clients => NextFor(d)' = NextFor(d))
    BY <1>0, <2>1, <2>2 DEF NextFor
  <2> QED BY <1>0, <1>1, <2>1, <2>3, Untouched DEF HubTake
<1>2. CASE Publish
  <2>1. Taken' = Taken
    <3>1. Len(Append(broadcast, published + 1)) = Len(broadcast) + 1 /\ Len(broadcast) \in Nat
      BY <1>0 DEF FeedTypes
    <3> QED BY <3>1, <1>0, <1>2 DEF Publish, Taken, FeedTypes
  <2>2. Taken <= Taken' /\ NextFor(d)' = NextFor(d)
    BY <1>0, <1>2, <2>1 DEF NextFor, Publish
  <2> QED BY <1>0, <1>2, <2>2, Untouched DEF Publish
\* The steps of others and of the goroutines leave the hub's count alone.
<1>4. ASSUME UNCHANGED <<published, broadcast>>,
             d \in clients' => d \in clients /\ (d \in todo' <=> d \in todo)
      PROVE  /\ Taken <= Taken'
             /\ d \in clients' => d \in clients
             /\ d \in clients' => NextFor(d)' = NextFor(d)
  BY <1>0, <1>4 DEF Taken, NextFor
<1>5. ASSUME NEW c \in Clients, HubRegister(c) PROVE ClientInv(d)'
  <2>1. CASE d # c
    BY <1>0, <1>4, <1>5, <2>1, Untouched DEF HubRegister, FeedTypes
  <2>2. CASE d = c
    <3>1. /\ buf'[c] = <<>> /\ held'[c] = <<>> /\ delivered'[c] = <<>>
          /\ joined'[c] = Taken /\ reader'[c] = "read" /\ writer'[c] # "end"
          /\ c \in Streams => writer'[c] = "off"
          /\ Taken' = Taken /\ todo' = {}
      BY <1>0, <1>5, <2>2, HubAssumption
         DEF HubRegister, Selecting, ClientInv, NothingYet, FeedTypes, Taken
    <3>2. NothingYet(c)' /\ StreamIsPlain(c)' /\ Given(c)' /\ HoldsNext(c)'
      BY <3>1 DEF NothingYet, StreamIsPlain, Given, HoldsNext
    <3>3. TakenBy(c)' = Taken /\ NextFor(c)' = Taken + 1 /\ Taken + 1 \in Nat
      BY <1>0, <3>1 DEF TakenBy, NextFor
    <3>4. RunsFrom(<<>>, Taken + 1, Taken + 1)
      BY <1>0 DEF RunsFrom
    <3>5. Follows(c)'
      BY <1>0, <3>1, <3>2, <3>3, <3>4 DEF Follows
    <3> QED BY <2>2, <3>2, <3>5 DEF ClientInv
  <2> QED BY <2>1, <2>2
<1>6. ASSUME NEW c \in Clients, HubUnregister(c) PROVE ClientInv(d)'
  <2>1. /\ d \in clients' => d \in clients
        /\ reader'[d] \in {"out", "register"} => reader[d] \in {"out", "register"}
        /\ reader'[d] = "pong" => reader[d] = "pong"
        /\ UNCHANGED <<published, broadcast, todo, buf, writer, held, peer, delivered, joined>>
    BY <1>0, <1>6 DEF HubUnregister, Unregistered, FeedTypes
  <2> QED BY <1>0, <1>4, <2>1, Untouched
<1>7. ASSUME NEW c \in Clients, HubSend(c) PROVE ClientInv(d)'
  <2>1. /\ c \in todo /\ c \in clients /\ open[c] /\ todo' = todo \ {c}
        /\ current = Taken /\ current # 0
        /\ reader[c] \notin {"out", "register"}
    BY <1>0, <1>7 DEF HubSend, Visited, HubIsInOrder, FeedTypes, OpenWhileRegistered
  <2>2. UNCHANGED <<published, broadcast, reader, writer, held, peer, delivered, joined>>
    BY <1>7 DEF HubSend
  <2>3. CASE d # c
    <3>1. buf'[d] = buf[d] /\ (d \in clients' <=> d \in clients)
      BY <1>0, <1>7, <2>1, <2>3 DEF HubSend, FeedTypes
    <3> QED BY <1>0, <1>4, <2>1, <2>2, <2>3, <3>1, Untouched
  <2>4. CASE d = c /\ Room(c)
    <3>1. buf' = [buf EXCEPT ![c] = Append(@, current)] /\ UNCHANGED <<clients, Taken>>
      BY <1>7, <2>1, <2>2, <2>4 DEF HubSend, Taken
    <3>2. current \in Nat /\ ClientInv(c)
      BY <1>0, <2>4 DEF FeedTypes
    <3> QED BY <1>0, <2>1, <2>2, <2>4, <3>1, <3>2, Queued
  <2>5. CASE d = c /\ ~Room(c)
    <3>1. UNCHANGED buf /\ clients' = clients \ {c}
      BY <1>7, <2>1, <2>5 DEF HubSend
    <3> QED BY <1>0, <1>4, <2>2, <2>5, <3>1, Untouched
  <2> QED BY <2>3, <2>4, <2>5
<1>8. ASSUME NEW c \in Clients, NEW from \in ReaderStages, NEW to \in ReaderStages,
             ReaderGoes(c, from, to), UNCHANGED buf,
             to \in {"out", "register"} => from \in {"out", "register"},
             to = "pong" => c \notin Streams
      PROVE  ClientInv(d)'
  <2>1. /\ reader'[d] \in {"out", "register"} => reader[d] \in {"out", "register"}
        /\ reader'[d] = "pong" => reader[d] = "pong" \/ d \notin Streams
        /\ UNCHANGED <<clients, broadcast, todo, published, writer, held, peer,
                       delivered, joined>>
    BY <1>0, <1>8 DEF ReaderGoes, FeedTypes
  <2> QED BY <1>0, <1>4, <1>8, <2>1, Untouched
<1>9. ASSUME NEW c \in Clients, Connect(c) \/ ReadPing(c) \/ ReadFails(c)
      PROVE  ClientInv(d)'
  BY <1>8, <1>9, HubAssumption DEF Connect, ReadPing, ReadFails, ReaderStages, Clients
<1>10. ASSUME NEW c \in Clients, Pong(c) PROVE ClientInv(d)'
  <2>1. /\ UNCHANGED <<clients, broadcast, todo, published, writer, held, peer,
                       delivered, joined>>
        /\ reader[c] = "pong" /\ reader' = [reader EXCEPT ![c] = "read"]
    BY <1>10 DEF Pong, ReaderGoes
  <2>2. reader'[c] = "read" /\ (d # c => reader'[d] = reader[d])
    BY <1>0, <2>1 DEF FeedTypes
  <2>3. CASE d = c /\ open[c]
    <3>1. buf' = [buf EXCEPT ![c] = Append(@, 0)]
      BY <1>10, <2>3 DEF Pong
    <3>2. c \notin Streams /\ NextFor(c)' = NextFor(c) /\ Taken' = Taken
      BY <1>0, <2>1, <2>3 DEF ClientInv, StreamIsPlain, NextFor, Taken
    <3>3. ClientInv(c) /\ 0 \in Nat
      BY <1>0, <2>3
    <3> QED BY <1>0, <2>1, <2>2, <2>3, <3>1, <3>2, <3>3, Queued
  <2>4. CASE ~(d = c /\ open[c])
    <3>1. buf'[d] = buf[d]
      BY <1>0, <1>10, <2>4 DEF Pong, FeedTypes
    <3>2. reader'[d] \in {"out", "register"} => reader[d] \in {"out", "register"}
      BY <2>2
    <3>3. reader'[d] = "pong" => reader[d] = "pong"
      BY <2>2
    <3> QED BY <1>0, <1>4, <2>1, <3>1, <3>2, <3>3, Untouched
  <2> QED BY <2>3, <2>4
<1>11. ASSUME NEW c \in Clients, PeerLeaves(c) PROVE ClientInv(d)'
  <2>1. peer'[d] => peer[d]
    BY <1>0, <1>11 DEF PeerLeaves, FeedTypes
  <2> QED BY <1>0, <1>4, <1>11, <2>1, Untouched DEF PeerLeaves
<1>12. ASSUME NEW c \in Clients, StreamEvent(c) PROVE ClientInv(d)'
  <2>1. CASE d = c BY <1>0, <1>12, <2>1, Streamed
  <2>2. CASE d # c
    BY <1>0, <1>4, <1>12, <2>2, Untouched DEF StreamEvent, FeedTypes
  <2> QED BY <2>1, <2>2
\* The write pump of another client.
<1>13. ASSUME NEW c \in Clients, c # d, HubIdle,
              UNCHANGED <<writer[d], held[d], buf[d], delivered[d]>>
       PROVE  ClientInv(d)'
  BY <1>0, <1>4, <1>13, Untouched DEF HubIdle
<1>14. ASSUME NEW c \in Clients, Take(c) \/ AddQueued(c) PROVE ClientInv(d)'
  <2>1. /\ Receives(c) /\ HubIdle /\ UNCHANGED delivered
        /\ writer[c] \notin {"off", "end"} /\ writer'[c] \notin {"off", "end"}
        /\ d # c => writer'[d] = writer[d]
    BY <1>0, <1>14 DEF Take, AddQueued, WriterAt, FeedTypes
  <2>2. CASE d = c BY <1>0, <2>1, <2>2, Received DEF HubIdle
  <2>3. CASE d # c
    <3>1. UNCHANGED <<held[d], buf[d]>>
      BY <1>0, <2>1, <2>3 DEF Receives, FeedTypes
    <3> QED BY <1>13, <2>1, <2>3, <3>1
  <2> QED BY <2>2, <2>3
<1>15. ASSUME NEW c \in Clients, OpenMessage(c) PROVE ClientInv(d)'
  <2>1. /\ HubIdle /\ UNCHANGED <<buf, held, delivered>>
        /\ writer[c] = "open" /\ writer'[c] = "write"
        /\ d # c => writer'[d] = writer[d]
    BY <1>0, <1>15 DEF OpenMessage, WriterAt, FeedTypes
  <2> QED BY <1>0, <1>4, <2>1, Untouched DEF HubIdle
<1>16. ASSUME NEW c \in Clients, TakeClosed(c) \/ WriteFails(c) \/ PingFails(c)
       PROVE  ClientInv(d)'
  <2>1. /\ HubIdle /\ WriterReturns(c) /\ writer[c] # "off"
    BY <1>16 DEF TakeClosed, WriteFails, PingFails, WriterAt, Unwritten
  <2>2. CASE d = c
    BY <1>0, <2>1, <2>2, Ended DEF HubIdle, WriterReturns, FeedTypes
  <2>3. CASE d # c
    BY <1>0, <1>13, <2>1, <2>3 DEF WriterReturns, FeedTypes
  <2> QED BY <2>2, <2>3
<1>17. ASSUME NEW c \in Clients, Write(c) PROVE ClientInv(d)'
  <2>1. CASE d = c BY <1>0, <1>17, <2>1, Written
  <2>2. CASE d # c
    BY <1>0, <1>13, <1>17, <2>2 DEF Write, FeedTypes
  <2> QED BY <2>1, <2>2
<1>18. CASE UNCHANGED hubVars
  BY <1>0, <1>4, <1>18, Untouched DEF hubVars
<1> QED
  BY <1>1, <1>2, <1>5, <1>6, <1>7, <1>9, <1>10, <1>11, <1>12, <1>14, <1>15,
     <1>16, <1>17, <1>18 DEF HubNext, HubStep, ClientStep

\* Every step of the hub, of a handler and of a pump is a step of the atomic
\* feed or shows nothing of it.
LEMMA FeedStep ==
  ASSUME FeedInv, OpenWhileRegistered, [HubNext]_hubVars
  PROVE  [Feed!Next]_(Feed!fvars)
<1> USE DEF chans, ends, hubHist
<1>0. /\ FeedTypes /\ HubIsInOrder /\ FeedTypes' /\ Taken \in Nat
      /\ \A c \in Clients : ClientInv(c)
      /\ current = 0 => todo = {}
  <2>1. FeedTypes /\ HubIsInOrder /\ \A c \in Clients : ClientInv(c)
    BY DEF FeedInv
  <2>2. FeedTypes'
    BY <2>1, FeedTypesKept
  <2>3. Taken \in Nat
    BY <2>1, TakenType
  <2> QED BY <2>1, <2>2, <2>3 DEF HubIsInOrder
<1>1. ASSUME UNCHANGED <<Taken, seats, joined, delivered>>
      PROVE  [Feed!Next]_(Feed!fvars)
  BY <1>1 DEF Feed!fvars
<1>2. ASSUME UNCHANGED <<published, broadcast, clients, joined, delivered>>,
             \A c \in Clients : reader'[c] \in {"out", "register"}
                                <=> reader[c] \in {"out", "register"}
      PROVE  [Feed!Next]_(Feed!fvars)
  <2>1. UNCHANGED <<Taken, seats>>
    BY <1>2 DEF Taken, seats
  <2> QED BY <1>1, <1>2, <2>1
<1>3. CASE HubTake
  <2>1. Len(Tail(broadcast)) = Len(broadcast) - 1 /\ Len(broadcast) \in Nat
    BY <1>0, <1>3 DEF HubTake, FeedTypes
  <2>2. Taken' = Taken + 1
    BY <2>1, <1>0, <1>3 DEF HubTake, Taken, FeedTypes
  <2>3. UNCHANGED <<seats, joined, delivered>>
    BY <1>3 DEF HubTake, seats
  <2> QED BY <2>2, <2>3 DEF Feed!Next, Feed!Publish
<1>4. CASE Publish
  <2>1. Len(Append(broadcast, published + 1)) = Len(broadcast) + 1 /\ Len(broadcast) \in Nat
    BY <1>0 DEF FeedTypes
  <2>2. Taken' = Taken
    BY <2>1, <1>0, <1>4 DEF Publish, Taken, FeedTypes
  <2>3. UNCHANGED <<seats, joined, delivered>>
    BY <1>4 DEF Publish, seats
  <2> QED BY <1>1, <2>2, <2>3
<1>5. ASSUME NEW c \in Clients, HubRegister(c) PROVE Feed!Next
  <2>1. c \notin clients /\ reader[c] = "register" /\ reader'[c] = "read"
    BY <1>0, <1>5 DEF HubRegister, ClientInv, NothingYet, FeedTypes
  <2>2. \A d \in Clients \ {c} : (d \in clients' <=> d \in clients) /\ reader'[d] = reader[d]
    BY <1>0, <1>5 DEF HubRegister, FeedTypes
  <2>3. seats[c] = "out" /\ seats' = [seats EXCEPT ![c] = "in"]
    BY <1>5, <2>1, <2>2 DEF seats, HubRegister
  <2>4. Taken' = Taken /\ joined' = [joined EXCEPT ![c] = Taken] /\ UNCHANGED delivered
    BY <1>5 DEF HubRegister, Taken
  <2> QED BY <2>3, <2>4 DEF Feed!Next, Feed!Join
\* A client that the hub forgets leaves the feed.
<1>6. ASSUME NEW c \in Clients, c \in clients, clients' = clients \ {c},
             reader[c] \notin {"out", "register"}, reader'[c] \notin {"out", "register"},
             \A d \in Clients \ {c} : reader'[d] = reader[d],
             UNCHANGED <<published, broadcast, joined, delivered>>
      PROVE  Feed!Next
  <2>1. seats[c] = "in" /\ seats' = [seats EXCEPT ![c] = "gone"]
    BY <1>6 DEF seats
  <2>2. Taken' = Taken
    BY <1>6 DEF Taken
  <2> QED BY <1>6, <2>1, <2>2 DEF Feed!Next, Feed!Leave
<1>7. ASSUME NEW c \in Clients, HubUnregister(c) PROVE [Feed!Next]_(Feed!fvars)
  <2>1. /\ reader[c] = "unregister" /\ reader'[c] = "end"
        /\ \A d \in Clients \ {c} : reader'[d] = reader[d]
        /\ UNCHANGED <<published, broadcast, joined, delivered>>
    BY <1>0, <1>7 DEF HubUnregister, Unregistered, FeedTypes
  <2>2. CASE c \in clients BY <1>6, <1>7, <2>1, <2>2 DEF HubUnregister
  <2>3. CASE c \notin clients
    <3>1. UNCHANGED clients
      BY <1>7, <2>3 DEF HubUnregister
    <3>2. ASSUME NEW d \in Clients
          PROVE  reader'[d] \in {"out", "register"} <=> reader[d] \in {"out", "register"}
      BY <2>1
    <3> QED BY <1>2, <2>1, <3>1, <3>2
  <2> QED BY <2>2, <2>3
<1>8. ASSUME NEW c \in Clients, HubSend(c) PROVE [Feed!Next]_(Feed!fvars)
  <2>1. /\ c \in clients /\ open[c] /\ reader[c] \notin {"out", "register"}
        /\ UNCHANGED <<published, broadcast, reader, joined, delivered>>
    BY <1>0, <1>8 DEF HubSend, Visited, FeedTypes, OpenWhileRegistered
  <2>2. CASE Room(c) BY <1>2, <1>8, <2>1, <2>2 DEF HubSend
  <2>3. CASE ~Room(c)
    <3>1. clients' = clients \ {c}
      BY <1>8, <2>1, <2>3 DEF HubSend
    <3> QED BY <1>6, <2>1, <3>1
  <2> QED BY <2>2, <2>3
<1>9. ASSUME NEW c \in Clients, NEW from \in ReaderStages, NEW to \in ReaderStages,
             ReaderGoes(c, from, to),
             to \in {"out", "register"} <=> from \in {"out", "register"}
      PROVE  [Feed!Next]_(Feed!fvars)
  <2>1. \A d \in Clients : reader'[d] \in {"out", "register"}
                           <=> reader[d] \in {"out", "register"}
    BY <1>0, <1>9 DEF ReaderGoes, FeedTypes
  <2> QED BY <1>2, <1>9, <2>1 DEF ReaderGoes
<1>10. ASSUME NEW c \in Clients, Connect(c) \/ ReadPing(c) \/ ReadFails(c) \/ Pong(c)
       PROVE  [Feed!Next]_(Feed!fvars)
  BY <1>9, <1>10 DEF Connect, ReadPing, ReadFails, Pong, ReaderStages
<1>11. ASSUME NEW c \in Clients, PeerLeaves(c) PROVE [Feed!Next]_(Feed!fvars)
  BY <1>2, <1>11 DEF PeerLeaves
<1>12. ASSUME HubIdle, UNCHANGED delivered PROVE [Feed!Next]_(Feed!fvars)
  BY <1>2, <1>12 DEF HubIdle
<1>13. ASSUME NEW c \in Clients,
              Take(c) \/ TakeClosed(c) \/ OpenMessage(c) \/ AddQueued(c)
              \/ WriteFails(c) \/ PingFails(c)
       PROVE  [Feed!Next]_(Feed!fvars)
  BY <1>12, <1>13 DEF Take, TakeClosed, OpenMessage, AddQueued, WriteFails,
                      PingFails, WriterReturns
\* A client that is written the next broadcasts receives them.
<1>14. ASSUME NEW c \in Clients, NEW s \in Seq(Nat), s # <<>>,
              \A i \in 1 .. Len(s) : s[i] = joined[c] + Len(delivered[c]) + i,
              joined[c] + Len(delivered[c]) + Len(s) <= Taken,
              delivered' = [delivered EXCEPT ![c] = @ \o s],
              seats[c] # "out", UNCHANGED <<Taken, seats, joined>>
       PROVE  Feed!Next
  <2> DEFINE n == Len(delivered[c])
             a == Feed!After(c, n)
  <2>1. joined[c] \in Nat /\ n \in Nat /\ Len(s) \in Nat \ {0}
    <3>1. joined[c] \in Nat /\ delivered[c] \in Seq(Nat)
      BY <1>0 DEF FeedTypes
    <3>2. Len(s) \in Nat \ {0}
      BY <1>14
    <3> QED BY <3>1, <3>2
  <2>2. a = [i \in 1 .. Taken - joined[c] - n |-> joined[c] + n + i]
    BY DEF Feed!After
  <2>3. Len(s) \in 1 .. Taken - joined[c] - n /\ Taken - joined[c] - n \in Nat
    <3> HIDE DEF n
    <3>1. joined[c] + n + Len(s) <= Taken
      BY <1>14 DEF n
    <3> QED BY <1>0, <2>1, <3>1
  <2>4. \A i \in 1 .. Len(s) : a[i] = joined[c] + n + i /\ a[i] \in Nat
    <3> HIDE DEF n, a
    <3>1. \A i \in 1 .. Len(s) : i \in 1 .. Taken - joined[c] - n /\ i \in Nat
      BY <2>1, <2>3
    <3>2. \A i \in 1 .. Len(s) : a[i] = joined[c] + n + i
      BY <2>2, <3>1, Zenon
    <3> QED BY <2>1, <3>1, <3>2
  <2>5. s = SubSeq(a, 1, Len(s))
    <3> HIDE DEF n, a
    <3> DEFINE b == SubSeq(a, 1, Len(s))
    <3>1. /\ b \in Seq(Nat) /\ Len(b) = Len(s)
          /\ \A i \in 1 .. Len(s) : b[i] = a[i]
      BY <2>1, <2>4, SubSeqProperties
    <3>2. \A i \in 1 .. Len(s) : b[i] = s[i]
      BY <3>1, <2>4, <1>14 DEF n
    <3> QED BY <3>1, <3>2, SeqEqual
  <2>6. delivered' = [delivered EXCEPT ![c] = @ \o SubSeq(Feed!After(c, Len(@)), 1, Len(s))]
    BY <1>14, <2>5
  <2>7. Feed!Receive(c)
    BY <1>14, <2>3, <2>6 DEF Feed!Receive
  <2> QED BY <2>7 DEF Feed!Next
<1>15. ASSUME NEW c \in Clients, UNCHANGED <<published, broadcast, clients, reader>>
       PROVE  UNCHANGED <<Taken, seats>>
  BY <1>15 DEF Taken, seats
<1>16. ASSUME NEW c \in Clients, StreamEvent(c) PROVE [Feed!Next]_(Feed!fvars)
  <2>1. UNCHANGED <<published, broadcast, clients, reader, joined>> /\ reader[c] = "read"
    BY <1>16 DEF StreamEvent
  <2>2. CASE ~peer[c]
    <3>1. UNCHANGED delivered
      BY <1>0, <1>16, <2>2 DEF StreamEvent, FeedTypes
    <3> QED BY <1>2, <2>1, <3>1
  <2>3. CASE peer[c]
    <3> DEFINE m == joined[c] + Len(delivered[c]) + 1
    <3>1. delivered' = [delivered EXCEPT ![c] = Append(@, m)] /\ m <= Taken
      BY <1>0, <1>16, <2>3, Streamed
    <3>2. m \in Nat /\ delivered[c] \in Seq(Nat)
      BY <1>0 DEF FeedTypes
    <3>3. /\ <<m>> \in Seq(Nat) /\ <<m>> # <<>> /\ Len(<<m>>) = 1
          /\ Append(delivered[c], m) = delivered[c] \o <<m>>
      <4> HIDE DEF m
      <4>1. <<m>> \in Seq(Nat) /\ <<m>> # <<>> /\ Len(<<m>>) = 1
        BY <3>2
      <4>2. Append(delivered[c], m) = delivered[c] \o <<m>>
        BY <3>2, AppendIsConcat
      <4> QED BY <4>1, <4>2
    <3>4. delivered' = [delivered EXCEPT ![c] = @ \o <<m>>]
      BY <3>1, <3>3
    <3>5. \A i \in 1 .. Len(<<m>>) : <<m>>[i] = joined[c] + Len(delivered[c]) + i
      BY <3>3
    <3>6. seats[c] # "out"
      BY <2>1 DEF seats
    <3>7. UNCHANGED <<Taken, seats>>
      BY <1>15, <2>1
    <3>8. joined[c] + Len(delivered[c]) + Len(<<m>>) <= Taken
      BY <3>1, <3>3
    <3> QED BY <1>14, <2>1, <3>3, <3>4, <3>5, <3>6, <3>7, <3>8
  <2> QED BY <2>2, <2>3
<1>17. ASSUME NEW c \in Clients, Write(c) PROVE [Feed!Next]_(Feed!fvars)
  <2>1. /\ HubIdle /\ delivered' = [delivered EXCEPT ![c] = @ \o held[c]]
        /\ held[c] \in Seq(Nat) /\ delivered[c] \in Seq(Nat) /\ writer[c] = "write"
    BY <1>0, <1>17 DEF Write, WriterAt, FeedTypes
  <2>2. CASE held[c] = <<>>
    <3>1. delivered' = delivered
      <4>1. delivered[c] \o <<>> = delivered[c]
        BY <2>1
      <4> QED BY <4>1, <1>0, <2>1, <2>2 DEF FeedTypes
    <3> QED BY <1>12, <2>1, <3>1
  <2>3. CASE held[c] # <<>>
    <3>1. HoldsNext(c) /\ joined[c] + Len(delivered[c]) + Len(held[c]) <= Taken
      BY <1>0, <1>17, Written
    <3>2. UNCHANGED <<published, broadcast, clients, reader, joined>>
      BY <2>1 DEF HubIdle
    <3>3. reader[c] \notin {"out", "register"}
      BY <1>0, <2>1 DEF ClientInv, NothingYet
    <3>4. seats[c] # "out"
      BY <3>3 DEF seats
    <3>5. UNCHANGED <<Taken, seats>>
      BY <1>15, <3>2
    <3> QED BY <1>14, <2>1, <2>3, <3>1, <3>2, <3>4, <3>5 DEF HoldsNext
  <2> QED BY <2>2, <2>3
<1>18. CASE UNCHANGED hubVars
  BY <1>2, <1>18 DEF hubVars
<1> QED
  BY <1>3, <1>4, <1>5, <1>7, <1>8, <1>10, <1>11, <1>13, <1>16, <1>17, <1>18
     DEF HubNext, HubStep, ClientStep

\* The invariant holds of every behaviour of the hub.
LEMMA FeedInvHolds == HubSpec => []FeedInv
<1>1. HubInit => FeedInv
  <2> SUFFICES ASSUME HubInit PROVE FeedInv
    OBVIOUS
  <2>1. FeedTypes /\ Taken = 0
    <3>1. <<>> \in Seq(Nat) /\ Len(<<>>) = 0
      OBVIOUS
    <3>2. Taken = 0
      <4>1. published = 0 /\ Len(broadcast) = 0
        BY <3>1 DEF HubInit
      <4> QED BY <4>1 DEF Taken
    <3>3. [c \in Clients |-> <<>>] \in [Clients -> Seq(Nat)]
      BY <3>1
    <3> QED BY <3>1, <3>2, <3>3 DEF HubInit, FeedTypes, ReaderStages, WriterStages
  <2>2. HubIsInOrder
    BY DEF HubInit, HubIsInOrder
  <2>3. ASSUME NEW c \in Clients PROVE ClientInv(c)
    <3>1. /\ reader[c] = "out" /\ writer[c] = "off" /\ c \notin clients
          /\ buf[c] = <<>> /\ held[c] = <<>> /\ delivered[c] = <<>> /\ joined[c] = 0
      BY DEF HubInit
    <3>2. RunsFrom(<<>>, 1, 1)
      BY DEF RunsFrom
    <3>3. TakenBy(c) + 1 = 1 /\ 1 <= Taken + 1 /\ 1 \in Nat
      BY <2>1, <3>1 DEF TakenBy
    <3>4. Follows(c)
      BY <3>1, <3>2, <3>3 DEF Follows, HoldsNext
    <3> QED BY <3>1, <3>4 DEF ClientInv, NothingYet, StreamIsPlain, Given
  <2> QED BY <2>1, <2>2, <2>3 DEF FeedInv
<1>2. FeedInv /\ OpenWhileRegistered /\ [HubNext]_hubVars => FeedInv'
  <2> SUFFICES ASSUME FeedInv, OpenWhileRegistered, [HubNext]_hubVars PROVE FeedInv'
    OBVIOUS
  <2>1. FeedTypes' /\ HubIsInOrder'
    BY FeedTypesKept, HubOrderKept DEF FeedInv
  <2>2. \A c \in Clients : ClientInv(c)'
    BY ClientsKept
  <2> QED BY <2>1, <2>2 DEF FeedInv
<1>3. HubSpec => []OpenWhileRegistered
  BY HubSafe, PTL
<1> QED BY <1>1, <1>2, <1>3, PTL DEF HubSpec

\* What a client is written is the feed from the time it joined, in order and
\* without a gap, for every number of clients and every capacity: whatever the
\* hub drops, its channels lose or its connections break off.
THEOREM FeedInOrder == HubSpec => FeedIsOrdered
<1>1. HubInit => Feed!Init
  <2> SUFFICES ASSUME HubInit PROVE Feed!Init
    OBVIOUS
  <2>1. seats = [c \in Clients |-> "out"]
    BY DEF HubInit, seats
  <2>2. Taken = 0
    <3>1. published = 0 /\ Len(broadcast) = 0
      BY DEF HubInit
    <3> QED BY <3>1 DEF Taken
  <2> QED BY <2>1, <2>2 DEF HubInit, Feed!Init
<1>2. FeedInv /\ OpenWhileRegistered /\ [HubNext]_hubVars => [Feed!Next]_(Feed!fvars)
  BY FeedStep
<1>3. HubSpec => []OpenWhileRegistered
  BY HubSafe, PTL
<1> QED BY <1>1, <1>2, <1>3, FeedInvHolds, PTL DEF HubSpec, FeedIsOrdered, Feed!Spec

\* What the types say beyond FeedTypes: above all, no channel ever holds more
\* than its capacity.
Bounded ==
  /\ process \in {"up", "hub panicked", "pump panicked"} /\ pings \in Nat
  /\ Len(broadcast) <= BroadcastCap /\ \A c \in Clients : Len(buf[c]) <= Cap(c)
  /\ open \in [Clients -> BOOLEAN] /\ conn \in [Clients -> BOOLEAN]
  /\ more \in [Clients -> Nat]

LEMMA BoundedKept ==
  ASSUME FeedTypes, Bounded, [HubNext]_hubVars
  PROVE  Bounded'
<1>0. /\ BroadcastCap \in Nat /\ broadcast \in Seq(Nat) /\ Len(broadcast) \in Nat
      /\ published \in Nat /\ current \in Nat
      /\ buf \in [Clients -> Seq(Nat)]
      /\ \A c \in Clients : Cap(c) \in Nat /\ buf[c] \in Seq(Nat) /\ Len(buf[c]) \in Nat
  <2>1. {BroadcastCap, SendCap, EventCap} \subseteq Nat
    BY HubAssumption DEF HubAssumption
  <2>2. BroadcastCap \in Nat /\ \A c \in Clients : Cap(c) \in Nat
    BY <2>1 DEF Cap
  <2> QED BY <2>2 DEF FeedTypes
\* Receiving makes room, and a send finds some.
<1>1. ASSUME NEW c \in Clients, buf[c] # <<>>
      PROVE  Len(Tail(buf[c])) <= Cap(c)
  <2>1. Len(Tail(buf[c])) = Len(buf[c]) - 1
    BY <1>0, <1>1
  <2>2. Len(buf[c]) <= Cap(c) /\ Cap(c) \in Nat /\ Len(buf[c]) \in Nat
    BY <1>0 DEF Bounded
  <2> QED BY <2>1, <2>2
<1>2. ASSUME NEW c \in Clients, Room(c), NEW x \in Nat
      PROVE  Len(Append(buf[c], x)) <= Cap(c)
  <2>1. Len(Append(buf[c], x)) = Len(buf[c]) + 1
    BY <1>0
  <2>2. Len(buf[c]) < Cap(c) /\ Cap(c) \in Nat /\ Len(buf[c]) \in Nat
    BY <1>0, <1>2 DEF Room
  <2> QED BY <2>1, <2>2
<1>17. /\ Len(broadcast) <= BroadcastCap
       /\ broadcast # <<>> => Len(Tail(broadcast)) <= BroadcastCap
       /\ Len(broadcast) < BroadcastCap => Len(Append(broadcast, published + 1)) <= BroadcastCap
  <2>1. Len(broadcast) <= BroadcastCap
    BY DEF Bounded
  <2>2. broadcast # <<>> => Len(Tail(broadcast)) = Len(broadcast) - 1
    BY <1>0
  <2>3. Len(Append(broadcast, published + 1)) = Len(broadcast) + 1
    BY <1>0
  <2>4. BroadcastCap \in Nat /\ Len(broadcast) \in Nat
    BY <1>0
  <2> QED BY <2>1, <2>2, <2>3, <2>4
<1>18. pings \in Nat /\ more \in [Clients -> Nat]
  BY DEF Bounded
<1>19. ASSUME NEW c \in Clients, ReadPing(c) PROVE pings' \in Nat
  BY <1>18, <1>19 DEF ReadPing
<1>20. ASSUME NEW c \in Clients, AddQueued(c) PROVE more' \in [Clients -> Nat]
  <2>1. more[c] - 1 \in Nat /\ more' = [more EXCEPT ![c] = more[c] - 1]
    BY <1>18, <1>20 DEF AddQueued
  <2> QED BY <1>18, <2>1
<1> USE DEF Bounded, chans, ends, hubHist
<1>3. ASSUME NEW c \in Clients, NEW s, buf' = [buf EXCEPT ![c] = s], Len(s) <= Cap(c)
      PROVE  \A d \in Clients : Len(buf'[d]) <= Cap(d)
  BY <1>0, <1>3
<1>4. CASE HubTake BY <1>17, <1>4 DEF HubTake
<1>5. CASE Publish BY <1>17, <1>5 DEF Publish
<1>6. ASSUME NEW c \in Clients, HubRegister(c) PROVE Bounded'
  BY <1>6 DEF HubRegister
<1>7. ASSUME NEW c \in Clients, HubUnregister(c) PROVE Bounded'
  BY <1>7 DEF HubUnregister, Unregistered, CloseSend
<1>8. ASSUME NEW c \in Clients, HubSend(c) PROVE Bounded'
  <2>1. current \in Nat
    BY DEF FeedTypes
  <2>2. CASE UNCHANGED buf
    BY <1>8, <2>2 DEF HubSend, CloseSend
  <2>3. CASE open[c] /\ Room(c)
    <3>1. buf' = [buf EXCEPT ![c] = Append(buf[c], current)]
      BY <1>8, <2>3 DEF HubSend
    <3>2. \A d \in Clients : Len(buf'[d]) <= Cap(d)
      BY <1>2, <1>3, <2>1, <2>3, <3>1
    <3>3. UNCHANGED <<process, open, broadcast, conn, more, pings>>
      BY <1>8, <2>3 DEF HubSend
    <3> QED BY <3>2, <3>3
  <2> QED BY <1>8, <2>2, <2>3 DEF HubSend
<1>9. ASSUME NEW c \in Clients, Connect(c) \/ ReadPing(c) \/ ReadFails(c)
      PROVE  Bounded'
  <2>1. UNCHANGED <<process, open, broadcast, buf, conn, more>>
    BY <1>9 DEF Connect, ReadPing, ReadFails, ReaderGoes
  <2>2. pings' \in Nat
    <3>1. CASE Connect(c) \/ ReadFails(c) BY <3>1 DEF Connect, ReadFails
    <3> QED BY <1>9, <1>19, <3>1
  <2> QED BY <1>17, <2>1, <2>2
<1>10. ASSUME NEW c \in Clients, Pong(c) PROVE Bounded'
  <2>1. CASE ~open[c] BY <1>10, <2>1 DEF Pong, ReaderGoes
  <2>2. CASE open[c]
    <3>1. Room(c) /\ buf' = [buf EXCEPT ![c] = Append(buf[c], 0)]
      BY <1>10, <2>2 DEF Pong
    <3>2. \A d \in Clients : Len(buf'[d]) <= Cap(d)
      BY <1>2, <1>3, <3>1
    <3>3. UNCHANGED <<process, open, broadcast, conn, more, pings>>
      BY <1>10, <2>2 DEF Pong, ReaderGoes
    <3> QED BY <3>2, <3>3
  <2> QED BY <2>1, <2>2
<1>11. ASSUME NEW c \in Clients, PeerLeaves(c) PROVE Bounded'
  BY <1>11 DEF PeerLeaves
<1>12. ASSUME NEW c \in Clients, buf[c] # <<>>, buf' = [buf EXCEPT ![c] = Tail(@)],
              UNCHANGED <<process, open, broadcast, conn, pings>>,
              more' \in [Clients -> Nat]
       PROVE  Bounded'
  <2>1. \A d \in Clients : Len(buf'[d]) <= Cap(d)
    BY <1>1, <1>3, <1>12
  <2> QED BY <1>12, <2>1
<1>13. ASSUME NEW c \in Clients, StreamEvent(c) \/ Take(c) \/ AddQueued(c)
       PROVE  Bounded'
  <2>1. CASE StreamEvent(c) BY <1>12, <2>1 DEF StreamEvent
  <2>2. CASE Take(c) BY <1>12, <2>2 DEF Take, Receives, HubIdle
  <2>3. CASE AddQueued(c)
    <3>1. more' \in [Clients -> Nat]
      BY <1>20, <2>3
    <3> QED BY <1>12, <2>3, <3>1 DEF AddQueued, Receives, HubIdle
  <2> QED BY <1>13, <2>1, <2>2, <2>3
<1>14. ASSUME NEW c \in Clients, OpenMessage(c) PROVE Bounded'
  BY <1>0, <1>14 DEF OpenMessage, HubIdle
<1>15. ASSUME NEW c \in Clients,
              TakeClosed(c) \/ Write(c) \/ WriteFails(c) \/ PingFails(c)
       PROVE  Bounded'
  <2>1. CASE Write(c) BY <2>1 DEF Write, HubIdle
  <2>2. CASE WriterReturns(c) /\ HubIdle BY <2>2 DEF WriterReturns, HubIdle
  <2> QED BY <1>15, <2>1, <2>2 DEF TakeClosed, WriteFails, PingFails
<1>16. CASE UNCHANGED hubVars BY <1>16 DEF hubVars
<1> QED
  BY <1>4, <1>5, <1>6, <1>7, <1>8, <1>9, <1>10, <1>11, <1>13, <1>14, <1>15, <1>16
     DEF HubNext, HubStep, ClientStep

\* Type correctness of the hub; no channel overflows, whoever sends on it: the
\* hub, a read pump or a caller of Broadcast.
THEOREM HubTypes == HubSpec => []HubTypeOK
<1>1. HubInit => Bounded
  <2>1. Len(<<>>) = 0 /\ \A c \in Clients : Cap(c) \in Nat
    BY HubAssumption DEF HubAssumption, Cap
  <2> QED BY <2>1, HubAssumption DEF HubAssumption, HubInit, Bounded
<1>2. FeedInv /\ Bounded /\ [HubNext]_hubVars => Bounded'
  BY BoundedKept DEF FeedInv
<1>3. FeedInv /\ Bounded => HubTypeOK
  <2>1. FeedInv => (current = 0 <=> todo = {}) /\ todo \in SUBSET Clients
    BY TakenType DEF FeedInv, FeedTypes, HubIsInOrder
  <2> QED BY <2>1 DEF FeedInv, FeedTypes, Bounded, HubTypeOK
<1> QED BY <1>1, <1>2, <1>3, FeedInvHolds, PTL DEF HubSpec
=============================================================================
