------------------------- MODULE ReplicationProofs -------------------------
(* Proofs about Replication, for every set of nodes, callers and payloads.  *)
EXTENDS Replication, FiniteSetTheorems, TLAPS

LEMMA NodeSetsAreCountable ==
  ASSUME NEW S \in SUBSET Nodes
  PROVE  IsFiniteSet(S) /\ Cardinality(S) \in Nat
<1>1. IsFiniteSet(S) BY FS_Subset, ReplicationAssumption DEF ReplicationAssumption
<1> QED BY <1>1, FS_CardinalityType

LEMMA SetupTyped ==
  ASSUME setup \in Setups
  PROVE  HasDB \in BOOLEAN /\ Default \in SUBSET Nodes
BY ReplicationAssumption DEF ReplicationAssumption, HasDB, Default

LEMMA HealthTables ==
  /\ \A S \in SUBSET Nodes, old \in HealthTable : Tracked(S, old) \in HealthTable
  /\ Untracked \in HealthTable
  /\ setup \in Setups /\ nodeRows \in SUBSET Nodes => InitHealth \in HealthTable
<1>1. \A S \in SUBSET Nodes, old \in HealthTable : Tracked(S, old) \in HealthTable
  BY DEF Tracked, FreshHealth, HealthTable
<1>2. Untracked \in HealthTable
  BY DEF Untracked, ZeroHealth, HealthTable
<1>3. setup \in Setups /\ nodeRows \in SUBSET Nodes => InitHealth \in HealthTable
  BY <1>1, <1>2, SetupTyped DEF InitHealth
<1> QED BY <1>1, <1>2, <1>3

LEMMA RecordedTable ==
  ASSUME healthStatus \in HealthTable, NEW n \in Nodes, NEW ok \in BOOLEAN
  PROVE  Recorded(n, ok) \in HealthTable
<1>1. FreshHealth \in [IsHealthy: BOOLEAN, FailureCount: Nat]
  BY DEF FreshHealth
<1>2. AfterFailure(healthStatus[n]) \in [IsHealthy: BOOLEAN, FailureCount: Nat]
  <2> DEFINE h == healthStatus[n]
  <2>1. h.FailureCount \in Nat /\ h.IsHealthy \in BOOLEAN
    BY DEF HealthTable
  <2>2. h.FailureCount + 1 \in Nat
    BY <2>1
  <2>3. (IF h.FailureCount + 1 >= 3 THEN FALSE ELSE h.IsHealthy) \in BOOLEAN
    BY <2>1, Zenon
  <2> HIDE DEF h
  <2> QED BY <2>2, <2>3, Zenon DEF AfterFailure, h
<1> QED BY <1>1, <1>2 DEF Recorded, HealthTable

LEMMA CountedTyped ==
  ASSUME NEW r \in Results, NEW k \in Nat
  PROVE  Counted(r, k) \in Results
<1>1. (k >= RequiredReplicas) \in BOOLEAN BY SMT DEF RequiredReplicas
<1> QED BY <1>1, Zenon DEF Counted, Results

LEMMA AppendedTyped ==
  ASSUME NEW r \in Results, NEW ok, NEW S \in SUBSET Nodes
  PROVE  Appended(r, ok, S) \in Results
<1>1. /\ r.Replicated \in SUBSET Nodes /\ r.Failed \in SUBSET Nodes
      /\ r.Actual \in Nat /\ r.Success \in BOOLEAN
  BY Zenon DEF Results
<1>2. CASE ok BY <1>1, <1>2, Zenon DEF Appended, Results
<1>3. CASE ~ok BY <1>1, <1>3, Zenon DEF Appended, Results
<1> QED BY <1>2, <1>3

LEMMA OneNameChanges ==
  ASSUME NEW T \in Disks, NEW f \in Files, NEW n \in Nodes, NEW x \in Contents
  PROVE  [T EXCEPT ![f][n] = x] \in Disks
BY DEF Disks

\* Type correctness: every field keeps its type in every step.
THEOREM TypeCorrect == Spec => []TypeOK
<1> USE ReplicationAssumption DEF ReplicationAssumption
<1>1. Init => TypeOK
  <2> SUFFICES ASSUME Init PROVE TypeOK
    OBVIOUS
  <2>1. healthStatus \in HealthTable BY HealthTables DEF Init
  <2>2. result \in [Callers -> Results] BY DEF Init, Results, NoResult
  <2>3. Default \in SUBSET Nodes BY SetupTyped DEF Init
  <2> QED BY <2>1, <2>2, <2>3 DEF Init, TypeOK, InitNodes, Disks, Contents, Stages, Names, Active
<1>2. TypeOK /\ [Next]_vars => TypeOK'
  <2> SUFFICES ASSUME TypeOK, [Next]_vars PROVE TypeOK'
    OBVIOUS
  <2> USE DEF TypeOK, Stages, Names, Active, At, Goto, disk, config, budget,
              local
  <2>1. ASSUME NEW c \in Callers, StartCall(c) PROVE TypeOK'
    BY <2>1 DEF StartCall, NoResult, Results
  <2>2. ASSUME NEW c \in Callers, LoadNodes(c) PROVE TypeOK'
    BY <2>2, HealthTables, SetupTyped DEF LoadNodes
  <2>3. ASSUME NEW c \in Callers, MakeChan(c) PROVE TypeOK'
    BY <2>3, NodeSetsAreCountable DEF MakeChan
  <2>4. ASSUME NEW c \in Callers, Spawn(c) PROVE TypeOK'
    BY <2>4 DEF Spawn
  <2>5. ASSUME NEW c \in Callers, Collect(c) PROVE TypeOK'
    <3>1. Cardinality(replicaChan[c]) \in Nat BY NodeSetsAreCountable
    <3>2. Counted(result[c], Cardinality(replicaChan[c])) \in Results
      BY <3>1, CountedTyped
    <3>3. result' \in [Callers -> Results]
      BY <2>5, <3>2 DEF Collect
    <3> QED BY <2>5, <3>3 DEF Collect
  <2>6. ASSUME NEW c \in Callers, NEW n \in Nodes, NodeStep(c, n) PROVE TypeOK'
    <3>1. CASE Refuse(c, n) BY <3>1 DEF Refuse
    <3>a. /\ FileOf[c] \in Files /\ data[c] \in Contents
          /\ None \in Contents /\ Empty \in Contents /\ Torn \in Contents
      BY DEF Contents
    <3>2. CASE CreateTemp(c, n)
      BY <3>2, <3>a, OneNameChanges DEF CreateTemp
    <3>b. ASSUME NEW S \in SUBSET Contents, WriteThrough(c, n, S)
          PROVE  tmp' \in Disks /\ dst' \in Disks
      BY <3>b, <3>a, OneNameChanges DEF WriteThrough
    <3>3. CASE WriteTemp(c, n)
      <4>1. Overwrite(Held(c, n), data[c]) \in SUBSET Contents
        BY <3>a DEF Overwrite
      <4>2. tmp' \in Disks /\ dst' \in Disks
        BY <3>3, <3>b, <4>1 DEF WriteTemp
      <4> QED BY <3>3, <4>2 DEF WriteTemp, WriteThrough
    <3>4. CASE WriteFails(c, n)
      <4>1. tmp' \in Disks /\ dst' \in Disks
        BY <3>4, <3>a, <3>b DEF WriteFails
      <4> QED BY <3>4, <4>1 DEF WriteFails, WriteThrough
    <3>5. CASE RenameTemp(c, n)
      <4>a. Renamed(FileOf[c], n) \in [Callers -> [Nodes -> Names]]
        BY DEF Renamed
      <4>b. fd' = [Renamed(FileOf[c], n) EXCEPT ![c][n] = "closed"]
        BY <3>5 DEF RenameTemp
      <4>1. fd' \in [Callers -> [Nodes -> Names]]
        BY <4>a, <4>b
      <4>2. tmp[FileOf[c]][n] \in Contents
        BY <3>a DEF Disks
      <4>3. tmp' \in Disks /\ dst' \in Disks
        BY <3>5, <3>a, <4>2, OneNameChanges DEF RenameTemp
      <4> QED BY <3>5, <4>1, <4>3 DEF RenameTemp
    <3>6. CASE RenameFails(c, n) BY <3>6 DEF RenameFails
    <3>7. CASE RemoveTemp(c, n)
      <4>1. fd' \in [Callers -> [Nodes -> Names]]
        BY <3>7 DEF RemoveTemp, Removed
      <4> QED BY <3>7, <3>a, <4>1, OneNameChanges DEF RemoveTemp
    <3>8. CASE PutObject(c, n)
      <4>1. dst' \in Disks
        BY <3>8, <3>a, OneNameChanges DEF PutObject
      <4>2. stored' = [stored EXCEPT ![c] = @ \cup {n}] \/ stored' = stored
        BY <3>8 DEF PutObject
      <4>3. stored' \in [Callers -> SUBSET Nodes]
        <5>1. [stored EXCEPT ![c] = @ \cup {n}] \in [Callers -> SUBSET Nodes]
          OBVIOUS
        <5> QED BY <4>2, <5>1
      <4> QED BY <3>8, <4>1, <4>3 DEF PutObject
    <3>9. CASE AppendRead(c, n)
      <4>1. ReportedBy(c, n) \in SUBSET Nodes
        BY DEF ReportedBy, Results
      <4> QED BY <3>9, <4>1 DEF AppendRead
    <3>10. CASE AppendStore(c, n)
      <4>1. Appended(result[c], n \in stored[c], header[c][n] \cup {n}) \in Results
        BY AppendedTyped
      <4>2. result' \in [Callers -> Results]
        BY <3>10, <4>1 DEF AppendStore
      <4> QED BY <3>10, <4>2 DEF AppendStore
    <3>11. CASE Send(c, n) BY <3>11 DEF Send
    <3>12. CASE RecordOutcome(c, n)
      <4>1. (n \in stored[c]) \in BOOLEAN OBVIOUS
      <4>2. Recorded(n, n \in stored[c]) \in HealthTable
        BY <4>1, RecordedTable, Zenon
      <4> QED BY <3>12, <4>2 DEF RecordOutcome
    <3> QED BY <2>6, <3>1, <3>2, <3>3, <3>4, <3>5, <3>6, <3>7, <3>8, <3>9,
               <3>10, <3>11, <3>12 DEF NodeStep
  <2>7. ASSUME NEW n \in Nodes, CheckNodeHealth(n) PROVE TypeOK'
    <3>1. Recorded(n, TRUE) \in HealthTable /\ Recorded(n, FALSE) \in HealthTable
      BY RecordedTable, Zenon
    <3>2. healthStatus' \in HealthTable
      BY <2>7, <3>1 DEF CheckNodeHealth
    <3>3. CASE checks' = checks BY <2>7, <3>2, <3>3 DEF CheckNodeHealth
    <3>4. CASE checks' = checks + 1 BY <2>7, <3>2, <3>4 DEF CheckNodeHealth
    <3> QED BY <2>7, <3>3, <3>4 DEF CheckNodeHealth
  <2>8. CASE EditNodeRows BY <2>8 DEF EditNodeRows
  <2>9. CASE Crash
    BY <2>9, HealthTables, SetupTyped DEF Crash, InitNodes, NoResult, Results
  <2>10. CASE UNCHANGED vars BY <2>10 DEF vars
  <2> HIDE DEF TypeOK
  <2> QED BY <2>1, <2>2, <2>3, <2>4, <2>5, <2>6, <2>7, <2>8, <2>9, <2>10
          DEF Next, CallerStep
<1> QED BY <1>1, <1>2, PTL DEF Spec

-----------------------------------------------------------------------------
(* A goroutine's step that leaves names, descriptors and payloads alone:    *)
(* only the stage of one goroutine of a waiting call changes.               *)
QuietStep(c, n, from, to) ==
  /\ gor[c][n] = from /\ gor' = [gor EXCEPT ![c][n] = to]
  /\ UNCHANGED <<tmp, dst, pc, data, overlapped, fd>>

LEMMA QuietStepKeepsWhole ==
  ASSUME TypeOK, WholeInv, NEW c \in Callers, NEW n \in Nodes,
         NEW from \in {"start", "append", "store", "send", "record"},
         NEW to \in {"append", "store", "send", "record", "done"},
         QuietStep(c, n, from, to)
  PROVE  WholeInv'
<1> USE DEF WholeInv, QuietStep, TypeOK, Stages
<1>1. GoroutinesInsideWait' BY DEF GoroutinesInsideWait
<1>2. SoleCall' BY DEF SoleCall, Active
<1>3. OwnTemporary' BY DEF OwnTemporary, OwnTemporaryAt
<1>4. ReplicaWhole' BY DEF ReplicaWhole
<1> QED BY <1>1, <1>2, <1>3, <1>4

(* Two goroutines of one file that both hold or await its temporary belong  *)
(* to one call, unless calls for the file overlapped.                       *)
LEMMA SoleGoroutine ==
  ASSUME GoroutinesInsideWait, SoleCall,
         NEW c \in Callers, NEW d \in Callers, NEW n \in Nodes,
         gor[c][n] \notin {"off", "done"}, gor[d][n] \notin {"off", "done"},
         FileOf[c] = FileOf[d], FileOf[c] \notin overlapped
  PROVE  c = d
BY DEF GoroutinesInsideWait, SoleCall, Active

LEMMA WholeInvHolds == Spec => []WholeInv
<1> USE ReplicationAssumption DEF ReplicationAssumption
<1>1. Init => WholeInv
  BY DEF Init, WholeInv, GoroutinesInsideWait, SoleCall, OwnTemporary, OwnTemporaryAt,
         ReplicaWhole, Active
<1>2. TypeOK /\ WholeInv /\ [Next]_vars => WholeInv'
  <2> SUFFICES ASSUME TypeOK, WholeInv, [Next]_vars PROVE WholeInv'
    OBVIOUS
  <2> USE DEF disk, config, budget, local, At, Goto
  <2>1. ASSUME NEW c \in Callers, StartCall(c) PROVE WholeInv'
    <3>1. GoroutinesInsideWait'
      BY <2>1 DEF StartCall, WholeInv, GoroutinesInsideWait, TypeOK, Active
    <3>2. SoleCall'
      BY <2>1 DEF StartCall, WholeInv, SoleCall, TypeOK, Active
    <3>3. OwnTemporary'
      BY <2>1 DEF StartCall, WholeInv, OwnTemporary, OwnTemporaryAt, TypeOK, Active
    <3>4. ReplicaWhole'
      BY <2>1 DEF StartCall, WholeInv, ReplicaWhole, TypeOK
    <3> QED BY <3>1, <3>2, <3>3, <3>4 DEF WholeInv
  <2>2. ASSUME NEW c \in Callers, CallerStep(c) PROVE WholeInv'
    <3> USE DEF CallerStep, LoadNodes, MakeChan, Spawn, Collect
    <3>1. GoroutinesInsideWait'
      BY <2>2 DEF WholeInv, GoroutinesInsideWait, TypeOK
    <3>2. SoleCall'
      BY <2>2 DEF WholeInv, SoleCall, TypeOK, Active
    <3>3. OwnTemporary'
      <4>1. \A d \in Callers, n \in Nodes :
              gor'[d][n] \in {"created", "written"} => gor'[d][n] = gor[d][n]
        <5>1. CASE Spawn(c) BY <5>1 DEF TypeOK
        <5>2. CASE gor' = gor BY <5>2
        <5> QED BY <2>2, <5>1, <5>2
      <4> QED BY <2>2, <4>1 DEF WholeInv, OwnTemporary, OwnTemporaryAt
    <3>4. ReplicaWhole'
      BY <2>2 DEF WholeInv, ReplicaWhole
    <3> QED BY <3>1, <3>2, <3>3, <3>4 DEF WholeInv
  <2>3. ASSUME NEW c \in Callers, NEW n \in Nodes, NodeStep(c, n) PROVE WholeInv'
    <3>1. CASE Refuse(c, n)
      BY <3>1, QuietStepKeepsWhole DEF Refuse, QuietStep
    <3>2. CASE AppendRead(c, n)
      BY <3>2, QuietStepKeepsWhole DEF AppendRead, QuietStep
    <3>3. CASE AppendStore(c, n)
      BY <3>3, QuietStepKeepsWhole DEF AppendStore, QuietStep
    <3>4. CASE Send(c, n)
      BY <3>4, QuietStepKeepsWhole DEF Send, QuietStep
    <3>5. CASE RecordOutcome(c, n)
      BY <3>5, QuietStepKeepsWhole DEF RecordOutcome, QuietStep
    <3>6. CASE CreateTemp(c, n)
      <4> USE <3>6 DEF CreateTemp, WholeInv, TypeOK, Disks
      <4>1. GoroutinesInsideWait' BY DEF GoroutinesInsideWait
      <4>2. SoleCall' BY DEF SoleCall, Active
      <4>3. OwnTemporary'
        <5> SUFFICES ASSUME NEW d \in Callers, NEW m \in Nodes,
                            FileOf[d] \notin overlapped
                     PROVE  OwnTemporaryAt(d, m)'
          BY DEF OwnTemporary
        <5>0. OwnTemporaryAt(d, m) BY DEF OwnTemporary
        <5>1. CASE d = c /\ m = n
          BY <5>0, <5>1 DEF OwnTemporaryAt
        <5>2. CASE d # c /\ m = n /\ FileOf[d] = FileOf[c]
          <6>1. gor[d][m] \in {"off", "done"} BY <5>2, SoleGoroutine
          <6> QED BY <6>1, <5>2 DEF OwnTemporaryAt
        <5>3. CASE m # n \/ FileOf[d] # FileOf[c]
          BY <5>0, <5>3 DEF OwnTemporaryAt
        <5> QED BY <5>1, <5>2, <5>3
      <4>4. ReplicaWhole' BY DEF ReplicaWhole
      <4> QED BY <4>1, <4>2, <4>3, <4>4
    <3>7. CASE WriteTemp(c, n)
      <4> USE <3>7 DEF WriteTemp, WriteThrough, WholeInv, TypeOK, Disks
      <4>1. GoroutinesInsideWait' BY DEF GoroutinesInsideWait
      <4>2. SoleCall' BY DEF SoleCall, Active
      <4>3. OwnTemporary'
        <5> SUFFICES ASSUME NEW d \in Callers, NEW m \in Nodes,
                            FileOf[d] \notin overlapped
                     PROVE  OwnTemporaryAt(d, m)'
          BY DEF OwnTemporary
        <5>0. OwnTemporaryAt(d, m) BY DEF OwnTemporary
        <5>1. CASE d = c /\ m = n
          BY <5>0, <5>1 DEF OwnTemporaryAt, Overwrite, Held
        <5>2. CASE d # c /\ m = n /\ FileOf[d] = FileOf[c]
          <6>1. gor[d][m] \in {"off", "done"} BY <5>2, SoleGoroutine
          <6> QED BY <6>1, <5>2 DEF OwnTemporaryAt
        <5>3. CASE m # n \/ FileOf[d] # FileOf[c]
          BY <5>0, <5>3 DEF OwnTemporaryAt
        <5> QED BY <5>1, <5>2, <5>3
      <4>4. ReplicaWhole' BY DEF ReplicaWhole, OwnTemporary, OwnTemporaryAt
      <4> QED BY <4>1, <4>2, <4>3, <4>4
    <3>8. CASE WriteFails(c, n)
      <4> USE <3>8 DEF WriteFails, WriteThrough, WholeInv, TypeOK, Disks
      <4>1. GoroutinesInsideWait' BY DEF GoroutinesInsideWait
      <4>2. SoleCall' BY DEF SoleCall, Active
      <4>3. OwnTemporary'
        <5> SUFFICES ASSUME NEW d \in Callers, NEW m \in Nodes,
                            FileOf[d] \notin overlapped
                     PROVE  OwnTemporaryAt(d, m)'
          BY DEF OwnTemporary
        <5>0. OwnTemporaryAt(d, m) BY DEF OwnTemporary
        <5>1. CASE d = c /\ m = n
          BY <5>0, <5>1 DEF OwnTemporaryAt
        <5>2. CASE d # c /\ m = n /\ FileOf[d] = FileOf[c]
          <6>1. gor[d][m] \in {"off", "done"} BY <5>2, SoleGoroutine
          <6> QED BY <6>1, <5>2 DEF OwnTemporaryAt
        <5>3. CASE m # n \/ FileOf[d] # FileOf[c]
          BY <5>0, <5>3 DEF OwnTemporaryAt
        <5> QED BY <5>1, <5>2, <5>3
      <4>4. ReplicaWhole' BY DEF ReplicaWhole, OwnTemporary, OwnTemporaryAt
      <4> QED BY <4>1, <4>2, <4>3, <4>4
    <3>9. CASE RenameTemp(c, n)
      <4> USE <3>9 DEF RenameTemp, Renamed, WholeInv, TypeOK, Disks
      <4>1. GoroutinesInsideWait'
        <5> SUFFICES ASSUME NEW d \in Callers, NEW m \in Nodes
                     PROVE  /\ gor'[d][m] \notin {"off", "done"} => pc'[d] = "wait"
                            /\ fd'[d][m] # "closed" =>
                                 gor'[d][m] \in {"created", "written", "cleanup"}
          BY DEF GoroutinesInsideWait
        <5>1. fd'[d][m] # "closed" => fd[d][m] # "closed" /\ ~(d = c /\ m = n)
          OBVIOUS
        <5> QED BY <5>1 DEF GoroutinesInsideWait
      <4>2. SoleCall' BY DEF SoleCall, Active
      <4>3. OwnTemporary'
        <5> SUFFICES ASSUME NEW d \in Callers, NEW m \in Nodes,
                            FileOf[d] \notin overlapped
                     PROVE  OwnTemporaryAt(d, m)'
          BY DEF OwnTemporary
        <5>0. OwnTemporaryAt(d, m) BY DEF OwnTemporary
        <5>1. CASE d = c /\ m = n
          BY <5>0, <5>1 DEF OwnTemporaryAt
        <5>2. CASE d # c /\ m = n /\ FileOf[d] = FileOf[c]
          <6>1. gor[d][m] \in {"off", "done"} BY <5>2, SoleGoroutine
          <6> QED BY <6>1, <5>2 DEF OwnTemporaryAt
        <5>3. CASE m # n \/ FileOf[d] # FileOf[c]
          BY <5>0, <5>3 DEF OwnTemporaryAt
        <5> QED BY <5>1, <5>2, <5>3
      <4>4. ReplicaWhole'
        BY DEF ReplicaWhole, OwnTemporary, OwnTemporaryAt, GoroutinesInsideWait, Active
      <4> QED BY <4>1, <4>2, <4>3, <4>4
    <3>10. CASE RenameFails(c, n)
      <4> USE <3>10 DEF RenameFails, WholeInv, TypeOK
      <4>1. GoroutinesInsideWait' BY DEF GoroutinesInsideWait
      <4>2. SoleCall' BY DEF SoleCall, Active
      <4>3. OwnTemporary' BY DEF OwnTemporary, OwnTemporaryAt
      <4>4. ReplicaWhole' BY DEF ReplicaWhole
      <4> QED BY <4>1, <4>2, <4>3, <4>4
    <3>11. CASE RemoveTemp(c, n)
      <4> USE <3>11 DEF RemoveTemp, Removed, WholeInv, TypeOK, Disks
      <4>1. GoroutinesInsideWait' BY DEF GoroutinesInsideWait
      <4>2. SoleCall' BY DEF SoleCall, Active
      <4>3. OwnTemporary'
        <5> SUFFICES ASSUME NEW d \in Callers, NEW m \in Nodes,
                            FileOf[d] \notin overlapped
                     PROVE  OwnTemporaryAt(d, m)'
          BY DEF OwnTemporary
        <5>0. OwnTemporaryAt(d, m) BY DEF OwnTemporary
        <5>1. CASE d = c /\ m = n
          BY <5>0, <5>1 DEF OwnTemporaryAt
        <5>2. CASE d # c /\ m = n /\ FileOf[d] = FileOf[c]
          <6>1. gor[d][m] \in {"off", "done"} BY <5>2, SoleGoroutine
          <6> QED BY <6>1, <5>2 DEF OwnTemporaryAt
        <5>3. CASE m # n \/ FileOf[d] # FileOf[c]
          BY <5>0, <5>3 DEF OwnTemporaryAt
        <5> QED BY <5>1, <5>2, <5>3
      <4>4. ReplicaWhole' BY DEF ReplicaWhole
      <4> QED BY <4>1, <4>2, <4>3, <4>4
    <3>12. CASE PutObject(c, n)
      <4> USE <3>12 DEF PutObject, WholeInv, TypeOK, Disks
      <4>1. GoroutinesInsideWait' BY DEF GoroutinesInsideWait
      <4>2. SoleCall' BY DEF SoleCall, Active
      <4>3. OwnTemporary' BY DEF OwnTemporary, OwnTemporaryAt
      <4>4. ReplicaWhole' BY DEF ReplicaWhole, GoroutinesInsideWait, Active
      <4> QED BY <4>1, <4>2, <4>3, <4>4
    <3> QED BY <2>3, <3>1, <3>2, <3>3, <3>4, <3>5, <3>6, <3>7, <3>8, <3>9,
               <3>10, <3>11, <3>12 DEF NodeStep
  <2>4. CASE Crash
    BY <2>4 DEF Crash, WholeInv, GoroutinesInsideWait, SoleCall, OwnTemporary, OwnTemporaryAt,
                ReplicaWhole, Active
  <2>5. CASE \/ \E n \in Nodes : CheckNodeHealth(n)
             \/ EditNodeRows \/ UNCHANGED vars
    <3>1. UNCHANGED <<tmp, dst, pc, data, gor, fd, overlapped>>
      BY <2>5 DEF CheckNodeHealth, EditNodeRows, vars
    <3> QED BY <3>1 DEF WholeInv, GoroutinesInsideWait, SoleCall, OwnTemporary, OwnTemporaryAt,
                        ReplicaWhole, Active
  <2> QED BY <2>1, <2>2, <2>3, <2>4, <2>5 DEF Next
<1> QED BY <1>1, <1>2, TypeCorrect, PTL DEF Spec

\* Whatever fails and whenever the process crashes, a file is whole unless two
\* calls for it overlapped (replicateToLocal's temporary and rename).
THEOREM WholeReplicas == Spec => []ReplicaWhole
<1>1. WholeInv => ReplicaWhole
  BY DEF WholeInv
<1> QED BY <1>1, WholeInvHolds, PTL

-----------------------------------------------------------------------------
(* The health table of the singleton, which never loads nodes again.        *)

NeverLoads == ~HasDB => \A c \in Callers : pc[c] # "load"

LEMMA RecordedMatches ==
  ASSUME healthStatus \in HealthTable, NEW n \in Nodes, NEW ok \in BOOLEAN, NEW m \in Nodes,
         healthStatus[m].IsHealthy <=> healthStatus[m].FailureCount < 3
  PROVE  Recorded(n, ok)[m].IsHealthy <=> Recorded(n, ok)[m].FailureCount < 3
<1>1. CASE m # n
  BY <1>1 DEF Recorded, HealthTable
<1>2. CASE m = n /\ ok
  <2>1. Recorded(n, ok)[m] = FreshHealth BY <1>2 DEF Recorded, HealthTable
  <2>2. FreshHealth.IsHealthy /\ FreshHealth.FailureCount = 0 BY DEF FreshHealth
  <2> QED BY <2>1, <2>2
<1>3. CASE m = n /\ ~ok
  <2> DEFINE h == healthStatus[m]
  <2>1. Recorded(n, ok)[m] = AfterFailure(h) BY <1>3 DEF Recorded, HealthTable
  <2>2. h.FailureCount \in Nat BY DEF HealthTable
  <2>3. h.IsHealthy <=> h.FailureCount < 3 OBVIOUS
  <2> HIDE DEF h
  <2>4. AfterFailure(h).FailureCount = h.FailureCount + 1 BY DEF AfterFailure
  <2>5. AfterFailure(h).IsHealthy = (IF h.FailureCount + 1 >= 3 THEN FALSE ELSE h.IsHealthy)
    BY Zenon DEF AfterFailure
  <2>6. CASE h.FailureCount + 1 >= 3
    <3>1. AfterFailure(h).IsHealthy = FALSE BY <2>5, <2>6, Zenon
    <3> QED BY <2>1, <2>2, <2>4, <2>6, <3>1
  <2>7. CASE ~(h.FailureCount + 1 >= 3)
    <3>1. AfterFailure(h).IsHealthy = h.IsHealthy BY <2>5, <2>7, Zenon
    <3>2. h.IsHealthy BY <2>2, <2>3, <2>7
    <3> QED BY <2>1, <2>2, <2>4, <2>7, <3>1, <3>2
  <2> QED BY <2>6, <2>7
<1> QED BY <1>1, <1>2, <1>3

LEMMA TrackedMatches ==
  ASSUME NEW S, NEW old, NEW n \in Nodes, n \in S
  PROVE  Tracked(S, old)[n].IsHealthy <=> Tracked(S, old)[n].FailureCount < 3
<1>1. Tracked(S, old)[n] = FreshHealth BY DEF Tracked
<1>2. FreshHealth.IsHealthy = TRUE /\ FreshHealth.FailureCount = 0 BY DEF FreshHealth
<1> QED BY <1>1, <1>2

\* A node the singleton knows is unhealthy exactly when its last three outcomes
\* failed, in whatever order its checks and calls record them.
THEOREM HealthIsRight == Spec => [](NeverLoads /\ HealthMatchesFailures)
<1>1. Init => NeverLoads /\ HealthMatchesFailures
  <2> SUFFICES ASSUME Init PROVE NeverLoads /\ HealthMatchesFailures
    OBVIOUS
  <2>1. Default \in SUBSET Nodes BY SetupTyped DEF Init
  <2>2. ~HasDB => storageNodes = Default /\ healthStatus = Tracked(Default, Untracked)
    BY DEF Init, InitNodes, InitHealth
  <2> QED BY <2>1, <2>2, TrackedMatches DEF Init, NeverLoads, HealthMatchesFailures
<1>2. TypeOK /\ NeverLoads /\ HealthMatchesFailures /\ [Next]_vars
        => NeverLoads' /\ HealthMatchesFailures'
  <2> SUFFICES ASSUME TypeOK, NeverLoads, HealthMatchesFailures, [Next]_vars
               PROVE  NeverLoads' /\ HealthMatchesFailures'
    OBVIOUS
  <2> USE DEF config
  <2>0. setup' = setup => HasDB' = HasDB BY DEF HasDB
  <2>1. ASSUME UNCHANGED <<config, healthStatus>>,
               \A c \in Callers : pc'[c] = "load" => HasDB \/ pc[c] = "load"
        PROVE  NeverLoads' /\ HealthMatchesFailures'
    BY <2>0, <2>1 DEF NeverLoads, HealthMatchesFailures
  <2>2. ASSUME NEW c \in Callers, StartCall(c) PROVE NeverLoads' /\ HealthMatchesFailures'
    BY <2>1, <2>2 DEF StartCall, TypeOK
  <2>3. ASSUME NEW c \in Callers, LoadNodes(c) PROVE NeverLoads' /\ HealthMatchesFailures'
    <3>1. HasDB BY <2>3 DEF LoadNodes, NeverLoads
    <3> QED BY <2>0, <2>3, <3>1 DEF LoadNodes, NeverLoads, HealthMatchesFailures
  <2>4. ASSUME NEW c \in Callers, MakeChan(c) \/ Spawn(c) \/ Collect(c)
        PROVE  NeverLoads' /\ HealthMatchesFailures'
    BY <2>1, <2>4 DEF MakeChan, Spawn, Collect, TypeOK
  <2>5. ASSUME NEW n \in Nodes, NEW ok \in BOOLEAN, healthStatus' = Recorded(n, ok),
               UNCHANGED <<config, pc>>
        PROVE  NeverLoads' /\ HealthMatchesFailures'
    <3>1. ~HasDB => \A m \in storageNodes :
            Recorded(n, ok)[m].IsHealthy <=> Recorded(n, ok)[m].FailureCount < 3
      BY RecordedMatches DEF TypeOK, HealthMatchesFailures
    <3> QED BY <2>0, <2>5, <3>1 DEF NeverLoads, HealthMatchesFailures
  <2>6. ASSUME NEW c \in Callers, NEW n \in Nodes, RecordOutcome(c, n)
        PROVE  NeverLoads' /\ HealthMatchesFailures'
    <3>1. healthStatus' = Recorded(n, n \in stored[c]) /\ UNCHANGED <<config, pc>>
      BY <2>6 DEF RecordOutcome
    <3>2. CASE n \in stored[c]
      <4>1. healthStatus' = Recorded(n, TRUE) BY <3>1, <3>2 DEF Recorded
      <4> QED BY <2>5, <3>1, <4>1
    <3>3. CASE n \notin stored[c]
      <4>1. healthStatus' = Recorded(n, FALSE) BY <3>1, <3>3 DEF Recorded
      <4> QED BY <2>5, <3>1, <4>1
    <3> QED BY <3>2, <3>3
  <2>7. ASSUME NEW c \in Callers, NEW n \in Nodes, NodeStep(c, n), ~RecordOutcome(c, n)
        PROVE  NeverLoads' /\ HealthMatchesFailures'
    <3>1. UNCHANGED <<config, healthStatus, pc>>
      <4>1. CASE Refuse(c, n) BY <4>1 DEF Refuse
      <4>2. CASE CreateTemp(c, n) BY <4>2 DEF CreateTemp
      <4>3. CASE WriteTemp(c, n) BY <4>3 DEF WriteTemp, WriteThrough
      <4>4. CASE WriteFails(c, n) BY <4>4 DEF WriteFails, WriteThrough
      <4>5. CASE RenameTemp(c, n) BY <4>5 DEF RenameTemp
      <4>6. CASE RenameFails(c, n) BY <4>6 DEF RenameFails
      <4>7. CASE RemoveTemp(c, n) BY <4>7 DEF RemoveTemp
      <4>8. CASE PutObject(c, n) BY <4>8 DEF PutObject
      <4>9. CASE AppendRead(c, n) BY <4>9 DEF AppendRead
      <4>10. CASE AppendStore(c, n) BY <4>10 DEF AppendStore
      <4>11. CASE Send(c, n) BY <4>11 DEF Send
      <4> QED BY <2>7, <4>1, <4>2, <4>3, <4>4, <4>5, <4>6, <4>7, <4>8, <4>9, <4>10, <4>11 DEF NodeStep
    <3> QED BY <2>1, <3>1
  <2>8. ASSUME NEW n \in Nodes, CheckNodeHealth(n) PROVE NeverLoads' /\ HealthMatchesFailures'
    <3>1. /\ healthStatus' = Recorded(n, TRUE) \/ healthStatus' = Recorded(n, FALSE)
          /\ UNCHANGED <<config, pc>>
      BY <2>8 DEF CheckNodeHealth
    <3> QED BY <2>5, <3>1
  <2>9. CASE EditNodeRows
    BY <2>0, <2>9 DEF EditNodeRows, NeverLoads, HealthMatchesFailures
  <2>10. CASE Crash
    <3>1. setup' = setup /\ \A c \in Callers : pc'[c] = "idle" BY <2>10 DEF Crash
    <3>2. ~HasDB => storageNodes' = Default /\ healthStatus' = Tracked(Default, Untracked)
      BY <2>10 DEF Crash, InitNodes, InitHealth
    <3>3. Default \in SUBSET Nodes BY SetupTyped DEF TypeOK
    <3> QED BY <2>0, <3>1, <3>2, <3>3, TrackedMatches DEF NeverLoads, HealthMatchesFailures
  <2>11. CASE UNCHANGED vars BY <2>1, <2>11 DEF vars
  <2> QED BY <2>2, <2>3, <2>4, <2>6, <2>7, <2>8, <2>9, <2>10, <2>11 DEF Next, CallerStep
<1> QED BY <1>1, <1>2, TypeCorrect, PTL DEF Spec

-----------------------------------------------------------------------------
(* What one step of goroutine n of call c leaves alone: other goroutines,   *)
(* other calls' reports, and every name but the two of its file on n.       *)
LEMMA NodeFrame ==
  ASSUME TypeOK, NEW c \in Callers, NEW n \in Nodes, NodeStep(c, n)
  PROVE  /\ UNCHANGED <<pc, data, overlapped>>
         /\ gor[c][n] \notin {"off", "done"} /\ gor'[c][n] # "off"
         /\ \A d \in Callers, m \in Nodes :
              d # c \/ m # n => gor'[d][m] = gor[d][m] /\ header'[d][m] = header[d][m]
         /\ \A d \in Callers \ {c} : stored'[d] = stored[d] /\ result'[d] = result[d]
         /\ \A f \in Files, m \in Nodes :
              f # FileOf[c] \/ m # n => tmp'[f][m] = tmp[f][m] /\ dst'[f][m] = dst[f][m]
         /\ \A d \in Callers, m \in Nodes :
              FileOf[d] # FileOf[c] \/ m # n => fd'[d][m] = fd[d][m]
<1> USE ReplicationAssumption
    DEF ReplicationAssumption, TypeOK, Stages, Names, Disks, At, Goto, disk, config,
        budget, local
<1>0. FileOf[c] \in Files OBVIOUS
<1>1. CASE Refuse(c, n) BY <1>1 DEF Refuse
<1>2. CASE CreateTemp(c, n) BY <1>2, <1>0 DEF CreateTemp
<1>3. CASE WriteTemp(c, n)  BY <1>3, <1>0 DEF WriteTemp, WriteThrough
<1>4. CASE WriteFails(c, n) BY <1>4, <1>0 DEF WriteFails, WriteThrough
<1>5. CASE RenameTemp(c, n) BY <1>5, <1>0 DEF RenameTemp, Renamed
<1>6. CASE RenameFails(c, n) BY <1>6 DEF RenameFails
<1>7. CASE RemoveTemp(c, n) BY <1>7, <1>0 DEF RemoveTemp, Removed
<1>8. CASE PutObject(c, n) BY <1>8, <1>0 DEF PutObject
<1>9. CASE AppendRead(c, n) BY <1>9 DEF AppendRead
<1>10. CASE AppendStore(c, n) BY <1>10 DEF AppendStore
<1>11. CASE Send(c, n) BY <1>11 DEF Send
<1>12. CASE RecordOutcome(c, n) BY <1>12 DEF RecordOutcome
<1> QED BY <1>1, <1>2, <1>3, <1>4, <1>5, <1>6, <1>7, <1>8, <1>9, <1>10, <1>11,
           <1>12 DEF NodeStep

(* The steps that start, count and end calls: a goroutine's stage, a report *)
(* and the nodes stored are as they were, unless the call starts anew.      *)
LEMMA CallFrame ==
  ASSUME TypeOK, [Next]_vars,
         ~\E c \in Callers, n \in Nodes : NodeStep(c, n)
  PROVE  /\ UNCHANGED <<tmp, dst>> /\ overlapped \subseteq overlapped'
         /\ \A c \in Callers :
              \/ /\ UNCHANGED <<stored[c], result[c].Replicated, result[c].Failed,
                                header[c], data[c], fd[c], gor[c]>>
                 /\ pc[c] = "idle" <=> pc'[c] = "idle"
                 /\ Active(c)' => Active(c)
              \/ /\ UNCHANGED <<stored[c], result[c].Replicated, result[c].Failed,
                                header[c], data[c], fd[c]>>
                 /\ \A n \in Nodes : gor'[c][n] \in {"off", "start"}
                 /\ pc[c] = "spawn" /\ pc'[c] = "wait"
              \/ /\ \A n \in Nodes : gor'[c][n] = "off"
                 /\ stored'[c] = {} /\ result'[c] = NoResult
                 /\ StartCall(c) \/ Crash
<1> USE DEF TypeOK, Disks, disk, config, budget, local, Active
<1>1. ASSUME NEW c \in Callers, StartCall(c)
      PROVE  /\ \A d \in Callers \ {c} : UNCHANGED <<stored[d], result[d], header[d],
                                                data[d], fd[d], gor[d], pc[d]>>
             /\ UNCHANGED <<tmp, dst>> /\ overlapped \subseteq overlapped'
             /\ \A n \in Nodes : gor'[c][n] = "off"
             /\ stored'[c] = {} /\ result'[c] = NoResult
  BY <1>1 DEF StartCall
<1>2. ASSUME NEW c \in Callers, LoadNodes(c) \/ MakeChan(c)
      PROVE  /\ UNCHANGED <<stored, result, header, data, fd, gor, tmp, dst, overlapped>>
             /\ \A d \in Callers : pc[d] = "idle" <=> pc'[d] = "idle"
             /\ \A d \in Callers : Active(d)' => Active(d)
  BY <1>2 DEF LoadNodes, MakeChan
<1>3. ASSUME NEW c \in Callers, Spawn(c)
      PROVE  /\ UNCHANGED <<stored, result, header, data, fd, tmp, dst, overlapped>>
             /\ \A n \in Nodes : gor'[c][n] \in {"off", "start"}
             /\ pc[c] = "spawn" /\ pc'[c] = "wait"
             /\ \A d \in Callers \ {c} : gor'[d] = gor[d] /\ pc'[d] = pc[d]
  BY <1>3 DEF Spawn
<1>4. ASSUME NEW c \in Callers, Collect(c)
      PROVE  /\ UNCHANGED <<stored, header, data, fd, gor, tmp, dst, overlapped>>
             /\ \A d \in Callers : /\ result'[d].Replicated = result[d].Replicated
                                   /\ result'[d].Failed = result[d].Failed
             /\ \A d \in Callers : pc[d] = "idle" <=> pc'[d] = "idle"
             /\ \A d \in Callers : Active(d)' => Active(d)
  BY <1>4 DEF Collect, Counted
<1>5. ASSUME Crash
      PROVE  /\ UNCHANGED <<tmp, dst, overlapped>>
             /\ \A c \in Callers : /\ \A n \in Nodes : gor'[c][n] = "off"
                                   /\ stored'[c] = {} /\ result'[c] = NoResult
                                   /\ pc'[c] = "idle"
  BY <1>5 DEF Crash
<1>6. CASE \/ \E n \in Nodes : CheckNodeHealth(n)
           \/ EditNodeRows \/ UNCHANGED vars
  BY <1>6 DEF CheckNodeHealth, EditNodeRows, vars
<1>7. CASE \E c \in Callers : StartCall(c) BY <1>1, <1>7
<1>8. CASE \E c \in Callers : LoadNodes(c) \/ MakeChan(c) BY <1>2, <1>8
<1>9. CASE \E c \in Callers : Spawn(c) BY <1>3, <1>9
<1>10. CASE \E c \in Callers : Collect(c) BY <1>4, <1>10
<1>11. CASE Crash BY <1>5, <1>11
<1> QED BY <1>6, <1>7, <1>8, <1>9, <1>10, <1>11 DEF Next, CallerStep

-----------------------------------------------------------------------------
(* The report: who appends what to which slice. *)

ReportInv == ReplicatedAreStored /\ FailureIsKept

LEMMA ReportKept ==
  ASSUME TypeOK, ReportInv, NEW c \in Callers, NEW n \in Nodes, NodeStep(c, n)
  PROVE  ReportInv'
<1> USE DEF TypeOK, Stages, Results, At, Goto, local
<1>0. SUFFICES /\ result'[c].Replicated \subseteq stored'[c]
               /\ gor'[c][n] = "store" /\ n \in stored'[c] => header'[c][n] \subseteq stored'[c]
               /\ gor'[c][n] \in {"send", "record", "done"} /\ n \notin stored'[c]
                    => result'[c].Failed # {}
               /\ stored[c] \subseteq stored'[c] /\ stored'[c] \subseteq stored[c] \cup {n}
               /\ result[c].Failed # {} => result'[c].Failed # {}
  <2>1. ReplicatedAreStored'
    <3> SUFFICES ASSUME NEW d \in Callers
                 PROVE  /\ result'[d].Replicated \subseteq stored'[d]
                        /\ \A m \in Nodes : gor'[d][m] = "store" /\ m \in stored'[d]
                                          => header'[d][m] \subseteq stored'[d]
      BY DEF ReplicatedAreStored
    <3>0. /\ result[d].Replicated \subseteq stored[d]
          /\ \A m \in Nodes : gor[d][m] = "store" /\ m \in stored[d]
                            => header[d][m] \subseteq stored[d]
      BY DEF ReportInv, ReplicatedAreStored
    <3>1. CASE d # c BY <3>0, <3>1, NodeFrame
    <3>2. CASE d = c
      <4>1. \A m \in Nodes \ {n} : gor'[c][m] = gor[c][m] /\ header'[c][m] = header[c][m]
        BY NodeFrame
      <4> QED BY <1>0, <3>0, <3>2, <4>1
    <3> QED BY <3>1, <3>2
  <2>2. FailureIsKept'
    <3> SUFFICES ASSUME NEW d \in Callers, NEW m \in Nodes,
                        gor'[d][m] \in {"send", "record", "done"}, m \notin stored'[d]
                 PROVE  result'[d].Failed # {}
      BY DEF FailureIsKept
    <3>0. gor[d][m] \in {"send", "record", "done"} /\ m \notin stored[d]
            => result[d].Failed # {}
      BY DEF ReportInv, FailureIsKept
    <3>1. CASE d # c
      <4>1. gor'[d][m] = gor[d][m] BY <3>1, NodeFrame
      <4>2. stored'[d] = stored[d] /\ result'[d] = result[d] BY <3>1, NodeFrame
      <4> QED BY <3>0, <4>1, <4>2
    <3>2. CASE d = c /\ m # n
      <4>1. gor'[c][m] = gor[c][m] BY <3>2, NodeFrame
      <4> QED BY <1>0, <3>0, <3>2, <4>1
    <3>3. CASE d = c /\ m = n BY <1>0, <3>3
    <3> QED BY <3>1, <3>2, <3>3
  <2> QED BY <2>1, <2>2 DEF ReportInv
<1>a. /\ result[c].Replicated \subseteq stored[c]
      /\ gor[c][n] = "store" /\ n \in stored[c] => header[c][n] \subseteq stored[c]
      /\ gor[c][n] \in {"send", "record", "done"} /\ n \notin stored[c]
           => result[c].Failed # {}
  BY DEF ReportInv, ReplicatedAreStored, FailureIsKept
<1>1. CASE Refuse(c, n) BY <1>1, <1>a DEF Refuse
<1>2. CASE CreateTemp(c, n) BY <1>2, <1>a DEF CreateTemp
<1>3. CASE WriteTemp(c, n)  BY <1>3, <1>a DEF WriteTemp, WriteThrough
<1>4. CASE WriteFails(c, n) BY <1>4, <1>a DEF WriteFails, WriteThrough
<1>5. CASE RenameTemp(c, n) BY <1>5, <1>a DEF RenameTemp
<1>6. CASE RenameFails(c, n) BY <1>6, <1>a DEF RenameFails
<1>7. CASE RemoveTemp(c, n) BY <1>7, <1>a DEF RemoveTemp
<1>8. CASE PutObject(c, n) BY <1>8, <1>a DEF PutObject
<1>9. CASE AppendRead(c, n) BY <1>9, <1>a DEF AppendRead, ReportedBy
<1>10. CASE AppendStore(c, n) BY <1>10, <1>a DEF AppendStore, Appended
<1>11. CASE Send(c, n) BY <1>11, <1>a DEF Send
<1>12. CASE RecordOutcome(c, n) BY <1>12, <1>a DEF RecordOutcome
<1> QED BY <1>1, <1>2, <1>3, <1>4, <1>5, <1>6, <1>7, <1>8, <1>9, <1>10, <1>11,
           <1>12 DEF NodeStep

LEMMA ReportInvariant == Spec => []ReportInv
<1>1. Init => ReportInv
  BY DEF Init, ReportInv, ReplicatedAreStored, FailureIsKept, NoResult
<1>2. TypeOK /\ ReportInv /\ [Next]_vars => ReportInv'
  <2> SUFFICES ASSUME TypeOK, ReportInv, [Next]_vars PROVE ReportInv'
    OBVIOUS
  <2>1. CASE \E c \in Callers, n \in Nodes : NodeStep(c, n) BY <2>1, ReportKept
  <2>2. CASE ~\E c \in Callers, n \in Nodes : NodeStep(c, n)
    BY <2>2, CallFrame DEF ReportInv, ReplicatedAreStored, FailureIsKept, NoResult
  <2> QED BY <2>1, <2>2
<1> QED BY <1>1, <1>2, TypeCorrect, PTL DEF Spec

\* The appends of ReplicateFile's goroutines race and may lose entries, but a
\* returned call with an empty FailedNodes had no failed node.
THEOREM FailuresAreReported == Spec => []PartialFailureIsReported
<1>1. ReportInv => PartialFailureIsReported
  BY DEF ReportInv, FailureIsKept, PartialFailureIsReported
<1> QED BY <1>1, ReportInvariant, PTL

-----------------------------------------------------------------------------
(* What a call that has its file to itself leaves on the nodes. *)

(* No goroutine of another call is at work on the file of a sole call. *)
LEMMA SoleRuns ==
  ASSUME GoroutinesInsideWait, SoleCall, NEW c \in Callers, NEW d \in Callers, NEW n \in Nodes,
         Sole(c), FileOf[d] = FileOf[c], gor[d][n] \notin {"off", "done"}
  PROVE  d = c
BY DEF GoroutinesInsideWait, SoleCall, Sole, Alone, Active

(* A call does not come to have its file to itself half way. *)
LEMMA SoleBefore ==
  ASSUME TypeOK, [Next]_vars, NEW c \in Callers, Sole(c)',
         ~StartCall(c), ~Crash
  PROVE  Sole(c)
<1>1. CASE \E d \in Callers, n \in Nodes : NodeStep(d, n)
  BY <1>1, NodeFrame DEF Sole, Alone, Active
<1>2. CASE ~\E d \in Callers, n \in Nodes : NodeStep(d, n)
  <2>1. overlapped \subseteq overlapped' BY <1>2, CallFrame
  <2>2. Active(c)' => Active(c) BY <1>2, CallFrame DEF Active
  <2>3. \A d \in Callers : pc'[d] = "idle" => pc[d] = "idle"
    <3>2. ASSUME NEW e \in Callers, StartCall(e)
          PROVE  \A d \in Callers : pc'[d] = "idle" => pc[d] = "idle"
      BY <3>2 DEF StartCall, TypeOK
    <3>3. CASE ~\E e \in Callers : StartCall(e)
      BY <1>2, <3>3, CallFrame
    <3> QED BY <3>2, <3>3
  <2> QED BY <2>1, <2>2, <2>3 DEF Sole, Alone
<1> QED BY <1>1, <1>2

(* One step of its own goroutine n keeps what a sole call has stored. *)
LEMMA SoleStep ==
  ASSUME TypeOK, WholeInv, NEW c \in Callers, NEW n \in Nodes, NodeStep(c, n),
         Sole(c), HoldsData(c), \A m \in Nodes : OwnTemporaryAt(c, m)
  PROVE  /\ n \in stored'[c] => dst'[FileOf[c]][n] = data[c]
         /\ OwnTemporaryAt(c, n)'
         /\ stored[c] \subseteq stored'[c] /\ stored'[c] \subseteq stored[c] \cup {n}
<1> USE ReplicationAssumption
    DEF ReplicationAssumption, TypeOK, Stages, Names, Disks, At, Goto, disk, config,
        budget, local, HoldsData, OwnTemporaryAt
<1>0. /\ FileOf[c] \in Files
      /\ gor[c][n] = "start" => fd[c][n] = "closed"
      /\ gor[c][n] \in {"created", "written", "cleanup"} => fd[c][n] \in Names
  BY DEF WholeInv, GoroutinesInsideWait
<1>1. CASE Refuse(c, n) BY <1>1 DEF Refuse
<1>2. CASE CreateTemp(c, n) BY <1>2, <1>0 DEF CreateTemp
<1>3. CASE WriteTemp(c, n)
  BY <1>3, <1>0 DEF WriteTemp, WriteThrough, Overwrite, Held
<1>4. CASE WriteFails(c, n) BY <1>4, <1>0 DEF WriteFails, WriteThrough
<1>5. CASE RenameTemp(c, n) BY <1>5, <1>0 DEF RenameTemp, Renamed
<1>6. CASE RenameFails(c, n) BY <1>6 DEF RenameFails
<1>7. CASE RemoveTemp(c, n) BY <1>7, <1>0 DEF RemoveTemp, Removed
<1>8. CASE PutObject(c, n) BY <1>8, <1>0 DEF PutObject
<1>9. CASE AppendRead(c, n) BY <1>9 DEF AppendRead
<1>10. CASE AppendStore(c, n) BY <1>10 DEF AppendStore
<1>11. CASE Send(c, n) BY <1>11 DEF Send
<1>12. CASE RecordOutcome(c, n) BY <1>12 DEF RecordOutcome
<1> QED BY <1>1, <1>2, <1>3, <1>4, <1>5, <1>6, <1>7, <1>8, <1>9, <1>10, <1>11,
           <1>12 DEF NodeStep

LEMMA SoleKept ==
  ASSUME TypeOK, WholeInv, SoleInv, [Next]_vars
  PROVE  SoleInv'
<1> SUFFICES ASSUME NEW c \in Callers, Sole(c)'
             PROVE  HoldsData(c)' /\ \A m \in Nodes : OwnTemporaryAt(c, m)'
  BY DEF SoleInv
<1>0. FileOf[c] \in Files BY ReplicationAssumption DEF ReplicationAssumption
<1>1. CASE (\A n \in Nodes : gor'[c][n] = "off") /\ stored'[c] = {}
  BY <1>1 DEF HoldsData, OwnTemporaryAt
<1>2. CASE StartCall(c)
  BY <1>1, <1>2 DEF StartCall, TypeOK
<1>3. CASE Crash BY <1>1, <1>3 DEF Crash
<1>4. CASE Sole(c)
  <2>0. HoldsData(c) /\ \A m \in Nodes : OwnTemporaryAt(c, m)
    BY <1>4 DEF SoleInv
  <2>1. ASSUME NEW n \in Nodes, NodeStep(c, n)
        PROVE  HoldsData(c)' /\ \A m \in Nodes : OwnTemporaryAt(c, m)'
    <3>1. /\ n \in stored'[c] => dst'[FileOf[c]][n] = data[c]
          /\ OwnTemporaryAt(c, n)' /\ stored'[c] \subseteq stored[c] \cup {n}
      BY <1>4, <2>0, <2>1, SoleStep
    <3>2. \A m \in Nodes \ {n} :
            /\ gor'[c][m] = gor[c][m] /\ fd'[c][m] = fd[c][m]
            /\ tmp'[FileOf[c]][m] = tmp[FileOf[c]][m]
            /\ dst'[FileOf[c]][m] = dst[FileOf[c]][m]
      BY <1>0, <2>1, NodeFrame
    <3>3. data' = data BY <2>1, NodeFrame
    <3>4. HoldsData(c)' BY <2>0, <3>1, <3>2, <3>3 DEF HoldsData, TypeOK
    <3>5. ASSUME NEW m \in Nodes PROVE OwnTemporaryAt(c, m)'
      BY <2>0, <3>1, <3>2, <3>3 DEF OwnTemporaryAt
    <3> QED BY <3>4, <3>5
  <2>2. ASSUME NEW d \in Callers \ {c}, NEW n \in Nodes, NodeStep(d, n)
        PROVE  HoldsData(c)' /\ \A m \in Nodes : OwnTemporaryAt(c, m)'
    <3>1. FileOf[d] # FileOf[c]
      BY <1>4, <2>2, NodeFrame, SoleRuns DEF WholeInv
    <3>2. \A m \in Nodes :
            /\ gor'[c][m] = gor[c][m] /\ fd'[c][m] = fd[c][m]
            /\ tmp'[FileOf[c]][m] = tmp[FileOf[c]][m]
            /\ dst'[FileOf[c]][m] = dst[FileOf[c]][m]
      BY <1>0, <2>2, <3>1, NodeFrame
    <3>3. data' = data /\ stored'[c] = stored[c] BY <2>2, NodeFrame
    <3>4. HoldsData(c)' BY <2>0, <3>2, <3>3 DEF HoldsData, TypeOK
    <3>5. ASSUME NEW m \in Nodes PROVE OwnTemporaryAt(c, m)'
      BY <2>0, <3>2, <3>3 DEF OwnTemporaryAt
    <3> QED BY <3>4, <3>5
  <2>3. CASE ~\E d \in Callers, n \in Nodes : NodeStep(d, n)
    <3>1. UNCHANGED <<tmp, dst>> BY <2>3, CallFrame
    <3>2. CASE (\A n \in Nodes : gor'[c][n] = "off") /\ stored'[c] = {} BY <1>1, <3>2
    <3>3. CASE /\ UNCHANGED <<stored[c], data[c], fd[c]>>
               /\ \A n \in Nodes : gor'[c][n] = gor[c][n] \/ gor'[c][n] \in {"off", "start"}
      <4>1. HoldsData(c)' BY <2>0, <3>1, <3>3 DEF HoldsData
      <4>2. ASSUME NEW m \in Nodes PROVE OwnTemporaryAt(c, m)'
        BY <2>0, <3>1, <3>3 DEF OwnTemporaryAt
      <4> QED BY <4>1, <4>2
    <3> QED BY <2>3, <3>2, <3>3, CallFrame
  <2> QED BY <2>1, <2>2, <2>3
<1> QED BY <1>2, <1>3, <1>4, SoleBefore

LEMMA WholeInvariantHolds == Spec => [](TypeOK /\ WholeInv /\ SoleInv)
<1>1. Init => SoleInv
  BY DEF Init, SoleInv, HoldsData, OwnTemporaryAt
<1>2. TypeOK /\ WholeInv /\ SoleInv /\ [Next]_vars => SoleInv'
  BY SoleKept
<1> QED BY <1>1, <1>2, TypeCorrect, WholeInvHolds, PTL DEF Spec

\* A node that a returned call lists in ReplicatedNodes holds the payload of
\* that call, as long as nobody else called ReplicateFile for the file.
THEOREM ReportsAreTrue == Spec => []ReportedReplicaHoldsData
<1>1. ReportInv /\ SoleInv => ReportedReplicaHoldsData
  BY DEF ReportInv, ReplicatedAreStored, SoleInv, Sole, Alone, HoldsData,
         ReportedReplicaHoldsData
<1> QED BY <1>1, ReportInvariant, WholeInvariantHolds, PTL

-----------------------------------------------------------------------------
(* The refinement: each step of the code is a step of AtomicReplicas.       *)

LEMMA RunningCalls ==
  ASSUME TypeOK, NEW c \in Callers
  PROVE  /\ Writing[c] # None <=> Active(c)
         /\ Active(c) => Writing[c] = data[c]
BY ReplicationAssumption DEF ReplicationAssumption, TypeOK, Writing

(* A step of a goroutine is a stutter, or it stores the running call's own  *)
(* payload; anything a name can hold, if two calls for the file overlapped. *)
LEMMA NodeStepIsStore ==
  ASSUME TypeOK, WholeInv, NEW c \in Callers, NEW n \in Nodes, NodeStep(c, n)
  PROVE  Abstract!Store(c, n) \/ UNCHANGED <<dst, Writing, Reported, overlapped>>
<1> USE ReplicationAssumption
    DEF ReplicationAssumption, TypeOK, Stages, Disks, At, Goto, disk, config, budget, local
<1>1. UNCHANGED <<Writing, overlapped>>
  BY NodeFrame DEF Writing, Active
<1>2. pc[c] = "wait" /\ Active(c) /\ Writing[c] = data[c] /\ data[c] \in Values
  BY NodeFrame, RunningCalls DEF WholeInv, GoroutinesInsideWait, Active
<1>3. UNCHANGED Reported
  <2>1. ASSUME NEW d \in Callers
        PROVE  (IF pc'[d] = "returned" THEN result'[d].Replicated ELSE {})
                 = (IF pc[d] = "returned" THEN result[d].Replicated ELSE {})
    <3>1. pc' = pc /\ (d # c => result'[d] = result[d]) BY NodeFrame
    <3> QED BY <1>2, <3>1
  <2> QED BY <2>1 DEF Reported
<1>4. ASSUME NEW x \in Contents, dst' = [dst EXCEPT ![FileOf[c]][n] = x],
             FileOf[c] \notin overlapped => x = data[c]
      PROVE  Abstract!Store(c, n)
  <2>1. Writing[c] # None BY <1>2
  <2>2. x \in {Writing[c]} \cup (IF FileOf[c] \in overlapped THEN Contents ELSE {})
    BY <1>2, <1>4
  <2> QED BY <1>1, <1>3, <1>4, <2>1, <2>2 DEF Abstract!Store
<1>5. CASE dst' = dst BY <1>1, <1>3, <1>5
<1>6. CASE RenameTemp(c, n)
  <2> DEFINE x == tmp[FileOf[c]][n]
  <2>1. x \in Contents /\ dst' = [dst EXCEPT ![FileOf[c]][n] = x]
    BY <1>6 DEF RenameTemp
  <2>2. FileOf[c] \notin overlapped => x = data[c]
    BY <1>6 DEF RenameTemp, WholeInv, OwnTemporary, OwnTemporaryAt
  <2> QED BY <1>4, <2>1, <2>2
<1>7. CASE PutObject(c, n)
  <2>1. data[c] \in Contents BY <1>2 DEF Contents
  <2> QED BY <1>4, <1>7, <2>1 DEF PutObject
<1>8. CASE WriteTemp(c, n) \/ WriteFails(c, n)
  <2>1. PICK S : WriteThrough(c, n, S) /\ S \subseteq Contents /\ gor[c][n] = "created"
    BY <1>8, <1>2 DEF WriteTemp, WriteFails, Overwrite, Contents
  <2>2. PICK x \in Contents :
          dst' = IF fd[c][n] = "dst" THEN [dst EXCEPT ![FileOf[c]][n] = x] ELSE dst
    BY <2>1 DEF WriteThrough
  <2>3. CASE fd[c][n] # "dst" BY <1>5, <2>2, <2>3
  <2>4. CASE fd[c][n] = "dst"
    <3>1. FileOf[c] \in overlapped
      BY <2>1, <2>4 DEF WholeInv, OwnTemporary, OwnTemporaryAt
    <3> QED BY <1>4, <2>2, <2>4, <3>1
  <2> QED BY <2>3, <2>4
<1>9. CASE ~(RenameTemp(c, n) \/ PutObject(c, n) \/ WriteTemp(c, n) \/ WriteFails(c, n))
  <2>1. dst' = dst
    BY <1>9 DEF NodeStep, Refuse, CreateTemp, RenameFails, RemoveTemp, AppendRead,
               AppendStore, Send, RecordOutcome
  <2> QED BY <1>5, <2>1
<1> QED BY <1>6, <1>7, <1>8, <1>9

LEMMA StartCallIsBegin ==
  ASSUME TypeOK, NEW c \in Callers, StartCall(c)
  PROVE  Abstract!Begin(c)
<1> USE DEF TypeOK, disk, config, budget
<1>1. Writing[c] = None /\ dst' = dst
  BY RunningCalls DEF StartCall, disk
<1>2. PICK v \in Values : data' = [data EXCEPT ![c] = v]
  BY DEF StartCall
<1>3. Writing' = [Writing EXCEPT ![c] = v]
  BY <1>2 DEF StartCall, Writing, Active
<1>4. Reported' = [Reported EXCEPT ![c] = {}]
  BY DEF StartCall, Reported, NoResult
<1>5. (\E d \in Callers : Writing[d] # None /\ FileOf[d] = FileOf[c])
        <=> \E d \in Callers : Active(d) /\ FileOf[d] = FileOf[c]
  BY RunningCalls
<1>6. overlapped' = IF \E d \in Callers : Writing[d] # None /\ FileOf[d] = FileOf[c]
                    THEN overlapped \cup {FileOf[c]} ELSE overlapped
  BY <1>5 DEF StartCall
<1> QED BY <1>1, <1>2, <1>3, <1>4, <1>6 DEF Abstract!Begin

LEMMA CollectIsReturn ==
  ASSUME TypeOK, ReplicatedAreStored, SoleInv, NEW c \in Callers, Collect(c)
  PROVE  Abstract!Return(c)
<1> USE DEF TypeOK, disk, config, budget, local
<1>1. Active(c) /\ Writing[c] = data[c] /\ Writing[c] # None
  BY RunningCalls DEF Collect, Active
<1>2. UNCHANGED <<dst, overlapped>> BY DEF Collect
<1>3. Writing' = [Writing EXCEPT ![c] = None]
  BY DEF Collect, Writing, Active
<1>4. Reported' = [Reported EXCEPT ![c] = result[c].Replicated]
  BY DEF Collect, Reported, Counted
<1>5. result[c].Replicated \in SUBSET {n \in Nodes : \/ dst[FileOf[c]][n] = Writing[c]
                                                  \/ FileOf[c] \in overlapped}
  <2>1. CASE FileOf[c] \in overlapped BY <2>1 DEF Results
  <2>2. CASE FileOf[c] \notin overlapped
    <3>1. HoldsData(c) BY <1>1, <2>2 DEF SoleInv, Sole
    <3>2. result[c].Replicated \subseteq stored[c] BY DEF ReplicatedAreStored
    <3> QED BY <1>1, <3>1, <3>2 DEF HoldsData, Results
  <2> QED BY <2>1, <2>2
<1> QED BY <1>1, <1>2, <1>3, <1>4, <1>5 DEF Abstract!Return

\* ReplicateFile implements the atomic replicas: under failures, races of its
\* goroutines and crashes, each step changes a file whole or not at all, only
\* for a running call, and what a call reports holds its payload.
THEOREM ReplicasImplementAtomic == Spec => ReplicasAreAtomic
<1> USE DEF disk, config, budget, local
<1>1. Init => Abstract!AInit
  BY DEF Init, Abstract!AInit, Writing, Reported, Active
<1>2. TypeOK /\ WholeInv /\ SoleInv /\ ReportInv /\ [Next]_vars
        => [Abstract!ANext]_<<dst, Writing, Reported, overlapped>>
  <2> SUFFICES ASSUME TypeOK, WholeInv, SoleInv, ReportInv, [Next]_vars
               PROVE  [Abstract!ANext]_<<dst, Writing, Reported, overlapped>>
    OBVIOUS
  <2>1. ASSUME NEW c \in Callers, StartCall(c) PROVE Abstract!ANext
    BY <2>1, StartCallIsBegin DEF Abstract!ANext
  <2>2. ASSUME NEW c \in Callers, Collect(c) PROVE Abstract!ANext
    BY <2>2, CollectIsReturn DEF ReportInv, Abstract!ANext
  <2>3. ASSUME NEW c \in Callers, LoadNodes(c) \/ MakeChan(c) \/ Spawn(c)
        PROVE  UNCHANGED <<dst, Writing, Reported, overlapped>>
    BY <2>3 DEF LoadNodes, MakeChan, Spawn, TypeOK, Writing, Reported, Active
  <2>4. ASSUME NEW c \in Callers, NEW n \in Nodes, NodeStep(c, n)
        PROVE  [Abstract!ANext]_<<dst, Writing, Reported, overlapped>>
    BY <2>4, NodeStepIsStore DEF Abstract!ANext
  <2>5. CASE Crash
    BY <2>5 DEF Crash, Abstract!ANext, Abstract!Abort, Writing, Reported, Active
  <2>6. CASE \/ \E n \in Nodes : CheckNodeHealth(n)
             \/ EditNodeRows \/ UNCHANGED vars
    BY <2>6 DEF CheckNodeHealth, EditNodeRows, vars, Writing, Reported, Active
  <2> QED BY <2>1, <2>2, <2>3, <2>4, <2>5, <2>6 DEF Next, CallerStep
<1> QED BY <1>1, <1>2, TypeCorrect, WholeInvariantHolds, ReportInvariant, PTL
        DEF Spec, ReplicasAreAtomic, Abstract!ASpec, Abstract!avars
=============================================================================
