---------------------------- MODULE Replication ----------------------------
(***************************************************************************)
(* ReplicationService (internal/replicate/replication.go): a call of        *)
(* ReplicateFile writes one payload to every storage node, one goroutine    *)
(* per node, and reports how many replicas it made.                         *)
(*                                                                          *)
(* A caller is a thread that calls ReplicateFile again and again for one    *)
(* file; two callers may name the same file.  A local node keeps two names  *)
(* per file, the file itself (dst) and its temporary (tmp); a goroutine     *)
(* holds a descriptor (fd) on what it created, and a rename or a remove by  *)
(* another goroutine moves that descriptor to another name or to none.      *)
(* The process may crash between any two steps: names survive, the calls    *)
(* and the health table do not.                                             *)
(***************************************************************************)
EXTENDS Naturals, FiniteSets

CONSTANTS
  Nodes,        \* every storage node that may be configured
  NodeType,     \* [Nodes -> {"local", "s3", "other"}]
  Files,        \* bucket and file names
  Callers,      \* threads that call ReplicateFile
  FileOf,       \* [Callers -> Files]: the file a caller replicates
  Values,       \* payloads
  Size,         \* [Values -> Nat]: their lengths
  None,         \* no such name on the node, no payload
  Empty,        \* a file that was created or truncated and not yet written
  Torn,         \* a file that holds no payload of any call
  Setups        \* how a service may be set up, and the bounds of its run

ASSUME ReplicationAssumption ==
  /\ IsFiniteSet(Nodes)
  /\ NodeType \in [Nodes -> {"local", "s3", "other"}]
  /\ Setups \subseteq [default: SUBSET Nodes, hasDB: BOOLEAN,
                      tables: SUBSET (SUBSET Nodes), \* what nodeRows may hold
                      calls: [Callers -> Nat],   \* bound: calls a caller makes
                      checks: Nat,               \* bound: failed health checks
                      changes: Nat,              \* bound: edits of the node table
                      crashes: Nat]              \* bound: crashes of the process
  /\ FileOf \in [Callers -> Files]
  /\ Size \in [Values -> Nat]
  /\ {None, Empty, Torn} \cap Values = {}
  /\ None # Empty /\ None # Torn /\ Empty # Torn

RequiredReplicas == 2

VARIABLES
  setup,          \* the setup of this run
  storageNodes,   \* rs.storageNodes
  healthStatus,   \* rs.healthStatus; an absent entry is Go's zero value
  nodeRows,       \* the tenant's active rows of replication_nodes
  tmp, dst,       \* [Files -> [Nodes -> content]]: the two names on a node
  pc,             \* [Callers -> where ReplicateFile is]
  data,           \* [Callers -> fileBytes of the current call]
  chanCap,        \* [Callers -> capacity of replicaChan]
  replicaChan,    \* [Callers -> the goroutines whose message is in replicaChan]
  result,         \* [Callers -> ReplicationResult]
  gor,            \* [Callers -> [Nodes -> where the node's goroutine is]]
  fd,             \* [Callers -> [Nodes -> the name the descriptor's file has]]
  stored,         \* [Callers -> nodes for which replicateToNode returned nil]
  header,         \* [Callers -> [Nodes -> the slice a goroutine's append read]]
  overlapped,     \* history: files replicated by two calls at one time
  calls, checks, changes, crashes   \* what the bounds count

\* rs.db # nil: a tenant's service, its nodes come from the database.
HasDB == setup.hasDB

\* The nodes parseStorageNodes finds in REPLICATION_BUCKETS.
Default == setup.default

disk   == <<tmp, dst>>
config == <<setup, storageNodes, nodeRows>>
budget == <<calls, checks, changes, crashes>>
local  == <<data, chanCap, overlapped>>
vars   == <<setup, storageNodes, healthStatus, nodeRows, tmp, dst, pc, data,
            chanCap, replicaChan, result, gor, fd, stored, header, overlapped,
            calls, checks, changes, crashes>>

Contents == Values \cup {None, Empty, Torn}
Stages   == {"off", "start", "created", "written", "cleanup", "append",
             "store", "send", "record", "done"}
Names    == {"closed", "tmp", "dst", "unlinked"}

ZeroHealth  == [IsHealthy |-> FALSE, FailureCount |-> 0]
FreshHealth == [IsHealthy |-> TRUE, FailureCount |-> 0]
NoResult    == [Replicated |-> {}, Failed |-> {}, Actual |-> 0, Success |-> FALSE]

\* InitReplicationService and loadNodesFromDB mark each node they load healthy;
\* the fallback to the default nodes leaves the table as it was.
Tracked(S, old) == [n \in Nodes |-> IF n \in S THEN FreshHealth ELSE old[n]]
Untracked       == [n \in Nodes |-> ZeroHealth]

Active(c) == pc[c] \in {"load", "make", "spawn", "wait"}

HealthTable == [Nodes -> [IsHealthy: BOOLEAN, FailureCount: Nat]]
Results     == [Replicated: SUBSET Nodes, Failed: SUBSET Nodes,
                Actual: Nat, Success: BOOLEAN]
Disks       == [Files -> [Nodes -> Contents]]

TypeOK ==
  /\ setup \in Setups
  /\ storageNodes \in SUBSET Nodes
  /\ nodeRows \in SUBSET Nodes
  /\ healthStatus \in HealthTable
  /\ tmp \in Disks
  /\ dst \in Disks
  /\ pc \in [Callers -> {"idle", "load", "make", "spawn", "wait", "returned"}]
  /\ data \in [Callers -> Values \cup {None}]
  /\ \A c \in Callers : Active(c) => data[c] \in Values
  /\ chanCap \in [Callers -> Nat]
  /\ replicaChan \in [Callers -> SUBSET Nodes]
  /\ result \in [Callers -> Results]
  /\ gor \in [Callers -> [Nodes -> Stages]]
  /\ fd \in [Callers -> [Nodes -> Names]]
  /\ stored \in [Callers -> SUBSET Nodes]
  /\ header \in [Callers -> [Nodes -> SUBSET Nodes]]
  /\ overlapped \in SUBSET Files
  /\ calls \in [Callers -> Nat]
  /\ checks \in Nat /\ changes \in Nat /\ crashes \in Nat

\* A new process: the singleton loads the default nodes, a tenant's service
\* (InitReplicationServiceWithDB) the table's, or the defaults if it has none.
InitNodes  == IF HasDB /\ nodeRows # {} THEN nodeRows ELSE Default
InitHealth == Tracked(IF HasDB THEN nodeRows ELSE Default, Untracked)

Init ==
  /\ setup \in Setups
  /\ nodeRows \in setup.tables
  /\ storageNodes = InitNodes
  /\ healthStatus = InitHealth
  /\ tmp = [f \in Files |-> [n \in Nodes |-> None]]
  /\ dst = [f \in Files |-> [n \in Nodes |-> None]]
  /\ pc = [c \in Callers |-> "idle"]
  /\ data = [c \in Callers |-> None]
  /\ chanCap = [c \in Callers |-> 0]
  /\ replicaChan = [c \in Callers |-> {}]
  /\ result = [c \in Callers |-> NoResult]
  /\ gor = [c \in Callers |-> [n \in Nodes |-> "off"]]
  /\ fd = [c \in Callers |-> [n \in Nodes |-> "closed"]]
  /\ stored = [c \in Callers |-> {}]
  /\ header = [c \in Callers |-> [n \in Nodes |-> {}]]
  /\ overlapped = {}
  /\ calls = [c \in Callers |-> 0]
  /\ checks = 0 /\ changes = 0 /\ crashes = 0

-----------------------------------------------------------------------------
(* ReplicateFile, the caller's thread. *)

StartCall(c) ==
  /\ ~Active(c)
  /\ calls[c] < setup.calls[c]
  /\ \E v \in Values : data' = [data EXCEPT ![c] = v]
  /\ pc' = [pc EXCEPT ![c] = IF HasDB THEN "load" ELSE "make"]
  /\ result' = [result EXCEPT ![c] = NoResult]
  /\ replicaChan' = [replicaChan EXCEPT ![c] = {}]
  /\ stored' = [stored EXCEPT ![c] = {}]
  /\ gor' = [gor EXCEPT ![c] = [n \in Nodes |-> "off"]]
  /\ overlapped' = IF \E d \in Callers : Active(d) /\ FileOf[d] = FileOf[c]
                   THEN overlapped \cup {FileOf[c]} ELSE overlapped
  /\ calls' = [calls EXCEPT ![c] = @ + 1]
  /\ UNCHANGED <<config, healthStatus, disk, chanCap, fd, header, checks,
                 changes, crashes>>

\* The query may fail, and a row that does not scan is skipped; with no row
\* left the defaults are used and the health table is not touched.
LoadNodes(c) ==
  /\ pc[c] = "load"
  /\ \E rows \in SUBSET nodeRows :
       /\ storageNodes' = IF rows = {} THEN Default ELSE rows
       /\ healthStatus' = Tracked(rows, healthStatus)
  /\ pc' = [pc EXCEPT ![c] = "make"]
  /\ UNCHANGED <<setup, nodeRows, disk, local, replicaChan, result, gor, fd,
                 stored, header, budget>>

\* Mutant: the channel is one slot short.
MakeChanTooSmall(c) ==
  /\ pc[c] = "make"
  /\ chanCap' = [chanCap EXCEPT ![c] = Cardinality(storageNodes) - 1]
  /\ pc' = [pc EXCEPT ![c] = "spawn"]
  /\ UNCHANGED <<config, healthStatus, disk, data, overlapped, replicaChan,
                 result, gor, fd, stored, header, budget>>

\* rs.storageNodes is read without the mutex, once for the capacity ...
MakeChan(c) ==
  /\ pc[c] = "make"
  /\ chanCap' = [chanCap EXCEPT ![c] = Cardinality(storageNodes)]
  /\ pc' = [pc EXCEPT ![c] = "spawn"]
  /\ UNCHANGED <<config, healthStatus, disk, data, overlapped, replicaChan,
                 result, gor, fd, stored, header, budget>>

\* ... and again for the loop that starts one goroutine per node.
Spawn(c) ==
  /\ pc[c] = "spawn"
  /\ gor' = [gor EXCEPT ![c] = [n \in Nodes |->
                                  IF n \in storageNodes THEN "start" ELSE "off"]]
  /\ pc' = [pc EXCEPT ![c] = "wait"]
  /\ UNCHANGED <<config, healthStatus, disk, local, replicaChan, result, fd,
                 stored, header, budget>>

Counted(r, count) ==
  [Replicated |-> r.Replicated, Failed |-> r.Failed, Actual |-> count,
   Success |-> count >= RequiredReplicas]

\* wg.Wait, close(replicaChan), and the count of every message in it, the
\* empty ones of failed nodes too.
Collect(c) ==
  /\ pc[c] = "wait"
  /\ \A n \in Nodes : gor[c][n] \in {"off", "done"}
  /\ LET count == Cardinality(replicaChan[c]) IN
       result' = [result EXCEPT ![c] = Counted(result[c], count)]
  /\ pc' = [pc EXCEPT ![c] = "returned"]
  /\ UNCHANGED <<config, healthStatus, disk, local, replicaChan, gor, fd,
                 stored, header, budget>>

-----------------------------------------------------------------------------
(* replicateToNode, a goroutine of call c on node n. *)

At(c, n, stage)   == gor[c][n] = stage
Goto(c, n, stage) == gor' = [gor EXCEPT ![c][n] = stage]

\* What a file holds after v is written over `old` from offset 0.
Overwrite(old, v) ==
  (IF old \in Values /\ Size[old] > Size[v] THEN {} ELSE {v}) \cup
  (IF old = Torn \/ (old \in Values /\ Size[old] > Size[v]) THEN {Torn} ELSE {})

\* ctx.Done, an unsupported node type, or a directory or temporary that
\* cannot be created.
Refuse(c, n) ==
  /\ At(c, n, "start")
  /\ Goto(c, n, "append")
  /\ UNCHANGED <<config, healthStatus, disk, pc, local, replicaChan, result,
                 fd, stored, header, budget>>

\* Mutant: the file itself is opened, not a temporary.
CreateInPlace(c, n) ==
  /\ At(c, n, "start") /\ NodeType[n] = "local"
  /\ dst' = [dst EXCEPT ![FileOf[c]][n] = Empty]
  /\ fd' = [fd EXCEPT ![c][n] = "dst"]
  /\ Goto(c, n, "created")
  /\ UNCHANGED <<config, healthStatus, tmp, pc, local, replicaChan, result,
                 stored, header, budget>>

\* os.Create(fullPath + ".tmp"): truncates the temporary if there is one.
CreateTemp(c, n) ==
  /\ At(c, n, "start") /\ NodeType[n] = "local"
  /\ tmp' = [tmp EXCEPT ![FileOf[c]][n] = Empty]
  /\ fd' = [fd EXCEPT ![c][n] = "tmp"]
  /\ Goto(c, n, "created")
  /\ UNCHANGED <<config, healthStatus, dst, pc, local, replicaChan, result,
                 stored, header, budget>>

\* What the file behind the descriptor holds; a write reaches that file under
\* its present name, and is lost if it has none.
Held(c, n) == IF fd[c][n] = "tmp" THEN tmp[FileOf[c]][n] ELSE dst[FileOf[c]][n]

WriteThrough(c, n, contents) ==
  \E x \in contents :
    /\ tmp' = IF fd[c][n] = "tmp" THEN [tmp EXCEPT ![FileOf[c]][n] = x] ELSE tmp
    /\ dst' = IF fd[c][n] = "dst" THEN [dst EXCEPT ![FileOf[c]][n] = x] ELSE dst
    /\ UNCHANGED <<config, healthStatus, pc, local, replicaChan, result, fd,
                   stored, header, budget>>

WriteTemp(c, n) ==
  /\ At(c, n, "created")
  /\ WriteThrough(c, n, Overwrite(Held(c, n), data[c]))
  /\ Goto(c, n, "written")

\* A short write; the error path then removes the temporary.
WriteFails(c, n) ==
  /\ At(c, n, "created")
  /\ WriteThrough(c, n, {Torn})
  /\ Goto(c, n, "cleanup")

\* The descriptors of other goroutines on the same temporary move with it.
Renamed(f, n) == [d \in Callers |-> [m \in Nodes |->
  IF FileOf[d] = f /\ m = n
  THEN IF fd[d][m] = "tmp" THEN "dst"
       ELSE IF fd[d][m] = "dst" THEN "unlinked" ELSE fd[d][m]
  ELSE fd[d][m]]]

Removed(f, n) == [d \in Callers |-> [m \in Nodes |->
  IF FileOf[d] = f /\ m = n /\ fd[d][m] = "tmp" THEN "unlinked" ELSE fd[d][m]]]

\* Sync, Close and os.Rename(tempPath, fullPath).
RenameTemp(c, n) ==
  LET f == FileOf[c] IN
  /\ At(c, n, "written")
  /\ tmp[f][n] # None
  /\ dst' = [dst EXCEPT ![f][n] = tmp[f][n]]
  /\ tmp' = [tmp EXCEPT ![f][n] = None]
  /\ fd' = [Renamed(f, n) EXCEPT ![c][n] = "closed"]
  /\ stored' = [stored EXCEPT ![c] = @ \cup {n}]
  /\ Goto(c, n, "append")
  /\ UNCHANGED <<config, healthStatus, pc, local, replicaChan, result, header,
                 budget>>

\* Mutant: the error of Rename is dropped.
RenameErrorIgnored(c, n) ==
  /\ At(c, n, "written")
  /\ fd' = [fd EXCEPT ![c][n] = "closed"]
  /\ stored' = [stored EXCEPT ![c] = @ \cup {n}]
  /\ Goto(c, n, "append")
  /\ UNCHANGED <<config, healthStatus, disk, pc, local, replicaChan, result,
                 header, budget>>

\* Sync or Rename returns an error; Rename does when the temporary is gone.
RenameFails(c, n) ==
  /\ At(c, n, "written")
  /\ fd' = [fd EXCEPT ![c][n] = "closed"]
  /\ Goto(c, n, "cleanup")
  /\ UNCHANGED <<config, healthStatus, disk, pc, local, replicaChan, result,
                 stored, header, budget>>

\* Mutant: the clean-up removes the file as well.
RemoveBoth(c, n) ==
  LET f == FileOf[c] IN
  /\ At(c, n, "cleanup")
  /\ tmp' = [tmp EXCEPT ![f][n] = None]
  /\ dst' = [dst EXCEPT ![f][n] = None]
  /\ fd' = [Removed(f, n) EXCEPT ![c][n] = "closed"]
  /\ Goto(c, n, "append")
  /\ UNCHANGED <<config, healthStatus, pc, local, replicaChan, result,
                 stored, header, budget>>

\* file.Close and os.Remove(tempPath), whoever created what is there now.
RemoveTemp(c, n) ==
  LET f == FileOf[c] IN
  /\ At(c, n, "cleanup")
  /\ tmp' = [tmp EXCEPT ![f][n] = None]
  /\ fd' = [Removed(f, n) EXCEPT ![c][n] = "closed"]
  /\ Goto(c, n, "append")
  /\ UNCHANGED <<config, healthStatus, dst, pc, local, replicaChan, result,
                 stored, header, budget>>

\* PutObject replaces the object as a whole; an error may come back although
\* the store applied the request.
PutObject(c, n) ==
  /\ At(c, n, "start") /\ NodeType[n] = "s3"
  /\ dst' = [dst EXCEPT ![FileOf[c]][n] = data[c]]
  /\ \/ stored' = [stored EXCEPT ![c] = @ \cup {n}]
     \/ UNCHANGED stored
  /\ Goto(c, n, "append")
  /\ UNCHANGED <<config, healthStatus, tmp, pc, local, replicaChan, result,
                 fd, header, budget>>

-----------------------------------------------------------------------------
(* The goroutine's report.  append reads the shared slice, then stores it:  *)
(* goroutines of one call do both without a lock.                           *)

ReportedBy(c, n) == IF n \in stored[c] THEN result[c].Replicated ELSE result[c].Failed

AppendRead(c, n) ==
  /\ At(c, n, "append")
  /\ header' = [header EXCEPT ![c][n] = ReportedBy(c, n)]
  /\ Goto(c, n, "store")
  /\ UNCHANGED <<config, healthStatus, disk, pc, local, replicaChan, result,
                 fd, stored, budget>>

Appended(r, ok, slice) ==
  [Replicated |-> IF ok THEN slice ELSE r.Replicated,
   Failed     |-> IF ok THEN r.Failed ELSE slice,
   Actual     |-> r.Actual, Success |-> r.Success]

\* Mutant: a failed node is not listed.
AppendLosesElement(c, n) ==
  /\ At(c, n, "store")
  /\ result' = [result EXCEPT ![c] = Appended(result[c], n \in stored[c], header[c][n])]
  /\ header' = [header EXCEPT ![c][n] = {}]
  /\ Goto(c, n, "send")
  /\ UNCHANGED <<config, healthStatus, disk, pc, local, replicaChan, fd,
                 stored, budget>>

AppendStore(c, n) ==
  /\ At(c, n, "store")
  /\ result' = [result EXCEPT ![c] = Appended(result[c], n \in stored[c],
                                             header[c][n] \cup {n})]
  /\ header' = [header EXCEPT ![c][n] = {}]   \* the local copy is gone
  /\ Goto(c, n, "send")
  /\ UNCHANGED <<config, healthStatus, disk, pc, local, replicaChan, fd,
                 stored, budget>>

\* The send blocks while the buffer is full; nobody receives before Wait ends.
Send(c, n) ==
  /\ At(c, n, "send")
  /\ Cardinality(replicaChan[c]) < chanCap[c]
  /\ replicaChan' = [replicaChan EXCEPT ![c] = @ \cup {n}]
  /\ Goto(c, n, "record")
  /\ UNCHANGED <<config, healthStatus, disk, pc, local, result, fd, stored,
                 header, budget>>

\* Unhealthy after three consecutive failures.
AfterFailure(h) ==
  [IsHealthy    |-> IF h.FailureCount + 1 >= 3 THEN FALSE ELSE h.IsHealthy,
   FailureCount |-> h.FailureCount + 1]

\* recordNodeSuccess and recordNodeFailure, each under rs.mutex.
Recorded(n, ok) == [healthStatus EXCEPT ![n] =
  IF ok THEN FreshHealth ELSE AfterFailure(healthStatus[n])]

RecordOutcome(c, n) ==
  /\ At(c, n, "record")
  /\ healthStatus' = Recorded(n, n \in stored[c])
  /\ Goto(c, n, "done")
  /\ UNCHANGED <<config, disk, pc, local, replicaChan, result, fd, stored,
                 header, budget>>

-----------------------------------------------------------------------------
(* The health checker (the singleton's only), the administrator, crashes.  *)

CheckNodeHealth(n) ==
  /\ ~HasDB
  /\ n \in storageNodes
  /\ \/ healthStatus' = Recorded(n, TRUE) /\ UNCHANGED checks
     \/ /\ checks < setup.checks
        /\ healthStatus' = Recorded(n, FALSE)
        /\ checks' = checks + 1
  /\ UNCHANGED <<config, disk, pc, local, replicaChan, result, gor, fd, stored,
                 header, calls, changes, crashes>>

EditNodeRows ==
  /\ HasDB
  /\ changes < setup.changes
  /\ nodeRows' \in setup.tables
  /\ changes' = changes + 1
  /\ UNCHANGED <<setup, storageNodes, healthStatus, disk, pc, local,
                 replicaChan, result, gor, fd, stored, header, calls, checks,
                 crashes>>

Crash ==
  /\ crashes < setup.crashes
  /\ crashes' = crashes + 1
  /\ storageNodes' = InitNodes
  /\ healthStatus' = InitHealth
  /\ pc' = [c \in Callers |-> "idle"]
  /\ data' = [c \in Callers |-> None]
  /\ chanCap' = [c \in Callers |-> 0]
  /\ replicaChan' = [c \in Callers |-> {}]
  /\ result' = [c \in Callers |-> NoResult]
  /\ gor' = [c \in Callers |-> [n \in Nodes |-> "off"]]
  /\ fd' = [c \in Callers |-> [n \in Nodes |-> "closed"]]
  /\ stored' = [c \in Callers |-> {}]
  /\ header' = [c \in Callers |-> [n \in Nodes |-> {}]]
  /\ UNCHANGED <<setup, nodeRows, disk, overlapped, calls, checks, changes>>

CallerStep(c) == LoadNodes(c) \/ MakeChan(c) \/ Spawn(c) \/ Collect(c)

NodeStep(c, n) ==
  \/ Refuse(c, n) \/ CreateTemp(c, n) \/ WriteTemp(c, n) \/ WriteFails(c, n)
  \/ RenameTemp(c, n) \/ RenameFails(c, n) \/ RemoveTemp(c, n) \/ PutObject(c, n)
  \/ AppendRead(c, n) \/ AppendStore(c, n) \/ Send(c, n) \/ RecordOutcome(c, n)

Next ==
  \/ \E c \in Callers : StartCall(c) \/ CallerStep(c)
  \/ \E c \in Callers, n \in Nodes : NodeStep(c, n)
  \/ \E n \in Nodes : CheckNodeHealth(n)
  \/ EditNodeRows
  \/ Crash

Spec == Init /\ [][Next]_vars

\* The Go scheduler runs some goroutine of a call as long as one can run.
Fairness ==
  \A c \in Callers : WF_vars(CallerStep(c) \/ \E n \in Nodes : NodeStep(c, n))

FairSpec == Spec /\ Fairness
-----------------------------------------------------------------------------
(* Properties. *)

\* "Write file atomically (write to temp, then rename)": unless two calls for
\* one file overlapped, no node ever shows a file that is empty or torn,
\* whatever failed and whenever the process crashed.
ReplicaWhole ==
  \A f \in Files, n \in Nodes :
    f \notin overlapped => dst[f][n] \in Values \cup {None}

\* Why it holds.  A goroutine lives inside its call's wait, and holds a
\* descriptor only between creating and renaming or removing; two running
\* calls for a file mark it overlapped; so the one running call for any other
\* file has the temporary to itself, and renames its own payload.
GoroutinesInsideWait ==
  \A c \in Callers, n \in Nodes :
    /\ gor[c][n] \notin {"off", "done"} => pc[c] = "wait"
    /\ fd[c][n] # "closed" => gor[c][n] \in {"created", "written", "cleanup"}

SoleCall ==
  \A c, d \in Callers :
    Active(c) /\ Active(d) /\ FileOf[c] = FileOf[d] /\ FileOf[c] \notin overlapped
    => c = d

OwnTemporaryAt(c, n) ==
  /\ gor[c][n] \in {"created", "written"} => fd[c][n] = "tmp"
  /\ gor[c][n] = "created" => tmp[FileOf[c]][n] = Empty
  /\ gor[c][n] = "written" => tmp[FileOf[c]][n] = data[c]

OwnTemporary ==
  \A c \in Callers, n \in Nodes : FileOf[c] \notin overlapped => OwnTemporaryAt(c, n)

WholeInv == GoroutinesInsideWait /\ SoleCall /\ OwnTemporary /\ ReplicaWhole

\* A node that a returned call lists in ReplicatedNodes holds that call's
\* payload until the next call for the file: neither the racy append nor the
\* clean-up of another node's failure makes the report wrong.
ReportedReplicaHoldsData ==
  \A c \in Callers :
    /\ pc[c] = "returned"
    /\ \A d \in Callers \ {c} : FileOf[d] = FileOf[c] => pc[d] = "idle"
    => \A n \in result[c].Replicated : dst[FileOf[c]][n] = data[c]

\* The appends to FailedNodes race, and an entry may be lost, but a call in
\* which some node failed never returns an empty FailedNodes: the caller can
\* tell a partial replication from a full one.
PartialFailureIsReported ==
  \A c \in Callers :
    pc[c] = "returned" /\ result[c].Failed = {} =>
      \A n \in Nodes : gor[c][n] = "done" => n \in stored[c]

\* Why they hold.  A slice is read and stored back by goroutines that append
\* only stored nodes to it, or only failed ones; the failed one that stored
\* FailedNodes last is in it, whatever it overwrote.
ReplicatedAreStored ==
  \A c \in Callers :
    /\ result[c].Replicated \subseteq stored[c]
    /\ \A n \in Nodes :
         gor[c][n] = "store" /\ n \in stored[c] => header[c][n] \subseteq stored[c]

FailureIsKept ==
  \A c \in Callers, n \in Nodes :
    gor[c][n] \in {"send", "record", "done"} /\ n \notin stored[c]
      => result[c].Failed # {}

\* A call has its file to itself while no other caller has called for it since
\* the process began, and while it runs and no two calls for it overlapped.
Alone(c) == \A d \in Callers \ {c} : FileOf[d] = FileOf[c] => pc[d] = "idle"
Sole(c)  == Alone(c) \/ (Active(c) /\ FileOf[c] \notin overlapped)

HoldsData(c) == \A n \in stored[c] : dst[FileOf[c]][n] = data[c]

SoleInv ==
  \A c \in Callers :
    Sole(c) => HoldsData(c) /\ \A n \in Nodes : OwnTemporaryAt(c, n)

\* The two fields of NodeHealth agree, in the table that health checks and
\* calls update in any order: a node of the singleton is skipped by ReadFile
\* exactly when its last three outcomes were failures.
HealthMatchesFailures ==
  ~HasDB => \A n \in storageNodes :
              healthStatus[n].IsHealthy <=> healthStatus[n].FailureCount < 3

\* replication.go:242 and 281, "Need at least 2/3 replicas", "Check if we have
\* minimum required replicas": a call that reports success made that many.
SuccessMeansRequiredReplicas ==
  \A c \in Callers :
    result[c].Success => Cardinality(stored[c]) >= RequiredReplicas

\* More goroutines than the channel has slots: another call reloaded the nodes
\* of a shared service between the two reads of rs.storageNodes.
Outgrown(c) == Cardinality({n \in Nodes : gor[c][n] # "off"}) > chanCap[c]

\* ReplicateFile comes back: no goroutine is stuck behind a full channel and
\* wg.Wait ends; except in a tenant's service, for a call whose nodes grew
\* between its two reads of them.
EveryCallReturns ==
  \A c \in Callers : Active(c) ~> (~Active(c) \/ (HasDB /\ Outgrown(c)))

-----------------------------------------------------------------------------
(* The refinement: a replica is the file under its final name, a call is    *)
(* writing from StartCall until it returns or the process dies.             *)
Writing  == [c \in Callers |-> IF Active(c) THEN data[c] ELSE None]
Reported == [c \in Callers |-> IF pc[c] = "returned" THEN result[c].Replicated ELSE {}]

Abstract == INSTANCE AtomicReplicas WITH
  replica <- dst, writing <- Writing, reported <- Reported, contended <- overlapped,
  Damage <- Contents

\* Every step, as long as no two calls for the file overlap, is a step of the
\* atomic replicas: the file changes whole, and the report names only holders.
ReplicasAreAtomic == Abstract!ASpec
=============================================================================
