---------------------------- MODULE BlobStorage ----------------------------
(***************************************************************************)
(* BlobStorage (internal/storage/blob_storage.go): an artifact is a         *)
(* directory of erasure-coded shard files and one metadata file, which      *)
(* threads upload, download, delete and verify under one RWMutex.           *)
(*                                                                          *)
(* One artifact is modelled: artifacts share nothing but the mutex.  The    *)
(* shards of a value are known by the value (the checksums of two values    *)
(* differ), so a shard file holds a value, nothing, or damage, and the      *)
(* metadata file names the value it was written for.                        *)
(***************************************************************************)
EXTENDS Naturals, FiniteSets

CONSTANTS
  Threads,      \* request handlers
  NoThread,
  Values,       \* artifact contents
  None,         \* no such file
  Bad,          \* a file with damaged contents
  DataShards,   \* StorageConfig.DataShards, k
  ParityShards, \* StorageConfig.ParityShards, m
  Ops,          \* the operations threads may call in an instance
  MaxOps,       \* bound: operations the threads start
  MaxFaults,    \* bound: shard files lost or damaged on disk
  MaxCrashes    \* bound: crashes of the process

AllOps == {"upload", "download", "delete", "verify"}

ASSUME BlobAssumption ==
  /\ NoThread \notin Threads
  /\ None \notin Values /\ Bad \notin Values /\ None # Bad
  /\ DataShards \in Nat \ {0} /\ ParityShards \in Nat
  /\ Ops \in SUBSET AllOps
  /\ {MaxOps, MaxFaults, MaxCrashes} \subseteq Nat

Shards == 0 .. (DataShards + ParityShards - 1)
Last   == DataShards + ParityShards - 1

VARIABLES
  shard,      \* [Shards -> contents of shard-i.bin]
  meta,       \* contents of metadata.json
  writer,     \* the thread that locked, or waits for the readers to leave
  holds,      \* [Threads -> read locks it holds]
  queued,     \* threads blocked in RLock
  pc, op, val, next, res,   \* [Threads -> its program state and result]
  acked,      \* history: the value of the last acknowledged upload, None once
              \* another operation has begun to change the directory
  lost, damaged,            \* history: shards hit by disk faults since written
  unclean,    \* history: the last change of the directory was cut off by a
              \* crash, or could not remove all of it
  ops, crashes              \* what the bounds count

disk  == <<shard, meta>>
mutex == <<writer, holds, queued>>
hist  == <<acked, lost, damaged, unclean>>
vars  == <<shard, meta, writer, holds, queued, pc, op, val, next, res, acked,
           lost, damaged, unclean, ops, crashes>>

Files == Values \cup {None, Bad}
PCs   == {"idle", "lock", "drain", "begin", "shards", "meta", "cleanup",
          "remove", "unlock", "rlock", "blocked", "read", "nested", "scan",
          "runlock"}

TypeOK ==
  /\ shard \in [Shards -> Files]
  /\ meta \in Files
  /\ writer \in Threads \cup {NoThread}
  /\ holds \in [Threads -> 0 .. 2]
  /\ queued \in SUBSET Threads
  /\ pc \in [Threads -> PCs]
  /\ op \in [Threads -> AllOps \cup {None}]
  /\ val \in [Threads -> Values \cup {None}]
  /\ next \in [Threads -> Nat]
  /\ \A t \in Threads : pc[t] = "shards" => val[t] \in Values /\ next[t] \in Shards
  /\ \A t \in Threads : pc[t] = "meta" => val[t] \in Values
  /\ res \in [Threads -> Values \cup {"none", "ok", "error", "valid", "invalid"}]
  /\ acked \in Values \cup {None}
  /\ lost \in SUBSET Shards /\ damaged \in SUBSET Shards
  /\ unclean \in BOOLEAN
  /\ ops \in Nat /\ crashes \in Nat

Init ==
  /\ shard = [i \in Shards |-> None]
  /\ meta = None
  /\ writer = NoThread
  /\ holds = [t \in Threads |-> 0]
  /\ queued = {}
  /\ pc = [t \in Threads |-> "idle"]
  /\ op = [t \in Threads |-> None]
  /\ val = [t \in Threads |-> None]
  /\ next = [t \in Threads |-> 0]
  /\ res = [t \in Threads |-> "none"]
  /\ acked = None
  /\ lost = {} /\ damaged = {} /\ unclean = FALSE
  /\ ops = 0 /\ crashes = 0

-----------------------------------------------------------------------------
(* What the files decode to. *)

Present == {i \in Shards : shard[i] # None}

\* Decode: what reedsolomon joins from the shards that are there.
Reconstructed ==
  IF \E v \in Values : \A i \in Present : shard[i] = v
  THEN CHOOSE v \in Values : \A i \in Present : shard[i] = v
  ELSE Bad

Enough == meta \in Values /\ Cardinality(Present) >= DataShards

\* Mutant: the checksums are not compared.
DecodedUnchecked == IF Enough THEN Reconstructed ELSE None

\* DownloadArtifact: metadata that parses, every present shard with the
\* checksum the metadata lists, at least DataShards of them, and the checksum
\* of the result; None stands for an error.
Decoded ==
  IF Enough /\ (\A i \in Present : shard[i] = meta) /\ Reconstructed = meta
  THEN Reconstructed ELSE None

\* VerifyIntegrity: every shard file is there with its checksum.
Intact == \A i \in Shards : shard[i] = meta

-----------------------------------------------------------------------------
(* sync.RWMutex: a writer first keeps new readers out, then waits for the   *)
(* readers inside; Unlock lets the readers in that queued up meanwhile.     *)

Goto(t, label) == pc' = [pc EXCEPT ![t] = label]

AfterRLock(t) ==
  IF op[t] = "download" THEN "read"
  ELSE IF holds[t] = 0 THEN "nested" ELSE "scan"

\* Call one of the operations.
Start(t, o) ==
  /\ pc[t] = "idle"
  /\ o \in Ops
  /\ ops < MaxOps
  /\ ops' = ops + 1
  /\ op' = [op EXCEPT ![t] = o]
  /\ IF o = "upload" THEN \E v \in Values : val' = [val EXCEPT ![t] = v]
                     ELSE UNCHANGED val
  /\ res' = [res EXCEPT ![t] = "none"]
  /\ Goto(t, IF o \in {"upload", "delete"} THEN "lock" ELSE "rlock")
  /\ UNCHANGED <<disk, mutex, next, hist, crashes>>

Lock(t) ==
  /\ pc[t] = "lock"
  /\ writer = NoThread
  /\ writer' = t
  /\ Goto(t, "drain")
  /\ UNCHANGED <<disk, holds, queued, op, val, next, res, hist, ops, crashes>>

Locked(t) ==
  /\ pc[t] = "drain"
  /\ \A r \in Threads : holds[r] = 0
  /\ Goto(t, IF op[t] = "upload" THEN "begin" ELSE "remove")
  /\ UNCHANGED <<disk, mutex, op, val, next, res, hist, ops, crashes>>

\* Mutant: the readers that queued up are not woken.
UnlockForgetsReaders(t) ==
  /\ pc[t] = "unlock"
  /\ writer' = NoThread
  /\ Goto(t, "idle")
  /\ op' = [op EXCEPT ![t] = None]
  /\ val' = [val EXCEPT ![t] = None]
  /\ next' = [next EXCEPT ![t] = 0]
  /\ UNCHANGED <<disk, holds, queued, res, hist, ops, crashes>>

Unlock(t) ==
  /\ pc[t] = "unlock"
  /\ writer' = NoThread
  /\ holds' = [r \in Threads |-> IF r \in queued THEN holds[r] + 1 ELSE holds[r]]
  /\ pc' = [r \in Threads |-> IF r = t THEN "idle"
                              ELSE IF r \in queued THEN AfterRLock(r) ELSE pc[r]]
  /\ queued' = {}
  /\ op' = [op EXCEPT ![t] = None]
  /\ val' = [val EXCEPT ![t] = None]
  /\ next' = [next EXCEPT ![t] = 0]
  /\ UNCHANGED <<disk, res, hist, ops, crashes>>

RLock(t) ==
  /\ pc[t] \in {"rlock", "nested"}
  /\ IF writer = NoThread
     THEN /\ holds' = [holds EXCEPT ![t] = @ + 1]
          /\ Goto(t, AfterRLock(t))
          /\ UNCHANGED queued
     ELSE /\ queued' = queued \cup {t}
          /\ Goto(t, "blocked")
          /\ UNCHANGED holds
  /\ UNCHANGED <<disk, writer, op, val, next, res, hist, ops, crashes>>

RUnlock(t) ==
  /\ pc[t] = "runlock"
  /\ holds' = [holds EXCEPT ![t] = 0]
  /\ op' = [op EXCEPT ![t] = None]
  /\ Goto(t, "idle")
  /\ UNCHANGED <<disk, writer, queued, val, next, res, hist, ops, crashes>>

-----------------------------------------------------------------------------
(* UploadArtifact and DeleteArtifact, under the lock. *)

\* The reader, the encoder (an empty artifact) or MkdirAll returns an error:
\* nothing has been written.
UploadRefused(t) ==
  /\ pc[t] = "begin"
  /\ res' = [res EXCEPT ![t] = "error"]
  /\ Goto(t, "unlock")
  /\ UNCHANGED <<disk, mutex, op, val, next, hist, ops, crashes>>

Encoded(t) ==
  /\ pc[t] = "begin"
  /\ next' = [next EXCEPT ![t] = 0]
  /\ acked' = None
  /\ Goto(t, "shards")
  /\ UNCHANGED <<disk, mutex, op, val, res, lost, damaged, unclean, ops, crashes>>

\* One os.WriteFile over whatever the shard file held.
WriteShard(t) ==
  LET i == next[t] IN
  /\ pc[t] = "shards"
  /\ shard' = [shard EXCEPT ![i] = val[t]]
  /\ lost' = lost \ {i} /\ damaged' = damaged \ {i}
  /\ next' = [next EXCEPT ![t] = i + 1]
  /\ Goto(t, IF i = Last THEN "meta" ELSE "shards")
  /\ UNCHANGED <<meta, mutex, op, val, res, acked, unclean, ops, crashes>>

\* os.RemoveAll took the whole directory.
RemovedAll ==
  /\ shard' = [i \in Shards |-> None] /\ meta' = None
  /\ lost' = {} /\ damaged' = {} /\ unclean' = FALSE

\* os.RemoveAll met an error, or was cut off, and left some of the files.
RemovedSome == \E S \in SUBSET Shards :
  /\ shard' = [i \in Shards |-> IF i \in S THEN None ELSE shard[i]]
  /\ meta' \in {meta, None}

\* Where a request has files half changed.
Changing == {"shards", "meta", "cleanup", "remove"}

\* A write or a removal that is cut short leaves its file damaged, or some of
\* the files in place.
Interrupted(t) ==
  \/ /\ pc[t] = "shards"
     /\ shard' \in {shard, [shard EXCEPT ![next[t]] = Bad]}
     /\ UNCHANGED meta
  \/ pc[t] = "meta" /\ meta' \in {meta, Bad} /\ UNCHANGED shard
  \/ pc[t] \in {"cleanup", "remove"} /\ RemovedSome
  \/ pc[t] \notin Changing /\ UNCHANGED disk

\* Mutant: a shard that cannot be written is skipped.
WriteErrorSkipped(t) ==
  /\ pc[t] \in {"shards", "meta"}
  /\ IF pc[t] = "shards"
     THEN /\ next' = [next EXCEPT ![t] = @ + 1]
          /\ Goto(t, IF next[t] = Last THEN "meta" ELSE "shards")
     ELSE Goto(t, "cleanup") /\ UNCHANGED next
  /\ UNCHANGED <<disk, mutex, op, val, res, hist, ops, crashes>>

\* A shard or the metadata cannot be written.
WriteFails(t) ==
  /\ pc[t] \in {"shards", "meta"}
  /\ Interrupted(t)
  /\ Goto(t, "cleanup")
  /\ UNCHANGED <<mutex, op, val, next, res, hist, ops, crashes>>

WriteMeta(t) ==
  /\ pc[t] = "meta"
  /\ meta' = val[t]
  /\ acked' = val[t]
  /\ unclean' = FALSE
  /\ res' = [res EXCEPT ![t] = "ok"]
  /\ Goto(t, "unlock")
  /\ UNCHANGED <<shard, mutex, op, val, next, lost, damaged, ops, crashes>>

\* Mutant: only the metadata goes.
CleanupMetaOnly(t) ==
  /\ pc[t] = "cleanup"
  /\ meta' = None /\ UNCHANGED shard
  /\ unclean' = FALSE
  /\ res' = [res EXCEPT ![t] = "error"]
  /\ Goto(t, "unlock")
  /\ UNCHANGED <<mutex, op, val, next, acked, lost, damaged, ops, crashes>>

RemovalFails == RemovedSome /\ unclean' = TRUE /\ UNCHANGED <<lost, damaged>>

\* cleanupArtifact removes the directory, an older version's files included,
\* and does not look at the error of os.RemoveAll.
Cleanup(t) ==
  /\ pc[t] = "cleanup"
  /\ RemovedAll \/ RemovalFails
  /\ res' = [res EXCEPT ![t] = "error"]
  /\ Goto(t, "unlock")
  /\ UNCHANGED <<mutex, op, val, next, acked, ops, crashes>>

Remove(t) ==
  /\ pc[t] = "remove"
  /\ \/ RemovedAll /\ res' = [res EXCEPT ![t] = "ok"]
     \/ RemovalFails /\ res' = [res EXCEPT ![t] = "error"]
  /\ acked' = None
  /\ Goto(t, "unlock")
  /\ UNCHANGED <<mutex, op, val, next, ops, crashes>>

-----------------------------------------------------------------------------
(* DownloadArtifact and VerifyIntegrity, under a read lock. *)

Read(t) ==
  /\ pc[t] = "read"
  /\ res' = [res EXCEPT ![t] = IF Decoded = None THEN "error" ELSE Decoded]
  /\ Goto(t, "runlock")
  /\ UNCHANGED <<disk, mutex, op, val, next, hist, ops, crashes>>

\* VerifyIntegrity holds the lock and calls GetMetadata, which takes it again.
Scan(t) ==
  /\ pc[t] = "scan"
  /\ res' = [res EXCEPT ![t] = IF meta \notin Values THEN "error"
                               ELSE IF Intact THEN "valid" ELSE "invalid"]
  /\ Goto(t, "runlock")
  /\ UNCHANGED <<disk, mutex, op, val, next, hist, ops, crashes>>

-----------------------------------------------------------------------------
(* Disk faults and crashes. *)

Faults == Cardinality(lost) + Cardinality(damaged)

LoseShard(i) ==
  /\ Faults < MaxFaults /\ shard[i] # None
  /\ shard' = [shard EXCEPT ![i] = None]
  /\ lost' = lost \cup {i} /\ damaged' = damaged \ {i}
  /\ UNCHANGED <<meta, mutex, pc, op, val, next, res, acked, unclean, ops,
                 crashes>>

DamageShard(i) ==
  /\ Faults < MaxFaults /\ shard[i] # None
  /\ shard' = [shard EXCEPT ![i] = Bad]
  /\ damaged' = damaged \cup {i}
  /\ UNCHANGED <<meta, mutex, pc, op, val, next, res, acked, lost, unclean,
                 ops, crashes>>

Crash ==
  /\ crashes < MaxCrashes
  /\ crashes' = crashes + 1
  /\ IF writer = NoThread THEN UNCHANGED disk ELSE Interrupted(writer)
  /\ acked' = IF writer # NoThread /\ pc[writer] = "remove" THEN None ELSE acked
  /\ unclean' = (unclean \/ (writer # NoThread /\ pc[writer] \in Changing))
  /\ writer' = NoThread
  /\ holds' = [t \in Threads |-> 0]
  /\ queued' = {}
  /\ pc' = [t \in Threads |-> "idle"]
  /\ op' = [t \in Threads |-> None]
  /\ val' = [t \in Threads |-> None]
  /\ next' = [t \in Threads |-> 0]
  /\ res' = [t \in Threads |-> "none"]
  /\ UNCHANGED <<lost, damaged, ops>>

ThreadStep(t) ==
  \/ Lock(t) \/ Locked(t) \/ Unlock(t) \/ RLock(t) \/ RUnlock(t)
  \/ UploadRefused(t) \/ Encoded(t) \/ WriteShard(t) \/ WriteFails(t)
  \/ WriteMeta(t) \/ Cleanup(t) \/ Remove(t) \/ Read(t) \/ Scan(t)

Next ==
  \/ \E t \in Threads : ThreadStep(t) \/ \E o \in Ops : Start(t, o)
  \/ \E i \in Shards : LoseShard(i) \/ DamageShard(i)
  \/ Crash

Spec == Init /\ [][Next]_vars

Fairness == \A t \in Threads : WF_vars(ThreadStep(t))

FairSpec == Spec /\ Fairness
-----------------------------------------------------------------------------
(* Properties. *)

\* An acknowledged upload survives crashes, failed requests, and the loss of
\* up to ParityShards shard files, until another upload or delete begins.
AckedIsDurable ==
  /\ acked \in Values
  /\ damaged = {}
  /\ Cardinality(lost) <= ParityShards
  => Decoded = acked

\* The directory is all of a version or none: while no request is changing it,
\* there is the metadata of a value with every shard of that value that no disk
\* fault hit, or there is nothing.  A failed upload has taken its shards away
\* again, and an older version's with them.  Except after a crash in the middle
\* of a change and after a removal that failed, whose error cleanupArtifact
\* drops, until the next upload or removal that succeeds.
DirectoryIsWhole ==
  writer = NoThread /\ ~unclean =>
    \/ /\ meta \in Values
       /\ \A i \in Shards \ damaged : shard[i] = IF i \in lost THEN None ELSE meta
    \/ meta = None /\ Present = {}

\* VerifyIntegrity holds the read lock and waits for it behind a writer.
NestedLockMet ==
  \E t \in Threads : op[t] = "verify" /\ pc[t] = "blocked" /\ holds[t] = 1

\* Requests end, the mutex is always released to whoever waits for it: except
\* where a verification waits for its second read lock.
RequestsEnd ==
  \A t \in Threads : pc[t] # "idle" ~> pc[t] = "idle" \/ NestedLockMet
-----------------------------------------------------------------------------
(* The abstract blob.                                                        *)

\* The artifact is what the metadata file names: writing or removing that
\* file is the moment an upload or a delete takes effect.
Abstract == INSTANCE AtomicBlob WITH
  value  <- IF meta \in Values THEN meta ELSE None,
  answer <- res

\* Every request over many files is one step of the atomic blob: a download
\* returns the latest value put, or an error.
BlobIsAtomic == Abstract!ASpec
=============================================================================
