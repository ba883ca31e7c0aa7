----------------------------- MODULE BlobProofs -----------------------------
(***************************************************************************)
(* Proofs about BlobStorage, for every set of threads and contents, every   *)
(* number of data and parity shards and every bound on requests, disk       *)
(* faults and crashes.                                                      *)
(***************************************************************************)
EXTENDS BlobStorage, FiniteSetTheorems, TLAPS

-----------------------------------------------------------------------------
(* The inductive invariant.                                                 *)

Writing == {"begin", "shards", "meta", "cleanup", "remove", "unlock"}
Reading == {"read", "nested", "scan", "runlock"}

\* The thread in the writer's place, waiting or at work, is the one that the
\* mutex names; while it works nobody holds a read lock; and whoever reads
\* holds one.
MutexInv ==
  /\ \A t \in Threads : pc[t] \in Writing \cup {"drain"} <=> writer = t
  /\ \A t \in Threads : pc[t] \in Writing => \A r \in Threads : holds[r] = 0
  /\ \A t \in Threads : pc[t] \in Reading => holds[t] # 0

\* What a thread is about to do agrees with the operation it was called for,
\* with the locks it has taken for it and with the arguments it carries.
ControlInv ==
  /\ \A t \in Threads : t \in queued <=> pc[t] = "blocked"
  /\ \A t \in Threads :
       /\ pc[t] \in {"lock", "drain"} /\ op[t] = "upload" => val[t] \in Values
       /\ pc[t] = "begin" => val[t] \in Values
       /\ pc[t] \in {"rlock", "lock", "idle"} => holds[t] = 0
       /\ pc[t] \in {"rlock", "blocked", "nested"} => op[t] \in {"download", "verify"}
       /\ pc[t] = "nested" => op[t] = "verify" /\ holds[t] = 1
       /\ pc[t] = "blocked" => holds[t] = 0 \/ (op[t] = "verify" /\ holds[t] = 1)

\* A request has no answer before the step that decides it.
Undecided == PCs \ {"idle", "unlock", "runlock"}
AnswerInv == \A t \in Threads : pc[t] \in Undecided => res[t] = "none"

\* A shard file that no fault has damaged holds v, or is lost.
HoldsOrHit(i, v) ==
  i \notin damaged => shard[i] = IF i \in lost THEN None ELSE v

\* Behind the shard that an upload writes next lie its own; and an upload is
\* acknowledged for as long as the metadata and every shard file are its own.
DataInv ==
  /\ \A t \in Threads : pc[t] = "shards" =>
       \A i \in Shards : i < next[t] => HoldsOrHit(i, val[t])
  /\ \A t \in Threads : pc[t] = "meta" => \A i \in Shards : HoldsOrHit(i, val[t])
  /\ acked \in Values =>
       /\ meta = acked
       /\ \A i \in Shards : HoldsOrHit(i, acked)
       /\ \A t \in Threads : pc[t] \notin {"shards", "meta", "cleanup"}

\* All of version v is in the directory.
Whole(v) == \A i \in Shards : HoldsOrHit(i, v)

\* Nothing is in the directory.
Empty == meta = None /\ \A i \in Shards : shard[i] = None

\* A directory that is not all of a version and not empty is being changed, or
\* the last change of it was cut off or could not remove everything.
WholeInv ==
  ~unclean =>
    \/ meta \in Values /\ Whole(meta)
    \/ Empty
    \/ \E t \in Threads : pc[t] \in Changing

BlobInv == /\ TypeOK /\ MutexInv /\ ControlInv /\ AnswerInv
           /\ DataInv /\ WholeInv

-----------------------------------------------------------------------------
(* It holds of the empty directory, and every step keeps it.                *)

\* Shards are the numbers up to Last, of which there is at least one.
LEMMA ShardNumbers ==
  /\ Shards \subseteq Nat /\ Last \in Shards /\ 0 \in Shards
  /\ \A i \in Shards : i # Last => i + 1 \in Shards
  /\ \A i \in Shards : i <= Last
BY BlobAssumption DEF BlobAssumption, Shards, Last

LEMMA InitBlobInv == Init => BlobInv
<1> SUFFICES ASSUME Init PROVE BlobInv
  OBVIOUS
<1> USE BlobAssumption, ShardNumbers DEF BlobAssumption, Init
<1>1. unclean \in BOOLEAN
  BY Zenon
<1>2. TypeOK
  BY <1>1 DEF TypeOK, PCs, AllOps, Files
<1>3. MutexInv /\ ControlInv /\ AnswerInv /\ DataInv
  BY DEF MutexInv, ControlInv, AnswerInv, DataInv, Writing, Reading, Undecided, PCs
<1>4. WholeInv
  BY DEF WholeInv, Empty
<1> QED BY <1>2, <1>3, <1>4 DEF BlobInv

\* The lock goes from hand to hand: a reader that comes while a writer waits
\* or works is queued, and the writer lets all of them in when it leaves.
LEMMA StepKeepsMutex ==
  ASSUME TypeOK, MutexInv, ControlInv, [Next]_vars PROVE MutexInv'
<1> USE BlobAssumption DEF BlobAssumption, TypeOK, MutexInv, ControlInv,
        Writing, Reading, Goto, AfterRLock, disk, mutex, hist
<1>1. ASSUME NEW t \in Threads, Lock(t) PROVE MutexInv'
  BY <1>1 DEF Lock
<1>2. ASSUME NEW t \in Threads, Locked(t) PROVE MutexInv'
  BY <1>2 DEF Locked
<1>3. ASSUME NEW t \in Threads, Unlock(t) PROVE MutexInv'
  BY <1>3 DEF Unlock
<1>4. ASSUME NEW t \in Threads, RLock(t) PROVE MutexInv'
  BY <1>4 DEF RLock
<1>5. ASSUME NEW t \in Threads, RUnlock(t) PROVE MutexInv'
  BY <1>5 DEF RUnlock
<1>6. ASSUME NEW t \in Threads, UploadRefused(t) PROVE MutexInv'
  BY <1>6 DEF UploadRefused
<1>7. ASSUME NEW t \in Threads, Encoded(t) PROVE MutexInv'
  BY <1>7 DEF Encoded
<1>8. ASSUME NEW t \in Threads, WriteShard(t) PROVE MutexInv'
  BY <1>8 DEF WriteShard
<1>9. ASSUME NEW t \in Threads, WriteFails(t) PROVE MutexInv'
  BY <1>9 DEF WriteFails
<1>10. ASSUME NEW t \in Threads, WriteMeta(t) PROVE MutexInv'
  BY <1>10 DEF WriteMeta
<1>11. ASSUME NEW t \in Threads, Cleanup(t) PROVE MutexInv'
  BY <1>11 DEF Cleanup
<1>12. ASSUME NEW t \in Threads, Remove(t) PROVE MutexInv'
  BY <1>12 DEF Remove
<1>13. ASSUME NEW t \in Threads, Read(t) PROVE MutexInv'
  BY <1>13 DEF Read
<1>14. ASSUME NEW t \in Threads, Scan(t) PROVE MutexInv'
  BY <1>14 DEF Scan
<1>15. ASSUME NEW t \in Threads, NEW o \in Ops, Start(t, o) PROVE MutexInv'
  BY <1>15 DEF Start
<1>16. ASSUME NEW i \in Shards, LoseShard(i) PROVE MutexInv'
  BY <1>16 DEF LoseShard
<1>17. ASSUME NEW i \in Shards, DamageShard(i) PROVE MutexInv'
  BY <1>17 DEF DamageShard
<1>18. CASE Crash BY <1>18 DEF Crash, Interrupted, RemovedSome, Changing
<1>19. CASE UNCHANGED vars BY <1>19 DEF vars
<1> QED BY <1>1, <1>2, <1>3, <1>4, <1>5, <1>6, <1>7, <1>8,
           <1>9, <1>10, <1>11, <1>12, <1>13, <1>14, <1>15, <1>16,
           <1>17, <1>18, <1>19 DEF Next, ThreadStep

\* The stages, locks and arguments of a thread keep to its operation.
LEMMA StepKeepsControl ==
  ASSUME TypeOK, MutexInv, ControlInv, [Next]_vars PROVE ControlInv'
<1> USE BlobAssumption DEF BlobAssumption, TypeOK, MutexInv, ControlInv,
        Writing, Reading, AllOps, Goto, AfterRLock, disk, mutex, hist
<1>1. ASSUME NEW t \in Threads, Lock(t) PROVE ControlInv'
  BY <1>1 DEF Lock
<1>2. ASSUME NEW t \in Threads, Locked(t) PROVE ControlInv'
  BY <1>2 DEF Locked
<1>3. ASSUME NEW t \in Threads, Unlock(t) PROVE ControlInv'
  BY <1>3 DEF Unlock
<1>4. ASSUME NEW t \in Threads, RLock(t) PROVE ControlInv'
  BY <1>4 DEF RLock
<1>5. ASSUME NEW t \in Threads, RUnlock(t) PROVE ControlInv'
  BY <1>5 DEF RUnlock
<1>6. ASSUME NEW t \in Threads, UploadRefused(t) PROVE ControlInv'
  BY <1>6 DEF UploadRefused
<1>7. ASSUME NEW t \in Threads, Encoded(t) PROVE ControlInv'
  BY <1>7 DEF Encoded
<1>8. ASSUME NEW t \in Threads, WriteShard(t) PROVE ControlInv'
  BY <1>8 DEF WriteShard
<1>9. ASSUME NEW t \in Threads, WriteFails(t) PROVE ControlInv'
  BY <1>9 DEF WriteFails
<1>10. ASSUME NEW t \in Threads, WriteMeta(t) PROVE ControlInv'
  BY <1>10 DEF WriteMeta
<1>11. ASSUME NEW t \in Threads, Cleanup(t) PROVE ControlInv'
  BY <1>11 DEF Cleanup
<1>12. ASSUME NEW t \in Threads, Remove(t) PROVE ControlInv'
  BY <1>12 DEF Remove
<1>13. ASSUME NEW t \in Threads, Read(t) PROVE ControlInv'
  BY <1>13 DEF Read
<1>14. ASSUME NEW t \in Threads, Scan(t) PROVE ControlInv'
  BY <1>14 DEF Scan
<1>15. ASSUME NEW t \in Threads, NEW o \in Ops, Start(t, o) PROVE ControlInv'
  BY <1>15 DEF Start
<1>16. ASSUME NEW i \in Shards, LoseShard(i) PROVE ControlInv'
  BY <1>16 DEF LoseShard
<1>17. ASSUME NEW i \in Shards, DamageShard(i) PROVE ControlInv'
  BY <1>17 DEF DamageShard
<1>18. CASE Crash BY <1>18 DEF Crash, Interrupted, RemovedSome, Changing
<1>19. CASE UNCHANGED vars BY <1>19 DEF vars
<1> QED BY <1>1, <1>2, <1>3, <1>4, <1>5, <1>6, <1>7, <1>8,
           <1>9, <1>10, <1>11, <1>12, <1>13, <1>14, <1>15, <1>16,
           <1>17, <1>18, <1>19 DEF Next, ThreadStep

\* Whatever a removal leaves, the files are of their types.
LEMMA RemovalKeepsTypes ==
  ASSUME TypeOK, RemovedAll \/ RemovalFails
  PROVE  /\ shard' \in [Shards -> Files] /\ meta' \in Files
         /\ lost' \in SUBSET Shards /\ damaged' \in SUBSET Shards
         /\ unclean' \in BOOLEAN
<1>1. CASE RemovedAll
  <2>1. unclean' \in BOOLEAN
    BY <1>1, Zenon DEF RemovedAll
  <2> QED BY <1>1, <2>1 DEF RemovedAll, Files
<1>2. CASE RemovalFails
  <2>1. unclean' \in BOOLEAN
    BY <1>2, Zenon DEF RemovalFails
  <2>2. /\ shard' \in [Shards -> Files] /\ meta' \in Files
        /\ lost' = lost /\ damaged' = damaged
    BY <1>2 DEF RemovalFails, RemovedSome, TypeOK, Files
  <2> QED BY <2>1, <2>2 DEF TypeOK
<1> QED BY <1>1, <1>2

\* The types.
LEMMA StepKeepsTypes ==
  ASSUME TypeOK, MutexInv, ControlInv, [Next]_vars PROVE TypeOK'
<1> USE BlobAssumption, ShardNumbers
    DEF BlobAssumption, TypeOK, MutexInv, ControlInv, Writing, Reading, PCs,
        AllOps, Files, Goto, AfterRLock, disk, mutex, hist
<1>1. ASSUME NEW t \in Threads, Lock(t) PROVE TypeOK'
  BY <1>1 DEF Lock
<1>2. ASSUME NEW t \in Threads, Locked(t) PROVE TypeOK'
  BY <1>2 DEF Locked
<1>3. ASSUME NEW t \in Threads, Unlock(t) PROVE TypeOK'
  BY <1>3 DEF Unlock
<1>4. ASSUME NEW t \in Threads, RLock(t) PROVE TypeOK'
  BY <1>4 DEF RLock
<1>5. ASSUME NEW t \in Threads, RUnlock(t) PROVE TypeOK'
  BY <1>5 DEF RUnlock
<1>6. ASSUME NEW t \in Threads, UploadRefused(t) PROVE TypeOK'
  BY <1>6 DEF UploadRefused
<1>7. ASSUME NEW t \in Threads, Encoded(t) PROVE TypeOK'
  BY <1>7 DEF Encoded
<1>8. ASSUME NEW t \in Threads, WriteShard(t) PROVE TypeOK'
  <2>1. val[t] \in Values /\ next[t] \in Shards /\ next[t] \in Nat
    BY <1>8 DEF WriteShard
  <2>2. next' = [next EXCEPT ![t] = next[t] + 1] /\ next' \in [Threads -> Nat]
    BY <1>8, <2>1 DEF WriteShard
  <2>3. \A r \in Threads : pc'[r] = "shards" => next'[r] \in Shards
    BY <1>8, <2>1, <2>2 DEF WriteShard
  <2>4. shard' \in [Shards -> Files]
    BY <1>8, <2>1 DEF WriteShard
  <2>5. /\ pc' \in [Threads -> PCs] /\ lost' \subseteq Shards /\ damaged' \subseteq Shards
        /\ UNCHANGED <<meta, writer, holds, queued, op, val, res, acked, unclean, ops,
                       crashes>>
    BY <1>8 DEF WriteShard
  <2>6. \A r \in Threads : pc'[r] \in {"shards", "meta"} => val[r] \in Values
    BY <1>8, <2>1 DEF WriteShard
  <2> HIDE DEF PCs, Files, AllOps, MutexInv, ControlInv
  <2> QED BY <2>2, <2>3, <2>4, <2>5, <2>6
<1>9. ASSUME NEW t \in Threads, WriteFails(t) PROVE TypeOK'
  BY <1>9 DEF WriteFails, Interrupted, RemovedSome, Changing
<1>10. ASSUME NEW t \in Threads, WriteMeta(t) PROVE TypeOK'
  <2>1. unclean' \in BOOLEAN
    BY <1>10, Zenon DEF WriteMeta
  <2> QED BY <1>10, <2>1 DEF WriteMeta
<1>11. ASSUME NEW t \in Threads, Cleanup(t) PROVE TypeOK'
  <2>1. RemovedAll \/ RemovalFails
    BY <1>11 DEF Cleanup
  <2> QED BY <1>11, <2>1, RemovalKeepsTypes DEF Cleanup
<1>12. ASSUME NEW t \in Threads, Remove(t) PROVE TypeOK'
  <2>1. RemovedAll \/ RemovalFails
    BY <1>12 DEF Remove
  <2> QED BY <1>12, <2>1, RemovalKeepsTypes DEF Remove
<1>13. ASSUME NEW t \in Threads, Read(t) PROVE TypeOK'
  BY <1>13 DEF Read, Decoded, Enough, Reconstructed
<1>14. ASSUME NEW t \in Threads, Scan(t) PROVE TypeOK'
  BY <1>14 DEF Scan
<1>15. ASSUME NEW t \in Threads, NEW o \in Ops, Start(t, o) PROVE TypeOK'
  BY <1>15 DEF Start
<1>16. ASSUME NEW i \in Shards, LoseShard(i) PROVE TypeOK'
  BY <1>16 DEF LoseShard
<1>17. ASSUME NEW i \in Shards, DamageShard(i) PROVE TypeOK'
  BY <1>17 DEF DamageShard
<1>18. CASE Crash BY <1>18 DEF Crash, Interrupted, RemovedSome, Changing
<1>19. CASE UNCHANGED vars BY <1>19 DEF vars
<1> QED BY <1>1, <1>2, <1>3, <1>4, <1>5, <1>6, <1>7, <1>8,
           <1>9, <1>10, <1>11, <1>12, <1>13, <1>14, <1>15, <1>16,
           <1>17, <1>18, <1>19 DEF Next, ThreadStep

\* Only the step that decides a request answers it.
LEMMA StepKeepsAnswers ==
  ASSUME TypeOK, MutexInv, ControlInv, AnswerInv, [Next]_vars PROVE AnswerInv'
<1> USE BlobAssumption DEF BlobAssumption, TypeOK, MutexInv, ControlInv,
        AnswerInv, Undecided, PCs, Writing, Goto, AfterRLock, disk, mutex, hist
<1>1. ASSUME NEW t \in Threads, Lock(t) PROVE AnswerInv'
  BY <1>1 DEF Lock
<1>2. ASSUME NEW t \in Threads, Locked(t) PROVE AnswerInv'
  BY <1>2 DEF Locked
<1>3. ASSUME NEW t \in Threads, Unlock(t) PROVE AnswerInv'
  BY <1>3 DEF Unlock
<1>4. ASSUME NEW t \in Threads, RLock(t) PROVE AnswerInv'
  BY <1>4 DEF RLock
<1>5. ASSUME NEW t \in Threads, RUnlock(t) PROVE AnswerInv'
  BY <1>5 DEF RUnlock
<1>6. ASSUME NEW t \in Threads, UploadRefused(t) PROVE AnswerInv'
  BY <1>6 DEF UploadRefused
<1>7. ASSUME NEW t \in Threads, Encoded(t) PROVE AnswerInv'
  BY <1>7 DEF Encoded
<1>8. ASSUME NEW t \in Threads, WriteShard(t) PROVE AnswerInv'
  BY <1>8 DEF WriteShard
<1>9. ASSUME NEW t \in Threads, WriteFails(t) PROVE AnswerInv'
  BY <1>9 DEF WriteFails
<1>10. ASSUME NEW t \in Threads, WriteMeta(t) PROVE AnswerInv'
  BY <1>10 DEF WriteMeta
<1>11. ASSUME NEW t \in Threads, Cleanup(t) PROVE AnswerInv'
  BY <1>11 DEF Cleanup
<1>12. ASSUME NEW t \in Threads, Remove(t) PROVE AnswerInv'
  BY <1>12 DEF Remove
<1>13. ASSUME NEW t \in Threads, Read(t) PROVE AnswerInv'
  BY <1>13 DEF Read
<1>14. ASSUME NEW t \in Threads, Scan(t) PROVE AnswerInv'
  BY <1>14 DEF Scan
<1>15. ASSUME NEW t \in Threads, NEW o \in Ops, Start(t, o) PROVE AnswerInv'
  BY <1>15 DEF Start
<1>16. ASSUME NEW i \in Shards, LoseShard(i) PROVE AnswerInv'
  BY <1>16 DEF LoseShard
<1>17. ASSUME NEW i \in Shards, DamageShard(i) PROVE AnswerInv'
  BY <1>17 DEF DamageShard
<1>18. CASE Crash BY <1>18 DEF Crash, Interrupted, RemovedSome, Changing
<1>19. CASE UNCHANGED vars BY <1>19 DEF vars
<1> QED BY <1>1, <1>2, <1>3, <1>4, <1>5, <1>6, <1>7, <1>8,
           <1>9, <1>10, <1>11, <1>12, <1>13, <1>14, <1>15, <1>16,
           <1>17, <1>18, <1>19 DEF Next, ThreadStep

\* What an upload has written stays until a fault or the next writer.
LEMMA StepKeepsData ==
  ASSUME TypeOK, MutexInv, ControlInv, DataInv, [Next]_vars PROVE DataInv'
<1> USE BlobAssumption, ShardNumbers
    DEF BlobAssumption, TypeOK, MutexInv, ControlInv, DataInv, HoldsOrHit,
        Writing, Reading, PCs, Files, Goto, AfterRLock, disk, mutex, hist
<1>1. ASSUME NEW t \in Threads, Lock(t) PROVE DataInv'
  BY <1>1 DEF Lock
<1>2. ASSUME NEW t \in Threads, Locked(t) PROVE DataInv'
  BY <1>2 DEF Locked
<1>3. ASSUME NEW t \in Threads, Unlock(t) PROVE DataInv'
  BY <1>3 DEF Unlock
<1>4. ASSUME NEW t \in Threads, RLock(t) PROVE DataInv'
  BY <1>4 DEF RLock
<1>5. ASSUME NEW t \in Threads, RUnlock(t) PROVE DataInv'
  BY <1>5 DEF RUnlock
<1>6. ASSUME NEW t \in Threads, UploadRefused(t) PROVE DataInv'
  BY <1>6 DEF UploadRefused
<1>7. ASSUME NEW t \in Threads, Encoded(t) PROVE DataInv'
  BY <1>7 DEF Encoded
<1>8. ASSUME NEW t \in Threads, WriteShard(t) PROVE DataInv'
  BY <1>8 DEF WriteShard
<1>9. ASSUME NEW t \in Threads, WriteFails(t) PROVE DataInv'
  BY <1>9 DEF WriteFails, Interrupted, RemovedSome, Changing
<1>10. ASSUME NEW t \in Threads, WriteMeta(t) PROVE DataInv'
  <2>1. writer = t /\ pc' = [pc EXCEPT ![t] = "unlock"] /\ val[t] \in Values
        /\ UNCHANGED <<shard, next, val, lost, damaged>>
    BY <1>10 DEF WriteMeta
  <2>2. meta' = val[t] /\ acked' = val[t] /\ \A i \in Shards : HoldsOrHit(i, val[t])
    BY <1>10 DEF WriteMeta
  <2>3. \A r \in Threads : pc'[r] \notin {"shards", "meta", "cleanup"}
    BY <2>1
  <2> QED BY <2>1, <2>2, <2>3
<1>11. ASSUME NEW t \in Threads, Cleanup(t) PROVE DataInv'
  BY <1>11 DEF Cleanup, RemovedAll, RemovalFails, RemovedSome
<1>12. ASSUME NEW t \in Threads, Remove(t) PROVE DataInv'
  BY <1>12 DEF Remove, RemovedAll, RemovalFails, RemovedSome
<1>13. ASSUME NEW t \in Threads, Read(t) PROVE DataInv'
  BY <1>13 DEF Read
<1>14. ASSUME NEW t \in Threads, Scan(t) PROVE DataInv'
  BY <1>14 DEF Scan
<1>15. ASSUME NEW t \in Threads, NEW o \in Ops, Start(t, o) PROVE DataInv'
  BY <1>15 DEF Start
<1>16. ASSUME NEW i \in Shards, LoseShard(i) PROVE DataInv'
  BY <1>16 DEF LoseShard
<1>17. ASSUME NEW i \in Shards, DamageShard(i) PROVE DataInv'
  BY <1>17 DEF DamageShard
<1>18. CASE Crash BY <1>18 DEF Crash, Interrupted, RemovedSome, Changing
<1>19. CASE UNCHANGED vars BY <1>19 DEF vars
<1> QED BY <1>1, <1>2, <1>3, <1>4, <1>5, <1>6, <1>7, <1>8,
           <1>9, <1>10, <1>11, <1>12, <1>13, <1>14, <1>15, <1>16,
           <1>17, <1>18, <1>19 DEF Next, ThreadStep

\* A change leaves a version behind, or nothing, unless it is cut off or its
\* removal fails.
LEMMA StepKeepsWhole ==
  ASSUME TypeOK, MutexInv, ControlInv, DataInv, WholeInv, [Next]_vars
  PROVE  WholeInv'
<1> USE BlobAssumption, ShardNumbers
    DEF BlobAssumption, TypeOK, MutexInv, ControlInv, WholeInv, Whole,
        Empty, HoldsOrHit, Changing,
        Writing, Reading, Files, Goto, AfterRLock, disk, mutex, hist
<1>1. ASSUME NEW t \in Threads, Lock(t) PROVE WholeInv'
  BY <1>1 DEF Lock
<1>2. ASSUME NEW t \in Threads, Locked(t) PROVE WholeInv'
  BY <1>2 DEF Locked
<1>3. ASSUME NEW t \in Threads, Unlock(t) PROVE WholeInv'
  BY <1>3 DEF Unlock
<1>4. ASSUME NEW t \in Threads, RLock(t) PROVE WholeInv'
  BY <1>4 DEF RLock
<1>5. ASSUME NEW t \in Threads, RUnlock(t) PROVE WholeInv'
  BY <1>5 DEF RUnlock
<1>6. ASSUME NEW t \in Threads, UploadRefused(t) PROVE WholeInv'
  BY <1>6 DEF UploadRefused
<1>7. ASSUME NEW t \in Threads, Encoded(t) PROVE WholeInv'
  BY <1>7 DEF Encoded
<1>8. ASSUME NEW t \in Threads, WriteShard(t) PROVE WholeInv'
  BY <1>8 DEF WriteShard
<1>9. ASSUME NEW t \in Threads, WriteFails(t) PROVE WholeInv'
  BY <1>9 DEF WriteFails, Interrupted, RemovedSome
<1>10. ASSUME NEW t \in Threads, WriteMeta(t) PROVE WholeInv'
  <2>1. meta' = val[t] /\ val[t] \in Values /\ UNCHANGED <<shard, lost, damaged>>
    BY <1>10 DEF WriteMeta
  <2>2. \A i \in Shards : HoldsOrHit(i, val[t])
    BY <1>10 DEF WriteMeta, DataInv
  <2> QED BY <2>1, <2>2
<1>11. ASSUME NEW t \in Threads, Cleanup(t) PROVE WholeInv'
  BY <1>11 DEF Cleanup, RemovedAll, RemovalFails, RemovedSome
<1>12. ASSUME NEW t \in Threads, Remove(t) PROVE WholeInv'
  BY <1>12 DEF Remove, RemovedAll, RemovalFails, RemovedSome
<1>13. ASSUME NEW t \in Threads, Read(t) PROVE WholeInv'
  BY <1>13 DEF Read
<1>14. ASSUME NEW t \in Threads, Scan(t) PROVE WholeInv'
  BY <1>14 DEF Scan
<1>15. ASSUME NEW t \in Threads, NEW o \in Ops, Start(t, o) PROVE WholeInv'
  BY <1>15 DEF Start
<1>16. ASSUME NEW i \in Shards, LoseShard(i) PROVE WholeInv'
  BY <1>16 DEF LoseShard
<1>17. ASSUME NEW i \in Shards, DamageShard(i) PROVE WholeInv'
  BY <1>17 DEF DamageShard
<1>18. CASE Crash
  <2>1. CASE writer # NoThread /\ pc[writer] \in Changing
    <3>1. unclean'
      BY <1>18, <2>1, Zenon DEF Crash
    <3> QED BY <3>1
  <2>2. CASE ~(writer # NoThread /\ pc[writer] \in Changing)
    <3>1. UNCHANGED <<shard, meta, lost, damaged>>
      BY <1>18, <2>2 DEF Crash, Interrupted
    <3>2. unclean' <=> unclean
      BY <1>18, <2>2, Zenon DEF Crash
    <3>3. \A t \in Threads : pc[t] \notin Changing
      BY <2>2
    <3> QED BY <3>1, <3>2, <3>3
  <2> QED BY <2>1, <2>2
<1>19. CASE UNCHANGED vars BY <1>19 DEF vars
<1> QED BY <1>1, <1>2, <1>3, <1>4, <1>5, <1>6, <1>7, <1>8,
           <1>9, <1>10, <1>11, <1>12, <1>13, <1>14, <1>15, <1>16,
           <1>17, <1>18, <1>19 DEF Next, ThreadStep

LEMMA BlobInvHolds == Spec => []BlobInv
<1>1. BlobInv /\ [Next]_vars => BlobInv'
  BY StepKeepsTypes, StepKeepsMutex, StepKeepsControl, StepKeepsAnswers,
     StepKeepsData, StepKeepsWhole DEF BlobInv
<1> QED BY <1>1, InitBlobInv, PTL DEF Spec

-----------------------------------------------------------------------------
(* What follows from it.                                                    *)

\* Type correctness: above all, an upload that writes its shards and metadata
\* has a value and a shard to write, and no thread holds more than two locks.
THEOREM TypeCorrect == Spec => []TypeOK
<1>1. BlobInv => TypeOK
  BY DEF BlobInv
<1> QED BY <1>1, BlobInvHolds, PTL

\* The mutex keeps its word: whoever has got past the wait for the readers is
\* the only writer, and nobody reads, or waits inside a verification, meanwhile.
THEOREM WriterIsAlone ==
  Spec => [](\A t, r \in Threads :
               pc[t] \in Writing /\ r # t =>
                 pc[r] \notin Writing \cup Reading /\ holds[r] = 0)
<1>1. BlobInv => \A t, r \in Threads :
                   pc[t] \in Writing /\ r # t =>
                     pc[r] \notin Writing \cup Reading /\ holds[r] = 0
  BY DEF BlobInv, MutexInv
<1> QED BY <1>1, BlobInvHolds, PTL

\* While no request is changing the directory it is all of a version or empty:
\* a failed upload has taken away what it wrote and what it wrote over.  Except
\* after a crash inside a change, and after a removal that failed
\* (cleanupArtifact drops its error), until the next change that succeeds.
THEOREM DirectoriesAreWhole == Spec => []DirectoryIsWhole
<1>1. BlobInv => DirectoryIsWhole
  BY BlobAssumption
     DEF BlobAssumption, BlobInv, MutexInv, WholeInv, Whole, Empty, HoldsOrHit,
         DirectoryIsWhole, Present, Writing, Changing
<1> QED BY <1>1, BlobInvHolds, PTL

\* Of all the shard files, at least as many are left as DownloadArtifact asks
\* for when no more than ParityShards are lost.
LEMMA EnoughAreLeft ==
  ASSUME lost \in SUBSET Shards, Cardinality(lost) <= ParityShards
  PROVE  Cardinality(Shards \ lost) >= DataShards
<1> DEFINE n == DataShards + ParityShards
<1>1. n \in Nat \ {0} /\ Shards = 0 .. n - 1 /\ DataShards \in Nat /\ ParityShards \in Nat
  BY BlobAssumption DEF BlobAssumption, Shards
<1>2. IsFiniteSet(Shards) /\ Cardinality(Shards) = n
  <2>1. 0 \in Int /\ n - 1 \in Int /\ ~(0 > n - 1) /\ n - 1 - 0 + 1 = n
    BY <1>1
  <2> HIDE DEF n
  <2> QED BY <1>1, <2>1, FS_Interval
<1>3. Shards \cap lost = lost
  OBVIOUS
<1>4. Cardinality(Shards \ lost) = n - Cardinality(lost)
  BY <1>2, <1>3, FS_Difference
<1>5. Cardinality(lost) \in Nat
  BY <1>2, FS_Subset, FS_CardinalityType
<1> QED BY <1>1, <1>4, <1>5

\* Shards that all hold v decode to v, if there is one.
LEMMA OneValueDecodes ==
  ASSUME NEW v \in Values, Present # {}, \A i \in Present : shard[i] = v
  PROVE  Reconstructed = v
<1>1. \A w \in Values : (\A i \in Present : shard[i] = w) => w = v
  OBVIOUS
<1> QED BY <1>1 DEF Reconstructed

\* An acknowledged upload is what a download returns, whatever crashed or
\* failed since and whichever ParityShards shard files are gone, until another
\* upload or delete begins (DownloadArtifact, Decode).
THEOREM AcknowledgedIsDurable == Spec => []AckedIsDurable
<1>1. BlobInv => AckedIsDurable
  <2> SUFFICES ASSUME BlobInv, acked \in Values, damaged = {},
                      Cardinality(lost) <= ParityShards
               PROVE  Decoded = acked
    BY DEF AckedIsDurable
  <2>1. meta = acked /\ \A i \in Shards : shard[i] = IF i \in lost THEN None ELSE acked
    BY DEF BlobInv, DataInv, HoldsOrHit
  <2>2. Present = Shards \ lost
    BY <2>1, BlobAssumption DEF BlobAssumption, Present
  <2>3. Cardinality(Present) >= DataShards
    BY <2>2, EnoughAreLeft DEF BlobInv, TypeOK
  <2>4. Present # {}
    BY <2>3, FS_EmptySet, BlobAssumption DEF BlobAssumption
  <2>5. \A i \in Present : shard[i] = acked
    BY <2>1, <2>2
  <2>6. Reconstructed = acked
    BY <2>4, <2>5, OneValueDecodes
  <2> QED BY <2>1, <2>3, <2>5, <2>6 DEF Decoded, Enough
<1> QED BY <1>1, BlobInvHolds, PTL

-----------------------------------------------------------------------------
(* The refinement.                                                          *)

Artifact == IF meta \in Values THEN meta ELSE None

\* A step that leaves the metadata file and the answers alone is none of the
\* abstract blob's.
LEMMA Stutter ==
  ASSUME meta' = meta, res' = res
  PROVE  UNCHANGED Abstract!avars
BY DEF Abstract!avars

\* What a download decodes is the artifact.
LEMMA DecodedIsArtifact == Decoded # None => Decoded = Artifact /\ meta \in Values
BY DEF Decoded, Enough, Artifact

\* The steps of a request that decide it.
LEMMA DecidingSteps ==
  ASSUME BlobInv, NEW t \in Threads,
         UploadRefused(t) \/ WriteMeta(t) \/ Cleanup(t) \/ Remove(t)
         \/ Read(t) \/ Scan(t)
  PROVE  Abstract!ANext
<1> USE BlobAssumption DEF BlobAssumption
<1>0. res[t] = "none"
  BY DEF BlobInv, AnswerInv, Undecided, PCs, UploadRefused, WriteMeta, Cleanup,
         Remove, Read, Scan
<1>1. CASE UploadRefused(t)
  <2>1. Abstract!Reply(t)
    BY <1>0, <1>1 DEF UploadRefused, disk, Abstract!Reply
  <2> QED BY <2>1 DEF Abstract!ANext
<1>2. CASE WriteMeta(t)
  <2>1. val[t] \in Values
    BY <1>2 DEF WriteMeta, BlobInv, TypeOK
  <2>2. Abstract!Put(t, val[t])
    BY <1>0, <1>2, <2>1 DEF WriteMeta, Abstract!Put
  <2> QED BY <2>1, <2>2 DEF Abstract!ANext
<1>3. CASE Cleanup(t) \/ Remove(t)
  <2>1. /\ meta' \in {meta, None}
        /\ \/ res' = [res EXCEPT ![t] = "error"]
           \/ res' = [res EXCEPT ![t] = "ok"] /\ meta' = None
    BY <1>3 DEF Cleanup, Remove, RemovedAll, RemovalFails, RemovedSome
  <2>2. CASE meta' = None
    <3>1. Abstract!Take(t)
      BY <1>0, <2>1, <2>2 DEF Abstract!Take
    <3> QED BY <3>1 DEF Abstract!ANext
  <2>3. CASE meta' # None
    <3>1. Abstract!Reply(t)
      BY <1>0, <2>1, <2>3 DEF Abstract!Reply
    <3> QED BY <3>1 DEF Abstract!ANext
  <2> QED BY <2>2, <2>3
<1>4. CASE Read(t)
  <2>1. CASE Decoded = None
    <3>1. Abstract!Reply(t)
      BY <1>0, <1>4, <2>1 DEF Read, disk, Abstract!Reply
    <3> QED BY <3>1 DEF Abstract!ANext
  <2>2. CASE Decoded # None
    <3>1. Abstract!Get(t)
      BY <1>0, <1>4, <2>2, DecodedIsArtifact DEF Read, disk, Artifact, Abstract!Get
    <3> QED BY <3>1 DEF Abstract!ANext
  <2> QED BY <2>1, <2>2
<1>5. CASE Scan(t)
  <2>1. Abstract!Reply(t)
    BY <1>0, <1>5 DEF Scan, disk, Abstract!Reply
  <2> QED BY <2>1 DEF Abstract!ANext
<1> QED BY <1>1, <1>2, <1>3, <1>4, <1>5

\* A step under the abstraction: the requests' own files come and go unseen,
\* the metadata file is written, removed, or lost in the middle of either.
LEMMA StepsAreAtomic ==
  ASSUME BlobInv, [Next]_vars
  PROVE  [Abstract!ANext]_(Abstract!avars)
<1> USE BlobAssumption DEF BlobAssumption
<1>1. ASSUME NEW t \in Threads, ThreadStep(t)
      PROVE  [Abstract!ANext]_(Abstract!avars)
  <2>1. CASE \/ Lock(t) \/ Locked(t) \/ Unlock(t) \/ RLock(t) \/ RUnlock(t)
             \/ Encoded(t) \/ WriteShard(t)
    <3>1. meta' = meta /\ res' = res
      BY <2>1 DEF Lock, Locked, Unlock, RLock, RUnlock, Encoded, WriteShard, disk
    <3> QED BY <3>1, Stutter
  <2>2. CASE WriteFails(t)
    <3>1. meta' \in {meta, Bad} /\ res' = res
      BY <2>2 DEF WriteFails, Interrupted, disk
    <3>2. meta' = Bad => Abstract!Damage
      BY <3>1 DEF Abstract!Damage
    <3> QED BY <3>1, <3>2, Stutter DEF Abstract!ANext
  <2> QED BY <1>1, <2>1, <2>2, DecidingSteps DEF ThreadStep
<1>2. ASSUME NEW t \in Threads, NEW o \in Ops, Start(t, o)
      PROVE  Abstract!ANext
  <2>1. Abstract!Call(t)
    BY <1>2 DEF Start, disk, Abstract!Call
  <2> QED BY <2>1 DEF Abstract!ANext
<1>3. ASSUME NEW i \in Shards, LoseShard(i) \/ DamageShard(i)
      PROVE  UNCHANGED Abstract!avars
  BY <1>3, Stutter DEF LoseShard, DamageShard
<1>4. CASE Crash
  <2>1. meta' \in {meta, Bad, None}
    BY <1>4 DEF Crash, Interrupted, RemovedSome, Changing, disk
  <2>2. Abstract!Restart
    BY <1>4, <2>1 DEF Crash, Abstract!Restart
  <2> QED BY <2>2 DEF Abstract!ANext
<1>5. CASE UNCHANGED vars
  BY <1>5, Stutter DEF vars
<1> QED BY <1>1, <1>2, <1>3, <1>4, <1>5 DEF Next

\* Every request over many files is one step of the atomic blob: the metadata
\* file is written last and read first, under the mutex, so an upload or a
\* delete takes effect at once, and a download returns the artifact of that
\* moment or an error, for any number of requests, faults and crashes.
THEOREM RequestsAreAtomic == Spec => BlobIsAtomic
<1>1. Init => Abstract!AInit
  BY BlobAssumption DEF BlobAssumption, Init, Abstract!AInit
<1>2. BlobInv /\ [Next]_vars => [Abstract!ANext]_(Abstract!avars)
  BY StepsAreAtomic
<1> QED BY <1>1, <1>2, BlobInvHolds, PTL DEF Spec, BlobIsAtomic, Abstract!ASpec
=============================================================================
