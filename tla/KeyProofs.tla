----------------------------- MODULE KeyProofs -----------------------------
(* Proofs about KeyRotation, for any number of uploads, rotations and jobs, *)
(* and every scenario.                                                      *)
EXTENDS KeyRotation, FiniteSetTheorems, WellFoundedInduction, TLAPS

\* The types that the proofs use of the state.
Typed ==
  /\ row \in KeyRow \cup {None}
  /\ pc \in [Actors -> {"new"} \cup AtWork \cup Ended]
  /\ got \in [Actors -> Actors \cup {OldKey, None}]
  /\ setup \in Setup

\* There is one key, it is active, and whatever has a key has that one.
OneKey ==
  /\ row # None => row.active
  /\ cache # None => row # None /\ cache = row.key
  /\ \A x \in Actors : pc[x] \in Holding => row # None /\ got[x] = row.key

\* An upload that saw a key goes on to create one only because a call failed.
SeenIsServed ==
  /\ begun # {} => row # None
  /\ \A u \in Artifacts : pc[u] \in {"creating", "refused"} => u \notin begun \/ u \in faulted

-----------------------------------------------------------------------------
(* What a step of an actor leaves alone. *)

Step(x) ==
  \/ x \in Artifacts /\ (Ask(x) \/ Create(x) \/ Store(x))
  \/ x \in Rotations /\ (BeginRotation(x) \/ Deactivate(x) \/ DeleteCached(x) \/ InsertRotated(x))
  \/ x \in Jobs /\ (\/ StartRewrapJob(x) \/ FetchBatch(x) \/ ReadMeta(x) \/ Rewrap(x) \/ OpenTemp(x)
                    \/ WriteTemp(x) \/ Rename(x) \/ RemoveTemp(x) \/ Finish(x))
  \/ x \in Artifacts \cup Rotations /\ CacheNew(x)
  \/ x \in Artifacts \cup Jobs /\ (Query(x) \/ CacheHit(x) \/ CacheMiss(x) \/ Decrypt(x))

\* The steps of a rewrap job on its files; they leave the keys alone.
Files(x) ==
  \/ StartRewrapJob(x) \/ FetchBatch(x) \/ ReadMeta(x) \/ Rewrap(x) \/ OpenTemp(x)
  \/ WriteTemp(x) \/ Rename(x) \/ RemoveTemp(x) \/ Finish(x)

Moves(x, from, to) == pc[x] \in from /\ \E q \in to : pc' = [pc EXCEPT ![x] = q]

LEMMA FileSteps ==
  ASSUME NEW x \in Jobs, Files(x)
  PROVE  /\ UNCHANGED <<keys, got, begun>>
         /\ \/ Moves(x, {"new"}, {"query"})
            \/ Moves(x, {"finishing"}, {"done"})
            \/ Moves(x, Rewrapping \ {"finishing"}, Rewrapping)
<1> USE DEF Moves, Go, Rewrapping, rest, files
<1>1. CASE StartRewrapJob(x) BY <1>1 DEF StartRewrapJob
<1>2. CASE FetchBatch(x) BY <1>2 DEF FetchBatch, Fetched
<1>3. CASE ReadMeta(x) BY <1>3 DEF ReadMeta, Counted
<1>4. CASE Rewrap(x) BY <1>4 DEF Rewrap, Counted
<1>5. CASE OpenTemp(x) BY <1>5 DEF OpenTemp, Counted
<1>6. CASE WriteTemp(x) BY <1>6 DEF WriteTemp, Counted
<1>7. CASE Rename(x) BY <1>7 DEF Rename, Counted
<1>8. CASE RemoveTemp(x) BY <1>8 DEF RemoveTemp, Counted
<1>9. CASE Finish(x) BY <1>9 DEF Finish
<1> QED BY <1>1, <1>2, <1>3, <1>4, <1>5, <1>6, <1>7, <1>8, <1>9 DEF Files

\* An actor's step leaves what the others hold, and a row that is there.
LEMMA OthersStay ==
  ASSUME Typed, OneKey, NEW x \in Actors, Step(x)
  PROVE  /\ \A y \in Actors \ {x} : pc'[y] = pc[y] /\ got'[y] = got[y]
         /\ pc' \in [Actors -> {"new"} \cup AtWork \cup Ended]
         /\ got' \in [Actors -> Actors \cup {OldKey, None}]
         /\ row' = row \/ (row = None /\ row' = [key |-> x, active |-> TRUE])
<1> USE DEF Typed, Go, AtWork, Ended, Getting, Creating, Rotating, Rewrapping
<1>1. CASE Ask(x) BY <1>1 DEF Ask, keys
<1>2. CASE Create(x) BY <1>2 DEF Create
<1>3. CASE Store(x) BY <1>3 DEF Store, keys
<1>4. CASE BeginRotation(x) BY <1>4 DEF BeginRotation, keys
<1>5. CASE Deactivate(x) BY <1>5 DEF Deactivate, RollBack
<1>6. CASE DeleteCached(x) BY <1>6 DEF DeleteCached
<1>7. CASE InsertRotated(x) BY <1>7 DEF InsertRotated, RollBack
<1>8. CASE CacheNew(x) BY <1>8 DEF CacheNew
<1>9. CASE Query(x)
  <2>1. got' = got \/ (HasKey /\ got' = [got EXCEPT ![x] = row.key]) BY <1>9 DEF Query
  <2>2. HasKey => row.key \in Actors \cup {OldKey} BY DEF HasKey, KeyRow
  <2>3. \E q \in {"cached", "finishing", "creating"} : pc' = [pc EXCEPT ![x] = q]
    BY <1>9 DEF Query, GetFails
  <2> QED BY <1>9, <2>1, <2>2, <2>3 DEF Query, keys
<1>10. CASE CacheHit(x) /\ OneKey
  BY <1>10 DEF CacheHit, Got, OneKey, keys, KeyRow
<1>11. CASE CacheMiss(x) BY <1>11 DEF CacheMiss, keys
<1>12. CASE Decrypt(x) BY <1>12 DEF Decrypt, GetFails, Got
<1>13. CASE x \in Jobs /\ Files(x)
  BY <1>13, FileSteps DEF Moves, keys
<1> QED BY <1>1, <1>2, <1>3, <1>4, <1>5, <1>6, <1>7, <1>8, <1>9, <1>10, <1>11, <1>12, <1>13 DEF Step, Files

-----------------------------------------------------------------------------
(* One key. *)

\* The scenario of a run stays, but for its budgets.
LEMMA SetupSteps ==
  ASSUME [Next]_vars
  PROVE  setup' = setup \/ Spend("faults") \/ Spend("crashes") \/ Spend("deletes")
<1>1. ASSUME NEW x \in Actors, Step(x) PROVE setup' = setup \/ Spend("faults")
  <2> USE DEF NoFault, Fault
  <2>1. CASE Ask(x) \/ Create(x) \/ Store(x) BY <2>1 DEF Ask, Create, Store
  <2>2. CASE BeginRotation(x) \/ Deactivate(x) \/ DeleteCached(x) \/ InsertRotated(x)
    BY <2>2 DEF BeginRotation, Deactivate, DeleteCached, InsertRotated
  <2>3. CASE CacheNew(x) BY <2>3 DEF CacheNew
  <2>4. CASE Query(x) \/ CacheHit(x) \/ CacheMiss(x) \/ Decrypt(x)
    BY <2>4 DEF Query, CacheHit, CacheMiss, Decrypt
  <2>5. CASE StartRewrapJob(x) BY <2>5 DEF StartRewrapJob
  <2>6. CASE FetchBatch(x) \/ ReadMeta(x) BY <2>6 DEF FetchBatch, ReadMeta
  <2>7. CASE Rewrap(x) \/ OpenTemp(x) BY <2>7 DEF Rewrap, OpenTemp
  <2>8. CASE WriteTemp(x) \/ Rename(x) \/ RemoveTemp(x) BY <2>8 DEF WriteTemp, Rename, RemoveTemp
  <2>9. CASE Finish(x) BY <2>9 DEF Finish
  <2> QED BY <1>1, <2>1, <2>2, <2>3, <2>4, <2>5, <2>6, <2>7, <2>8, <2>9 DEF Step
<1>2. ASSUME NEW u \in Artifacts, Delete(u) PROVE Spend("deletes")
  BY <1>2 DEF Delete
<1>3. ASSUME NEW j \in Jobs, CancelJob(j) PROVE setup' = setup
  BY <1>3 DEF CancelJob
<1>4. CASE ExpireKey BY <1>4 DEF ExpireKey
<1>5. CASE Crash BY <1>5 DEF Crash
<1>6. CASE UNCHANGED vars BY <1>6 DEF vars
<1> QED BY <1>1, <1>2, <1>3, <1>4, <1>5, <1>6 DEF Next, Upload, Rotation, Process, Step, Actors

LEMMA TypedSteps == Typed /\ OneKey /\ [Next]_vars => Typed'
<1> USE KeyRotationAssumption DEF KeyRotationAssumption
<1> SUFFICES ASSUME Typed, OneKey, [Next]_vars PROVE Typed'
  OBVIOUS
<1>n. setup' \in Setup
  BY SetupSteps DEF Spend, Typed, Setup
<1>1. ASSUME NEW x \in Actors, Step(x) PROVE Typed'
  <2>1. row' \in KeyRow \cup {None}
    <3>1. [key |-> x, active |-> TRUE] \in KeyRow BY DEF KeyRow
    <3> QED BY <1>1, <3>1, OthersStay DEF Typed
  <2> QED BY <1>1, <1>n, <2>1, OthersStay DEF Typed
<1>2. ASSUME NEW u \in Artifacts, Delete(u) PROVE Typed'
  BY <1>2, <1>n DEF Delete, Typed, keys
<1>3. ASSUME NEW j \in Jobs, CancelJob(j) PROVE Typed'
  BY <1>3, <1>n DEF CancelJob, Typed, keys
<1>4. CASE ExpireKey BY <1>4, <1>n DEF ExpireKey, Typed
<1>5. CASE Crash BY <1>5, <1>n DEF Crash, Typed, Ended
<1>6. CASE UNCHANGED vars BY <1>6, <1>n DEF vars, Typed, keys
<1> QED BY <1>1, <1>2, <1>3, <1>4, <1>5, <1>6 DEF Next, Upload, Rotation, Process, Step, Actors

LEMMA OneKeySteps == Typed /\ OneKey /\ [Next]_vars => OneKey'
<1> USE KeyRotationAssumption DEF KeyRotationAssumption
<1> SUFFICES ASSUME Typed, OneKey, [Next]_vars PROVE OneKey'
  OBVIOUS
<1>1. ASSUME NEW x \in Actors, Step(x) PROVE OneKey'
  <2> USE <1>1
  <2>k. [key |-> x, active |-> TRUE].key = x /\ [key |-> x, active |-> TRUE].active
        /\ [key |-> x, active |-> TRUE] # None
    <3>1. [key |-> x, active |-> TRUE] \in KeyRow BY DEF KeyRow
    <3> QED BY <3>1
  \* While there is no row nobody holds a key, and a row that is there stays.
  <2>1. /\ row' # None => row'.active
        /\ row # None => row' = row
        /\ \A y \in Actors \ {x} : pc'[y] \in Holding => row' # None /\ got'[y] = row'.key
    BY <2>k, OthersStay DEF OneKey
  <2>2. /\ cache' # None => row' # None /\ cache' = row'.key
        /\ pc'[x] \in Holding => row' # None /\ got'[x] = row'.key
    <3> USE DEF Typed, Go, Holding, Rewrapping
    <3>1. CASE Ask(x) BY <3>1 DEF Ask, keys, OneKey
    <3>2. CASE Create(x)
      BY <3>2, <2>k DEF Create, OneKey
    <3>3. CASE Store(x) BY <3>3 DEF Store, keys, OneKey
    <3>4. CASE BeginRotation(x) BY <3>4 DEF BeginRotation, keys, OneKey
    <3>5. CASE Deactivate(x) BY <3>5 DEF Deactivate, RollBack, OneKey
    <3>6. CASE DeleteCached(x) BY <3>6 DEF DeleteCached, OneKey
    <3>7. CASE InsertRotated(x) BY <3>7, <2>k DEF InsertRotated, RollBack, OneKey
    <3>8. CASE CacheNew(x) BY <3>8 DEF CacheNew, OneKey
    <3>9. CASE Query(x)
      <4>1. \/ HasKey /\ got' = [got EXCEPT ![x] = row.key] /\ pc' = [pc EXCEPT ![x] = "cached"]
            \/ pc' = [pc EXCEPT ![x] = "finishing"]
            \/ pc' = [pc EXCEPT ![x] = "creating"]
        BY <3>9 DEF Query, GetFails
      <4>2. row' = row /\ cache' = cache BY <3>9 DEF Query, keys
      <4> QED BY <4>1, <4>2 DEF HasKey, OneKey
    <3>10. CASE CacheHit(x) BY <3>10 DEF CacheHit, Got, keys, OneKey
    <3>11. CASE CacheMiss(x) BY <3>11 DEF CacheMiss, keys, OneKey
    <3>12. CASE Decrypt(x) BY <3>12 DEF Decrypt, GetFails, Got, OneKey
    <3>13. CASE x \in Jobs /\ Files(x)
      BY <3>13, FileSteps DEF Moves, keys, OneKey, Rewrapping
    <3> QED BY <3>1, <3>2, <3>3, <3>4, <3>5, <3>6, <3>7, <3>8, <3>9, <3>10, <3>11, <3>12, <3>13
            DEF Step, Files
  <2> QED BY <2>1, <2>2 DEF OneKey
<1>2. ASSUME NEW u \in Artifacts, Delete(u) PROVE OneKey'
  BY <1>2 DEF Delete, OneKey, keys
<1>3. ASSUME NEW j \in Jobs, CancelJob(j) PROVE OneKey'
  BY <1>3 DEF CancelJob, OneKey, keys
<1>4. CASE ExpireKey BY <1>4 DEF ExpireKey, OneKey
<1>5. CASE Crash
  <2>1. \A x \in Actors : pc'[x] \in Holding => pc'[x] = pc[x]
    BY <1>5 DEF Crash, Typed, Holding, Rewrapping, Creating, Getting, Rotating, AtWork
  <2> QED BY <1>5, <2>1 DEF Crash, OneKey
<1>6. CASE UNCHANGED vars BY <1>6 DEF vars, OneKey, keys
<1> QED BY <1>1, <1>2, <1>3, <1>4, <1>5, <1>6 DEF Next, Upload, Rotation, Process, Step, Actors

LEMMA OneKeyHolds == Spec => [](Typed /\ OneKey)
<1>1. Init => Typed /\ OneKey
  <2> SUFFICES ASSUME Init PROVE Typed /\ OneKey
    OBVIOUS
  <2>1. setup \in Setup BY KeyRotationAssumption DEF KeyRotationAssumption, Init
  <2>2. row \in KeyRow \cup {None} /\ (row # None => row.active)
    BY DEF Init, KeyRow
  <2>3. /\ pc \in [Actors -> {"new", "dead"}] /\ cache = None
        /\ got \in [Actors -> Actors \cup {OldKey, None}]
    BY DEF Init
  <2> QED BY <2>1, <2>2, <2>3 DEF Typed, OneKey, Holding, Rewrapping, Ended
<1>2. Typed /\ OneKey /\ [Next]_vars => (Typed /\ OneKey)'
  BY TypedSteps, OneKeySteps
<1> QED BY <1>1, <1>2, PTL DEF Spec

\* Every key at work is the stored one, for any number of uploads, rotations
\* and jobs: the cached one, what a request or a job is being given, and what a
\* job uses on its artifacts.
THEOREM KeysAreStored == Spec => []KeysInUseAreStored
<1>1. OneKey => KeysInUseAreStored
  BY DEF OneKey, KeysInUseAreStored
<1> QED BY <1>1, OneKeyHolds, PTL

\* However many rotations fail, the tenant keeps an active key; only one that
\* commits may put another in its place.
THEOREM KeysOutlive == Spec => KeyOutlivesRotations
<1> USE KeyRotationAssumption DEF KeyRotationAssumption
<1>1. ASSUME Typed, OneKey, [Next]_vars, row # None
      PROVE  row' # None /\ row'.key = row.key /\ row'.active
  <2>1. row' = row
    <3>1. ASSUME NEW x \in Actors, Step(x) PROVE row' = row
      BY <1>1, <3>1, OthersStay
    <3>2. ASSUME NEW u \in Artifacts, Delete(u) PROVE row' = row BY <3>2 DEF Delete, keys
    <3>3. ASSUME NEW j \in Jobs, CancelJob(j) PROVE row' = row BY <3>3 DEF CancelJob, keys
    <3>4. CASE ExpireKey BY <3>4 DEF ExpireKey
    <3>5. CASE Crash BY <3>5 DEF Crash
    <3>6. CASE UNCHANGED vars BY <3>6 DEF vars, keys
    <3> QED BY <1>1, <3>1, <3>2, <3>3, <3>4, <3>5, <3>6
            DEF Next, Upload, Rotation, Process, Step, Actors
  <2> QED BY <1>1, <2>1 DEF OneKey
<1> QED BY <1>1, OneKeyHolds, PTL DEF Spec, KeyOutlivesRotations

-----------------------------------------------------------------------------
(* Uploads that saw a key. *)

LEMMA SeenSteps == Typed /\ OneKey /\ SeenIsServed /\ [Next]_vars => SeenIsServed'
<1> USE KeyRotationAssumption DEF KeyRotationAssumption
<1> SUFFICES ASSUME Typed, OneKey, SeenIsServed, [Next]_vars PROVE SeenIsServed'
  OBVIOUS
<1>1. ASSUME NEW x \in Actors, Step(x) PROVE SeenIsServed'
  <2> USE <1>1
  <2>1. row # None => row' # None BY OthersStay
  <2>2. CASE x \notin Artifacts
    <3>1. \A u \in Artifacts : pc'[u] = pc[u] BY <2>2, OthersStay DEF Actors
    <3>2. begun' = begun /\ faulted \subseteq faulted'
      <4> USE <2>2 DEF NoFault, Fault
      <4>1. CASE BeginRotation(x) \/ Deactivate(x) \/ DeleteCached(x) \/ InsertRotated(x)
        BY <4>1 DEF BeginRotation, Deactivate, DeleteCached, InsertRotated
      <4>2. CASE CacheNew(x) BY <4>2 DEF CacheNew
      <4>3. CASE Query(x) \/ CacheHit(x) \/ CacheMiss(x) \/ Decrypt(x)
        BY <4>3 DEF Query, CacheHit, CacheMiss, Decrypt
      <4>4. CASE StartRewrapJob(x) BY <4>4 DEF StartRewrapJob
      <4>5. CASE FetchBatch(x) \/ ReadMeta(x) BY <4>5 DEF FetchBatch, ReadMeta
      <4>6. CASE Rewrap(x) \/ OpenTemp(x) BY <4>6 DEF Rewrap, OpenTemp
      <4>7. CASE WriteTemp(x) \/ Rename(x) \/ RemoveTemp(x) BY <4>7 DEF WriteTemp, Rename, RemoveTemp
      <4>8. CASE Finish(x) BY <4>8 DEF Finish
      <4> QED BY <4>1, <4>2, <4>3, <4>4, <4>5, <4>6, <4>7, <4>8 DEF Step
    <3> QED BY <2>1, <3>1, <3>2 DEF SeenIsServed
  <2>3. CASE x \in Artifacts
    <3> USE <2>3
    <3>0. \A u \in Artifacts \ {x} : pc'[u] = pc[u] BY OthersStay DEF Actors
    <3>1. /\ begun' = begun \/ (row # None /\ begun' = begun \cup {x})
          /\ faulted \subseteq faulted'
          /\ pc'[x] \in {"creating", "refused"} => x \notin begun' \/ x \in faulted'
      <4> USE DEF Typed, NoFault, Fault, Go, SeenIsServed
      <4>1. CASE Ask(x) BY <4>1 DEF Ask
      <4>2. CASE Create(x) BY <4>2 DEF Create
      <4>3. CASE Store(x) BY <4>3 DEF Store
      <4>4. CASE CacheNew(x) BY <4>4 DEF CacheNew
      <4>5. CASE Query(x)
        <5>1. HasKey <=> row # None BY DEF HasKey, OneKey
        <5>2. /\ begun' = IF row # None THEN begun \cup {x} ELSE begun
              /\ pc[x] = "query"
              /\ \/ HasKey /\ pc' = [pc EXCEPT ![x] = "cached"] /\ faulted' = faulted
                 \/ ~HasKey /\ pc' = [pc EXCEPT ![x] = "creating"] /\ faulted' = faulted
                 \/ faulted' = faulted \cup {x}
          BY <4>5 DEF Query, GetFails
        <5>3. ~HasKey => x \notin begun
          BY <5>1
        <5> QED BY <5>1, <5>2, <5>3
      <4>6. CASE CacheHit(x) BY <4>6 DEF CacheHit, Got
      <4>7. CASE CacheMiss(x) BY <4>7 DEF CacheMiss
      <4>8. CASE Decrypt(x) BY <4>8 DEF Decrypt, GetFails, Got
      <4> QED BY <4>1, <4>2, <4>3, <4>4, <4>5, <4>6, <4>7, <4>8 DEF Step
    <3> QED BY <2>1, <3>0, <3>1 DEF SeenIsServed
  <2> QED BY <2>2, <2>3
<1>2. ASSUME NEW u \in Artifacts, Delete(u) PROVE SeenIsServed'
  BY <1>2 DEF Delete, SeenIsServed, hist, keys
<1>3. ASSUME NEW j \in Jobs, CancelJob(j) PROVE SeenIsServed'
  BY <1>3 DEF CancelJob, SeenIsServed, hist, keys
<1>4. CASE ExpireKey BY <1>4 DEF ExpireKey, SeenIsServed, hist, keys
<1>5. CASE Crash
  <2>1. \A u \in Artifacts : pc'[u] \in {"creating", "refused"} => pc'[u] = pc[u]
    BY <1>5 DEF Crash, Typed, Actors
  <2> QED BY <1>5, <2>1 DEF Crash, SeenIsServed, hist, keys
<1>6. CASE UNCHANGED vars BY <1>6 DEF vars, SeenIsServed, hist, keys
<1> QED BY <1>1, <1>2, <1>3, <1>4, <1>5, <1>6 DEF Next, Upload, Rotation, Process, Step, Actors

\* Only uploads that asked before the tenant's first key was stored are refused
\* because of another's; the others meet a rotation without noticing.
THEOREM LateUploads == Spec => []LateUploadsAreServed
<1>1. Init => SeenIsServed
  BY DEF Init, SeenIsServed
<1>2. SeenIsServed => LateUploadsAreServed
  BY DEF SeenIsServed, LateUploadsAreServed
<1> QED BY <1>1, <1>2, SeenSteps, OneKeyHolds, PTL DEF Spec

-----------------------------------------------------------------------------
(* Files. *)

\* As long as no two jobs ran at once, the one that runs is the only one with a
\* file open, which is the temporary, and renames only what is written.
Alone ==
  crossed = {} =>
    /\ \A j, k \in Jobs : Running(j) /\ Running(k) => j = k
    /\ \A j \in Jobs : file[j] = IF pc[j] = "writing" THEN "temp" ELSE "none"
    /\ \A j \in Jobs : pc[j] = "renaming" =>
         \A a \in Artifacts : a = Current(j) => temp[a] # Part
    /\ \A a \in Artifacts : meta[a] # Part

FileTypes ==
  /\ meta \in [Artifacts -> Nat \cup {None}] /\ temp \in [Artifacts -> Nat \cup {None}]
  /\ file \in [Jobs -> {"none", "temp", "meta"}]

\* Steps that are not those of a job at its files leave them alone, and a job
\* but for its failure to get the key.
LEMMA FilesStay ==
  ASSUME Typed, NEW x \in Actors, Step(x), ~(x \in Jobs /\ Files(x))
  PROVE  /\ UNCHANGED <<files, crossed, stray>> /\ faulted \subseteq faulted'
         /\ \/ job' = job
            \/ x \in Jobs /\ job' = [job EXCEPT ![x].status = "failed"]
<1> USE DEF rest, files, NoFault, Fault
<1>1. CASE Ask(x) \/ Create(x) \/ Store(x) BY <1>1 DEF Ask, Create, Store
<1>2. CASE BeginRotation(x) \/ Deactivate(x) \/ DeleteCached(x) \/ InsertRotated(x)
  BY <1>2 DEF BeginRotation, Deactivate, DeleteCached, InsertRotated
<1>3. CASE CacheNew(x) BY <1>3 DEF CacheNew
<1>4. CASE Query(x) BY <1>4 DEF Query, GetFails
<1>5. CASE CacheHit(x) \/ CacheMiss(x) BY <1>5 DEF CacheHit, CacheMiss
<1>6. CASE Decrypt(x) BY <1>6 DEF Decrypt, GetFails
<1> QED BY <1>1, <1>2, <1>3, <1>4, <1>5, <1>6 DEF Step, Files

\* Only the start of a job makes one run, and a job is at its files only by its
\* own steps.
LEMMA RunningStays ==
  ASSUME Typed, OneKey, NEW x \in Actors, Step(x)
  PROVE  /\ \A j \in Jobs \ {x} : Running(j)' <=> Running(j)
         /\ ~(x \in Jobs /\ Files(x)) =>
              \A j \in Jobs : /\ Running(j)' => Running(j)
                              /\ pc'[j] \in {"writing", "renaming"} <=> pc[j] \in {"writing", "renaming"}
                              /\ pc[j] \in {"writing", "renaming"} => pc'[j] = pc[j]
<1> USE KeyRotationAssumption DEF KeyRotationAssumption, Actors
<1>1. \A j \in Jobs \ {x} : pc'[j] = pc[j] BY OthersStay
<1>2. ASSUME x \in Jobs, ~Files(x)
      PROVE  /\ Running(x)
             /\ pc[x] \notin {"writing", "renaming"} /\ pc'[x] \notin {"writing", "renaming"}
  <2> USE <1>2 DEF Running, Getting, Rewrapping, Go, Typed
  <2>1. CASE Query(x)
    <3>1. pc[x] = "query" /\ \E q \in {"cached", "finishing", "creating"} : pc' = [pc EXCEPT ![x] = q]
      BY <2>1 DEF Query, GetFails
    <3> QED BY <3>1
  <2>2. CASE CacheHit(x) BY <2>2 DEF CacheHit, Got
  <2>3. CASE CacheMiss(x) BY <2>3 DEF CacheMiss
  <2>4. CASE Decrypt(x) BY <2>4 DEF Decrypt, GetFails, Got
  <2> QED BY <2>1, <2>2, <2>3, <2>4 DEF Step, Files
<1>3. ASSUME NEW j \in Jobs, pc'[j] = pc[j] PROVE Running(j)' <=> Running(j)
  BY <1>3 DEF Running
<1> QED BY <1>1, <1>2, <1>3

\* A job at its files runs.
LEMMA RunsAtFiles ==
  ASSUME NEW j \in Jobs, Files(j)
  PROVE  StartRewrapJob(j) \/ Running(j)
<1> USE DEF Running, Rewrapping, Go
<1>1. CASE FetchBatch(j) BY <1>1 DEF FetchBatch, Fetched
<1>2. CASE ReadMeta(j) BY <1>2 DEF ReadMeta
<1>3. CASE Rewrap(j) BY <1>3 DEF Rewrap, Counted
<1>4. CASE OpenTemp(j) BY <1>4 DEF OpenTemp, Counted
<1>5. CASE WriteTemp(j) BY <1>5 DEF WriteTemp, Counted
<1>6. CASE Rename(j) BY <1>6 DEF Rename
<1>7. CASE RemoveTemp(j) BY <1>7 DEF RemoveTemp
<1>8. CASE Finish(j) BY <1>8 DEF Finish
<1> QED BY <1>1, <1>2, <1>3, <1>4, <1>5, <1>6, <1>7, <1>8 DEF Files

LEMMA FileTypeSteps ==
  ASSUME Typed, FileTypes, NEW j \in Jobs, Files(j) PROVE FileTypes'
<1> USE DEF FileTypes, files, rest
<1>1. CASE StartRewrapJob(j) BY <1>1 DEF StartRewrapJob
<1>2. CASE FetchBatch(j) BY <1>2 DEF FetchBatch
<1>3. CASE ReadMeta(j) BY <1>3 DEF ReadMeta
<1>4. CASE Rewrap(j) BY <1>4 DEF Rewrap
<1>5. CASE OpenTemp(j)
  <2>1. /\ meta' = meta
        /\ temp' = temp \/ temp' = [temp EXCEPT ![Current(j)] = Part]
        /\ file' = file \/ file' = [file EXCEPT ![j] = "temp"]
    BY <1>5 DEF OpenTemp
  <2> HIDE DEF Current
  <2> QED BY <2>1 DEF Part
<1>6. CASE WriteTemp(j)
  <2>1. setup.new[j] \in Nat BY DEF Typed, Setup
  <2>2. /\ \/ temp' = temp
           \/ temp' = [temp EXCEPT ![Current(j)] = setup.new[j]]
        /\ \/ meta' = meta
           \/ meta' = [meta EXCEPT ![Current(j)] = setup.new[j]]
        /\ file' = [file EXCEPT ![j] = "none"]
    BY <1>6 DEF WriteTemp
  <2> QED BY <2>1, <2>2
<1>7. CASE Rename(j)
  <2>1. Follow(Current(j), "meta") \in [Jobs -> {"none", "temp", "meta"}] BY DEF Follow
  <2> QED BY <1>7, <2>1 DEF Rename
<1>8. CASE RemoveTemp(j)
  <2>1. Follow(Current(j), "none") \in [Jobs -> {"none", "temp", "meta"}] BY DEF Follow
  <2> QED BY <1>8, <2>1 DEF RemoveTemp
<1>9. CASE Finish(j) BY <1>9 DEF Finish
<1> QED BY <1>1, <1>2, <1>3, <1>4, <1>5, <1>6, <1>7, <1>8, <1>9 DEF Files

LEMMA AloneFiles ==
  ASSUME Typed, OneKey, FileTypes, Alone, NEW j \in Jobs, Files(j) PROVE Alone'
<1> USE KeyRotationAssumption DEF KeyRotationAssumption
<1> SUFFICES ASSUME crossed' = {}
             PROVE  /\ \A i, k \in Jobs : Running(i)' /\ Running(k)' => i = k
                    /\ \A k \in Jobs : file'[k] = IF pc'[k] = "writing" THEN "temp" ELSE "none"
                    /\ \A k \in Jobs : pc'[k] = "renaming" =>
                         \A a \in Artifacts : a = Current(k)' => temp'[a] # Part
                    /\ \A a \in Artifacts : meta'[a] # Part
  BY DEF Alone
<1>s. j \in Actors /\ Step(j) BY DEF Step, Files, Actors
<1>o. \A k \in Jobs \ {j} : pc'[k] = pc[k] /\ (Running(k)' <=> Running(k))
  BY <1>s, OthersStay, RunningStays DEF Actors
<1>1. crossed = {} BY DEF Files, StartRewrapJob, FetchBatch, ReadMeta, Rewrap, OpenTemp, WriteTemp,
                          Rename, RemoveTemp, Finish, rest
\* No other job runs, nor did.
<1>2. \A k \in Jobs \ {j} : ~Running(k)
  <2>1. CASE StartRewrapJob(j)
    <3>1. \A k \in Jobs \ {j} : Running(k) => <<j, k>> \in crossed'
      BY <2>1 DEF StartRewrapJob
    <3> QED BY <3>1
  <2>2. CASE Running(j) BY <1>1, <2>2 DEF Alone
  <2>3. StartRewrapJob(j) \/ Running(j) BY RunsAtFiles
  <2> QED BY <2>1, <2>2, <2>3
<1>3. \A k \in Jobs \ {j} : pc'[k] \notin {"writing", "renaming"} /\ file[k] = "none"
  BY <1>1, <1>2, <1>o DEF Running, Rewrapping, Alone
<1>4. /\ \A k \in Jobs \ {j} : file'[k] = "none"
      /\ file'[j] = IF pc'[j] = "writing" THEN "temp" ELSE "none"
      /\ pc'[j] = "renaming" => \A a \in Artifacts : a = Current(j)' => temp'[a] # Part
      /\ \A a \in Artifacts : meta'[a] # Part
  <2> USE DEF Typed, FileTypes, Go
  <2>a. /\ file[j] = IF pc[j] = "writing" THEN "temp" ELSE "none"
        /\ pc[j] = "renaming" => \A a \in Artifacts : a = Current(j) => temp[a] # Part
        /\ \A a \in Artifacts : meta[a] # Part
    BY <1>1 DEF Alone
  <2>1. ASSUME UNCHANGED files, pc[j] # "writing", pc'[j] \notin {"writing", "renaming"}
        PROVE  /\ \A k \in Jobs \ {j} : file'[k] = "none"
               /\ file'[j] = IF pc'[j] = "writing" THEN "temp" ELSE "none"
               /\ pc'[j] = "renaming" => \A a \in Artifacts : a = Current(j)' => temp'[a] # Part
               /\ \A a \in Artifacts : meta'[a] # Part
    BY <2>1, <2>a, <1>3 DEF files
  <2>2. CASE StartRewrapJob(j) BY <2>1, <2>2 DEF StartRewrapJob
  <2>3. CASE FetchBatch(j) BY <2>1, <2>3 DEF FetchBatch, Fetched, rest
  <2>4. CASE ReadMeta(j) BY <2>1, <2>4 DEF ReadMeta, Counted, rest
  <2>5. CASE Rewrap(j) BY <2>1, <2>5 DEF Rewrap, Counted, rest
  <2>6. CASE Finish(j) BY <2>1, <2>6 DEF Finish, rest
  <2>7. CASE OpenTemp(j)
    <3>1. CASE Counted(j, "opening", FALSE) /\ UNCHANGED files
      BY <2>1, <3>1 DEF Counted
    <3>2. CASE ~(Counted(j, "opening", FALSE) /\ UNCHANGED files)
      BY <2>7, <3>2, <2>a, <1>3, <1>s DEF OpenTemp, files
    <3> QED BY <3>1, <3>2
  <2>8. CASE WriteTemp(j)
    <3>1. setup.new[j] \in Nat \ {0} BY DEF Typed, Setup
    <3>2. pc[j] = "writing" /\ file[j] = "temp"
      BY <2>8, <2>a DEF WriteTemp, Counted
    <3>3. meta' = meta /\ file' = [file EXCEPT ![j] = "none"]
      BY <2>8, <3>2 DEF WriteTemp
    <3>4. \/ pc' = [pc EXCEPT ![j] = "renaming"] /\ job' = job
             /\ temp' = [temp EXCEPT ![Current(j)] = setup.new[j]]
          \/ pc' = [pc EXCEPT ![j] = "fetching"]
          \/ pc' = [pc EXCEPT ![j] = "reading"]
      BY <2>8, <3>2 DEF WriteTemp, Counted
    <3>5. job' = job => Current(j)' = Current(j) BY DEF Current
    <3> QED BY <3>1, <3>2, <3>3, <3>4, <3>5, <2>a, <1>3, <1>s DEF Part
  <2>9. CASE Rename(j) \/ RemoveTemp(j)
    <3>1. pc[j] \in {"renaming", "removing"} /\ pc'[j] \in {"fetching", "reading", "removing"}
      BY <2>9, <1>s DEF Rename, RemoveTemp, Counted
    <3>2. file' = file \/ \E then \in {"meta", "none"} : file' = Follow(Current(j), then)
      BY <2>9 DEF Rename, RemoveTemp, files
    <3>3. \A then \in {"meta", "none"}, k \in Jobs :
            file[k] = "none" => Follow(Current(j), then)[k] = "none"
      BY DEF Follow
    <3>4. \/ meta' = meta
          \/ pc[j] = "renaming" /\ meta' = [meta EXCEPT ![Current(j)] = temp[Current(j)]]
      BY <2>9 DEF Rename, RemoveTemp, files
    <3> QED BY <3>1, <3>2, <3>3, <3>4, <2>a, <1>3
  <2> QED BY <2>2, <2>3, <2>4, <2>5, <2>6, <2>7, <2>8, <2>9 DEF Files
<1> QED BY <1>2, <1>3, <1>4, <1>o

LEMMA AloneSteps ==
  Typed /\ OneKey /\ FileTypes /\ Alone /\ [Next]_vars => FileTypes' /\ Alone'
<1> USE KeyRotationAssumption DEF KeyRotationAssumption
<1> SUFFICES ASSUME Typed, OneKey, FileTypes, Alone, [Next]_vars PROVE FileTypes' /\ Alone'
  OBVIOUS
<1>1. ASSUME NEW j \in Jobs, Files(j) PROVE FileTypes' /\ Alone'
  BY <1>1, FileTypeSteps, AloneFiles
\* A step that leaves the files and makes no job run is as good as none.
<1>2. ASSUME UNCHANGED <<files, crossed>>,
             \A j \in Jobs : /\ Running(j)' => Running(j)
                             /\ pc'[j] = "writing" <=> pc[j] = "writing"
                             /\ pc'[j] = "renaming" => pc[j] = "renaming" /\ Current(j)' = Current(j)
      PROVE FileTypes' /\ Alone'
  BY <1>2 DEF files, FileTypes, Alone
<1>3. ASSUME NEW x \in Actors, Step(x), ~(x \in Jobs /\ Files(x)) PROVE FileTypes' /\ Alone'
  <2>1. UNCHANGED <<files, crossed>> BY <1>3, FilesStay
  <2>2. \A j \in Jobs : Current(j)' = Current(j)
    <3>1. job' = job \/ (x \in Jobs /\ job' = [job EXCEPT ![x].status = "failed"])
      BY <1>3, FilesStay
    <3>2. ASSUME NEW j \in Jobs PROVE job'[j].batch = job[j].batch
      <4>1. CASE job' = job BY <4>1
      <4>2. CASE job' = [job EXCEPT ![x].status = "failed"] BY <4>2
      <4> QED BY <3>1, <4>1, <4>2
    <3> QED BY <3>2 DEF Current
  <2>3. \A j \in Jobs : /\ Running(j)' => Running(j)
                        /\ pc'[j] = "writing" <=> pc[j] = "writing"
                        /\ pc'[j] = "renaming" => pc[j] = "renaming"
    BY <1>3, RunningStays
  <2> QED BY <1>2, <2>1, <2>2, <2>3
<1>4. ASSUME NEW u \in Artifacts, Delete(u) PROVE FileTypes' /\ Alone'
  <2>1. UNCHANGED <<files, job, pc, crossed>> BY <1>4 DEF Delete, hist
  <2> QED BY <1>2, <2>1 DEF Running, Current
<1>5. ASSUME NEW i \in Jobs, CancelJob(i) PROVE FileTypes' /\ Alone'
  <2>1. UNCHANGED <<files, pc, crossed>> BY <1>5 DEF CancelJob, hist
  <2>3. \A j \in Jobs : job'[j].batch = job[j].batch
    BY <1>5 DEF CancelJob
  <2>4. \A j \in Jobs : Current(j)' = Current(j) BY <2>3 DEF Current
  <2> QED BY <1>2, <2>1, <2>4 DEF Running
<1>6. CASE ExpireKey
  <2>1. UNCHANGED <<files, job, pc, crossed>> BY <1>6 DEF ExpireKey, hist
  <2> QED BY <1>2, <2>1 DEF Running, Current
<1>7. CASE Crash
  <2>1. \A j \in Jobs : ~Running(j)' /\ pc'[j] \notin {"writing", "renaming"} /\ file'[j] = "none"
    <3>1. /\ pc' = [x \in Actors |-> IF pc[x] \in AtWork THEN "dead" ELSE pc[x]]
          /\ file' = [j \in Jobs |-> "none"]
      BY <1>7 DEF Crash
    <3>2. \A j \in Jobs : pc'[j] \notin Getting \cup Rewrapping
      BY <3>1 DEF AtWork, Actors, Getting, Rewrapping
    <3> QED BY <3>1, <3>2 DEF Running, Rewrapping
  <2>2. file' \in [Jobs -> {"none", "temp", "meta"}] /\ UNCHANGED <<meta, temp, crossed>>
    BY <1>7 DEF Crash, hist
  <2> QED BY <2>1, <2>2 DEF FileTypes, Alone
<1>8. CASE UNCHANGED vars
  <2>1. UNCHANGED <<files, job, pc, crossed>> BY <1>8 DEF vars, hist
  <2> QED BY <1>2, <2>1 DEF Running, Current
<1> QED BY <1>1, <1>3, <1>4, <1>5, <1>6, <1>7, <1>8
        DEF Next, Upload, Rotation, Process, Step, Files, Actors

\* A meta.json is never half there, whatever write fails and wherever a crash
\* comes, unless two jobs for the tenant ran at once.
THEOREM MetaStaysWhole == Spec => []MetaIsWhole
<1>1. Init => FileTypes /\ Alone
  BY KeyRotationAssumption
  DEF KeyRotationAssumption, Init, FileTypes, Alone, Running, Getting, Rewrapping, Part, Actors
<1>2. Alone => MetaIsWhole
  BY DEF Alone, MetaIsWhole
<1> QED BY <1>1, <1>2, AloneSteps, OneKeyHolds, PTL DEF Spec

-----------------------------------------------------------------------------
(* What a completed job has done.  Every artifact it counted as a success   *)
(* is one it had counted before it began, no two successes are of the same  *)
(* one, and whoever rewrites such a file writes no lower version.           *)

Rewriting(k) == pc[k] \in {"unwrapping", "opening", "writing", "renaming", "removing"}

JobState ==
  /\ job \in [Jobs -> JobRecords]
  /\ stored \in SUBSET Artifacts
  /\ crossed \in SUBSET (Jobs \X Jobs)

Batches ==
  \A j \in Jobs :
    /\ pc[j] = "reading" \/ Rewriting(j) => job[j].batch # {}
    /\ \A a \in job[j].batch : a > job[j].last
    /\ Running(j) => (stored \cup job[j].batch) \cap setup.metas \subseteq job[j].counted
    /\ job[j].status = "completed" =>
         pc[j] = "done" /\ job[j].success = Cardinality(job[j].counted)

\* A meta.json is one the run began with, and no upload has such an id.
MetaOrigin ==
  /\ \A u \in Artifacts : pc[u] # "dead" => u \notin setup.metas
  /\ \A a \in Artifacts : meta[a] # None => a \in setup.metas
  /\ \A k \in Jobs : Rewriting(k) => meta[Current(k)] # None

CrossedAtOnce ==
  \A j, k \in Jobs : Running(j) /\ Running(k) /\ j # k => <<j, k>> \in crossed

\* A job has a file open only while it writes.
OpenInv == \A k \in Jobs : file[k] # "none" => pc[k] = "writing"

\* k has the temporary of a open.
Open(k, a) == file[k] = "temp" /\ job[k].batch # {} /\ Current(k) = a

\* k comes no more to a.
Passed(k, a) == pc[k] # "new" /\ (Running(k) => job[k].last >= a)

\* k goes on to rename whatever the temporary of a is by then.
Late(k, a) ==
  Current(k) = a /\ (pc[k] = "renaming" \/ (pc[k] = "writing" /\ file[k] # "temp"))

\* Half a temporary that a job is to rename is another's, which has yet to
\* write it or failed to.
HalfOwned ==
  \A k \in Jobs, a \in Artifacts : Late(k, a) /\ temp[a] = Part =>
    \E i \in Jobs : Open(i, a) \/ (i \in faulted /\ Passed(i, a))

\* A whole temporary that a job is to rename was written by a job that has not
\* renamed it yet or will not: one left by a crash was truncated.
TempOwned ==
  \A k \in Jobs, a \in Artifacts :
    pc[k] \in {"writing", "renaming"} /\ Current(k) = a /\ temp[a] \notin {None, Part} =>
      \E i \in Jobs :
        /\ temp[a] = setup.new[i]
        /\ i \in stray \/ (pc[i] \in {"renaming", "removing"} /\ Current(i) = a)

\* The meta.json of a is of the version of job j, or half another's.
Covered(j, a) ==
  \/ meta[a] \notin {None, Part} /\ meta[a] >= setup.new[j]
  \/ meta[a] = Part /\ \E i \in Jobs \ {j} : Halves(i, a)

\* Whoever rewrites it writes no lower version,
Guarded(j, a) ==
  \A k \in Jobs : Rewriting(k) /\ Current(k) = a => setup.new[k] >= setup.new[j]

\* and whoever renames half a file to it renames another's.
Screened(j, a) ==
  \A k \in Jobs : Late(k, a) /\ temp[a] = Part =>
    \E i \in Jobs \ {j} : Open(i, a) \/ i \in faulted

Secured(j, a) == Covered(j, a) /\ Guarded(j, a) /\ Screened(j, a)

\* S is the set of the artifacts that job j counted as successes.
Met(j, S) ==
  /\ Cardinality(S) = job[j].success
  /\ \A a \in S : a <= job[j].last /\ Secured(j, a)

\* A job whose outcome is open or was a success.
Counts(j) == Running(j) \/ job[j].status = "completed"

MetCounted ==
  \A j \in Jobs : Counts(j) /\ Unchallenged(j) => \E S \in SUBSET job[j].counted : Met(j, S)

JobInv == /\ JobState /\ Batches /\ MetaOrigin /\ CrossedAtOnce /\ OpenInv
          /\ HalfOwned /\ TempOwned /\ MetCounted

\* A set of numbers that has a member has a least one.
LEMMA LeastMember ==
  ASSUME NEW T \in SUBSET Nat, T # {}
  PROVE  \E m \in T : \A n \in T : m <= n
<1>1. IsWellFoundedOn(OpToRel(<, Nat), Nat)
  BY NatLessThanWellFounded, Zenon
<1>2. \E m \in T : \A n \in T : ~ (<<n, m>> \in OpToRel(<, Nat))
  BY <1>1, WFMin, Zenon
<1>3. \A m, n \in Nat : <<n, m>> \in OpToRel(<, Nat) <=> n < m
  BY Zenon DEF OpToRel
<1>4. \E m \in T : \A n \in T : ~ (n < m)
  BY <1>2, <1>3, Zenon
<1> QED BY <1>4, SMT

\* The artifact a job is at is the first of its batch.
LEMMA CurrentIsFirst ==
  ASSUME JobState, NEW j \in Jobs, job[j].batch # {}
  PROVE  /\ Current(j) \in job[j].batch /\ Current(j) \in Artifacts
         /\ \A b \in job[j].batch : Current(j) <= b
<1> USE KeyRotationAssumption DEF KeyRotationAssumption
<1>1. job[j].batch \in SUBSET Artifacts BY DEF JobState, JobRecords
<1>2. \E m \in job[j].batch : \A b \in job[j].batch : m <= b
  BY <1>1, LeastMember
<1> QED BY <1>1, <1>2 DEF Current, First

LEMMA SceneStays ==
  ASSUME Typed, [Next]_vars
  PROVE  UNCHANGED <<setup.new, setup.metas, setup.active>>
BY SetupSteps DEF Spend, Typed, Setup

\* A step of an actor that is no job at its files.
LEMMA OtherSteps ==
  ASSUME Typed, OneKey, NEW x \in Actors, Step(x), ~(x \in Jobs /\ Files(x))
  PROVE  /\ \A j \in Jobs : \/ pc'[j] = pc[j]
                            \/ /\ Running(j) /\ pc[j] # "reading" /\ ~Rewriting(j)
                               /\ pc'[j] \notin {"reading", "done", "new"} /\ ~Rewriting(j)'
         /\ \A u \in Artifacts : pc'[u] # "dead" => pc[u] # "dead"
         /\ \/ stored' = stored
            \/ x \in Artifacts /\ pc[x] # "dead" /\ stored' = stored \cup {x}
<1> USE KeyRotationAssumption DEF KeyRotationAssumption, Actors
<1>1. \A y \in Actors \ {x} : pc'[y] = pc[y] BY OthersStay
<1>2. ASSUME x \in Jobs
      PROVE  /\ Running(x) /\ pc[x] # "reading" /\ ~Rewriting(x)
             /\ pc'[x] \notin {"reading", "done", "new"} /\ ~Rewriting(x)'
  <2> USE <1>2 DEF Running, Rewriting, Getting, Rewrapping, Go, Typed
  <2>1. CASE Query(x)
    <3>1. pc[x] = "query" /\ \E q \in {"cached", "finishing", "creating"} : pc' = [pc EXCEPT ![x] = q]
      BY <2>1 DEF Query, GetFails
    <3> QED BY <3>1
  <2>2. CASE CacheHit(x) BY <2>2 DEF CacheHit, Got
  <2>3. CASE CacheMiss(x) BY <2>3 DEF CacheMiss
  <2>4. CASE Decrypt(x) BY <2>4 DEF Decrypt, GetFails, Got
  <2> QED BY <2>1, <2>2, <2>3, <2>4 DEF Step, Files
<1>3. /\ pc[x] # "dead"
      /\ \/ stored' = stored
         \/ x \in Artifacts /\ stored' = stored \cup {x}
  <2> USE DEF Go, rest
  <2>1. CASE x \in Artifacts /\ (Ask(x) \/ Create(x)) BY <2>1 DEF Ask, Create
  <2>2. CASE x \in Artifacts /\ Store(x) BY <2>2 DEF Store
  <2>3. CASE BeginRotation(x) BY <2>3 DEF BeginRotation
  <2>4. CASE Deactivate(x) BY <2>4 DEF Deactivate, RollBack
  <2>5. CASE DeleteCached(x) BY <2>5 DEF DeleteCached
  <2>6. CASE InsertRotated(x) BY <2>6 DEF InsertRotated, RollBack
  <2>7. CASE CacheNew(x) BY <2>7 DEF CacheNew
  <2>8. CASE Query(x) BY <2>8 DEF Query, GetFails
  <2>9. CASE CacheHit(x) \/ CacheMiss(x) BY <2>9 DEF CacheHit, CacheMiss
  <2>10. CASE Decrypt(x) BY <2>10 DEF Decrypt, GetFails
  <2> QED BY <2>1, <2>2, <2>3, <2>4, <2>5, <2>6, <2>7, <2>8, <2>9, <2>10 DEF Step, Files
<1> QED BY <1>1, <1>2, <1>3

\* rewrapArtifact is back, and the batch goes on or is through.
LEMMA CountedStep ==
  ASSUME Typed, JobState, Batches, NEW j \in Jobs, NEW from, NEW good \in BOOLEAN,
         Counted(j, from, good), pc[j] = "reading" \/ Rewriting(j)
  PROVE  /\ Current(j) \in job[j].batch
         /\ job' \in [Jobs -> JobRecords]
         /\ \A k \in Jobs \ {j} : job'[k] = job[k]
         /\ job'[j].batch = job[j].batch \ {Current(j)}
         /\ job'[j].last = Current(j)
         /\ job'[j].success = IF good THEN job[j].success + 1 ELSE job[j].success
         /\ job'[j].counted = job[j].counted /\ job'[j].status = job[j].status
         /\ pc'[j] = IF job[j].batch = {Current(j)} THEN "fetching" ELSE "reading"
         /\ \A a \in job'[j].batch : a > Current(j)
<1> USE KeyRotationAssumption DEF KeyRotationAssumption
<1>1. job[j].batch # {} BY DEF Batches
<1>2. /\ Current(j) \in job[j].batch /\ Current(j) \in Nat
      /\ \A b \in job[j].batch : Current(j) <= b
  BY <1>1, CurrentIsFirst
<1>3. job[j].batch \in SUBSET Artifacts /\ job[j].success \in Nat
  BY DEF JobState, JobRecords
<1>4. (IF good THEN job[j].success + 1 ELSE job[j].success) \in Nat
  BY <1>3
<1>5. job' = [job EXCEPT ![j].batch = job[j].batch \ {Current(j)}, ![j].last = Current(j),
                ![j].success = IF good THEN job[j].success + 1 ELSE job[j].success]
  BY DEF Counted, JobState
<1>6. /\ job' \in [Jobs -> JobRecords]
      /\ \A k \in Jobs \ {j} : job'[k] = job[k]
      /\ job'[j].batch = job[j].batch \ {Current(j)}
      /\ job'[j].last = Current(j)
      /\ job'[j].success = IF good THEN job[j].success + 1 ELSE job[j].success
      /\ job'[j].counted = job[j].counted /\ job'[j].status = job[j].status
  <2> DEFINE m == IF good THEN job[j].success + 1 ELSE job[j].success
  <2>1. m \in Nat BY <1>4
  <2>2. job' = [job EXCEPT ![j].batch = job[j].batch \ {Current(j)}, ![j].last = Current(j),
                ![j].success = m]
    BY <1>5
  <2> HIDE DEF m
  <2>3. job[j].batch \ {Current(j)} \in SUBSET Artifacts BY <1>3
  <2>4. /\ job' \in [Jobs -> JobRecords]
        /\ \A k \in Jobs \ {j} : job'[k] = job[k]
        /\ job'[j].batch = job[j].batch \ {Current(j)}
        /\ job'[j].last = Current(j)
        /\ job'[j].success = m
        /\ job'[j].counted = job[j].counted /\ job'[j].status = job[j].status
    BY <1>2, <2>1, <2>2, <2>3 DEF JobState, JobRecords
  <2> QED BY <2>4 DEF m
<1>7. pc'[j] = IF job[j].batch = {Current(j)} THEN "fetching" ELSE "reading"
  BY DEF Counted, Go, Typed, Actors
<1>8. ASSUME NEW a \in job'[j].batch PROVE a > Current(j)
  <2>1. a \in job[j].batch /\ a # Current(j) BY <1>6, <1>8
  <2>2. a \in Nat /\ Current(j) <= a BY <1>2, <1>3, <2>1
  <2> HIDE DEF Current
  <2> QED BY <1>2, <2>1, <2>2
<1> QED BY <1>2, <1>6, <1>7, <1>8

\* A step of a job at its files leaves the other jobs and the rows alone.
LEMMA JobFrame ==
  ASSUME Typed, OneKey, JobState, Batches, NEW j \in Jobs, Files(j)
  PROVE  /\ JobState' /\ stored' = stored
         /\ crossed \subseteq crossed' /\ (StartRewrapJob(j) \/ crossed' = crossed)
         /\ \A k \in Jobs \ {j} : job'[k] = job[k] /\ pc'[k] = pc[k]
         /\ \A u \in Artifacts : pc'[u] = pc[u]
<1> USE KeyRotationAssumption DEF KeyRotationAssumption
<1>1. \A y \in Actors \ {j} : pc'[y] = pc[y]
  BY OthersStay DEF Step, Files, Actors
<1>2. /\ job' \in [Jobs -> JobRecords]
      /\ \A k \in Jobs \ {j} : job'[k] = job[k]
      /\ stored' = stored
      /\ StartRewrapJob(j) \/ crossed' = crossed
  <2> USE DEF rest, Go
  <2>0. CASE StartRewrapJob(j)
    BY <2>0 DEF StartRewrapJob, JobState, JobRecords
  <2>2. CASE FetchBatch(j)
    <3>1. PICK batch \in SUBSET Upcoming(j) : Fetched(j, batch) BY <2>2 DEF FetchBatch
    <3>2. batch \in SUBSET Artifacts BY DEF Upcoming, later, JobState
    <3>3. job' = [job EXCEPT ![j].batch = batch] BY <3>1 DEF Fetched
    <3>4. stored' = stored /\ crossed' = crossed BY <2>2 DEF FetchBatch
    <3> QED BY <3>2, <3>3, <3>4 DEF JobState, JobRecords
  <2>3. CASE ReadMeta(j)
    <3>1. pc[j] = "reading" /\ stored' = stored /\ crossed' = crossed BY <2>3 DEF ReadMeta
    <3>2. job' = job \/ Counted(j, "reading", TRUE) \/ Counted(j, "reading", FALSE)
      BY <2>3 DEF ReadMeta
    <3> QED BY <3>1, <3>2, CountedStep DEF JobState
  <2>4. CASE Rewrap(j)
    <3>1. stored' = stored /\ crossed' = crossed BY <2>4 DEF Rewrap
    <3>2. job' = job \/ (Counted(j, "unwrapping", FALSE) /\ Rewriting(j))
      BY <2>4 DEF Rewrap, Rewriting, Counted
    <3> QED BY <3>1, <3>2, CountedStep DEF JobState
  <2>5. CASE OpenTemp(j)
    <3>1. stored' = stored /\ crossed' = crossed BY <2>5 DEF OpenTemp
    <3>2. job' = job \/ (Counted(j, "opening", FALSE) /\ Rewriting(j))
      BY <2>5 DEF OpenTemp, Rewriting, Counted
    <3> QED BY <3>1, <3>2, CountedStep DEF JobState
  <2>6. CASE WriteTemp(j)
    <3>1. stored' = stored /\ crossed' = crossed BY <2>6 DEF WriteTemp
    <3>2. job' = job \/ (Counted(j, "writing", FALSE) /\ Rewriting(j))
      BY <2>6 DEF WriteTemp, Rewriting, Counted
    <3> QED BY <3>1, <3>2, CountedStep DEF JobState
  <2>7. CASE Rename(j)
    <3>1. stored' = stored /\ crossed' = crossed /\ Rewriting(j) BY <2>7 DEF Rename, Rewriting
    <3>2. job' = job \/ Counted(j, "renaming", TRUE)
      BY <2>7 DEF Rename
    <3> QED BY <3>1, <3>2, CountedStep DEF JobState
  <2>8. CASE RemoveTemp(j)
    <3>1. stored' = stored /\ crossed' = crossed /\ Rewriting(j) BY <2>8 DEF RemoveTemp, Rewriting
    <3>2. Counted(j, "removing", FALSE)
      BY <2>8 DEF RemoveTemp
    <3> QED BY <3>1, <3>2, CountedStep
  <2>9. CASE Finish(j) BY <2>9 DEF Finish, JobState, JobRecords
  <2> QED BY <2>0, <2>2, <2>3, <2>4, <2>5, <2>6, <2>7, <2>8, <2>9 DEF Files
<1>3. crossed \subseteq crossed' /\ crossed' \in SUBSET (Jobs \X Jobs)
  <2>1. CASE crossed' = crossed BY <2>1 DEF JobState
  <2>2. CASE StartRewrapJob(j) BY <2>2 DEF StartRewrapJob, JobState
  <2> QED BY <1>2, <2>1, <2>2
<1> QED BY <1>1, <1>2, <1>3 DEF JobState, Actors

\* What a job's step does to its own place.
LEMMA BatchesKept ==
  ASSUME Typed, OneKey, JobState, Batches, MetaOrigin, NEW j \in Jobs, Files(j),
         UNCHANGED <<setup.new, setup.metas, setup.active>>
  PROVE  Batches'
<1> USE KeyRotationAssumption DEF KeyRotationAssumption
<1>1. ASSUME NEW k \in Jobs \ {j}
      PROVE  /\ pc'[k] = "reading" \/ Rewriting(k)' => job'[k].batch # {}
             /\ \A a \in job'[k].batch : a > job'[k].last
             /\ Running(k)' => (stored' \cup job'[k].batch) \cap setup'.metas \subseteq job'[k].counted
             /\ job'[k].status = "completed" =>
                  pc'[k] = "done" /\ job'[k].success = Cardinality(job'[k].counted)
  <2>1. job'[k] = job[k] /\ pc'[k] = pc[k] /\ stored' = stored BY JobFrame
  <2> QED BY <2>1 DEF Batches, Rewriting, Running
<1>2. /\ pc'[j] = "reading" \/ Rewriting(j)' => job'[j].batch # {}
      /\ \A a \in job'[j].batch : a > job'[j].last
      /\ Running(j)' => (stored' \cup job'[j].batch) \cap setup'.metas \subseteq job'[j].counted
      /\ job'[j].status = "completed" =>
           pc'[j] = "done" /\ job'[j].success = Cardinality(job'[j].counted)
  <2>a. /\ pc[j] = "reading" \/ Rewriting(j) => job[j].batch # {}
        /\ \A a \in job[j].batch : a > job[j].last
        /\ Running(j) => (stored \cup job[j].batch) \cap setup.metas \subseteq job[j].counted
        /\ job[j].status = "completed" => pc[j] = "done"
    BY DEF Batches
  <2>b. stored' = stored /\ setup'.metas = setup.metas BY JobFrame
  <2>c. ASSUME Rewriting(j) \/ pc[j] = "reading", NEW from, NEW good \in BOOLEAN, Counted(j, from, good)
        PROVE  /\ pc'[j] = "reading" \/ Rewriting(j)' => job'[j].batch # {}
               /\ \A a \in job'[j].batch : a > job'[j].last
               /\ Running(j)' => (stored' \cup job'[j].batch) \cap setup'.metas \subseteq job'[j].counted
               /\ job'[j].status = "completed" =>
                    pc'[j] = "done" /\ job'[j].success = Cardinality(job'[j].counted)
    <3>1. /\ job'[j].batch = job[j].batch \ {Current(j)}
          /\ job'[j].last = Current(j) /\ job'[j].counted = job[j].counted
          /\ job'[j].status = job[j].status
          /\ pc'[j] = IF job[j].batch = {Current(j)} THEN "fetching" ELSE "reading"
          /\ \A a \in job'[j].batch : a > Current(j)
      BY <2>c, CountedStep
    <3>2. Running(j) /\ pc[j] # "done" BY <2>c DEF Running, Rewriting, Rewrapping
    <3>3. pc'[j] = "reading" => job'[j].batch # {} BY <3>1, <2>a, <2>c
    <3>4. ~Rewriting(j)' BY <3>1 DEF Rewriting
    <3> HIDE DEF Current
    <3> QED BY <3>1, <3>2, <3>3, <3>4, <2>a, <2>b
  <2>d. ASSUME job' = job, Running(j), pc[j] # "done",
               Rewriting(j)' => Rewriting(j) \/ pc[j] = "reading", pc'[j] # "reading"
        PROVE  /\ pc'[j] = "reading" \/ Rewriting(j)' => job'[j].batch # {}
               /\ \A a \in job'[j].batch : a > job'[j].last
               /\ Running(j)' => (stored' \cup job'[j].batch) \cap setup'.metas \subseteq job'[j].counted
               /\ job'[j].status = "completed" =>
                    pc'[j] = "done" /\ job'[j].success = Cardinality(job'[j].counted)
    BY <2>a, <2>b, <2>d
  <2> USE DEF Go, Typed, Actors
  <2>1. CASE StartRewrapJob(j)
    BY <2>1, <2>b DEF StartRewrapJob, Rewriting, JobState
  <2>2. CASE FetchBatch(j)
    <3>1. PICK batch \in SUBSET Upcoming(j) : Fetched(j, batch) BY <2>2 DEF FetchBatch
    <3>2. /\ pc[j] = "fetching" /\ pc'[j] = IF batch = {} THEN "finishing" ELSE "reading"
          /\ job'[j].batch = batch /\ job'[j].last = job[j].last
          /\ job'[j].counted = job[j].counted /\ job'[j].status = job[j].status
      BY <3>1 DEF Fetched, JobState
    <3>3. \A a \in batch : a \in stored /\ a > job[j].last BY DEF Upcoming, later
    <3>4. Running(j) /\ ~Rewriting(j)' BY <3>2 DEF Running, Rewrapping, Rewriting
    <3> QED BY <2>a, <2>b, <3>2, <3>3, <3>4
  <2>3. CASE ReadMeta(j)
    <3>0. pc[j] = "reading" BY <2>3 DEF ReadMeta
    <3>1. \/ Counted(j, "reading", TRUE) \/ Counted(j, "reading", FALSE)
          \/ job' = job /\ pc'[j] = "unwrapping"
      BY <2>3 DEF ReadMeta
    <3> QED BY <3>0, <3>1, <2>c, <2>d DEF Running, Rewrapping
  <2>4. CASE Rewrap(j)
    <3>0. pc[j] = "unwrapping" BY <2>4 DEF Rewrap, Counted
    <3>1. Counted(j, "unwrapping", FALSE) \/ (job' = job /\ pc'[j] = "opening")
      BY <2>4 DEF Rewrap
    <3> QED BY <3>0, <3>1, <2>c, <2>d DEF Running, Rewrapping, Rewriting
  <2>5. CASE OpenTemp(j)
    <3>0. pc[j] = "opening" BY <2>5 DEF OpenTemp, Counted
    <3>1. Counted(j, "opening", FALSE) \/ (job' = job /\ pc'[j] = "writing")
      BY <2>5 DEF OpenTemp
    <3> QED BY <3>0, <3>1, <2>c, <2>d DEF Running, Rewrapping, Rewriting
  <2>6. CASE WriteTemp(j)
    <3>0. pc[j] = "writing" BY <2>6 DEF WriteTemp, Counted
    <3>1. Counted(j, "writing", FALSE) \/ (job' = job /\ pc'[j] = "renaming")
      BY <2>6 DEF WriteTemp
    <3> QED BY <3>0, <3>1, <2>c, <2>d DEF Running, Rewrapping, Rewriting
  <2>7. CASE Rename(j)
    <3>0. pc[j] = "renaming" BY <2>7 DEF Rename
    <3>1. Counted(j, "renaming", TRUE) \/ (job' = job /\ pc'[j] = "removing")
      BY <2>7 DEF Rename
    <3> QED BY <3>0, <3>1, <2>c, <2>d DEF Running, Rewrapping, Rewriting
  <2>8. CASE RemoveTemp(j)
    <3>0. pc[j] = "removing" BY <2>8 DEF RemoveTemp
    <3>1. Counted(j, "removing", FALSE)
      BY <2>8 DEF RemoveTemp
    <3> QED BY <3>0, <3>1, <2>c DEF Rewriting
  <2>9. CASE Finish(j)
    <3>1. /\ pc[j] = "finishing" /\ pc'[j] = "done"
          /\ job'[j].batch = job[j].batch /\ job'[j].last = job[j].last
          /\ job'[j].counted = job[j].counted /\ job'[j].success = job[j].success
          /\ job'[j].status = IF job[j].success = Cardinality(job[j].counted)
                              THEN "completed" ELSE "failed"
      BY <2>9 DEF Finish, JobState
    <3> QED BY <3>1, <2>a DEF Running, Rewriting, Getting, Rewrapping
  <2> QED BY <2>1, <2>2, <2>3, <2>4, <2>5, <2>6, <2>7, <2>8, <2>9 DEF Files
<1> QED BY <1>1, <1>2 DEF Batches

\* What a job's step does to the files: nothing, or one of six things.
Quiet(j) ==
  /\ UNCHANGED <<files, stray>>
  /\ pc[j] \notin {"writing", "removing"} /\ pc'[j] \notin {"writing", "renaming"}
  /\ pc[j] = "renaming" => pc'[j] = "removing" /\ job' = job

Opens(j) ==
  /\ pc[j] = "opening" /\ pc'[j] = "writing" /\ job' = job
  /\ temp' = [temp EXCEPT ![Current(j)] = Part] /\ file' = [file EXCEPT ![j] = "temp"]
  /\ UNCHANGED <<meta, stray>>

Writes(j) ==
  /\ pc[j] = "writing" /\ pc'[j] = "renaming" /\ job' = job
  /\ temp' = IF file[j] = "temp" THEN [temp EXCEPT ![Current(j)] = setup.new[j]] ELSE temp
  /\ meta' = IF file[j] = "meta" THEN [meta EXCEPT ![Current(j)] = setup.new[j]] ELSE meta
  /\ file' = [file EXCEPT ![j] = "none"] /\ UNCHANGED stray

Breaks(j) ==
  /\ pc[j] = "writing" /\ Counted(j, "writing", FALSE) /\ j \in faulted'
  /\ file' = [file EXCEPT ![j] = "none"] /\ UNCHANGED <<temp, meta, stray>>

Renames(j) ==
  /\ pc[j] = "renaming" /\ temp[Current(j)] # None /\ Counted(j, "renaming", TRUE)
  /\ meta' = [meta EXCEPT ![Current(j)] = temp[Current(j)]]
  /\ temp' = [temp EXCEPT ![Current(j)] = None]
  /\ file' = Follow(Current(j), "meta") /\ UNCHANGED stray

Removes(j) ==
  /\ pc[j] = "removing" /\ Counted(j, "removing", FALSE)
  /\ temp' = [temp EXCEPT ![Current(j)] = None]
  /\ file' = Follow(Current(j), "none") /\ UNCHANGED <<meta, stray>>

Strays(j) ==
  /\ pc[j] = "removing" /\ Counted(j, "removing", FALSE) /\ UNCHANGED files
  /\ stray' = stray \cup {j}

LEMMA FileKinds ==
  ASSUME Typed, NEW j \in Jobs, Files(j)
  PROVE  \/ Quiet(j) \/ Opens(j) \/ Writes(j) \/ Breaks(j)
         \/ Renames(j) \/ Removes(j) \/ Strays(j)
<1> USE DEF Go, Typed, rest, Actors
<1>1. CASE StartRewrapJob(j) BY <1>1 DEF StartRewrapJob, Quiet
<1>2. CASE FetchBatch(j) BY <1>2 DEF FetchBatch, Fetched, Quiet
<1>3. CASE ReadMeta(j) BY <1>3 DEF ReadMeta, Counted, Quiet
<1>4. CASE Rewrap(j) BY <1>4 DEF Rewrap, Counted, Quiet
<1>5. CASE OpenTemp(j)
  <2>1. CASE Counted(j, "opening", FALSE) /\ UNCHANGED <<temp, file>>
    BY <1>5, <2>1 DEF OpenTemp, Counted, Quiet, files
  <2>2. CASE ~(Counted(j, "opening", FALSE) /\ UNCHANGED <<temp, file>>)
    BY <1>5, <2>2 DEF OpenTemp, Opens
  <2> QED BY <2>1, <2>2
<1>6. CASE WriteTemp(j)
  <2>1. CASE Counted(j, "writing", FALSE) /\ Fault(j) /\ UNCHANGED <<temp, meta>>
    <3>1. pc[j] = "writing" /\ j \in faulted' BY <2>1 DEF Counted, Fault
    <3> QED BY <1>6, <2>1, <3>1 DEF WriteTemp, Breaks
  <2>2. CASE ~(Counted(j, "writing", FALSE) /\ Fault(j) /\ UNCHANGED <<temp, meta>>)
    BY <1>6, <2>2 DEF WriteTemp, Writes
  <2> QED BY <2>1, <2>2
<1>7. CASE Rename(j)
  <2>1. CASE pc'[j] = "removing" /\ UNCHANGED <<files, job>>
    BY <1>7, <2>1 DEF Rename, Quiet
  <2>2. CASE ~(pc'[j] = "removing" /\ UNCHANGED <<files, job>>)
    BY <1>7, <2>2 DEF Rename, Renames
  <2> QED BY <2>1, <2>2
<1>8. CASE RemoveTemp(j)
  <2>1. CASE stray' = stray \cup {j} /\ UNCHANGED <<temp, file>>
    BY <1>8, <2>1 DEF RemoveTemp, Strays, files
  <2>2. CASE ~(stray' = stray \cup {j} /\ UNCHANGED <<temp, file>>)
    BY <1>8, <2>2 DEF RemoveTemp, Removes
  <2> QED BY <2>1, <2>2
<1>9. CASE Finish(j) BY <1>9 DEF Finish, Quiet
<1> QED BY <1>1, <1>2, <1>3, <1>4, <1>5, <1>6, <1>7, <1>8, <1>9 DEF Files

\* How a job comes to rewrite a file.
LEMMA RewritesWhatItRead ==
  ASSUME Typed, NEW j \in Jobs, Files(j), Rewriting(j)'
  PROVE  /\ Current(j)' = Current(j)
         /\ \/ Rewriting(j)
            \/ /\ pc[j] = "reading" /\ meta[Current(j)] \notin {None, Part}
               /\ meta[Current(j)] < setup.new[j]
<1>a. job' = job => Current(j)' = Current(j) BY DEF Current
<1> USE DEF Go, Typed, Actors, Rewriting, Counted
<1>1. CASE StartRewrapJob(j) \/ Finish(j) BY <1>1 DEF StartRewrapJob, Finish
<1>2. CASE FetchBatch(j) BY <1>2 DEF FetchBatch, Fetched
<1>3. CASE ReadMeta(j) BY <1>3, <1>a DEF ReadMeta
<1>4. CASE Rewrap(j) BY <1>4, <1>a DEF Rewrap
<1>5. CASE OpenTemp(j) BY <1>5, <1>a DEF OpenTemp
<1>6. CASE WriteTemp(j) BY <1>6, <1>a DEF WriteTemp
<1>7. CASE Rename(j) BY <1>7, <1>a DEF Rename
<1>8. CASE RemoveTemp(j) BY <1>8 DEF RemoveTemp
<1> QED BY <1>1, <1>2, <1>3, <1>4, <1>5, <1>6, <1>7, <1>8 DEF Files

\* A job moves forward, and its faults are remembered.
LEMMA JobMovesOn ==
  ASSUME Typed, JobState, Batches, NEW j \in Jobs, Files(j)
  PROVE  /\ faulted \subseteq faulted'
         /\ pc[j] # "new" => job'[j].last >= job[j].last /\ pc'[j] # "new" /\ Running(j)
<1> USE KeyRotationAssumption DEF KeyRotationAssumption, Go, Typed, NoFault, Fault, Actors
<1>0. pc[j] # "new" => Running(j) BY RunsAtFiles DEF StartRewrapJob
<1>l. job[j].last \in Nat /\ job[j].batch \in SUBSET Artifacts BY DEF JobState, JobRecords
<1>c. ASSUME pc[j] = "reading" \/ Rewriting(j), NEW from, NEW good \in BOOLEAN,
             Counted(j, from, good)
      PROVE  job'[j].last >= job[j].last /\ pc'[j] # "new"
  <2>1. /\ Current(j) \in job[j].batch /\ job'[j].last = Current(j)
        /\ pc'[j] = IF job[j].batch = {Current(j)} THEN "fetching" ELSE "reading"
    BY <1>c, CountedStep
  <2>2. Current(j) > job[j].last /\ Current(j) \in Nat BY <1>l, <2>1 DEF Batches
  <2> QED BY <1>l, <2>1, <2>2
<1>1. CASE StartRewrapJob(j) BY <1>1 DEF StartRewrapJob
<1>2. CASE FetchBatch(j)
  <2>1. PICK batch : Fetched(j, batch) BY <1>2 DEF FetchBatch
  <2>2. job'[j].last = job[j].last /\ pc'[j] # "new" BY <2>1 DEF Fetched, JobState
  <2>3. faulted \subseteq faulted' BY <1>2 DEF FetchBatch
  <2> QED BY <1>0, <1>l, <2>2, <2>3
<1>3. CASE ReadMeta(j)
  <2>1. pc[j] = "reading" /\ faulted' = faulted BY <1>3 DEF ReadMeta
  <2>2. \/ Counted(j, "reading", TRUE) \/ Counted(j, "reading", FALSE)
        \/ job' = job /\ pc'[j] = "unwrapping"
    BY <1>3 DEF ReadMeta
  <2>3. job'[j].last >= job[j].last /\ pc'[j] # "new"
    <3>1. CASE Counted(j, "reading", TRUE) \/ Counted(j, "reading", FALSE) BY <1>c, <2>1, <3>1
    <3>2. CASE job' = job /\ pc'[j] # "new" BY <1>l, <3>2
    <3> QED BY <2>2, <3>1, <3>2
  <2> QED BY <1>0, <2>1, <2>3
<1>4. CASE Rewrap(j)
  <2>1. Rewriting(j) /\ faulted \subseteq faulted' BY <1>4 DEF Rewrap, Counted, Rewriting
  <2>2. Counted(j, "unwrapping", FALSE) \/ (job' = job /\ pc'[j] = "opening")
    BY <1>4 DEF Rewrap
  <2>3. job'[j].last >= job[j].last /\ pc'[j] # "new"
    <3>1. CASE Counted(j, "unwrapping", FALSE) BY <1>c, <2>1, <3>1
    <3>2. CASE job' = job /\ pc'[j] # "new" BY <1>l, <3>2
    <3> QED BY <2>2, <3>1, <3>2
  <2> QED BY <1>0, <2>1, <2>3
<1>5. CASE OpenTemp(j)
  <2>1. Rewriting(j) /\ faulted \subseteq faulted' BY <1>5 DEF OpenTemp, Counted, Rewriting
  <2>2. Counted(j, "opening", FALSE) \/ (job' = job /\ pc'[j] = "writing")
    BY <1>5 DEF OpenTemp
  <2>3. job'[j].last >= job[j].last /\ pc'[j] # "new"
    <3>1. CASE Counted(j, "opening", FALSE) BY <1>c, <2>1, <3>1
    <3>2. CASE job' = job /\ pc'[j] # "new" BY <1>l, <3>2
    <3> QED BY <2>2, <3>1, <3>2
  <2> QED BY <1>0, <2>1, <2>3
<1>6. CASE WriteTemp(j)
  <2>1. Rewriting(j) /\ faulted \subseteq faulted' BY <1>6 DEF WriteTemp, Counted, Rewriting
  <2>2. Counted(j, "writing", FALSE) \/ (job' = job /\ pc'[j] = "renaming")
    BY <1>6 DEF WriteTemp
  <2>3. job'[j].last >= job[j].last /\ pc'[j] # "new"
    <3>1. CASE Counted(j, "writing", FALSE) BY <1>c, <2>1, <3>1
    <3>2. CASE job' = job /\ pc'[j] # "new" BY <1>l, <3>2
    <3> QED BY <2>2, <3>1, <3>2
  <2> QED BY <1>0, <2>1, <2>3
<1>7. CASE Rename(j)
  <2>1. Rewriting(j) /\ faulted \subseteq faulted' BY <1>7 DEF Rename, Rewriting
  <2>2. Counted(j, "renaming", TRUE) \/ (job' = job /\ pc'[j] = "removing")
    BY <1>7 DEF Rename
  <2>3. job'[j].last >= job[j].last /\ pc'[j] # "new"
    <3>1. CASE Counted(j, "renaming", TRUE) BY <1>c, <2>1, <3>1
    <3>2. CASE job' = job /\ pc'[j] # "new" BY <1>l, <3>2
    <3> QED BY <2>2, <3>1, <3>2
  <2> QED BY <1>0, <2>1, <2>3
<1>8. CASE RemoveTemp(j)
  <2>1. Rewriting(j) /\ faulted \subseteq faulted' BY <1>8 DEF RemoveTemp, Rewriting
  <2>2. Counted(j, "removing", FALSE) BY <1>8 DEF RemoveTemp
  <2>3. job'[j].last >= job[j].last /\ pc'[j] # "new" BY <1>c, <2>1, <2>2
  <2> QED BY <1>0, <2>1, <2>3
<1>9. CASE Finish(j)
  <2>1. job'[j].last = job[j].last /\ pc'[j] # "new" /\ faulted' = faulted
    BY <1>9 DEF Finish, JobState
  <2> QED BY <1>0, <1>l, <2>1
<1> QED BY <1>1, <1>2, <1>3, <1>4, <1>5, <1>6, <1>7, <1>8, <1>9 DEF Files

\* The others stay where they are.
LEMMA Others ==
  ASSUME Typed, OneKey, JobState, Batches, NEW j \in Jobs, Files(j), NEW i \in Jobs \ {j}
  PROVE  /\ pc'[i] = pc[i] /\ job'[i] = job[i] /\ Current(i)' = Current(i)
         /\ Running(i)' <=> Running(i)
         /\ Rewriting(i)' <=> Rewriting(i)
BY JobFrame DEF Current, Running, Rewriting

LEMMA PassedStays ==
  ASSUME Typed, OneKey, JobState, Batches, NEW j \in Jobs, Files(j),
         NEW i \in Jobs, NEW a \in Artifacts, Passed(i, a)
  PROVE  Passed(i, a)'
<1>1. CASE i # j BY <1>1, Others DEF Passed
<1>2. CASE i = j
  <2>1. job'[j].last >= job[j].last /\ pc'[j] # "new" /\ job[j].last >= a
    BY <1>2, JobMovesOn DEF Passed
  <2>2. job'[j].last \in Nat /\ job[j].last \in Nat /\ a \in Nat
    BY JobFrame, KeyRotationAssumption DEF KeyRotationAssumption, JobState, JobRecords
  <2>3. job'[j].last >= a BY <2>1, <2>2
  <2> QED BY <1>2, <2>1, <2>3 DEF Passed
<1> QED BY <1>1, <1>2

LEMMA OriginKept ==
  ASSUME Typed, OneKey, FileTypes, JobState, Batches, MetaOrigin, NEW j \in Jobs, Files(j),
         UNCHANGED <<setup.new, setup.metas, setup.active>>
  PROVE  MetaOrigin'
<1> USE KeyRotationAssumption DEF KeyRotationAssumption
<1>0. setup.new[j] # None BY DEF Typed, Setup
<1>1. \A u \in Artifacts : pc'[u] = pc[u] BY JobFrame
<1>2. \A a \in Artifacts : \/ meta'[a] = meta[a]
                           \/ a = Current(j) /\ Rewriting(j) /\ meta'[a] # None
  <2> USE DEF FileTypes, files, Rewriting
  <2>1. CASE Writes(j) BY <1>0, <2>1 DEF Writes
  <2>2. CASE Renames(j) BY <2>2 DEF Renames
  <2> QED BY <2>1, <2>2, FileKinds DEF Quiet, Opens, Breaks, Removes, Strays
<1>3. Rewriting(j) => meta[Current(j)] # None /\ Current(j) \in setup.metas
  <2>1. Rewriting(j) => Current(j) \in Artifacts BY CurrentIsFirst DEF Batches
  <2> QED BY <2>1 DEF MetaOrigin
<1>4. \A a \in Artifacts : meta'[a] # None => a \in setup.metas
  <2>2. \A a \in Artifacts : meta[a] # None => a \in setup.metas BY DEF MetaOrigin
  <2> QED BY <1>2, <2>2, <1>3
<1>5. ASSUME NEW k \in Jobs, Rewriting(k)' PROVE meta'[Current(k)'] # None
  <2>1. CASE k # j
    <3>1. Current(k)' = Current(k) /\ Rewriting(k) BY <1>5, <2>1, Others
    <3>2. Current(k) \in Artifacts /\ meta[Current(k)] # None
      BY <3>1, CurrentIsFirst DEF Batches, MetaOrigin
    <3> QED BY <3>1, <3>2, <1>2
  <2>2. CASE k = j
    <3>1. /\ Current(j)' = Current(j) /\ meta[Current(j)] # None
          /\ pc[j] = "reading" \/ Rewriting(j)
      BY <1>3, <1>5, <2>2, RewritesWhatItRead
    <3>2. Current(j) \in Artifacts BY <3>1, CurrentIsFirst DEF Batches
    <3> QED BY <2>2, <3>1, <3>2, <1>2
  <2> QED BY <2>1, <2>2
<1>6. \A u \in Artifacts : pc'[u] # "dead" => u \notin setup.metas
  BY <1>1 DEF MetaOrigin
<1>7. \A k \in Jobs : Rewriting(k)' => meta'[Current(k)'] # None BY <1>5
<1> QED BY <1>4, <1>6, <1>7 DEF MetaOrigin

LEMMA CrossedKept ==
  ASSUME Typed, OneKey, JobState, Batches, CrossedAtOnce, NEW j \in Jobs, Files(j)
  PROVE  CrossedAtOnce'
<1>1. \A k \in Jobs \ {j} : Running(k)' <=> Running(k)
  BY Others
<1>2. crossed \subseteq crossed' BY JobFrame
<1>3. CASE StartRewrapJob(j)
  <2>1. \A k \in Jobs \ {j} : Running(k) => <<j, k>> \in crossed' /\ <<k, j>> \in crossed'
    BY <1>3 DEF StartRewrapJob
  <2> QED BY <1>1, <1>2, <2>1 DEF CrossedAtOnce
<1>4. CASE ~StartRewrapJob(j)
  <2>1. Running(j) BY <1>4, RunsAtFiles
  <2> QED BY <1>1, <1>2, <2>1 DEF CrossedAtOnce
<1> QED BY <1>3, <1>4

LEMMA OpenKept ==
  ASSUME Typed, OneKey, FileTypes, JobState, Batches, OpenInv, NEW j \in Jobs, Files(j)
  PROVE  OpenInv'
<1> SUFFICES ASSUME NEW k \in Jobs, file'[k] # "none" PROVE pc'[k] = "writing"
  BY DEF OpenInv
<1>1. \A a, then : file[k] = "none" /\ then \in {"meta", "none"} => Follow(a, then)[k] = "none"
  BY DEF Follow
<1>2. k # j => pc'[k] = pc[k] BY Others
<1> USE DEF FileTypes, files
<1>3. CASE Quiet(j) BY <1>2, <1>3 DEF Quiet, OpenInv
<1>4. CASE Opens(j) BY <1>2, <1>4 DEF Opens, OpenInv
<1>5. CASE Writes(j) BY <1>2, <1>5 DEF Writes, OpenInv
<1>6. CASE Breaks(j) BY <1>2, <1>6 DEF Breaks, OpenInv
<1>7. CASE Renames(j) BY <1>1, <1>2, <1>7 DEF Renames, OpenInv
<1>8. CASE Removes(j) BY <1>1, <1>2, <1>8 DEF Removes, OpenInv
<1>9. CASE Strays(j) BY <1>2, <1>9 DEF Strays, OpenInv
<1> QED BY <1>3, <1>4, <1>5, <1>6, <1>7, <1>8, <1>9, FileKinds

\* Half a temporary that a job is to rename was just opened, or was there before;
\* then who had it open still has, or failed to write it.
LEMMA HalfStep ==
  ASSUME Typed, OneKey, FileTypes, JobState, Batches, OpenInv, NEW j \in Jobs, Files(j),
         UNCHANGED setup.new,
         NEW k \in Jobs, NEW a \in Artifacts, Late(k, a)', temp'[a] = Part
  PROVE  \/ Rewriting(j) /\ Current(j) = a /\ Open(j, a)'
         \/ /\ Late(k, a) /\ temp[a] = Part
            /\ \A i \in Jobs : Open(i, a) =>
                 Open(i, a)' \/ (i = j /\ i \in faulted' /\ Passed(i, a)')
<1> USE KeyRotationAssumption DEF KeyRotationAssumption
<1>1. /\ k # j => Current(k) = a /\ pc'[k] = pc[k]
      /\ pc'[k] = "renaming" \/ (pc'[k] = "writing" /\ file'[k] # "temp")
      /\ Current(k)' = a
  BY Others DEF Late
<1>2. ASSUME NEW i \in Jobs \ {j}, Open(i, a), file'[i] = file[i] PROVE Open(i, a)'
  BY <1>2, Others DEF Open
<1>3. Open(j, a) => pc[j] = "writing" BY DEF Open, OpenInv
<1>4. job' = job => Current(j)' = Current(j) BY DEF Current
<1>n. None # Part /\ setup.new[j] # Part BY DEF Typed, Setup, Part
<1>5. CASE Quiet(j)
  <2>1. k # j BY <1>1, <1>5 DEF Quiet
  <2>2. Late(k, a) /\ temp[a] = Part BY <1>1, <1>5, <2>1 DEF Quiet, files, Late
  <2>3. \A i \in Jobs : Open(i, a) => Open(i, a)' BY <1>2, <1>3, <1>5 DEF Quiet, files
  <2> QED BY <2>2, <2>3
<1>6. CASE Opens(j)
  <2>0. Rewriting(j) /\ Current(j)' = Current(j) /\ file' = [file EXCEPT ![j] = "temp"]
    BY <1>4, <1>6 DEF Opens, Rewriting
  <2>1. CASE Current(j) = a
    <3>1. job'[j].batch # {} BY <1>6, <2>0 DEF Opens, Batches
    <3>2. file'[j] = "temp" BY <2>0 DEF FileTypes
    <3> QED BY <2>0, <2>1, <3>1, <3>2 DEF Open
  <2>2. CASE Current(j) # a
    <3>1. k # j BY <1>1, <2>0, <2>2
    <3>2. temp[a] = Part BY <1>6, <2>2 DEF Opens, FileTypes
    <3>3. \A i \in Jobs \ {j} : file'[i] = file[i] BY <2>0 DEF FileTypes
    <3>4. Late(k, a) BY <1>1, <3>1, <3>3 DEF Late
    <3>5. \A i \in Jobs : Open(i, a) => Open(i, a)' BY <1>2, <2>2, <3>3 DEF Open
    <3> QED BY <3>2, <3>4, <3>5
  <2> QED BY <2>1, <2>2
<1>7. CASE Writes(j)
  <2>1. ~(file[j] = "temp" /\ Current(j) = a)
    BY <1>7, <1>n DEF Writes, FileTypes
  <2>2. temp[a] = Part BY <1>7, <2>1 DEF Writes, FileTypes
  <2>3. \A i \in Jobs \ {j} : file'[i] = file[i] BY <1>7 DEF Writes, FileTypes
  <2>4. Late(k, a)
    <3>1. CASE k = j
      <4>1. Current(j) = a /\ pc[j] = "writing" BY <1>1, <1>4, <1>7, <3>1 DEF Writes
      <4> QED BY <2>1, <3>1, <4>1 DEF Late
    <3>2. CASE k # j BY <1>1, <2>3, <3>2 DEF Late
    <3> QED BY <3>1, <3>2
  <2>5. \A i \in Jobs : Open(i, a) => Open(i, a)' BY <1>2, <2>1, <2>3 DEF Open
  <2> QED BY <2>2, <2>4, <2>5
<1>8. CASE Breaks(j)
  <2>0. /\ temp' = temp /\ Rewriting(j) /\ Counted(j, "writing", FALSE) /\ j \in faulted'
        /\ \A i \in Jobs \ {j} : file'[i] = file[i]
    BY <1>8 DEF Breaks, Rewriting, FileTypes
  <2>1. job'[j].last = Current(j) /\ pc'[j] \in {"fetching", "reading"} BY <2>0, CountedStep
  <2>2. k # j BY <1>1, <2>1
  <2>3. Late(k, a) /\ temp[a] = Part BY <1>1, <2>0, <2>2 DEF Late
  <2>4. ASSUME NEW i \in Jobs, Open(i, a)
        PROVE  Open(i, a)' \/ (i = j /\ i \in faulted' /\ Passed(i, a)')
    <3>1. CASE i # j BY <1>2, <2>0, <2>4, <3>1
    <3>2. CASE i = j
      <4>1. job'[j].last = a /\ a \in Nat BY <2>1, <2>4, <3>2 DEF Open
      <4>2. job'[j].last >= a BY <4>1
      <4>3. pc'[j] # "new" BY <2>1
      <4> QED BY <2>0, <3>2, <4>2, <4>3 DEF Passed
    <3> QED BY <3>1, <3>2
  <2> QED BY <2>3, <2>4
<1>9. CASE Renames(j) \/ Removes(j)
  <2>0. /\ Rewriting(j) /\ temp' = [temp EXCEPT ![Current(j)] = None]
        /\ file' = Follow(Current(j), "meta") \/ file' = Follow(Current(j), "none")
    BY <1>9 DEF Renames, Removes, Rewriting
  <2>1. pc'[j] \in {"fetching", "reading"}
    <3>1. Counted(j, "renaming", TRUE) \/ Counted(j, "removing", FALSE)
      BY <1>9 DEF Renames, Removes
    <3> QED BY <2>0, <3>1, CountedStep
  <2>2. k # j BY <1>1, <2>1
  <2>3. Current(j) # a /\ temp[a] = Part BY <2>0, <1>n DEF FileTypes
  <2>4. \A i \in Jobs : Current(i) = a => file'[i] = file[i] BY <2>0, <2>3 DEF Follow
  <2>5. Late(k, a) BY <1>1, <2>2, <2>4 DEF Late
  <2>6. \A i \in Jobs : Open(i, a) => Open(i, a)' BY <1>2, <2>3, <2>4 DEF Open
  <2> QED BY <2>3, <2>5, <2>6
<1>10. CASE Strays(j)
  <2>1. pc[j] = "removing" /\ UNCHANGED files /\ pc'[j] \in {"fetching", "reading"}
    BY <1>10, CountedStep DEF Strays, Rewriting
  <2>2. k # j BY <1>1, <2>1
  <2>3. Late(k, a) /\ temp[a] = Part BY <1>1, <2>1, <2>2 DEF files, Late
  <2>4. \A i \in Jobs : Open(i, a) => Open(i, a)' BY <1>2, <1>3, <2>1 DEF files
  <2> QED BY <2>3, <2>4
<1> QED BY <1>5, <1>6, <1>7, <1>8, <1>9, <1>10, FileKinds

LEMMA HalfKept ==
  ASSUME Typed, OneKey, FileTypes, JobState, Batches, OpenInv, HalfOwned, NEW j \in Jobs, Files(j),
         UNCHANGED setup.new
  PROVE  HalfOwned'
<1> SUFFICES ASSUME NEW k \in Jobs, NEW a \in Artifacts, Late(k, a)', temp'[a] = Part
             PROVE  \E i \in Jobs : Open(i, a)' \/ (i \in faulted' /\ Passed(i, a)')
  BY DEF HalfOwned
<1>1. CASE Open(j, a)' BY <1>1
<1>2. CASE /\ Late(k, a) /\ temp[a] = Part
           /\ \A i \in Jobs : Open(i, a) =>
                Open(i, a)' \/ (i = j /\ i \in faulted' /\ Passed(i, a)')
  <2>1. PICK i \in Jobs : Open(i, a) \/ (i \in faulted /\ Passed(i, a))
    BY <1>2 DEF HalfOwned
  <2>2. CASE Open(i, a) BY <1>2, <2>2
  <2>3. CASE i \in faulted /\ Passed(i, a)
    <3>1. i \in faulted' BY <2>3, JobMovesOn
    <3>2. Passed(i, a)' BY <2>3, PassedStays
    <3> QED BY <3>1, <3>2
  <2> QED BY <2>1, <2>2, <2>3
<1> QED BY <1>1, <1>2, HalfStep

LEMMA OwnedKept ==
  ASSUME Typed, OneKey, FileTypes, JobState, Batches, TempOwned, NEW j \in Jobs, Files(j),
         UNCHANGED setup.new
  PROVE  TempOwned'
<1> USE KeyRotationAssumption DEF KeyRotationAssumption
<1> SUFFICES ASSUME NEW k \in Jobs, NEW a \in Artifacts,
                    pc'[k] \in {"writing", "renaming"}, Current(k)' = a,
                    temp'[a] \notin {None, Part}
             PROVE  \E i \in Jobs :
                      /\ temp'[a] = setup.new[i]
                      /\ i \in stray' \/ (pc'[i] \in {"renaming", "removing"} /\ Current(i)' = a)
  BY DEF TempOwned
<1>0. \A i \in Jobs \ {j} : pc'[i] = pc[i] /\ Current(i)' = Current(i)
  BY Others
<1>1. job' = job => Current(j)' = Current(j) BY DEF Current
\* Who owned it owns it still.
<1>2. ASSUME temp'[a] = temp[a], pc[k] \in {"writing", "renaming"}, Current(k) = a,
             stray \subseteq stray',
             pc[j] \in {"renaming", "removing"} /\ Current(j) = a =>
               j \in stray' \/ (pc'[j] \in {"renaming", "removing"} /\ Current(j)' = a)
      PROVE  \E i \in Jobs :
               /\ temp'[a] = setup.new[i]
               /\ i \in stray' \/ (pc'[i] \in {"renaming", "removing"} /\ Current(i)' = a)
  <2>1. PICK i \in Jobs :
          /\ temp[a] = setup.new[i]
          /\ i \in stray \/ (pc[i] \in {"renaming", "removing"} /\ Current(i) = a)
    BY <1>2 DEF TempOwned
  <2>2. CASE i = j BY <1>2, <2>1, <2>2
  <2>3. CASE i # j BY <1>0, <1>2, <2>1, <2>3
  <2> QED BY <2>2, <2>3
<1>k. k # j => pc[k] \in {"writing", "renaming"} /\ Current(k) = a BY <1>0
<1>c. ASSUME Rewriting(j), NEW from, NEW good \in BOOLEAN, Counted(j, from, good) PROVE k # j
  BY <1>c, CountedStep
<1>3. CASE Quiet(j)
  <2>1. k # j /\ temp' = temp /\ stray' = stray BY <1>3 DEF Quiet, files
  <2>2. pc[j] # "removing" /\ (pc[j] = "renaming" => pc'[j] = "removing" /\ Current(j)' = Current(j))
    BY <1>1, <1>3 DEF Quiet
  <2> QED BY <1>2, <1>k, <2>1, <2>2
<1>4. CASE Opens(j)
  <2>1. Current(j) # a /\ temp'[a] = temp[a] BY <1>4 DEF Opens, FileTypes
  <2>2. k # j BY <1>1, <1>4, <2>1 DEF Opens
  <2>3. stray' = stray /\ pc[j] = "opening" BY <1>4 DEF Opens
  <2> QED BY <1>2, <1>k, <2>1, <2>2, <2>3
<1>5. CASE Writes(j)
  <2>0. /\ pc[j] = "writing" /\ pc'[j] = "renaming" /\ stray' = stray
        /\ Current(j)' = Current(j)
    BY <1>1, <1>5 DEF Writes
  <2>1. CASE file[j] = "temp" /\ Current(j) = a
    <3>1. temp'[a] = setup.new[j] BY <1>5, <2>1 DEF Writes, FileTypes
    <3> QED BY <2>0, <2>1, <3>1
  <2>2. CASE ~(file[j] = "temp" /\ Current(j) = a)
    <3>1. temp'[a] = temp[a] BY <1>5, <2>2 DEF Writes, FileTypes
    <3>2. pc[k] \in {"writing", "renaming"} /\ Current(k) = a BY <1>k, <2>0
    <3> QED BY <1>2, <2>0, <3>1, <3>2
  <2> QED BY <2>1, <2>2
<1>6. CASE Breaks(j)
  <2>1. k # j BY <1>6, <1>c DEF Breaks, Rewriting
  <2>2. temp' = temp /\ stray' = stray /\ pc[j] = "writing" BY <1>6 DEF Breaks
  <2> QED BY <1>2, <1>k, <2>1, <2>2
<1>7. CASE Renames(j) \/ Removes(j)
  <2>1. k # j BY <1>7, <1>c DEF Renames, Removes, Rewriting
  <2>2. Current(j) # a /\ temp'[a] = temp[a] BY <1>7 DEF Renames, Removes, FileTypes
  <2>3. stray' = stray BY <1>7 DEF Renames, Removes
  <2> QED BY <1>2, <1>k, <2>1, <2>2, <2>3
<1>8. CASE Strays(j)
  <2>1. k # j BY <1>8, <1>c DEF Strays, Rewriting
  <2>2. temp' = temp /\ stray' = stray \cup {j} BY <1>8 DEF Strays, files
  <2> QED BY <1>2, <1>k, <2>1, <2>2
<1> QED BY <1>3, <1>4, <1>5, <1>6, <1>7, <1>8, FileKinds

LEMMA ChallengesGrow ==
  ASSUME Typed, OneKey, JobState, Batches, NEW j \in Jobs, Files(j), UNCHANGED setup.new,
         NEW k \in Jobs, Unchallenged(k)'
  PROVE  Unchallenged(k)
<1>1. crossed \subseteq crossed' BY JobFrame
<1>2. stray \subseteq stray'
  BY FileKinds DEF Quiet, Opens, Writes, Breaks, Renames, Removes, Strays
<1> QED BY <1>1, <1>2 DEF Unchallenged

\* Nothing takes a success back: who rewrites the file writes no lower version,
\* and half of it is another's.
LEMMA SuccessKept ==
  ASSUME Typed, OneKey, FileTypes, JobState, Batches, OpenInv, TempOwned,
         NEW j \in Jobs, Files(j), UNCHANGED setup.new,
         NEW k \in Jobs, Unchallenged(k), NEW a \in Artifacts, a <= job[k].last, Secured(k, a)
  PROVE  Secured(k, a)'
<1> USE KeyRotationAssumption DEF KeyRotationAssumption
<1>0. setup.new[k] \in Nat \ {0} /\ setup.new[j] \in Nat \ {0} BY DEF Typed, Setup
<1>a. Covered(k, a) /\ Guarded(k, a) /\ Screened(k, a) BY DEF Secured
<1>b. faulted \subseteq faulted' BY JobMovesOn
\* The job itself is past this artifact.
<1>p. Rewriting(j) /\ Current(j) = a => j # k
  <2> SUFFICES ASSUME Rewriting(j), Current(j) = a, j = k PROVE FALSE
    OBVIOUS
  <2>1. Current(j) \in job[j].batch BY CurrentIsFirst DEF Batches
  <2>2. a > job[k].last /\ a \in Nat /\ job[k].last \in Nat
    BY <2>1 DEF Batches, JobState, JobRecords
  <2> QED BY <2>2
<1>1. Guarded(k, a)'
  <2> SUFFICES ASSUME NEW i \in Jobs, Rewriting(i)', Current(i)' = a
               PROVE  setup.new[i] >= setup.new[k]
    BY DEF Guarded
  <2>1. CASE i # j
    <3>1. Rewriting(i) /\ Current(i) = a BY <2>1, Others
    <3> QED BY <1>a, <3>1 DEF Guarded
  <2>2. CASE i = j
    <3>1. Current(j) = a BY <2>2, RewritesWhatItRead
    <3>2. CASE Rewriting(j) BY <1>a, <2>2, <3>1, <3>2 DEF Guarded
    <3>3. CASE meta[a] \notin {None, Part} /\ meta[a] < setup.new[j]
      <4>1. meta[a] \in Nat BY <3>3 DEF FileTypes
      <4> QED BY <1>0, <1>a, <2>2, <3>3, <4>1 DEF Covered
    <3> QED BY <2>2, <3>1, <3>2, <3>3, RewritesWhatItRead
  <2> QED BY <2>1, <2>2
<1>2. Screened(k, a)'
  <2> SUFFICES ASSUME NEW i \in Jobs, Late(i, a)', temp'[a] = Part
               PROVE  \E w \in Jobs \ {k} : Open(w, a)' \/ w \in faulted'
    BY DEF Screened
  <2>1. CASE Rewriting(j) /\ Current(j) = a /\ Open(j, a)' BY <1>p, <2>1
  <2>2. CASE /\ Late(i, a) /\ temp[a] = Part
             /\ \A w \in Jobs : Open(w, a) =>
                  Open(w, a)' \/ (w = j /\ w \in faulted' /\ Passed(w, a)')
    <3>1. PICK w \in Jobs \ {k} : Open(w, a) \/ w \in faulted BY <1>a, <2>2 DEF Screened
    <3> QED BY <1>b, <2>2, <3>1
  <2> QED BY <2>1, <2>2, HalfStep
<1>3. Covered(k, a)'
  \* As before, with the same half.
  <2>1. ASSUME meta'[a] = meta[a],
               \A i \in Jobs : file[i] = "meta" /\ job[i].batch # {} /\ Current(i) = a =>
                 i \in faulted' \/ (i # j /\ file'[i] = "meta")
        PROVE  Covered(k, a)'
    <3>1. CASE meta[a] \notin {None, Part} /\ meta[a] >= setup.new[k]
      BY <2>1, <3>1 DEF Covered
    <3>2. CASE meta[a] = Part /\ \E i \in Jobs \ {k} : Halves(i, a)
      <4>1. PICK i \in Jobs \ {k} : Halves(i, a) BY <3>2
      <4>2. CASE i \in faulted BY <1>b, <2>1, <3>2, <4>2 DEF Covered, Halves
      <4>3. CASE file[i] = "meta" /\ job[i].batch # {} /\ Current(i) = a
        <5>1. i \in faulted' \/ (i # j /\ file'[i] = "meta") BY <2>1, <4>3
        <5>2. i # j => job'[i] = job[i] /\ Current(i)' = Current(i) BY Others
        <5>3. Halves(i, a)' BY <4>3, <5>1, <5>2 DEF Halves
        <5> QED BY <2>1, <3>2, <5>3 DEF Covered
      <4> QED BY <4>1, <4>2, <4>3 DEF Halves
    <3> QED BY <1>a, <3>1, <3>2 DEF Covered
  <2>w. \A i \in Jobs : file[i] = "meta" => pc[i] = "writing" BY DEF OpenInv
  <2>2. CASE Quiet(j) BY <2>1, <2>2, <2>w DEF Quiet, files
  <2>3. CASE Opens(j)
    <3>1. pc[j] = "opening" /\ meta' = meta BY <2>3 DEF Opens
    <3>2. \A i \in Jobs \ {j} : file'[i] = file[i] BY <2>3 DEF Opens, FileTypes
    <3> QED BY <2>1, <2>w, <3>1, <3>2
  <2>4. CASE Writes(j)
    <3>0. Rewriting(j) BY <2>4 DEF Writes, Rewriting
    <3>1. CASE file[j] = "meta" /\ Current(j) = a
      <4>1. meta'[a] = setup.new[j] BY <2>4, <3>1 DEF Writes, FileTypes
      <4>2. setup.new[j] >= setup.new[k] BY <1>a, <3>0, <3>1 DEF Guarded
      <4> QED BY <1>0, <4>1, <4>2 DEF Covered, Part
    <3>2. CASE ~(file[j] = "meta" /\ Current(j) = a)
      <4>1. meta'[a] = meta[a] BY <2>4, <3>2 DEF Writes, FileTypes
      <4>2. \A i \in Jobs \ {j} : file'[i] = file[i] BY <2>4 DEF Writes, FileTypes
      <4> QED BY <2>1, <3>2, <4>1, <4>2
    <3> QED BY <3>1, <3>2
  <2>5. CASE Breaks(j)
    <3>1. j \in faulted' /\ meta' = meta BY <2>5 DEF Breaks
    <3>2. \A i \in Jobs \ {j} : file'[i] = file[i] BY <2>5 DEF Breaks, FileTypes
    <3> QED BY <2>1, <3>1, <3>2
  <2>6. CASE Renames(j)
    <3>0. /\ pc[j] = "renaming" /\ temp[Current(j)] # None
          /\ meta' = [meta EXCEPT ![Current(j)] = temp[Current(j)]]
          /\ file' = Follow(Current(j), "meta")
      BY <2>6 DEF Renames
    <3>1. CASE Current(j) # a
      <4>1. meta'[a] = meta[a] BY <3>0, <3>1 DEF FileTypes
      <4>2. \A i \in Jobs : Current(i) = a => file'[i] = file[i]
        BY <3>0, <3>1 DEF Follow
      <4> QED BY <2>1, <3>1, <4>1, <4>2
    <3>2. CASE Current(j) = a /\ temp[a] = Part
      <4>1. meta'[a] = Part BY <3>0, <3>2 DEF FileTypes
      <4>2. PICK i \in Jobs \ {k} : Open(i, a) \/ i \in faulted
        BY <1>a, <3>0, <3>2 DEF Late, Screened
      <4>3. Halves(i, a)'
        <5>1. CASE i \in faulted BY <1>b, <5>1 DEF Halves
        <5>2. CASE Open(i, a)
          <6>1. i # j BY <3>0, <5>2 DEF Open, OpenInv
          <6>2. file'[i] = "meta" BY <3>0, <3>2, <5>2 DEF Open, Follow
          <6>3. job'[i].batch # {} /\ Current(i)' = a BY <5>2, <6>1, Others DEF Open
          <6> QED BY <6>2, <6>3 DEF Halves
        <5> QED BY <4>2, <5>1, <5>2
      <4> QED BY <4>1, <4>3 DEF Covered
    <3>3. CASE Current(j) = a /\ temp[a] # Part
      <4>1. meta'[a] = temp[a] /\ temp[a] \notin {None, Part} BY <3>0, <3>3 DEF FileTypes
      <4>2. PICK i \in Jobs :
              /\ temp[a] = setup.new[i]
              /\ i \in stray \/ (pc[i] \in {"renaming", "removing"} /\ Current(i) = a)
        BY <3>0, <3>3, <4>1 DEF TempOwned
      <4>3. setup.new[i] >= setup.new[k]
        <5>1. CASE i \in stray BY <5>1 DEF Unchallenged
        <5>2. CASE pc[i] \in {"renaming", "removing"} /\ Current(i) = a
          BY <1>a, <5>2 DEF Guarded, Rewriting
        <5> QED BY <4>2, <5>1, <5>2
      <4> QED BY <4>1, <4>2, <4>3 DEF Covered
    <3> QED BY <3>1, <3>2, <3>3
  <2>7. CASE Removes(j)
    <3>1. pc[j] = "removing" /\ meta' = meta /\ file' = Follow(Current(j), "none")
      BY <2>7 DEF Removes
    <3>2. \A i \in Jobs : file[i] = "meta" => file'[i] = "meta" BY <3>1 DEF Follow
    <3> QED BY <2>1, <2>w, <3>1, <3>2
  <2>8. CASE Strays(j) BY <2>1, <2>8, <2>w DEF Strays, files
  <2> QED BY <2>2, <2>3, <2>4, <2>5, <2>6, <2>7, <2>8, FileKinds
<1> QED BY <1>1, <1>2, <1>3 DEF Secured

\* Job j counts the artifact it is at as a success.
Succeeds(j) == Counted(j, "reading", TRUE) \/ Counted(j, "renaming", TRUE)

LEMMA QuietCount ==
  ASSUME Typed, JobState, Batches, NEW j \in Jobs, Files(j), ~StartRewrapJob(j), ~Succeeds(j)
  PROVE  job'[j].success = job[j].success /\ job'[j].counted = job[j].counted
<1> USE DEF Succeeds
<1>c. ASSUME pc[j] = "reading" \/ Rewriting(j), NEW from,
             job' = job \/ Counted(j, from, FALSE)
      PROVE  job'[j].success = job[j].success /\ job'[j].counted = job[j].counted
  BY <1>c, CountedStep
<1>1. CASE FetchBatch(j)
  <2>1. PICK batch : Fetched(j, batch) BY <1>1 DEF FetchBatch
  <2> QED BY <2>1 DEF Fetched, JobState
<1>2. CASE ReadMeta(j)
  <2>1. pc[j] = "reading" /\ (job' = job \/ Counted(j, "reading", FALSE))
    BY <1>2 DEF ReadMeta
  <2> QED BY <1>c, <2>1
<1>3. CASE Rewrap(j)
  <2>1. Rewriting(j) /\ (job' = job \/ Counted(j, "unwrapping", FALSE))
    BY <1>3 DEF Rewrap, Go, Counted, Rewriting
  <2> QED BY <1>c, <2>1
<1>4. CASE OpenTemp(j)
  <2>1. Rewriting(j) /\ (job' = job \/ Counted(j, "opening", FALSE))
    BY <1>4 DEF OpenTemp, Go, Counted, Rewriting
  <2> QED BY <1>c, <2>1
<1>5. CASE WriteTemp(j)
  <2>1. Rewriting(j) /\ (job' = job \/ Counted(j, "writing", FALSE))
    BY <1>5 DEF WriteTemp, Go, Counted, Rewriting
  <2> QED BY <1>c, <2>1
<1>6. CASE Rename(j)
  <2>1. Rewriting(j) /\ job' = job BY <1>6 DEF Rename, Rewriting
  <2> QED BY <2>1
<1>7. CASE RemoveTemp(j)
  <2>1. Rewriting(j) /\ Counted(j, "removing", FALSE) BY <1>7 DEF RemoveTemp, Rewriting
  <2> QED BY <1>c, <2>1
<1>8. CASE Finish(j) BY <1>8 DEF Finish, JobState
<1> QED BY <1>1, <1>2, <1>3, <1>4, <1>5, <1>6, <1>7, <1>8 DEF Files

\* What it succeeds with was counted, is of its version, or half another's, and
\* no other job renames half a file of its own to it.
LEMMA SuccessMet ==
  ASSUME Typed, OneKey, FileTypes, JobInv, NEW j \in Jobs, Files(j), Succeeds(j),
         UNCHANGED setup.new, Unchallenged(j),
         \A i \in Jobs : i # j /\ Running(i) => setup.new[i] >= setup.new[j],
         NEW a \in Artifacts, a = Current(j)
  PROVE  a \in job[j].counted /\ Covered(j, a)' /\ Screened(j, a)'
<1> USE KeyRotationAssumption DEF KeyRotationAssumption, JobInv
<1>0. /\ pc[j] = "reading" \/ Rewriting(j)
      /\ pc[j] \in {"reading", "renaming"}
  BY DEF Succeeds, Counted, Go, Rewriting
<1>1. /\ a \in job[j].batch /\ pc'[j] \in {"fetching", "reading"}
      /\ job'[j].success = job[j].success + 1
  BY <1>0, CountedStep DEF Succeeds
<1>2. Running(j) BY <1>0 DEF Running, Rewriting, Rewrapping
<1>3. a > job[j].last /\ a \in Nat /\ job[j].last \in Nat /\ job[j].success \in Nat
      /\ \A i \in Jobs : setup.new[i] \in Nat
  BY <1>1 DEF Batches, JobState, JobRecords, Typed, Setup
<1>4. faulted \subseteq faulted' BY JobMovesOn
\* It has neither half a temporary open nor passed this artifact.
<1>5. ASSUME NEW i \in Jobs, Open(i, a) \/ (i \in faulted /\ Passed(i, a)) PROVE i # j
  <2>1. ~Open(j, a) BY <1>0 DEF Open, OpenInv
  <2>2. ~Passed(j, a) BY <1>2, <1>3 DEF Passed
  <2> QED BY <1>5, <2>1, <2>2
<1>6. a \in setup.metas => a \in job[j].counted BY <1>1, <1>2 DEF Batches
<1>7. CASE pc[j] = "reading"
  <2>1. ReadMeta(j)
    BY <1>7 DEF Files, StartRewrapJob, FetchBatch, Fetched, Rewrap, OpenTemp, WriteTemp, Rename,
                RemoveTemp, Finish, Counted, Go
  <2>2. /\ UNCHANGED files
        /\ meta[a] \notin {None, Part} /\ meta[a] >= setup.new[j]
    <3>1. ~Counted(j, "reading", FALSE)
      <4> SUFFICES ASSUME Counted(j, "reading", FALSE) PROVE FALSE
        OBVIOUS
      <4>1. job'[j].success = job[j].success BY <1>0, CountedStep
      <4> QED BY <1>1, <1>3, <4>1
    <3>2. pc'[j] # "unwrapping" BY <1>1
    <3>3. ~Go(j, "reading", "unwrapping") BY <1>0, <3>2 DEF Go, Typed, Actors
    <3> QED BY <2>1, <3>1, <3>3 DEF ReadMeta, rest
  <2>3. Covered(j, a)' BY <2>2 DEF Covered, files
  <2>4. Screened(j, a)'
    <3> SUFFICES ASSUME NEW i \in Jobs, Late(i, a)', temp'[a] = Part
                 PROVE  \E w \in Jobs \ {j} : Open(w, a)' \/ w \in faulted'
      BY DEF Screened
    <3>1. i # j BY <1>1 DEF Late
    <3>2. Late(i, a) /\ temp[a] = Part BY <2>2, <3>1, Others DEF Late, files
    <3>3. PICK w \in Jobs : Open(w, a) \/ (w \in faulted /\ Passed(w, a))
      BY <3>2 DEF HalfOwned
    <3>4. w # j BY <1>5, <3>3
    <3>5. Open(w, a) => Open(w, a)' BY <2>2, <3>4, Others DEF Open, files
    <3> QED BY <1>4, <3>3, <3>4, <3>5
  <2>5. a \in setup.metas BY <2>2 DEF MetaOrigin
  <2> QED BY <1>6, <2>3, <2>4, <2>5
<1>8. CASE pc[j] = "renaming"
  <2>1. /\ temp[a] # None /\ meta' = [meta EXCEPT ![a] = temp[a]]
        /\ temp' = [temp EXCEPT ![a] = None] /\ file' = Follow(a, "meta")
    BY <1>1, <1>8, FileKinds DEF Quiet, Opens, Writes, Breaks, Renames, Removes, Strays
  <2>2. meta'[a] = temp[a] /\ temp'[a] # Part BY <2>1 DEF FileTypes, Part
  <2>3. Screened(j, a)' BY <2>2 DEF Screened
  <2>4. a \in setup.metas BY <1>8 DEF MetaOrigin, Rewriting
  <2>5. Covered(j, a)'
    <3>1. CASE temp[a] = Part
      <4>1. PICK i \in Jobs : Open(i, a) \/ (i \in faulted /\ Passed(i, a))
        BY <1>8, <3>1 DEF HalfOwned, Late
      <4>2. i # j BY <1>5, <4>1
      <4>3. Halves(i, a)'
        <5>1. CASE i \in faulted BY <1>4, <5>1 DEF Halves
        <5>2. CASE Open(i, a)
          <6>1. file'[i] = "meta" BY <2>1, <5>2 DEF Open, Follow
          <6>2. job'[i].batch # {} /\ Current(i)' = a BY <4>2, <5>2, Others DEF Open
          <6> QED BY <6>1, <6>2 DEF Halves
        <5> QED BY <4>1, <5>1, <5>2
      <4> QED BY <2>2, <3>1, <4>2, <4>3 DEF Covered
    <3>2. CASE temp[a] # Part
      <4>1. PICK i \in Jobs :
              /\ temp[a] = setup.new[i]
              /\ i \in stray \/ (pc[i] \in {"renaming", "removing"} /\ Current(i) = a)
        BY <1>8, <2>1, <3>2 DEF TempOwned
      <4>2. setup.new[i] >= setup.new[j]
        <5>1. CASE i \in stray BY <5>1 DEF Unchallenged
        <5>2. CASE i = j BY <1>3, <5>2
        <5>3. CASE i # j /\ pc[i] \in {"renaming", "removing"}
          BY <5>3 DEF Running, Rewrapping
        <5> QED BY <4>1, <5>1, <5>2, <5>3
      <4> QED BY <2>1, <2>2, <3>2, <4>1, <4>2 DEF Covered
    <3> QED BY <3>1, <3>2
  <2> QED BY <1>6, <2>3, <2>4, <2>5
<1> QED BY <1>0, <1>7, <1>8

LEMMA MetKept ==
  ASSUME Typed, OneKey, FileTypes, JobInv, NEW j \in Jobs, Files(j),
         UNCHANGED <<setup.new, setup.metas, setup.active>>
  PROVE  MetCounted'
<1> USE KeyRotationAssumption DEF KeyRotationAssumption, JobInv
<1> SUFFICES ASSUME NEW k \in Jobs, Counts(k)', Unchallenged(k)'
             PROVE  \E S \in SUBSET job'[k].counted : Met(k, S)'
  BY DEF MetCounted
<1>1. Unchallenged(k) BY ChallengesGrow
<1>s. CASE k = j /\ StartRewrapJob(j)
  <2>1. job'[j].success = 0 /\ Cardinality({}) = 0
    BY <1>s, FS_EmptySet DEF StartRewrapJob, JobState
  <2>2. Met(j, {})' BY <2>1 DEF Met
  <2> QED BY <1>s, <2>2
<1>r. CASE ~(k = j /\ StartRewrapJob(j))
  <2>0. Counts(k)
    <3>1. CASE k = j BY <1>r, <3>1, RunsAtFiles DEF Counts
    <3>2. CASE k # j BY <3>2, Others DEF Counts
    <3> QED BY <3>1, <3>2
  <2>1. PICK S \in SUBSET job[k].counted : Met(k, S) BY <1>1, <2>0 DEF MetCounted
  <2>2. S \in SUBSET Artifacts /\ IsFiniteSet(S)
    <3>1. S \in SUBSET Artifacts BY DEF JobState, JobRecords
    <3> QED BY <3>1, FS_Subset
  <2>3. ASSUME NEW a \in S PROVE Secured(k, a)'
    <3>1. a \in Artifacts /\ a <= job[k].last /\ Secured(k, a) BY <2>1, <2>2 DEF Met
    <3> QED BY <1>1, <3>1, SuccessKept
  <2>4. ASSUME job'[k].success = job[k].success, job'[k].counted = job[k].counted,
               job'[k].last >= job[k].last
        PROVE  \E T \in SUBSET job'[k].counted : Met(k, T)'
    <3>1. ASSUME NEW a \in S PROVE a <= job'[k].last
      <4>1. a \in Nat /\ job[k].last \in Nat /\ a <= job[k].last
        BY <2>1, <2>2 DEF JobState, JobRecords, Met
      <4>2. job'[k].last \in Nat BY JobFrame DEF JobState, JobRecords
      <4> QED BY <2>4, <4>1, <4>2
    <3>2. Met(k, S)' BY <2>1, <2>3, <2>4, <3>1 DEF Met
    <3> QED BY <2>4, <3>2
  <2>5. CASE k # j
    <3>1. job'[k] = job[k] /\ job[k].last \in Nat BY <2>5, JobFrame DEF JobState, JobRecords
    <3> QED BY <2>4, <3>1
  <2>6. CASE k = j /\ ~Succeeds(j)
    <3>1. job'[j].success = job[j].success /\ job'[j].counted = job[j].counted
      BY <1>r, <2>6, QuietCount
    <3>2. Running(j) BY <1>r, <2>6, RunsAtFiles
    <3>3. job'[j].last >= job[j].last
      BY <3>2, JobMovesOn DEF Running, Getting, Rewrapping
    <3> QED BY <2>4, <2>6, <3>1, <3>3
  \* A success: the artifact was counted, and was not a success before.
  <2>7. CASE k = j /\ Succeeds(j)
    <3>b. pc[j] = "reading" \/ Rewriting(j) BY <2>7 DEF Succeeds, Counted, Go, Rewriting
    <3>c. /\ Current(j) \in job[j].batch /\ job'[j].last = Current(j)
          /\ job'[j].success = job[j].success + 1 /\ job'[j].counted = job[j].counted
          /\ pc'[j] \in {"fetching", "reading"}
      BY <2>7, <3>b, CountedStep DEF Succeeds
    <3>0. PICK a \in Artifacts : a = Current(j) BY <3>c DEF JobState, JobRecords
    <3> DEFINE T == S \cup {a}
    <3>1. Running(j) BY <3>b DEF Running, Rewriting, Rewrapping
    <3>2. /\ a \in Nat /\ a > job[j].last /\ job[j].last \in Nat
          /\ setup.new[j] \in Nat /\ \A i \in Jobs : setup.new[i] \in Nat
      BY <3>0, <3>c DEF JobState, JobRecords, Batches, Typed, Setup
    <3>3. \A i \in Jobs : i # j /\ Running(i) => setup.new[i] >= setup.new[j]
      BY <1>1, <2>7, <3>1 DEF CrossedAtOnce, Unchallenged
    <3>5. a \in job[j].counted /\ Covered(j, a)' /\ Screened(j, a)'
      BY <1>1, <2>7, <3>0, <3>1, <3>3, SuccessMet
    <3>6. Guarded(j, a)'
      <4> SUFFICES ASSUME NEW i \in Jobs, Rewriting(i)', Current(i)' = a
                   PROVE  setup.new[i] >= setup.new[j]
        BY DEF Guarded
      <4>1. i # j BY <3>c DEF Rewriting
      <4>2. Running(i) BY <4>1, Others DEF Running, Rewriting, Rewrapping
      <4> QED BY <3>3, <4>1, <4>2
    <3>7. ASSUME NEW s \in S PROVE s < a
      <4>1. s \in Nat /\ s <= job[j].last BY <2>1, <2>2, <2>7 DEF Met
      <4> QED BY <3>2, <4>1
    <3>8. a \notin S
      <4>1. ~(a < a) BY <3>2
      <4> QED BY <3>7, <4>1
    <3>9. Cardinality(T) = job[j].success + 1
      BY <2>1, <2>2, <2>7, <3>8, FS_AddElement DEF Met
    <3>10. ASSUME NEW s \in T PROVE s <= a
      <4>1. CASE s = a BY <3>2, <4>1
      <4>2. CASE s \in S
        <5>1. s \in Nat /\ s < a BY <2>2, <3>7, <4>2
        <5> QED BY <3>2, <5>1
      <4> QED BY <4>1, <4>2
    <3>11. \A s \in T : Secured(j, s)'
      BY <2>3, <2>7, <3>5, <3>6 DEF Secured
    <3>12. Met(j, T)' BY <3>0, <3>9, <3>10, <3>11, <3>c DEF Met
    <3>13. T \in SUBSET job'[j].counted BY <2>7, <3>5, <3>c
    <3> QED BY <2>7, <3>12, <3>13
  <2> QED BY <2>5, <2>6, <2>7
<1> QED BY <1>s, <1>r

\* Any other step but a crash starts no job, leaves the files and adds no
\* artifact that has a meta.json.
LEMMA RestKept ==
  ASSUME FileTypes, JobInv, JobState',
         UNCHANGED <<setup.new, setup.metas, setup.active>>,
         UNCHANGED <<files, crossed, stray>>, faulted \subseteq faulted',
         \A j \in Jobs : \/ pc'[j] = pc[j]
                         \/ /\ Running(j) /\ pc[j] # "reading" /\ ~Rewriting(j)
                            /\ pc'[j] \notin {"reading", "done", "new"} /\ ~Rewriting(j)',
         \A j \in Jobs : /\ job'[j].counted = job[j].counted
                         /\ job'[j].success = job[j].success
                         /\ job'[j].last = job[j].last
                         /\ job'[j].batch = job[j].batch
                         /\ job'[j].status = "completed" => job[j].status = "completed",
         \A j \in Jobs : Running(j)' => Running(j),
         \A u \in Artifacts : pc'[u] # "dead" => pc[u] # "dead",
         \A a \in stored' \ stored : a \notin setup.metas
  PROVE  JobInv'
<1> USE DEF JobInv
<1>1. \A j \in Jobs : Current(j)' = Current(j) BY DEF Current
<1>2. \A j \in Jobs : Rewriting(j)' <=> Rewriting(j) BY DEF Rewriting
<1>3. \A j \in Jobs : \A where \in {"reading", "writing", "renaming", "removing"} :
        pc'[j] = where <=> pc[j] = where
  BY DEF Rewriting
<1>4. Batches'
  <2> SUFFICES ASSUME NEW j \in Jobs
               PROVE  /\ pc'[j] = "reading" \/ Rewriting(j)' => job'[j].batch # {}
                      /\ \A a \in job'[j].batch : a > job'[j].last
                      /\ Running(j)' => (stored' \cup job'[j].batch) \cap setup'.metas
                                          \subseteq job'[j].counted
                      /\ job'[j].status = "completed" =>
                           pc'[j] = "done" /\ job'[j].success = Cardinality(job'[j].counted)
    BY DEF Batches
  <2>1. pc[j] = "done" => pc'[j] = "done" BY DEF Running, Getting, Rewrapping
  <2> QED BY <1>2, <1>3, <2>1 DEF Batches
<1>5. MetaOrigin' BY <1>1, <1>2 DEF MetaOrigin, files
<1>6. CrossedAtOnce' BY DEF CrossedAtOnce
<1>7. OpenInv' BY <1>3 DEF OpenInv, files
<1>8. \A j \in Jobs, a \in Artifacts : /\ Late(j, a)' <=> Late(j, a)
                                       /\ Open(j, a)' <=> Open(j, a)
                                       /\ Halves(j, a) => Halves(j, a)'
  BY <1>1, <1>3 DEF Late, Open, Halves, files
<1>9. \A j \in Jobs, a \in Artifacts : Passed(j, a) => Passed(j, a)' BY DEF Passed
<1>10. HalfOwned'
  <2> SUFFICES ASSUME NEW k \in Jobs, NEW a \in Artifacts, Late(k, a)', temp'[a] = Part
               PROVE  \E i \in Jobs : Open(i, a)' \/ (i \in faulted' /\ Passed(i, a)')
    BY DEF HalfOwned
  <2>1. Late(k, a) /\ temp[a] = Part BY <1>8 DEF files
  <2>2. PICK i \in Jobs : Open(i, a) \/ (i \in faulted /\ Passed(i, a))
    BY <2>1 DEF HalfOwned
  <2> QED BY <1>8, <1>9, <2>2
<1>11. TempOwned' BY <1>1, <1>3 DEF TempOwned, files
<1>12. ASSUME NEW k \in Jobs, NEW a \in Artifacts, Secured(k, a) PROVE Secured(k, a)'
  <2>1. Covered(k, a)' BY <1>8, <1>12 DEF Secured, Covered, files
  <2>2. Guarded(k, a)' BY <1>1, <1>2, <1>12 DEF Secured, Guarded
  <2>3. Screened(k, a)'
    <3> SUFFICES ASSUME NEW i \in Jobs, Late(i, a)', temp'[a] = Part
                 PROVE  \E w \in Jobs \ {k} : Open(w, a)' \/ w \in faulted'
      BY DEF Screened
    <3>1. Late(i, a) /\ temp[a] = Part BY <1>8 DEF files
    <3>2. PICK w \in Jobs \ {k} : Open(w, a) \/ w \in faulted
      BY <1>12, <3>1 DEF Secured, Screened
    <3> QED BY <1>8, <3>2
  <2> QED BY <2>1, <2>2, <2>3 DEF Secured
<1>13. MetCounted'
  <2> SUFFICES ASSUME NEW k \in Jobs, Counts(k)', Unchallenged(k)'
               PROVE  \E S \in SUBSET job'[k].counted : Met(k, S)'
    BY DEF MetCounted
  <2>1. Unchallenged(k) /\ Counts(k) BY DEF Unchallenged, Counts
  <2>2. PICK S \in SUBSET job[k].counted : Met(k, S) BY <2>1 DEF MetCounted
  <2>3. S \in SUBSET Artifacts BY DEF JobState, JobRecords
  <2>4. \A a \in S : Secured(k, a)' BY <1>12, <2>2, <2>3 DEF Met
  <2>5. Met(k, S)' BY <2>2, <2>4 DEF Met
  <2> QED BY <2>5
<1> QED BY <1>4, <1>5, <1>6, <1>7, <1>10, <1>11, <1>13

\* After a crash no job is at its files, and none has an outcome.
LEMMA CrashKept ==
  ASSUME JobInv, Crash, UNCHANGED <<setup.new, setup.metas, setup.active>>
  PROVE  JobInv'
<1> USE KeyRotationAssumption DEF KeyRotationAssumption, JobInv
<1>1. /\ pc' = [x \in Actors |-> IF pc[x] \in AtWork THEN "dead" ELSE pc[x]]
      /\ job' = [j \in Jobs |-> [job[j] EXCEPT !.status = "none", !.batch = {}]]
      /\ file' = [j \in Jobs |-> "none"]
      /\ UNCHANGED <<meta, temp, crossed, stored>>
  BY DEF Crash, hist
<1>2. /\ \A j \in Jobs : ~Running(j)' /\ pc'[j] # "reading" /\ ~Rewriting(j)'
      /\ \A u \in Artifacts : pc'[u] # "dead" => pc[u] # "dead"
  BY <1>1 DEF AtWork, Actors, Getting, Rewrapping, Running, Rewriting
<1>3. ASSUME NEW j \in Jobs
      PROVE  job'[j] \in JobRecords /\ job'[j].batch = {} /\ job'[j].status = "none"
  <2>1. job[j] \in JobRecords /\ job'[j] = [job[j] EXCEPT !.status = "none", !.batch = {}]
    BY <1>1 DEF JobState
  <2> QED BY <2>1 DEF JobRecords
<1>4. JobState'
  <2>1. job' \in [Jobs -> JobRecords] BY <1>1, <1>3
  <2> QED BY <1>1, <2>1 DEF JobState
<1>5. Batches' /\ CrossedAtOnce' BY <1>2, <1>3 DEF Batches, CrossedAtOnce
<1>6. MetaOrigin' BY <1>1, <1>2 DEF MetaOrigin
<1>7. OpenInv' BY <1>1 DEF OpenInv
<1>8. HalfOwned' /\ TempOwned' BY <1>2 DEF HalfOwned, TempOwned, Late, Rewriting
<1>9. \A j \in Jobs : ~Counts(j)' BY <1>2, <1>3 DEF Counts
<1>10. MetCounted' BY <1>9 DEF MetCounted
<1> QED BY <1>4, <1>5, <1>6, <1>7, <1>8, <1>10

LEMMA JobSteps ==
  Typed /\ OneKey /\ FileTypes /\ JobInv /\ [Next]_vars => JobInv'
<1> USE KeyRotationAssumption DEF KeyRotationAssumption
<1> SUFFICES ASSUME Typed, OneKey, FileTypes, JobInv, [Next]_vars PROVE JobInv'
  OBVIOUS
<1>0. UNCHANGED <<setup.new, setup.metas, setup.active>> BY SceneStays
<1>1. ASSUME NEW j \in Jobs, Files(j) PROVE JobInv'
  BY <1>0, <1>1, JobFrame, BatchesKept, OriginKept, CrossedKept, OpenKept, HalfKept, OwnedKept,
     MetKept DEF JobInv
<1>2. ASSUME NEW x \in Actors, Step(x), ~(x \in Jobs /\ Files(x)) PROVE JobInv'
  <2>1. /\ UNCHANGED <<files, crossed, stray>> /\ faulted \subseteq faulted'
        /\ \/ job' = job
           \/ x \in Jobs /\ job' = [job EXCEPT ![x].status = "failed"]
    BY <1>2, FilesStay
  <2>2. /\ \A j \in Jobs : \/ pc'[j] = pc[j]
                           \/ /\ Running(j) /\ pc[j] # "reading" /\ ~Rewriting(j)
                              /\ pc'[j] \notin {"reading", "done", "new"} /\ ~Rewriting(j)'
        /\ \A u \in Artifacts : pc'[u] # "dead" => pc[u] # "dead"
        /\ \/ stored' = stored
           \/ x \in Artifacts /\ pc[x] # "dead" /\ stored' = stored \cup {x}
    BY <1>2, OtherSteps
  <2>3. /\ job' \in [Jobs -> JobRecords]
        /\ \A j \in Jobs : /\ job'[j].counted = job[j].counted
                           /\ job'[j].success = job[j].success
                           /\ job'[j].last = job[j].last
                           /\ job'[j].batch = job[j].batch
                           /\ job'[j].status = "completed" => job[j].status = "completed"
    <3>1. CASE job' = job BY <3>1 DEF JobInv, JobState
    <3>2. CASE x \in Jobs /\ job' = [job EXCEPT ![x].status = "failed"]
      BY <3>2 DEF JobInv, JobState, JobRecords
    <3> QED BY <2>1, <3>1, <3>2
  <2>4. JobState' BY <2>1, <2>2, <2>3 DEF JobInv, JobState
  <2>5. \A a \in stored' \ stored : a \notin setup.metas BY <2>2 DEF JobInv, MetaOrigin
  <2>6. \A j \in Jobs : Running(j)' => Running(j) BY <2>2 DEF Running
  <2> QED BY <1>0, <2>1, <2>2, <2>3, <2>4, <2>5, <2>6, RestKept
<1>3. ASSUME UNCHANGED <<files, pc, crossed, stray, faulted>>, stored' \in SUBSET stored,
             job' = job \/ \E i \in Jobs : job' = [job EXCEPT ![i].status = "cancelled"]
      PROVE  JobInv'
  <2>1. /\ JobState'
        /\ \A j \in Jobs : /\ job'[j].counted = job[j].counted
                           /\ job'[j].success = job[j].success
                           /\ job'[j].last = job[j].last /\ job'[j].batch = job[j].batch
                           /\ job'[j].status = "completed" => job[j].status = "completed"
    BY <1>3 DEF JobInv, JobState, JobRecords
  <2>2. \A j \in Jobs : Running(j)' => Running(j) BY <1>3 DEF Running
  <2> QED BY <1>0, <1>3, <2>1, <2>2, RestKept
<1>4. ASSUME NEW u \in Artifacts, Delete(u) PROVE JobInv'
  BY <1>3, <1>4 DEF Delete, hist
<1>5. ASSUME NEW i \in Jobs, CancelJob(i) PROVE JobInv'
  BY <1>3, <1>5 DEF CancelJob, hist
<1>6. CASE ExpireKey BY <1>3, <1>6 DEF ExpireKey, hist
<1>7. CASE Crash BY <1>0, <1>7, CrashKept
<1>8. CASE UNCHANGED vars BY <1>3, <1>8 DEF vars, hist
<1> QED BY <1>1, <1>2, <1>4, <1>5, <1>6, <1>7, <1>8
        DEF Next, Upload, Rotation, Process, Step, Files, Actors

\* A job that says completed brought every artifact it had counted to its
\* version, whatever was added or deleted on the way, failed and was tried
\* again, unless a job for a lower version interfered.  If it left half a
\* meta.json, then that is what another job has open or failed to write.
THEOREM CompletedJobs == Spec => []CompletedMeansRewrapped
<1> USE KeyRotationAssumption DEF KeyRotationAssumption
<1>1. Init => FileTypes /\ Alone /\ JobInv
  <2> SUFFICES ASSUME Init PROVE FileTypes /\ Alone /\ JobInv
    OBVIOUS
  <2>1. FileTypes /\ Alone
    BY DEF Init, FileTypes, Alone, Running, Getting, Rewrapping, Part, Actors
  <2>2. setup \in Setup /\ setup \in Setups BY DEF Init
  <2>3. JobState
    BY <2>2 DEF Init, JobState, JobRecords, Setup
  <2>4. \A j \in Jobs : pc[j] \in {"new", "dead"} /\ job[j].status = "none" /\ job[j].batch = {}
    BY DEF Init, Actors
  <2>5. Batches /\ CrossedAtOnce /\ TempOwned /\ HalfOwned
    BY <2>4 DEF Batches, CrossedAtOnce, TempOwned, HalfOwned, Late, Running, Rewriting, Getting,
                Rewrapping
  <2>6. MetaOrigin
    BY <2>2, <2>4 DEF Init, MetaOrigin, Rewriting, Actors
  <2>7. OpenInv BY DEF Init, OpenInv
  <2>8. MetCounted BY <2>4 DEF MetCounted, Counts, Running, Getting, Rewrapping
  <2> QED BY <2>1, <2>3, <2>5, <2>6, <2>7, <2>8 DEF JobInv
<1>2. JobInv => CompletedMeansRewrapped
  <2> SUFFICES ASSUME JobInv, NEW j \in Jobs, job[j].status = "completed", Unchallenged(j),
                      NEW a \in job[j].counted
               PROVE  Covered(j, a)
    BY DEF CompletedMeansRewrapped, Covered
  <2>1. PICK S \in SUBSET job[j].counted : Met(j, S)
    BY DEF JobInv, MetCounted, Counts
  <2>2. Cardinality(S) = Cardinality(job[j].counted)
    BY <2>1 DEF JobInv, Batches, Met
  <2>3. IsFiniteSet(job[j].counted)
    BY FS_Subset DEF JobInv, JobState, JobRecords
  <2>4. S = job[j].counted BY <2>1, <2>2, <2>3, FS_Subset
  <2> QED BY <2>1, <2>4 DEF Met, Secured
<1>3. Typed /\ OneKey /\ FileTypes /\ Alone /\ JobInv /\ [Next]_vars => (FileTypes /\ Alone /\ JobInv)'
  BY AloneSteps, JobSteps
<1> QED BY <1>1, <1>2, <1>3, OneKeyHolds, PTL DEF Spec
=============================================================================
