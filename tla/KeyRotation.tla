---------------------------- MODULE KeyRotation ----------------------------
(***************************************************************************)
(* The master key of one tenant and the jobs that re-wrap the data keys of  *)
(* its artifacts (internal/encrypt/tmk_service.go, key_cache.go,            *)
(* rewrap_service.go, with the callers in upload_download_handler.go and    *)
(* encryption_admin_handler.go).                                            *)
(*                                                                          *)
(* An upload asks for the tenant's key and makes one if it gets none; a     *)
(* rotation replaces the key in a transaction; a re-wrap job goes through   *)
(* the tenant's encrypted artifacts in batches and rewrites the meta.json   *)
(* of each.  tenant_master_keys allows one row per tenant, so a rotation    *)
(* can insert its key only where there is none, and a key's version never   *)
(* passes 1.  No code writes a first meta.json: which artifacts have one    *)
(* (from a restored store, say) is part of the setup.                       *)
(***************************************************************************)
EXTENDS Naturals, FiniteSets

CONSTANTS
  Artifacts,   \* artifact ids, in the order of their rows; each an upload too
  Rotations,   \* calls of RotateTMK
  Jobs,        \* calls of StartRewrapJob, each with its goroutine
  BatchSize,   \* artifacts per batch
  OldKey,      \* the key of a tenant that has one
  None,        \* no row, no key, no file
  Setups       \* scenarios with their bounds: see Setup

Actors == Artifacts \cup Rotations \cup Jobs

\* keyed: the tenant has a key already; stored: its encrypted artifacts;
\* metas: those with a meta.json, of version 1; active: who acts at all;
\* versions: the new version each job was given; old: the old one.
Setup == [keyed: BOOLEAN, stored: SUBSET Artifacts, metas: SUBSET Artifacts,
          active: SUBSET Actors, new: [Jobs -> Nat \ {0}], old: [Jobs -> Nat],
          faults: Nat, crashes: Nat, deletes: Nat]

KeyRow == [key: Actors \cup {OldKey}, active: BOOLEAN]

ASSUME KeyRotationAssumption ==
  /\ Artifacts \subseteq Nat \ {0} /\ IsFiniteSet(Artifacts)
  /\ Rotations \cap Artifacts = {} /\ Jobs \cap Artifacts = {} /\ Jobs \cap Rotations = {}
  /\ BatchSize \in Nat \ {0}
  /\ {None, OldKey} \cap Actors = {} /\ None # OldKey
  /\ None \notin Nat \cup KeyRow
  /\ Setups \subseteq Setup
  \* The id of an upload is new: it has no row yet and no file is named for it.
  /\ \A s \in Setups : s.active \cap (s.stored \cup s.metas) = {}

VARIABLES
  setup,     \* the scenario, with what is left of its bounds
  row,       \* the tenant's row of tenant_master_keys, or None
  lock,      \* the rotation whose transaction holds the row, or None
  cache,     \* the key cached for version 1, or None
  pc,        \* [Actors -> where it is]
  got,       \* [Actors -> the key it read or was given, or None]
  stored,    \* artifacts with a row that says encrypted
  meta,      \* [Artifacts -> version in meta.json, Part, or None]
  temp,      \* [Artifacts -> the same of meta.json.tmp]
  file,      \* [Jobs -> which of the two names its open file has]
  job,       \* [Jobs -> the job's record in memory]
  begun,     \* history: artifacts whose upload found a key when it asked
  faulted,   \* history: actors one of whose calls failed
  crossed,   \* history: pairs of jobs that ran at the same time
  stray      \* history: jobs that could neither rename nor remove a temporary

keys  == <<row, lock, cache>>
files == <<meta, temp, file>>
hist  == <<begun, faulted, crossed, stray>>
vars  == <<setup, keys, pc, got, stored, files, job, hist>>

Part  == 0   \* a file that was opened and is not written

Getting   == {"query", "cached", "decrypt"}
Creating  == {"creating", "caching", "have"}
Rotating  == {"update", "locked", "insert", "caching"}
Rewrapping == {"fetching", "reading", "unwrapping", "opening", "writing",
               "renaming", "removing", "finishing"}
Ended     == {"stored", "refused", "rotated", "done", "dead"}
AtWork    == Getting \cup Creating \cup Rotating \cup Rewrapping

JobRecords == [status: {"none", "running", "cancelled", "completed", "failed"},
               counted: SUBSET Artifacts, success: Nat, last: Nat,
               batch: SUBSET Artifacts]

TypeOK ==
  /\ setup \in Setup
  /\ row \in KeyRow \cup {None}
  /\ lock \in Rotations \cup {None}
  /\ cache \in Actors \cup {OldKey, None}
  /\ pc \in [Actors -> {"new"} \cup AtWork \cup Ended]
  /\ got \in [Actors -> Actors \cup {OldKey, None}]
  /\ stored \in SUBSET Artifacts
  /\ meta \in [Artifacts -> Nat \cup {None}] /\ temp \in [Artifacts -> Nat \cup {None}]
  /\ file \in [Jobs -> {"none", "temp", "meta"}]
  /\ job \in [Jobs -> JobRecords]
  /\ begun \in SUBSET Artifacts /\ faulted \in SUBSET Actors
  /\ crossed \in SUBSET (Jobs \X Jobs) /\ stray \in SUBSET Jobs
  /\ \A j \in Jobs : pc[j] \in Rewrapping \ {"fetching", "finishing"} => job[j].batch # {}

Init ==
  /\ setup \in Setups
  /\ row = IF setup.keyed THEN [key |-> OldKey, active |-> TRUE] ELSE None
  /\ lock = None /\ cache = None
  /\ pc = [x \in Actors |-> IF x \in setup.active THEN "new" ELSE "dead"]
  /\ got = [x \in Actors |-> None]
  /\ stored = setup.stored
  /\ meta = [a \in Artifacts |-> IF a \in setup.metas THEN 1 ELSE None]
  /\ temp = [a \in Artifacts |-> None]
  /\ file = [j \in Jobs |-> "none"]
  /\ job = [j \in Jobs |-> [status |-> "none", counted |-> {}, success |-> 0,
                            last |-> 0, batch |-> {}]]
  /\ begun = {} /\ faulted = {} /\ crossed = {} /\ stray = {}

Go(x, from, to) == pc[x] = from /\ pc' = [pc EXCEPT ![x] = to]

Spend(what) == setup[what] > 0 /\ setup' = [setup EXCEPT ![what] = @ - 1]

\* A call of x to the database or the key management service fails.
Fault(x) == Spend("faults") /\ faulted' = faulted \cup {x}
NoFault  == UNCHANGED <<setup, faulted>>

-----------------------------------------------------------------------------
(* GetActiveTMK, for an upload or a job. *)

rest == <<stored, files, crossed, stray>>

HasKey == row # None /\ row.active

\* An upload that gets an error, whichever, makes a key; a job gives up.
GetFails(x, from) ==
  /\ Go(x, from, IF x \in Jobs THEN "finishing" ELSE "creating")
  /\ job' = IF x \in Jobs THEN [job EXCEPT ![x].status = "failed"] ELSE job

Query(x) ==
  /\ begun' = IF x \in Artifacts /\ row # None THEN begun \cup {x} ELSE begun
  /\ \/ /\ HasKey /\ Go(x, "query", "cached")
        /\ got' = [got EXCEPT ![x] = row.key]
        /\ NoFault /\ UNCHANGED job
     \/ /\ ~HasKey /\ GetFails(x, "query")
        /\ NoFault /\ UNCHANGED got
     \/ GetFails(x, "query") /\ Fault(x) /\ UNCHANGED got
  /\ UNCHANGED <<keys, rest>>

Got(x) == IF x \in Jobs THEN "fetching" ELSE "have"

CacheHit(x) ==
  /\ cache # None /\ Go(x, "cached", Got(x))
  /\ got' = [got EXCEPT ![x] = cache]
  /\ NoFault /\ UNCHANGED <<keys, job, begun, rest>>

CacheMiss(x) ==
  /\ cache = None /\ Go(x, "cached", "decrypt")
  /\ NoFault /\ UNCHANGED <<keys, got, job, begun, rest>>

Decrypt(x) ==
  /\ \/ Go(x, "decrypt", Got(x)) /\ cache' = got[x] /\ NoFault /\ UNCHANGED job
     \/ GetFails(x, "decrypt") /\ Fault(x) /\ UNCHANGED cache
  /\ UNCHANGED <<row, lock, got, begun, rest>>

-----------------------------------------------------------------------------
(* CreateTMK, and the upload around it. *)

Ask(u) ==
  /\ Go(u, "new", "query")
  /\ NoFault /\ UNCHANGED <<keys, got, job, begun, rest>>

\* Mutant: the key is cached before it is stored.
CreateCached(u) ==
  /\ Go(u, "creating", IF row = None THEN "have" ELSE "refused")
  /\ cache' = u
  /\ got' = [got EXCEPT ![u] = u]
  /\ row' = IF row = None THEN [key |-> u, active |-> TRUE] ELSE row
  /\ NoFault /\ UNCHANGED <<lock, job, begun, rest>>

\* The insert meets the unique constraint if there is a row, active or not.
Create(u) ==
  /\ \/ /\ row = None /\ Go(u, "creating", "caching")
        /\ row' = [key |-> u, active |-> TRUE]
        /\ got' = [got EXCEPT ![u] = u]
        /\ NoFault
     \/ /\ row # None /\ Go(u, "creating", "refused")
        /\ NoFault /\ UNCHANGED <<row, got>>
     \/ Go(u, "creating", "refused") /\ Fault(u) /\ UNCHANGED <<row, got>>
  /\ UNCHANGED <<lock, cache, job, begun, rest>>

CacheNew(x) ==
  /\ Go(x, "caching", IF x \in Artifacts THEN "have" ELSE "rotated")
  /\ cache' = got[x]
  /\ NoFault /\ UNCHANGED <<row, lock, got, job, begun, rest>>

\* The artifact is encrypted and its row says so; ArtifactUpload has the steps.
Store(u) ==
  /\ Go(u, "have", "stored")
  /\ stored' = stored \cup {u}
  /\ NoFault /\ UNCHANGED <<keys, got, job, begun, files, crossed, stray>>

Delete(a) ==
  /\ a \in stored /\ Spend("deletes")
  /\ stored' = stored \ {a}
  /\ UNCHANGED <<keys, pc, got, job, files, hist>>

Upload(u) ==
  Query(u) \/ CacheHit(u) \/ CacheMiss(u) \/ Decrypt(u) \/ Create(u) \/ CacheNew(u) \/ Store(u)

-----------------------------------------------------------------------------
(* RotateTMK.  What its transaction wrote is seen when it commits. *)

Unlocked(r) == lock' = IF lock = r THEN None ELSE lock

RollBack(r, from) == Go(r, from, "refused") /\ Unlocked(r)

BeginRotation(r) ==
  /\ \/ Go(r, "new", IF HasKey THEN "update" ELSE "insert") /\ NoFault
     \/ Go(r, "new", "refused") /\ Fault(r)
  /\ UNCHANGED <<keys, got, job, begun, rest>>

\* Mutant: the update runs on the database and not in the transaction.
DeactivateAtOnce(r) ==
  /\ lock = None /\ Go(r, "update", "locked")
  /\ lock' = r
  /\ row' = [row EXCEPT !.active = FALSE]
  /\ NoFault /\ UNCHANGED <<cache, got, job, begun, rest>>

\* The update locks the row, after any other rotation is through with it.
Deactivate(r) ==
  /\ lock = None
  /\ \/ Go(r, "update", "locked") /\ lock' = r /\ NoFault
     \/ RollBack(r, "update") /\ Fault(r)
  /\ UNCHANGED <<row, cache, got, job, begun, rest>>

DeleteCached(r) ==
  /\ Go(r, "locked", "insert")
  /\ cache' = None
  /\ NoFault /\ UNCHANGED <<row, lock, got, job, begun, rest>>

\* The new key is encrypted and inserted, and the transaction commits; or one
\* of these fails, the insert always if the tenant has a row.
InsertRotated(r) ==
  /\ \/ /\ row = None /\ Go(r, "insert", "caching") /\ Unlocked(r)
        /\ row' = [key |-> r, active |-> TRUE]
        /\ got' = [got EXCEPT ![r] = r]
        /\ NoFault
     \/ /\ row # None /\ RollBack(r, "insert")
        /\ NoFault /\ UNCHANGED <<row, got>>
     \/ RollBack(r, "insert") /\ Fault(r) /\ UNCHANGED <<row, got>>
  /\ UNCHANGED <<cache, job, begun, rest>>

Rotation(r) == Deactivate(r) \/ DeleteCached(r) \/ InsertRotated(r) \/ CacheNew(r)

-----------------------------------------------------------------------------
(* Re-wrap jobs. *)

Running(j) == pc[j] \in Getting \cup Rewrapping

\* The artifacts are counted, the record is registered and the goroutine runs.
StartRewrapJob(j) ==
  /\ Go(j, "new", "query")
  /\ job' = [job EXCEPT ![j] = [status |-> "running", counted |-> stored,
                                success |-> 0, last |-> 0, batch |-> {}]]
  /\ LET others == {k \in Jobs \ {j} : Running(k)} IN
       crossed' = crossed \cup ({j} \X others) \cup (others \X {j})
  /\ NoFault /\ UNCHANGED <<keys, got, stored, files, begun, stray>>

\* CancelJob sets the status, which nothing in the goroutine reads.
CancelJob(j) ==
  /\ job[j].status = "running"
  /\ job' = [job EXCEPT ![j].status = "cancelled"]
  /\ UNCHANGED <<setup, keys, pc, got, stored, files, hist>>

later(j) == {a \in stored : a > job[j].last}

Upcoming(j) == {a \in later(j) : Cardinality({b \in later(j) : b < a}) < BatchSize}

\* The job goes through these; without any it is at its end.
Fetched(j, batch) ==
  /\ Go(j, "fetching", IF batch = {} THEN "finishing" ELSE "reading")
  /\ job' = [job EXCEPT ![j].batch = batch]

\* The next artifacts by id after the last one.  If the query fails there are
\* none; a row that cannot be scanned is passed over, and an error that ends
\* the rows early is not looked at.
FetchBatch(j) ==
  /\ \/ Fetched(j, Upcoming(j)) /\ NoFault
     \/ \E batch \in SUBSET Upcoming(j) : Fetched(j, batch) /\ Fault(j)
  /\ UNCHANGED <<keys, got, begun, rest>>

First(batch) == CHOOSE a \in batch : \A b \in batch : a <= b

Current(j) == First(job[j].batch)

\* Mutant: a failed artifact does not move lastID.
CountedIfGood(j, from, good) ==
  /\ Go(j, from, IF job[j].batch = {Current(j)} THEN "fetching" ELSE "reading")
  /\ job' = [job EXCEPT ![j].batch = @ \ {Current(j)},
               ![j].last = IF good THEN Current(j) ELSE @,
               ![j].success = IF good THEN @ + 1 ELSE @]

\* rewrapArtifact is back, with or without an error.
Counted(j, from, good) ==
  /\ Go(j, from, IF job[j].batch = {Current(j)} THEN "fetching" ELSE "reading")
  /\ job' = [job EXCEPT ![j].batch = @ \ {Current(j)}, ![j].last = Current(j),
               ![j].success = IF good THEN @ + 1 ELSE @]

\* Mutant: a meta.json that cannot be read is taken for done.
ReadMetaOrSkip(j) ==
  /\ pc[j] = "reading"
  /\ LET m == meta[Current(j)] IN
       \/ m \in {None, Part} /\ Counted(j, "reading", TRUE)
       \/ m \notin {None, Part} /\ m >= setup.new[j] /\ Counted(j, "reading", TRUE)
       \/ m \notin {None, Part} /\ m < setup.new[j] /\ Go(j, "reading", "unwrapping")
          /\ UNCHANGED job
  /\ NoFault /\ UNCHANGED <<keys, got, begun, rest>>

\* No file or half a file is an error; a version that is new enough is done.
ReadMeta(j) ==
  /\ pc[j] = "reading"
  /\ LET m == meta[Current(j)] IN
       \/ m \in {None, Part} /\ Counted(j, "reading", FALSE)
       \/ m \notin {None, Part} /\ m >= setup.new[j] /\ Counted(j, "reading", TRUE)
       \/ m \notin {None, Part} /\ m < setup.new[j] /\ Go(j, "reading", "unwrapping")
          /\ UNCHANGED job
  /\ NoFault /\ UNCHANGED <<keys, got, begun, rest>>

\* deriveKEK reads the row of the old version, which is 1 or not there; then
\* the data key is decrypted and encrypted again.
Rewrap(j) ==
  /\ \/ /\ row # None /\ setup.old[j] = 1 /\ Go(j, "unwrapping", "opening")
        /\ NoFault /\ UNCHANGED job
     \/ /\ row = None \/ setup.old[j] # 1
        /\ Counted(j, "unwrapping", FALSE) /\ NoFault
     \/ Counted(j, "unwrapping", FALSE) /\ Fault(j)
  /\ UNCHANGED <<keys, got, begun, rest>>

\* Mutant: meta.json itself is opened and written.
OpenInPlace(j) ==
  /\ Go(j, "opening", "writing")
  /\ meta' = [meta EXCEPT ![Current(j)] = Part]
  /\ file' = [file EXCEPT ![j] = "meta"]
  /\ NoFault /\ UNCHANGED <<keys, got, job, begun, temp, stored, crossed, stray>>

\* os.WriteFile on meta.json.tmp: opened and truncated, then written.
OpenTemp(j) ==
  /\ \/ /\ Go(j, "opening", "writing")
        /\ temp' = [temp EXCEPT ![Current(j)] = Part]
        /\ file' = [file EXCEPT ![j] = "temp"]
        /\ NoFault /\ UNCHANGED job
     \/ Counted(j, "opening", FALSE) /\ Fault(j) /\ UNCHANGED <<temp, file>>
  /\ UNCHANGED <<keys, got, begun, meta, stored, crossed, stray>>

\* The write goes to the open file, which another job may have renamed.
WriteTemp(j) ==
  LET a == Current(j) IN
    /\ \/ /\ Go(j, "writing", "renaming")
          /\ temp' = IF file[j] = "temp" THEN [temp EXCEPT ![a] = setup.new[j]] ELSE temp
          /\ meta' = IF file[j] = "meta" THEN [meta EXCEPT ![a] = setup.new[j]] ELSE meta
          /\ NoFault /\ UNCHANGED job
       \/ Counted(j, "writing", FALSE) /\ Fault(j) /\ UNCHANGED <<temp, meta>>
    /\ file' = [file EXCEPT ![j] = "none"]
    /\ UNCHANGED <<keys, got, begun, stored, crossed, stray>>

\* Files that jobs have open at a follow: what was the temporary is `then` now,
\* and what was meta.json has its name no longer if the temporary took it.
Follow(a, then) == [k \in Jobs |->
  IF job[k].batch = {} \/ Current(k) # a THEN file[k]
  ELSE IF file[k] = "temp" THEN then
  ELSE IF then = "meta" THEN "none" ELSE file[k]]

\* It fails if another job has taken the temporary away, or for any other reason.
Rename(j) ==
  LET a == Current(j) IN
    /\ pc[j] = "renaming"
    /\ \/ /\ temp[a] # None /\ Counted(j, "renaming", TRUE)
          /\ meta' = [meta EXCEPT ![a] = temp[a]]
          /\ temp' = [temp EXCEPT ![a] = None]
          /\ file' = Follow(a, "meta") /\ NoFault
       \/ /\ temp[a] = None /\ Go(j, "renaming", "removing")
          /\ NoFault /\ UNCHANGED <<files, job>>
       \/ Go(j, "renaming", "removing") /\ Fault(j) /\ UNCHANGED <<files, job>>
    /\ UNCHANGED <<keys, got, begun, stored, crossed, stray>>

\* os.Remove of the temporary, whosever it is by now; its error is dropped.
RemoveTemp(j) ==
  LET a == Current(j) IN
    /\ pc[j] = "removing" /\ Counted(j, "removing", FALSE)
    /\ \/ /\ temp' = [temp EXCEPT ![a] = None] /\ file' = Follow(a, "none")
          /\ NoFault /\ UNCHANGED stray
       \/ Fault(j) /\ stray' = stray \cup {j} /\ UNCHANGED <<temp, file>>
    /\ UNCHANGED <<keys, got, begun, meta, stored, crossed>>

\* The deferred function, which overwrites "cancelled".
Finish(j) ==
  /\ Go(j, "finishing", "done")
  /\ job' = [job EXCEPT ![j].status =
       IF job[j].success = Cardinality(job[j].counted) THEN "completed" ELSE "failed"]
  /\ NoFault /\ UNCHANGED <<keys, got, begun, rest>>

Process(j) ==
  \/ Query(j) \/ CacheHit(j) \/ CacheMiss(j) \/ Decrypt(j)
  \/ FetchBatch(j) \/ ReadMeta(j) \/ Rewrap(j) \/ OpenTemp(j) \/ WriteTemp(j)
  \/ Rename(j) \/ RemoveTemp(j) \/ Finish(j)

-----------------------------------------------------------------------------
\* The cached key is five minutes old.
ExpireKey ==
  /\ cache # None /\ cache' = None
  /\ UNCHANGED <<setup, row, lock, pc, got, stored, files, job, hist>>

\* The process restarts: transactions roll back, jobs and keys in memory go.
Crash ==
  /\ Spend("crashes")
  /\ pc' = [x \in Actors |-> IF pc[x] \in AtWork THEN "dead" ELSE pc[x]]
  /\ lock' = None /\ cache' = None
  /\ job' = [j \in Jobs |-> [job[j] EXCEPT !.status = "none", !.batch = {}]]
  /\ file' = [j \in Jobs |-> "none"]
  /\ UNCHANGED <<row, got, stored, meta, temp, hist>>

Next ==
  \/ \E u \in Artifacts : Ask(u) \/ Upload(u) \/ Delete(u)
  \/ \E r \in Rotations : BeginRotation(r) \/ Rotation(r)
  \/ \E j \in Jobs : StartRewrapJob(j) \/ CancelJob(j) \/ Process(j)
  \/ ExpireKey \/ Crash

Spec == Init /\ [][Next]_vars

\* A job's goroutine and the calls it makes run on; expiry does not keep up
\* with it.
Fairness == \A j \in Jobs : WF_vars(Process(j))

FairSpec == Spec /\ Fairness
-----------------------------------------------------------------------------
(* Properties. *)

Commits(r) == pc[r] = "insert" /\ pc'[r] = "caching"

\* A rotation that fails, at whatever step and in whatever company, leaves the
\* tenant the active key it had: only one that commits may put another in its
\* place, and nothing leaves the tenant without one.
KeyOutlivesRotations ==
  [][row # None => /\ row' # None /\ row'.active
                   /\ row'.key = row.key \/ \E r \in Rotations : Commits(r)]_vars

\* "RotateTMK creates a new TMK version and marks the old one inactive": unless
\* one of its calls fails, a rotation succeeds.
RotationsSucceed == \A r \in Rotations : pc[r] = "refused" => r \in faulted

\* Who has a key of the tenant from the cache or the database in hand: requests
\* and jobs that are being given it, a job until it is through with its files.
Holding == {"cached", "decrypt", "caching", "have", "stored", "rotated"} \cup
           (Rewrapping \ {"finishing"})

\* Whatever key is cached, is being given to an upload or a job, is used by a
\* job on its artifacts or was answered to a rotation is the key in the row: a
\* restart, which empties the cache, loses no key that anyone works with.
KeysInUseAreStored ==
  /\ cache # None => row # None /\ cache = row.key
  /\ \A x \in Actors : pc[x] \in Holding => row # None /\ got[x] = row.key

\* "Create TMK if it doesn't exist": only an upload that came before the first
\* key is refused because of another, and a rotation never gets in the way.
LateUploadsAreServed ==
  \A u \in Artifacts : pc[u] = "refused" => u \notin begun \/ u \in faulted

\* k has truncated what is meta.json of a by now and has yet to write it, or a
\* call of it failed, the write perhaps.
Halves(k, a) ==
  \/ file[k] = "meta" /\ job[k].batch # {} /\ Current(k) = a
  \/ k \in faulted

\* No job of a lower version ran at the same time as j, or failed to rename
\* and to remove its temporary, which another job may still rename.
Unchallenged(j) ==
  \A k \in Jobs : <<j, k>> \in crossed \/ k \in stray => setup.new[k] >= setup.new[j]

\* A job that says completed has brought every artifact it had counted to its
\* version, although others were added and deleted on the way, unless a job of
\* a lower version interfered.  What may be lost, with its data key, is a
\* meta.json that another job had open as their common temporary: it is half a
\* file until that job has written it, and for good if it fails to.
CompletedMeansRewrapped ==
  \A j \in Jobs :
    job[j].status = "completed" /\ Unchallenged(j) =>
      \A a \in job[j].counted :
        \/ meta[a] \notin {None, Part} /\ meta[a] >= setup.new[j]
        \/ meta[a] = Part /\ \E k \in Jobs \ {j} : Halves(k, a)

\* "Update meta.json atomically": a crash or a failing write never leaves half
\* a meta.json, whose data key would be lost, unless two jobs ran at once.
MetaIsWhole == \A a \in Artifacts : meta[a] = Part => crossed # {}

\* A job ends, whatever fails in it and whether it was cancelled or not.
JobsEnd ==
  \A j \in Jobs : Running(j) ~> pc[j] \in {"done", "dead"}
=============================================================================
