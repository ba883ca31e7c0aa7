# A verification project for SecureStor

SecureStor is a multi-tenant artifact repository: a Go backend (`src/internal`,
`src/cmd`) over PostgreSQL, Redis, an erasure-coded blob store on local disks
and optional S3 nodes, with a React front end. This directory holds TLA+ modules
that model the parts of the backend where order, concurrency and failure decide
whether it is correct, TLC configurations that check them on small instances,
and TLAPS proofs about them for instances of every size.

Paths below are relative to `src/internal` unless they say otherwise.

## 1. Inventory

### 1.1 Components with a protocol worth modelling

| Component | State | Operations | What is hard | What makes it correct |
|---|---|---|---|---|
| Replication (`replicate/`) | node list, health table, a file and a temporary per node | `ReplicateFile`, `initNodesFromDB`, health checks, `ReadFile`, `VerifyReplication` | a goroutine per node sharing a result without a lock; one temporary name per file; reload during a call; partial failure; crash | a file changes whole; reports name only holders; partial failure is visible; calls return; success means enough replicas |
| Blob store (`storage/blob_storage.go`) | k+m shard files and one metadata file per artifact, one RWMutex | upload, download, delete, verify | in-place overwrite, crash between shards and metadata, cleanup that takes an earlier version, nested read lock | an acknowledged artifact survives m losses; no mixture is ever read; requests end |
| Artifact upload and download (`handlers/upload_download_handler.go`, `repository/artifact_repository.go`) | a row of `artifacts`, a blob of the store | upload with rollback, create-or-update, download, delete | four statements without a transaction, an id made of a second, rollback after a racing request | row and blob belong together; what was acknowledged is there; what failed left nothing |
| Security scans (`service/scan_service.go`, `handlers/scanning_handler.go`) | `security_scans`, `scan_results`, `compliance_audits` | automatic and requested scan, its goroutine, cancellation | check-then-insert, cancellation racing completion, crash with a row in progress, new contents during a scan | one scan at a time; completion and compliance rest on results; a row in progress has a goroutine; contents get scanned |
| Update hub (`api/websocket_handler.go`) | set of clients, a channel per client, a broadcast channel | register, unregister, broadcast, read and write pumps, event stream | closing channels with two senders, slow clients, loops over a set that shrinks | no double close; the feed of a client has no gap; nobody holds up the others |
| Multi-tier cache and remote proxy (`cache/`, `handlers/remote_proxy_handler.go`, `handlers/cache_handler.go`) | Redis entries, files, access metadata | get with promotion, set, invalidate, flush, fetch from upstream | files written in place, promotion racing invalidation, tiers with different versions | what is served was once fetched whole; what was invalidated is not served |
| Scans of cached artifacts (`handlers/cache_handler.go`) | rows of `cached_artifacts` with status and quarantine, `scan_queue`, `security_scans`, `scan_results` | fill, evict, request a scan, its goroutine | check-then-mark, a scan that outlives its row, four statements without a transaction, refetch during a quarantine | a row refuses scans only while one works on it; a quarantine is kept; reports stand behind rows |
| Tenant keys and re-wrapping (`encrypt/`) | `tenant_master_keys`, key cache, running jobs | create, rotate, start and cancel a job | unique row per tenant, job status written by two goroutines, counts taken before the work | keys in use are stored keys; rotations lose none; a job that says completed re-wrapped everything; a `meta.json` is whole |
| Chunked upload (`api/chunked_upload_handler.go`) | session table, chunk files | initiate, chunk, complete, progress | completion racing a late chunk, session removed before the checks, expiry | an assembled file is its chunks in order; a refused completion can be repeated |
| Scanner pipeline (`scanner/pipeline.go`, `executor.go`) | one result channel per scan | run scanners in parallel with retries | time-out of the whole against retries of one | every scanner is counted once; a report is complete and has somebody behind it; no scanner outlives the file; the executor ends |
| Refresh tokens (`auth/refresh_token_service.go`) | `refresh_token_store` | validate, rotate, revoke, clean up | validation outside the transaction, revocation of all during a rotation | a token is rotated once; nothing survives a revocation of all |
| Artifact properties (`service/property_service.go`, `repository/property_repository.go`) | `artifact_properties`, a map of encryption keys in the process | create, update, delete, read, list | look-up before insert, versions read before the update, a map without a lock, keys that end with the process, flag and value changed apart | one value where one is promised; no update lost unseen; readers are told the current value; what is encrypted can be opened |
| Roles of users (`service/role_management_service.go`, `user_management_service.go`) | `user_roles`, `role_permissions` | assign, replace, remove, delete a role, deactivate a user | several statements under READ COMMITTED, a count outside its transaction, cascades | a replacement leaves what it asked for; a role in use is not deleted |
| Database failover (`failover/`) | two handles, a failure count | health checks, promotion, switch-over | promotion without fencing, handles that are never swapped | at most one primary is written to |

### 1.2 How they interact

`UploadArtifact` puts the data into the blob store, which takes its own write
lock, starts a replication of the file, and on success of the row starts a scan
in a goroutine. `DownloadArtifact` reads the row and then the blob the row names.
The proxy handlers fill the cache from upstream, persist a row and start a
replication and a scan in goroutines of their own. Scans write three tables that
the compliance endpoints read. All of it shares one PostgreSQL, whose statements
are atomic one by one: hardly any operation uses a transaction. One server
process holds all locks and goroutines, so a crash ends every operation under way
and leaves files and rows.

The modules follow these seams. `ArtifactUpload` uses the blob store as a map
that changes in single steps: that is what `BlobIsAtomic` shows of `BlobStorage`.
`BlobStorage` hands the file to replication without waiting for it, so
`Replication` starts from a caller with a payload. `ScanLifecycle` starts where an
upload or a request asks for a scan. `ScanLifecycle` and `CacheScan` take what the
scanners found as given: an error, or findings that some scanner reported, which is
what `CleanMeansSomebodyLooked` and `ReportIsComplete` show of `ScanPipeline`.
`CacheScan` keeps the rows of what `ProxyCache` keeps the bytes of; the code does not
tie the two, and neither do the modules. `KeyRotation` stores an upload in one step and
leaves its steps to `ArtifactUpload`. `PropertyStore` stands alone: a property names its
artifact and nothing else reads it.

### 1.3 The rest

API-key, second-factor, SCIM and OIDC administration, tenants, repositories, audit,
metrics and dashboards are queries and single statements. The wrappers of the external
scanners, the package protocols and the signing code transform data without shared
state. The earlier proxy engine, the plugins and the enhanced orchestrator are
constructed only by tests or by nobody; the server constructs the workflow engine only
to list the names of its workflows. Front end, Keycloak, OPA, Kubernetes and the compose
files configure other programs. `PROJECT.json` lists each of them with its sources
and the reason.

## 2. Modules

| Module | What it models |
|---|---|
| `Replication` | `ReplicateFile` with its goroutines, node health, reloads, crashes |
| `AtomicReplicas` | what replication promises of one file on one node |
| `MCReplication` | instances |
| `ReplicationProofs` | type correctness; whole files; true reports; health; the step simulation of `AtomicReplicas` |
| `BlobStorage` | upload, download, delete and verify over shard files under the RWMutex |
| `AtomicBlob` | what the store promises: put, take and get in single steps |
| `MCBlobStorage`, `BlobProofs` | instances; mutual exclusion, whole directories, durability and the step simulation of `AtomicBlob` |
| `ArtifactUpload` | concurrent uploads, downloads and deletes of one name and version |
| `UploadProofs` | its safety properties |
| `ScanLifecycle` | scans of one artifact and their cancellation |
| `MCScanLifecycle` | instances |
| `WebSocketHub` | the hub, its clients' pumps, event streams |
| `AtomicFeed` | what a client of the feed is promised |
| `MCWebSocketHub` | instances |
| `ScanAndHubProofs` | the four safety properties of `ScanLifecycle`; the hub never panics; the step simulation of `AtomicFeed` |
| `ProxyCache`, `MCProxyCache` | the cache tiers behind the remote proxy, and the cache's own routes |
| `CacheScan`, `MCCacheScan` | rows and scans of cached artifacts, quarantine and eviction |
| `CacheProofs` | of `CacheScan`: refusals, reports, quarantines, entries of the queue; of `ProxyCache`: deletions, tiers, whole answers |
| `ScanPipeline`, `MCScanPipeline` | one call of the scanner pipeline: executor, retries, aggregation |
| `PipelineProofs` | outcomes, reports and the ends of a call |
| `KeyRotation`, `MCKeyRotation` | a tenant's master key and its re-wrap jobs |
| `KeyProofs` | one key, no key lost, whole `meta.json` files, what completed jobs have done |
| `PropertyStore` | the properties under one key of an artifact, and their encryption keys |
| `MCArtifacts` | instances of `ArtifactUpload` and `PropertyStore` |
| `PropertyProofs` | single values, updates, encryption and answers |

Two modules hold the proofs of two components each, and `MCArtifacts` has instances of two.
Where they meet, the names of one
component carry a prefix: `HubInit`, `HubNext`, `HubSpec`, `FairHubSpec` in `WebSocketHub`,
`ScanInit`, `ScanNext`, `ScanSpec`, `FairScanSpec`, `place` and `budget` in `CacheScan`,
`UploadInit`, `UploadNext`, `UploadSpec`, `at` and `replied` in `ArtifactUpload`.

Operators with a comment that begins "Mutant:" are deliberately wrong versions of
the definition that follows them. Nothing uses them; put in its place, each one
makes the property it is listed with in `PROJECT.json` fail, so that every property
is known to depend on the code it is about.

Variables named as history in their module record something about the past that
the code does not store; no guard reads them, except that bounds on failures,
crashes, calls and clock ticks count in variables of their own. Several modules take
a set of scenarios as a constant (`Setups`, `Plans`, `Requests`): a record with what
exists at first and how often each disturbance may happen. An initial state picks one,
so that one run covers them all.

### 2.1 Replication

A caller goes through `ReplicateFile`: load the nodes (a tenant's service, which callers
share through the `UnifiedReplicator`, reads `replication_nodes` again on every call and
falls back to the configured ones),
make the result channel, start one goroutine per node, wait, count. The channel is
sized and the goroutines are started from two reads of the node list. A goroutine
for a local node creates `<file>.tmp`, writes, syncs, renames; on an error it
removes the temporary; for an S3 node it puts the object; any other type fails. It
then appends to a slice of the shared result, sends a message and records the
outcome in the health table. The append is a read and a store of the slice header,
so two appends can lose one; a descriptor follows its file when another call
renames or removes the name. Contents are `None`, `Empty`, `Torn` or a payload:
writing a shorter payload over a longer one through the same temporary leaves a
torn file, which is why payloads have lengths. `Crash` keeps the names and drops
the calls, the health table and the node list.

### 2.2 Blob storage

Threads call one operation at a time. The mutex is Go's RWMutex with its writer
preference: a writer first shuts out new readers, then waits for those inside.
`UploadArtifact` writes shard after shard and then the metadata, in place;
a write error leads to `cleanupArtifact`, which removes the directory and drops the error
of `os.RemoveAll`: `Cleanup` takes everything or leaves any part, and the request fails
either way. `DeleteArtifact` does return that error (`Remove`). `unclean` is history: a
removal failed or a crash cut a change short, and nothing has put the directory in order
since. `DownloadArtifact` needs readable metadata, at least k
shards, every present shard with the checksum the metadata lists, and the
checksum of the whole. A disk fault removes or damages a shard file. Shards of a
value are represented by the value they encode.

### 2.3 Artifact upload

Storage ids are seconds of the clock, since name and version are fixed. A request
stands for its own contents and for its data key. Whether uploads are encrypted is a
setting of the process (`encrypting`), which a restart may change, and a row says whether its
own was: only the row written for it decrypts an encrypted blob, while the data of a row
that is not encrypted goes out unchecked. `CreateOrUpdate` is a look-up, an insert or an
update, and the tags, each a statement that can fail; after a failure the handler
removes the blob of its id. A failing look-up counts as "no such artifact", and a
duplicate key in the insert as success, as in the code. A deletion removes the row
and leaves the blob, as in the code.

### 2.4 Scan lifecycle

A scan goes through check, insert, load, "running", scanners, results, "completed",
audit; an error on the way leads to "failed", and the handlers' goroutines ignore
the errors they ignore in the code. A canceller reads a row in progress and later
writes it back whole with status "cancelled". Uploads raise the version of the
artifact; a scan holds the version it loaded. What the scanners find is arbitrary.

### 2.5 Update hub

Register and unregister are rendezvous with the hub's `select`, the broadcast
channel is a bounded queue. Passing a broadcast on visits the clients in any order:
a client with room gets it, a full one is closed and forgotten. The write pump
takes one message (`Take`), asks the channel how many more are there (`OpenMessage`, which
keeps the answer in `more`), takes that many one by one into the same frame (`AddQueued`)
while the hub may go on sending, and writes the frame (`Write`). The frame is what `held`
has, without the pongs, which are no broadcasts. The read pump
answers a ping through the client's own channel. A send on a closed channel and a
second close are panics, which end the process.

### 2.6 Multi-tier cache

A proxied GET reads Redis, then a file below the cache directory, then upstream; every
step is an action, because no key is locked. A file is opened and truncated and later
written, in place; its checksum is not compared on the way out. A hit on disk starts a
promotion that writes to Redis whenever it gets there. Keys are paths, so the file of
one may be the directory of another (`Below`): such a fill fails, silently, and leaves
the tiers with what they had. `Invalidate` and the two flushes are modelled statement by
statement, with their swallowed errors; `clean`, `skewed`, `spoiled` and `floor` are
history variables that say which deletions nothing disturbed, which keys two fills, a
failure or a disturbed deletion touched, and what may not come back.

### 2.7 Scans of cached artifacts

`Persist` is the proxy's upsert, `Evict` the removal of unused and expired rows, which
takes the row's entries in `scan_queue` with it. A request checks the row, queues a job,
marks the row and starts a goroutine that scans and writes scan, report, row and queue
entry in four statements, whose errors are logged and passed over. A row that comes back
after an eviction has a new id; a goroutine updates the id it was given.

### 2.8 Scanner pipeline

`Selected` are the scanners the request brings, those of its workflow, or those that support
the type of the artifact; of the last two kinds only the registered ones are taken, and a
request without a scanner, or with an unknown workflow, is an error. A goroutine of a scanner
checks availability, tries, backs off, tries again, and sends one outcome. The `break` in the
back-off's `select` leaves the `select` only, so a context that dies during a back-off costs
one more attempt; `FewLateAttempts` bounds it. The caller collects until the channel is closed,
or until the first error of a fail-fast request, and merges the answers: of the findings with
one key the first to arrive is kept. The report is a set, since the sort only orders it. An
attempt may end in anything at any time.

### 2.9 Tenant keys and re-wrap jobs

`tenant_master_keys` has one row per tenant. An upload asks for the key and, on any error,
tries to make one; a rotation deactivates and inserts in a transaction, whose insert must fail
where there is a row, so it rolls back and only the cache entry is gone. A job counts the
encrypted artifacts, then goes through them in batches by id, and rewrites each `meta.json`
through `meta.json.tmp`, a name that two jobs for a tenant share: an open file follows a rename
(`Follow`). The query of a batch may fail, a row of it be passed over, and its rows end early
without anybody looking (`FetchBatch`). Opening, writing, renaming and removing the temporary
may each fail; `RemoveTemp` takes the file that has the name, be it another job's, and a job
that could neither rename nor remove its own is `stray` from then on, because a later job for
the artifact may rename what it left. `CancelJob` may come at any point of a running job, and
nothing in the job reads what it sets. No code of this commit writes a first `meta.json`, so in
a store this server filled itself every artifact fails at `ReadMeta`; the scenarios also have
stores that hold such files, which is what the job is for.

### 2.10 Artifact properties

A request stands for the value it brings, for the id of the row it creates and for the key
it generates. A creation of a single-valued property looks for the key (`Check`) and inserts
later; nothing in the table stops two. `Read` takes the row, and `Changed` makes of it what
an update asks for; whether the value is then encrypted depends on the flag the row will
have and on the update bringing a value. `Update` writes every column, where the version is
still the one that was read. The key of a tenant is looked up (`KeyFound`, `KeyMissing`) and
stored (`StoreKey`) in separate steps because the map has no lock; Go's runtime may notice
two at once and end the process (`ConcurrentMapAccess`). In a row `latest`, `by` and
`flipped` are history: the value last given, the updates it holds, and whether the flag
changed without a value. `beside`, `blind`, `rival` and `lost` record which creations ran
together, which could not look, which keys were generated side by side, and which ended
with a process.

## 3. Runs

Every run finishes in less than three minutes on two cores. In every passing instance the
processes may come to rest once their budgets are used up, so the configurations switch
deadlock detection off; that nobody waits for ever before that is what the liveness properties
check (`artifact_requests` and `cache_requests` have none: those handlers take no lock and wait
for nothing that is modelled).

| Run | Question | Instance |
|---|---|---|
| `replication_calls` | Does a caller get a true report, a whole file and an answer, whatever fails, alone, beside another caller, and while nodes are reloaded? | 4 scenarios: 2 nodes (local, S3), 2 calls, a failing check, a crash; 1 node, 2 callers of one file, a crash; a tenant's service whose table is edited, 3 nodes, one of an unknown type, a crash; a tenant's service with 2 callers |
| `replication_quorum` | *violated:* success means two replicas | 3 local nodes, 1 call |
| `blob_requests` | Is the store atomic, durable and live? | k=2, m=1, 2 threads, 3 requests, 1 disk fault, 1 crash |
| `artifact_requests` | Of an artifact: do row, blob and answers agree, encrypted or not? Of its properties: is one value one, no update lost, the answer current and the key there? | 3 requests of any kind for the artifact, one with tags, 2 seconds, 1 crash, encryption on or off and changed by a restart; or 4 for its properties, a failing statement, a restart: a row created, updated, updated or deleted, and read; two creations of any kind, a deletion, and a read or a third creation |
| `scan_requests` | Is the row a lock, and do completion and compliance rest on results? | 2 scans, 1 canceller, 2 versions, 1 failing statement, 1 crash |
| `scan_upload` | *violated:* the last upload gets a scan | 2 scans, 2 versions, no failure |
| `hub_feed` | Are clients fed in order, never at the others' expense, and do pongs end? | 1 WebSocket client, 1 event stream, channels of 1, 3 broadcasts, 1 ping |
| `cache_requests` | Is what the tiers keep and answer whole, and does a deletion last? | 2 keys with nested paths, 2 threads, 3 requests, 3 versions of different lengths, a deletion with a failure or a crash; a flush |
| `cache_scan` | Is a row marked only while scanned, a quarantine kept, a report there? | 3 scan requests, 2 fills, 1 eviction, a failing statement or a crash |
| `pipeline_scan` | Does every outcome count once, is the report complete, does everything end? | 3 scanners, 3 answers, 5 requests: none, some or all registered, retries, fail-fast, skipping, with or without a deadline |
| `keys_rotate` | Is the key in use the stored one, does a failed rotation cost none, are jobs true to their status? | 6 scenarios: 2 uploads and 2 rotations without a key; a job, an upload, a rotation and a deletion over 3 artifacts; 2 jobs for different versions, with 1 fault over 2 artifacts and with 2 faults over 1; 2 jobs and a missing `meta.json`; a version that does not exist |
| `keys_rotation` | *violated:* a rotation of which nothing fails succeeds | a tenant with a key, 1 rotation, no fault, no crash |

In `artifact_requests` either the artifact or its properties act (`part`) while the other
rests: the two modules share no variable, so every behaviour of each is there, and a property
that speaks of one is checked against all of them.

Why the bounds are enough for the question asked:

- Two nodes already have every race between two goroutines of a call: the lost
  append, one failing while the other stores. A third node, of a type
  `replicateToNode` refuses, matters for reloads, where the list may grow between
  the two reads; for the quorum it makes two failures of three possible.
- Two calls on one file are what the temporary's name distinguishes; two lengths
  are what a torn file needs; a second call of one caller sees what the first left.
- k=2 and m=1 give a metadata file, more than one shard to be interrupted between,
  one loss that can be repaired and a second that cannot. Three requests are an
  upload, its overwrite and a reader, or a deletion in between.
- Three requests contain an upload, its replacement and a download, deletion or
  third upload between their steps; two seconds give ids that collide and ids that
  do not.
- Two scans race for the check; the canceller's read and write may enclose any step.
- Two keys whose paths nest are every way two keys can touch; two threads are a fill and
  whatever disturbs it; lengths 2, 1 and 3 are a shorter version over a longer one and one
  too long for Redis. Two threads cannot show three fills of one key at once.
- Two scan requests pass the check together and a third comes after; two fills and an
  eviction make a row go and come back under a running scan.
- Three scanners are one that answers, one that fails and one that is still at work when
  the caller stops; an answer names a key twice and two answers disagree on it.
- Batches of two and three artifacts give a full batch, a rest and an empty one.
- Two updates of a row read the same version or one after the other; a third request deletes
  or reads in between. Two creations race for the check and for the first key, and a third
  or a reader comes after both.
- A channel of one message is full after one, and three broadcasts overflow it, are
  drained together, and are missed by a client that was dropped.

A crash, a failing statement, a disk fault or a node's edit may occur at every step,
up to the number the instance gives. Errors of single file and database operations
that lead to an error path of the code need no budget where the path ends the request.

### 3.1 Fairness

Liveness is stated under weak fairness of each thread's, goroutine's or caller's own
next step: Go's scheduler runs every goroutine that can run, file and database calls
return (the server sets time-outs on them, and on a scan as a whole), and a step that
waits for a lock or a channel is fair only while it can be taken. Nothing is assumed
of clients, of crashes, of disk faults or of administrators. In `WebSocketHub` a
deregistration competes with other cases of the hub's `select`; weak fairness
of the single rendezvous is enough because the bounds on messages and connections let
the hub return to its `select` with nothing else to choose from. In `ScanPipeline` an
attempt ends because its context kills the external program after two minutes. In
`KeyRotation` only jobs are fair: uploads, rotations and administrators promise nothing.

`RequestsEnd`, `EveryScanEnds`, `ScanningEnds`, `PongEnds` and `EveryCallReturns` except
what the code cannot promise and say so: a request stuck behind the nested read lock, a row
whose last update failed or whose process crashed, a pong to a client whose write pump has
returned, and a call whose node list grew between its two reads.
`BlockedOnlyByWork` shows the second from the other side.

### 3.2 Disagreements with what the code says of itself

- `replication_quorum`: success with fewer than two replicas, because messages of
  failed goroutines are counted (`replicate/replication.go:276`).
- `scan_upload`: contents uploaded during a scan are not scanned
  (`handlers/upload_download_handler.go:663`).
- `keys_rotation`: "RotateTMK creates a new TMK version and marks the old one inactive"
  (`encrypt/tmk_service.go:163`), but the insert of the new version meets the row of the old,
  the only one the table allows a tenant (`database/migrations.go:2359`): a tenant that has a
  key never gets another, and every rotation of it is an error.

Others are stated in the modules, excluded by name in properties that otherwise hold:

- `VerifyIntegrity` takes its read lock twice, so it and a writer that asks in between block
  each other for ever (`NestedLockMet`, `storage/blob_storage.go:379`);
- two uploads of a version within a second share a storage id (`Shared`), and tags that fail
  undo an upload whose row is updated (`Tagged`);
- an upload whose look-up failed and whose insert met the unique constraint is told
  "deployed" and its content dropped (`repository/artifact_repository.go:100`);
- overlapping replications of a file may leave it empty or torn (`overlapped`);
- a call of a tenant's service hangs when its node list grew after the channel was sized
  (`Outgrown`, `replicate/replication.go:250`);
- a pong to a client the hub has dropped is a send on a closed channel, which ends the
  process (`api/websocket_handler.go:139`; one of the ends `PongEnds` allows);
- a client reads a cache file while another request writes it (`spoiled`), a fill that was
  blocked on disk leaves Redis with an older version than a later fill puts on disk
  (`skewed`), and a deletion is undone by a promotion or fill under way (`clean`);
- an upload that asked before the tenant's first key was stored is refused when another
  stores it first (`begun` in `KeyRotation`);
- jobs for different versions at the same time leave the lower one, and jobs that share the
  temporary may expose half a `meta.json`, which stays if the job that has it open fails to
  write it (`crossed`, `Halves`);
- a temporary that a job could not remove may be renamed by a later job (`stray`,
  `encrypt/rewrap_service.go:327`);
- two creations at once, or one whose look-up failed, give a single-valued property two
  values (`beside`, `blind`, `service/property_service.go:219`);
- an update that sets "sensitive" without a value leaves the value in the clear, and one
  that clears it makes readers see an empty or older value (`flipped`,
  `service/property_service.go:373`);
- a value encrypted under a key that another first use replaced, or that ended with the
  process, cannot be opened (`rival`, `lost`, `service/property_service.go:125`).

Some follow from the modules without a property:

- `FlushL1` and `FlushL2` say that they clear their tier (`cache/multi_tier_manager.go:619`,
  `:642`), but the one matches a pattern no key has and the other fails on directories that
  are not empty (`FlushCache`).
- The cache page deletes by the row's id, which is no cache key, so nothing is removed and
  the answer is 200; a key with a "/" cannot be named in the route at all (`Routable`).
- `CancelJob` sets a status that the job overwrites (`encrypt/rewrap_service.go:407`); a job
  over artifacts uploaded after its count of none says "completed" although each failed.
- A cached artifact that is fetched again keeps the status and quarantine of what was there
  before; a quarantine is not looked at when the artifact is served; the proxy's own record
  of a scan (`handlers/remote_proxy_handler.go:347`) names columns the table does not have.
- "no point in retrying" (`scanner/executor.go:148`): one more attempt is begun when the
  context dies during the back-off.

## 4. Proofs

TLAPS checks the following for every value of the constants that satisfies the
modules' named assumptions. Those say that special values (`None`, `Empty`, answers)
differ from ordinary ones, that sets of actors do not overlap, that scenarios have the
shape the module gives them, that bounds are natural numbers, that there is a key to ask
`ProxyCache` for, and that `Nodes`, the artifacts of `KeyRotation`, and the keys and requests
of `ProxyCache` are finite. `KeyRotation` assumes besides that an artifact yet to be uploaded
has neither a row nor a `meta.json`, since its id is new; otherwise an upload could give a
running job an artifact it had not counted, and its success would make up for another's
failure. None of it restricts the code.

- `ReplicationProofs`: `TypeCorrect`, and `WholeReplicas`: unless two calls for a file
  overlapped, no node ever shows it empty or torn. The invariant `WholeInv` is in the
  module itself: a goroutine lives inside its call's wait; calls for one file that run
  together mark it overlapped; so the one running call has the temporary to itself,
  empty after its creation, its payload after its write; hence the rename installs the
  call's payload. Each step either touches no file, or is of the sole goroutine that
  may (`SoleGoroutine`). `HealthIsRight`: with the nodes the server boots with, a node is
  healthy exactly while its failure counter is below three. It is inductive with
  `NeverLoads`: without a database no call reads the node list again, so the table always
  covers it. `FailuresAreReported` and `ReportsAreTrue` are about the appends that race:
  what a goroutine has read of the slice it will store names only nodes that stored their
  copy (`ReplicatedAreStored`), and a failure, once appended, is never the last to be lost,
  because whoever overwrites it appends a failure itself (`FailureIsKept`). With `SoleInv`
  (where a call was alone, what it stored stays) they give `ReplicasImplementAtomic`: a
  start is `Begin`, a rename, a put and a write through an open file are `Store`, the
  return is `Return`, a crash aborts all calls, and every other step shows nothing.
- `BlobProofs`: `WriterIsAlone`, `DirectoriesAreWhole`, `AcknowledgedIsDurable`,
  `RequestsAreAtomic`. `MutexInv` says that the thread past the wait for the readers is the one
  the mutex names and that nobody holds a read lock meanwhile; `ControlInv` that every thread
  is where its operation and its locks put it; `DataInv` that behind the shard an upload writes
  next lie its own, which `AcknowledgedIsDurable` turns by a count of shards (`EnoughAreLeft`)
  into a decodable artifact; `WholeInv` that a directory which is neither empty nor all of one
  version has a request at work on it, or the last change of it was cut off or could not remove
  everything (`unclean`). In the simulation the metadata file is the artifact: its write is the
  put, its removal the take, its read the get, and the lock makes all else unseen.
- `UploadProofs`: `RowAndDataAgree`, `DownloadsAreUnmixed`, `UploadAnswersAreTrue`. The
  invariant says that rows are records of uploads under their own storage id
  (`RowsAreWritten`), blobs were put by the upload they hold (`BlobsArePut`), an upload that
  shares its id with nobody has its data as long as it is recording (`OwnData`), and after its
  row is there it rolls back only for its tags (`RowIsFinal`). Sharing an id is stable, which
  makes `OwnData` inductive; it also gives unencrypted downloads, which nothing but the storage
  id ties to their row, the data of their own upload. For the answers it adds that an upload
  about to insert has seen no row, so one that is there now is somebody's change.
- `ScanAndHubProofs`, of the scans: `RowIsTheLock`, `NoOrphanedRow`, `CompletionHasResults`. A
  scan that is past its check and not cancelled shows as active once inserted
  (`WorkIsVisible`), so a later check stops; two scans both between check and insert are the
  pair that raced (`OnePastTheCheck`). Results precede every status that claims them
  (`ResultsBeforeCompletion`), and the scan of the latest audit writes no more.
- `ScanAndHubProofs`, of the hub: `HubSafe`. What the loop has yet to visit is registered
  (`LoopSeesRegistered`) and a channel is open until its client registers, so every
  send and every close of the hub finds an open channel. `FeedInOrder` is the refinement of
  `AtomicFeed`. Its invariant follows a broadcast from end to end: the hub's channel holds
  what follows the last broadcast it took (`HubIsInOrder`); and as long as a client is there
  and its write pump runs, what the pump holds continues what was written, what is in the
  client's channel continues that (`RunsFrom`: in order, without a gap, with pongs in
  between), and a registered client's channel ends where the hub will send next (`Follows`).
  A registration is `Join`, the hub's forgetting of a client `Leave`, a broadcast taken from
  the channel `Publish`, a frame or an event written to a client `Receive`.
- `CacheProofs`, of the scans of cached artifacts: `OnlyWorkRefuses`, `ReportsStandBehind`,
  `QuarantinesAreKept`, `CompletedEntries`. A row that comes back has an id nobody has as a
  target (`IdsAreFresh`), so a goroutine that outlives its row cannot touch the next, and only
  a scan of the row itself ends its quarantine. On that
  rest three invariants: a row marked as scanning has a goroutine that has yet to write it
  (`MarkedIsWatched`), the job whose report a row names is through with both
  (`ResultsAreFinal`), and one that is through with a row has left a verdict there
  (`VerdictsAreLeft`). Exceptions are named: a crash, or a statement that failed (`lost`).
- `CacheProofs`, of the tiers: `DeletionsLast`, `TiersHoldTheSame`, `HitsAreWhole`, from one
  invariant, `ProxyInv`. A fill carries what upstream had when it asked, and a clean deletion
  had its key to itself, so nothing under way is older than the last one (`FillsAreCurrent`,
  `DeletionsAreAlone`, `NothingIsOlder`); only a spoiled key has contents that are no version,
  but for the file its one writer has truncated (`ContentsAreSound`); and a key that is not
  skewed has one filler at most, which found both tiers empty (`FillsAreSingle`), hence
  `TiersAgree`, which is inductive with it.
- `PipelineProofs`: `OutcomesCountOnce`, `ScannersAreThrough`, `ReportsAreComplete`,
  `SomebodyLooked`, `LateAttempts`. A scanner that is through is in one place of the
  channel, the answers or the errors (`CountedOnce`, inductive with `Basis`); the channel is
  closed behind the last one (`EndInv`), so a caller that saw it closed has everything.
  `OutcomeInv` adds that what was sent is final and that the report is the aggregate of what
  was collected. That the aggregate has every key once is a fact about all answers: each key
  has a first place (`Least`, from the library's well-foundedness of finite sets), and
  only that is kept.
- `KeyProofs`: `KeysAreStored`, `KeysOutlive`, `LateUploads`, `MetaStaysWhole`. `OneKey` says
  that the row is active and that the cache and whoever has a key in hand, a job until it is
  through with its files included, have the row's; a rotation cannot break it because its
  transaction rolls back. `KeysOutlive` is about rotations that fail: only one that commits
  may put another key in the place of the stored one. `SeenIsServed` makes the
  uploads that asked in time follow. For the files, as long as no two jobs ran at once, the
  running one alone has a file open, which is the temporary, and renames only what is whole
  (`Alone`). `CompletedJobs` needs the sharing of temporaries
  that `Alone` excludes. A job's cursor passes every artifact once, in the order of ids
  (`Batches`), so the successes it counted are as many artifacts (`MetCounted`: some set `S` of
  that size lies behind the cursor), and each of them stays `Secured`: its `meta.json` has the
  job's version or a higher one, or is half a file that another job has open or failed to write
  (`Covered`); whoever rewrites it meanwhile writes no lower version (`Guarded`), because it
  was crossed with the job and the job is `Unchallenged`; and whoever renames half a temporary
  renames another's (`Screened`). Behind that, a file is open only while its job writes
  (`OpenInv`), half a temporary that is about to be renamed belongs to a job that has yet to
  write it or failed to (`HalfOwned`), and a whole one to a job that has not renamed it yet,
  or is `stray` (`TempOwned`, `CrossedAtOnce`). A completed job has as many successes as
  artifacts it counted, so they are all of them.
- `PropertyProofs`: `OneValue`, `UpdatesStay`, `Encrypted`, `ReadersAreTold`, `KeysAreThere`.
  The base (`Makes`) says what a request has at each place in the code and that a row was
  made by the creation with its id. Above it: creations that run together know of each other
  and a row that appeared after a check is one of them (`RunnersAreBeside`, `SinglesLooked`);
  equal versions mean that the row holds no update unknown to who read it (`VersionTells`);
  a row shows its latest value in the form its flag says, and so does what was read
  (`RowsShow`, `ReadShows`); every key in use is the stored one, or is accounted for
  (`KeysAreAccounted`).

Types are proved for `Replication`, `BlobStorage` and `PropertyStore` (`TypeCorrect`),
`ArtifactUpload` (`UploadTypes`), `WebSocketHub` (`HubTypes`: no channel holds more than its
capacity, which rests on the sends of the hub and of the read pumps alike) and `CacheScan`
(`ScanTypes`: no report without the row of its scan). The proofs of the other modules keep,
within their invariants, the types they use.

All invariants were first run through TLC, on the instances above or smaller ones. Every
invariant, every action property and every refinement that a passing run checks is proved.

Only model-checked: the liveness properties (`EveryCallReturns`, `RequestsEnd`,
`EveryScanEnds`, `BroadcastsAreTaken`, `PongEnds`, `ScanningEnds`, `CallEnds`, `JobsEnd`),
since liveness under fairness and `ENABLED` are beyond the prover. So are the library's
induction theorems, whose parameter is an operator; where an argument needs a first element,
the well-foundedness of `<` or of finite sets gives one (`LeastMember` in `KeyProofs`,
`Least` in `PipelineProofs`). The prover knows nothing of `SelectSeq` either, which is one
reason why the write pump takes its messages one by one, as the code does. No module
declares a `RECURSIVE` operator, so all of them can be proved about.

## 5. What is left out, and why

- Of `Replication`: `ReadFile` and `VerifyReplication` change no state and have no caller;
  the tenant cache of `UnifiedReplicator` only decides which service is asked.
- Of `BlobStorage`: `GetMetadata`, `GetStorageStats` and `ListArtifacts` change nothing.
- Of uploads: listing, search, counters and audit entries. A repository or a tenant
  never disappears during a request.
- Of the scans: progress percentages, the contents of findings, and the bulk endpoint,
  which repeats the single one.
- Of the cache: its cloud tier, which nothing enables, access logs, and the proxy's own scan
  of what it fetched, whose records go to columns the table does not have.
- Of the pipeline: the order of the report, groupings and filters, and the orchestrator that
  nothing constructs.
- Of the keys: the export of a key, its status, and audit rows; the key management service
  is external and answers or fails.
- Of the properties: batches and `DeleteByKey`, which have no caller, searches and
  statistics, which only read, and the trigger that copies changes into an audit table.
- Of the hub: message texts, and deadlines, which appear as pings that fail.
- PostgreSQL, the file system, S3 and Go's runtime are external: statements and file
  operations are atomic or fail, a rename is atomic, and a file that was synced and
  renamed survives a crash. `BlobStorage` does not sync; the modelled crash is one of the
  process, not of the machine.

## 6. Plan

In this order:

1. Proofs: the rest of type correctness (`ScanLifecycle`, `ProxyCache`, `ScanPipeline`,
   `KeyRotation`, of which the proofs keep the types they use), and what connects
   components, such as what `ScanLifecycle` takes from `ScanPipeline`.
2. Role administration (`service/role_management_service.go`, `user_management_service.go`)
   under READ COMMITTED: two replacements of a user's roles that leave the union of both, a
   role deletion that counts its users outside the transaction and cascades over an
   assignment made since, users who lose their roles when they are reactivated.
3. The remaining protocols, which this commit does not yet reach: `ChunkedUpload`,
   `RefreshTokens`, `DatabaseFailover`, the read path of `Replication`, and the wait for
   dependencies of the workflow engine.
