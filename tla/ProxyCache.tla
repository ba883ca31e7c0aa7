------------------------------ MODULE ProxyCache ------------------------------
(***************************************************************************)
(* The multi-tier cache (internal/cache/multi_tier_manager.go) behind the   *)
(* remote proxy (handlers/remote_proxy_handler.go) and the cache's own      *)
(* routes (handlers/cache_handler.go).                                      *)
(*                                                                          *)
(* A proxied GET looks in Redis (l1), then in a directory tree (l2), then   *)
(* asks the upstream repository and fills both tiers.  A hit on disk starts *)
(* a goroutine that copies what was read to Redis.  Requests run at the     *)
(* same time and share nothing but the two tiers: no key is ever locked.    *)
(* The third tier (cloud) is disabled in the code.                          *)
(*                                                                          *)
(* A key is a path below its type, so the file of one key may be the        *)
(* directory of another: npm's package index "lodash" and the archive       *)
(* "lodash/-/lodash-4.17.21.tgz".                                           *)
(***************************************************************************)
EXTENDS Naturals, FiniteSets

CONSTANTS
  Keys,         \* cache keys, "type:path"
  Below,        \* SUBSET (Keys \X Keys): <<k, j>> when j's path is inside k's
  Routable,     \* the keys without "/": what ":id" of a cache route can name
  Requests,     \* threads of the HTTP server
  MaxVersion,   \* bound: how often upstream republishes a path, plus one
  Size,         \* [Versions -> Nat]: the lengths of the versions
  L1MaxSize,    \* shorter contents go to Redis as well
  None,         \* no entry
  Empty,        \* a file truncated and not yet written
  Torn,         \* a file that holds no version
  Plans         \* bounds: how many requests, deletions, faults, ... happen

Versions == 1 .. MaxVersion
Contents == Versions \cup {None, Empty, Torn}
Budgets  == [gets: Nat, deletes: Nat, flushes: Nat, faults: Nat, crashes: Nat]

ASSUME ProxyCacheAssumption ==
  /\ IsFiniteSet(Keys) /\ IsFiniteSet(Requests)
  /\ Keys # {}
  /\ Below \subseteq Keys \X Keys
  /\ \A k \in Keys : <<k, k>> \notin Below
  /\ Routable \subseteq Keys
  /\ MaxVersion \in Nat \ {0}
  /\ Size \in [Versions -> Nat]
  /\ L1MaxSize \in Nat
  /\ {None, Empty, Torn} \cap Versions = {}
  /\ None # Empty /\ None # Torn /\ Empty # Torn
  /\ Plans \subseteq Budgets

VARIABLES
  origin,     \* [Keys -> Versions]: what upstream has at the path
  l1,         \* [Keys -> Contents]: the entry "remote:artifact:<key>" in Redis
  l2,         \* [Keys -> Contents]: the file of the key in the disk cache
  dirs,       \* the keys whose path is a directory
  pc,         \* [Requests -> where the handler is]
  route,      \* [Requests -> the route the request came by]
  key,        \* [Requests -> the key of the request]
  buf,        \* [Requests -> the bytes the handler holds or answered with]
  source,     \* [Requests -> X-Cache-Source of the answer]
  linked,     \* requests whose open file is still the one under the key's path
  promos,     \* [Keys -> [Contents -> Nat]]: promotions to Redis in flight
  clean,      \* history: deletions no failure, request or promotion disturbed
  floor,      \* history: [Keys -> upstream's version at the last clean deletion]
  spoiled,    \* history: keys with a file write cut short, or that met another
  skewed,     \* history: keys with two fills at a time, a failure or a
              \* disturbed deletion
  left        \* what is left of the plan

tiers   == <<l1, l2, dirs>>
request == <<pc, route, key, buf, source>>
history == <<clean, floor, spoiled, skewed>>
vars    == <<origin, l1, l2, dirs, pc, route, key, buf, source, linked, promos,
             clean, floor, spoiled, skewed, left>>

Places == {"idle", "l1", "l2", "fetch", "setl1", "open", "write",
           "del1", "del2", "done"}

TypeOK ==
  /\ origin \in [Keys -> Versions]
  /\ l1 \in [Keys -> Contents] /\ l2 \in [Keys -> Contents]
  /\ dirs \subseteq Keys
  /\ pc \in [Requests -> Places]
  /\ route \in [Requests -> {"proxy", "download", "delete"}]
  /\ key \in [Requests -> Keys]
  /\ buf \in [Requests -> Contents]
  /\ source \in [Requests -> {"none", "redis", "disk", "remote"}]
  /\ linked \subseteq Requests
  /\ promos \in [Keys -> [Contents -> Nat]]
  /\ clean \subseteq Requests
  /\ floor \in [Keys -> Versions]
  /\ spoiled \subseteq Keys /\ skewed \subseteq Keys
  /\ left \in Budgets

NoPromotions == [k \in Keys |-> [x \in Contents |-> 0]]

Init ==
  /\ origin = [k \in Keys |-> 1]
  /\ l1 = [k \in Keys |-> None] /\ l2 = [k \in Keys |-> None]
  /\ dirs = {}
  /\ pc = [r \in Requests |-> "idle"]
  /\ route = [r \in Requests |-> "proxy"]
  /\ key = [r \in Requests |-> CHOOSE k \in Keys : TRUE]
  /\ buf = [r \in Requests |-> None]
  /\ source = [r \in Requests |-> "none"]
  /\ linked = {}
  /\ promos = NoPromotions
  /\ clean = {}
  /\ floor = [k \in Keys |-> 1]
  /\ spoiled = {} /\ skewed = {}
  /\ left \in Plans

Free(r)       == pc[r] \in {"idle", "done"}
Busy(r, k)    == ~Free(r) /\ key[r] = k
Filling(r, k) == pc[r] \in {"fetch", "setl1", "open", "write"} /\ key[r] = k
Writing(r, k) == r \in linked /\ pc[r] = "write" /\ key[r] = k
Spend(what)   == left[what] > 0 /\ left' = [left EXCEPT ![what] = @ - 1]
At(r, place)  == pc[r] = place
Goto(r, place) == pc' = [pc EXCEPT ![r] = place]

-----------------------------------------------------------------------------
(* A request begins; a deletion of its key under way is not clean any more. *)

Accept(r, k, by, place) ==
  /\ Free(r)
  /\ Goto(r, place)
  /\ route' = [route EXCEPT ![r] = by]
  /\ key' = [key EXCEPT ![r] = k]
  /\ buf' = [buf EXCEPT ![r] = None]
  /\ source' = [source EXCEPT ![r] = "none"]
  /\ UNCHANGED <<origin, tiers, linked, promos, floor, spoiled, skewed>>

Undisturbed(k) == {d \in clean : key[d] # k}

-----------------------------------------------------------------------------
(* A proxied GET: proxyArtifact, through Get and Set of the cache.          *)

StartProxy(r, k) ==
  /\ Accept(r, k, "proxy", "l1")
  /\ Spend("gets")
  /\ clean' = Undisturbed(k)

Answer(r, x, from) ==
  /\ buf' = [buf EXCEPT ![r] = x]
  /\ source' = [source EXCEPT ![r] = from]
  /\ Goto(r, "done")

\* getFromL1: the entry, or a miss; an error of Redis counts as a miss.
L1Hit(r) ==
  /\ At(r, "l1") /\ l1[key[r]] # None
  /\ Answer(r, l1[key[r]], "redis")
  /\ UNCHANGED <<origin, tiers, route, key, linked, promos, history, left>>

L1Miss(r) ==
  /\ At(r, "l1")
  /\ \/ l1[key[r]] = None /\ UNCHANGED left
     \/ l1[key[r]] # None /\ Spend("faults")
  /\ Goto(r, "l2")
  /\ UNCHANGED <<origin, tiers, route, key, buf, source, linked, promos, history>>

\* A reader that meets a writer gets the file as it is or a part of it.
BeingWritten(k) == \E w \in Requests : Writing(w, k)
Readable(k) == {l2[k]} \cup (IF BeingWritten(k) THEN {Torn} ELSE {})

Small(x) == x \in Versions => Size[x] < L1MaxSize

\* getFromL2: the file, whatever it holds and however old it is; no checksum
\* is compared.  What is small enough is promoted (a part of a long file may
\* be short).
L2Hit(r) ==
  LET k == key[r] IN
  /\ At(r, "l2") /\ l2[k] # None
  /\ \E x \in Readable(k) :
       /\ Answer(r, x, "disk")
       /\ \/ Small(x) /\ promos' = [promos EXCEPT ![k][x] = @ + 1]
          \/ (~Small(x) \/ x = Torn) /\ UNCHANGED promos
       /\ spoiled' = IF BeingWritten(k) /\ x \notin Versions
                     THEN spoiled \cup {k} ELSE spoiled
  /\ UNCHANGED <<origin, tiers, route, key, linked, clean, floor, skewed, left>>

\* Mutant: a file on disk may be taken for expired.
L2MissOnExpiry(r) ==
  /\ At(r, "l2")
  /\ Goto(r, IF route[r] = "proxy" THEN "fetch" ELSE "done")
  /\ UNCHANGED <<origin, tiers, route, key, buf, source, linked, promos, history,
                 left>>

\* No file, a directory in its place, or a read error; a download ends here.
\* Two requests that both miss both fill; the first may have filled Redis
\* since the second looked there.
L2Miss(r) ==
  LET k == key[r] IN
  /\ At(r, "l2")
  /\ \/ /\ l2[k] = None /\ UNCHANGED left
        /\ skewed' = IF l1[k] # None \/ \E s \in Requests : Filling(s, k)
                     THEN skewed \cup {k} ELSE skewed
     \/ l2[k] # None /\ Spend("faults") /\ skewed' = skewed \cup {k}
  /\ Goto(r, IF route[r] = "proxy" THEN "fetch" ELSE "done")
  /\ UNCHANGED <<origin, tiers, route, key, buf, source, linked, promos, clean, floor,
                 spoiled>>

\* fetchFromRemote.
Fetch(r) ==
  /\ At(r, "fetch")
  /\ buf' = [buf EXCEPT ![r] = origin[key[r]]]
  /\ Goto(r, "setl1")
  /\ UNCHANGED <<origin, tiers, route, key, source, linked, promos, history, left>>

FetchFails(r) ==
  /\ At(r, "fetch")
  /\ Goto(r, "done")
  /\ UNCHANGED <<origin, tiers, route, key, buf, source, linked, promos, history, left>>

\* Set, first tier; its error is logged and the second is filled all the same.
SetL1(r) ==
  LET k == key[r] IN
  /\ At(r, "setl1")
  /\ \/ Small(buf[r]) /\ l1' = [l1 EXCEPT ![k] = buf[r]] /\ UNCHANGED <<skewed, left>>
     \/ ~Small(buf[r]) /\ UNCHANGED <<l1, skewed, left>>
     \/ Small(buf[r]) /\ Spend("faults") /\ skewed' = skewed \cup {k} /\ UNCHANGED l1
  /\ Goto(r, "open")
  /\ UNCHANGED <<origin, l2, dirs, route, key, buf, source, linked, promos, clean,
                 floor, spoiled>>

Parents(k) == {p \in Keys : <<p, k>> \in Below}
Blocked(k) == k \in dirs \/ \E p \in Parents(k) : l2[p] # None

\* Mutant: the file is opened without being truncated.
OpenL2Keeping(r) ==
  LET k == key[r] IN
  /\ At(r, "open") /\ ~Blocked(k)
  /\ dirs' = dirs \cup Parents(k)
  /\ linked' = linked \cup {r}
  /\ Goto(r, "write")
  /\ UNCHANGED <<origin, l1, l2, route, key, buf, source, promos, history, left>>

\* MkdirAll, and WriteFile's open with O_TRUNC.
OpenL2(r) ==
  LET k == key[r] IN
  /\ At(r, "open") /\ ~Blocked(k)
  /\ dirs' = dirs \cup Parents(k)
  /\ l2' = [l2 EXCEPT ![k] = Empty]
  /\ linked' = linked \cup {r}
  /\ spoiled' = IF BeingWritten(k) THEN spoiled \cup {k} ELSE spoiled
  /\ Goto(r, "write")
  /\ UNCHANGED <<origin, l1, route, key, buf, source, promos, clean, floor, skewed, left>>

\* A file where a directory is needed, a directory where the file should be,
\* or any other error: logged, and the client is answered all the same.
OpenL2Fails(r) ==
  /\ At(r, "open")
  /\ \/ Blocked(key[r]) /\ UNCHANGED <<skewed, left>>
     \/ Spend("faults") /\ skewed' = skewed \cup {key[r]}
  /\ Answer(r, buf[r], "remote")
  /\ UNCHANGED <<origin, tiers, route, key, linked, promos, clean, floor, spoiled>>

\* What a file holds after v is written over `old` from offset 0.
Overwrite(old, v) ==
  (IF old \in Versions /\ Size[old] > Size[v] THEN {} ELSE {v}) \cup
  (IF old = Torn \/ (old \in Versions /\ Size[old] > Size[v]) THEN {Torn} ELSE {})

WriteThrough(r, contents) ==
  /\ IF r \in linked THEN \E x \in contents : l2' = [l2 EXCEPT ![key[r]] = x]
                     ELSE UNCHANGED l2
  /\ linked' = linked \ {r}
  /\ Answer(r, buf[r], "remote")

WriteL2(r) ==
  /\ At(r, "write")
  /\ WriteThrough(r, Overwrite(l2[key[r]], buf[r]))
  /\ UNCHANGED <<origin, l1, dirs, route, key, promos, history, left>>

\* A short write, or none: what is there stays there.
WriteL2Fails(r) ==
  /\ At(r, "write")
  /\ Spend("faults")
  /\ WriteThrough(r, {l2[key[r]], Torn})
  /\ spoiled' = IF r \in linked THEN spoiled \cup {key[r]} ELSE spoiled
  /\ skewed' = skewed \cup {key[r]}
  /\ UNCHANGED <<origin, l1, dirs, route, key, promos, clean, floor>>

-----------------------------------------------------------------------------
(* promoteToL1, the goroutine a disk hit leaves behind.  It carries the     *)
(* request's context: when the handler has returned the context may end it. *)

Landed(k, x) == [promos EXCEPT ![k][x] = @ - 1]

Promote(k, x) ==
  /\ promos[k][x] > 0
  /\ promos' = Landed(k, x)
  /\ l1' = [l1 EXCEPT ![k] = x]
  /\ UNCHANGED <<origin, l2, dirs, request, linked, history, left>>

PromotionDropped(k, x) ==
  /\ promos[k][x] > 0
  /\ promos' = Landed(k, x)
  /\ UNCHANGED <<origin, tiers, request, linked, history, left>>

-----------------------------------------------------------------------------
(* The cache's own routes.  DELETE /cache/items/:id and GET .../download    *)
(* hand the path parameter to the cache as a key.                           *)

Quiet(k) ==
  /\ \A s \in Requests : ~Busy(s, k)
  /\ \A x \in Contents : promos[k][x] = 0

StartDelete(r, k) ==
  /\ Accept(r, k, "delete", "del1")
  /\ Spend("deletes")
  /\ clean' = Undisturbed(k) \cup (IF Quiet(k) THEN {r} ELSE {})

\* Mutant: nothing is removed from Redis.
DeleteL1Skipped(r) ==
  /\ At(r, "del1")
  /\ Goto(r, "del2")
  /\ UNCHANGED <<origin, tiers, route, key, buf, source, linked, promos, history, left>>

\* Invalidate, first tier; an error of Redis is logged.
DeleteL1(r) ==
  /\ At(r, "del1")
  /\ \/ l1' = [l1 EXCEPT ![key[r]] = None] /\ UNCHANGED <<clean, left>>
     \/ Spend("faults") /\ clean' = clean \ {r} /\ UNCHANGED l1
  /\ Goto(r, "del2")
  /\ UNCHANGED <<origin, l2, dirs, route, key, buf, source, linked, promos, floor,
                 spoiled, skewed>>

\* ... second tier: os.Remove, whose error is logged too (a directory is not
\* removed).  An open file loses its name.  The answer is 200 in every case.
Removed(k) ==
  /\ l2' = [l2 EXCEPT ![k] = None]
  /\ linked' = {w \in linked : key[w] # k}

Forget(r, k) ==
  IF r \in clean
  THEN floor' = [floor EXCEPT ![k] = origin[k]] /\ spoiled' = spoiled \ {k}
       /\ skewed' = skewed \ {k}
  ELSE skewed' = skewed \cup {k} /\ UNCHANGED <<floor, spoiled>>

DeleteL2(r) ==
  LET k == key[r] IN
  /\ At(r, "del2")
  /\ \/ Removed(k) /\ Forget(r, k) /\ UNCHANGED left
     \/ /\ Spend("faults") /\ skewed' = skewed \cup {k}
        /\ UNCHANGED <<l2, linked, floor, spoiled>>
  /\ clean' = clean \ {r}
  /\ Goto(r, "done")
  /\ UNCHANGED <<origin, l1, dirs, route, key, buf, source, promos>>

\* DownloadCacheItem: the same Get, and 404 where the proxy would fetch.
StartDownload(r, k) ==
  /\ Accept(r, k, "download", "l1")
  /\ Spend("gets")
  /\ clean' = Undisturbed(k)

\* FlushCache: FlushL1 asks Redis for the keys "cache:*", which no entry has;
\* FlushL2 removes the children of the base path, directories with files in
\* them, and os.Remove refuses those.  The answer is 200.
FlushCache ==
  /\ Spend("flushes")
  /\ UNCHANGED <<origin, tiers, request, linked, promos, history>>

-----------------------------------------------------------------------------
(* Time, upstream, crashes.                                                 *)

\* The entry's time to live (24 hours, 7 days for docker) runs out.
ExpireL1(k) ==
  /\ l1[k] # None
  /\ l1' = [l1 EXCEPT ![k] = None]
  /\ UNCHANGED <<origin, l2, dirs, request, linked, promos, history, left>>

Republish(k) ==
  /\ origin[k] < MaxVersion
  /\ origin' = [origin EXCEPT ![k] = @ + 1]
  /\ UNCHANGED <<tiers, request, linked, promos, history, left>>

Crash ==
  /\ Spend("crashes")
  /\ pc' = [r \in Requests |-> "idle"]
  /\ buf' = [r \in Requests |-> None]
  /\ source' = [r \in Requests |-> "none"]
  /\ linked' = {}
  /\ promos' = NoPromotions
  /\ spoiled' = spoiled \cup {k \in Keys : BeingWritten(k)}
  /\ skewed' = skewed \cup {k \in Keys : \E r \in Requests : Busy(r, k)}
  /\ clean' = {}
  /\ UNCHANGED <<origin, tiers, route, key, floor>>

ProxyStep(r) ==
  \/ L1Hit(r) \/ L1Miss(r) \/ L2Hit(r) \/ L2Miss(r) \/ Fetch(r) \/ FetchFails(r)
  \/ SetL1(r) \/ OpenL2(r) \/ OpenL2Fails(r) \/ WriteL2(r) \/ WriteL2Fails(r)

Next ==
  \/ \E r \in Requests, k \in Keys : StartProxy(r, k)
  \/ \E r \in Requests : ProxyStep(r) \/ DeleteL1(r) \/ DeleteL2(r)
  \/ \E r \in Requests, k \in Routable : StartDelete(r, k) \/ StartDownload(r, k)
  \/ \E k \in Keys, x \in Contents : Promote(k, x) \/ PromotionDropped(k, x)
  \/ \E k \in Keys : ExpireL1(k) \/ Republish(k)
  \/ FlushCache
  \/ Crash

Spec == Init /\ [][Next]_vars
-----------------------------------------------------------------------------
(* Properties. *)

\* What a hit answers with is whole, although no checksum is compared on the way
\* out: unless the write of the file was cut short, or met another writer or a
\* reader, and no clean deletion has come since.
AnswersAreWhole ==
  [][\A r \in Requests :
       source[r] = "none" /\ source'[r] \in {"redis", "disk"} =>
         buf'[r] \in Versions \/ key[r] \in spoiled']_vars

\* "Invalidate removes an artifact from all cache tiers": when no error was
\* swallowed and no request or promotion for the key was under way, nothing
\* upstream had replaced by then comes back, whatever happens later.
NothingOlderThanADeletion ==
  \A k \in Keys :
    /\ l1[k] \in Versions => l1[k] >= floor[k]
    /\ l2[k] \in Versions => l2[k] >= floor[k]

\* The tiers never disagree about a version unless two requests filled the key
\* at once, something failed or a deletion was disturbed: a client does not
\* get the new version from one tier and the old one from the other.
TiersAgree ==
  \A k \in Keys \ skewed :
    l1[k] \in Versions /\ l2[k] \in Versions /\ ~(\E r \in Requests : Filling(r, k))
    => l1[k] = l2[k]
=============================================================================
