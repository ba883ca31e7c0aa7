--------------------------- MODULE ArtifactUpload ---------------------------
(***************************************************************************)
(* ArtifactUpload (internal/handlers/upload_download_handler.go,            *)
(* internal/handlers/artifact_handler.go, internal/repository/              *)
(* artifact_repository.go): an artifact is a row of PostgreSQL and a blob   *)
(* of the blob store, written one after the other by concurrent requests.   *)
(*                                                                          *)
(* One name and version of one repository is modelled, which the table      *)
(* keeps unique.  The store works by storage id, name-version-seconds, so   *)
(* with the name fixed an id is a second of the clock; it puts and removes  *)
(* a blob in one step (BlobIsAtomic).  A request is known by its identity,  *)
(* which also stands for its contents, and for the data key these are       *)
(* encrypted under: a blob can be decrypted with the row its own request    *)
(* wrote and with no other.                                                 *)
(***************************************************************************)
EXTENDS Naturals, FiniteSets

CONSTANTS
  Calls,        \* HTTP requests, each served once by a handler
  Nothing,      \* no row, no blob, no answer
  Encryptions,  \* values that UploadDownloadConfig.EncryptionEnabled may have
  Tagged,       \* the requests that carry tags
  MaxSecond,    \* bound: seconds the clock shows
  MaxCrashes    \* bound: crashes of the process

Kinds == {"upload", "download", "delete"}

ASSUME UploadAssumption ==
  /\ Nothing \notin Calls /\ "ok" \notin Calls /\ "error" \notin Calls
  /\ Nothing \notin Kinds /\ Nothing \notin {"ok", "error"}
  /\ Encryptions \in SUBSET BOOLEAN /\ Encryptions # {} /\ Tagged \in SUBSET Calls
  /\ MaxSecond \in Nat /\ MaxCrashes \in Nat

VARIABLES
  second,     \* time.Now().Unix()
  encrypting, \* EncryptionEnabled, in this run of the process
  blob,       \* [storage id -> the request whose data it holds, or Nothing]
  row,        \* the row of table artifacts, or Nothing
  at, kind,   \* [Calls -> program state and kind of request]
  sid,        \* [Calls -> storage id of the upload, 0 before it has one]
  seen,       \* [Calls -> the row the request has read, or Nothing]
  replied,    \* [Calls -> Nothing, "ok", "error", or the request whose data a
              \*           download was answered with]
  since,      \* history: [Calls -> requests that changed the row since it began]
  leftover,   \* history: storage ids whose removal in a rollback failed
  misled,     \* history: requests whose query for the row failed
  crashes

uploadVars == <<second, encrypting, blob, row, at, kind, sid, seen, replied,
                since, leftover, misled, crashes>>

uploadHist == <<since, leftover, misled>>
world == <<second, encrypting, crashes>>

SIds == 1 .. MaxSecond
PCs  == {"idle", "put", "look", "insert", "update", "tags", "rollback", "get",
         "fetch", "delete", "done"}

\* id: the artifact_id, which an update keeps; by: checksum, data key and
\* nonce of the upload that wrote the row; sid: Metadata["storage_id"]; enc:
\* whether the row says encrypted.
ArtifactRow(i, r, s) == [id |-> i, by |-> r, sid |-> s, enc |-> encrypting]
ArtifactRows == [id : Calls, by : Calls, sid : SIds, enc : BOOLEAN]

ASSUME NoRowAssumption == Nothing \notin ArtifactRows

UploadTypeOK ==
  /\ second \in Nat \ {0} /\ encrypting \in BOOLEAN
  /\ blob \in [SIds -> Calls \cup {Nothing}]
  /\ row \in ArtifactRows \cup {Nothing}
  /\ at \in [Calls -> PCs]
  /\ kind \in [Calls -> Kinds \cup {Nothing}]
  /\ sid \in [Calls -> SIds \cup {0}]
  /\ seen \in [Calls -> ArtifactRows \cup {Nothing}]
  /\ replied \in [Calls -> Calls \cup {Nothing, "ok", "error"}]
  /\ since \in [Calls -> SUBSET Calls]
  /\ leftover \in SUBSET SIds
  /\ misled \in SUBSET Calls
  /\ crashes \in Nat

UploadInit ==
  /\ second = 1 /\ encrypting \in Encryptions
  /\ blob = [s \in SIds |-> Nothing]
  /\ row = Nothing
  /\ at = [r \in Calls |-> "idle"]
  /\ kind = [r \in Calls |-> Nothing]
  /\ sid = [r \in Calls |-> 0]
  /\ seen = [r \in Calls |-> Nothing]
  /\ replied = [r \in Calls |-> Nothing]
  /\ since = [r \in Calls |-> {}]
  /\ leftover = {}
  /\ misled = {}
  /\ crashes = 0

Goto(r, label)  == at' = [at EXCEPT ![r] = label]
Reply(r, a)     == replied' = [replied EXCEPT ![r] = a] /\ Goto(r, "done")

\* The history of row changes that every request under way keeps.
RowChangedBy(r) == since' =
  [q \in Calls |-> IF at[q] # "idle" THEN since[q] \cup {r} ELSE since[q]]
-----------------------------------------------------------------------------
(* UploadArtifact: the handler. *)

\* The form is checked and the file read; then the id is made from the clock
\* and the data encrypted, either of which may end the request.
Upload(r) ==
  /\ at[r] = "idle"
  /\ second \in SIds
  /\ kind' = [kind EXCEPT ![r] = "upload"]
  /\ sid' = [sid EXCEPT ![r] = second]
  /\ \/ Goto(r, "put") /\ UNCHANGED replied
     \/ Reply(r, "error")
  /\ UNCHANGED <<world, blob, row, seen, uploadHist>>

Put(r) ==
  /\ at[r] = "put"
  /\ blob' = [blob EXCEPT ![sid[r]] = r]
  /\ Goto(r, "look")
  /\ UNCHANGED <<world, row, kind, sid, seen, replied, uploadHist>>

\* The store fails: before it wrote, or after, when its cleanup removes
\* whatever the id held.
PutFails(r) ==
  /\ at[r] = "put"
  /\ blob' \in {blob, [blob EXCEPT ![sid[r]] = Nothing]}
  /\ Reply(r, "error")
  /\ UNCHANGED <<world, row, kind, sid, seen, uploadHist>>

\* The record could not be created: the shards are removed, and an error of
\* that removal is ignored.
Rollback(r) ==
  /\ at[r] = "rollback"
  /\ \/ blob' = [blob EXCEPT ![sid[r]] = Nothing] /\ UNCHANGED leftover
     \/ UNCHANGED blob /\ leftover' = leftover \cup {sid[r]}
  /\ Reply(r, "error")
  /\ UNCHANGED <<world, row, kind, sid, seen, since, misled>>
-----------------------------------------------------------------------------
(* ArtifactRepository.CreateOrUpdate: a read, then an insert or an update,  *)
(* then the tags, each a statement of its own.                              *)

\* Mutant: an artifact that exists counts as created.
LookAndSkip(r) ==
  /\ at[r] = "look"
  /\ IF row = Nothing THEN Goto(r, "insert") /\ UNCHANGED replied ELSE Reply(r, "ok")
  /\ UNCHANGED <<world, blob, row, kind, sid, seen, uploadHist>>

\* An error of the query is taken for an artifact that does not exist.
Look(r) ==
  /\ at[r] = "look"
  /\ \/ /\ row = Nothing
        /\ Goto(r, "insert")
        /\ UNCHANGED <<seen, misled>>
     \/ /\ row # Nothing
        /\ Goto(r, "update")
        /\ seen' = [seen EXCEPT ![r] = row]
        /\ UNCHANGED misled
     \/ /\ Goto(r, "insert")
        /\ misled' = misled \cup {r}
        /\ UNCHANGED seen
  /\ UNCHANGED <<world, blob, row, kind, sid, replied, since, leftover>>

Recorded(r) == IF r \in Tagged THEN Goto(r, "tags") /\ UNCHANGED replied ELSE Reply(r, "ok")

InsertRow(r) ==
  /\ at[r] = "insert"
  /\ row = Nothing
  /\ row' = ArtifactRow(r, r, sid[r])
  /\ RowChangedBy(r)
  /\ Recorded(r)
  /\ UNCHANGED <<world, blob, kind, sid, seen, leftover, misled>>

\* The unique constraint refuses the row; the request succeeds all the same.
InsertDuplicate(r) ==
  /\ at[r] = "insert"
  /\ row # Nothing
  /\ Reply(r, "ok")
  /\ UNCHANGED <<world, blob, row, kind, sid, seen, uploadHist>>

\* Mutant: the new metadata is not stored.
UpdateKeepsMetadata(r) ==
  /\ at[r] = "update"
  /\ row # Nothing /\ row.id = seen[r].id
  /\ row' = ArtifactRow(row.id, r, row.sid)
  /\ RowChangedBy(r)
  /\ Recorded(r)
  /\ UNCHANGED <<world, blob, kind, sid, seen, leftover, misled>>

UpdateRow(r) ==
  /\ at[r] = "update"
  /\ row # Nothing /\ row.id = seen[r].id
  /\ row' = ArtifactRow(row.id, r, sid[r])
  /\ RowChangedBy(r)
  /\ Recorded(r)
  /\ UNCHANGED <<world, blob, kind, sid, seen, leftover, misled>>

\* A statement fails, or the row to update was deleted.
StatementFails(r) ==
  /\ at[r] \in {"insert", "update"}
  /\ Goto(r, "rollback")
  /\ UNCHANGED <<world, blob, row, kind, sid, seen, replied, uploadHist>>

AddTags(r) ==
  /\ at[r] = "tags"
  /\ \/ Reply(r, "ok")
     \/ Goto(r, "rollback") /\ UNCHANGED replied
  /\ UNCHANGED <<world, blob, row, kind, sid, seen, uploadHist>>
-----------------------------------------------------------------------------
(* DownloadArtifact and DeleteArtifact. *)

\* GetByID; the tenant is the artifact's.
GetRow(r, k) ==
  /\ at[r] = "idle"
  /\ k \in {"download", "delete"}
  /\ kind' = [kind EXCEPT ![r] = k]
  /\ \/ row # Nothing /\ seen' = [seen EXCEPT ![r] = row]
        /\ Goto(r, IF k = "download" THEN "fetch" ELSE "delete")
        /\ UNCHANGED replied
     \/ Reply(r, "error") /\ UNCHANGED seen
  /\ UNCHANGED <<world, blob, row, sid, uploadHist>>

\* Mutant: the storage id is read again, from the row as it is by now.
FetchLatest(r) ==
  /\ at[r] = "fetch"
  /\ \/ /\ row # Nothing
        /\ LET data == blob[row.sid] IN
             data \in Calls /\ (seen[r].enc => data = seen[r].by) /\ Reply(r, data)
     \/ Reply(r, "error")
  /\ UNCHANGED <<world, blob, row, kind, sid, seen, uploadHist>>

\* The blob of the row that was read, and the plaintext if that row says it is
\* encrypted: a data key that does not fit is an error, while the data of a row
\* that is not encrypted goes out as it is, its checksum not compared.
Fetch(r) ==
  LET data == blob[seen[r].sid] IN
  /\ at[r] = "fetch"
  /\ \/ data \in Calls /\ (seen[r].enc => data = seen[r].by) /\ Reply(r, data)
     \/ Reply(r, "error")
  /\ UNCHANGED <<world, blob, row, kind, sid, seen, uploadHist>>

\* DELETE by artifact_id; the blob stays.
DeleteRow(r) ==
  /\ at[r] = "delete"
  /\ \/ Reply(r, "error") /\ UNCHANGED <<row, since>>
     \/ /\ Reply(r, "ok")
        /\ IF row # Nothing /\ row.id = seen[r].id
           THEN row' = Nothing /\ RowChangedBy(r)
           ELSE UNCHANGED <<row, since>>
  /\ UNCHANGED <<world, blob, kind, sid, seen, leftover, misled>>
-----------------------------------------------------------------------------
Tick ==
  /\ second < MaxSecond
  /\ second' = second + 1
  /\ UNCHANGED <<encrypting, blob, row, at, kind, sid, seen, replied, uploadHist, crashes>>

\* The process stops and is started again, with encryption on or off; the
\* requests under way are never answered.
UploadCrash ==
  /\ crashes < MaxCrashes
  /\ crashes' = crashes + 1
  /\ encrypting' \in Encryptions
  /\ at' = [r \in Calls |-> IF at[r] = "idle" THEN "idle" ELSE "done"]
  /\ UNCHANGED <<second, blob, row, kind, sid, seen, replied, uploadHist>>

Handle(r) ==
  \/ Upload(r) \/ Put(r) \/ PutFails(r) \/ Rollback(r) \/ Look(r) \/ InsertRow(r)
  \/ InsertDuplicate(r) \/ UpdateRow(r) \/ StatementFails(r) \/ AddTags(r)
  \/ Fetch(r) \/ DeleteRow(r)
  \/ \E k \in Kinds : GetRow(r, k)

UploadNext == (\E r \in Calls : Handle(r)) \/ Tick \/ UploadCrash

UploadSpec == UploadInit /\ [][UploadNext]_uploadVars
-----------------------------------------------------------------------------
(* Properties. *)

IsUpload(r) == kind[r] = "upload"

\* Two uploads of the artifact in the same second have the same storage id.
Shared(s) == \E q, r \in Calls :
  q # r /\ IsUpload(q) /\ IsUpload(r) /\ sid[q] = s /\ sid[r] = s

\* The row refers to the data of the upload that wrote it, unless an id was
\* used twice, or that upload failed to store its tags and has removed its data
\* from under the row.
RowHasItsData ==
  row # Nothing /\ ~Shared(row.sid) /\ ~(row.by \in Tagged /\ replied[row.by] = "error")
    => blob[row.sid] = row.by

\* A download returns the data its row was written for, or an error: never the
\* data of another upload, although nothing but the storage id ties the two
\* together where the row is not encrypted, and although other requests replace
\* the row and roll blobs back between the two reads.  Two uploads with one id
\* are the exception, and only for a row that is not encrypted.
DownloadMatchesRow ==
  \A r \in Calls : replied[r] \in Calls =>
    \/ replied[r] = seen[r].by
    \/ ~seen[r].enc /\ Shared(seen[r].sid)

\* The upload r is the artifact, or another request changed the row after r
\* began.
Kept(r) == (row # Nothing /\ row.by = r) \/ since[r] \ {r} # {}

\* An upload that was acknowledged is the artifact, unless another request
\* changed the row after it began or its query for the row failed: of two
\* uploads that race for the insert the loser may say that it succeeded.
AcknowledgedUploadIsKept ==
  \A r \in Calls \ misled : IsUpload(r) /\ replied[r] = "ok" => Kept(r)

\* An upload that was answered with an error left no data behind, unless its
\* removal failed as well.
FailedUploadLeavesNothing ==
  \A s \in SIds : blob[s] \in Calls /\ replied[blob[s]] = "error" =>
    s \in leftover
=============================================================================
