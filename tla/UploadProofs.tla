---------------------------- MODULE UploadProofs ----------------------------
(* Proofs about ArtifactUpload, for every number of requests, encryption    *)
(* turned on or off, with and without tags, and every bound on seconds and  *)
(* crashes.                                                                 *)
EXTENDS ArtifactUpload, TLAPS

\* The types that the proofs below use of the state.
Typed ==
  /\ encrypting \in BOOLEAN
  /\ blob \in [SIds -> Calls \cup {Nothing}]
  /\ row \in ArtifactRows \cup {Nothing}
  /\ at \in [Calls -> PCs]
  /\ kind \in [Calls -> Kinds \cup {Nothing}]
  /\ sid \in [Calls -> SIds \cup {0}]
  /\ seen \in [Calls -> ArtifactRows \cup {Nothing}]
  /\ replied \in [Calls -> Calls \cup {Nothing, "ok", "error"}]
  /\ since \in [Calls -> SUBSET Calls]
  /\ leftover \in SUBSET SIds
  /\ misled \in SUBSET Calls

\* Where uploads and the other requests can be, and what they have by then.
Recording == {"look", "insert", "update", "tags", "rollback"}
Stages ==
  \A r \in Calls :
    /\ at[r] = "idle" => kind[r] = Nothing
    /\ at[r] \in Recording \cup {"put"} => IsUpload(r)
    /\ IsUpload(r) => sid[r] \in SIds
    /\ at[r] \in {"fetch", "delete"} => ~IsUpload(r)
    /\ at[r] \in {"update", "fetch", "delete"} => seen[r] # Nothing
    /\ replied[r] # Nothing => at[r] = "done"
    /\ replied[r] \in Calls => ~IsUpload(r) /\ seen[r] # Nothing

\* A row is the record of an upload, under the storage id of that upload.
Written(w) == w.by \in Calls /\ IsUpload(w.by) /\ sid[w.by] = w.sid
RowsAreWritten ==
  /\ row # Nothing => Written(row)
  /\ \A r \in Calls : seen[r] # Nothing => Written(seen[r])

\* A blob was put there by the upload it holds the data of.
BlobsArePut ==
  \A s \in SIds : blob[s] \in Calls =>
    /\ IsUpload(blob[s]) /\ sid[blob[s]] = s
    /\ at[blob[s]] # "put"

\* An upload that is recording its row still has its data, if it does not share
\* its id; once its row is there it is through, or it adds its tags or rolls
\* back because of them.
OwnData ==
  \A r \in Calls :
    at[r] \in Recording /\ ~Shared(sid[r]) => blob[sid[r]] = r
RowIsFinal ==
  row # Nothing =>
    at[row.by] = "done" \/ (row.by \in Tagged /\ at[row.by] \in {"tags", "rollback"})

\* An upload about to insert found no row, so one that is there now is a
\* change; and one that adds its tags has recorded itself.
RacedInsert ==
  \A r \in Calls \ misled :
    at[r] = "insert" => row = Nothing \/ since[r] \ {r} # {}
TagsOfKept == \A r \in Calls : at[r] = "tags" => Kept(r)

UploadInv ==
  /\ Typed /\ Stages /\ RowsAreWritten /\ BlobsArePut /\ OwnData /\ RowIsFinal
  /\ RacedInsert /\ TagsOfKept
  /\ RowHasItsData /\ DownloadMatchesRow /\ AcknowledgedUploadIsKept
  /\ FailedUploadLeavesNothing

\* It holds before the first request.
LEMMA InitUploadInv == UploadInit => UploadInv
BY UploadAssumption
   DEF UploadAssumption, UploadInit, UploadInv, Typed, Stages, RowsAreWritten,
       BlobsArePut, OwnData, RowIsFinal, RacedInsert, TagsOfKept, RowHasItsData,
       DownloadMatchesRow, AcknowledgedUploadIsKept, FailedUploadLeavesNothing,
       IsUpload, Recording, PCs, Kinds

\* A change of the row enters the history of every request under way.
LEMMA ChangeIsSeen ==
  ASSUME Typed, NEW r \in Calls, RowChangedBy(r)
  PROVE  /\ since' \in [Calls -> SUBSET Calls]
         /\ \A q \in Calls \ {r} : at[q] # "idle" => since'[q] \ {q} # {}
         /\ \A q \in Calls : since[q] \ {q} # {} => since'[q] \ {q} # {}
<1>1. since' \in [Calls -> SUBSET Calls]
  BY DEF Typed, RowChangedBy
<1>2. ASSUME NEW q \in Calls \ {r}, at[q] # "idle" PROVE since'[q] \ {q} # {}
  BY <1>2 DEF Typed, RowChangedBy
<1>3. ASSUME NEW q \in Calls PROVE since[q] \subseteq since'[q]
  BY DEF Typed, RowChangedBy
<1> QED BY <1>1, <1>2, <1>3

\* A row's fields, and a row is not the absence of one.
LEMMA RowFields ==
  ASSUME encrypting \in BOOLEAN, NEW i \in Calls, NEW r \in Calls, NEW s \in SIds
  PROVE  /\ ArtifactRow(i, r, s) \in ArtifactRows /\ ArtifactRow(i, r, s) # Nothing
         /\ ArtifactRow(i, r, s).id = i /\ ArtifactRow(i, r, s).by = r /\ ArtifactRow(i, r, s).sid = s
BY NoRowAssumption DEF ArtifactRow, ArtifactRows

\* Every step keeps it.  A step changes the blob of an id only for an upload
\* with that id, so an upload that does not share its id keeps its data.
LEMMA StepKeepsUploadInv == UploadInv /\ [UploadNext]_uploadVars => UploadInv'
<1> SUFFICES ASSUME UploadInv, [UploadNext]_uploadVars PROVE UploadInv'
  OBVIOUS
<1> USE UploadAssumption
    DEF UploadAssumption, UploadInv, Typed, Stages, RowsAreWritten, Written,
        BlobsArePut, OwnData, RowIsFinal, RacedInsert, TagsOfKept, RowHasItsData,
        DownloadMatchesRow, AcknowledgedUploadIsKept, FailedUploadLeavesNothing,
        IsUpload, Shared, Kept, Recording, PCs, Kinds, Goto, Reply,
        Recorded, uploadHist, world
<1>1. ASSUME NEW r \in Calls, Upload(r) PROVE UploadInv'
  <2>1. /\ at[r] = "idle" /\ second \in SIds
        /\ kind' = [kind EXCEPT ![r] = "upload"] /\ sid' = [sid EXCEPT ![r] = second]
        /\ UNCHANGED <<world, blob, row, seen, uploadHist>>
    BY <1>1 DEF Upload
  <2>2. CASE Goto(r, "put") /\ UNCHANGED replied
    BY <2>1, <2>2
  <2>3. CASE Reply(r, "error")
    BY <2>1, <2>3
  <2> QED BY <1>1, <2>2, <2>3 DEF Upload
<1>2. ASSUME NEW r \in Calls, Put(r) PROVE UploadInv'
  BY <1>2 DEF Put
<1>3. ASSUME NEW r \in Calls, PutFails(r) PROVE UploadInv'
  BY <1>3 DEF PutFails
<1>4. ASSUME NEW r \in Calls, Rollback(r) PROVE UploadInv'
  BY <1>4 DEF Rollback
<1>5. ASSUME NEW r \in Calls, Look(r) PROVE UploadInv'
  BY <1>5 DEF Look
<1>6. ASSUME NEW r \in Calls, InsertRow(r) PROVE UploadInv'
  <2>1. row' = ArtifactRow(r, r, sid[r]) /\ RowChangedBy(r)
    BY <1>6 DEF InsertRow
  <2>2. /\ row' \in ArtifactRows /\ row' # Nothing
        /\ row'.by = r /\ row'.sid = sid[r]
    BY <1>6, <2>1, RowFields DEF InsertRow
  <2>3. /\ since' \in [Calls -> SUBSET Calls]
        /\ \A q \in Calls \ {r} : at[q] # "idle" => since'[q] \ {q} # {}
        /\ \A q \in Calls : since[q] \ {q} # {} => since'[q] \ {q} # {}
    BY <2>1, ChangeIsSeen
  <2>4. /\ at[r] = "insert" /\ Recorded(r)
        /\ UNCHANGED <<world, blob, kind, sid, seen, leftover, misled>>
    BY <1>6 DEF InsertRow
  <2>5. \A q \in Calls : q = r \/ at[q] # "idle" => Kept(q)'
    BY <2>2, <2>3
  <2> HIDE DEF Kept
  <2>6. CASE r \in Tagged
    BY <2>2, <2>3, <2>4, <2>5, <2>6
  <2>7. CASE r \notin Tagged
    BY <2>2, <2>3, <2>4, <2>5, <2>7
  <2> QED BY <2>6, <2>7
<1>7. ASSUME NEW r \in Calls, InsertDuplicate(r) PROVE UploadInv'
  BY <1>7 DEF InsertDuplicate
<1>8. ASSUME NEW r \in Calls, UpdateRow(r) PROVE UploadInv'
  <2>0. row.id \in Calls
    BY <1>8 DEF UpdateRow, ArtifactRows
  <2>1. row' = ArtifactRow(row.id, r, sid[r]) /\ RowChangedBy(r)
    BY <1>8 DEF UpdateRow
  <2>2. /\ row' \in ArtifactRows /\ row' # Nothing
        /\ row'.by = r /\ row'.sid = sid[r]
    BY <1>8, <2>0, <2>1, RowFields DEF UpdateRow
  <2>3. /\ since' \in [Calls -> SUBSET Calls]
        /\ \A q \in Calls \ {r} : at[q] # "idle" => since'[q] \ {q} # {}
        /\ \A q \in Calls : since[q] \ {q} # {} => since'[q] \ {q} # {}
    BY <2>1, ChangeIsSeen
  <2>4. /\ at[r] = "update" /\ Recorded(r)
        /\ UNCHANGED <<world, blob, kind, sid, seen, leftover, misled>>
    BY <1>8 DEF UpdateRow
  <2>5. \A q \in Calls : q = r \/ at[q] # "idle" => Kept(q)'
    BY <2>2, <2>3
  <2> HIDE DEF Kept
  <2>6. CASE r \in Tagged
    BY <2>2, <2>3, <2>4, <2>5, <2>6
  <2>7. CASE r \notin Tagged
    BY <2>2, <2>3, <2>4, <2>5, <2>7
  <2> QED BY <2>6, <2>7
<1>9. ASSUME NEW r \in Calls, StatementFails(r) PROVE UploadInv'
  BY <1>9 DEF StatementFails
<1>10. ASSUME NEW r \in Calls, AddTags(r) PROVE UploadInv'
  <2>1. CASE Reply(r, "ok") /\ UNCHANGED <<world, blob, row, kind, sid, seen, uploadHist>>
    BY <1>10, <2>1 DEF AddTags
  <2>2. CASE Goto(r, "rollback") /\ UNCHANGED replied
    BY <1>10, <2>2 DEF AddTags
  <2> QED BY <1>10, <2>1, <2>2 DEF AddTags
<1>11. ASSUME NEW r \in Calls, Fetch(r) PROVE UploadInv'
  <2> DEFINE data == blob[seen[r].sid]
  <2>1. CASE Reply(r, "error")
    BY <1>11, <2>1 DEF Fetch
  <2>2. CASE data \in Calls /\ (seen[r].enc => data = seen[r].by) /\ Reply(r, data)
    BY <1>11, <2>2 DEF Fetch
  <2> QED BY <1>11, <2>1, <2>2 DEF Fetch
<1>12. ASSUME NEW r \in Calls, DeleteRow(r) PROVE UploadInv'
  <2>1. CASE Reply(r, "error") /\ UNCHANGED <<row, since>>
    BY <1>12, <2>1 DEF DeleteRow
  <2>2. CASE Reply(r, "ok") /\ row # Nothing /\ row.id = seen[r].id /\ row' = Nothing /\ RowChangedBy(r)
    BY <1>12, <2>2, ChangeIsSeen DEF DeleteRow
  <2>3. CASE Reply(r, "ok") /\ UNCHANGED <<row, since>>
    BY <1>12, <2>3 DEF DeleteRow
  <2> QED BY <1>12, <2>1, <2>2, <2>3 DEF DeleteRow
<1>13. ASSUME NEW r \in Calls, NEW k \in Kinds, GetRow(r, k) PROVE UploadInv'
  <2>1. /\ at[r] = "idle" /\ k \in {"download", "delete"}
        /\ kind' = [kind EXCEPT ![r] = k]
        /\ UNCHANGED <<world, blob, row, sid, since, leftover, misled>>
    BY <1>13 DEF GetRow
  <2>2. CASE Reply(r, "error") /\ UNCHANGED seen
    BY <2>1, <2>2
  <2>3. ASSUME NEW l \in {"fetch", "delete"}, row # Nothing,
               seen' = [seen EXCEPT ![r] = row], Goto(r, l), UNCHANGED replied
        PROVE  UploadInv'
    BY <2>1, <2>3
  <2> QED BY <1>13, <2>2, <2>3 DEF GetRow
<1>14. CASE Tick BY <1>14 DEF Tick
<1>15. CASE UploadCrash BY <1>15 DEF UploadCrash
<1>16. CASE UNCHANGED uploadVars BY <1>16 DEF uploadVars
<1> HIDE DEF UploadInv
<1> QED BY <1>1, <1>2, <1>3, <1>4, <1>5, <1>6, <1>7, <1>8, <1>9, <1>10, <1>11,
           <1>12, <1>13, <1>14, <1>15, <1>16 DEF UploadNext, Handle

LEMMA Inductive == UploadSpec => []UploadInv
BY InitUploadInv, StepKeepsUploadInv, PTL DEF UploadSpec

\* However requests interleave and fail, the row of an artifact refers to the
\* data of the upload that wrote it, unless ids collide or tags fail.
THEOREM RowAndDataAgree == UploadSpec => []RowHasItsData
<1>1. UploadInv => RowHasItsData
  BY DEF UploadInv
<1> QED BY <1>1, Inductive, PTL

\* A download never mixes two versions, whatever happens between its read of the
\* row and its read of the blob.
THEOREM DownloadsAreUnmixed == UploadSpec => []DownloadMatchesRow
<1>1. UploadInv => DownloadMatchesRow
  BY DEF UploadInv
<1> QED BY <1>1, Inductive, PTL

\* What an upload is answered: after "ok" it is the artifact, unless another
\* request changed the row since it began or its query for the row failed; after
\* an error nothing is left of it in the store, unless the rollback failed too.
THEOREM UploadAnswersAreTrue ==
  UploadSpec => [](AcknowledgedUploadIsKept /\ FailedUploadLeavesNothing)
<1>1. UploadInv => AcknowledgedUploadIsKept /\ FailedUploadLeavesNothing
  BY DEF UploadInv
<1> QED BY <1>1, Inductive, PTL

\* Type correctness: storage ids are seconds the clock has shown, and rows,
\* blobs and histories keep their form in every step, a crash included.
THEOREM UploadTypes == UploadSpec => []UploadTypeOK
<1> USE UploadAssumption DEF UploadAssumption
<1>1. UploadInit => second \in Nat \ {0} /\ crashes \in Nat
  BY DEF UploadInit
<1>2. second \in Nat \ {0} /\ crashes \in Nat /\ [UploadNext]_uploadVars
      => (second \in Nat \ {0} /\ crashes \in Nat)'
  <2> SUFFICES ASSUME second \in Nat \ {0}, crashes \in Nat, [UploadNext]_uploadVars
               PROVE  (second \in Nat \ {0} /\ crashes \in Nat)'
    OBVIOUS
  <2>1. ASSUME NEW r \in Calls, Handle(r) PROVE UNCHANGED <<second, crashes>>
    BY <2>1 DEF Handle, Upload, Put, PutFails, Rollback, Look, InsertRow, InsertDuplicate,
                UpdateRow, StatementFails, AddTags, Fetch, DeleteRow, GetRow, uploadHist, world
  <2>2. Tick \/ UploadCrash \/ UNCHANGED uploadVars => (second \in Nat \ {0} /\ crashes \in Nat)'
    BY DEF Tick, UploadCrash, uploadVars, uploadHist, world
  <2> QED BY <2>1, <2>2 DEF UploadNext
<1>3. UploadInv /\ second \in Nat \ {0} /\ crashes \in Nat => UploadTypeOK
  BY DEF UploadInv, Typed, UploadTypeOK
<1> QED BY <1>1, <1>2, <1>3, Inductive, PTL DEF UploadSpec
=============================================================================
