SPECIFICATION ArtifactsSpec
CONSTANTS
  u1 = u1  u2 = u2  u3 = u3
  Calls = {u1, u2, u3}
  Encryptions = {TRUE, FALSE}  Tagged = {u3}
  MaxSecond = 2  MaxCrashes = 1
  c1 = c1  c2 = c2  r1 = r1  r2 = r2
  Requests = {c1, c2, r1, r2}
  None = None  Nothing = Nothing
  Empty = Empty
  Plans <- SomePlans
SYMMETRY Symmetric
CHECK_DEADLOCK FALSE
INVARIANTS RowHasItsData DownloadMatchesRow AcknowledgedUploadIsKept
INVARIANTS SingleValueIsSingle AcknowledgedUpdatesStay AnswersAreCurrent SealedValuesCanBeOpened
