SPECIFICATION FairSpec
CONSTANTS
  t1 = t1  t2 = t2  t3 = t3  v1 = v1  v2 = v2
  NoThread = NoThread
  None = None  Bad = Bad
  Threads = {t1, t2}
  Values = {v1, v2}
  DataShards = 2  ParityShards = 1
  Ops = {"upload", "download", "delete", "verify"}
  MaxOps = 3  MaxFaults = 1  MaxCrashes = 1
CHECK_DEADLOCK FALSE
INVARIANTS AckedIsDurable DirectoryIsWhole
PROPERTIES BlobIsAtomic RequestsEnd
