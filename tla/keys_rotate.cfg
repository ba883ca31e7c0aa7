SPECIFICATION FairSpec
CONSTANTS
  r1 = r1
  r2 = r2
  j1 = j1
  j2 = j2
  Artifacts = {1, 2, 3, 4}
  Rotations = {r1, r2}
  Jobs = {j1, j2}
  BatchSize = 2
  None = None
  OldKey = OldKey
  Setups <- AllSetups
INVARIANTS KeysInUseAreStored  MetaIsWhole
PROPERTIES KeyOutlivesRotations JobsEnd
CHECK_DEADLOCK FALSE
