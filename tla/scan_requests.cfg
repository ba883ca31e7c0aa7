SPECIFICATION FairSpec
CONSTANTS
  s1 = s1  s2 = s2  s3 = s3  c1 = c1  c2 = c2
  None = None
  Scans = {s1, s2}
  Cancellers = {c1}
  MaxVersion = 2  MaxErrors = 1  MaxCrashes = 1
CHECK_DEADLOCK FALSE
INVARIANTS OneScanAtATime BlockedOnlyByWork ComplianceHasResults
PROPERTIES EveryScanEnds
