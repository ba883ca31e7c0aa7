SPECIFICATION FairScanSpec
CONSTANTS
  Jobs = {j1, j2, j3}
  Null = Null
  ScanPlans <- AllPlans
INVARIANTS RefusedOnlyByWork ReportBehindTheRow
PROPERTIES QuarantineIsKept ScanningEnds
CHECK_DEADLOCK FALSE
