SPECIFICATION FairSpec
CONSTANTS
  Scanners = {s1, s2, s3}
  Keys = {"c1", "c2"}
  Answers <- AllAnswers
  Requests <- AllRequests
INVARIANTS CountedOnce ReportIsComplete NoScannerOutlivesTheCall
PROPERTIES CallEnds
CHECK_DEADLOCK FALSE
