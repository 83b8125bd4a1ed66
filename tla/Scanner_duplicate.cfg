\* Two jobs under one id.
CONSTANTS
  j1 = j1
  j2 = j2
  i1 = i1
  i2 = i2
  NoId = NoId
  NoJob = NoJob
  Jobs <- MCJobs
  Ids <- MCIds
  Findings = {}
  Limit = 1
  Noop = FALSE
  CloneMayFail = TRUE
  TmpMayFail = TRUE
SPECIFICATION ScannerSpec
INVARIANTS RejectedJobsAreNotWorked
CHECK_DEADLOCK FALSE
