\* One job is enough: it is between the check of jobBoardOpen and the lock.
CONSTANTS
  j1 = j1
  j2 = j2
  NoId = NoId
  NoJob = NoJob
  Jobs <- MCJobs
  Ids <- MCIds
  Findings = {}
  Limit = 1
  Noop = FALSE
  CloneMayFail = TRUE
  TmpMayFail = FALSE
SPECIFICATION EngineSpec
INVARIANTS CleanBoardStaysEmpty
CHECK_DEADLOCK FALSE
