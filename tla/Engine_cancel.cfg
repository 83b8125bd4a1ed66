\* One job is enough: its cancellation overtakes its start, or meets a blocked send.
CONSTANTS
  j1 = j1
  j2 = j2
  NoId = NoId
  NoJob = NoJob
  Jobs <- MCJobs
  Ids <- MCIds
  Findings = {}
  Limit = 1
  Noop = FALSE
  CloneMayFail = TRUE
  TmpMayFail = FALSE
SPECIFICATION EngineSpec
PROPERTIES NoDataAfterStopScan
CHECK_DEADLOCK FALSE
