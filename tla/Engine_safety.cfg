\* Two jobs, one token, failing clones, cancellation, Stop and CleanUp at any time.
CONSTANTS
  j1 = j1
  j2 = j2
  NoId = NoId
  NoJob = NoJob
  Jobs <- MCJobs
  Ids <- MCIds
  Findings = {}
  Limit = 1
  Noop = FALSE
  CloneMayFail = TRUE
  TmpMayFail = FALSE
SPECIFICATION EngineFairSpec
INVARIANTS EngineTypeOK TokenAccounting BoardEntriesAreLive WorkersServeTheirOwnJob UpdateProtocol OnlyClosedBoardRefuses
PROPERTIES JobsComplete WorkersEnd
\* Every goroutine may have ended.
CHECK_DEADLOCK FALSE
