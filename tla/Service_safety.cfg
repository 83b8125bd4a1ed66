\* Two scans for one token, a DELETE at any time, failing clones.
CONSTANTS
  s1 = s1
  s2 = s2
  d1 = d1
  f1 = f1
  NoId = NoId
  NoJob = NoJob
  NoRow = NoRow
  Jobs <- TwoScans
  Ids <- MCIds
  Findings <- MCFindings
  Deleters <- OneDeleter
  Readers = {}
  DBMayFail = FALSE
  MayCleanUp = FALSE
  CloneMayFail = TRUE
  TmpMayFail = FALSE
  Limit = 1
  Noop = FALSE
SPECIFICATION ServiceFairSpec
INVARIANTS ServiceTypeOK SuccessIsComplete RowFollowsReports OnlyDeletedScansStrand UnfinishedIsAttended
PROPERTIES ScansFinish RegistryDrains
\* Every request may be answered and every goroutine have ended.
CHECK_DEADLOCK FALSE
