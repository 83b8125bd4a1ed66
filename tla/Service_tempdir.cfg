\* One scan, nobody deletes it, TempDir and then the clone may fail.
CONSTANTS
  s1 = s1
  s2 = s2
  d1 = d1
  f1 = f1
  NoId = NoId
  NoJob = NoJob
  NoRow = NoRow
  Jobs <- OneScan
  Ids <- MCIds
  Findings <- MCFindings
  Deleters = {}
  Readers = {}
  DBMayFail = FALSE
  MayCleanUp = FALSE
  CloneMayFail = TRUE
  TmpMayFail = TRUE
  Limit = 1
  Noop = FALSE
SPECIFICATION ServiceFairSpec
PROPERTIES ExecutingScansComplete
\* Every request may be answered and every goroutine have ended.
CHECK_DEADLOCK FALSE
