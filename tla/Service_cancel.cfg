\* One scan and one DELETE.
CONSTANTS
  s1 = s1
  s2 = s2
  d1 = d1
  f1 = f1
  NoId = NoId
  NoJob = NoJob
  NoRow = NoRow
  Jobs <- OneScan
  Ids <- MCIds
  Findings <- MCFindings
  Deleters <- OneDeleter
  Readers = {}
  DBMayFail = FALSE
  MayCleanUp = FALSE
  CloneMayFail = FALSE
  TmpMayFail = FALSE
  Limit = 1
  Noop = FALSE
SPECIFICATION ServiceFairSpec
PROPERTIES DeletedScanIsCancelled
\* Every request may be answered and every goroutine have ended.
CHECK_DEADLOCK FALSE
