\* One scan, two DELETEs, a GET, CleanUp and crashes at any time, every fault possible.
CONSTANTS
  s1 = s1
  d1 = d1
  d2 = d2
  r1 = r1
  f1 = f1
  NoId = NoId
  NoJob = NoJob
  NoRow = NoRow
  Jobs <- OneScan
  Ids <- MCIds
  Findings <- MCFindings
  Deleters <- TwoDeleters
  Readers <- OneReader
  DBMayFail = TRUE
  MayCleanUp = TRUE
  CloneMayFail = TRUE
  TmpMayFail = TRUE
  Limit = 1
  Noop = FALSE
SPECIFICATION RestartSpec
INVARIANTS DeletedStaysDeleted TimesMatchStatus GetShowsStoredResult
PROPERTIES ImplementsLifecycle
\* Every request may be answered and every goroutine have ended.
CHECK_DEADLOCK FALSE
