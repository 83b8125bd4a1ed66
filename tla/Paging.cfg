\* Every request and every walk, on either backend, while scans are updated and the
\* database may fail.
CONSTANTS
  MaxInt = 7
  Rows = 3
  MaxUpdates = 2
  DBMayFail = TRUE
  Bodies <- MCBodies
SPECIFICATION PagingSpec
INVARIANTS PagingTypeOK AnswersThePage WalkShowsAll
\* The clients end.
CHECK_DEADLOCK FALSE
