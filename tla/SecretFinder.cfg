\* Every file of up to three lines, and trees with directories that are skipped and files
\* that cannot be read.
CONSTANTS
  NoLine = NoLine
  TooLong = TooLong
  Checkouts <- MCCheckouts
SPECIFICATION FinderFairSpec
INVARIANTS FinderTypeOK NoLineMissed OnlyScannedFiles
PROPERTIES WalkEnds
\* Both goroutines end.
CHECK_DEADLOCK FALSE
