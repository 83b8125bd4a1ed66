\* Both stores under three calls at once, or a scan that is deleted while it is worked on.
CONSTANTS
  p1 = p1
  p2 = p2
  p3 = p3
  f1 = f1
  Handler = Handler
  Deleter = Deleter
  Absent = Absent
  Callers <- MCCallers
  Procs <- MCProcs
  Vals <- MCVals
  Written <- MCWritten
  Params <- MCParams
  Findings <- MCFindings
  MaxId = 3
  MaxInt = 7
SPECIFICATION MemServiceSpec
INVARIANTS TableTypeOK TotalCountsRows InsertedIdsAreUnique QuietDeleteIsWhole
PROPERTIES AtomicButForLateWrites PanicsOnlyOutOfStep
SYMMETRY CallSymmetry
\* Every call may have ended.
CHECK_DEADLOCK FALSE
