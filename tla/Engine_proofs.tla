---------------------------- MODULE Engine_proofs ----------------------------
(***************************************************************************)
(* Proofs about Engine for every number of jobs. Every step of the engine  *)
(* is a step of the open scanner or leaves it alone, so what               *)
(* Scanner_proofs shows carries over; EngineInv adds what AddJob's unique  *)
(* ids give, and ReportInv the bookkeeping of the Result channels.         *)
(***************************************************************************)
EXTENDS Engine, Scanner_proofs, SequenceTheorems

\* The ids given out are below the counter, and no two jobs share one.
UniqueIds ==
  /\ nextJobId \in Nat
  /\ \A j \in Jobs : id[j] # NoId => id[j] < nextJobId
  /\ \A j, k \in Jobs : id[j] # NoId /\ id[j] = id[k] => j = k

EngineInv ==
  /\ ScannerInv
  /\ UniqueIds
  /\ OnlyClosedBoardRefuses

-----------------------------------------------------------------------------
(* The engine is a scanner.                                                *)

LEMMA EngineStepIsScannerStep ==
  ASSUME [EngineNext]_engineVars
  PROVE  [ScannerNext]_scannerVars
<1>1. ASSUME NEW j \in Jobs, AddJob(j) \/ RemoveJob(j) PROVE [ScannerNext]_scannerVars
  BY <1>1, EngineAssumption DEF AddJob, RemoveJob, ScannerNext, scannerVars
<1>2. ASSUME NEW j \in Jobs, ScannerStep(j) \/ Deliver(j) PROVE [ScannerNext]_scannerVars
  BY <1>2 DEF ScannerStep, Deliver, ScannerNext
<1>3. ASSUME ControllerStep \/ Stop PROVE [ScannerNext]_scannerVars
  BY <1>3 DEF ControllerStep, RunIncoming, RunCancelling, RunQuit, Stop, ScannerNext
<1>4. ASSUME CleanUp PROVE [ScannerNext]_scannerVars
  BY <1>4 DEF CleanUp, ScannerNext
<1>5. ASSUME UNCHANGED engineVars PROVE [ScannerNext]_scannerVars
  BY <1>5 DEF engineVars
<1> QED
  BY <1>1, <1>2, <1>3, <1>4, <1>5 DEF EngineNext

\* The engine implements the open scanner: the controller adds no behaviour to it, and
\* every invariant of the scanner is one of the engine.
THEOREM EngineIsScanner == EngineSpec => ScannerSpec
<1>1. EngineInit => ScannerInit
  BY DEF EngineInit
<1>2. [EngineNext]_engineVars => [ScannerNext]_scannerVars
  BY EngineStepIsScannerStep
<1> QED
  BY <1>1, <1>2, PTL DEF EngineSpec, ScannerSpec

-----------------------------------------------------------------------------
(* Unique ids.                                                             *)

\* The entry under the id of a built job, or the job Work picks up by it, is that job.
LEMMA OwnJob ==
  ASSUME EngineInv, NEW j \in Jobs, id[j] \in Ids
  PROVE  board[id[j]] \in {j, NoJob}
BY ScannerAssumption DEF EngineInv, ScannerInv, ScannerTypeOK, BoardEntriesAreLive, UniqueIds

\* addToJobBoard finds no other job under the id.
LEMMA NoDuplicate ==
  ASSUME EngineInv, NEW j \in Jobs, start[j] = "add"
  PROVE  board[id[j]] = NoJob
<1>1. id[j] \in Ids /\ work[j] = "none"
  BY DEF EngineInv, ScannerInv, StartedJobs
<1> QED
  BY <1>1, OwnJob, ScannerAssumption DEF EngineInv, ScannerInv, BoardEntriesAreLive

LEMMA UniqueIdsNext ==
  ASSUME EngineInv, [EngineNext]_engineVars
  PROVE  UniqueIds'
<1>1. ASSUME NEW j \in Jobs, AddJob(j) PROVE UniqueIds'
  <2>1. /\ id' = [id EXCEPT ![j] = nextJobId]
        /\ nextJobId \in Nat /\ nextJobId' = nextJobId + 1
    BY <1>1, EngineAssumption DEF AddJob, NewJob, SuccJobId
  <2>2. \A k \in Jobs : id[k] # NoId => id[k] \in Nat
    BY EngineAssumption DEF EngineInv, ScannerInv, ScannerTypeOK
  <2> QED
    BY <2>1, <2>2 DEF EngineInv, ScannerInv, ScannerTypeOK, UniqueIds
<1>2. ASSUME UNCHANGED <<id, nextJobId>> PROVE UniqueIds'
  BY <1>2 DEF EngineInv, UniqueIds
<1>3. (\E j \in Jobs : AddJob(j)) \/ UNCHANGED <<id, nextJobId>>
  BY DEF EngineNext, RemoveJob, ScannerStep, Deliver, ControllerStep, RunIncoming,
     RunCancelling, RunQuit, Stop, CleanUp, engineVars, scannerVars, controllerVars,
     CallStartScan, CallStopScan, CheckBoardOpen, AddToJobBoard, StopScan, WorkStep,
     AcquireToken, Lookup, Send, MakeTempDir, CloneRepository, RemoveFromJobBoard, Scan,
     Verdict, ReleaseToken, SendReject, CloseBoard, ClearBoard, callVars
<1> QED
  BY <1>1, <1>2, <1>3

\* Only CheckBoardOpen and AddToJobBoard refuse a job.
LEMMA OnlyClosedBoardRefusesNext ==
  ASSUME EngineInv, [ScannerNext]_scannerVars
  PROVE  OnlyClosedBoardRefuses'
<1>1. ASSUME NEW j \in Jobs, CheckBoardOpen(j) PROVE OnlyClosedBoardRefuses'
  BY <1>1 DEF EngineInv, OnlyClosedBoardRefuses, CheckBoardOpen, Refuse, boardVars
<1>2. ASSUME NEW j \in Jobs, AddToJobBoard(j) PROVE OnlyClosedBoardRefuses'
  BY <1>2, NoDuplicate DEF EngineInv, OnlyClosedBoardRefuses, AddToJobBoard
<1>3. ASSUME NEW j \in Jobs, SendReject(j) PROVE OnlyClosedBoardRefuses'
  BY <1>3 DEF EngineInv, ScannerInv, ScannerTypeOK, OnlyClosedBoardRefuses, SendReject,
     boardVars
<1>4. ASSUME UNCHANGED reject, phase' = phase \/ phase' # "open"
      PROVE  OnlyClosedBoardRefuses'
  BY <1>4 DEF EngineInv, OnlyClosedBoardRefuses
<1>5. \/ \E j \in Jobs : CheckBoardOpen(j) \/ AddToJobBoard(j) \/ SendReject(j)
      \/ UNCHANGED reject /\ (phase' = phase \/ phase' # "open")
  BY DEF ScannerNext, scannerVars, NewJob, CallStartScan, CallStopScan, StopScan,
     WorkStep, AcquireToken, Lookup, Send, MakeTempDir, CloneRepository,
     RemoveFromJobBoard, Scan, Verdict, ReleaseToken, CloseBoard, ClearBoard, callVars,
     boardVars
<1> QED
  BY <1>1, <1>2, <1>3, <1>4, <1>5

LEMMA EngineInvInit == EngineInit => EngineInv
<1> SUFFICES ASSUME EngineInit PROVE UniqueIds /\ OnlyClosedBoardRefuses
  BY ScannerInvInit DEF EngineInit, EngineInv
<1> QED
  BY DEF EngineInit, ScannerInit, ControllerInit, UniqueIds, OnlyClosedBoardRefuses

LEMMA EngineInvNext ==
  ASSUME EngineInv, [EngineNext]_engineVars
  PROVE  EngineInv'
<1>1. [ScannerNext]_scannerVars
  BY EngineStepIsScannerStep
<1> QED
  BY <1>1, ScannerInvNext, UniqueIdsNext, OnlyClosedBoardRefusesNext DEF EngineInv

\* The invariant of the engine without its Result channels.
THEOREM EngineSafe == EngineSpec => []EngineInv
BY EngineInvInit, EngineInvNext, PTL DEF EngineSpec

\* Only a scanner that is being cleaned up refuses a job of the controller, whatever the
\* order in which the goroutines of the jobs reach the board.
THEOREM EngineRefusals == EngineSpec => []OnlyClosedBoardRefuses
<1>1. EngineInv => OnlyClosedBoardRefuses
  BY DEF EngineInv
<1> QED
  BY <1>1, EngineSafe, PTL

LEMMA OwnWorker == EngineInv => WorkersServeTheirOwnJob
<1> SUFFICES ASSUME EngineInv, NEW w \in Jobs, cur[w] # NoJob PROVE cur[w] = w
  BY DEF WorkersServeTheirOwnJob
<1>1. id[cur[w]] = id[w] /\ work[w] # "none"
  BY DEF EngineInv, ScannerInv, CurrentJobs
<1>2. id[w] \in Ids
  BY <1>1 DEF EngineInv, ScannerInv, ScannerTypeOK, StartedJobs
<1> QED
  BY <1>1, <1>2, ScannerAssumption DEF EngineInv, ScannerInv, ScannerTypeOK, UniqueIds

\* No Work goroutine reports to the channel of another job, for any number of jobs,
\* cancellations and tokens.
THEOREM EngineWorkers == EngineSpec => []WorkersServeTheirOwnJob
BY OwnWorker, EngineSafe, PTL

\* The types of the controller's variables, but for nextJobId.
ControllerType ==
  /\ incoming \subseteq Jobs
  /\ cancelling \subseteq Jobs
  /\ quit \in {"no", "sending", "received"}

LEMMA ControllerTypeNext ==
  ASSUME ControllerType, [EngineNext]_engineVars
  PROVE  ControllerType'
BY DEF ControllerType, EngineNext, AddJob, RemoveJob, ScannerStep, Deliver, ControllerStep,
   RunIncoming, RunCancelling, RunQuit, Stop, CleanUp, engineVars, controllerVars

LEMMA EngineTypeFollows == EngineInv /\ ControllerType <=> EngineInv /\ EngineTypeOK
BY DEF EngineInv, ScannerInv, UniqueIds, ControllerType, EngineTypeOK

\* Type correctness of the engine.
THEOREM EngineTypeCorrect == EngineSpec => []EngineTypeOK
<1>1. EngineInit => ControllerType
  BY DEF EngineInit, ControllerInit, ControllerType
<1> QED
  BY <1>1, ControllerTypeNext, EngineTypeFollows, EngineSafe, PTL DEF EngineSpec

-----------------------------------------------------------------------------
(* Refused jobs, also when a temporary directory may fail.                 *)

\* A refused job is not on the board: its Work finds nothing and returns.
RefusedJobsIdle ==
  \A j \in Jobs : reject[j] # "none" =>
    /\ work[j] \in {"token", "lookup", "release", "done"}
    /\ board[id[j]] = NoJob

\* A step that refuses no job keeps the refused ones off the board.
LEMMA NothingRefused ==
  ASSUME EngineInv, RefusedJobsIdle,
         \A j \in Jobs : reject'[j] # "none" => reject[j] # "none",
         \A j \in Jobs : id[j] # NoId => id'[j] = id[j],
         \A i \in Ids : board[i] = NoJob => board'[i] = NoJob,
         \A j \in Jobs : reject[j] # "none" =>
           work'[j] \in {"token", "lookup", "release", "done"}
  PROVE  RefusedJobsIdle'
<1>1. \A j \in Jobs : work[j] # "none" => id[j] \in Ids /\ id'[j] = id[j]
  BY ScannerAssumption DEF EngineInv, ScannerInv, StartedJobs
<1> QED
  BY <1>1 DEF RefusedJobsIdle

\* Work of a refused job looks itself up in vain and returns.
LEMMA RefusedWorkReturns ==
  ASSUME EngineInv, RefusedJobsIdle, NEW w \in Jobs, WorkStep(w) \/ Send(w),
         NEW j \in Jobs, reject[j] # "none"
  PROVE  work'[j] \in {"token", "lookup", "release", "done"}
<1>1. CASE j # w
  BY <1>1 DEF EngineInv, ScannerInv, ScannerTypeOK, RefusedJobsIdle, WorkStep, AcquireToken,
     Lookup, MakeTempDir, CloneRepository, RemoveFromJobBoard, Scan, Verdict, ReleaseToken, Send
<1>2. CASE j = w
  <2>1. work[w] \in {"token", "lookup", "release", "done"} /\ board[id[w]] = NoJob
    BY <1>2 DEF RefusedJobsIdle
  <2>2. AcquireToken(w) \/ Lookup(w) \/ ReleaseToken(w)
    BY <2>1 DEF WorkStep, MakeTempDir, CloneRepository, RemoveFromJobBoard, Scan, Verdict,
       Send, Sending, Dropping
  <2> QED
    BY <1>2, <2>1, <2>2 DEF EngineInv, ScannerInv, ScannerTypeOK, AcquireToken, Lookup,
       ReleaseToken
<1> QED
  BY <1>1, <1>2

\* StartScan refuses a job when its id is free, or becomes the id of no other job.
LEMMA StartRefuses ==
  ASSUME EngineInv, RefusedJobsIdle, NEW j \in Jobs, CheckBoardOpen(j) \/ AddToJobBoard(j)
  PROVE  RefusedJobsIdle'
<1>1. work[j] = "none" /\ id[j] \in Ids /\ reject[j] = "none"
  BY DEF EngineInv, ScannerInv, StartedJobs, CheckBoardOpen, AddToJobBoard, RefusedJobsIdle
<1>2. board[id[j]] = NoJob
  BY <1>1, OwnJob, ScannerAssumption DEF EngineInv, ScannerInv, BoardEntriesAreLive
<1>3. \A k \in Jobs \ {j} : work[k] # "none" => id[k] \in Ids /\ id[k] # id[j]
  BY <1>1, ScannerAssumption DEF EngineInv, ScannerInv, StartedJobs, UniqueIds
<1>4. /\ id' = id
      /\ \A k \in Jobs \ {j} : work'[k] = work[k] /\ reject'[k] = reject[k]
      /\ \A i \in Ids \ {id[j]} : board'[i] = board[i]
  BY DEF EngineInv, ScannerInv, ScannerTypeOK, CheckBoardOpen, AddToJobBoard, Refuse, boardVars
<1>5. reject'[j] # "none" => work'[j] = "token" /\ board'[id[j]] = NoJob
  BY <1>1, <1>2 DEF EngineInv, ScannerInv, ScannerTypeOK, CheckBoardOpen, AddToJobBoard,
     Refuse, boardVars
<1> QED
  BY <1>3, <1>4, <1>5 DEF RefusedJobsIdle

LEMMA RefusedJobsIdleNext ==
  ASSUME EngineInv, RefusedJobsIdle, [ScannerNext]_scannerVars
  PROVE  RefusedJobsIdle'
<1>1. ASSUME NEW w \in Jobs, WorkStep(w) \/ Send(w) PROVE RefusedJobsIdle'
  <2>1. /\ id' = id /\ reject' = reject
        /\ \A i \in Ids : board[i] = NoJob => board'[i] = NoJob
    BY <1>1 DEF EngineInv, ScannerInv, ScannerTypeOK, WorkStep, AcquireToken, Lookup,
       MakeTempDir, CloneRepository, RemoveFromJobBoard, Scan, Verdict, ReleaseToken, Send,
       callVars, boardVars
  <2> QED
    BY <1>1, <2>1, RefusedWorkReturns, NothingRefused
<1>2. ASSUME NEW j \in Jobs, CheckBoardOpen(j) \/ AddToJobBoard(j) PROVE RefusedJobsIdle'
  BY <1>2, StartRefuses
<1>3. ASSUME NEW j \in Jobs,
             (\E i \in Ids : NewJob(j, i)) \/ CallStartScan(j) \/ CallStopScan(j) \/ StopScan(j)
               \/ SendReject(j)
      PROVE  RefusedJobsIdle'
  <2>1. /\ work' = work
        /\ \A k \in Jobs : reject'[k] # "none" => reject[k] # "none"
        /\ \A k \in Jobs : id[k] # NoId => id'[k] = id[k]
        /\ \A i \in Ids : board[i] = NoJob => board'[i] = NoJob
    BY <1>3 DEF EngineInv, ScannerInv, ScannerTypeOK, NewJob, CallStartScan, CallStopScan,
       StopScan, SendReject, boardVars, workVars
  <2> QED
    BY <2>1, NothingRefused DEF RefusedJobsIdle
<1>4. ASSUME CloseBoard \/ ClearBoard \/ UNCHANGED scannerVars PROVE RefusedJobsIdle'
  <2>1. /\ UNCHANGED <<work, reject, id>>
        /\ \A i \in Ids : board[i] = NoJob => board'[i] = NoJob
    BY <1>4 DEF CloseBoard, ClearBoard, scannerVars, callVars, workVars
  <2> QED
    BY <2>1, NothingRefused DEF RefusedJobsIdle
<1> QED
  BY <1>1, <1>2, <1>3, <1>4 DEF ScannerNext

-----------------------------------------------------------------------------
(* The Result channels, while no temporary directory fails.                *)

\* What went through the channel of a job on the board is determined by where its Work
\* stands. After a failed clone Work reaches its next cancellation check with the job off
\* the board, and returns there.
ReportsFollowWork ==
  \A j \in Jobs : reject[j] = "none" =>
    /\ work[j] \notin {"failTmp", "dropTmp"}
    /\ work[j] \in {"none", "token", "lookup", "ongoing"} => sent[j] = <<>>
    /\ work[j] \in {"mkdir", "clone", "failClone", "verdict", "success"} =>
         sent[j] = <<"ONGOING">>
    /\ work[j] = "scan" => \/ sent[j] = <<"ONGOING">>
                           \/ sent[j] = <<"ONGOING", "FAILURE">> /\ board[id[j]] = NoJob
    /\ work[j] = "dropClone" => sent[j] = <<"ONGOING", "FAILURE">>
    /\ work[j] = "dropDone" => sent[j] = <<"ONGOING", "SUCCESS">>

\* A refused job is never on the board: its Work finds nothing and returns.
RefusedJobsReportOnce ==
  \A j \in Jobs : reject[j] # "none" =>
    /\ work[j] \in {"token", "lookup", "release", "done"}
    /\ board[id[j]] = NoJob
    /\ sent[j] = IF reject[j] = "sending" THEN <<>> ELSE <<"FAILURE">>

ReportInv ==
  /\ EngineInv
  /\ UpdateProtocol
  /\ ReportsFollowWork
  /\ RefusedJobsReportOnce

\* What a step of Work(w) that neither sends nor adds to the board has to show: the facts of
\* the jobs it does not move carry over.
LEMMA QuietStep ==
  ASSUME ReportInv, NEW w \in Jobs,
         id' = id, reject' = reject, sent' = sent,
         \A j \in Jobs \ {w} : work'[j] = work[j],
         \A i \in Ids : board[i] = NoJob => board'[i] = NoJob,
         reject[w] = "none" =>
           /\ work'[w] \notin {"failTmp", "dropTmp"}
           /\ work'[w] \in {"none", "token", "lookup", "ongoing"} => sent[w] = <<>>
           /\ work'[w] \in {"mkdir", "clone", "failClone", "verdict", "success"} =>
                sent[w] = <<"ONGOING">>
           /\ work'[w] = "scan" =>
                \/ sent[w] = <<"ONGOING">>
                \/ sent[w] = <<"ONGOING", "FAILURE">> /\ board'[id[w]] = NoJob
           /\ work'[w] = "dropClone" => sent[w] = <<"ONGOING", "FAILURE">>
           /\ work'[w] = "dropDone" => sent[w] = <<"ONGOING", "SUCCESS">>,
         reject[w] # "none" => work'[w] \in {"token", "lookup", "release", "done"}
  PROVE  UpdateProtocol' /\ ReportsFollowWork' /\ RefusedJobsReportOnce'
<1>1. \A j \in Jobs : work[j] # "none" => id[j] \in Ids
  BY DEF ReportInv, EngineInv, ScannerInv, StartedJobs
<1>2. UpdateProtocol'
  BY DEF ReportInv, UpdateProtocol
<1>3. ReportsFollowWork'
  BY <1>1 DEF ReportInv, ReportsFollowWork
<1>4. RefusedJobsReportOnce'
  BY <1>1 DEF ReportInv, RefusedJobsReportOnce
<1> QED
  BY <1>2, <1>3, <1>4

LEMMA AppendFirst == \A a : Append(<<>>, a) = <<a>>
OBVIOUS

LEMMA AppendSecond ==
  ASSUME NEW a \in Statuses, NEW b \in Statuses
  PROVE  Append(<<a>>, b) = <<a, b>>
<1>1. <<a>> \in Seq(Statuses) /\ <<a, b>> \in Seq(Statuses)
  OBVIOUS
<1>2. /\ Append(<<a>>, b) \in Seq(Statuses)
      /\ Len(Append(<<a>>, b)) = 2
      /\ Append(<<a>>, b)[1] = a
      /\ Append(<<a>>, b)[2] = b
  BY <1>1, AppendProperties
<1>3. \A i \in 1..2 : Append(<<a>>, b)[i] = <<a, b>>[i]
  BY <1>2
<1> QED
  BY <1>1, <1>2, <1>3, SeqEqual

\* The facts about one job's channel that the action lemmas establish.
ReportGoal == UpdateProtocol' /\ ReportsFollowWork' /\ RefusedJobsReportOnce'

LEMMA WorkReports ==
  ASSUME ReportInv, NEW w \in Jobs, WorkStep(w), ~TmpMayFail
  PROVE  ReportGoal
<1> USE DEF ReportGoal
<1>1. CASE AcquireToken(w)
  BY <1>1, QuietStep DEF ReportInv, EngineInv, ScannerInv, ScannerTypeOK,
     ReportsFollowWork, RefusedJobsReportOnce, AcquireToken, callVars, boardVars
<1>2. CASE Lookup(w)
  <2>1. reject[w] # "none" => work'[w] = "release"
    BY <1>2 DEF ReportInv, EngineInv, ScannerInv, ScannerTypeOK, RefusedJobsReportOnce, Lookup
  <2> QED
    BY <1>2, <2>1, QuietStep DEF ReportInv, EngineInv, ScannerInv, ScannerTypeOK,
       ReportsFollowWork, Lookup, callVars, boardVars
<1>3. CASE MakeTempDir(w)
  BY <1>3, QuietStep DEF ReportInv, EngineInv, ScannerInv, ScannerTypeOK,
     ReportsFollowWork, RefusedJobsReportOnce, MakeTempDir, callVars, boardVars
<1>4. CASE CloneRepository(w)
  BY <1>4, QuietStep DEF ReportInv, EngineInv, ScannerInv, ScannerTypeOK,
     ReportsFollowWork, RefusedJobsReportOnce, CloneRepository, callVars, boardVars
<1>5. CASE RemoveFromJobBoard(w)
  <2>1. cur[w] = w /\ id[w] \in Ids
    BY <1>5, OwnWorker, ScannerAssumption DEF ReportInv, EngineInv, ScannerInv,
       CurrentJobs, StartedJobs, WorkersServeTheirOwnJob, RemoveFromJobBoard,
       Holding, Dropping
  <2>2. /\ board'[id[w]] = NoJob
        /\ work[w] \in {"dropClone", "dropDone"}
        /\ work'[w] = IF work[w] = "dropClone" THEN "scan" ELSE "release"
    BY <1>5, <2>1 DEF ReportInv, EngineInv, ScannerInv, ScannerTypeOK, ReportsFollowWork,
       RefusedJobsReportOnce, RemoveFromJobBoard, Dropping, AfterDrop
  <2>3. /\ \A i \in Ids : board[i] = NoJob => board'[i] = NoJob
        /\ \A j \in Jobs \ {w} : work'[j] = work[j]
    BY <1>5 DEF ReportInv, EngineInv, ScannerInv, ScannerTypeOK, RemoveFromJobBoard
  <2> QED
    BY <1>5, <2>2, <2>3, QuietStep DEF ReportInv, ReportsFollowWork,
       RefusedJobsReportOnce, RemoveFromJobBoard, callVars
<1>6. CASE Scan(w)
  <2>1. work'[w] = IF board[id[w]] = NoJob THEN "release" ELSE "verdict"
    BY <1>6 DEF ReportInv, EngineInv, ScannerInv, ScannerTypeOK, Scan
  <2> QED
    BY <1>6, <2>1, QuietStep DEF ReportInv, EngineInv, ScannerInv, ScannerTypeOK,
       ReportsFollowWork, RefusedJobsReportOnce, Scan, callVars, boardVars
<1>7. CASE Verdict(w)
  BY <1>7, QuietStep DEF ReportInv, EngineInv, ScannerInv, ScannerTypeOK,
     ReportsFollowWork, RefusedJobsReportOnce, Verdict, callVars, boardVars
<1>8. CASE ReleaseToken(w)
  BY <1>8, QuietStep DEF ReportInv, EngineInv, ScannerInv, ScannerTypeOK,
     ReportsFollowWork, RefusedJobsReportOnce, ReleaseToken, callVars, boardVars
<1> QED
  BY <1>1, <1>2, <1>3, <1>4, <1>5, <1>6, <1>7, <1>8 DEF WorkStep

LEMMA SendReports ==
  ASSUME ReportInv, NEW w \in Jobs, Send(w)
  PROVE  ReportGoal
<1>1. cur[w] = w /\ reject[w] = "none"
  BY OwnWorker, ScannerAssumption DEF ReportInv, EngineInv, ScannerInv, CurrentJobs,
     WorkersServeTheirOwnJob, RefusedJobsReportOnce, Send, Holding, Sending
<1>2. /\ \A j \in Jobs \ {w} : work'[j] = work[j] /\ sent'[j] = sent[j]
      /\ reject' = reject /\ id' = id /\ board' = board
  BY <1>1 DEF ReportInv, EngineInv, ScannerInv, ScannerTypeOK, Send, callVars, boardVars
<1>3. \/ work'[w] \in {"mkdir", "scan"} /\ sent'[w] = <<"ONGOING">>
      \/ work'[w] = "dropClone" /\ sent'[w] = <<"ONGOING", "FAILURE">>
      \/ work'[w] = "dropDone" /\ sent'[w] = <<"ONGOING", "SUCCESS">>
  <2>1. work'[w] = AfterSend(work[w]) /\ sent'[w] = Append(sent[w], StatusSent(work[w]))
    BY <1>1 DEF ReportInv, EngineInv, ScannerInv, ScannerTypeOK, Send
  <2>2. CASE work[w] = "ongoing"
    <3>1. sent[w] = <<>>
      BY <1>1, <2>2 DEF ReportInv, ReportsFollowWork
    <3> QED
      BY <2>1, <2>2, <3>1, AppendFirst DEF AfterSend, StatusSent
  <2>3. CASE work[w] = "failClone"
    <3>1. sent[w] = <<"ONGOING">>
      BY <1>1, <2>3 DEF ReportInv, ReportsFollowWork
    <3> QED
      BY <2>1, <2>3, <3>1, AppendSecond DEF AfterSend, StatusSent, Statuses
  <2>4. CASE work[w] = "success"
    <3>1. sent[w] = <<"ONGOING">>
      BY <1>1, <2>4 DEF ReportInv, ReportsFollowWork
    <3> QED
      BY <2>1, <2>4, <3>1, AppendSecond DEF AfterSend, StatusSent, Statuses
  <2> QED
    BY <1>1, <2>2, <2>3, <2>4 DEF ReportInv, ReportsFollowWork, Send, Sending
<1>4. UpdateProtocol'
  BY <1>2, <1>3 DEF ReportInv, UpdateProtocol
<1>5. ReportsFollowWork'
  BY <1>2, <1>3 DEF ReportInv, ReportsFollowWork
<1>6. RefusedJobsReportOnce'
  BY <1>1, <1>2 DEF ReportInv, RefusedJobsReportOnce
<1> QED
  BY <1>4, <1>5, <1>6 DEF ReportGoal

LEMMA SendRejectReports ==
  ASSUME ReportInv, NEW j \in Jobs, SendReject(j)
  PROVE  ReportGoal
<1>1. /\ \A k \in Jobs \ {j} : sent'[k] = sent[k] /\ reject'[k] = reject[k]
      /\ reject'[j] = "sent" /\ sent'[j] = <<"FAILURE">>
      /\ work' = work /\ id' = id /\ board' = board
  <2>1. sent[j] = <<>>
    BY DEF ReportInv, RefusedJobsReportOnce, SendReject
  <2> QED
    BY <2>1, AppendFirst DEF ReportInv, EngineInv, ScannerInv, ScannerTypeOK, SendReject,
       boardVars, workVars
<1>2. reject[j] # "none"
  BY DEF SendReject
<1> QED
  BY <1>1, <1>2 DEF ReportGoal, ReportInv, UpdateProtocol, ReportsFollowWork,
     RefusedJobsReportOnce

\* A job that reaches addToJobBoard has sent nothing, and its id is free.
LEMMA StartReports ==
  ASSUME ReportInv, NEW j \in Jobs, CheckBoardOpen(j) \/ AddToJobBoard(j)
  PROVE  ReportGoal
<1>1. work[j] = "none" /\ id[j] \in Ids
  BY DEF ReportInv, EngineInv, ScannerInv, StartedJobs, CheckBoardOpen, AddToJobBoard
<1>2. reject[j] = "none" /\ sent[j] = <<>>
  BY <1>1 DEF ReportInv, RefusedJobsReportOnce, ReportsFollowWork
<1>3. board[id[j]] = NoJob
  BY <1>1, OwnJob, ScannerAssumption DEF ReportInv, EngineInv, ScannerInv,
     BoardEntriesAreLive
<1>4. \A k \in Jobs \ {j} : work[k] # "none" => id[k] \in Ids /\ id[k] # id[j]
  BY <1>1, ScannerAssumption DEF ReportInv, EngineInv, ScannerInv, StartedJobs, UniqueIds
<1>5. /\ sent' = sent /\ id' = id
      /\ \A k \in Jobs \ {j} : work'[k] = work[k] /\ reject'[k] = reject[k]
      /\ \A i \in Ids \ {id[j]} : board'[i] = board[i]
  BY DEF ReportInv, EngineInv, ScannerInv, ScannerTypeOK, CheckBoardOpen, AddToJobBoard,
     Refuse, boardVars
<1>6. \/ work'[j] \in {"none", "token"} /\ reject'[j] = "none"
      \/ work'[j] = "token" /\ reject'[j] = "sending" /\ board'[id[j]] = NoJob
  BY <1>1, <1>2, <1>3 DEF ReportInv, EngineInv, ScannerInv, ScannerTypeOK,
     CheckBoardOpen, AddToJobBoard, Refuse, boardVars
<1>7. UpdateProtocol'
  BY <1>5 DEF ReportInv, UpdateProtocol
<1>8. ReportsFollowWork'
  BY <1>2, <1>4, <1>5, <1>6 DEF ReportInv, ReportsFollowWork
<1>9. RefusedJobsReportOnce'
  BY <1>2, <1>4, <1>5, <1>6 DEF ReportInv, RefusedJobsReportOnce
<1> QED
  BY <1>7, <1>8, <1>9 DEF ReportGoal

\* Building, starting and stopping jobs, and emptying the board, disturb no report.
LEMMA CallReports ==
  ASSUME ReportInv,
         UNCHANGED <<reject, work, sent>>,
         \A j \in Jobs : id[j] # NoId => id'[j] = id[j],
         \A i \in Ids : board[i] = NoJob => board'[i] = NoJob
  PROVE  ReportGoal
<1>1. \A j \in Jobs : work[j] # "none" => id[j] \in Ids /\ id'[j] = id[j]
  BY ScannerAssumption DEF ReportInv, EngineInv, ScannerInv, StartedJobs
<1> QED
  BY <1>1 DEF ReportGoal, ReportInv, UpdateProtocol, ReportsFollowWork,
     RefusedJobsReportOnce

LEMMA ReportInvNext ==
  ASSUME ~TmpMayFail, ReportInv, [ScannerNext]_scannerVars
  PROVE  ReportGoal
<1>1. ASSUME NEW w \in Jobs, WorkStep(w) \/ Send(w) \/ SendReject(w) PROVE ReportGoal
  BY <1>1, WorkReports, SendReports, SendRejectReports
<1>2. ASSUME NEW j \in Jobs, CheckBoardOpen(j) \/ AddToJobBoard(j) PROVE ReportGoal
  BY <1>2, StartReports
<1>3. ASSUME NEW j \in Jobs, NEW i \in Ids, NewJob(j, i) PROVE ReportGoal
  BY <1>3, CallReports DEF ReportInv, EngineInv, ScannerInv, ScannerTypeOK, NewJob,
     boardVars, workVars
<1>4. ASSUME NEW j \in Jobs, CallStartScan(j) \/ CallStopScan(j) \/ StopScan(j)
      PROVE  ReportGoal
  BY <1>4, CallReports DEF ReportInv, EngineInv, ScannerInv, ScannerTypeOK,
     CallStartScan, CallStopScan, StopScan, boardVars, workVars
<1>5. ASSUME CloseBoard \/ ClearBoard PROVE ReportGoal
  BY <1>5, CallReports DEF CloseBoard, ClearBoard, callVars, workVars
<1>6. ASSUME UNCHANGED scannerVars PROVE ReportGoal
  BY <1>6, CallReports DEF scannerVars
<1> QED
  BY <1>1, <1>2, <1>3, <1>4, <1>5, <1>6 DEF ScannerNext

\* Unless a temporary directory cannot be created, a Result channel carries ONGOING and
\* then one final status, or FAILURE alone, and nothing after it.
THEOREM EngineReports ==
  ASSUME ~TmpMayFail
  PROVE  EngineSpec => []UpdateProtocol
<1>1. EngineInit => UpdateProtocol /\ ReportsFollowWork /\ RefusedJobsReportOnce
  BY DEF EngineInit, ScannerInit, UpdateProtocol, ReportsFollowWork, RefusedJobsReportOnce
<1>2. EngineInv /\ UpdateProtocol /\ ReportsFollowWork /\ RefusedJobsReportOnce
        /\ [EngineNext]_engineVars
      => UpdateProtocol' /\ ReportsFollowWork' /\ RefusedJobsReportOnce'
  BY ReportInvNext, EngineStepIsScannerStep DEF ReportInv, ReportGoal
<1> QED
  BY <1>1, <1>2, EngineSafe, PTL DEF EngineSpec
=============================================================================
