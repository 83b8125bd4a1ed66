------------------------- MODULE ScanService_proofs -------------------------
(***************************************************************************)
(* Proofs about ScanService and ServiceRestart for every number of scans,  *)
(* DELETEs and GETs, with every database error, CleanUp and crash.         *)
(* ServiceInv is the inductive invariant: what each of the actors of a     *)
(* scan (its POST, its Work, its handler, its DELETEs and GETs) may rely   *)
(* on from the others.                                                     *)
(***************************************************************************)
EXTENDS ServiceRestart, Engine_proofs

\* Where Work(id[s]) has not sent ONGOING, and where it has and not returned.
BeforeOngoing == {"none", "token", "lookup", "ongoing"}
AfterOngoing  == {"mkdir", "clone", "scan", "verdict"} \union (Sending \ {"ongoing"})
                   \union Dropping

\* The times that fit a stored status.
FitTimes(status) ==
  CASE status = "QUEUED"      -> {{}}
    [] status = "IN PROGRESS" -> {{"scanning"}}
    [] status = "SUCCESS"     -> {{"scanning", "finished"}}
    [] status = "FAILURE"     -> {{"finished"}, {"scanning", "finished"}}

\* The stored statuses an update is applied to, and the one it leaves.
From(status) ==
  CASE status = "ONGOING" -> {"QUEUED"}
    [] status = "SUCCESS" -> {"IN PROGRESS"}
    [] status = "FAILURE" -> {"QUEUED", "IN PROGRESS"}

Target(status) == IF status = "ONGOING" THEN "IN PROGRESS" ELSE status

\* The row of scan s is gone or has one of these statuses.
RowIn(s, statuses) == rows[s] # NoRow => rows[s].status \in statuses

\* Until AddScan has returned there is no handler; the row is as AddScan inserted it.
AddInv(s) ==
  /\ add[s] # "done" => handler[s] = "none"
  /\ add[s] \in {"none", "failed"} => rows[s] = NoRow
  /\ add[s] \in {"submit", "register"} => RowIn(s, {"QUEUED"})

\* How far Work and the handler have come with the job's reports.
ReceivedInv(s) ==
  /\ handler[s] \in {"none", "start"} => upd[s].status = "none"
  /\ handler[s] = "select" => upd[s].status \in {"none", "ONGOING"}
  /\ handler[s] \in {"retrieve", "insert", "update"} => upd[s].status # "none"
  /\ handler[s] = "insert" => upd[s].status = "SUCCESS"
  /\ reject[s] = "none" /\ work[s] \in BeforeOngoing => upd[s].status = "none"
  /\ work[s] \in AfterOngoing => upd[s].status # "none"

\* The row the handler is about to change is the one its update applies to.
StoredInv(s) ==
  /\ rows[s] # NoRow => rows[s].times \in FitTimes(rows[s].status)
  /\ handler[s] \in {"start", "select"} =>
       RowIn(s, {IF upd[s].status = "none" THEN "QUEUED" ELSE "IN PROGRESS"})
  /\ handler[s] \in {"retrieve", "insert", "update"} => RowIn(s, From(upd[s].status))
  /\ handler[s] \in {"insert", "update"} =>
       /\ newsr[s] # NoRow
       /\ newsr[s].status = Target(upd[s].status)
       /\ newsr[s].times \in FitTimes(newsr[s].status)

\* Findings are stored only for a row that is, or is about to become, a success.
FindingsInv(s) ==
  /\ findings[s] # {} => rows[s] # NoRow /\ rows[s].status \in {"IN PROGRESS", "SUCCESS"}
  /\ handler[s] \in {"start", "select", "retrieve", "insert"} => findings[s] = {}
  /\ handler[s] = "update" /\ upd[s].status # "SUCCESS" => findings[s] = {}

OneScanInv(s) == AddInv(s) /\ ReceivedInv(s) /\ StoredInv(s) /\ FindingsInv(s)

\* A DELETE is of a scan some POST has tried to create. It deletes findings of a success
\* only, and a row that is gone was deleted by one.
DeleteInv ==
  /\ \A d \in Deleters : del[d].pc # "none" =>
       /\ del[d].scan \in Jobs
       /\ add[del[d].scan] # "none"
       /\ del[d].pc = "findings" => RowIn(del[d].scan, {"SUCCESS"})
       /\ del[d].pc \in {"cancel", "sweep", "done"} => rows[del[d].scan] = NoRow
  /\ \A s \in Jobs : add[s] \notin {"none", "failed"} /\ rows[s] = NoRow =>
       DeleteAt(s, {"cancel", "sweep", "done", "error"})

\* A GET that has read a success can still see that row, or none.
GetInv ==
  \A r \in Readers : get[r].pc \in {"list", "done", "cut"} =>
    /\ get[r].scan \in Jobs
    /\ add[get[r].scan] \notin {"none", "failed"}
    /\ get[r].row.status = "SUCCESS" => RowIn(get[r].scan, {"SUCCESS"})

ServiceInv ==
  /\ ServiceTypeOK
  /\ EngineInv
  /\ RefusedJobsIdle
  /\ \A s \in Jobs : OneScanInv(s)
  /\ DeleteInv
  /\ GetInv
  /\ GetShowsStoredResult

-----------------------------------------------------------------------------
(* The engine inside the service.                                          *)

\* The App drives the engine through its operations only.
LEMMA ServiceStepIsEngineStep ==
  ASSUME [ServiceNext]_serviceVars
  PROVE  [EngineNext]_engineVars
<1>1. ASSUME NEW s \in Jobs, InsertScan(s) \/ SubmitJob(s) \/ RegisterJob(s)
      PROVE  [EngineNext]_engineVars
  BY <1>1 DEF InsertScan, SubmitJob, RegisterJob, EngineNext
<1>2. ASSUME NEW s \in Jobs, ReceiveFromWork(s) \/ ReceiveReject(s)
      PROVE  [EngineNext]_engineVars
  BY <1>2 DEF ReceiveFromWork, ReceiveReject, Deliver, EngineNext
<1>3. ASSUME NEW s \in Jobs, HandlerStep(s), ~ReceiveFromWork(s), ~ReceiveReject(s)
      PROVE  UNCHANGED engineVars
  BY <1>3 DEF HandlerStep, StartHandler, RetrieveScan, InsertFindings, UpdateScan,
     ReceiveCancel, ExitHandler
<1>4. ASSUME NEW d \in Deleters, (\E s \in Jobs : BeginDelete(d, s)) \/ DeleteStep(d)
      PROVE  UNCHANGED engineVars
  BY <1>4 DEF BeginDelete, DeleteStep, DeleteFindings, DeleteRow, CancelRequest, SweepFindings
<1>5. ASSUME NEW r \in Readers, (\E s \in Jobs : ReadScan(r, s)) \/ ReadFindings(r)
      PROVE  UNCHANGED engineVars
  BY <1>5 DEF ReadScan, ReadFindings
<1>6. ASSUME CancelAll \/ StopEngine \/ CleanUpScanner \/ EngineStep
      PROVE  [EngineNext]_engineVars
  BY <1>6 DEF CancelAll, StopEngine, CleanUpScanner, EngineStep, EngineNext
<1>7. ASSUME UNCHANGED serviceVars PROVE UNCHANGED engineVars
  BY <1>7 DEF serviceVars
<1> QED
  BY <1>1, <1>2, <1>3, <1>4, <1>5, <1>6, <1>7 DEF ServiceNext

\* Without the receiver of its reports, Work neither sends ONGOING nor goes on past it.
LEMMA WorkAlone ==
  ASSUME EngineInv,
         \/ \E j \in Jobs : AddJob(j) \/ ScannerStep(j)
         \/ ControllerStep \/ Stop \/ CleanUp,
         NEW s \in Jobs
  PROVE  /\ reject'[s] = "none" /\ work'[s] \in BeforeOngoing =>
              reject[s] = "none" /\ work[s] \in BeforeOngoing
         /\ work'[s] \in AfterOngoing => work[s] \in AfterOngoing
<1> DEFINE Goal == /\ reject'[s] = "none" /\ work'[s] \in BeforeOngoing =>
                        reject[s] = "none" /\ work[s] \in BeforeOngoing
                   /\ work'[s] \in AfterOngoing => work[s] \in AfterOngoing
<1>1. ASSUME NEW j \in Jobs, WorkStep(j) PROVE Goal
  <2>1. reject' = reject /\ \A k \in Jobs \ {j} : work'[k] = work[k]
    BY <1>1 DEF EngineInv, ScannerInv, ScannerTypeOK, WorkStep, AcquireToken, Lookup,
       MakeTempDir, CloneRepository, RemoveFromJobBoard, Scan, Verdict, ReleaseToken, callVars
  <2>2. \/ work[j] = "token" /\ work'[j] = "lookup"
        \/ work[j] = "lookup" /\ work'[j] \in {"release", "ongoing"}
        \/ work[j] \in AfterOngoing /\ work'[j] \in AfterOngoing \union {"release"}
        \/ work'[j] = "done"
    <3>1. CASE RemoveFromJobBoard(j)
      <4>1. work[j] \in Dropping /\ work'[j] = AfterDrop(work[j])
        BY <3>1 DEF RemoveFromJobBoard, EngineInv, ScannerInv, ScannerTypeOK
      <4> QED
        BY <4>1 DEF AfterDrop, Dropping, AfterOngoing
    <3> QED
      BY <1>1, <3>1 DEF EngineInv, ScannerInv, ScannerTypeOK, WorkStep, AcquireToken, Lookup,
         MakeTempDir, CloneRepository, Scan, Verdict, ReleaseToken, AfterOngoing, Sending
  <2> QED
    BY <2>1, <2>2 DEF BeforeOngoing, AfterOngoing, Sending, Dropping
<1>2. ASSUME NEW j \in Jobs, CheckBoardOpen(j) \/ AddToJobBoard(j) PROVE Goal
  <2>1. work[j] = "none"
    BY <1>2 DEF EngineInv, ScannerInv, StartedJobs, CheckBoardOpen, AddToJobBoard
  <2>2. /\ \A k \in Jobs \ {j} : work'[k] = work[k] /\ reject'[k] = reject[k]
        /\ work'[j] \in {"none", "token"}
        /\ reject'[j] \in {"sending", reject[j]}
    BY <1>2, <2>1 DEF EngineInv, ScannerInv, ScannerTypeOK, CheckBoardOpen, AddToJobBoard, Refuse
  <2> QED
    BY <2>1, <2>2 DEF BeforeOngoing, AfterOngoing, Sending, Dropping
<1>3. ASSUME UNCHANGED <<work, reject>> PROVE Goal
  BY <1>3
<1>4. \/ \E j \in Jobs : WorkStep(j) \/ CheckBoardOpen(j) \/ AddToJobBoard(j)
      \/ UNCHANGED <<work, reject>>
  BY DEF AddJob, NewJob, ScannerStep, StopScan, ControllerStep, RunIncoming, RunCancelling,
     RunQuit, CallStartScan, CallStopScan, Stop, CleanUp, CloseBoard, ClearBoard,
     scannerVars, workVars, callVars
<1> QED
  BY <1>1, <1>2, <1>3, <1>4

\* A send by Work(id[w]) is a report on scan w, which was not refused.
LEMMA OwnReport ==
  ASSUME EngineInv, RefusedJobsIdle, NEW w \in Jobs, Send(w)
  PROVE  /\ cur[w] = w
         /\ reject' = reject /\ reject[w] = "none"
         /\ work'[w] \in AfterOngoing
         /\ \A s \in Jobs \ {w} : work'[s] = work[s]
<1>1. work[w] \in Sending
  BY DEF Send
<1>2. cur[w] \in Jobs
  BY <1>1 DEF EngineInv, ScannerInv, CurrentJobs, Holding, Sending
<1>3. reject[w] = "none"
  BY <1>1 DEF RefusedJobsIdle, Sending
<1>4. work'[w] = AfterSend(work[w]) /\ \A s \in Jobs \ {w} : work'[s] = work[s]
  BY DEF EngineInv, ScannerInv, ScannerTypeOK, Send
<1>5. AfterSend(work[w]) \in AfterOngoing
  BY DEF AfterSend, AfterOngoing, Dropping
<1> QED
  BY <1>2, <1>3, <1>4, <1>5, OwnWorker, ScannerAssumption DEF WorkersServeTheirOwnJob, Send,
     callVars

-----------------------------------------------------------------------------
(* Type correctness.                                                       *)

LEMMA QueuedRowType ==
  /\ QueuedRow \in DbRows /\ QueuedRow # NoRow
  /\ QueuedRow.status = "QUEUED" /\ QueuedRow.times = {}
<1>1. QueuedRow \in DbRows /\ QueuedRow.status = "QUEUED" /\ QueuedRow.times = {}
  BY DEF QueuedRow, Row, DbRows
<1> QED
  BY <1>1, ServiceAssumption

LEMMA NewRecordType ==
  ASSUME NEW row \in DbRows, NEW status \in Statuses
  PROVE  /\ NewRecord(row, status) \in DbRows
         /\ NewRecord(row, status).status = Target(status)
         /\ row.times \in FitTimes(row.status) /\ row.status \in From(status) =>
              NewRecord(row, status).times \in FitTimes(Target(status))
<1>1. CASE status = "ONGOING"
  BY <1>1 DEF NewRecord, Row, DbRows, Target, From, FitTimes
<1>2. CASE status = "FAILURE"
  BY <1>2 DEF NewRecord, Row, DbRows, Target, From, FitTimes
<1>3. CASE status = "SUCCESS"
  BY <1>3 DEF NewRecord, Row, DbRows, Target, From, FitTimes
<1> QED
  BY <1>1, <1>2, <1>3 DEF Statuses

\* The record of a DELETE.
Dels == [pc : {"none", "findings", "row", "cancel", "sweep", "done", "notFound", "error"},
         scan : Jobs \union {NoJob}]

LEMMA DelGoToMoves ==
  ASSUME ServiceTypeOK, NEW d \in Deleters, NEW pc, DelGoTo(d, pc),
         pc \in {"row", "cancel", "sweep", "done", "notFound", "error"}
  PROVE  /\ del'[d] = [pc |-> pc, scan |-> del[d].scan]
         /\ \A e \in Deleters \ {d} : del'[e] = del[e]
         /\ del' \in [Deleters -> Dels]
<1>1. del[d] \in Dels /\ del \in [Deleters -> Dels]
  BY DEF ServiceTypeOK, Dels
<1>2. [del[d] EXCEPT !.pc = pc] = [pc |-> pc, scan |-> del[d].scan]
  BY <1>1 DEF Dels
<1>3. [pc |-> pc, scan |-> del[d].scan] \in Dels
  BY <1>1 DEF Dels
<1> QED
  BY <1>1, <1>2, <1>3 DEF DelGoTo

LEMMA BeginDeleteMoves ==
  ASSUME ServiceTypeOK, NEW d \in Deleters, NEW s \in Jobs, BeginDelete(d, s)
  PROVE  /\ \/ del'[d] = [pc |-> "row", scan |-> s]
            \/ del'[d] = [pc |-> "findings", scan |-> s] /\ RowIn(s, {"SUCCESS"})
         /\ \A e \in Deleters \ {d} : del'[e] = del[e]
         /\ del' \in [Deleters -> Dels]
<1>1. \E pc \in {"row", "findings"} :
        /\ del' = [del EXCEPT ![d] = [pc |-> pc, scan |-> s]]
        /\ pc = "findings" => RowIn(s, {"SUCCESS"})
  BY DEF BeginDelete, RowIn
<1> QED
  BY <1>1 DEF ServiceTypeOK, Dels

\* The record of a GET.
Gets == [pc : {"none", "list", "done", "cut", "notFound", "error"},
         scan : Jobs \union {NoJob},
         row : DbRows \union {NoRow}, findings : SUBSET Findings]

LEMMA ReadScanMoves ==
  ASSUME ServiceTypeOK, NEW r \in Readers, NEW s \in Jobs, ReadScan(r, s)
  PROVE  /\ get' \in [Readers -> Gets]
         /\ \A q \in Readers \ {r} : get'[q] = get[q]
         /\ \/ /\ rows[s] # NoRow
               /\ get'[r].pc = "list" /\ get'[r].scan = s /\ get'[r].row = rows[s]
            \/ get'[r].pc = "notFound"
<1>1. get \in [Readers -> Gets] /\ rows[s] \in DbRows \union {NoRow}
  BY DEF ServiceTypeOK, Gets
<1>2. CASE rows[s] # NoRow /\ get' = [get EXCEPT ![r] =
                  [@ EXCEPT !.pc = "list", !.scan = s, !.row = rows[s]]]
  BY <1>1, <1>2 DEF Gets
<1>3. CASE get' = [get EXCEPT ![r] = [@ EXCEPT !.pc = "notFound", !.scan = s]]
  BY <1>1, <1>3 DEF Gets
<1> QED
  BY <1>2, <1>3 DEF ReadScan

LEMMA ReadFindingsMoves ==
  ASSUME ServiceTypeOK, NEW r \in Readers, ReadFindings(r), get[r].scan \in Jobs
  PROVE  /\ get' \in [Readers -> Gets]
         /\ \A q \in Readers \ {r} : get'[q] = get[q]
         /\ \/ /\ get'[r].pc = "done" /\ get'[r].scan = get[r].scan /\ get'[r].row = get[r].row
               /\ get'[r].findings = findings[get[r].scan]
            \/ /\ get'[r].pc = "cut" /\ get'[r].scan = get[r].scan /\ get'[r].row = get[r].row
               /\ get'[r].findings \subseteq findings[get[r].scan]
            \/ get'[r].pc = "error"
<1>1. get \in [Readers -> Gets] /\ findings[get[r].scan] \in SUBSET Findings
  BY DEF ServiceTypeOK, Gets
<1>2. CASE get' = [get EXCEPT ![r].pc = "done", ![r].findings = findings[get[r].scan]]
  BY <1>1, <1>2 DEF Gets
<1>3. CASE get' = [get EXCEPT ![r].pc = "error"]
  BY <1>1, <1>3 DEF Gets
<1>4. ASSUME NEW some \in SUBSET findings[get[r].scan],
             get' = [get EXCEPT ![r].pc = "cut", ![r].findings = some]
      PROVE  /\ get' \in [Readers -> Gets]
             /\ \A q \in Readers \ {r} : get'[q] = get[q]
             /\ get'[r].pc = "cut" /\ get'[r].scan = get[r].scan /\ get'[r].row = get[r].row
             /\ get'[r].findings \subseteq findings[get[r].scan]
  BY <1>1, <1>4 DEF Gets
<1> QED
  BY <1>2, <1>3, <1>4 DEF ReadFindings

LEMMA ServiceTypeNext ==
  ASSUME ServiceInv, [ServiceNext]_serviceVars, EngineTypeOK'
  PROVE  ServiceTypeOK'
<1> USE DEF ServiceInv
<1>1. ASSUME NEW s \in Jobs, InsertScan(s) \/ SubmitJob(s) \/ RegisterJob(s)
      PROVE  ServiceTypeOK'
  <2>1. CASE InsertScan(s)
    <3>1. QueuedRow \in DbRows
      BY QueuedRowType
    <3>2. rows' \in [Jobs -> DbRows \union {NoRow}]
      BY <2>1, <3>1 DEF ServiceTypeOK, InsertScan
    <3> QED
      BY <2>1, <3>1, <3>2 DEF ServiceTypeOK, InsertScan, handlerVars
  <2>2. CASE SubmitJob(s)
    BY <2>2 DEF ServiceTypeOK, SubmitJob, dbVars, handlerVars
  <2>3. CASE RegisterJob(s)
    BY <2>3 DEF ServiceTypeOK, RegisterJob, dbVars
  <2> QED
    BY <1>1, <2>1, <2>2, <2>3
<1>2. ASSUME NEW s \in Jobs, StartHandler(s) \/ ReceiveCancel(s) \/ ExitHandler(s)
      PROVE  ServiceTypeOK'
  BY <1>2 DEF ServiceTypeOK, StartHandler, ReceiveCancel, ExitHandler, GoTo, dbVars, requestVars
<1>3. ASSUME NEW s \in Jobs, ReceiveFromWork(s) PROVE ServiceTypeOK'
  <2>1. cur[s] \in Jobs
    BY <1>3, OwnReport DEF ReceiveFromWork
  <2>2. Update(StatusSent(work[s]), IF work[s] = "success" THEN found[s] ELSE {})
          \in [status : Statuses \union {"none"}, findings : SUBSET Findings]
    BY StatusType DEF ServiceTypeOK, EngineTypeOK, ScannerTypeOK, Update
  <2> QED
    BY <1>3, <2>1, <2>2 DEF ServiceTypeOK, ReceiveFromWork, GoTo, dbVars, requestVars
<1>4. ASSUME NEW s \in Jobs, ReceiveReject(s) PROVE ServiceTypeOK'
  BY <1>4 DEF ServiceTypeOK, ReceiveReject, Update, Statuses, GoTo, dbVars, requestVars
<1>5. ASSUME NEW s \in Jobs, RetrieveScan(s) PROVE ServiceTypeOK'
  <2>1. upd[s].status \in Statuses
    BY <1>5 DEF ServiceTypeOK, OneScanInv, ReceivedInv, RetrieveScan
  <2>2. newsr' \in [Jobs -> DbRows \union {NoRow}]
    BY <1>5, <2>1, NewRecordType DEF ServiceTypeOK, RetrieveScan
  <2> QED
    BY <1>5, <2>2 DEF ServiceTypeOK, RetrieveScan, AfterRetrieve, GoTo, dbVars, requestVars
<1>6. ASSUME NEW s \in Jobs, InsertFindings(s) \/ UpdateScan(s) PROVE ServiceTypeOK'
  <2>1. CASE InsertFindings(s)
    <3>1. findings' \in [Jobs -> SUBSET Findings]
      BY <2>1 DEF ServiceTypeOK, InsertFindings
    <3> QED
      BY <2>1, <3>1 DEF ServiceTypeOK, InsertFindings, GoTo, requestVars
  <2>2. CASE UpdateScan(s)
    <3>1. rows' \in [Jobs -> DbRows \union {NoRow}] /\ newsr' \in [Jobs -> DbRows \union {NoRow}]
      BY <2>2 DEF ServiceTypeOK, UpdateScan
    <3>2. handler' \in [Jobs -> {"none", "start", "select", "retrieve", "insert", "update",
                                "exit", "done"}]
      BY <2>2 DEF ServiceTypeOK, UpdateScan, AfterUpdate, GoTo
    <3> QED
      BY <2>2, <3>1, <3>2 DEF ServiceTypeOK, UpdateScan, requestVars
  <2> QED
    BY <1>6, <2>1, <2>2
<1>7. ASSUME CancelAll \/ StopEngine \/ CleanUpScanner \/ EngineStep \/ UNCHANGED serviceVars
      PROVE  ServiceTypeOK'
  BY <1>7 DEF ServiceTypeOK, CancelAll, StopEngine, CleanUpScanner, EngineStep, serviceVars,
     dbVars, handlerVars, requestVars
<1>8. ASSUME NEW d \in Deleters, (\E s \in Jobs : BeginDelete(d, s)) \/ DeleteFindings(d)
               \/ DeleteRow(d) \/ CancelRequest(d) \/ SweepFindings(d)
      PROVE  ServiceTypeOK'
  <2>1. CASE \E s \in Jobs : BeginDelete(d, s)
    BY <2>1, BeginDeleteMoves DEF ServiceTypeOK, Dels, BeginDelete, dbVars, handlerVars
  <2>2. CASE DeleteFindings(d) \/ SweepFindings(d)
    <3>1. findings' \in [Jobs -> SUBSET Findings]
      BY <2>2 DEF ServiceTypeOK, DeleteFindings, SweepFindings
    <3>2. \E pc \in {"row", "error", "done"} : DelGoTo(d, pc)
      BY <2>2 DEF DeleteFindings, SweepFindings
    <3> QED
      BY <2>2, <3>1, <3>2, DelGoToMoves DEF ServiceTypeOK, Dels, DeleteFindings, SweepFindings,
         handlerVars
  <2>3. CASE DeleteRow(d) \/ CancelRequest(d)
    BY <2>3, DelGoToMoves DEF ServiceTypeOK, Dels, DeleteRow, CancelRequest, dbVars, handlerVars
  <2> QED
    BY <1>8, <2>1, <2>2, <2>3
<1>9. ASSUME NEW r \in Readers, (\E s \in Jobs : ReadScan(r, s)) \/ ReadFindings(r)
      PROVE  ServiceTypeOK'
  <2>1. CASE \E s \in Jobs : ReadScan(r, s)
    BY <2>1, ReadScanMoves DEF ServiceTypeOK, Gets, ReadScan, dbVars, handlerVars
  <2>2. CASE ReadFindings(r)
    BY <2>2, ReadFindingsMoves DEF ServiceTypeOK, Gets, GetInv, ReadFindings, dbVars, handlerVars
  <2> QED
    BY <1>9, <2>1, <2>2
<1> QED
  BY <1>1, <1>2, <1>3, <1>4, <1>5, <1>6, <1>7, <1>8, <1>9 DEF ServiceNext, HandlerStep, DeleteStep

-----------------------------------------------------------------------------
(* The row, the findings and the handler of one scan.                      *)

\* A step that leaves the data of scan s alone, and lets Work neither forget that it has
\* sent ONGOING nor go on without having sent it, preserves the invariant of s.
LEMMA OtherScan ==
  ASSUME NEW s \in Jobs, OneScanInv(s),
         add'[s] = add[s], rows'[s] = rows[s], findings'[s] = findings[s],
         handler'[s] = handler[s], upd'[s] = upd[s], newsr'[s] = newsr[s],
         reject'[s] = "none" /\ work'[s] \in BeforeOngoing =>
           reject[s] = "none" /\ work[s] \in BeforeOngoing,
         work'[s] \in AfterOngoing => work[s] \in AfterOngoing
  PROVE  OneScanInv(s)'
<1>1. AddInv(s)'
  BY DEF OneScanInv, AddInv, RowIn
<1>2. ReceivedInv(s)'
  BY DEF OneScanInv, ReceivedInv
<1>3. StoredInv(s)'
  BY DEF OneScanInv, StoredInv, RowIn
<1>4. FindingsInv(s)'
  BY DEF OneScanInv, FindingsInv
<1> QED
  BY <1>1, <1>2, <1>3, <1>4 DEF OneScanInv

LEMMA InsertScanKeeps ==
  ASSUME ServiceInv, NEW s \in Jobs, InsertScan(s)
  PROVE  \A t \in Jobs : OneScanInv(t)'
<1>1. ASSUME NEW t \in Jobs \ {s} PROVE OneScanInv(t)'
  <2>1. UNCHANGED <<findings, handler, upd, newsr, work, reject>>
    BY DEF InsertScan, engineVars, scannerVars, handlerVars
  <2>2. add'[t] = add[t] /\ rows'[t] = rows[t]
    BY DEF ServiceInv, ServiceTypeOK, InsertScan
  <2> QED
    BY <2>1, <2>2, OtherScan DEF ServiceInv
<1>2. /\ UNCHANGED <<work, reject, handler, upd, newsr, findings>>
      /\ handler[s] = "none" /\ rows[s] = NoRow /\ findings[s] = {}
      /\ \/ add'[s] = "submit" /\ rows'[s].status = "QUEUED" /\ rows'[s].times = {}
         \/ add'[s] = "failed" /\ rows'[s] = NoRow
  <2>1. /\ UNCHANGED <<work, reject, handler, upd, newsr, findings>>
        /\ handler[s] = "none" /\ rows[s] = NoRow /\ findings[s] = {}
    BY DEF ServiceInv, OneScanInv, AddInv, FindingsInv, InsertScan, engineVars, scannerVars,
       handlerVars
  <2>2. \/ add'[s] = "submit" /\ rows'[s] = QueuedRow
        \/ add'[s] = "failed" /\ rows'[s] = NoRow
    BY <2>1 DEF ServiceInv, ServiceTypeOK, InsertScan
  <2>3. QueuedRow.status = "QUEUED" /\ QueuedRow.times = {}
    BY QueuedRowType
  <2> QED
    BY <2>1, <2>2, <2>3
<1>3. OneScanInv(s)
  BY DEF ServiceInv
<1>4. OneScanInv(s)'
  <2>1. AddInv(s)'
    BY <1>2, <1>3 DEF ServiceInv, OneScanInv, AddInv, RowIn
  <2>2. ReceivedInv(s)'
    BY <1>2, <1>3 DEF ServiceInv, OneScanInv, ReceivedInv
  <2>3. StoredInv(s)'
    BY <1>2, <1>3 DEF ServiceInv, OneScanInv, StoredInv, RowIn, FitTimes
  <2>4. FindingsInv(s)'
    BY <1>2, <1>3 DEF ServiceInv, OneScanInv, FindingsInv
  <2> QED
    BY <2>1, <2>2, <2>3, <2>4 DEF OneScanInv
<1> QED
  BY <1>1, <1>4

LEMMA SubmitJobKeeps ==
  ASSUME ServiceInv, NEW s \in Jobs, SubmitJob(s)
  PROVE  \A t \in Jobs : OneScanInv(t)'
<1>1. UNCHANGED <<rows, findings, handler, upd, newsr, work, reject>>
  BY DEF SubmitJob, AddJob, NewJob, dbVars, handlerVars, workVars
<1>2. ASSUME NEW t \in Jobs \ {s} PROVE OneScanInv(t)'
  BY <1>1, OtherScan DEF ServiceInv, ServiceTypeOK, SubmitJob
<1>3. add[s] = "submit" /\ add'[s] = "register"
  BY DEF ServiceInv, ServiceTypeOK, SubmitJob
<1>4. OneScanInv(s)'
  BY <1>1, <1>3 DEF ServiceInv, OneScanInv, AddInv, ReceivedInv, StoredInv, FindingsInv, RowIn
<1> QED
  BY <1>2, <1>4

\* Goroutine ScanRequestHandler starts with the row as AddScan inserted it.
LEMMA RegisterJobKeeps ==
  ASSUME ServiceInv, NEW s \in Jobs, RegisterJob(s)
  PROVE  \A t \in Jobs : OneScanInv(t)'
<1>1. UNCHANGED <<rows, findings, upd, newsr, work, reject>>
  BY DEF RegisterJob, dbVars, engineVars, scannerVars
<1>2. ASSUME NEW t \in Jobs \ {s} PROVE OneScanInv(t)'
  BY <1>1, OtherScan DEF ServiceInv, ServiceTypeOK, RegisterJob
<1>3. /\ add[s] = "register" /\ add'[s] = "done"
      /\ handler[s] = "none" /\ handler'[s] = "start"
  BY DEF ServiceInv, ServiceTypeOK, RegisterJob, OneScanInv, AddInv
<1>4. OneScanInv(s)'
  BY <1>1, <1>3 DEF ServiceInv, OneScanInv, AddInv, ReceivedInv, StoredInv, FindingsInv, RowIn
<1> QED
  BY <1>2, <1>4

\* The steps of the handler that only decide where it goes on.
LEMMA HandlerMoves ==
  ASSUME ServiceInv, NEW s \in Jobs, StartHandler(s) \/ ReceiveCancel(s) \/ ExitHandler(s)
  PROVE  \A t \in Jobs : OneScanInv(t)'
<1>1. UNCHANGED <<rows, findings, upd, newsr, add, work, reject>>
  BY DEF StartHandler, ReceiveCancel, ExitHandler, dbVars, engineVars, scannerVars, requestVars
<1>2. ASSUME NEW t \in Jobs \ {s} PROVE OneScanInv(t)'
  BY <1>1, OtherScan DEF ServiceInv, ServiceTypeOK, StartHandler, ReceiveCancel, ExitHandler, GoTo
<1>3. /\ handler[s] # "none"
      /\ handler'[s] \in {"exit", "done"} \/ (handler[s] = "start" /\ handler'[s] = "select")
  BY DEF ServiceInv, ServiceTypeOK, StartHandler, ReceiveCancel, ExitHandler, GoTo, Receiving
<1>4. OneScanInv(s)'
  BY <1>1, <1>3 DEF ServiceInv, OneScanInv, AddInv, ReceivedInv, StoredInv, FindingsInv, RowIn
<1> QED
  BY <1>2, <1>4

\* The handler has a report: the row stands where the report finds it. ONGOING comes first
\* and once; SUCCESS comes after it; FAILURE comes after it, or from a refused job.
LEMMA ReceiveKeeps ==
  ASSUME ServiceInv, NEW s \in Jobs, ReceiveFromWork(s) \/ ReceiveReject(s)
  PROVE  \A t \in Jobs : OneScanInv(t)'
<1>1. UNCHANGED <<rows, findings, newsr, add>>
  BY DEF ReceiveFromWork, ReceiveReject, dbVars, requestVars
<1>2. CASE ReceiveFromWork(s)
  <2>1. /\ cur[s] = s /\ reject' = reject /\ reject[s] = "none" /\ work'[s] \in AfterOngoing
        /\ \A t \in Jobs \ {s} : work'[t] = work[t]
    BY <1>2, OwnReport DEF ServiceInv, ReceiveFromWork
  <2>2. ASSUME NEW t \in Jobs \ {s} PROVE OneScanInv(t)'
    BY <1>1, <1>2, <2>1, OtherScan DEF ServiceInv, ServiceTypeOK, ReceiveFromWork, GoTo
  <2>3. /\ work[s] \in Sending
        /\ handler[s] = "select" /\ handler'[s] = "retrieve"
        /\ upd'[s].status = StatusSent(work[s])
    BY <1>2, <2>1 DEF ServiceInv, ServiceTypeOK, ReceiveFromWork, Receiving, GoTo, Update
  <2>4. IF work[s] = "ongoing" THEN upd[s].status = "none" /\ upd'[s].status = "ONGOING"
                               ELSE upd[s].status = "ONGOING" /\ upd'[s].status \in {"SUCCESS", "FAILURE"}
    BY <2>1, <2>3 DEF ServiceInv, OneScanInv, ReceivedInv, BeforeOngoing, AfterOngoing, Sending,
       StatusSent
  <2>5. work'[s] \notin BeforeOngoing
    BY <2>1 DEF BeforeOngoing, AfterOngoing, Sending, Dropping
  <2>6. OneScanInv(s)'
    BY <1>1, <2>1, <2>3, <2>4, <2>5 DEF ServiceInv, OneScanInv, AddInv, ReceivedInv, StoredInv,
       FindingsInv, RowIn, From
  <2> QED
    BY <2>2, <2>6
<1>3. CASE ReceiveReject(s)
  <2>1. /\ work' = work /\ reject[s] # "none" /\ reject'[s] # "none"
        /\ \A t \in Jobs \ {s} : reject'[t] = reject[t]
    BY <1>3 DEF ServiceInv, EngineInv, ScannerInv, ScannerTypeOK, ReceiveReject, SendReject, workVars
  <2>2. ASSUME NEW t \in Jobs \ {s} PROVE OneScanInv(t)'
    BY <1>1, <1>3, <2>1, OtherScan DEF ServiceInv, ServiceTypeOK, ReceiveReject, GoTo
  <2>3. /\ handler[s] = "select" /\ handler'[s] = "retrieve"
        /\ upd'[s].status = "FAILURE"
    BY <1>3 DEF ServiceInv, ServiceTypeOK, ReceiveReject, Receiving, GoTo, Update
  <2>4. OneScanInv(s)'
    BY <1>1, <2>1, <2>3 DEF ServiceInv, OneScanInv, AddInv, ReceivedInv, StoredInv,
       FindingsInv, RowIn, From
  <2> QED
    BY <2>2, <2>4
<1> QED
  BY <1>2, <1>3

LEMMA RetrieveScanKeeps ==
  ASSUME ServiceInv, NEW s \in Jobs, RetrieveScan(s)
  PROVE  \A t \in Jobs : OneScanInv(t)'
<1>1. UNCHANGED <<rows, findings, upd, add, work, reject>>
  BY DEF RetrieveScan, dbVars, engineVars, scannerVars, requestVars
<1>2. ASSUME NEW t \in Jobs \ {s} PROVE OneScanInv(t)'
  BY <1>1, OtherScan DEF ServiceInv, ServiceTypeOK, RetrieveScan, GoTo
<1>3. handler[s] = "retrieve" /\ upd[s].status \in Statuses
  BY DEF ServiceInv, ServiceTypeOK, OneScanInv, ReceivedInv, RetrieveScan
<1>4. CASE handler'[s] = "exit"
  <2>1. AddInv(s)'
    BY <1>1, <1>3, <1>4 DEF ServiceInv, OneScanInv, AddInv, RowIn
  <2>2. ReceivedInv(s)'
    BY <1>1, <1>3, <1>4 DEF ServiceInv, OneScanInv, ReceivedInv
  <2>3. StoredInv(s)'
    BY <1>1, <1>3, <1>4 DEF ServiceInv, OneScanInv, StoredInv, RowIn
  <2>4. FindingsInv(s)'
    BY <1>1, <1>3, <1>4 DEF ServiceInv, OneScanInv, FindingsInv
  <2> QED
    BY <1>2, <2>1, <2>2, <2>3, <2>4 DEF OneScanInv
<1>5. CASE /\ rows[s] # NoRow
           /\ newsr'[s] = NewRecord(rows[s], upd[s].status)
           /\ handler'[s] = AfterRetrieve(upd[s].status)
  <2>1. rows[s] \in DbRows
    BY <1>5 DEF ServiceInv, ServiceTypeOK
  <2>2. rows[s].times \in FitTimes(rows[s].status) /\ rows[s].status \in From(upd[s].status)
    BY <1>3, <1>5 DEF ServiceInv, OneScanInv, StoredInv, RowIn
  <2>3. /\ newsr'[s] # NoRow
        /\ newsr'[s].status = Target(upd[s].status)
        /\ newsr'[s].times \in FitTimes(newsr'[s].status)
    BY <1>3, <1>5, <2>1, <2>2, NewRecordType, ServiceAssumption
  <2>4. handler'[s] = IF upd[s].status = "SUCCESS" THEN "insert" ELSE "update"
    BY <1>5 DEF AfterRetrieve
  <2>5. OneScanInv(s)'
    <3>1. AddInv(s)'
      BY <1>1, <1>3, <2>3, <2>4 DEF ServiceInv, OneScanInv, AddInv, RowIn
    <3>2. ReceivedInv(s)'
      BY <1>1, <1>3, <2>3, <2>4 DEF ServiceInv, OneScanInv, ReceivedInv
    <3>3. StoredInv(s)'
      BY <1>1, <1>3, <2>3, <2>4 DEF ServiceInv, OneScanInv, StoredInv, RowIn
    <3>4. FindingsInv(s)'
      BY <1>1, <1>3, <2>3, <2>4 DEF ServiceInv, OneScanInv, FindingsInv
    <3> QED
      BY <3>1, <3>2, <3>3, <3>4 DEF OneScanInv
  <2> QED
    BY <1>2, <2>5
<1>6. \/ handler'[s] = "exit"
      \/ /\ rows[s] # NoRow
         /\ newsr'[s] = NewRecord(rows[s], upd[s].status)
         /\ handler'[s] = AfterRetrieve(upd[s].status)
  BY DEF ServiceInv, ServiceTypeOK, RetrieveScan, GoTo
<1> QED
  BY <1>2, <1>4, <1>5, <1>6

LEMMA InsertFindingsKeeps ==
  ASSUME ServiceInv, NEW s \in Jobs, InsertFindings(s)
  PROVE  \A t \in Jobs : OneScanInv(t)'
<1>1. UNCHANGED <<rows, upd, newsr, add, work, reject>>
  BY DEF InsertFindings, engineVars, scannerVars, requestVars
<1>2. ASSUME NEW t \in Jobs \ {s} PROVE OneScanInv(t)'
  BY <1>1, OtherScan DEF ServiceInv, ServiceTypeOK, InsertFindings, GoTo
<1>3. /\ handler[s] = "insert" /\ handler'[s] = "update" /\ upd[s].status = "SUCCESS"
      /\ findings'[s] # findings[s] => rows[s] # NoRow /\ rows[s].status = "IN PROGRESS"
  BY DEF ServiceInv, ServiceTypeOK, OneScanInv, ReceivedInv, StoredInv, RowIn, From,
     InsertFindings, GoTo
<1>4. OneScanInv(s)'
  BY <1>1, <1>3 DEF ServiceInv, OneScanInv, AddInv, ReceivedInv, StoredInv, FindingsInv, RowIn
<1> QED
  BY <1>2, <1>4

LEMMA UpdateScanKeeps ==
  ASSUME ServiceInv, NEW s \in Jobs, UpdateScan(s)
  PROVE  \A t \in Jobs : OneScanInv(t)'
<1>1. UNCHANGED <<findings, upd, add, work, reject>>
  BY DEF UpdateScan, engineVars, scannerVars, requestVars
<1>2. ASSUME NEW t \in Jobs \ {s} PROVE OneScanInv(t)'
  <2>1. rows'[t] = rows[t] /\ newsr'[t] = newsr[t] /\ handler'[t] = handler[t]
    BY DEF ServiceInv, ServiceTypeOK, UpdateScan, GoTo
  <2> QED
    BY <1>1, <2>1, OtherScan DEF ServiceInv
<1>3. /\ handler[s] = "update" /\ upd[s].status \in Statuses
      /\ add[s] = "done"
      /\ newsr[s] # NoRow
      /\ newsr[s].status = Target(upd[s].status)
      /\ newsr[s].times \in FitTimes(newsr[s].status)
      /\ rows[s] = NoRow => findings[s] = {}
      /\ upd[s].status # "SUCCESS" => findings[s] = {}
  BY DEF ServiceInv, ServiceTypeOK, OneScanInv, AddInv, ReceivedInv, StoredInv, FindingsInv,
     UpdateScan
<1>4. CASE rows'[s] = rows[s] /\ handler'[s] = "exit"
  <2>1. AddInv(s)'
    BY <1>1, <1>3, <1>4 DEF ServiceInv, OneScanInv, AddInv, RowIn
  <2>2. ReceivedInv(s)'
    BY <1>1, <1>3, <1>4 DEF ServiceInv, OneScanInv, ReceivedInv
  <2>3. StoredInv(s)'
    BY <1>1, <1>3, <1>4 DEF ServiceInv, OneScanInv, StoredInv, RowIn
  <2>4. FindingsInv(s)'
    BY <1>1, <1>3, <1>4 DEF ServiceInv, OneScanInv, FindingsInv
  <2> QED
    BY <1>2, <2>1, <2>2, <2>3, <2>4 DEF OneScanInv
<1>5. CASE /\ rows[s] # NoRow /\ rows'[s] = newsr[s]
           /\ handler'[s] = IF upd[s].status = "ONGOING" THEN "select" ELSE "exit"
  <2>1. AddInv(s)'
    BY <1>1, <1>3, <1>5 DEF ServiceInv, OneScanInv, AddInv, RowIn
  <2>2. ReceivedInv(s)'
    BY <1>1, <1>3, <1>5 DEF ServiceInv, OneScanInv, ReceivedInv
  <2>3. StoredInv(s)'
    BY <1>1, <1>3, <1>5 DEF ServiceInv, OneScanInv, StoredInv, RowIn, Target
  <2>4. FindingsInv(s)'
    BY <1>1, <1>3, <1>5 DEF ServiceInv, OneScanInv, FindingsInv, Target
  <2> QED
    BY <1>2, <2>1, <2>2, <2>3, <2>4 DEF OneScanInv
<1>6. \/ rows'[s] = rows[s] /\ handler'[s] = "exit"
      \/ /\ rows[s] # NoRow /\ rows'[s] = newsr[s]
         /\ handler'[s] = IF upd[s].status = "ONGOING" THEN "select" ELSE "exit"
  BY DEF ServiceInv, ServiceTypeOK, UpdateScan, UpdateFinds, AfterUpdate, GoTo
<1> QED
  BY <1>2, <1>4, <1>5, <1>6

\* A DELETE takes findings or a row away; the handler is ready for that at any point.
LEMMA DeleteKeeps ==
  ASSUME ServiceInv, NEW d \in Deleters, DeleteStep(d)
  PROVE  \A t \in Jobs : OneScanInv(t)'
<1>1. UNCHANGED <<handler, upd, newsr, add, work, reject>>
  BY DEF DeleteStep, DeleteFindings, DeleteRow, CancelRequest, SweepFindings, handlerVars,
     engineVars, scannerVars
<1>2. \A t \in Jobs :
        /\ findings'[t] \in {findings[t], {}}
        /\ rows'[t] = rows[t] \/ (rows'[t] = NoRow /\ findings[t] = {} /\ findings' = findings
                                    /\ add[t] # "none")
  BY DEF ServiceInv, ServiceTypeOK, DeleteInv, DeleteStep, DeleteFindings, DeleteRow,
     RowDeletable, CancelRequest, SweepFindings, dbVars
<1>3. SUFFICES ASSUME NEW t \in Jobs PROVE OneScanInv(t)'
  OBVIOUS
<1>4. OneScanInv(t)
  BY DEF ServiceInv
<1>5. AddInv(t)' /\ ReceivedInv(t)' /\ StoredInv(t)' /\ FindingsInv(t)'
  BY <1>1, <1>2, <1>4 DEF OneScanInv, AddInv, ReceivedInv, StoredInv, FindingsInv, RowIn
<1> QED
  BY <1>5 DEF OneScanInv

LEMMA OneScanNext ==
  ASSUME ServiceInv, [ServiceNext]_serviceVars
  PROVE  \A t \in Jobs : OneScanInv(t)'
<1> DEFINE Goal == \A t \in Jobs : OneScanInv(t)'
<1>1. ASSUME NEW s \in Jobs, InsertScan(s) \/ SubmitJob(s) \/ RegisterJob(s) \/ HandlerStep(s)
      PROVE  Goal
  BY <1>1, InsertScanKeeps, SubmitJobKeeps, RegisterJobKeeps, HandlerMoves, ReceiveKeeps,
     RetrieveScanKeeps, InsertFindingsKeeps, UpdateScanKeeps DEF HandlerStep
<1>2. ASSUME NEW d \in Deleters, DeleteStep(d) PROVE Goal
  BY <1>2, DeleteKeeps
<1>3. ASSUME StopEngine \/ CleanUpScanner \/ EngineStep PROVE Goal
  <2>1. UNCHANGED <<add, rows, findings, handler, upd, newsr>>
    BY <1>3 DEF StopEngine, CleanUpScanner, EngineStep, dbVars, handlerVars, requestVars
  <2>2. (\E j \in Jobs : AddJob(j) \/ ScannerStep(j)) \/ ControllerStep \/ Stop \/ CleanUp
    BY <1>3 DEF StopEngine, CleanUpScanner, EngineStep
  <2> QED
    BY <2>1, <2>2, WorkAlone, OtherScan DEF ServiceInv
<1>4. ASSUME UNCHANGED <<add, rows, findings, handler, upd, newsr, work, reject>> PROVE Goal
  BY <1>4, OtherScan DEF ServiceInv
<1>5. \/ \E s \in Jobs : InsertScan(s) \/ SubmitJob(s) \/ RegisterJob(s) \/ HandlerStep(s)
      \/ \E d \in Deleters : DeleteStep(d)
      \/ StopEngine \/ CleanUpScanner \/ EngineStep
      \/ UNCHANGED <<add, rows, findings, handler, upd, newsr, work, reject>>
  BY DEF ServiceNext, BeginDelete, ReadScan, ReadFindings, CancelAll, serviceVars, dbVars,
     handlerVars, requestVars, engineVars, scannerVars
<1> QED
  BY <1>1, <1>2, <1>3, <1>4, <1>5

-----------------------------------------------------------------------------
(* What the requests rely on.                                              *)

\* Once a POST has tried to create it, a scan's row never appears again, and a successful
\* row changes only by being deleted.
LEMMA RowsNeverReturn ==
  ASSUME ServiceInv, [ServiceNext]_serviceVars, NEW s \in Jobs, add[s] # "none"
  PROVE  /\ add'[s] # "none" /\ (add'[s] = "failed" => add[s] = "failed")
         /\ rows[s] = NoRow => rows'[s] = NoRow
         /\ RowIn(s, {"SUCCESS"}) => (rows'[s] # NoRow => rows'[s].status = "SUCCESS")
         /\ rows'[s] = NoRow =>
              rows[s] = NoRow \/ \E d \in Deleters : DeleteRow(d) /\ del[d].scan = s
<1> DEFINE Goal == /\ add'[s] # "none" /\ (add'[s] = "failed" => add[s] = "failed")
                   /\ rows[s] = NoRow => rows'[s] = NoRow
                   /\ RowIn(s, {"SUCCESS"}) => (rows'[s] # NoRow => rows'[s].status = "SUCCESS")
                   /\ rows'[s] = NoRow =>
                        rows[s] = NoRow \/ \E d \in Deleters : DeleteRow(d) /\ del[d].scan = s
<1>1. ASSUME NEW t \in Jobs, InsertScan(t) PROVE Goal
  <2>1. t # s
    BY <1>1 DEF InsertScan
  <2> QED
    BY <1>1, <2>1 DEF ServiceInv, ServiceTypeOK, InsertScan, RowIn
<1>2. ASSUME NEW t \in Jobs, SubmitJob(t) \/ RegisterJob(t) PROVE Goal
  BY <1>2 DEF ServiceInv, ServiceTypeOK, SubmitJob, RegisterJob, RowIn, dbVars
<1>3. ASSUME NEW t \in Jobs, UpdateScan(t) PROVE Goal
  <2>1. add' = add
    BY <1>3 DEF UpdateScan, requestVars
  <2>2. CASE rows'[s] = rows[s]
    BY <2>1, <2>2 DEF RowIn
  <2>3. CASE t = s /\ rows[s] # NoRow /\ rows'[s] = newsr[s] /\ handler[s] = "update"
    <3>1. newsr[s] # NoRow /\ rows[s].status \in From(upd[s].status) /\ upd[s].status \in Statuses
      BY <2>3 DEF ServiceInv, ServiceTypeOK, OneScanInv, StoredInv, ReceivedInv, RowIn
    <3>2. rows[s].status # "SUCCESS"
      BY <3>1 DEF From, Statuses
    <3> QED
      BY <2>1, <2>3, <3>1, <3>2 DEF RowIn
  <2>4. \/ rows'[s] = rows[s]
        \/ t = s /\ rows[s] # NoRow /\ rows'[s] = newsr[s] /\ handler[s] = "update"
    BY <1>3 DEF ServiceInv, ServiceTypeOK, UpdateScan, UpdateFinds
  <2> QED
    BY <2>2, <2>3, <2>4
<1>4. ASSUME NEW d \in Deleters, DeleteRow(d) PROVE Goal
  <2>1. add' = add
    BY <1>4 DEF DeleteRow
  <2>2. \/ rows'[s] = rows[s]
        \/ del[d].scan = s /\ rows'[s] = NoRow
    BY <1>4 DEF ServiceInv, ServiceTypeOK, DeleteRow
  <2> QED
    BY <1>4, <2>1, <2>2 DEF RowIn
<1>5. ASSUME UNCHANGED <<add, rows>> PROVE Goal
  BY <1>5 DEF RowIn
<1>6. \/ \E t \in Jobs : InsertScan(t) \/ SubmitJob(t) \/ RegisterJob(t) \/ UpdateScan(t)
      \/ \E d \in Deleters : DeleteRow(d)
      \/ UNCHANGED <<add, rows>>
  BY DEF ServiceNext, HandlerStep, StartHandler, ReceiveFromWork, ReceiveReject, RetrieveScan,
     InsertFindings, ReceiveCancel, ExitHandler, DeleteStep, DeleteFindings, CancelRequest,
     SweepFindings, BeginDelete, ReadScan, ReadFindings, CancelAll, StopEngine,
     CleanUpScanner, EngineStep, serviceVars, dbVars, handlerVars, requestVars
<1> QED
  BY <1>1, <1>2, <1>3, <1>4, <1>5, <1>6

\* The steps of a DELETE.
DeletePath(from, to) ==
  \/ from = "findings" /\ to \in {"row", "error"}
  \/ from = "row" /\ to \in {"cancel", "notFound", "error"}
  \/ from = "cancel" /\ to = "sweep"
  \/ from = "sweep" /\ to = "done"

LEMMA DeleteMoves ==
  ASSUME ServiceInv, [ServiceNext]_serviceVars, NEW d \in Deleters
  PROVE  \/ del'[d] = del[d]
         \/ \E s \in Jobs : BeginDelete(d, s)
         \/ /\ DeleteStep(d)
            /\ \E pc \in {"row", "cancel", "sweep", "done", "notFound", "error"} :
                 /\ DeletePath(del[d].pc, pc)
                 /\ del'[d] = [pc |-> pc, scan |-> del[d].scan]
                 /\ pc = "cancel" => rows'[del[d].scan] = NoRow
                 /\ pc = "notFound" => rows[del[d].scan] = NoRow
<1>1. ASSUME NEW e \in Deleters, DeleteStep(e)
      PROVE  \E pc \in {"row", "cancel", "sweep", "done", "notFound", "error"} :
               /\ DelGoTo(e, pc)
               /\ DeletePath(del[e].pc, pc)
               /\ pc = "cancel" => rows'[del[e].scan] = NoRow
               /\ pc = "notFound" => rows[del[e].scan] = NoRow
  <2>1. CASE DeleteFindings(e)
    BY <2>1 DEF DeleteFindings, DeletePath
  <2>2. CASE DeleteRow(e)
    <3>1. del[e].scan \in Jobs
      BY <2>2 DEF DeleteRow, ServiceInv, DeleteInv
    <3> QED
      BY <2>2, <3>1 DEF DeleteRow, DeletePath, ServiceInv, ServiceTypeOK
  <2>3. CASE CancelRequest(e)
    BY <2>3 DEF CancelRequest, DeletePath
  <2>4. CASE SweepFindings(e)
    BY <2>4 DEF SweepFindings, DeletePath
  <2> QED
    BY <1>1, <2>1, <2>2, <2>3, <2>4 DEF DeleteStep
<1>2. ASSUME NEW e \in Deleters, DeleteStep(e) PROVE e = d \/ del'[d] = del[d]
  BY <1>1, <1>2, DelGoToMoves DEF ServiceInv
<1>3. ASSUME NEW e \in Deleters, NEW s \in Jobs, BeginDelete(e, s) PROVE e = d \/ del'[d] = del[d]
  BY <1>3, BeginDeleteMoves DEF ServiceInv
<1>4. ASSUME DeleteStep(d)
      PROVE  \E pc \in {"row", "cancel", "sweep", "done", "notFound", "error"} :
               /\ DeletePath(del[d].pc, pc)
               /\ del'[d] = [pc |-> pc, scan |-> del[d].scan]
               /\ pc = "cancel" => rows'[del[d].scan] = NoRow
               /\ pc = "notFound" => rows[del[d].scan] = NoRow
  BY <1>1, <1>4, DelGoToMoves DEF ServiceInv
<1>5. \/ \E e \in Deleters : DeleteStep(e) \/ \E s \in Jobs : BeginDelete(e, s)
      \/ UNCHANGED del
  BY DEF ServiceNext, InsertScan, SubmitJob, RegisterJob, HandlerStep, StartHandler,
     ReceiveFromWork, ReceiveReject, RetrieveScan, InsertFindings, UpdateScan, ReceiveCancel,
     ExitHandler, ReadScan, ReadFindings, CancelAll, StopEngine, CleanUpScanner, EngineStep,
     serviceVars, requestVars
<1> QED
  BY <1>2, <1>3, <1>4, <1>5

\* A DELETE that has begun keeps its scan, and one that is past the row stays past it.
LEMMA DeletersMoveOn ==
  ASSUME ServiceInv, [ServiceNext]_serviceVars, NEW s \in Jobs
  PROVE  /\ DeleteAt(s, {"cancel", "sweep", "done", "error"}) =>
              DeleteAt(s, {"cancel", "sweep", "done", "error"})'
         /\ DeleteAt(s, {"row"}) =>
              \/ DeleteAt(s, {"row", "cancel", "sweep", "done", "error"})'
              \/ rows[s] = NoRow
<1>1. ASSUME NEW d \in Deleters, del[d].scan = s,
             del[d].pc \in {"row", "cancel", "sweep", "done", "error"}
      PROVE  \/ del'[d].scan = s /\ del'[d].pc \in {"cancel", "sweep", "done", "error"}
             \/ del[d].pc = "row" /\ (rows[s] = NoRow \/ del'[d] = del[d])
  <2>1. ASSUME NEW t \in Jobs, BeginDelete(d, t) PROVE FALSE
    BY <1>1, <2>1 DEF BeginDelete
  <2>2. \A pc : DeletePath(del[d].pc, pc) =>
          \/ pc \in {"cancel", "sweep", "done", "error"}
          \/ del[d].pc = "row" /\ pc = "notFound"
    BY <1>1 DEF DeletePath
  <2>3. CASE del'[d] = del[d]
    BY <1>1, <2>3
  <2>4. ASSUME NEW pc, DeletePath(del[d].pc, pc), del'[d] = [pc |-> pc, scan |-> del[d].scan],
               pc = "notFound" => rows[s] = NoRow
        PROVE  \/ del'[d].scan = s /\ del'[d].pc \in {"cancel", "sweep", "done", "error"}
               \/ del[d].pc = "row" /\ rows[s] = NoRow
    BY <1>1, <2>2, <2>4
  <2> QED
    BY <1>1, <2>1, <2>3, <2>4, DeleteMoves
<1>2. ASSUME NEW d \in Deleters, del[d].scan = s,
             del[d].pc \in {"cancel", "sweep", "done", "error"}
      PROVE  DeleteAt(s, {"cancel", "sweep", "done", "error"})'
  BY <1>1, <1>2 DEF DeleteAt
<1> QED
  BY <1>1, <1>2 DEF DeleteAt

\* A POST that failed has ended.
LEMMA FailedStaysFailed ==
  ASSUME ServiceInv, [ServiceNext]_serviceVars, NEW s \in Jobs, add[s] = "failed"
  PROVE  add'[s] = "failed"
BY DEF ServiceInv, ServiceTypeOK, ServiceNext, InsertScan, SubmitJob, RegisterJob, HandlerStep,
   StartHandler, ReceiveFromWork, ReceiveReject, RetrieveScan, InsertFindings, UpdateScan,
   ReceiveCancel, ExitHandler, DeleteStep, DeleteFindings, DeleteRow, CancelRequest,
   SweepFindings, BeginDelete, ReadScan, ReadFindings, CancelAll, StopEngine, CleanUpScanner,
   EngineStep, serviceVars, requestVars

LEMMA DeleteInvNext ==
  ASSUME ServiceInv, [ServiceNext]_serviceVars
  PROVE  DeleteInv'
<1> DEFINE Goal(d) == /\ del'[d].scan \in Jobs
                      /\ add'[del'[d].scan] # "none"
                      /\ del'[d].pc = "findings" =>
                           (rows'[del'[d].scan] # NoRow => rows'[del'[d].scan].status = "SUCCESS")
                      /\ del'[d].pc \in {"cancel", "sweep", "done"} => rows'[del'[d].scan] = NoRow
<1>1. ASSUME NEW d \in Deleters, del'[d].pc # "none" PROVE Goal(d)
  <2>1. CASE del'[d] = del[d]
    <3> DEFINE s == del[d].scan
    <3>1. /\ s \in Jobs /\ add[s] # "none"
          /\ del[d].pc = "findings" => RowIn(s, {"SUCCESS"})
          /\ del[d].pc \in {"cancel", "sweep", "done"} => rows[s] = NoRow
      BY <1>1, <2>1 DEF ServiceInv, DeleteInv
    <3> QED
      BY <2>1, <3>1, RowsNeverReturn DEF RowIn
  <2>2. ASSUME NEW s \in Jobs, BeginDelete(d, s) PROVE Goal(d)
    <3>1. add[s] # "none"
      BY <2>2 DEF BeginDelete
    <3>2. UNCHANGED <<add, rows>>
      BY <2>2 DEF BeginDelete, dbVars
    <3>3. del'[d].scan = s /\ del'[d].pc \in {"row", "findings"}
          /\ (del'[d].pc = "findings" /\ rows[s] # NoRow => rows[s].status = "SUCCESS")
      <4>1. ServiceTypeOK
        BY DEF ServiceInv
      <4>2. \/ del'[d] = [pc |-> "row", scan |-> s]
            \/ del'[d] = [pc |-> "findings", scan |-> s] /\ RowIn(s, {"SUCCESS"})
        BY <2>2, <4>1, BeginDeleteMoves
      <4> QED
        BY <4>2 DEF RowIn
    <3> QED
      BY <2>2, <3>1, <3>2, <3>3
  <2>3. ASSUME DeleteStep(d), NEW pc \in {"row", "cancel", "sweep", "done", "notFound", "error"},
               DeletePath(del[d].pc, pc),
               del'[d] = [pc |-> pc, scan |-> del[d].scan],
               pc = "cancel" => rows'[del[d].scan] = NoRow
        PROVE  Goal(d)
    <3> DEFINE s == del[d].scan
    <3>1. /\ s \in Jobs /\ add[s] # "none"
          /\ del[d].pc \in {"cancel", "sweep", "done"} => rows[s] = NoRow
      BY <2>3 DEF ServiceInv, DeleteInv, DeletePath
    <3>2. add'[s] # "none" /\ (rows[s] = NoRow => rows'[s] = NoRow)
      BY <3>1, RowsNeverReturn
    <3>3. pc # "findings" /\ (pc \in {"sweep", "done"} => del[d].pc \in {"cancel", "sweep"})
      BY <2>3 DEF DeletePath
    <3> QED
      BY <2>3, <3>1, <3>2, <3>3
  <2> QED
    BY <2>1, <2>2, <2>3, DeleteMoves
<1>2. ASSUME NEW s \in Jobs, add'[s] \notin {"none", "failed"}, rows'[s] = NoRow
      PROVE  DeleteAt(s, {"cancel", "sweep", "done", "error"})'
  <2>1. CASE add[s] = "none"
    <3>1. ASSUME NEW t \in Jobs, InsertScan(t) PROVE FALSE
      <4>1. \/ add'[s] = add[s]
            \/ add'[s] = "failed"
            \/ rows'[s] = QueuedRow
        <5>1. CASE t = s
          BY <3>1, <5>1 DEF ServiceInv, ServiceTypeOK, InsertScan
        <5>2. CASE t # s
          BY <3>1, <5>2 DEF ServiceInv, ServiceTypeOK, InsertScan
        <5> QED
          BY <5>1, <5>2
      <4>2. QueuedRow # NoRow
        BY QueuedRowType
      <4> QED
        BY <1>2, <2>1, <4>1, <4>2
    <3>2. ASSUME NEW t \in Jobs, SubmitJob(t) \/ RegisterJob(t) PROVE FALSE
      BY <1>2, <2>1, <3>2 DEF ServiceInv, ServiceTypeOK, SubmitJob, RegisterJob
    <3>3. \/ \E t \in Jobs : InsertScan(t) \/ SubmitJob(t) \/ RegisterJob(t)
          \/ UNCHANGED add
      BY DEF ServiceNext, HandlerStep, StartHandler, ReceiveFromWork, ReceiveReject,
         RetrieveScan, InsertFindings, UpdateScan, ReceiveCancel, ExitHandler, DeleteStep,
         DeleteFindings, DeleteRow, CancelRequest, SweepFindings, BeginDelete, ReadScan,
         ReadFindings, CancelAll, StopEngine, CleanUpScanner, EngineStep, serviceVars,
         requestVars
    <3> QED
      BY <1>2, <2>1, <3>1, <3>2, <3>3
  <2>2. CASE add[s] # "none" /\ rows[s] = NoRow
    <3>1. add[s] # "failed"
      BY <1>2, <2>2, FailedStaysFailed
    <3> QED
      BY <2>2, <3>1, DeletersMoveOn DEF ServiceInv, DeleteInv
  <2>3. CASE add[s] # "none" /\ rows[s] # NoRow
    <3>1. PICK d \in Deleters : DeleteRow(d) /\ del[d].scan = s
      BY <1>2, <2>3, RowsNeverReturn
    <3>2. PICK pc \in {"cancel", "error"} : DelGoTo(d, pc)
      BY <2>3, <3>1 DEF DeleteRow, RowDeletable
    <3>3. del'[d] = [pc |-> pc, scan |-> s]
      BY <3>1, <3>2, DelGoToMoves DEF ServiceInv
    <3> QED
      BY <3>3 DEF DeleteAt
  <2> QED
    BY <2>1, <2>2, <2>3
<1>3. \A d \in Deleters : del'[d].pc # "none" => Goal(d)
  BY <1>1
<1> QED
  BY <1>2, <1>3 DEF DeleteInv, RowIn

\* What a GET can go through in one step.
LEMMA ReadersMove ==
  ASSUME ServiceInv, [ServiceNext]_serviceVars, NEW r \in Readers
  PROVE  \/ get'[r] = get[r]
         \/ \E s \in Jobs : ReadScan(r, s)
         \/ ReadFindings(r) /\ get[r].scan \in Jobs
<1>1. ASSUME NEW q \in Readers, ReadFindings(q) PROVE get[q].scan \in Jobs
  BY <1>1 DEF ServiceInv, GetInv, ReadFindings
<1>2. ASSUME NEW q \in Readers, ReadFindings(q) PROVE q = r \/ get'[r] = get[r]
  BY <1>1, <1>2, ReadFindingsMoves DEF ServiceInv
<1>3. ASSUME NEW q \in Readers, NEW s \in Jobs, ReadScan(q, s) PROVE q = r \/ get'[r] = get[r]
  BY <1>3, ReadScanMoves DEF ServiceInv
<1>4. \/ \E q \in Readers : ReadFindings(q) \/ \E s \in Jobs : ReadScan(q, s)
      \/ UNCHANGED get
  BY DEF ServiceNext, InsertScan, SubmitJob, RegisterJob, HandlerStep, StartHandler,
     ReceiveFromWork, ReceiveReject, RetrieveScan, InsertFindings, UpdateScan, ReceiveCancel,
     ExitHandler, DeleteStep, DeleteFindings, DeleteRow, CancelRequest, SweepFindings,
     BeginDelete, CancelAll, StopEngine, CleanUpScanner, EngineStep, serviceVars, requestVars
<1> QED
  BY <1>1, <1>2, <1>3, <1>4

LEMMA GetInvNext ==
  ASSUME ServiceInv, [ServiceNext]_serviceVars
  PROVE  GetInv'
<1> DEFINE Goal(r) == /\ get'[r].scan \in Jobs
                      /\ add'[get'[r].scan] \notin {"none", "failed"}
                      /\ get'[r].row.status = "SUCCESS" =>
                           (rows'[get'[r].scan] # NoRow => rows'[get'[r].scan].status = "SUCCESS")
<1>1. ASSUME NEW r \in Readers, get'[r].pc \in {"list", "done", "cut"} PROVE Goal(r)
  <2>1. CASE \/ get'[r] = get[r]
             \/ /\ get[r].pc = "list" /\ get'[r].scan = get[r].scan
                /\ get'[r].row = get[r].row
    <3> DEFINE s == get[r].scan
    <3>1. /\ s \in Jobs /\ add[s] \notin {"none", "failed"}
          /\ get[r].row.status = "SUCCESS" => RowIn(s, {"SUCCESS"})
      BY <1>1, <2>1 DEF ServiceInv, GetInv
    <3>2. /\ add'[s] \notin {"none", "failed"}
          /\ RowIn(s, {"SUCCESS"}) => (rows'[s] # NoRow => rows'[s].status = "SUCCESS")
      BY <3>1, RowsNeverReturn
    <3> QED
      BY <2>1, <3>1, <3>2
  <2>2. ASSUME NEW s \in Jobs, ReadScan(r, s) PROVE Goal(r)
    <3>1. rows[s] # NoRow /\ get'[r].scan = s /\ get'[r].row = rows[s]
      BY <1>1, <2>2, ReadScanMoves DEF ServiceInv
    <3>2. add[s] \notin {"none", "failed"}
      BY <3>1 DEF ServiceInv, OneScanInv, AddInv
    <3>3. UNCHANGED <<add, rows>>
      BY <2>2 DEF ReadScan, dbVars
    <3> QED
      BY <3>1, <3>2, <3>3
  <2>3. CASE ReadFindings(r) /\ get[r].scan \in Jobs
    BY <1>1, <2>1, <2>3, ReadFindingsMoves DEF ServiceInv, ReadFindings
  <2> QED
    BY <2>1, <2>2, <2>3, ReadersMove
<1>2. \A r \in Readers : get'[r].pc \in {"list", "done", "cut"} => Goal(r)
  BY <1>1
<1> QED
  BY <1>2 DEF GetInv, RowIn

\* The findings of a successful or deleted scan change only when a DELETE removes them.
LEMMA FindingsStay ==
  ASSUME ServiceInv, [ServiceNext]_serviceVars, NEW s \in Jobs, RowIn(s, {"SUCCESS"})
  PROVE  findings'[s] = findings[s] \/ DeleteAt(s, {"row", "done", "error"})'
<1>1. ASSUME NEW t \in Jobs, InsertFindings(t) PROVE findings'[s] = findings[s]
  <2>1. handler[t] = "insert" /\ rows[t] # NoRow => rows[t].status = "IN PROGRESS"
    BY DEF ServiceInv, OneScanInv, ReceivedInv, StoredInv, RowIn, From
  <2> QED
    BY <1>1, <2>1 DEF ServiceInv, ServiceTypeOK, InsertFindings, RowIn
<1>2. ASSUME NEW d \in Deleters, DeleteFindings(d) \/ SweepFindings(d), findings'[s] # findings[s]
      PROVE  DeleteAt(s, {"row", "done", "error"})'
  <2>1. del[d].scan = s
    BY <1>2 DEF ServiceInv, ServiceTypeOK, DeleteFindings, SweepFindings
  <2>2. PICK pc \in {"row", "error", "done"} : DelGoTo(d, pc)
    BY <1>2 DEF DeleteFindings, SweepFindings
  <2>3. del'[d] = [pc |-> pc, scan |-> s]
    BY <2>1, <2>2, DelGoToMoves DEF ServiceInv
  <2> QED
    BY <2>3 DEF DeleteAt
<1>3. \/ \E t \in Jobs : InsertFindings(t)
      \/ \E d \in Deleters : DeleteFindings(d) \/ SweepFindings(d)
      \/ UNCHANGED findings
  BY DEF ServiceNext, InsertScan, SubmitJob, RegisterJob, HandlerStep, StartHandler,
     ReceiveFromWork, ReceiveReject, RetrieveScan, UpdateScan, ReceiveCancel, ExitHandler,
     DeleteStep, DeleteRow, CancelRequest, BeginDelete, ReadScan, ReadFindings, CancelAll,
     StopEngine, CleanUpScanner, EngineStep, serviceVars, dbVars
<1> QED
  BY <1>1, <1>2, <1>3

LEMMA WiderDeleteAt ==
  ASSUME NEW s, NEW P, NEW Q, P \subseteq Q
  PROVE  /\ DeleteAt(s, P) => DeleteAt(s, Q)
         /\ DeleteAt(s, P)' => DeleteAt(s, Q)'
BY DEF DeleteAt

\* The points from which a DELETE has, or may have, taken something away.
PastFindings == {"row", "cancel", "sweep", "done", "error"}

LEMMA PastStays ==
  ASSUME ServiceInv, [ServiceNext]_serviceVars, NEW s \in Jobs,
         add[s] \notin {"none", "failed"}, DeleteAt(s, PastFindings)
  PROVE  DeleteAt(s, PastFindings)'
<1>1. CASE DeleteAt(s, {"cancel", "sweep", "done", "error"})
  BY <1>1, DeletersMoveOn, WiderDeleteAt DEF PastFindings
<1>2. CASE rows[s] = NoRow
  BY <1>1, <1>2 DEF ServiceInv, DeleteInv
<1>3. CASE DeleteAt(s, {"row"}) /\ rows[s] # NoRow
  BY <1>3, DeletersMoveOn DEF PastFindings
<1> QED
  BY <1>1, <1>2, <1>3 DEF DeleteAt, PastFindings

\* What a GET that is answered shows of scan s.
ShowsStored(r, s) ==
  \/ get[r].findings = findings[s]
  \/ get[r].pc = "cut" /\ get[r].findings \subseteq findings[s]

LEMMA GetShowsNext ==
  ASSUME ServiceInv, [ServiceNext]_serviceVars
  PROVE  GetShowsStoredResult'
<1>1. ASSUME NEW r \in Readers, get'[r].pc \in {"done", "cut"}, get'[r].row.status = "SUCCESS",
             NEW s \in Jobs, s = get'[r].scan
      PROVE  ShowsStored(r, s)' \/ DeleteAt(s, PastFindings)'
  <2>1. CASE get'[r] = get[r]
    <3>1. /\ add[s] \notin {"none", "failed"} /\ RowIn(s, {"SUCCESS"})
          /\ ShowsStored(r, s) \/ DeleteAt(s, PastFindings)
      BY <1>1, <2>1 DEF ServiceInv, GetInv, GetShowsStoredResult, ShowsStored, PastFindings
    <3>2. CASE DeleteAt(s, PastFindings)
      BY <3>1, <3>2, PastStays
    <3>3. CASE ShowsStored(r, s)
      <4>1. findings'[s] = findings[s] \/ DeleteAt(s, {"row", "done", "error"})'
        BY <3>1, FindingsStay
      <4>2. DeleteAt(s, {"row", "done", "error"})' => DeleteAt(s, PastFindings)'
        BY WiderDeleteAt DEF PastFindings
      <4> QED
        BY <2>1, <3>3, <4>1, <4>2 DEF ShowsStored
    <3> QED
      BY <3>1, <3>2, <3>3
  <2>2. CASE ReadFindings(r) /\ get[r].scan \in Jobs
    <3>1. findings' = findings
      BY <2>2 DEF ReadFindings, dbVars
    <3> QED
      BY <1>1, <2>2, <3>1, ReadFindingsMoves DEF ServiceInv, ShowsStored
  <2>3. ASSUME NEW t \in Jobs, ReadScan(r, t) PROVE FALSE
    BY <1>1, <2>3, ReadScanMoves DEF ServiceInv
  <2> QED
    BY <2>1, <2>2, <2>3, ReadersMove
<1>2. \A r \in Readers : get'[r].pc \in {"done", "cut"} => get'[r].scan \in Jobs
  BY GetInvNext DEF GetInv
<1>3. ASSUME NEW r \in Readers,
             (get[r].pc \in {"done", "cut"} /\ get[r].row.status = "SUCCESS")'
      PROVE  (\/ ShowsStored(r, get[r].scan)
              \/ DeleteAt(get[r].scan, {"row", "cancel", "sweep", "done", "error"}))'
  <2>1. PICK s \in Jobs : s = get'[r].scan
    BY <1>2, <1>3
  <2> QED
    BY <1>1, <1>3, <2>1 DEF PastFindings, DeleteAt, ShowsStored
<1> QED
  BY <1>3 DEF GetShowsStoredResult, ShowsStored

LEMMA ServiceInvNext ==
  ASSUME ServiceInv, [ServiceNext]_serviceVars
  PROVE  ServiceInv'
<1>1. [EngineNext]_engineVars
  BY ServiceStepIsEngineStep
<1>2. EngineInv' /\ RefusedJobsIdle'
  BY <1>1, EngineInvNext, EngineStepIsScannerStep, RefusedJobsIdleNext DEF ServiceInv
<1>3. EngineTypeOK'
  <2>1. ControllerType
    BY DEF ServiceInv, ServiceTypeOK, EngineTypeOK, ControllerType
  <2>2. ControllerType'
    BY <1>1, <2>1, ControllerTypeNext
  <2> QED
    BY <1>2, <2>2 DEF EngineInv, ScannerInv, UniqueIds, ControllerType, EngineTypeOK
<1> QED
  BY <1>2, <1>3, ServiceTypeNext, OneScanNext, DeleteInvNext, GetInvNext, GetShowsNext
     DEF ServiceInv

-----------------------------------------------------------------------------
(* The initial state, and the crash.                                       *)

\* An engine just built satisfies the engine's invariants, whatever is kept of the histories.
LEMMA FreshEngine ==
  ASSUME id' = [j \in Jobs |-> NoId], board' = [i \in Ids |-> NoJob], phase' = "open",
         tokens' = 0, start' = [j \in Jobs |-> "none"], stop' = [j \in Jobs |-> "none"],
         reject' = [j \in Jobs |-> "none"], work' = [w \in Jobs |-> "none"],
         cur' = [w \in Jobs |-> NoJob], nextJobId' = 0, incoming' = {}, cancelling' = {},
         quit' = "no", found' \in [Jobs -> SUBSET Findings], sent' \in [Jobs -> Seq(Statuses)]
  PROVE  EngineInv' /\ EngineTypeOK' /\ RefusedJobsIdle'
<1>1. ScannerTypeOK'
  BY ScannerAssumption DEF ScannerTypeOK, WorkPc
<1>2. StartedJobs' /\ CurrentJobs' /\ BoardEntriesAreLive' /\ RefusedJobsIdle'
  BY DEF StartedJobs, CurrentJobs, BoardEntriesAreLive, RefusedJobsIdle, Holding, Sending,
     Dropping
<1>3. TokenAccounting'
  <2>1. Holders' = {}
    BY DEF Holders, Holding, Sending, Dropping
  <2> QED
    BY <2>1, FS_EmptySet, ScannerAssumption DEF TokenAccounting
<1>4. UniqueIds' /\ OnlyClosedBoardRefuses'
  BY DEF UniqueIds, OnlyClosedBoardRefuses
<1> QED
  BY <1>1, <1>2, <1>3, <1>4 DEF EngineInv, ScannerInv, EngineTypeOK

LEMMA ServiceInvInit == ServiceInit => ServiceInv
<1> SUFFICES ASSUME ServiceInit PROVE ServiceInv
  OBVIOUS
<1>1. EngineInv /\ EngineTypeOK /\ RefusedJobsIdle
  <2>1. EngineInv
    BY EngineInvInit DEF ServiceInit
  <2> QED
    BY <2>1 DEF ServiceInit, EngineInit, ScannerInit, ControllerInit, EngineInv, ScannerInv,
       UniqueIds, EngineTypeOK, RefusedJobsIdle
<1>2. ServiceTypeOK
  BY <1>1 DEF ServiceInit, ServiceTypeOK, Update
<1>3. \A s \in Jobs : work[s] = "none" /\ upd[s].status = "none"
  BY DEF ServiceInit, EngineInit, ScannerInit, Update
<1>4. \A s \in Jobs : OneScanInv(s)
  BY <1>3 DEF ServiceInit, OneScanInv, AddInv, ReceivedInv, StoredInv, FindingsInv, RowIn,
     AfterOngoing, Sending, Dropping
<1>5. DeleteInv /\ GetInv /\ GetShowsStoredResult
  BY DEF ServiceInit, DeleteInv, GetInv, GetShowsStoredResult
<1> QED
  BY <1>1, <1>2, <1>4, <1>5 DEF ServiceInv

\* After a crash no handler follows any scan, so what is stored may stay as it is for ever;
\* what relates the tables to each other and to the requests still holds.
LEMMA CrashKeeps ==
  ASSUME ServiceInv, Crash
  PROVE  ServiceInv'
<1>1. EngineInv' /\ EngineTypeOK' /\ RefusedJobsIdle'
  <2>1. found' \in [Jobs -> SUBSET Findings] /\ sent' \in [Jobs -> Seq(Statuses)]
    BY DEF Crash, RestartEngine, ServiceInv, ServiceTypeOK, EngineTypeOK, ScannerTypeOK
  <2> QED
    BY <2>1, FreshEngine DEF Crash, RestartEngine
<1>2. /\ rows' = rows /\ findings' = findings /\ handler' = [s \in Jobs |-> "none"]
      /\ upd' = [s \in Jobs |-> Update("none", {})] /\ work' = [s \in Jobs |-> "none"]
      /\ \A s \in Jobs : add'[s] = IF add[s] \in {"submit", "register"} THEN "done" ELSE add[s]
  BY DEF Crash, RestartEngine, DropRequests, dbVars
<1>3. ASSUME NEW d \in Deleters
      PROVE  /\ del'[d] \in Dels /\ del'[d].scan = del[d].scan
             /\ del'[d].pc = IF del[d].pc \in {"findings", "row", "cancel", "sweep"}
                             THEN "error" ELSE del[d].pc
  <2>1. del[d] \in Dels
    BY DEF ServiceInv, ServiceTypeOK, Dels
  <2>2. /\ [del[d] EXCEPT !.pc = "error"] \in Dels
        /\ [del[d] EXCEPT !.pc = "error"].pc = "error"
        /\ [del[d] EXCEPT !.pc = "error"].scan = del[d].scan
    BY <2>1 DEF Dels
  <2>3. del'[d] = IF del[d].pc \in {"findings", "row", "cancel", "sweep"}
                  THEN [del[d] EXCEPT !.pc = "error"] ELSE del[d]
    BY DEF Crash, DropRequests
  <2> QED
    BY <2>1, <2>2, <2>3
<1>4. \A r \in Readers : get'[r] \in Gets /\ (get'[r] = get[r] \/ get'[r].pc = "error")
  <2> SUFFICES ASSUME NEW r \in Readers
               PROVE  get'[r] \in Gets /\ (get'[r] = get[r] \/ get'[r].pc = "error")
    OBVIOUS
  <2>1. get[r] \in Gets
    BY DEF ServiceInv, ServiceTypeOK, Gets
  <2>2. [get[r] EXCEPT !.pc = "error"].pc = "error" /\ [get[r] EXCEPT !.pc = "error"] \in Gets
    BY <2>1 DEF Gets
  <2> QED
    BY <2>1, <2>2 DEF Crash, DropRequests
<1>5. ServiceTypeOK'
  <2>1. del' \in [Deleters -> Dels] /\ get' \in [Readers -> Gets]
    <3>1. del' = [d \in Deleters |-> del'[d]] /\ get' = [r \in Readers |-> get'[r]]
      BY DEF Crash, DropRequests
    <3> QED
      BY <1>3, <1>4, <3>1
  <2>2. add' \in [Jobs -> {"none", "failed", "submit", "register", "done"}]
    BY DEF Crash, DropRequests, ServiceInv, ServiceTypeOK
  <2> QED
    BY <1>1, <1>2, <2>1, <2>2 DEF Crash, ServiceInv, ServiceTypeOK, Update, Gets, Dels
<1>6. ASSUME NEW s \in Jobs PROVE OneScanInv(s)'
  <2>1. /\ handler'[s] = "none" /\ upd'[s].status = "none" /\ work'[s] = "none"
        /\ rows'[s] = rows[s] /\ findings'[s] = findings[s]
        /\ add'[s] = IF add[s] \in {"submit", "register"} THEN "done" ELSE add[s]
    BY <1>2 DEF Update
  <2>2. OneScanInv(s)
    BY DEF ServiceInv
  <2> QED
    BY <2>1, <2>2 DEF OneScanInv, AddInv, ReceivedInv, StoredInv, FindingsInv, AfterOngoing,
       Sending, Dropping
<1>7. DeleteInv'
  <2>1. ASSUME NEW d \in Deleters, del'[d].pc # "none"
        PROVE  /\ del'[d].scan \in Jobs
               /\ add'[del'[d].scan] # "none"
               /\ del'[d].pc # "findings"
               /\ del'[d].pc \in {"cancel", "sweep", "done"} => rows'[del'[d].scan] = NoRow
    <3>1. /\ del'[d].scan = del[d].scan /\ del[d].pc # "none" /\ del'[d].pc # "findings"
          /\ del'[d].pc \in {"cancel", "sweep", "done"} => del[d].pc = "done"
      BY <1>3, <2>1
    <3> QED
      BY <1>2, <3>1 DEF ServiceInv, DeleteInv
  <2>2. ASSUME NEW s \in Jobs, add'[s] \notin {"none", "failed"}, rows'[s] = NoRow
        PROVE  DeleteAt(s, {"cancel", "sweep", "done", "error"})'
    <3>1. PICK d \in Deleters :
            del[d].scan = s /\ del[d].pc \in {"cancel", "sweep", "done", "error"}
      BY <1>2, <2>2 DEF ServiceInv, DeleteInv, DeleteAt
    <3>2. del'[d].scan = s /\ del'[d].pc \in {"done", "error"}
      BY <1>3, <3>1
    <3> QED
      BY <3>2 DEF DeleteAt
  <2> QED
    BY <2>1, <2>2 DEF DeleteInv
<1>8. ASSUME NEW r \in Readers, get'[r].pc \in {"list", "done", "cut"}
      PROVE  /\ get'[r] = get[r] /\ get[r].scan \in Jobs
             /\ add'[get[r].scan] \notin {"none", "failed"}
  BY <1>2, <1>4, <1>8 DEF ServiceInv, GetInv
<1>9. GetInv'
  BY <1>2, <1>8 DEF ServiceInv, GetInv, RowIn
<1>10. GetShowsStoredResult'
  <2>1. ASSUME NEW s \in Jobs, DeleteAt(s, PastFindings) PROVE DeleteAt(s, PastFindings)'
    <3>1. PICK d \in Deleters : del[d].scan = s /\ del[d].pc \in PastFindings
      BY <2>1 DEF DeleteAt
    <3>2. del'[d].scan = s /\ del'[d].pc \in {"done", "error"}
      BY <1>3, <3>1 DEF PastFindings
    <3> QED
      BY <3>2 DEF DeleteAt, PastFindings
  <2>2. ASSUME NEW r \in Readers, get'[r].pc \in {"done", "cut"}, get'[r].row.status = "SUCCESS"
        PROVE  (ShowsStored(r, get[r].scan) \/ DeleteAt(get[r].scan, PastFindings))'
    <3>1. PICK s \in Jobs : s = get[r].scan /\ get'[r] = get[r]
      BY <1>8, <2>2
    <3>2. ShowsStored(r, s) \/ DeleteAt(s, PastFindings)
      BY <2>2, <3>1 DEF ServiceInv, GetShowsStoredResult, ShowsStored, PastFindings
    <3> QED
      BY <1>2, <2>1, <3>1, <3>2 DEF DeleteAt, ShowsStored
  <2> QED
    BY <2>2 DEF GetShowsStoredResult, ShowsStored, PastFindings
<1> QED
  BY <1>1, <1>5, <1>6, <1>7, <1>9, <1>10 DEF ServiceInv

-----------------------------------------------------------------------------
(* What holds of the service, with every database error, CleanUp and crash. *)

LEMMA RestartInvNext ==
  ASSUME ServiceInv, [RestartNext]_serviceVars
  PROVE  ServiceInv'
BY ServiceInvNext, CrashKeeps DEF RestartNext

\* A service that never crashes is one that may.
THEOREM ServiceIsRestart == ServiceSpec => RestartSpec
<1>1. [ServiceNext]_serviceVars => [RestartNext]_serviceVars
  BY DEF RestartNext
<1> QED
  BY <1>1, PTL DEF ServiceSpec, RestartSpec

\* The inductive invariant holds in every reachable state.
THEOREM RestartSafe == RestartSpec => []ServiceInv
BY ServiceInvInit, RestartInvNext, PTL DEF RestartSpec

\* Every variable has its type; only the four statuses of enum_status are ever stored.
THEOREM ServiceTypeCorrect == RestartSpec => []ServiceTypeOK
<1>1. ServiceInv => ServiceTypeOK
  BY DEF ServiceInv
<1> QED
  BY <1>1, RestartSafe, PTL

\* Neither the handler of a deleted scan, wherever it stands, nor a crash brings its row or
\* its findings back.
THEOREM ServiceDeletes == RestartSpec => []DeletedStaysDeleted
<1>1. ServiceInv => DeletedStaysDeleted
  <2> SUFFICES ASSUME ServiceInv, NEW s \in Jobs, DeleteAt(s, {"cancel", "sweep", "done"})
               PROVE  rows[s] = NoRow /\ findings[s] = {}
    BY DEF DeletedStaysDeleted
  <2>1. rows[s] = NoRow
    BY DEF ServiceInv, DeleteInv, DeleteAt
  <2> QED
    BY <2>1 DEF ServiceInv, OneScanInv, FindingsInv
<1> QED
  BY <1>1, RestartSafe, PTL

\* The times stored with a scan fit its status.
THEOREM ServiceTimes == RestartSpec => []TimesMatchStatus
<1>1. ServiceInv => TimesMatchStatus
  <2> SUFFICES ASSUME ServiceInv, NEW s \in Jobs, rows[s] # NoRow
               PROVE  rows[s].times \in FitTimes(rows[s].status)
    BY DEF TimesMatchStatus, FitTimes
  <2> QED
    BY DEF ServiceInv, OneScanInv, StoredInv
<1> QED
  BY <1>1, RestartSafe, PTL

\* A GET that answers SUCCESS shows the findings stored for good, unless a DELETE came between,
\* and nothing else when the database broke off while it read them.
THEOREM ServiceGets == RestartSpec => []GetShowsStoredResult
<1>1. ServiceInv => GetShowsStoredResult
  BY DEF ServiceInv
<1> QED
  BY <1>1, RestartSafe, PTL

-----------------------------------------------------------------------------
(* The service implements the lifecycle.                                   *)

\* A stored scan is shown with its status.
LEMMA ShownIfStored ==
  ASSUME ServiceInv, NEW s \in Jobs, rows[s] # NoRow
  PROVE  add[s] \notin {"none", "failed"} /\ ShownStatus(s) = rows[s].status
BY DEF ServiceInv, ServiceTypeOK, OneScanInv, AddInv, ShownStatus

\* A step that changes what is shown of scan s only, and no findings.
LEMMA ShownBecomes ==
  ASSUME NEW s \in Jobs, NEW from, NEW to,
         ShownStatus(s) \in from, ShownStatus(s)' = to,
         \A t \in Jobs \ {s} : ShownStatus(t)' = ShownStatus(t),
         findings' = findings
  PROVE  Lifecycle!Become(s, from, to)
BY DEF Lifecycle!Become

\* A step that changes nothing a client can see.
LEMMA ShownStutters ==
  ASSUME \A s \in Jobs : ShownStatus(s)' = ShownStatus(s), findings' = findings
  PROVE  UNCHANGED Lifecycle!vars
BY DEF Lifecycle!vars

LEMMA InsertScanCreates ==
  ASSUME ServiceInv, NEW s \in Jobs, InsertScan(s)
  PROVE  [Lifecycle!Next]_(Lifecycle!vars)
<1>1. /\ findings' = findings /\ ShownStatus(s) = "unknown"
      /\ \A t \in Jobs \ {s} : ShownStatus(t)' = ShownStatus(t)
  BY DEF ServiceInv, ServiceTypeOK, OneScanInv, AddInv, InsertScan, ShownStatus
<1>2. ShownStatus(s)' \in {"unknown", "QUEUED"}
  <2>1. \/ rows'[s] = QueuedRow
        \/ rows'[s] = NoRow /\ add'[s] = "failed"
    BY DEF ServiceInv, ServiceTypeOK, OneScanInv, AddInv, InsertScan
  <2> QED
    BY <2>1, QueuedRowType DEF ShownStatus
<1>3. CASE ShownStatus(s)' = "QUEUED"
  <2>1. Lifecycle!Create(s)
    BY <1>1, <1>3, ShownBecomes DEF Lifecycle!Create
  <2> QED
    BY <2>1 DEF Lifecycle!Next
<1>4. CASE ShownStatus(s)' = "unknown"
  BY <1>1, <1>4, ShownStutters
<1> QED
  BY <1>2, <1>3, <1>4

\* ONGOING finds the row QUEUED, SUCCESS finds it IN PROGRESS; FAILURE finds it in either and
\* without findings.
LEMMA UpdateScanAdvances ==
  ASSUME ServiceInv, NEW s \in Jobs, UpdateScan(s)
  PROVE  [Lifecycle!Next]_(Lifecycle!vars)
<1>1. findings' = findings /\ add' = add /\ \A t \in Jobs \ {s} : rows'[t] = rows[t]
  BY DEF ServiceInv, ServiceTypeOK, UpdateScan, requestVars
<1>2. \A t \in Jobs \ {s} : ShownStatus(t)' = ShownStatus(t)
  BY <1>1 DEF ShownStatus
<1>3. CASE rows'[s] = rows[s]
  <2>1. ShownStatus(s)' = ShownStatus(s)
    BY <1>1, <1>3 DEF ShownStatus
  <2> QED
    BY <1>1, <1>2, <2>1, ShownStutters
<1>4. CASE rows[s] # NoRow /\ rows'[s] = newsr[s]
  <2>1. /\ upd[s].status \in Statuses /\ newsr[s] # NoRow
        /\ newsr[s].status = Target(upd[s].status)
        /\ rows[s].status \in From(upd[s].status)
        /\ upd[s].status # "SUCCESS" => findings[s] = {}
    BY <1>4 DEF ServiceInv, ServiceTypeOK, OneScanInv, ReceivedInv, StoredInv, FindingsInv,
       RowIn, UpdateScan
  <2>2. /\ ShownStatus(s) \in From(upd[s].status)
        /\ ShownStatus(s)' = Target(upd[s].status)
    <3>1. ShownStatus(s) = rows[s].status /\ add[s] \notin {"none", "failed"}
      BY <1>4, ShownIfStored
    <3>2. rows'[s] # NoRow
      BY <1>4, <2>1
    <3>3. ShownStatus(s)' = rows'[s].status
      BY <1>1, <3>1, <3>2 DEF ShownStatus
    <3> QED
      BY <1>4, <2>1, <3>1, <3>3
  <2>3. CASE upd[s].status = "ONGOING"
    <3>1. Lifecycle!Begin(s)
      BY <1>1, <1>2, <2>2, <2>3, ShownBecomes DEF Lifecycle!Begin, From, Target
    <3> QED
      BY <3>1 DEF Lifecycle!Next
  <2>4. CASE upd[s].status = "SUCCESS"
    <3>1. Lifecycle!Succeed(s)
      BY <1>1, <1>2, <2>2, <2>4, ShownBecomes DEF Lifecycle!Succeed, From, Target
    <3> QED
      BY <3>1 DEF Lifecycle!Next
  <2>5. CASE upd[s].status = "FAILURE"
    <3>1. ShownStatus(s) \in {"QUEUED", "IN PROGRESS"} /\ ShownStatus(s)' = "FAILURE"
      BY <2>2, <2>5 DEF From, Target
    <3>2. Lifecycle!Become(s, {"QUEUED", "IN PROGRESS"}, "FAILURE")
      BY <1>1, <1>2, <3>1 DEF Lifecycle!Become
    <3>3. findings[s] = {}
      BY <2>1, <2>5
    <3>4. Lifecycle!Fail(s)
      BY <3>2, <3>3 DEF Lifecycle!Fail
    <3> QED
      BY <3>4 DEF Lifecycle!Next
  <2> QED
    BY <2>1, <2>3, <2>4, <2>5 DEF Statuses
<1>5. rows'[s] = rows[s] \/ (rows[s] # NoRow /\ rows'[s] = newsr[s])
  BY DEF ServiceInv, ServiceTypeOK, UpdateScan, UpdateFinds
<1> QED
  BY <1>3, <1>4, <1>5

LEMMA InsertFindingsPublishes ==
  ASSUME ServiceInv, NEW s \in Jobs, InsertFindings(s)
  PROVE  [Lifecycle!Next]_(Lifecycle!vars)
<1>1. \A t \in Jobs : ShownStatus(t)' = ShownStatus(t)
  BY DEF InsertFindings, requestVars, ShownStatus
<1>2. CASE findings' = findings
  BY <1>1, <1>2, ShownStutters
<1>3. CASE rows[s] # NoRow /\ findings' = [findings EXCEPT ![s] = @ \union upd[s].findings]
  <2>1. /\ rows[s].status = "IN PROGRESS" /\ findings[s] = {}
        /\ upd[s].findings \in SUBSET Findings
    BY <1>3 DEF ServiceInv, ServiceTypeOK, OneScanInv, ReceivedInv, StoredInv, FindingsInv, RowIn,
       From, InsertFindings
  <2>2. findings' = [findings EXCEPT ![s] = upd[s].findings]
    BY <1>3, <2>1
  <2>3. ShownStatus(s) = "IN PROGRESS"
    BY <1>3, <2>1, ShownIfStored
  <2>4. [t \in Jobs |-> ShownStatus(t)]' = [t \in Jobs |-> ShownStatus(t)]
    BY <1>1
  <2>5. [t \in Jobs |-> ShownStatus(t)][s] = "IN PROGRESS"
    BY <2>3
  <2>6. \E F \in SUBSET Findings : findings' = [findings EXCEPT ![s] = F]
    BY <2>1, <2>2
  <2>7. Lifecycle!Publish(s)
    BY <2>1, <2>4, <2>5, <2>6 DEF Lifecycle!Publish
  <2> QED
    BY <2>7 DEF Lifecycle!Next
<1> QED
  BY <1>2, <1>3 DEF InsertFindings

\* Only the findings of a success are deleted before the row, and a row without findings.
LEMMA DeleteStepDeletes ==
  ASSUME ServiceInv, NEW d \in Deleters, DeleteStep(d)
  PROVE  [Lifecycle!Next]_(Lifecycle!vars)
<1>1. add' = add
  BY DEF DeleteStep, DeleteFindings, DeleteRow, CancelRequest, SweepFindings
<1>2. PICK s \in Jobs : s = del[d].scan
  BY DEF DeleteStep, DeleteFindings, DeleteRow, CancelRequest, SweepFindings, ServiceInv, DeleteInv
<1>3. CASE DeleteRow(d)
  <2>1. findings' = findings
    BY <1>3 DEF DeleteRow
  <2>2. CASE rows' = rows
    BY <1>1, <2>1, <2>2, ShownStutters DEF ShownStatus
  <2>3. CASE rows[s] # NoRow /\ findings[s] = {} /\ rows' = [rows EXCEPT ![s] = NoRow]
    <3>1. add[s] \notin {"none", "failed"} /\ rows[s] \in DbRows
      BY <2>3 DEF ServiceInv, ServiceTypeOK, OneScanInv, AddInv
    <3>2. rows'[s] = NoRow /\ \A u \in Jobs \ {s} : rows'[u] = rows[u]
      BY <2>3 DEF ServiceInv, ServiceTypeOK
    <3>3. ShownStatus(s) \in {"QUEUED", "IN PROGRESS", "SUCCESS", "FAILURE"}
      BY <2>3, <3>1, ShownIfStored DEF DbRows
    <3>4. ShownStatus(s)' = "deleted"
      BY <1>1, <3>1, <3>2 DEF ShownStatus
    <3>5. \A u \in Jobs \ {s} : ShownStatus(u)' = ShownStatus(u)
      BY <1>1, <3>2 DEF ShownStatus
    <3>6. Lifecycle!Become(s, {"QUEUED", "IN PROGRESS", "SUCCESS", "FAILURE"}, "deleted")
      BY <2>1, <3>3, <3>4, <3>5 DEF Lifecycle!Become
    <3>7. Lifecycle!Delete(s)
      BY <2>3, <3>6 DEF Lifecycle!Delete
    <3> QED
      BY <3>7 DEF Lifecycle!Next
  <2> QED
    BY <1>2, <1>3, <2>2, <2>3 DEF DeleteRow, RowDeletable
<1>4. CASE DeleteFindings(d) \/ SweepFindings(d)
  <2>1. rows' = rows /\ findings' \in {findings, [findings EXCEPT ![s] = {}]}
    BY <1>2, <1>4 DEF DeleteFindings, SweepFindings
  <2>2. \A t \in Jobs : ShownStatus(t)' = ShownStatus(t)
    BY <1>1, <2>1 DEF ShownStatus
  <2>3. CASE findings' = findings
    BY <2>2, <2>3, ShownStutters
  <2>4. CASE findings[s] = {} /\ findings' = [findings EXCEPT ![s] = {}]
    <3>1. findings' = findings
      BY <2>4 DEF ServiceInv, ServiceTypeOK
    <3> QED
      BY <2>2, <3>1, ShownStutters
  <2>5. CASE findings[s] # {} /\ findings' = [findings EXCEPT ![s] = {}]
    <3>1. rows[s] # NoRow
      BY <2>5 DEF ServiceInv, OneScanInv, FindingsInv
    <3>2. rows[s].status = "SUCCESS"
      BY <1>2, <1>4, <3>1 DEF DeleteFindings, SweepFindings, ServiceInv, DeleteInv, RowIn
    <3>3. ShownStatus(s) = "SUCCESS"
      BY <3>1, <3>2, ShownIfStored
    <3>4. [t \in Jobs |-> ShownStatus(t)]' = [t \in Jobs |-> ShownStatus(t)]
      BY <2>2
    <3>5. [t \in Jobs |-> ShownStatus(t)][s] = "SUCCESS"
      BY <3>3
    <3>6. Lifecycle!Purge(s)
      BY <2>5, <3>4, <3>5 DEF Lifecycle!Purge
    <3> QED
      BY <3>6 DEF Lifecycle!Next
  <2> QED
    BY <2>1, <2>3, <2>4, <2>5
<1>5. CASE CancelRequest(d)
  BY <1>1, <1>5, ShownStutters DEF CancelRequest, dbVars, ShownStatus
<1> QED
  BY <1>3, <1>4, <1>5 DEF DeleteStep

LEMMA LifecycleNext ==
  ASSUME ServiceInv, [RestartNext]_serviceVars
  PROVE  [Lifecycle!Next]_(Lifecycle!vars)
<1>1. ASSUME NEW s \in Jobs, InsertScan(s) \/ UpdateScan(s) \/ InsertFindings(s)
      PROVE  [Lifecycle!Next]_(Lifecycle!vars)
  BY <1>1, InsertScanCreates, UpdateScanAdvances, InsertFindingsPublishes
<1>2. ASSUME NEW d \in Deleters, DeleteStep(d) PROVE [Lifecycle!Next]_(Lifecycle!vars)
  BY <1>2, DeleteStepDeletes
<1>3. ASSUME NEW s \in Jobs, SubmitJob(s) \/ RegisterJob(s) PROVE UNCHANGED Lifecycle!vars
  <2>1. \A t \in Jobs : ShownStatus(t)' = ShownStatus(t)
    BY <1>3 DEF SubmitJob, RegisterJob, dbVars, ServiceInv, ServiceTypeOK, ShownStatus
  <2> QED
    BY <1>3, <2>1, ShownStutters DEF SubmitJob, RegisterJob, dbVars
<1>4. ASSUME Crash PROVE UNCHANGED Lifecycle!vars
  <2>1. \A t \in Jobs : ShownStatus(t)' = ShownStatus(t)
    BY <1>4 DEF Crash, DropRequests, dbVars, ShownStatus
  <2> QED
    BY <1>4, <2>1, ShownStutters DEF Crash, dbVars
<1>5. ASSUME UNCHANGED <<add, rows, findings>> PROVE UNCHANGED Lifecycle!vars
  BY <1>5, ShownStutters DEF ShownStatus
<1>6. \/ \E s \in Jobs : InsertScan(s) \/ UpdateScan(s) \/ InsertFindings(s)
      \/ \E d \in Deleters : DeleteStep(d)
      \/ \E s \in Jobs : SubmitJob(s) \/ RegisterJob(s)
      \/ Crash
      \/ UNCHANGED <<add, rows, findings>>
  BY DEF RestartNext, ServiceNext, HandlerStep, StartHandler, ReceiveFromWork, ReceiveReject,
     RetrieveScan, ReceiveCancel, ExitHandler, BeginDelete, ReadScan, ReadFindings, CancelAll,
     StopEngine, CleanUpScanner, EngineStep, serviceVars, dbVars, handlerVars, requestVars
<1> QED
  BY <1>1, <1>2, <1>3, <1>4, <1>5, <1>6

\* The scan a client sees goes through the lifecycle the API promises: never back, its
\* findings published at once before SUCCESS, and no return from deletion, whatever the
\* interleaving of POST, handler, DELETEs and GETs, and across crashes.
THEOREM ServiceImplementsLifecycle == RestartSpec => ImplementsLifecycle
<1>1. ServiceInit => Lifecycle!Init
  BY DEF ServiceInit, Lifecycle!Init, ShownStatus
<1>2. ServiceInv /\ [RestartNext]_serviceVars => [Lifecycle!Next]_(Lifecycle!vars)
  BY LifecycleNext
<1> QED
  BY <1>1, <1>2, RestartSafe, PTL DEF RestartSpec, ImplementsLifecycle, Lifecycle!Spec
=============================================================================
