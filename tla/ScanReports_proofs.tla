------------------------- MODULE ScanReports_proofs -------------------------
(***************************************************************************)
(* Proofs about ScanService without database errors, for every number of   *)
(* scans, DELETEs and GETs: what the stored scan says is what its job has  *)
(* reported, it is stored in full, and nobody who is needed goes away      *)
(* early.  With database errors none of this holds.                        *)
(***************************************************************************)
EXTENDS ScanService_proofs

\* The handler has got every report that was sent.
LastReceived ==
  \A s \in Jobs : upd[s].status = IF sent[s] = <<>> THEN "none" ELSE Last(sent[s])

\* The status that says what the handler knows.
Known(s) == IF upd[s].status = "none" THEN "QUEUED" ELSE Target(upd[s].status)

\* The row says what the handler knows, unless the handler is about to tell it.
SettledInv ==
  \A s \in Jobs :
    rows[s] # NoRow /\ handler[s] \notin {"retrieve", "insert", "update"} =>
      rows[s].status = Known(s)

\* The handler of a success stores what Work found, and only a DELETE takes it away.
CompleteInv ==
  \A s \in Jobs :
    /\ upd[s].status = "SUCCESS" =>
         work[s] \in {"dropDone", "release", "done"} /\ upd[s].findings = found[s]
    /\ handler[s] = "update" /\ upd[s].status = "SUCCESS" /\ rows[s] # NoRow =>
         findings[s] = found[s]
    /\ rows[s] # NoRow /\ rows[s].status = "SUCCESS" =>
         /\ findings[s] \in {found[s], {}}
         /\ findings[s] = found[s] \/ DeleteAt(s, {"row"})

\* A handler ends early only for a deleted scan or a CleanUp.
AttendedInv ==
  \A s \in Jobs :
    /\ add[s] = "done" => handler[s] # "none"
    /\ handler[s] = "start" => s \in active
    /\ s \in active \union cancel => handler[s] # "none"
    /\ s \in cancel => rows[s] = NoRow \/ cleanUp # "no"
    /\ handler[s] \in {"exit", "done"} =>
         rows[s] = NoRow \/ cleanUp # "no" \/ upd[s].status \in Final

-----------------------------------------------------------------------------
(* The handler knows what its job has reported.                            *)

LEMMA LastAppend ==
  ASSUME NEW q \in Seq(Statuses), NEW a \in Statuses
  PROVE  Append(q, a) # <<>> /\ Last(Append(q, a)) = a
BY DEF Last

LEMMA LastReceivedInit == ServiceInit => LastReceived
BY DEF ServiceInit, EngineInit, ScannerInit, LastReceived, Update

\* Nothing is sent to nobody.
LEMMA SentIsReceived ==
  ASSUME [ServiceNext]_serviceVars
  PROVE  \/ \E s \in Jobs : ReceiveFromWork(s) \/ ReceiveReject(s)
         \/ UNCHANGED <<upd, sent, findings>>
         \/ UNCHANGED <<upd, sent, found, work>>
<1>1. ASSUME NEW j \in Jobs, ScannerStep(j) PROVE UNCHANGED sent
  BY <1>1 DEF ScannerStep, CheckBoardOpen, AddToJobBoard, StopScan, WorkStep, AcquireToken,
     Lookup, MakeTempDir, CloneRepository, RemoveFromJobBoard, Scan, Verdict, ReleaseToken
<1>2. ASSUME ControllerStep PROVE UNCHANGED <<sent, found, work>>
  BY <1>2 DEF ControllerStep, RunIncoming, RunCancelling, RunQuit, CallStartScan, CallStopScan,
     scannerVars, workVars
<1>3. ASSUME EngineStep PROVE UNCHANGED <<upd, sent, findings>>
  BY <1>1, <1>2, <1>3 DEF EngineStep, dbVars, handlerVars
<1>4. ASSUME StopEngine \/ CleanUpScanner PROVE UNCHANGED <<upd, sent, found, work>>
  BY <1>4 DEF StopEngine, Stop, CleanUpScanner, CleanUp, CloseBoard, ClearBoard, scannerVars,
     workVars, handlerVars
<1>5. ASSUME NEW s \in Jobs, InsertScan(s) \/ SubmitJob(s) \/ RegisterJob(s)
      PROVE  UNCHANGED <<upd, sent, found, work>>
  BY <1>5 DEF InsertScan, SubmitJob, RegisterJob, AddJob, NewJob, engineVars, scannerVars,
     workVars, handlerVars
<1>6. ASSUME NEW s \in Jobs, HandlerStep(s), ~ReceiveFromWork(s), ~ReceiveReject(s)
      PROVE  UNCHANGED <<upd, sent, found, work>>
  BY <1>6 DEF HandlerStep, StartHandler, RetrieveScan, InsertFindings, UpdateScan,
     ReceiveCancel, ExitHandler, engineVars, scannerVars
<1>7. ASSUME NEW d \in Deleters, (\E s \in Jobs : BeginDelete(d, s)) \/ DeleteStep(d)
      PROVE  UNCHANGED <<upd, sent, found, work>>
  BY <1>7 DEF BeginDelete, DeleteStep, DeleteFindings, DeleteRow, CancelRequest, SweepFindings,
     engineVars, scannerVars, handlerVars
<1>8. ASSUME NEW r \in Readers, (\E s \in Jobs : ReadScan(r, s)) \/ ReadFindings(r)
      PROVE  UNCHANGED <<upd, sent, found, work>>
  BY <1>8 DEF ReadScan, ReadFindings, engineVars, scannerVars, handlerVars
<1>9. ASSUME CancelAll \/ UNCHANGED serviceVars PROVE UNCHANGED <<upd, sent, found, work>>
  BY <1>9 DEF CancelAll, serviceVars, engineVars, scannerVars, handlerVars
<1> QED
  BY <1>3, <1>4, <1>5, <1>6, <1>7, <1>8, <1>9 DEF ServiceNext

LEMMA LastReceivedNext ==
  ASSUME ServiceInv, LastReceived, [ServiceNext]_serviceVars
  PROVE  LastReceived'
<1>1. sent \in [Jobs -> Seq(Statuses)] /\ upd = [s \in Jobs |-> upd[s]]
  BY DEF ServiceInv, ServiceTypeOK, EngineTypeOK, ScannerTypeOK
<1>2. ASSUME NEW s \in Jobs, NEW a \in Statuses, NEW F,
             upd' = [upd EXCEPT ![s] = Update(a, F)],
             sent' = [sent EXCEPT ![s] = Append(@, a)]
      PROVE  LastReceived'
  <2>1. upd'[s].status = a /\ sent'[s] = Append(sent[s], a)
    BY <1>1, <1>2 DEF Update
  <2>2. sent'[s] # <<>> /\ Last(sent'[s]) = a
    BY <1>1, <2>1, LastAppend
  <2>3. \A t \in Jobs \ {s} : upd'[t] = upd[t] /\ sent'[t] = sent[t]
    BY <1>1, <1>2
  <2> QED
    BY <2>1, <2>2, <2>3 DEF LastReceived
<1>3. ASSUME NEW s \in Jobs, ReceiveFromWork(s) PROVE LastReceived'
  <2>1. cur[s] = s
    BY <1>3, OwnReport DEF ServiceInv, ReceiveFromWork
  <2> QED
    BY <1>2, <1>3, <2>1, StatusType DEF ReceiveFromWork, Send
<1>4. ASSUME NEW s \in Jobs, ReceiveReject(s) PROVE LastReceived'
  BY <1>2, <1>4 DEF ReceiveReject, SendReject, Statuses
<1>5. ASSUME UNCHANGED <<upd, sent>> PROVE LastReceived'
  BY <1>5 DEF LastReceived
<1> QED
  BY <1>3, <1>4, <1>5, SentIsReceived

-----------------------------------------------------------------------------
(* The row says what the handler knows.                                    *)

LEMMA SettledInit == ServiceInit => SettledInv
BY DEF ServiceInit, SettledInv

\* A scan whose row stays, or goes, and whose handler does not leave its three statements.
LEMMA Unsettled ==
  ASSUME SettledInv, NEW s \in Jobs, upd'[s] = upd[s], rows'[s] \in {rows[s], NoRow},
         handler'[s] \notin {"retrieve", "insert", "update"} =>
           handler[s] \notin {"retrieve", "insert", "update"} \/ rows[s] = NoRow
  PROVE  rows'[s] # NoRow /\ handler'[s] \notin {"retrieve", "insert", "update"} =>
           rows'[s].status = Known(s)'
BY DEF SettledInv, Known

LEMMA SettledNext ==
  ASSUME ~DBMayFail, ServiceInv, SettledInv, [ServiceNext]_serviceVars
  PROVE  SettledInv'
<1> DEFINE Fits(t) == rows'[t] # NoRow /\ handler'[t] \notin {"retrieve", "insert", "update"} =>
                        rows'[t].status = Known(t)'
<1> SUFFICES \A t \in Jobs : Fits(t)
  BY DEF SettledInv
<1>1. ASSUME NEW s \in Jobs, InsertScan(s) PROVE \A t \in Jobs : Fits(t)
  <2>1. UNCHANGED <<upd, handler>>
    BY <1>1 DEF InsertScan, handlerVars
  <2>2. \A t \in Jobs \ {s} : rows'[t] = rows[t]
    BY <1>1 DEF InsertScan, ServiceInv, ServiceTypeOK
  <2>3. rows'[s] = rows[s] \/ rows'[s] = QueuedRow
    BY <1>1 DEF InsertScan, ServiceInv, ServiceTypeOK
  <2>4. upd[s].status = "none"
    BY <1>1 DEF InsertScan, ServiceInv, OneScanInv, AddInv, ReceivedInv
  <2>5. Fits(s)
    BY <2>1, <2>3, <2>4, QueuedRowType, Unsettled DEF Known
  <2> QED
    BY <2>1, <2>2, <2>5, Unsettled
<1>2. ASSUME NEW s \in Jobs, ReceiveFromWork(s) \/ ReceiveReject(s)
      PROVE  \A t \in Jobs : Fits(t)
  <2>1. rows' = rows
    BY <1>2 DEF ReceiveFromWork, ReceiveReject, dbVars
  <2>2. cur[s] = s \/ ReceiveReject(s)
    BY <1>2, OwnReport DEF ServiceInv, ReceiveFromWork
  <2>3. handler'[s] = "retrieve" /\ \A t \in Jobs \ {s} : handler'[t] = handler[t] /\ upd'[t] = upd[t]
    BY <1>2, <2>2 DEF ServiceInv, ServiceTypeOK, ReceiveFromWork, ReceiveReject, GoTo
  <2> QED
    BY <2>1, <2>3, Unsettled
<1>3. ASSUME NEW s \in Jobs, StartHandler(s) \/ ReceiveCancel(s) \/ ExitHandler(s)
                              \/ RegisterJob(s)
      PROVE  \A t \in Jobs : Fits(t)
  <2>1. UNCHANGED <<rows, upd>>
    BY <1>3 DEF StartHandler, ReceiveCancel, ExitHandler, RegisterJob, dbVars
  <2>2. \A t \in Jobs \ {s} : handler'[t] = handler[t]
    BY <1>3 DEF ServiceInv, ServiceTypeOK, StartHandler, ReceiveCancel, ExitHandler, RegisterJob, GoTo
  <2>3. handler[s] \notin {"retrieve", "insert", "update"}
    BY <1>3 DEF StartHandler, ReceiveCancel, ExitHandler, RegisterJob, Receiving, ServiceInv,
       OneScanInv, AddInv
  <2> QED
    BY <2>1, <2>2, <2>3, Unsettled
<1>4. ASSUME NEW s \in Jobs, RetrieveScan(s) \/ InsertFindings(s) PROVE \A t \in Jobs : Fits(t)
  <2>1. UNCHANGED <<rows, upd>>
    BY <1>4 DEF RetrieveScan, InsertFindings, dbVars
  <2>2. \A t \in Jobs \ {s} : handler'[t] = handler[t]
    BY <1>4 DEF ServiceInv, ServiceTypeOK, RetrieveScan, InsertFindings, GoTo
  <2>3. handler'[s] \in {"insert", "update"} \/ rows[s] = NoRow
    BY <1>4 DEF ServiceInv, ServiceTypeOK, RetrieveScan, InsertFindings, AfterRetrieve, GoTo
  <2> QED
    BY <2>1, <2>2, <2>3, Unsettled
<1>5. ASSUME NEW s \in Jobs, UpdateScan(s) PROVE \A t \in Jobs : Fits(t)
  <2>1. upd' = upd /\ \A t \in Jobs \ {s} : handler'[t] = handler[t] /\ rows'[t] = rows[t]
    BY <1>5 DEF ServiceInv, ServiceTypeOK, UpdateScan, GoTo
  <2>2. \/ rows'[s] = rows[s] /\ rows[s] = NoRow
        \/ rows'[s] = newsr[s]
    BY <1>5 DEF ServiceInv, ServiceTypeOK, UpdateScan, UpdateFinds
  <2>3. newsr[s].status = Target(upd[s].status) /\ upd[s].status # "none"
    BY <1>5 DEF UpdateScan, ServiceInv, OneScanInv, StoredInv, ReceivedInv
  <2> QED
    BY <2>1, <2>2, <2>3, Unsettled DEF Known
<1>6. ASSUME NEW d \in Deleters, DeleteStep(d) PROVE \A t \in Jobs : Fits(t)
  <2>1. UNCHANGED <<handler, upd>>
    BY <1>6 DEF DeleteStep, DeleteFindings, DeleteRow, CancelRequest, SweepFindings, handlerVars
  <2>2. \A t \in Jobs : rows'[t] \in {rows[t], NoRow}
    BY <1>6 DEF ServiceInv, ServiceTypeOK, DeleteStep, DeleteFindings, DeleteRow, CancelRequest,
       SweepFindings, dbVars
  <2> QED
    BY <2>1, <2>2, Unsettled
<1>7. ASSUME UNCHANGED <<rows, handler, upd>> PROVE \A t \in Jobs : Fits(t)
  BY <1>7, Unsettled
<1>8. \/ \E s \in Jobs : \/ InsertScan(s) \/ RegisterJob(s) \/ ReceiveFromWork(s)
                         \/ ReceiveReject(s) \/ StartHandler(s) \/ ReceiveCancel(s)
                         \/ ExitHandler(s) \/ RetrieveScan(s) \/ InsertFindings(s)
                         \/ UpdateScan(s)
      \/ \E d \in Deleters : DeleteStep(d)
      \/ UNCHANGED <<rows, handler, upd>>
  BY DEF ServiceNext, HandlerStep, SubmitJob, BeginDelete, ReadScan, ReadFindings, CancelAll,
     StopEngine, CleanUpScanner, EngineStep, serviceVars, dbVars, handlerVars
<1> QED
  BY <1>1, <1>2, <1>3, <1>4, <1>5, <1>6, <1>7, <1>8

-----------------------------------------------------------------------------
(* A success is stored in full.                                            *)

\* Where Work stands once it has reported SUCCESS.
Reporting == {"dropDone", "release", "done"}

\* Work that has reported SUCCESS only returns, with what it found.
LEMMA WorkReturns ==
  ASSUME EngineInv,
         \/ \E j \in Jobs : AddJob(j) \/ ScannerStep(j)
         \/ ControllerStep \/ Stop \/ CleanUp,
         NEW s \in Jobs, work[s] \in Reporting
  PROVE  work'[s] \in Reporting /\ found'[s] = found[s]
<1>1. ASSUME NEW j \in Jobs, WorkStep(j) PROVE work'[s] \in Reporting /\ found'[s] = found[s]
  <2>1. CASE j # s
    BY <1>1, <2>1 DEF EngineInv, ScannerInv, ScannerTypeOK, WorkStep, AcquireToken, Lookup,
       MakeTempDir, CloneRepository, RemoveFromJobBoard, Scan, Verdict, ReleaseToken
  <2>2. CASE j = s
    <3>1. RemoveFromJobBoard(s) \/ ReleaseToken(s)
      BY <1>1, <2>2 DEF WorkStep, AcquireToken, Lookup, MakeTempDir, CloneRepository, Scan,
         Verdict, Reporting
    <3> QED
      BY <3>1 DEF EngineInv, ScannerInv, ScannerTypeOK, RemoveFromJobBoard, ReleaseToken,
         AfterDrop, Reporting, Dropping
  <2> QED
    BY <2>1, <2>2
<1>2. ASSUME NEW j \in Jobs, CheckBoardOpen(j) \/ AddToJobBoard(j)
      PROVE  work'[s] \in Reporting /\ found'[s] = found[s]
  <2>1. work[j] = "none"
    BY <1>2 DEF EngineInv, ScannerInv, StartedJobs, CheckBoardOpen, AddToJobBoard
  <2>2. found' = found /\ \A k \in Jobs \ {j} : work'[k] = work[k]
    BY <1>2 DEF EngineInv, ScannerInv, ScannerTypeOK, CheckBoardOpen, AddToJobBoard, Refuse
  <2> QED
    BY <2>1, <2>2 DEF Reporting
<1>3. \/ \E j \in Jobs : WorkStep(j) \/ CheckBoardOpen(j) \/ AddToJobBoard(j)
      \/ UNCHANGED <<work, found>>
  BY DEF AddJob, NewJob, ScannerStep, StopScan, ControllerStep, RunIncoming, RunCancelling,
     RunQuit, CallStartScan, CallStopScan, Stop, CleanUp, CloseBoard, ClearBoard,
     scannerVars, workVars, callVars
<1> QED
  BY <1>1, <1>2, <1>3

\* The three parts of CompleteInv for scan s.
WorkHasFound(s) ==
  upd[s].status = "SUCCESS" => work[s] \in Reporting /\ upd[s].findings = found[s]

AboutToSucceed(s) ==
  handler[s] = "update" /\ upd[s].status = "SUCCESS" /\ rows[s] # NoRow =>
    findings[s] = found[s]

StoredInFull(s) ==
  rows[s] # NoRow /\ rows[s].status = "SUCCESS" =>
    /\ findings[s] \in {found[s], {}}
    /\ findings[s] = found[s] \/ DeleteAt(s, {"row"})

LEMMA CompleteParts ==
  CompleteInv <=> \A s \in Jobs : WorkHasFound(s) /\ AboutToSucceed(s) /\ StoredInFull(s)
BY DEF CompleteInv, WorkHasFound, AboutToSucceed, StoredInFull, Reporting

\* Only the handler's knowledge makes a row a success.
LEMMA SuccessIsKnown ==
  ASSUME ServiceInv, SettledInv, NEW s \in Jobs, rows[s] # NoRow, rows[s].status = "SUCCESS"
  PROVE  upd[s].status = "SUCCESS" /\ handler[s] \notin {"retrieve", "insert", "update"}
<1>1. handler[s] \notin {"retrieve", "insert", "update"}
  BY DEF ServiceInv, ServiceTypeOK, OneScanInv, ReceivedInv, StoredInv, RowIn, From, Statuses
<1> QED
  BY <1>1 DEF SettledInv, Known, Target

LEMMA WorkHasFoundNext ==
  ASSUME ServiceInv, CompleteInv, [ServiceNext]_serviceVars, NEW t \in Jobs
  PROVE  WorkHasFound(t)'
<1> USE DEF WorkHasFound
<1>1. WorkHasFound(t)
  BY CompleteParts
<1>2. ASSUME NEW s \in Jobs, ReceiveFromWork(s) PROVE WorkHasFound(t)'
  <2>1. cur[s] = s
    BY <1>2, OwnReport DEF ServiceInv, ReceiveFromWork
  <2>2. /\ found' = found
        /\ \A u \in Jobs \ {s} : work'[u] = work[u] /\ upd'[u] = upd[u]
        /\ work'[s] = AfterSend(work[s])
        /\ upd'[s] = Update(StatusSent(work[s]), IF work[s] = "success" THEN found[s] ELSE {})
    BY <1>2, <2>1 DEF ServiceInv, ServiceTypeOK, EngineTypeOK, ScannerTypeOK, ReceiveFromWork, Send
  <2>3. upd'[s].status = "SUCCESS" => work[s] = "success"
    BY <2>2 DEF Update, StatusSent
  <2>4. upd'[s].status = "SUCCESS" => work'[s] = "dropDone" /\ upd'[s].findings = found[s]
    BY <2>2, <2>3 DEF Update, AfterSend
  <2> QED
    BY <1>1, <2>2, <2>4 DEF Reporting
<1>3. ASSUME NEW s \in Jobs, ReceiveReject(s) PROVE WorkHasFound(t)'
  <2>1. /\ UNCHANGED <<work, found>>
        /\ upd'[s].status = "FAILURE"
        /\ \A u \in Jobs \ {s} : upd'[u] = upd[u]
    BY <1>3 DEF ServiceInv, ServiceTypeOK, ReceiveReject, SendReject, Update, workVars
  <2> QED
    BY <1>1, <2>1
<1>4. ASSUME EngineStep PROVE WorkHasFound(t)'
  <2>1. upd' = upd
    BY <1>4 DEF EngineStep, handlerVars
  <2>2. work[t] \in Reporting => work'[t] \in Reporting /\ found'[t] = found[t]
    BY <1>4, WorkReturns DEF EngineStep, ServiceInv
  <2> QED
    BY <1>1, <2>1, <2>2
<1>5. ASSUME UNCHANGED <<upd, found, work>> PROVE WorkHasFound(t)'
  BY <1>1, <1>5
<1>6. \/ \E s \in Jobs : ReceiveFromWork(s) \/ ReceiveReject(s)
      \/ EngineStep
      \/ UNCHANGED <<upd, found, work>>
  BY DEF ServiceNext, InsertScan, SubmitJob, AddJob, NewJob, RegisterJob, HandlerStep,
     StartHandler, RetrieveScan, InsertFindings, UpdateScan, ReceiveCancel, ExitHandler,
     BeginDelete, DeleteStep, DeleteFindings, DeleteRow, CancelRequest, SweepFindings, ReadScan,
     ReadFindings, CancelAll, StopEngine, Stop, CleanUpScanner, CleanUp, CloseBoard, ClearBoard,
     serviceVars, engineVars, scannerVars, workVars, handlerVars
<1> QED
  BY <1>2, <1>3, <1>4, <1>5, <1>6

\* Work finds nothing more once the handler knows of its success.
LEMMA FoundStays ==
  ASSUME ServiceInv, CompleteInv, [ServiceNext]_serviceVars, NEW t \in Jobs,
         upd[t].status = "SUCCESS"
  PROVE  found'[t] = found[t]
<1>1. work[t] \in Reporting
  BY CompleteParts DEF WorkHasFound
<1>2. ASSUME EngineStep PROVE found'[t] = found[t]
  BY <1>1, <1>2, WorkReturns DEF EngineStep, ServiceInv
<1>3. EngineStep \/ found' = found
  BY DEF ServiceNext, InsertScan, SubmitJob, AddJob, NewJob, RegisterJob, HandlerStep,
     StartHandler, ReceiveFromWork, Send, ReceiveReject, SendReject, RetrieveScan,
     InsertFindings, UpdateScan, ReceiveCancel, ExitHandler, BeginDelete, DeleteStep,
     DeleteFindings, DeleteRow, CancelRequest, SweepFindings, ReadScan, ReadFindings, CancelAll,
     StopEngine, Stop, CleanUpScanner, CleanUp, CloseBoard, ClearBoard, serviceVars, engineVars,
     scannerVars, workVars
<1> QED
  BY <1>2, <1>3

\* What a DELETE does to the findings of scan t while its row is stored.
LEMMA DeleteOfStored ==
  ASSUME ServiceInv, NEW d \in Deleters, DeleteStep(d), NEW t \in Jobs, rows'[t] # NoRow
  PROVE  /\ rows'[t] = rows[t]
         /\ \/ findings'[t] = findings[t]
            \/ /\ findings'[t] = {} /\ rows[t].status = "SUCCESS"
               /\ DeleteAt(t, {"row"})'
<1>1. rows'[t] = rows[t]
  BY DEF ServiceInv, ServiceTypeOK, DeleteStep, DeleteFindings, DeleteRow, CancelRequest,
     SweepFindings, dbVars
<1>2. CASE findings' # findings /\ del[d].scan = t
  <2>1. ~SweepFindings(d)
    BY <1>1, <1>2 DEF SweepFindings, ServiceInv, DeleteInv
  <2>2. DeleteFindings(d)
    BY <1>2, <2>1 DEF DeleteStep, DeleteRow, CancelRequest, dbVars
  <2>3. findings'[t] = {} /\ DelGoTo(d, "row")
    BY <1>2, <2>2 DEF DeleteFindings, ServiceInv, ServiceTypeOK
  <2>4. del'[d] = [pc |-> "row", scan |-> t]
    BY <1>2, <2>3, DelGoToMoves DEF ServiceInv
  <2>5. rows[t].status = "SUCCESS"
    BY <1>1, <1>2, <2>2 DEF DeleteFindings, ServiceInv, DeleteInv, RowIn
  <2> QED
    BY <1>1, <2>3, <2>4, <2>5 DEF DeleteAt
<1>3. CASE findings' = findings \/ del[d].scan # t
  BY <1>1, <1>3 DEF ServiceInv, ServiceTypeOK, DeleteStep, DeleteFindings, DeleteRow,
     CancelRequest, SweepFindings, dbVars
<1> QED
  BY <1>2, <1>3

LEMMA AboutToSucceedNext ==
  ASSUME ~DBMayFail, ServiceInv, CompleteInv, [ServiceNext]_serviceVars, NEW t \in Jobs
  PROVE  AboutToSucceed(t)'
<1> USE DEF AboutToSucceed
<1>1. SUFFICES ASSUME handler'[t] = "update", upd'[t].status = "SUCCESS", rows'[t] # NoRow
               PROVE  findings'[t] = found'[t]
  OBVIOUS
<1>2. AboutToSucceed(t) /\ WorkHasFound(t)
  BY CompleteParts
<1>3. ASSUME upd'[t] = upd[t], rows'[t] = rows[t], handler'[t] = handler[t],
             findings'[t] = findings[t]
      PROVE  findings'[t] = found'[t]
  BY <1>1, <1>2, <1>3, FoundStays
<1>4. ASSUME NEW s \in Jobs, InsertScan(s) PROVE findings'[t] = found'[t]
  <2>1. UNCHANGED <<upd, handler, findings>>
    BY <1>4 DEF InsertScan, handlerVars
  <2>2. rows'[t] = rows[t] \/ handler[t] = "none"
    BY <1>4 DEF InsertScan, ServiceInv, ServiceTypeOK, OneScanInv, AddInv
  <2> QED
    BY <1>1, <1>3, <2>1, <2>2
<1>5. ASSUME NEW s \in Jobs, ReceiveFromWork(s) \/ ReceiveReject(s)
      PROVE  findings'[t] = found'[t]
  <2>1. UNCHANGED <<rows, findings>>
    BY <1>5 DEF ReceiveFromWork, ReceiveReject, dbVars
  <2>2. cur[s] = s \/ ReceiveReject(s)
    BY <1>5, OwnReport DEF ServiceInv, ReceiveFromWork
  <2>3. handler'[t] = "retrieve" \/ (handler'[t] = handler[t] /\ upd'[t] = upd[t])
    BY <1>5, <2>2 DEF ServiceInv, ServiceTypeOK, ReceiveFromWork, ReceiveReject, GoTo
  <2> QED
    BY <1>1, <1>3, <2>1, <2>3
<1>6. ASSUME NEW s \in Jobs, StartHandler(s) \/ ReceiveCancel(s) \/ ExitHandler(s)
                              \/ RegisterJob(s) \/ RetrieveScan(s)
      PROVE  findings'[t] = found'[t]
  <2>1. UNCHANGED <<rows, findings, upd>>
    BY <1>6 DEF StartHandler, ReceiveCancel, ExitHandler, RegisterJob, RetrieveScan, dbVars
  <2>2. handler'[t] = "update" => handler'[t] = handler[t] \/ upd[t].status # "SUCCESS"
    BY <1>6 DEF ServiceInv, ServiceTypeOK, StartHandler, ReceiveCancel, ExitHandler, RegisterJob,
       RetrieveScan, AfterRetrieve, GoTo
  <2> QED
    BY <1>1, <1>3, <2>1, <2>2
<1>7. ASSUME NEW s \in Jobs, InsertFindings(s) PROVE findings'[t] = found'[t]
  <2>1. UNCHANGED <<rows, upd>> /\ findings \in [Jobs -> SUBSET Findings]
    BY <1>7 DEF InsertFindings, ServiceInv, ServiceTypeOK
  <2>2. CASE s # t
    BY <1>3, <1>7, <2>1, <2>2 DEF InsertFindings, GoTo, ServiceInv, ServiceTypeOK
  <2>3. CASE s = t
    <3>1. findings[t] = {} /\ upd[t].findings = found[t]
      BY <1>1, <1>2, <1>7, <2>1, <2>3 DEF InsertFindings, ServiceInv, OneScanInv, FindingsInv,
         WorkHasFound
    <3>2. findings'[t] = findings[t] \union upd[t].findings
      BY <1>1, <1>7, <2>1, <2>3 DEF InsertFindings
    <3> QED
      BY <1>1, <2>1, <3>1, <3>2, FoundStays
  <2> QED
    BY <2>2, <2>3
<1>8. ASSUME NEW s \in Jobs, UpdateScan(s) PROVE findings'[t] = found'[t]
  <2>1. UNCHANGED <<findings, upd>>
    BY <1>8 DEF UpdateScan
  <2>2. s # t /\ handler'[t] = handler[t] /\ rows'[t] = rows[t]
    BY <1>1, <1>8 DEF UpdateScan, AfterUpdate, GoTo, ServiceInv, ServiceTypeOK
  <2> QED
    BY <1>3, <2>1, <2>2
<1>9. ASSUME NEW d \in Deleters, DeleteStep(d) PROVE findings'[t] = found'[t]
  <2>1. UNCHANGED <<handler, upd>>
    BY <1>9 DEF DeleteStep, DeleteFindings, DeleteRow, CancelRequest, SweepFindings, handlerVars
  <2>2. rows'[t] = rows[t] /\ rows[t].status # "SUCCESS"
    BY <1>1, <1>9, <2>1, DeleteOfStored DEF ServiceInv, OneScanInv, StoredInv, RowIn, From
  <2> QED
    BY <1>1, <1>3, <1>9, <2>1, <2>2, DeleteOfStored
<1>10. ASSUME UNCHANGED <<rows, findings, handler, upd>> PROVE findings'[t] = found'[t]
  BY <1>3, <1>10
<1>11. \/ \E s \in Jobs : \/ InsertScan(s) \/ RegisterJob(s) \/ ReceiveFromWork(s)
                          \/ ReceiveReject(s) \/ StartHandler(s) \/ ReceiveCancel(s)
                          \/ ExitHandler(s) \/ RetrieveScan(s) \/ InsertFindings(s)
                          \/ UpdateScan(s)
       \/ \E d \in Deleters : DeleteStep(d)
       \/ UNCHANGED <<rows, findings, handler, upd>>
  BY DEF ServiceNext, HandlerStep, SubmitJob, BeginDelete, ReadScan, ReadFindings, CancelAll,
     StopEngine, CleanUpScanner, EngineStep, serviceVars, dbVars, handlerVars
<1> QED
  BY <1>4, <1>5, <1>6, <1>7, <1>8, <1>9, <1>10, <1>11

LEMMA StoredInFullNext ==
  ASSUME ~DBMayFail, ServiceInv, SettledInv, CompleteInv, [ServiceNext]_serviceVars,
         NEW t \in Jobs
  PROVE  StoredInFull(t)'
<1> USE DEF StoredInFull
<1> DEFINE Goal == /\ findings'[t] \in {found'[t], {}}
                   /\ findings'[t] = found'[t] \/ DeleteAt(t, {"row"})'
<1>1. SUFFICES ASSUME rows'[t] # NoRow, rows'[t].status = "SUCCESS" PROVE Goal
  OBVIOUS
<1>2. StoredInFull(t) /\ WorkHasFound(t) /\ AboutToSucceed(t)
  BY CompleteParts
<1>3. ASSUME rows'[t] = rows[t]
      PROVE  upd[t].status = "SUCCESS" /\ handler[t] # "insert" /\ found'[t] = found[t]
  BY <1>1, <1>3, SuccessIsKnown, FoundStays
<1>4. ASSUME rows'[t] = rows[t], findings'[t] = findings[t], \A d \in Deleters : ~DeleteStep(d)
      PROVE  Goal
  <2>1. ASSUME DeleteAt(t, {"row"}) PROVE DeleteAt(t, {"row"})'
    <3>1. PICK d \in Deleters : del[d].scan = t /\ del[d].pc = "row"
      BY <2>1 DEF DeleteAt
    <3>2. \A s \in Jobs : ~BeginDelete(d, s)
      BY <3>1 DEF BeginDelete
    <3>3. del'[d] = del[d]
      BY <1>4, <3>2, DeleteMoves
    <3> QED
      BY <3>1, <3>3 DEF DeleteAt
  <2> QED
    BY <1>1, <1>2, <1>3, <1>4, <2>1
<1>5. ASSUME NEW s \in Jobs, InsertScan(s) PROVE Goal
  <2>1. rows'[t] = rows[t]
    BY <1>1, <1>5, QueuedRowType DEF InsertScan, ServiceInv, ServiceTypeOK
  <2>2. findings' = findings /\ del' = del
    BY <1>5 DEF InsertScan
  <2> QED
    BY <1>1, <1>2, <1>3, <2>1, <2>2 DEF DeleteAt
<1>6. ASSUME NEW s \in Jobs, InsertFindings(s) PROVE Goal
  <2>1. rows' = rows /\ del' = del
    BY <1>6 DEF InsertFindings, requestVars
  <2>2. handler[t] # "insert"
    BY <1>3, <2>1
  <2>3. findings'[t] = findings[t]
    BY <1>6, <2>2 DEF InsertFindings, ServiceInv, ServiceTypeOK
  <2> QED
    BY <1>1, <1>2, <1>3, <2>1, <2>3 DEF DeleteAt
<1>7. ASSUME NEW s \in Jobs, UpdateScan(s) PROVE Goal
  <2>1. findings' = findings /\ del' = del
    BY <1>7 DEF UpdateScan, requestVars
  <2>2. CASE rows'[t] = rows[t]
    BY <1>1, <1>2, <1>3, <2>1, <2>2 DEF DeleteAt
  <2>3. CASE s = t /\ rows[t] # NoRow /\ rows'[t] = newsr[t]
    <3>1. handler[t] = "update" /\ Target(upd[t].status) = "SUCCESS"
      BY <1>1, <1>7, <2>3 DEF UpdateScan, ServiceInv, OneScanInv, StoredInv
    <3>2. upd[t].status = "SUCCESS"
      BY <3>1 DEF Target
    <3> QED
      BY <1>2, <2>1, <2>3, <3>1, <3>2, FoundStays DEF AboutToSucceed
  <2> QED
    BY <1>7, <2>2, <2>3 DEF UpdateScan, UpdateFinds, ServiceInv, ServiceTypeOK
<1>8. ASSUME NEW d \in Deleters, DeleteStep(d) PROVE Goal
  <2>1. rows'[t] = rows[t] /\ found'[t] = found[t]
    BY <1>1, <1>3, <1>8, DeleteOfStored
  <2>2. CASE findings'[t] = {} /\ DeleteAt(t, {"row"})'
    BY <2>2
  <2>3. CASE findings'[t] = findings[t]
    <3>1. CASE findings[t] = found[t]
      BY <2>1, <2>3, <3>1
    <3>2. CASE findings[t] # found[t]
      <4>1. findings[t] = {} /\ DeleteAt(t, {"row"})
        BY <1>1, <1>2, <2>1, <3>2
      <4>2. PICK e \in Deleters : del[e].scan = t /\ del[e].pc = "row"
        BY <4>1 DEF DeleteAt
      <4>3. ~DeleteRow(e)
        BY <1>1, <2>1, <4>1, <4>2 DEF DeleteRow, RowDeletable, ServiceInv, ServiceTypeOK
      <4>4. ~DeleteStep(e)
        BY <4>2, <4>3 DEF DeleteStep, DeleteFindings, CancelRequest, SweepFindings
      <4>5. \A s \in Jobs : ~BeginDelete(e, s)
        BY <4>2 DEF BeginDelete
      <4>6. del'[e] = del[e]
        BY <4>4, <4>5, DeleteMoves
      <4> QED
        BY <2>3, <4>1, <4>2, <4>6 DEF DeleteAt
    <3> QED
      BY <3>1, <3>2
  <2> QED
    BY <1>1, <1>8, <2>2, <2>3, DeleteOfStored
<1>9. ASSUME UNCHANGED <<rows, findings>>, \A d \in Deleters : ~DeleteStep(d) PROVE Goal
  BY <1>4, <1>9
<1>10. \/ \E s \in Jobs : InsertScan(s) \/ InsertFindings(s) \/ UpdateScan(s)
       \/ \E d \in Deleters : DeleteStep(d)
       \/ UNCHANGED <<rows, findings>> /\ \A d \in Deleters : ~DeleteStep(d)
  BY DEF ServiceNext, HandlerStep, SubmitJob, RegisterJob, StartHandler, ReceiveFromWork,
     ReceiveReject, RetrieveScan, ReceiveCancel, ExitHandler, BeginDelete, ReadScan,
     ReadFindings, CancelAll, StopEngine, CleanUpScanner, EngineStep, serviceVars, dbVars
<1> QED
  BY <1>5, <1>6, <1>7, <1>8, <1>9, <1>10

LEMMA CompleteNext ==
  ASSUME ~DBMayFail, ServiceInv, SettledInv, CompleteInv, [ServiceNext]_serviceVars
  PROVE  CompleteInv'
<1>1. \A t \in Jobs : WorkHasFound(t)' /\ AboutToSucceed(t)' /\ StoredInFull(t)'
  BY WorkHasFoundNext, AboutToSucceedNext, StoredInFullNext
<1> QED
  BY <1>1 DEF CompleteInv, WorkHasFound, AboutToSucceed, StoredInFull, Reporting

LEMMA CompleteInit == ServiceInit => CompleteInv
BY DEF ServiceInit, CompleteInv, Update

-----------------------------------------------------------------------------
(* Every scan keeps its handler as long as it needs one.                   *)

LEMMA AttendedInit == ServiceInit => AttendedInv
BY DEF ServiceInit, AttendedInv

\* AttendedInv for scan t after a step.
AttendedGoal(t) ==
  /\ add'[t] = "done" => handler'[t] # "none"
  /\ handler'[t] = "start" => t \in active'
  /\ t \in active' \union cancel' => handler'[t] # "none"
  /\ t \in cancel' => rows'[t] = NoRow \/ cleanUp' # "no"
  /\ handler'[t] \in {"exit", "done"} =>
       rows'[t] = NoRow \/ cleanUp' # "no" \/ upd'[t].status \in Final

\* A row that is gone stays gone for a scan that has a handler or is cancelled.
LEMMA AttendedStutter ==
  ASSUME AttendedInv, NEW t \in Jobs,
         add'[t] = "done" => add[t] = "done",
         handler'[t] = handler[t], upd'[t] = upd[t],
         t \in active <=> t \in active',
         t \in cancel' => t \in cancel,
         cleanUp # "no" => cleanUp' # "no",
         rows[t] = NoRow /\ handler[t] # "none" => rows'[t] = NoRow
  PROVE  AttendedGoal(t)
BY DEF AttendedInv, AttendedGoal

LEMMA AttendedNext ==
  ASSUME ~DBMayFail, ServiceInv, AttendedInv, [ServiceNext]_serviceVars, NEW t \in Jobs
  PROVE  AttendedGoal(t)
<1>1. ASSUME NEW s \in Jobs, InsertScan(s) PROVE AttendedGoal(t)
  <2>1. UNCHANGED <<handler, upd, active, cancel, cleanUp>>
    BY <1>1 DEF InsertScan, handlerVars
  <2>2. add'[t] = "done" => add[t] = "done"
    BY <1>1 DEF InsertScan, ServiceInv, ServiceTypeOK
  <2>3. rows'[t] = rows[t] \/ handler[t] = "none"
    BY <1>1 DEF InsertScan, ServiceInv, ServiceTypeOK, OneScanInv, AddInv
  <2> QED
    BY <2>1, <2>2, <2>3, AttendedStutter
<1>2. ASSUME NEW s \in Jobs, SubmitJob(s) PROVE AttendedGoal(t)
  <2>1. UNCHANGED <<rows, handler, upd, active, cancel, cleanUp>>
    BY <1>2 DEF SubmitJob, dbVars, handlerVars
  <2>2. add'[t] = "done" => add[t] = "done"
    BY <1>2 DEF SubmitJob, ServiceInv, ServiceTypeOK
  <2> QED
    BY <2>1, <2>2, AttendedStutter
<1>3. ASSUME NEW s \in Jobs, RegisterJob(s) PROVE AttendedGoal(t)
  <2>1. UNCHANGED <<rows, upd, cancel, cleanUp>> /\ active' = active \union {s}
    BY <1>3 DEF RegisterJob, dbVars
  <2>2. CASE s # t
    <3>1. add'[t] = add[t] /\ handler'[t] = handler[t]
      BY <1>3, <2>2 DEF RegisterJob, ServiceInv, ServiceTypeOK
    <3>2. t \in active <=> t \in active'
      BY <2>1, <2>2
    <3> QED
      BY <2>1, <3>1, <3>2, AttendedStutter
  <2>3. CASE s = t
    <3>1. handler'[t] = "start"
      BY <1>3, <2>3 DEF RegisterJob, ServiceInv, ServiceTypeOK
    <3> QED
      BY <2>1, <2>3, <3>1 DEF AttendedInv, AttendedGoal
  <2> QED
    BY <2>2, <2>3
<1>4. ASSUME NEW s \in Jobs, ReceiveFromWork(s) \/ ReceiveReject(s) PROVE AttendedGoal(t)
  <2>1. UNCHANGED <<rows, add, active, cancel, cleanUp>>
    BY <1>4 DEF ReceiveFromWork, ReceiveReject, dbVars, requestVars
  <2>2. cur[s] = s \/ ReceiveReject(s)
    BY <1>4, OwnReport DEF ServiceInv, ReceiveFromWork
  <2>3. handler'[t] = "retrieve" \/ (handler'[t] = handler[t] /\ upd'[t] = upd[t])
    BY <1>4, <2>2 DEF ServiceInv, ServiceTypeOK, ReceiveFromWork, ReceiveReject, GoTo
  <2>4. CASE handler'[t] = "retrieve"
    BY <2>1, <2>4 DEF AttendedInv, AttendedGoal
  <2>5. CASE handler'[t] = handler[t] /\ upd'[t] = upd[t]
    BY <2>1, <2>5, AttendedStutter
  <2> QED
    BY <2>3, <2>4, <2>5
<1>5. ASSUME NEW s \in Jobs, StartHandler(s) PROVE AttendedGoal(t)
  <2>1. UNCHANGED <<rows, add, upd, active, cancel, cleanUp>>
    BY <1>5 DEF StartHandler, dbVars, requestVars
  <2>2. handler'[t] = handler[t] \/ handler'[t] = "select"
    BY <1>5 DEF StartHandler, AttendedInv, ServiceInv, ServiceTypeOK, GoTo
  <2>3. CASE handler'[t] = handler[t]
    BY <2>1, <2>3, AttendedStutter
  <2>4. CASE handler'[t] = "select"
    BY <2>1, <2>4 DEF AttendedInv, AttendedGoal
  <2> QED
    BY <2>2, <2>3, <2>4
<1>6. ASSUME NEW s \in Jobs, ReceiveCancel(s) PROVE AttendedGoal(t)
  <2>1. UNCHANGED <<rows, add, upd, active, cleanUp>> /\ cancel' = cancel \ {s} /\ s \in cancel
    BY <1>6 DEF ReceiveCancel, dbVars, requestVars
  <2>2. handler'[t] = handler[t] \/ (s = t /\ handler'[t] = "exit")
    BY <1>6 DEF ReceiveCancel, ServiceInv, ServiceTypeOK, GoTo
  <2>3. CASE handler'[t] = handler[t]
    BY <2>1, <2>3, AttendedStutter
  <2>4. CASE s = t /\ handler'[t] = "exit"
    BY <2>1, <2>4 DEF AttendedInv, AttendedGoal
  <2> QED
    BY <2>2, <2>3, <2>4
<1>7. ASSUME NEW s \in Jobs, RetrieveScan(s) \/ InsertFindings(s) PROVE AttendedGoal(t)
  <2>1. UNCHANGED <<rows, add, upd, active, cancel, cleanUp>>
    BY <1>7 DEF RetrieveScan, InsertFindings, dbVars, requestVars
  <2>2. \/ handler'[t] = handler[t]
        \/ handler'[t] \in {"insert", "update"}
        \/ handler'[t] = "exit" /\ rows[t] = NoRow
    BY <1>7 DEF RetrieveScan, InsertFindings, AfterRetrieve, ServiceInv, ServiceTypeOK, GoTo
  <2>3. CASE handler'[t] = handler[t]
    BY <2>1, <2>3, AttendedStutter
  <2>4. CASE handler'[t] \in {"insert", "update"} \/ (handler'[t] = "exit" /\ rows[t] = NoRow)
    BY <2>1, <2>4 DEF AttendedInv, AttendedGoal
  <2> QED
    BY <2>2, <2>3, <2>4
<1>8. ASSUME NEW s \in Jobs, UpdateScan(s) PROVE AttendedGoal(t)
  <2>1. UNCHANGED <<add, upd, active, cancel, cleanUp>>
    BY <1>8 DEF UpdateScan, requestVars
  <2>2. rows[t] = NoRow => rows'[t] = NoRow
    BY <1>8 DEF UpdateScan, UpdateFinds, ServiceInv, ServiceTypeOK
  <2>3. \/ s # t /\ handler'[t] = handler[t]
        \/ /\ s = t /\ handler[t] = "update"
           /\ \/ handler'[t] = AfterUpdate(upd[t].status)
              \/ handler'[t] = "exit" /\ rows[t] = NoRow
    BY <1>8 DEF UpdateScan, UpdateFinds, ServiceInv, ServiceTypeOK, GoTo
  <2>4. CASE handler'[t] = handler[t]
    BY <2>1, <2>2, <2>4, AttendedStutter
  <2>5. CASE handler[t] = "update" /\ handler'[t] = AfterUpdate(upd[t].status)
    <3>1. upd[t].status \in Statuses
      BY <2>5 DEF ServiceInv, ServiceTypeOK, OneScanInv, ReceivedInv
    <3>2. handler'[t] = "select" \/ (handler'[t] = "exit" /\ upd[t].status \in Final)
      BY <2>5, <3>1 DEF AfterUpdate, Final, Statuses
    <3> QED
      BY <2>1, <2>2, <3>2 DEF AttendedInv, AttendedGoal
  <2>6. CASE handler'[t] = "exit" /\ rows[t] = NoRow
    BY <2>1, <2>2, <2>6 DEF AttendedInv, AttendedGoal
  <2> QED
    BY <2>3, <2>4, <2>5, <2>6
<1>9. ASSUME NEW s \in Jobs, ExitHandler(s) PROVE AttendedGoal(t)
  <2>1. UNCHANGED <<rows, add, upd, cancel, cleanUp>> /\ active' = active \ {s}
    BY <1>9 DEF ExitHandler, dbVars, requestVars
  <2>2. CASE s # t
    <3>1. handler'[t] = handler[t]
      BY <1>9, <2>2 DEF ExitHandler, ServiceInv, ServiceTypeOK, GoTo
    <3> QED
      BY <2>1, <2>2, <3>1, AttendedStutter
  <2>3. CASE s = t
    <3>1. handler[t] = "exit" /\ handler'[t] = "done"
      BY <1>9, <2>3 DEF ExitHandler, ServiceInv, ServiceTypeOK, GoTo
    <3> QED
      BY <2>1, <3>1 DEF AttendedInv, AttendedGoal
  <2> QED
    BY <2>2, <2>3
<1>10. ASSUME NEW d \in Deleters, DeleteStep(d) PROVE AttendedGoal(t)
  <2>1. UNCHANGED <<add, handler, upd, active, cleanUp>>
    BY <1>10 DEF DeleteStep, DeleteFindings, DeleteRow, CancelRequest, SweepFindings, handlerVars,
       dbVars
  <2>2. rows[t] = NoRow => rows'[t] = NoRow
    BY <1>10 DEF DeleteStep, DeleteFindings, DeleteRow, CancelRequest, SweepFindings, dbVars,
       ServiceInv, ServiceTypeOK
  <2>3. CASE t \in cancel' => t \in cancel
    BY <2>1, <2>2, <2>3, AttendedStutter
  <2>4. CASE t \notin cancel /\ t \in cancel'
    <3>1. CancelRequest(d) /\ del[d].scan = t
      BY <1>10, <2>4 DEF DeleteStep, DeleteFindings, DeleteRow, CancelRequest, SweepFindings,
         handlerVars
    <3>2. rows[t] = NoRow /\ t \in active
      BY <2>4, <3>1 DEF CancelRequest, ServiceInv, DeleteInv
    <3> QED
      BY <2>1, <2>2, <3>2 DEF AttendedInv, AttendedGoal
  <2> QED
    BY <2>3, <2>4
<1>11. ASSUME CancelAll PROVE AttendedGoal(t)
  BY <1>11 DEF CancelAll, AttendedInv, AttendedGoal, requestVars
<1>12. ASSUME StopEngine PROVE AttendedGoal(t)
  BY <1>12, AttendedStutter DEF StopEngine, dbVars, requestVars
<1>13. ASSUME UNCHANGED <<add, rows, handler, upd, active, cancel, cleanUp>> PROVE AttendedGoal(t)
  BY <1>13, AttendedStutter
<1>14. \/ \E s \in Jobs : \/ InsertScan(s) \/ SubmitJob(s) \/ RegisterJob(s)
                          \/ ReceiveFromWork(s) \/ ReceiveReject(s) \/ StartHandler(s)
                          \/ ReceiveCancel(s) \/ RetrieveScan(s) \/ InsertFindings(s)
                          \/ UpdateScan(s) \/ ExitHandler(s)
       \/ \E d \in Deleters : DeleteStep(d)
       \/ CancelAll \/ StopEngine
       \/ UNCHANGED <<add, rows, handler, upd, active, cancel, cleanUp>>
  BY DEF ServiceNext, HandlerStep, BeginDelete, ReadScan, ReadFindings, CleanUpScanner,
     EngineStep, serviceVars, dbVars, handlerVars, requestVars
<1> QED
  BY <1>1, <1>2, <1>3, <1>4, <1>5, <1>6, <1>7, <1>8, <1>9, <1>10, <1>11, <1>12, <1>13, <1>14

-----------------------------------------------------------------------------
(* What holds of the service as long as the database works and no process  *)
(* is killed.                                                              *)

THEOREM ServiceSafe == ServiceSpec => []ServiceInv
BY ServiceIsRestart, RestartSafe, PTL

\* The inductive invariant.
ReportsInv == LastReceived /\ SettledInv /\ CompleteInv /\ AttendedInv

LEMMA ReportsInvNext ==
  ASSUME ~DBMayFail, ServiceInv, ReportsInv, [ServiceNext]_serviceVars
  PROVE  ReportsInv'
<1>1. LastReceived' /\ SettledInv' /\ CompleteInv'
  BY LastReceivedNext, SettledNext, CompleteNext DEF ReportsInv
<1>2. \A t \in Jobs : AttendedGoal(t)
  BY AttendedNext DEF ReportsInv
<1>3. AttendedInv'
  BY <1>2 DEF AttendedGoal, AttendedInv
<1> QED
  BY <1>1, <1>3 DEF ReportsInv

THEOREM ReportsSafe ==
  ASSUME ~DBMayFail
  PROVE  ServiceSpec => []ReportsInv
<1>1. ServiceInit => ReportsInv
  BY LastReceivedInit, SettledInit, CompleteInit, AttendedInit DEF ReportsInv
<1>2. ServiceInv /\ ReportsInv /\ [ServiceNext]_serviceVars => ReportsInv'
  BY ReportsInvNext
<1> QED
  BY <1>1, <1>2, ServiceSafe, PTL DEF ServiceSpec

\* Whenever the handler is not between receiving a report and storing it, the stored status
\* is the one reported last: no report is lost or overwritten by an older one.
THEOREM ServiceReports ==
  ASSUME ~DBMayFail
  PROVE  ServiceSpec => []RowFollowsReports
<1>1. ServiceInv /\ ReportsInv => RowFollowsReports
  <2> SUFFICES ASSUME ServiceInv, LastReceived, SettledInv, NEW s \in Jobs, rows[s] # NoRow,
                      handler[s] \notin {"retrieve", "insert", "update"}
               PROVE  rows[s].status = Reported(s)
    BY DEF ReportsInv, RowFollowsReports
  <2>1. rows[s].status = Known(s)
    BY DEF SettledInv
  <2>2. upd[s].status \in Statuses \union {"none"}
    BY DEF ServiceInv, ServiceTypeOK
  <2>3. upd[s].status = IF sent[s] = <<>> THEN "none" ELSE Last(sent[s])
    BY DEF LastReceived
  <2>4. sent[s] # <<>> => Last(sent[s]) \in Statuses
    BY DEF ServiceInv, ServiceTypeOK, EngineTypeOK, ScannerTypeOK, Last
  <2>5. CASE sent[s] = <<>>
    BY <2>1, <2>3, <2>5 DEF Known, Reported
  <2>6. CASE sent[s] # <<>>
    <3>1. upd[s].status = Last(sent[s]) /\ upd[s].status # "none"
      BY <2>3, <2>4, <2>6 DEF Statuses
    <3> QED
      BY <2>1, <2>6, <3>1 DEF Known, Target, Reported
  <2> QED
    BY <2>5, <2>6
<1> QED
  BY <1>1, ServiceSafe, ReportsSafe, PTL

\* A scan is SUCCESS only when all it found is stored, or a DELETE has begun to take it away.
THEOREM ServiceSucceeds ==
  ASSUME ~DBMayFail
  PROVE  ServiceSpec => []SuccessIsComplete
<1>1. ReportsInv => SuccessIsComplete
  BY DEF ReportsInv, CompleteInv, SuccessIsComplete
<1> QED
  BY <1>1, ReportsSafe, PTL

\* A scan that is not finished has a POST that is about to submit it, or a handler.
THEOREM ServiceAttends ==
  ASSUME ~DBMayFail, ~MayCleanUp
  PROVE  ServiceSpec => []UnfinishedIsAttended
<1>1. ServiceInit => cleanUp = "no"
  BY DEF ServiceInit
<1>2. cleanUp = "no" /\ [ServiceNext]_serviceVars => (cleanUp = "no")'
  BY DEF ServiceNext, InsertScan, SubmitJob, RegisterJob, HandlerStep, StartHandler,
     ReceiveFromWork, ReceiveReject, RetrieveScan, InsertFindings, UpdateScan, ReceiveCancel,
     ExitHandler, BeginDelete, DeleteStep, DeleteFindings, DeleteRow, CancelRequest,
     SweepFindings, ReadScan, ReadFindings, CancelAll, StopEngine, CleanUpScanner, EngineStep,
     serviceVars, handlerVars
<1>3. ServiceInv /\ ReportsInv /\ cleanUp = "no" => UnfinishedIsAttended
  <2> SUFFICES ASSUME ServiceInv, SettledInv, AttendedInv, cleanUp = "no", NEW s \in Jobs,
                      rows[s] # NoRow, rows[s].status \in {"QUEUED", "IN PROGRESS"},
                      add[s] \notin {"submit", "register"}
               PROVE  handler[s] \notin {"none", "exit", "done"}
    BY DEF ReportsInv, UnfinishedIsAttended
  <2>1. handler[s] # "none"
    BY DEF ServiceInv, ServiceTypeOK, OneScanInv, AddInv, AttendedInv
  <2>2. ASSUME handler[s] \in {"exit", "done"} PROVE FALSE
    <3>1. upd[s].status \in Final
      BY <2>2 DEF AttendedInv
    <3>2. rows[s].status = Known(s)
      BY <2>2 DEF SettledInv
    <3> QED
      BY <3>1, <3>2 DEF Known, Target, Final
  <2> QED
    BY <2>1, <2>2
<1> QED
  BY <1>1, <1>2, <1>3, ServiceSafe, ReportsSafe, PTL DEF ServiceSpec

\* A Work that blocks in a send while its handler has ended serves a deleted scan, or the
\* App is being cleaned up. Where TempDir fails, this is not so.
THEOREM ServiceStrands ==
  ASSUME ~DBMayFail, ~TmpMayFail
  PROVE  ServiceSpec => []OnlyDeletedScansStrand
<1>1. ServiceInit => UpdateProtocol /\ ReportsFollowWork /\ RefusedJobsReportOnce
  BY DEF ServiceInit, EngineInit, ScannerInit, UpdateProtocol, ReportsFollowWork,
     RefusedJobsReportOnce
<1>2. ServiceInv /\ UpdateProtocol /\ ReportsFollowWork /\ RefusedJobsReportOnce
        /\ [ServiceNext]_serviceVars
      => UpdateProtocol' /\ ReportsFollowWork' /\ RefusedJobsReportOnce'
  BY ReportInvNext, ServiceStepIsEngineStep, EngineStepIsScannerStep
     DEF ServiceInv, ReportInv, ReportGoal
<1>3. ServiceInv /\ ReportsInv /\ ReportsFollowWork => OnlyDeletedScansStrand
  <2> SUFFICES ASSUME ServiceInv, ReportsInv, ReportsFollowWork, NEW w \in Jobs,
                      work[w] \in Sending, handler[cur[w]] = "done"
               PROVE  rows[cur[w]] = NoRow \/ cleanUp # "no"
    BY DEF OnlyDeletedScansStrand
  <2>1. cur[w] = w
    BY OwnWorker, ScannerAssumption DEF ServiceInv, EngineInv, ScannerInv, CurrentJobs,
       WorkersServeTheirOwnJob, Holding, Sending
  <2>2. reject[w] = "none"
    BY DEF ServiceInv, RefusedJobsIdle, Sending
  <2>3. sent[w] \in {<<>>, <<"ONGOING">>}
    BY <2>2 DEF ReportsFollowWork, Sending
  <2>4. Last(<<"ONGOING">>) = "ONGOING"
    BY DEF Last
  <2>5. upd[w].status \notin Final
    BY <2>3, <2>4 DEF ReportsInv, LastReceived, Final
  <2> QED
    BY <2>1, <2>5 DEF ReportsInv, AttendedInv
<1> QED
  BY <1>1, <1>2, <1>3, ServiceSafe, ReportsSafe, PTL DEF ServiceSpec
=============================================================================
