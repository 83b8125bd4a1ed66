---------------------------- MODULE ScanService ----------------------------
(***************************************************************************)
(* The App around the engine: the handlers of POST scan, GET scan and      *)
(* DELETE scan (src/go/api_scans.go), the registry ActiveJobs with the     *)
(* goroutine ScanRequestHandler of every scan (src/go/app.go), and the     *)
(* PostgreSQL store (src/go/store_scans_psql.go).  Composed with Engine:   *)
(* scan s runs as job s.  One SQL statement or committed transaction is    *)
(* one step, as is one access to ActiveJobs under its lock.                *)
(*                                                                         *)
(* The App uses of the controller only AddJob, and Stop when it is cleaned *)
(* up at the end of main: it never calls RemoveJob.                        *)
(***************************************************************************)
EXTENDS Engine, SequencesExt

CONSTANTS
  Deleters,   \* the DELETE requests
  Readers,    \* the GET requests
  NoRow,      \* no such row
  DBMayFail,  \* a statement may fail and change nothing, and a query break off between rows
  MayCleanUp  \* the server may fail, so that main calls App.CleanUp

\* A scans row: its status, and which of scanningAt and finishedAt are not NULL.
DbRows == [status : {"QUEUED", "IN PROGRESS", "SUCCESS", "FAILURE"},
           times : SUBSET {"scanning", "finished"}]

ASSUME ServiceAssumption ==
  /\ {DBMayFail, MayCleanUp} \subseteq BOOLEAN
  /\ NoRow \notin DbRows

VARIABLES
  add,       \* add[s]: where the request that creates scan s stands
  rows,      \* rows[s]: the row of table scans under id s, or NoRow
  findings,  \* findings[s]: the rows of table findings with scanId s
  active,    \* the keys of App.ActiveJobs
  handler,   \* handler[s]: where ScanRequestHandler(s) stands
  upd,       \* upd[s]: its local jupd
  newsr,     \* newsr[s]: its local newsr
  cancel,    \* the scans with goroutines blocked in CancelFlag <- true
  cleanUp,   \* "no", or how far App.CleanUp has come
  del,       \* del[d]: where request d stands, and the scan it deletes
  get        \* get[r]: where request r stands, its scan, and what it has read of it

dbVars      == <<rows, findings>>
handlerVars == <<active, handler, upd, newsr, cancel, cleanUp>>
requestVars == <<add, del, get>>
serviceVars == <<engineVars, dbVars, handlerVars, requestVars>>

Row(status, times) == [status |-> status, times |-> times]
QueuedRow == Row("QUEUED", {})

Update(status, F) == [status |-> status, findings |-> F]

\* Mutant: the record is built anew instead of cloned from the stored one.
NewRecordForgets(row, status) ==
  CASE status = "ONGOING" -> Row("IN PROGRESS", {"scanning"})
    [] status = "FAILURE" -> Row("FAILURE", {"finished"})
    [] status = "SUCCESS" -> Row("SUCCESS", {"finished"})

\* Mutant: ONGOING sets the time of the scan and not its status.
NewRecordStaysQueued(row, status) ==
  CASE status = "ONGOING" -> Row(row.status, row.times \union {"scanning"})
    [] status = "FAILURE" -> Row("FAILURE", row.times \union {"finished"})
    [] status = "SUCCESS" -> Row("SUCCESS", row.times \union {"finished"})

\* Mutant: the job's status is stored as it comes.
NewRecordCopiesStatus(row, status) ==
  Row(status, row.times \union {IF status = "ONGOING" THEN "scanning" ELSE "finished"})

\* The clone of the stored record, with a time and a status set.
NewRecord(row, status) ==
  CASE status = "ONGOING" -> Row("IN PROGRESS", row.times \union {"scanning"})
    [] status = "FAILURE" -> Row("FAILURE", row.times \union {"finished"})
    [] status = "SUCCESS" -> Row("SUCCESS", row.times \union {"finished"})

\* Mutant: a success stores no findings.
AfterRetrieveNoFindings(status) == "update"

AfterRetrieve(status) == IF status = "SUCCESS" THEN "insert" ELSE "update"

\* Mutant: the handler ends after the first update.
AfterUpdateStops(status) == "exit"

\* Mutant: the findings are stored once more after the status.
AfterUpdateInserts(status) ==
  CASE status = "ONGOING" -> "select"
    [] status = "SUCCESS" -> "insert"
    [] OTHER              -> "exit"

\* Mutant: the handler does not end with its scan.
AfterUpdateGoesOn(status) == "select"

\* The loop goes on while the local active is true.
AfterUpdate(status) == IF status = "ONGOING" THEN "select" ELSE "exit"

\* Mutant: Update inserts the row it does not find.
UpdateUpserts(s) == TRUE

\* UPDATE ... WHERE id=$6 affects a row.
UpdateFinds(s) == rows[s] # NoRow

\* Mutant: table findings does not refer to table scans.
RowDeletableUnreferenced(s) == rows[s] # NoRow

\* scanId REFERENCES scans(id): a row that findings refer to cannot be deleted.
RowDeletable(s) == rows[s] # NoRow /\ findings[s] = {}

\* Where the handler receives from Result.
Receiving(s) == handler[s] = "select"

ServiceInit ==
  /\ EngineInit
  /\ add      = [s \in Jobs |-> "none"]
  /\ rows     = [s \in Jobs |-> NoRow]
  /\ findings = [s \in Jobs |-> {}]
  /\ active   = {}
  /\ handler  = [s \in Jobs |-> "none"]
  /\ upd      = [s \in Jobs |-> Update("none", {})]
  /\ newsr    = [s \in Jobs |-> NoRow]
  /\ cancel   = {}
  /\ cleanUp  = "no"
  /\ del      = [d \in Deleters |-> [pc |-> "none", scan |-> NoJob]]
  /\ get      = [r \in Readers |-> [pc |-> "none", scan |-> NoJob, row |-> NoRow, findings |-> {}]]

-----------------------------------------------------------------------------
(* POST scan: AddScan.                                                     *)

\* The repository exists; its record is copied. The scan's id is new.
InsertScan(s) ==
  /\ add[s] = "none"
  /\ \/ /\ add'  = [add EXCEPT ![s] = "submit"]
        /\ rows' = [rows EXCEPT ![s] = QueuedRow]
     \/ /\ DBMayFail
        /\ add' = [add EXCEPT ![s] = "failed"]
        /\ UNCHANGED rows
  /\ UNCHANGED <<engineVars, findings, handlerVars, del, get>>

\* AddScanRequest, the call of AddJob.
SubmitJob(s) ==
  /\ add[s] = "submit"
  /\ add' = [add EXCEPT ![s] = "register"]
  /\ AddJob(s)
  /\ UNCHANGED <<dbVars, handlerVars, del, get>>

\* The rest of AddScanRequest, under ActiveJobsLock; it spawns ScanRequestHandler.
RegisterJob(s) ==
  /\ add[s] = "register"
  /\ add'     = [add EXCEPT ![s] = "done"]
  /\ active'  = active \union {s}
  /\ handler' = [handler EXCEPT ![s] = "start"]
  /\ UNCHANGED <<engineVars, dbVars, upd, newsr, cancel, cleanUp, del, get>>

-----------------------------------------------------------------------------
(* ScanRequestHandler.                                                     *)

GoTo(s, pc) == handler' = [handler EXCEPT ![s] = pc]

StartHandler(s) ==
  /\ handler[s] = "start"
  /\ GoTo(s, IF s \in active THEN "select" ELSE "done")
  /\ UNCHANGED <<engineVars, dbVars, active, upd, newsr, cancel, cleanUp, requestVars>>

\* case jupd := <-sj.Job.Result: the send of w, or of a refused job's goroutine, completes.
ReceiveFromWork(w) ==
  /\ work[w] \in Sending
  /\ LET s == cur[w]
     IN  /\ Receiving(s)
         /\ GoTo(s, "retrieve")
         /\ upd' = [upd EXCEPT ![s] =
              Update(StatusSent(work[w]), IF work[w] = "success" THEN found[w] ELSE {})]
  /\ Send(w)
  /\ UNCHANGED <<controllerVars, dbVars, active, newsr, cancel, cleanUp, requestVars>>

ReceiveReject(s) ==
  /\ Receiving(s)
  /\ GoTo(s, "retrieve")
  /\ upd' = [upd EXCEPT ![s] = Update("FAILURE", {})]
  /\ SendReject(s)
  /\ UNCHANGED <<controllerVars, dbVars, active, newsr, cancel, cleanUp, requestVars>>

RetrieveScan(s) ==
  /\ handler[s] = "retrieve"
  /\ \/ /\ rows[s] # NoRow
        /\ newsr' = [newsr EXCEPT ![s] = NewRecord(rows[s], upd[s].status)]
        /\ GoTo(s, AfterRetrieve(upd[s].status))
     \/ /\ rows[s] = NoRow \/ DBMayFail
        /\ GoTo(s, "exit")
        /\ UNCHANGED newsr
  /\ UNCHANGED <<engineVars, dbVars, active, upd, cancel, cleanUp, requestVars>>

\* InsertFindings is one transaction. Without a scans row the foreign key refuses it; an
\* error is only logged.
InsertFindings(s) ==
  /\ handler[s] = "insert"
  /\ GoTo(s, "update")
  /\ \/ /\ rows[s] # NoRow
        /\ findings' = [findings EXCEPT ![s] = @ \union upd[s].findings]
     \/ /\ rows[s] = NoRow \/ DBMayFail
        /\ UNCHANGED findings
  /\ UNCHANGED <<engineVars, rows, active, upd, newsr, cancel, cleanUp, requestVars>>

UpdateScan(s) ==
  /\ handler[s] = "update"
  /\ \/ /\ UpdateFinds(s)
        /\ rows' = [rows EXCEPT ![s] = newsr[s]]
        /\ GoTo(s, AfterUpdate(upd[s].status))
     \/ /\ ~UpdateFinds(s) \/ DBMayFail
        /\ GoTo(s, "exit")
        /\ UNCHANGED rows
  /\ newsr' = [newsr EXCEPT ![s] = NoRow]
  /\ UNCHANGED <<engineVars, findings, active, upd, cancel, cleanUp, requestVars>>

\* case <-sj.CancelFlag.
ReceiveCancel(s) ==
  /\ Receiving(s)
  /\ s \in cancel
  /\ cancel' = cancel \ {s}
  /\ GoTo(s, "exit")
  /\ UNCHANGED <<engineVars, dbVars, active, upd, newsr, cleanUp, requestVars>>

ExitHandler(s) ==
  /\ handler[s] = "exit"
  /\ active' = active \ {s}
  /\ GoTo(s, "done")
  /\ UNCHANGED <<engineVars, dbVars, upd, newsr, cancel, cleanUp, requestVars>>

-----------------------------------------------------------------------------
(* App.CleanUp, when the server has failed.                                *)

\* Under ActiveJobsLock: one goroutine per entry sends to its CancelFlag.
CancelAll ==
  /\ MayCleanUp
  /\ cleanUp = "no"
  /\ cleanUp' = "cancelled"
  /\ cancel'  = cancel \union active
  /\ UNCHANGED <<engineVars, dbVars, active, handler, upd, newsr, requestVars>>

StopEngine ==
  /\ cleanUp = "cancelled"
  /\ cleanUp' = "stopped"
  /\ Stop
  /\ UNCHANGED <<dbVars, active, handler, upd, newsr, cancel, requestVars>>

CleanUpScanner ==
  /\ cleanUp = "stopped"
  /\ CleanUp
  /\ UNCHANGED <<dbVars, handlerVars, requestVars>>

-----------------------------------------------------------------------------
(* DELETE scan: DeleteScan, with ScanStore.Delete inlined.                 *)

DelGoTo(d, pc) == del' = [del EXCEPT ![d].pc = pc]

\* Retrieve, in Delete: only the findings of a SUCCESS are deleted. Its error is ignored.
BeginDelete(d, s) ==
  /\ del[d].pc = "none"
  /\ add[s] # "none"
  /\ \/ /\ rows[s] # NoRow
        /\ del' = [del EXCEPT ![d] =
             [pc |-> IF rows[s].status = "SUCCESS" THEN "findings" ELSE "row", scan |-> s]]
     \/ /\ rows[s] = NoRow \/ DBMayFail
        /\ del' = [del EXCEPT ![d] = [pc |-> "row", scan |-> s]]
  /\ UNCHANGED <<engineVars, dbVars, handlerVars, add, get>>

DeleteFindings(d) ==
  /\ del[d].pc = "findings"
  /\ \/ /\ findings' = [findings EXCEPT ![del[d].scan] = {}]
        /\ DelGoTo(d, "row")
     \/ /\ DBMayFail
        /\ DelGoTo(d, "error")
        /\ UNCHANGED findings
  /\ UNCHANGED <<engineVars, rows, handlerVars, add, get>>

\* DELETE FROM scans: no row is 404, a row that findings refer to is an error.
DeleteRow(d) ==
  LET s == del[d].scan
  IN  /\ del[d].pc = "row"
      /\ \/ /\ RowDeletable(s)
            /\ rows' = [rows EXCEPT ![s] = NoRow]
            /\ DelGoTo(d, "cancel")
         \/ /\ rows[s] = NoRow
            /\ DelGoTo(d, "notFound")
            /\ UNCHANGED rows
         \/ /\ (rows[s] # NoRow /\ ~RowDeletable(s)) \/ DBMayFail
            /\ DelGoTo(d, "error")
            /\ UNCHANGED rows
      /\ UNCHANGED <<engineVars, findings, handlerVars, add, get>>

\* RemoveScanRequest: a goroutine sends to the CancelFlag of the entry it read.
CancelRequest(d) ==
  /\ del[d].pc = "cancel"
  /\ cancel' = IF del[d].scan \in active THEN cancel \union {del[d].scan} ELSE cancel
  /\ DelGoTo(d, "sweep")
  /\ UNCHANGED <<engineVars, dbVars, active, handler, upd, newsr, cleanUp, add, get>>

\* DeleteFindings once more, its error ignored.
SweepFindings(d) ==
  /\ del[d].pc = "sweep"
  /\ DelGoTo(d, "done")
  /\ \/ findings' = [findings EXCEPT ![del[d].scan] = {}]
     \/ DBMayFail /\ UNCHANGED findings
  /\ UNCHANGED <<engineVars, rows, handlerVars, add, get>>

-----------------------------------------------------------------------------
(* GET scan: GetScan, its two reads.                                       *)

ReadScan(r, s) ==
  /\ get[r].pc = "none"
  /\ add[s] # "none"
  /\ \/ /\ rows[s] # NoRow
        /\ get' = [get EXCEPT ![r] = [@ EXCEPT !.pc = "list", !.scan = s, !.row = rows[s]]]
     \/ /\ rows[s] = NoRow \/ DBMayFail
        /\ get' = [get EXCEPT ![r] = [@ EXCEPT !.pc = "notFound", !.scan = s]]
  /\ UNCHANGED <<engineVars, dbVars, handlerVars, add, del>>

\* ListFindings does not ask for rows.Err: when the connection breaks off between two rows,
\* what was read so far is its result and is answered like any other. "cut" says so; the
\* program cannot tell.
ReadFindings(r) ==
  /\ get[r].pc = "list"
  /\ \/ get' = [get EXCEPT ![r].pc = "done", ![r].findings = findings[get[r].scan]]
     \/ /\ DBMayFail
        /\ \/ get' = [get EXCEPT ![r].pc = "error"]
           \/ \E some \in SUBSET findings[get[r].scan] :
                get' = [get EXCEPT ![r].pc = "cut", ![r].findings = some]
  /\ UNCHANGED <<engineVars, dbVars, handlerVars, add, del>>

-----------------------------------------------------------------------------

\* The engine's steps that the App takes no part in.
EngineStep ==
  /\ ControllerStep \/ \E j \in Jobs : ScannerStep(j)
  /\ UNCHANGED <<dbVars, handlerVars, requestVars>>

HandlerStep(s) ==
  \/ StartHandler(s) \/ ReceiveFromWork(s) \/ ReceiveReject(s) \/ RetrieveScan(s)
  \/ InsertFindings(s) \/ UpdateScan(s) \/ ReceiveCancel(s) \/ ExitHandler(s)

DeleteStep(d) ==
  DeleteFindings(d) \/ DeleteRow(d) \/ CancelRequest(d) \/ SweepFindings(d)

ServiceNext ==
  \/ \E s \in Jobs : InsertScan(s) \/ SubmitJob(s) \/ RegisterJob(s) \/ HandlerStep(s)
  \/ \E d \in Deleters : (\E s \in Jobs : BeginDelete(d, s)) \/ DeleteStep(d)
  \/ \E r \in Readers : (\E s \in Jobs : ReadScan(r, s)) \/ ReadFindings(r)
  \/ CancelAll \/ StopEngine \/ CleanUpScanner
  \/ EngineStep

ServiceSpec == ServiceInit /\ [][ServiceNext]_serviceVars

\* Every goroutine that can run is scheduled, and every statement returns. Clients owe
\* nothing: they need not send another request.
ServiceFairness ==
  /\ \A s \in Jobs :
       /\ WF_serviceVars(SubmitJob(s) \/ RegisterJob(s))
       /\ WF_serviceVars(RunIncoming(s) /\ EngineStep)
       /\ WF_serviceVars(ScannerStep(s) /\ EngineStep)
       /\ WF_serviceVars(HandlerStep(s))
  /\ \A d \in Deleters : WF_serviceVars(DeleteStep(d))

ServiceFairSpec == ServiceSpec /\ ServiceFairness

-----------------------------------------------------------------------------
(* Properties.                                                             *)

\* Every variable has its type; enum_status bounds the statuses stored.
ServiceTypeOK ==
  /\ EngineTypeOK
  /\ add \in [Jobs -> {"none", "failed", "submit", "register", "done"}]
  /\ rows \in [Jobs -> DbRows \union {NoRow}]
  /\ findings \in [Jobs -> SUBSET Findings]
  /\ active \subseteq Jobs
  /\ handler \in [Jobs -> {"none", "start", "select", "retrieve", "insert", "update",
                           "exit", "done"}]
  /\ upd \in [Jobs -> [status : Statuses \union {"none"}, findings : SUBSET Findings]]
  /\ newsr \in [Jobs -> DbRows \union {NoRow}]
  /\ cancel \subseteq Jobs
  /\ cleanUp \in {"no", "cancelled", "stopped"}
  /\ del \in [Deleters -> [pc : {"none", "findings", "row", "cancel", "sweep", "done",
                                "notFound", "error"},
                          scan : Jobs \union {NoJob}]]
  /\ get \in [Readers -> [pc : {"none", "list", "done", "cut", "notFound", "error"},
                         scan : Jobs \union {NoJob},
                         row : DbRows \union {NoRow}, findings : SUBSET Findings]]

\* A request that deletes scan s and stands at one of these points.
DeleteAt(s, pcs) == \E d \in Deleters : del[d].scan = s /\ del[d].pc \in pcs

\* A DELETE that removed the row is final: the handler, which may be between Retrieve and
\* Update or about to insert findings, brings neither the row nor findings back.
DeletedStaysDeleted ==
  \A s \in Jobs : DeleteAt(s, {"cancel", "sweep", "done"}) =>
    rows[s] = NoRow /\ findings[s] = {}

\* The stored times fit the stored status: a scan in progress has started and not finished,
\* a successful one has done both, a failed one has finished.
TimesMatchStatus ==
  \A s \in Jobs : rows[s] # NoRow =>
    rows[s].times \in
      CASE rows[s].status = "QUEUED"      -> {{}}
        [] rows[s].status = "IN PROGRESS" -> {{"scanning"}}
        [] rows[s].status = "SUCCESS"     -> {{"scanning", "finished"}}
        [] rows[s].status = "FAILURE"     -> {{"finished"}, {"scanning", "finished"}}

\* Without database errors, a scan is SUCCESS only when all it found is stored: the
\* findings are inserted before the status. Only a DELETE that has removed the findings
\* and is about to remove the row may come between; one that ended in an error has
\* removed nothing.
SuccessIsComplete ==
  \A s \in Jobs :
    rows[s] # NoRow /\ rows[s].status = "SUCCESS" =>
      findings[s] = found[s] \/ DeleteAt(s, {"row"})

\* A GET reads the scan and its findings in two statements. When it answers SUCCESS it
\* shows the findings that are stored for good, unless a DELETE got in between: nothing is
\* stored for a scan that is already SUCCESS. When the database broke off, where ListFindings
\* should return "nil and an error", some are missing, and none is shown that is not stored.
GetShowsStoredResult ==
  \A r \in Readers :
    get[r].pc \in {"done", "cut"} /\ get[r].row.status = "SUCCESS" =>
      \/ get[r].findings = findings[get[r].scan]
      \/ get[r].pc = "cut" /\ get[r].findings \subseteq findings[get[r].scan]
      \/ DeleteAt(get[r].scan, {"row", "cancel", "sweep", "done", "error"})

\* What a job reports last, as a status of the stored scan.
Reported(s) ==
  IF sent[s] = <<>> THEN "QUEUED"
  ELSE IF Last(sent[s]) = "ONGOING" THEN "IN PROGRESS" ELSE Last(sent[s])

\* Without database errors, whenever the handler is not between receiving an update and
\* storing it, the stored status is the one the engine reported last: no report is lost or
\* overwritten by an older one.
RowFollowsReports ==
  \A s \in Jobs :
    rows[s] # NoRow /\ handler[s] \notin {"retrieve", "insert", "update"} =>
      rows[s].status = Reported(s)

\* Without database errors, a worker blocked in a send has a receiver, or will have one,
\* unless the scan was deleted or the whole App is being cleaned up.
OnlyDeletedScansStrand ==
  \A w \in Jobs :
    work[w] \in Sending /\ handler[cur[w]] = "done" =>
      rows[cur[w]] = NoRow \/ cleanUp # "no"

\* "the current execution status of this scan": without database errors, a scan shown as
\* QUEUED or IN PROGRESS has a request that is about to submit it or a handler that follows
\* it and will change its status.
UnfinishedIsAttended ==
  \A s \in Jobs :
    rows[s] # NoRow /\ rows[s].status \in {"QUEUED", "IN PROGRESS"} =>
      add[s] \in {"submit", "register"} \/ handler[s] \notin {"none", "exit", "done"}

\* What the API shows of scan s.
ShownStatus(s) ==
  CASE rows[s] # NoRow               -> rows[s].status
    [] add[s] \in {"none", "failed"} -> "unknown"
    [] OTHER                         -> "deleted"

Lifecycle ==
  INSTANCE ScanLifecycle WITH Scans <- Jobs, Findings <- Findings,
    status <- [s \in Jobs |-> ShownStatus(s)], results <- findings

\* The service implements the lifecycle the API promises, with database errors and
\* concurrent requests.
ImplementsLifecycle == Lifecycle!Spec

Final == {"SUCCESS", "FAILURE"}

\* Some scan was deleted. Its worker may strand and keep its token for ever.
AnyDeleted == \E s \in Jobs : add[s] \notin {"none", "failed"} /\ rows[s] = NoRow

\* As long as no scan is deleted, every scan reaches a final status, although all of them
\* compete for tokens, and whatever becomes of DELETEs the database refuses.
ScansFinish ==
  \A s \in Jobs :
    (rows[s] # NoRow) ~> ((rows[s] # NoRow /\ rows[s].status \in Final) \/ AnyDeleted)

\* ActiveJobs does not grow forever: the handler of every scan ends, again unless a deleted
\* scan keeps the token it waits for.
RegistryDrains == \A s \in Jobs : (s \in active) ~> (s \notin active \/ AnyDeleted)

\* DELETE /scan/{id}: "Deleting an incomplete scan will cancel it." Whatever became of its
\* job when it was deleted, the job's Work goroutine ends.
DeletedScanIsCancelled ==
  \A s \in Jobs : (add[s] = "done" /\ rows[s] = NoRow) ~> (work[s] = "done")

\* "The goroutines for processing new scans will block until previously executing scans
\* are completed": a scan that executes completes and gives its token back.
ExecutingScansComplete == \A w \in Jobs : (work[w] \in Holding) ~> (work[w] = "done")
=============================================================================
