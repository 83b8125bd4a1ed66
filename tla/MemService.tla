----------------------------- MODULE MemService -----------------------------
(***************************************************************************)
(* The users of MemStores: callers that do as they like, or a scan:        *)
(* ScanRequestHandler (src/go/app.go) stores what the job reports while a  *)
(* DELETE (src/go/api_scans.go) removes the scan.  ScanService.tla has the *)
(* same two on PostgreSQL, with the engine; here the job's reports are any *)
(* it can send.  The scan has been created, under id 1.                    *)
(***************************************************************************)
EXTENDS MemStores

CONSTANTS Handler, Deleter   \* the two goroutines

VARIABLES
  report,   \* the handler's jupd.Status
  handler,  \* where the handler stands, "none" without a scan
  del,      \* where the DELETE stands
  flag,     \* a goroutine is blocked in CancelFlag <- true
  overlap   \* history: the row was removed while the handler was storing a report

handlerVars == <<report, handler, del, flag, overlap>>
memServiceVars == <<memVars, handlerVars>>

ASSUME MemServiceAssumption ==
  /\ Procs = Callers \union {Handler, Deleter}
  /\ Callers \intersect {Handler, Deleter} = {} /\ Handler # Deleter
  /\ Vals = {"QUEUED", "IN PROGRESS", "SUCCESS", "FAILURE"}

\* The scan is there, and its handler waits for the first report.
ScanInit ==
  /\ TableInit(1, "QUEUED")
  /\ store = "scans"
  /\ nextId = 2
  /\ findings = [i \in Ids |-> {}]
  /\ handler = "select"

MemServiceInit ==
  /\ (MemInit /\ handler = "none") \/ ScanInit
  /\ report = "none"
  /\ del = "none"
  /\ flag = FALSE
  /\ overlap = FALSE

\* A call of the store, when the caller's last one has returned.
Call(p, c) == call' = [call EXCEPT ![p] = c]

RetrieveCall == [Idle EXCEPT !.pc = "lookup", !.op = "retrieve", !.id = 1]
DeleteCall == [Idle EXCEPT !.pc = "lookup", !.op = "delete", !.id = 1]
UpdateCall(status) ==
  [Idle EXCEPT !.pc = "lookup", !.op = "update", !.id = 1,
               !.val = IF status = "ONGOING" THEN "IN PROGRESS" ELSE status]

Unstored == UNCHANGED <<rows, total, drift, raced, store, nextId>>

\* case jupd := <-sj.Job.Result, and the call of Retrieve.
ReceiveReport(status) ==
  /\ handler = "select"
  /\ status \in IF report = "none" THEN {"ONGOING", "FAILURE"} ELSE {"SUCCESS", "FAILURE"}
  /\ report' = status
  /\ handler' = "retrieve"
  /\ Call(Handler, RetrieveCall)
  /\ Unstored /\ UNCHANGED <<findings, del, flag, overlap>>

\* An error of Retrieve ends the handler.
Retrieved ==
  /\ handler = "retrieve"
  /\ \/ /\ At(Handler, "retrieve", "ok")
        /\ IF report = "SUCCESS"
           THEN handler' = "insert" /\ UNCHANGED call
           ELSE handler' = "update" /\ Call(Handler, UpdateCall(report))
     \/ /\ At(Handler, "retrieve", "missing")
        /\ handler' = "done"
        /\ UNCHANGED call
  /\ Unstored /\ UNCHANGED <<findings, report, del, flag, overlap>>

StoreFindings ==
  /\ handler = "insert"
  /\ InsertFindings(1, Findings)
  /\ handler' = "update"
  /\ Call(Handler, UpdateCall(report))
  /\ Unstored /\ UNCHANGED <<report, del, flag, overlap>>

\* The loop goes on after ONGOING; an error of Update ends the handler too.
Updated ==
  /\ handler = "update"
  /\ \/ /\ At(Handler, "update", "ok")
        /\ handler' = IF report = "ONGOING" THEN "select" ELSE "done"
     \/ /\ At(Handler, "update", "missing")
        /\ handler' = "done"
  /\ Unstored /\ UNCHANGED <<call, findings, report, del, flag, overlap>>

ReceiveCancel ==
  /\ handler = "select"
  /\ flag
  /\ flag' = FALSE
  /\ handler' = "done"
  /\ Unstored /\ UNCHANGED <<call, findings, report, del, overlap>>

-----------------------------------------------------------------------------

BeginDeleteScan ==
  /\ handler # "none"
  /\ del = "none"
  /\ del' = "delete"
  /\ Call(Deleter, DeleteCall)
  /\ Unstored /\ UNCHANGED <<findings, report, handler, flag, overlap>>

\* 404 and 500 are all that happens on an error.
ScanDeleted ==
  /\ del = "delete"
  /\ Ended(Deleter)
  /\ del' = IF At(Deleter, "delete", "ok") THEN "cancel" ELSE "error"
  /\ Unstored /\ UNCHANGED <<call, findings, report, handler, flag, overlap>>

\* RemoveScanRequest finds the entry until the handler ends.
CancelScan ==
  /\ del = "cancel"
  /\ del' = "sweep"
  /\ flag' = (handler # "done")
  /\ Unstored /\ UNCHANGED <<call, findings, report, handler, overlap>>

\* Mutant: the findings are left to Delete, as on PostgreSQL.
SweepNothing ==
  /\ del = "sweep"
  /\ del' = "done"
  /\ Unstored /\ UNCHANGED <<call, findings, report, handler, flag, overlap>>

\* Delete of memdb leaves the findings alone: this is where they go.
SweepFindings ==
  /\ del = "sweep"
  /\ del' = "done"
  /\ DeleteFindings(1)
  /\ Unstored /\ UNCHANGED <<call, report, handler, flag, overlap>>

\* A step of the call under way.
ServiceCall(p) ==
  /\ handler # "none"
  /\ TableStep(p)
  /\ overlap' = (overlap \/ (rows'[1] = Absent /\ rows[1] # Absent
                             /\ handler \in {"retrieve", "insert", "update"}))
  /\ UNCHANGED <<ownVars, report, handler, del, flag>>

MemServiceNext ==
  \/ \E status \in {"ONGOING", "SUCCESS", "FAILURE"} : ReceiveReport(status)
  \/ Retrieved \/ StoreFindings \/ Updated \/ ReceiveCancel
  \/ BeginDeleteScan \/ ScanDeleted \/ CancelScan \/ SweepFindings
  \/ ServiceCall(Handler) \/ ServiceCall(Deleter)
  \/ handler = "none" /\ CallersNext /\ UNCHANGED handlerVars

MemServiceSpec == MemServiceInit /\ [][MemServiceNext]_memServiceVars

-----------------------------------------------------------------------------
(* Properties.                                                             *)

Gone == rows[1] = Absent /\ findings[1] = {}

\* A DELETE whose row went while the handler was not storing anything leaves nothing, also
\* when a report arrives while the DELETE goes on, and when the flag is never received.
QuietDeleteIsWhole == del = "done" /\ ~overlap => Gone
=============================================================================
