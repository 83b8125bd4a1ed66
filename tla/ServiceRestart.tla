--------------------------- MODULE ServiceRestart ---------------------------
(***************************************************************************)
(* ScanService, with the process killed and started again.  Everything but *)
(* the database is in memory: App.Initialize builds the controller, the    *)
(* scanner and ActiveJobs anew and reads nothing back (src/go/app.go), and *)
(* the stores find their tables as they were left.  A statement that was   *)
(* under way has been committed or not.                                    *)
(***************************************************************************)
EXTENDS ScanService

\* EngineInit again. found and sent are histories and stay: no goroutine is left to read them.
RestartEngine ==
  /\ id'         = [j \in Jobs |-> NoId]
  /\ board'      = [i \in Ids |-> NoJob]
  /\ phase'      = "open"
  /\ tokens'     = 0
  /\ start'      = [j \in Jobs |-> "none"]
  /\ stop'       = [j \in Jobs |-> "none"]
  /\ reject'     = [j \in Jobs |-> "none"]
  /\ work'       = [w \in Jobs |-> "none"]
  /\ cur'        = [w \in Jobs |-> NoJob]
  /\ nextJobId'  = 0
  /\ incoming'   = {}
  /\ cancelling' = {}
  /\ quit'       = "no"
  /\ UNCHANGED <<found, sent>>

\* Requests under way end without an answer; for a POST that is after the row was inserted.
DropRequests ==
  /\ add' = [s \in Jobs |-> IF add[s] \in {"submit", "register"} THEN "done" ELSE add[s]]
  /\ del' = [d \in Deleters |->
               IF del[d].pc \in {"findings", "row", "cancel", "sweep"}
               THEN [del[d] EXCEPT !.pc = "error"] ELSE del[d]]
  /\ get' = [r \in Readers |->
               IF get[r].pc = "list" THEN [get[r] EXCEPT !.pc = "error"] ELSE get[r]]

Crash ==
  /\ RestartEngine
  /\ active'  = {}
  /\ handler' = [s \in Jobs |-> "none"]
  /\ upd'     = [s \in Jobs |-> Update("none", {})]
  /\ newsr'   = [s \in Jobs |-> NoRow]
  /\ cancel'  = {}
  /\ cleanUp' = "no"
  /\ DropRequests
  /\ UNCHANGED dbVars

RestartNext == ServiceNext \/ Crash

RestartSpec == ServiceInit /\ [][RestartNext]_serviceVars

=============================================================================
