------------------------------- MODULE Engine -------------------------------
(***************************************************************************)
(* The engine package: Controller (src/engine/controller.go) over Scanner. *)
(* AddJob and RemoveJob hand the job to a goroutine that blocks in a send  *)
(* on Incoming or Cancelling; the Run loop receives one message at a time  *)
(* and spawns a goroutine for StartScan or StopScan, so neither the order  *)
(* of the messages nor that of the two goroutines is fixed.                *)
(*                                                                         *)
(* The user of the engine is open: it adds jobs, removes any of them at    *)
(* any time, stops the controller, cleans the scanner up, and receives     *)
(* from the Result channels.                                               *)
(***************************************************************************)
EXTENDS Scanner

VARIABLES
  nextJobId,  \* the id generateJobIds offers next on the nextJobId channel
  incoming,   \* the jobs whose goroutine is blocked in Incoming <- job
  cancelling, \* the jobs whose goroutine is blocked in Cancelling <- job
  quit        \* "no"; "sending" while Stop's goroutine is blocked; "received" is QuitFlag

controllerVars == <<nextJobId, incoming, cancelling, quit>>
engineVars == <<scannerVars, controllerVars>>

\* generateJobIds counts in uint64 from 0. The counter is bounded by the number of jobs a
\* model builds, so it does not wrap.
ASSUME EngineAssumption == Ids \subseteq Nat

QuitFlag == quit = "received"

ControllerInit ==
  /\ nextJobId  = 0
  /\ incoming   = {}
  /\ cancelling = {}
  /\ quit       = "no"

EngineInit == ScannerInit /\ ControllerInit

\* Mutant: the generator offers the same id again.
SameJobId(n) == n

SuccJobId(n) == n + 1

\* Takes the next id, builds the Job and spawns the goroutine that sends it to Incoming.
AddJob(j) ==
  /\ nextJobId \in Ids
  /\ NewJob(j, nextJobId)
  /\ nextJobId' = SuccJobId(nextJobId)
  /\ incoming'  = incoming \union {j}
  /\ UNCHANGED <<cancelling, quit>>

\* Spawns the goroutine that sends the job to Cancelling; a user removes a job once.
RemoveJob(j) ==
  /\ id[j] # NoId
  /\ j \notin cancelling
  /\ stop[j] = "none"
  /\ cancelling' = cancelling \union {j}
  /\ UNCHANGED <<scannerVars, nextJobId, incoming, quit>>

\* Spawns the goroutine that sends to Quit; the controller is stopped once.
Stop ==
  /\ quit = "no"
  /\ quit' = "sending"
  /\ UNCHANGED <<scannerVars, nextJobId, incoming, cancelling>>

\* Run loops while QuitFlag is not set.
Running == ~QuitFlag

\* RunOnce, the three cases of its select.
RunIncoming(j) ==
  /\ Running
  /\ j \in incoming
  /\ incoming' = incoming \ {j}
  /\ CallStartScan(j)
  /\ UNCHANGED <<nextJobId, cancelling, quit>>

RunCancelling(j) ==
  /\ Running
  /\ j \in cancelling
  /\ cancelling' = cancelling \ {j}
  /\ CallStopScan(j)
  /\ UNCHANGED <<nextJobId, incoming, quit>>

RunQuit ==
  /\ Running
  /\ quit = "sending"
  /\ quit' = "received"
  /\ UNCHANGED <<scannerVars, nextJobId, incoming, cancelling>>

-----------------------------------------------------------------------------

\* The engine's own goroutines.
ControllerStep ==
  \/ \E j \in Jobs : RunIncoming(j) \/ RunCancelling(j)
  \/ RunQuit

ScannerStep(j) ==
  /\ CheckBoardOpen(j) \/ AddToJobBoard(j) \/ StopScan(j) \/ WorkStep(j)
  /\ UNCHANGED controllerVars

\* A receiver of a Result channel meets the sender.
Deliver(j) == (SendReject(j) \/ Send(j)) /\ UNCHANGED controllerVars

CleanUp == (CloseBoard \/ ClearBoard) /\ UNCHANGED controllerVars

EngineNext ==
  \/ \E j \in Jobs :
       AddJob(j) \/ RemoveJob(j) \/ ScannerStep(j) \/ Deliver(j)
  \/ ControllerStep
  \/ Stop
  \/ CleanUp

EngineSpec == EngineInit /\ [][EngineNext]_engineVars

\* Every goroutine that can run is scheduled, select picks a ready case at random, and the
\* owner of a job keeps receiving from its Result channel. Users owe nothing else.
EngineFairness ==
  /\ \A j \in Jobs :
       /\ WF_engineVars(RunIncoming(j))
       /\ WF_engineVars(RunCancelling(j))
       /\ WF_engineVars(ScannerStep(j))
       /\ WF_engineVars(Deliver(j))
  /\ WF_engineVars(RunQuit)

EngineFairSpec == EngineSpec /\ EngineFairness

-----------------------------------------------------------------------------
(* Properties.                                                             *)

\* The controller's variables have their types.
EngineTypeOK ==
  /\ ScannerTypeOK
  /\ nextJobId \in Nat
  /\ incoming \subseteq Jobs
  /\ cancelling \subseteq Jobs
  /\ quit \in {"no", "sending", "received"}

\* Work finds its job by id after it waited for a token, and by then anything may have
\* happened to the board. It never picks up another job than the one it was spawned for.
WorkersServeTheirOwnJob ==
  \A w \in Jobs : cur[w] \in {w, NoJob}

\* What a receiver of a Result channel relies on (ScanRequestHandler stops at the first
\* FAILURE or SUCCESS): ONGOING first, then one final status and nothing after it; a job
\* the closed board refused sends FAILURE alone. TestScannerWorksOnRealJob and
\* TestScannerWorksOnRealJobNotFoundUrl check one order each, without cancellation.
UpdateProtocol ==
  \A j \in Jobs :
    sent[j] \in {<<>>, <<"FAILURE">>, <<"ONGOING">>,
                 <<"ONGOING", "FAILURE">>, <<"ONGOING", "SUCCESS">>}

\* AddJob's ids keep duplicates off the board: only a scanner that is being cleaned up
\* refuses a job.
OnlyClosedBoardRefuses ==
  \A j \in Jobs : reject[j] # "none" => phase # "open"

\* A job on the Incoming channel is eventually worked off, cancelled or not, unless the
\* controller is stopped: tokens come back, and no goroutine waits forever.
JobsComplete ==
  \A j \in Jobs : (j \in incoming) ~> (work[j] = "done" \/ QuitFlag)

\* Whatever is cancelled, stopped or cleaned up meanwhile, a Work goroutine that waits for
\* a token gets one and ends, as long as the receivers keep receiving.
WorkersEnd == \A w \in Jobs : (work[w] = "token") ~> (work[w] = "done")

\* RemoveJob: "No further data should be expected from the results channel." Here already
\* weakened to a job whose StopScan has run to its end, and to a scanner that still works.
NoDataAfterStopScan ==
  [][\A j \in Jobs : stop[j] = "done" /\ phase = "open" => sent'[j] = sent[j]]_engineVars

\* CleanUp: "Close and clear the job board". Once it has run, the board stays empty.
CleanBoardStaysEmpty == phase = "cleared" => \A i \in Ids : board[i] = NoJob
=============================================================================
