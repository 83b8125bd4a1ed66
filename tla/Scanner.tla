------------------------------ MODULE Scanner ------------------------------
(***************************************************************************)
(* The scan engine's Scanner (src/engine/scanner.go): the job board, the   *)
(* token channel that limits parallel work, and the goroutines StartScan,  *)
(* StopScan and Work run in.  One step of the model is one access to       *)
(* shared state: a board operation under jobBoardLock, a channel operation *)
(* or the unlocked read of jobBoardOpen; local computation belongs to the  *)
(* step before or after it.                                                *)
(*                                                                         *)
(* The environment is open.  Anybody may build a Job with any Id, start    *)
(* and stop it, and a send on a job's Result channel may complete whenever *)
(* the sender has reached it.  Engine.tla and ScanService.tla restrict     *)
(* this environment, so an invariant shown here holds in both.             *)
(***************************************************************************)
EXTENDS Naturals, Sequences, FiniteSets

CONSTANTS
  Jobs,         \* the *engine.Job values that are ever built
  Ids,          \* the values of Job.Id
  NoId, NoJob,  \* the Id of a job not built yet, the nil *Job
  Findings,     \* what a scan can find in a repository
  Limit,        \* scannerLimit, the capacity of the tokens channel
  Noop,         \* the scanner neither downloads nor reads a repository
  CloneMayFail, \* CloneRepository may return an error
  TmpMayFail    \* ioutil.TempDir may return an error

ASSUME ScannerAssumption ==
  /\ Limit \in Nat \ {0}
  /\ NoId \notin Ids
  /\ NoJob \notin Jobs
  /\ {Noop, CloneMayFail, TmpMayFail} \subseteq BOOLEAN

VARIABLES
  id,       \* id[j]: Job.Id, or NoId
  board,    \* board[i]: the job under key i of jobBoard, or NoJob
  phase,    \* "open" while jobBoardOpen; CleanUp makes it "closed", then "cleared"
  tokens,   \* the number of elements in the tokens channel
  start,    \* start[j]: the goroutine that runs StartScan(j)
  stop,     \* stop[j]: the goroutine that runs StopScan(j)
  reject,   \* reject[j]: the goroutine StartScan spawns to send FAILURE
  work,     \* work[w]: where the goroutine Work(id[w]) stands; StartScan(w) spawned it
  cur,      \* cur[w]: Work's local j, the job it reports to
  found,    \* found[w]: Work's local findings
  sent      \* sent[j]: the statuses that went through j.Result, oldest first

boardVars   == <<board, phase>>
callVars    == <<id, start, stop, reject>>
workVars    == <<tokens, work, cur, found>>
scannerVars == <<id, board, phase, tokens, start, stop, reject, work, cur, found, sent>>

Statuses == {"ONGOING", "FAILURE", "SUCCESS"}

\* Where Work blocks in a send on j.Result.
Sending == {"ongoing", "failTmp", "failClone", "success"}

\* Where Work is about to call removeFromJobBoard.
Dropping == {"dropTmp", "dropClone", "dropDone"}

\* Where Work owns a token: after s.tokens <- and before the deferred <-s.tokens.
Holding == {"lookup", "mkdir", "clone", "scan", "verdict", "release"}
             \union Sending \union Dropping

WorkPc == Holding \union {"none", "token", "done"}

Holders == {w \in Jobs : work[w] \in Holding}

\* Mutant: the engine reports the status the API shows.
StatusSentAsShown(pc) ==
  CASE pc = "ongoing" -> "IN PROGRESS"
    [] pc = "success" -> "SUCCESS"
    [] OTHER          -> "FAILURE"

StatusSent(pc) ==
  CASE pc = "ongoing" -> "ONGOING"
    [] pc = "success" -> "SUCCESS"
    [] OTHER          -> "FAILURE"

\* Mutant: Work ends without removeFromJobBoard.
AfterSendKeepsEntry(pc) ==
  CASE pc = "ongoing"   -> IF Noop THEN "scan" ELSE "mkdir"
    [] pc = "failTmp"   -> "dropTmp"
    [] pc = "failClone" -> "dropClone"
    [] OTHER            -> "release"

\* Mutant: endJobWithFailure does not call removeFromJobBoard.
AfterSendKeepsFailed(pc) ==
  CASE pc = "ongoing"   -> IF Noop THEN "scan" ELSE "mkdir"
    [] pc = "failTmp"   -> "clone"
    [] pc = "failClone" -> "scan"
    [] OTHER            -> "dropDone"

AfterSend(pc) ==
  CASE pc = "ongoing"   -> IF Noop THEN "scan" ELSE "mkdir"
    [] pc = "failTmp"   -> "dropTmp"
    [] pc = "failClone" -> "dropClone"
    [] OTHER            -> "dropDone"

\* Mutant: a path through Work that skips the deferred <-s.tokens.
AfterDropKeepsToken(pc) ==
  CASE pc = "dropTmp"   -> "clone"
    [] pc = "dropClone" -> "scan"
    [] OTHER            -> "done"

\* endJobWithFailure returns to the line after its call: a failed TempDir is followed by
\* CloneRepository, a failed clone by the cancellation check.
AfterDrop(pc) ==
  CASE pc = "dropTmp"   -> "clone"
    [] pc = "dropClone" -> "scan"
    [] OTHER            -> "release"

ScannerInit ==
  /\ id     = [j \in Jobs |-> NoId]
  /\ board  = [i \in Ids |-> NoJob]
  /\ phase  = "open"
  /\ tokens = 0
  /\ start  = [j \in Jobs |-> "none"]
  /\ stop   = [j \in Jobs |-> "none"]
  /\ reject = [j \in Jobs |-> "none"]
  /\ work   = [j \in Jobs |-> "none"]
  /\ cur    = [j \in Jobs |-> NoJob]
  /\ found  = [j \in Jobs |-> {}]
  /\ sent   = [j \in Jobs |-> <<>>]

-----------------------------------------------------------------------------
(* Callers.                                                                *)

\* A caller builds a Job{Id: i}.
NewJob(j, i) ==
  /\ id[j] = NoId
  /\ id' = [id EXCEPT ![j] = i]
  /\ UNCHANGED <<boardVars, workVars, start, stop, reject, sent>>

\* go scanHandler.StartScan(j); a job is started once.
CallStartScan(j) ==
  /\ id[j] # NoId
  /\ start[j] = "none"
  /\ start' = [start EXCEPT ![j] = "called"]
  /\ UNCHANGED <<boardVars, workVars, id, stop, reject, sent>>

\* go scanHandler.StopScan(j); a job is stopped at most once.
CallStopScan(j) ==
  /\ id[j] # NoId
  /\ stop[j] = "none"
  /\ stop' = [stop EXCEPT ![j] = "called"]
  /\ UNCHANGED <<boardVars, workVars, id, start, reject, sent>>

-----------------------------------------------------------------------------
(* The job board.                                                          *)

\* addToJobBoard returned an error: a goroutine reports FAILURE, and Work starts all the same.
Refuse(j) ==
  /\ start'  = [start EXCEPT ![j] = "done"]
  /\ reject' = [reject EXCEPT ![j] = "sending"]
  /\ work'   = [work EXCEPT ![j] = "token"]

\* StartScan calls addToJobBoard, which reads jobBoardOpen without the lock.
CheckBoardOpen(j) ==
  /\ start[j] = "called"
  /\ \/ /\ phase = "open"
        /\ start' = [start EXCEPT ![j] = "add"]
        /\ UNCHANGED <<reject, work>>
     \/ /\ phase # "open"
        /\ Refuse(j)
  /\ UNCHANGED <<boardVars, id, stop, tokens, cur, found, sent>>

\* The rest of addToJobBoard, under the lock, and of StartScan.
AddToJobBoard(j) ==
  /\ start[j] = "add"
  /\ \/ /\ board[id[j]] = NoJob
        /\ board' = [board EXCEPT ![id[j]] = j]
        /\ start' = [start EXCEPT ![j] = "done"]
        /\ work'  = [work EXCEPT ![j] = "token"]
        /\ UNCHANGED reject
     \/ /\ board[id[j]] # NoJob
        /\ Refuse(j)
        /\ UNCHANGED board
  /\ UNCHANGED <<phase, id, stop, tokens, cur, found, sent>>

\* StopScan removes whatever the board holds under the job's id.
StopScan(j) ==
  /\ stop[j] = "called"
  /\ stop'  = [stop EXCEPT ![j] = "done"]
  /\ board' = [board EXCEPT ![id[j]] = NoJob]
  /\ UNCHANGED <<phase, workVars, id, start, reject, sent>>

\* CleanUp: jobBoardOpen = false, without the lock.
CloseBoard ==
  /\ phase = "open"
  /\ phase' = "closed"
  /\ UNCHANGED <<board, callVars, workVars, sent>>

\* CleanUp, under the lock: every entry is deleted.
ClearBoard ==
  /\ phase = "closed"
  /\ phase' = "cleared"
  /\ board' = [i \in Ids |-> NoJob]
  /\ UNCHANGED <<callVars, workVars, sent>>

\* The goroutine of a refused job hands FAILURE to the receiver of j.Result.
SendReject(j) ==
  /\ reject[j] = "sending"
  /\ reject' = [reject EXCEPT ![j] = "sent"]
  /\ sent'   = [sent EXCEPT ![j] = Append(@, "FAILURE")]
  /\ UNCHANGED <<boardVars, workVars, id, start, stop>>

-----------------------------------------------------------------------------
(* Work(id[w]).                                                            *)

\* s.tokens <- struct{}{} blocks while the channel is full.
AcquireToken(w) ==
  /\ work[w] = "token"
  /\ tokens < Limit
  /\ tokens' = tokens + 1
  /\ work'   = [work EXCEPT ![w] = "lookup"]
  /\ UNCHANGED <<boardVars, callVars, cur, found, sent>>

\* j := getFromJobBoard(id); a nil j means the job was cancelled.
Lookup(w) ==
  /\ work[w] = "lookup"
  /\ cur'  = [cur EXCEPT ![w] = board[id[w]]]
  /\ work' = [work EXCEPT ![w] = IF board[id[w]] = NoJob THEN "release" ELSE "ongoing"]
  /\ UNCHANGED <<boardVars, callVars, tokens, found, sent>>

\* A send on the unbuffered j.Result completes: the receiver has the update.
Send(w) ==
  /\ work[w] \in Sending
  /\ work' = [work EXCEPT ![w] = AfterSend(work[w])]
  /\ sent' = [sent EXCEPT ![cur[w]] = Append(@, StatusSent(work[w]))]
  /\ UNCHANGED <<boardVars, callVars, tokens, cur, found>>

\* ioutil.TempDir.
MakeTempDir(w) ==
  /\ work[w] = "mkdir"
  /\ \/ work' = [work EXCEPT ![w] = "clone"]
     \/ TmpMayFail /\ work' = [work EXCEPT ![w] = "failTmp"]
  /\ UNCHANGED <<boardVars, callVars, tokens, cur, found, sent>>

\* CloneRepository, with an empty checkoutDir when TempDir failed.
CloneRepository(w) ==
  /\ work[w] = "clone"
  /\ \/ work' = [work EXCEPT ![w] = "scan"]
     \/ CloneMayFail /\ work' = [work EXCEPT ![w] = "failClone"]
  /\ UNCHANGED <<boardVars, callVars, tokens, cur, found, sent>>

\* endJobWithFailure and the last line of Work call removeFromJobBoard.
RemoveFromJobBoard(w) ==
  /\ work[w] \in Dropping
  /\ board' = [board EXCEPT ![id[cur[w]]] = NoJob]
  /\ work'  = [work EXCEPT ![w] = AfterDrop(work[w])]
  /\ UNCHANGED <<phase, callVars, tokens, cur, found, sent>>

\* The cancellation check before the scan, and FindSecrets.
Scan(w) ==
  /\ work[w] = "scan"
  /\ \/ /\ board[id[w]] = NoJob
        /\ work' = [work EXCEPT ![w] = "release"]
        /\ UNCHANGED found
     \/ /\ board[id[w]] # NoJob
        /\ work' = [work EXCEPT ![w] = "verdict"]
        /\ \E F \in SUBSET Findings : found' = [found EXCEPT ![w] = F]
  /\ UNCHANGED <<boardVars, callVars, tokens, cur, sent>>

\* The cancellation check before the results are sent.
Verdict(w) ==
  /\ work[w] = "verdict"
  /\ work' = [work EXCEPT ![w] = IF board[id[w]] = NoJob THEN "release" ELSE "success"]
  /\ UNCHANGED <<boardVars, callVars, tokens, cur, found, sent>>

\* Work returns; the deferred receive gives the token back.
ReleaseToken(w) ==
  /\ work[w] = "release"
  /\ tokens' = tokens - 1
  /\ work'   = [work EXCEPT ![w] = "done"]
  /\ UNCHANGED <<boardVars, callVars, cur, found, sent>>

-----------------------------------------------------------------------------

\* The steps of Work that need no partner.
WorkStep(w) ==
  \/ AcquireToken(w) \/ Lookup(w) \/ MakeTempDir(w) \/ CloneRepository(w)
  \/ RemoveFromJobBoard(w) \/ Scan(w) \/ Verdict(w) \/ ReleaseToken(w)

ScannerNext ==
  \/ \E j \in Jobs :
       \/ \E i \in Ids : NewJob(j, i)
       \/ CallStartScan(j) \/ CallStopScan(j)
       \/ CheckBoardOpen(j) \/ AddToJobBoard(j) \/ StopScan(j)
       \/ SendReject(j) \/ Send(j) \/ WorkStep(j)
  \/ CloseBoard
  \/ ClearBoard

ScannerSpec == ScannerInit /\ [][ScannerNext]_scannerVars

-----------------------------------------------------------------------------
(* Properties.                                                             *)

\* Every variable has its type; the statuses a job reports are those of JobUpdate.
ScannerTypeOK ==
  /\ id     \in [Jobs -> Ids \union {NoId}]
  /\ board  \in [Ids -> Jobs \union {NoJob}]
  /\ phase  \in {"open", "closed", "cleared"}
  /\ tokens \in 0..Limit
  /\ start  \in [Jobs -> {"none", "called", "add", "done"}]
  /\ stop   \in [Jobs -> {"none", "called", "done"}]
  /\ reject \in [Jobs -> {"none", "sending", "sent"}]
  /\ work   \in [Jobs -> WorkPc]
  /\ cur    \in [Jobs -> Jobs \union {NoJob}]
  /\ found  \in [Jobs -> SUBSET Findings]
  /\ sent   \in [Jobs -> Seq(Statuses)]

\* The tokens channel holds one element for every Work goroutine between its send and its
\* deferred receive: on no path through Work is a token taken twice, kept or returned
\* twice.  Hence at most Limit scans run at once.
TokenAccounting ==
  /\ IsFiniteSet(Holders)
  /\ tokens = Cardinality(Holders)
  /\ Cardinality(Holders) <= Limit

\* A job stays on the board only while the Work goroutine StartScan spawned for it is
\* still to remove it: cancelled, failed and successful jobs leave no entry behind, and a
\* job is under its own id only.
BoardEntriesAreLive ==
  \A i \in Ids : board[i] # NoJob =>
    /\ id[board[i]] = i
    /\ work[board[i]] \notin {"none", "release", "done"}

\* StartScan rejects a job whose id is on the board (TestStartScanRejectsDuplicateJobIds):
\* no Work goroutine scans on its behalf.
RejectedJobsAreNotWorked ==
  \A j \in Jobs : reject[j] # "none" => cur[j] = NoJob
=============================================================================
