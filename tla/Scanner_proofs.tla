--------------------------- MODULE Scanner_proofs ---------------------------
(***************************************************************************)
(* Proofs about Scanner for every set of jobs and ids, every Limit and     *)
(* every fault. ScannerInv is the inductive invariant: the three           *)
(* invariants the runs check need of each other and of two more facts,     *)
(* StartedJobs and CurrentJobs.                                            *)
(***************************************************************************)
EXTENDS Scanner, FiniteSetTheorems, TLAPS

\* Only a job that was built is started or stopped, and Work(id[j]) exists exactly from
\* the moment StartScan(j) spawns it.
StartedJobs ==
  \A j \in Jobs :
    /\ start[j] # "none" \/ stop[j] # "none" => id[j] \in Ids
    /\ work[j] = "none" <=> start[j] # "done"

\* Work's local j is a job under the id Work was given, from the lookup on; past the
\* lookup Work goes on only if it found one.
CurrentJobs ==
  \A w \in Jobs :
    /\ cur[w] # NoJob => /\ work[w] \notin {"none", "token", "lookup"}
                         /\ id[cur[w]] = id[w]
    /\ work[w] \in Holding \ {"lookup", "release"} => cur[w] \in Jobs

ScannerInv ==
  /\ ScannerTypeOK
  /\ StartedJobs
  /\ CurrentJobs
  /\ TokenAccounting
  /\ BoardEntriesAreLive

-----------------------------------------------------------------------------
(* The operators of Scanner.                                               *)

\* A completed send and a removal leave Work inside the section that owns the token.
LEMMA AfterHolding ==
  ASSUME NEW pc
  PROVE  /\ AfterSend(pc) \in Holding \ {"lookup", "release"}
         /\ AfterDrop(pc) \in Holding \ {"lookup"}
         /\ AfterDrop(pc) = "release" => pc \notin {"dropTmp", "dropClone"}
BY DEF AfterSend, AfterDrop, Holding, Sending, Dropping

LEMMA StatusType == ASSUME NEW pc PROVE StatusSent(pc) \in Statuses
BY DEF StatusSent, Statuses

\* Token accounting survives a step that moves no Work goroutine into or out of Holding.
LEMMA SameHolders ==
  ASSUME TokenAccounting, tokens' = tokens,
         \A w \in Jobs : work'[w] \in Holding <=> work[w] \in Holding
  PROVE  TokenAccounting'
<1>1. Holders' = Holders
  BY DEF Holders
<1> QED
  BY <1>1 DEF TokenAccounting

\* A step of Work past the lookup keeps its job.
LEMMA SameJob ==
  ASSUME CurrentJobs, id' = id, cur' = cur, NEW w \in Jobs,
         work[w] \in Holding \ {"lookup", "release"},
         work'[w] \in Holding \ {"lookup"},
         \A v \in Jobs \ {w} : work'[v] = work[v]
  PROVE  CurrentJobs'
<1>1. work'[w] \notin {"none", "token", "lookup"}
  BY DEF Holding, Sending, Dropping
<1>2. cur[w] \in Jobs
  BY DEF CurrentJobs
<1> QED
  BY <1>1, <1>2 DEF CurrentJobs

-----------------------------------------------------------------------------
(* The invariant.                                                          *)

LEMMA ScannerInvInit == ScannerInit => ScannerInv
<1> SUFFICES ASSUME ScannerInit PROVE ScannerInv
  OBVIOUS
<1>1. ScannerTypeOK
  BY ScannerAssumption DEF ScannerInit, ScannerTypeOK, WorkPc, Statuses
<1>2. StartedJobs
  BY DEF ScannerInit, StartedJobs
<1>3. CurrentJobs
  BY DEF ScannerInit, CurrentJobs, Holding, Sending, Dropping
<1>4. TokenAccounting
  <2>1. Holders = {}
    BY DEF ScannerInit, Holders, Holding, Sending, Dropping
  <2> QED
    BY <2>1, FS_EmptySet, ScannerAssumption DEF ScannerInit, TokenAccounting
<1>5. BoardEntriesAreLive
  BY DEF ScannerInit, BoardEntriesAreLive
<1> QED
  BY <1>1, <1>2, <1>3, <1>4, <1>5 DEF ScannerInv

LEMMA NewJobInv ==
  ASSUME NEW j \in Jobs, NEW i \in Ids, ScannerInv, NewJob(j, i)
  PROVE  ScannerInv'
<1>1. ScannerTypeOK'
  BY ScannerAssumption DEF ScannerInv, ScannerTypeOK, StartedJobs, CurrentJobs, WorkPc, Holding, Sending, Dropping, NewJob, boardVars, workVars
<1>2. StartedJobs'
  BY ScannerAssumption DEF ScannerInv, ScannerTypeOK, StartedJobs, NewJob, boardVars, workVars
<1>3. CurrentJobs'
  BY ScannerAssumption DEF ScannerInv, ScannerTypeOK, StartedJobs, CurrentJobs, BoardEntriesAreLive, Holding, Sending, Dropping, NewJob, boardVars, workVars
<1>4. TokenAccounting'
  BY SameHolders DEF ScannerInv, ScannerTypeOK, StartedJobs, Holding, Sending, Dropping, NewJob, boardVars, workVars
<1>5. BoardEntriesAreLive'
  BY ScannerAssumption DEF ScannerInv, ScannerTypeOK, StartedJobs, CurrentJobs, BoardEntriesAreLive, Holding, Sending, Dropping, NewJob, boardVars, workVars
<1> QED
  BY <1>1, <1>2, <1>3, <1>4, <1>5 DEF ScannerInv

LEMMA CallStartScanInv ==
  ASSUME NEW j \in Jobs, ScannerInv, CallStartScan(j)
  PROVE  ScannerInv'
<1>1. ScannerTypeOK'
  BY ScannerAssumption DEF ScannerInv, ScannerTypeOK, StartedJobs, CurrentJobs, WorkPc, Holding, Sending, Dropping, CallStartScan, boardVars, workVars
<1>2. StartedJobs'
  BY ScannerAssumption DEF ScannerInv, ScannerTypeOK, StartedJobs, CallStartScan, boardVars, workVars
<1>3. CurrentJobs'
  BY ScannerAssumption DEF ScannerInv, ScannerTypeOK, StartedJobs, CurrentJobs, BoardEntriesAreLive, Holding, Sending, Dropping, CallStartScan, boardVars, workVars
<1>4. TokenAccounting'
  BY SameHolders DEF ScannerInv, ScannerTypeOK, StartedJobs, Holding, Sending, Dropping, CallStartScan, boardVars, workVars
<1>5. BoardEntriesAreLive'
  BY ScannerAssumption DEF ScannerInv, ScannerTypeOK, StartedJobs, CurrentJobs, BoardEntriesAreLive, Holding, Sending, Dropping, CallStartScan, boardVars, workVars
<1> QED
  BY <1>1, <1>2, <1>3, <1>4, <1>5 DEF ScannerInv

LEMMA CallStopScanInv ==
  ASSUME NEW j \in Jobs, ScannerInv, CallStopScan(j)
  PROVE  ScannerInv'
<1>1. ScannerTypeOK'
  BY ScannerAssumption DEF ScannerInv, ScannerTypeOK, StartedJobs, CurrentJobs, WorkPc, Holding, Sending, Dropping, CallStopScan, boardVars, workVars
<1>2. StartedJobs'
  BY ScannerAssumption DEF ScannerInv, ScannerTypeOK, StartedJobs, CallStopScan, boardVars, workVars
<1>3. CurrentJobs'
  BY ScannerAssumption DEF ScannerInv, ScannerTypeOK, StartedJobs, CurrentJobs, BoardEntriesAreLive, Holding, Sending, Dropping, CallStopScan, boardVars, workVars
<1>4. TokenAccounting'
  BY SameHolders DEF ScannerInv, ScannerTypeOK, StartedJobs, Holding, Sending, Dropping, CallStopScan, boardVars, workVars
<1>5. BoardEntriesAreLive'
  BY ScannerAssumption DEF ScannerInv, ScannerTypeOK, StartedJobs, CurrentJobs, BoardEntriesAreLive, Holding, Sending, Dropping, CallStopScan, boardVars, workVars
<1> QED
  BY <1>1, <1>2, <1>3, <1>4, <1>5 DEF ScannerInv

LEMMA CheckBoardOpenInv ==
  ASSUME NEW j \in Jobs, ScannerInv, CheckBoardOpen(j)
  PROVE  ScannerInv'
<1>1. ScannerTypeOK'
  <2>1. CASE phase = "open"
    BY <2>1 DEF ScannerInv, ScannerTypeOK, CheckBoardOpen, boardVars
  <2>2. CASE phase # "open"
    BY <2>2 DEF ScannerInv, ScannerTypeOK, WorkPc, CheckBoardOpen, Refuse, boardVars
  <2> QED
    BY <2>1, <2>2
<1>2. StartedJobs'
  BY ScannerAssumption DEF ScannerInv, ScannerTypeOK, StartedJobs, CheckBoardOpen, Refuse, boardVars
<1>3. CurrentJobs'
  BY ScannerAssumption DEF ScannerInv, ScannerTypeOK, StartedJobs, CurrentJobs, BoardEntriesAreLive, Holding, Sending, Dropping, CheckBoardOpen, Refuse, boardVars
<1>4. TokenAccounting'
  BY SameHolders DEF ScannerInv, ScannerTypeOK, StartedJobs, Holding, Sending, Dropping, CheckBoardOpen, Refuse, boardVars
<1>5. BoardEntriesAreLive'
  BY ScannerAssumption DEF ScannerInv, ScannerTypeOK, StartedJobs, CurrentJobs, BoardEntriesAreLive, Holding, Sending, Dropping, CheckBoardOpen, Refuse, boardVars
<1> QED
  BY <1>1, <1>2, <1>3, <1>4, <1>5 DEF ScannerInv

LEMMA AddToJobBoardInv ==
  ASSUME NEW j \in Jobs, ScannerInv, AddToJobBoard(j)
  PROVE  ScannerInv'
<1>1. ScannerTypeOK'
  <2>1. board' \in [Ids -> Jobs \union {NoJob}]
    BY DEF ScannerInv, ScannerTypeOK, AddToJobBoard
  <2>2. reject' \in [Jobs -> {"none", "sending", "sent"}]
    BY DEF ScannerInv, ScannerTypeOK, AddToJobBoard, Refuse
  <2>3. /\ start' \in [Jobs -> {"none", "called", "add", "done"}]
        /\ work' \in [Jobs -> WorkPc]
    BY DEF ScannerInv, ScannerTypeOK, WorkPc, AddToJobBoard, Refuse
  <2> QED
    BY <2>1, <2>2, <2>3 DEF ScannerInv, ScannerTypeOK, AddToJobBoard
<1>2. StartedJobs'
  BY ScannerAssumption DEF ScannerInv, ScannerTypeOK, StartedJobs, AddToJobBoard, Refuse
<1>3. CurrentJobs'
  <2>1. /\ work[j] = "none" /\ work' = [work EXCEPT ![j] = "token"]
        /\ id' = id /\ cur' = cur
    BY DEF ScannerInv, ScannerTypeOK, StartedJobs, AddToJobBoard, Refuse
  <2>2. "token" \notin Holding
    BY DEF Holding, Sending, Dropping
  <2> QED
    BY <2>1, <2>2 DEF ScannerInv, ScannerTypeOK, CurrentJobs
<1>4. TokenAccounting'
  BY SameHolders DEF ScannerInv, ScannerTypeOK, StartedJobs, Holding, Sending, Dropping, AddToJobBoard, Refuse
<1>5. BoardEntriesAreLive'
  <2>1. /\ id[j] \in Ids /\ id' = id
        /\ work' = [work EXCEPT ![j] = "token"]
        /\ board' \in {board, [board EXCEPT ![id[j]] = j]}
    BY DEF ScannerInv, ScannerTypeOK, StartedJobs, AddToJobBoard, Refuse
  <2> SUFFICES ASSUME NEW i \in Ids, board'[i] # NoJob
               PROVE  id[board'[i]] = i /\ work'[board'[i]] \notin {"none", "release", "done"}
    BY <2>1 DEF BoardEntriesAreLive
  <2>2. CASE board'[i] = board[i]
    BY <2>1, <2>2 DEF ScannerInv, ScannerTypeOK, BoardEntriesAreLive
  <2>3. CASE i = id[j] /\ board'[i] = j
    BY <2>1, <2>3 DEF ScannerInv, ScannerTypeOK
  <2> QED
    BY <2>1, <2>2, <2>3 DEF ScannerInv, ScannerTypeOK
<1> QED
  BY <1>1, <1>2, <1>3, <1>4, <1>5 DEF ScannerInv

LEMMA StopScanInv ==
  ASSUME NEW j \in Jobs, ScannerInv, StopScan(j)
  PROVE  ScannerInv'
<1>1. ScannerTypeOK'
  BY ScannerAssumption DEF ScannerInv, ScannerTypeOK, StartedJobs, CurrentJobs, WorkPc, Holding, Sending, Dropping, StopScan, workVars
<1>2. StartedJobs'
  BY ScannerAssumption DEF ScannerInv, ScannerTypeOK, StartedJobs, StopScan, workVars
<1>3. CurrentJobs'
  BY ScannerAssumption DEF ScannerInv, ScannerTypeOK, StartedJobs, CurrentJobs, BoardEntriesAreLive, Holding, Sending, Dropping, StopScan, workVars
<1>4. TokenAccounting'
  BY SameHolders DEF ScannerInv, ScannerTypeOK, StartedJobs, Holding, Sending, Dropping, StopScan, workVars
<1>5. BoardEntriesAreLive'
  BY ScannerAssumption DEF ScannerInv, ScannerTypeOK, StartedJobs, CurrentJobs, BoardEntriesAreLive, Holding, Sending, Dropping, StopScan, workVars
<1> QED
  BY <1>1, <1>2, <1>3, <1>4, <1>5 DEF ScannerInv

LEMMA CloseBoardInv ==
  ASSUME ScannerInv, CloseBoard
  PROVE  ScannerInv'
<1>1. ScannerTypeOK'
  BY ScannerAssumption DEF ScannerInv, ScannerTypeOK, StartedJobs, CurrentJobs, WorkPc, Holding, Sending, Dropping, CloseBoard, callVars, workVars
<1>2. StartedJobs'
  BY ScannerAssumption DEF ScannerInv, ScannerTypeOK, StartedJobs, CloseBoard, callVars, workVars
<1>3. CurrentJobs'
  BY ScannerAssumption DEF ScannerInv, ScannerTypeOK, StartedJobs, CurrentJobs, BoardEntriesAreLive, Holding, Sending, Dropping, CloseBoard, callVars, workVars
<1>4. TokenAccounting'
  BY SameHolders DEF ScannerInv, ScannerTypeOK, StartedJobs, Holding, Sending, Dropping, CloseBoard, callVars, workVars
<1>5. BoardEntriesAreLive'
  BY ScannerAssumption DEF ScannerInv, ScannerTypeOK, StartedJobs, CurrentJobs, BoardEntriesAreLive, Holding, Sending, Dropping, CloseBoard, callVars, workVars
<1> QED
  BY <1>1, <1>2, <1>3, <1>4, <1>5 DEF ScannerInv

LEMMA ClearBoardInv ==
  ASSUME ScannerInv, ClearBoard
  PROVE  ScannerInv'
<1>1. ScannerTypeOK'
  BY ScannerAssumption DEF ScannerInv, ScannerTypeOK, StartedJobs, CurrentJobs, WorkPc, Holding, Sending, Dropping, ClearBoard, callVars, workVars
<1>2. StartedJobs'
  BY ScannerAssumption DEF ScannerInv, ScannerTypeOK, StartedJobs, ClearBoard, callVars, workVars
<1>3. CurrentJobs'
  BY ScannerAssumption DEF ScannerInv, ScannerTypeOK, StartedJobs, CurrentJobs, BoardEntriesAreLive, Holding, Sending, Dropping, ClearBoard, callVars, workVars
<1>4. TokenAccounting'
  BY SameHolders DEF ScannerInv, ScannerTypeOK, StartedJobs, Holding, Sending, Dropping, ClearBoard, callVars, workVars
<1>5. BoardEntriesAreLive'
  BY ScannerAssumption DEF ScannerInv, ScannerTypeOK, StartedJobs, CurrentJobs, BoardEntriesAreLive, Holding, Sending, Dropping, ClearBoard, callVars, workVars
<1> QED
  BY <1>1, <1>2, <1>3, <1>4, <1>5 DEF ScannerInv

LEMMA SendRejectInv ==
  ASSUME NEW j \in Jobs, ScannerInv, SendReject(j)
  PROVE  ScannerInv'
<1>1. ScannerTypeOK'
  BY ScannerAssumption DEF ScannerInv, ScannerTypeOK, StartedJobs, CurrentJobs, WorkPc, Holding, Sending, Dropping, SendReject, boardVars, workVars, Statuses
<1>2. StartedJobs'
  BY ScannerAssumption DEF ScannerInv, ScannerTypeOK, StartedJobs, SendReject, boardVars, workVars, Statuses
<1>3. CurrentJobs'
  BY ScannerAssumption DEF ScannerInv, ScannerTypeOK, StartedJobs, CurrentJobs, BoardEntriesAreLive, Holding, Sending, Dropping, SendReject, boardVars, workVars, Statuses
<1>4. TokenAccounting'
  BY SameHolders DEF ScannerInv, ScannerTypeOK, StartedJobs, Holding, Sending, Dropping, SendReject, boardVars, workVars, Statuses
<1>5. BoardEntriesAreLive'
  BY ScannerAssumption DEF ScannerInv, ScannerTypeOK, StartedJobs, CurrentJobs, BoardEntriesAreLive, Holding, Sending, Dropping, SendReject, boardVars, workVars, Statuses
<1> QED
  BY <1>1, <1>2, <1>3, <1>4, <1>5 DEF ScannerInv

LEMMA AcquireTokenInv ==
  ASSUME NEW w \in Jobs, ScannerInv, AcquireToken(w)
  PROVE  ScannerInv'
<1>1. ScannerTypeOK'
  BY ScannerAssumption DEF ScannerInv, ScannerTypeOK, StartedJobs, CurrentJobs, WorkPc, Holding, Sending, Dropping, AcquireToken, boardVars, callVars
<1>2. StartedJobs'
  BY ScannerAssumption DEF ScannerInv, ScannerTypeOK, StartedJobs, AcquireToken, boardVars, callVars
<1>3. CurrentJobs'
  BY ScannerAssumption DEF ScannerInv, ScannerTypeOK, StartedJobs, CurrentJobs, BoardEntriesAreLive, Holding, Sending, Dropping, AcquireToken, boardVars, callVars
<1>4. TokenAccounting'
  <2>1. Holders' = Holders \union {w} /\ w \notin Holders
    BY DEF ScannerInv, ScannerTypeOK, Holders, Holding, Sending, Dropping, AcquireToken
  <2>2. IsFiniteSet(Holders) /\ tokens = Cardinality(Holders) /\ tokens \in 0..Limit
    BY DEF ScannerInv, ScannerTypeOK, TokenAccounting
  <2>3. IsFiniteSet(Holders') /\ Cardinality(Holders') = tokens + 1
    BY <2>1, <2>2, FS_AddElement
  <2> QED
    BY <2>2, <2>3, ScannerAssumption DEF TokenAccounting, AcquireToken
<1>5. BoardEntriesAreLive'
  BY ScannerAssumption DEF ScannerInv, ScannerTypeOK, StartedJobs, CurrentJobs, BoardEntriesAreLive, Holding, Sending, Dropping, AcquireToken, boardVars, callVars
<1> QED
  BY <1>1, <1>2, <1>3, <1>4, <1>5 DEF ScannerInv

LEMMA LookupInv ==
  ASSUME NEW w \in Jobs, ScannerInv, Lookup(w)
  PROVE  ScannerInv'
<1>1. ScannerTypeOK'
  BY ScannerAssumption DEF ScannerInv, ScannerTypeOK, StartedJobs, CurrentJobs, WorkPc, Holding, Sending, Dropping, Lookup, boardVars, callVars
<1>2. StartedJobs'
  BY ScannerAssumption DEF ScannerInv, ScannerTypeOK, StartedJobs, Lookup, boardVars, callVars
<1>3. CurrentJobs'
  BY ScannerAssumption DEF ScannerInv, ScannerTypeOK, StartedJobs, CurrentJobs, BoardEntriesAreLive, Holding, Sending, Dropping, Lookup, boardVars, callVars
<1>4. TokenAccounting'
  BY SameHolders DEF ScannerInv, ScannerTypeOK, StartedJobs, Holding, Sending, Dropping, Lookup, boardVars, callVars
<1>5. BoardEntriesAreLive'
  BY ScannerAssumption DEF ScannerInv, ScannerTypeOK, StartedJobs, CurrentJobs, BoardEntriesAreLive, Holding, Sending, Dropping, Lookup, boardVars, callVars
<1> QED
  BY <1>1, <1>2, <1>3, <1>4, <1>5 DEF ScannerInv

LEMMA SendInv ==
  ASSUME NEW w \in Jobs, ScannerInv, Send(w)
  PROVE  ScannerInv'
<1>1. ScannerTypeOK'
  <2>1. work' \in [Jobs -> WorkPc]
    BY AfterHolding DEF ScannerInv, ScannerTypeOK, WorkPc, Send
  <2>2. cur[w] \in Jobs
    BY DEF ScannerInv, CurrentJobs, Holding, Sending, Dropping, Send
  <2>3. Append(sent[cur[w]], StatusSent(work[w])) \in Seq(Statuses)
    BY <2>2, StatusType DEF ScannerInv, ScannerTypeOK
  <2>4. sent' \in [Jobs -> Seq(Statuses)]
    BY <2>2, <2>3 DEF ScannerInv, ScannerTypeOK, Send
  <2> QED
    BY <2>1, <2>4 DEF ScannerInv, ScannerTypeOK, Send, boardVars, callVars
<1>2. StartedJobs'
  <2>1. work[w] # "none" /\ work'[w] # "none"
    BY AfterHolding DEF ScannerInv, ScannerTypeOK, Holding, Sending, Dropping, Send
  <2> QED
    BY <2>1 DEF ScannerInv, ScannerTypeOK, StartedJobs, Send, boardVars, callVars
<1>3. CurrentJobs'
  BY ScannerAssumption, AfterHolding DEF ScannerInv, ScannerTypeOK, StartedJobs, CurrentJobs, BoardEntriesAreLive, Holding, Sending, Dropping, Send, boardVars, callVars
<1>4. TokenAccounting'
  BY SameHolders, AfterHolding DEF ScannerInv, ScannerTypeOK, StartedJobs, Holding, Sending, Dropping, Send, boardVars, callVars
<1>5. BoardEntriesAreLive'
  BY ScannerAssumption, AfterHolding DEF ScannerInv, ScannerTypeOK, StartedJobs, CurrentJobs, BoardEntriesAreLive, Holding, Sending, Dropping, Send, boardVars, callVars
<1> QED
  BY <1>1, <1>2, <1>3, <1>4, <1>5 DEF ScannerInv

LEMMA MakeTempDirInv ==
  ASSUME NEW w \in Jobs, ScannerInv, MakeTempDir(w)
  PROVE  ScannerInv'
<1>1. ScannerTypeOK'
  BY ScannerAssumption DEF ScannerInv, ScannerTypeOK, StartedJobs, CurrentJobs, WorkPc, Holding, Sending, Dropping, MakeTempDir, boardVars, callVars
<1>2. StartedJobs'
  BY ScannerAssumption DEF ScannerInv, ScannerTypeOK, StartedJobs, MakeTempDir, boardVars, callVars
<1>3. CurrentJobs'
  <2>1. /\ work[w] \in Holding \ {"lookup", "release"}
        /\ work'[w] \in Holding \ {"lookup"}
        /\ \A v \in Jobs \ {w} : work'[v] = work[v]
    BY DEF ScannerInv, ScannerTypeOK, Holding, Sending, Dropping, MakeTempDir
  <2> QED
    BY <2>1, SameJob DEF ScannerInv, MakeTempDir, callVars
<1>4. TokenAccounting'
  BY SameHolders DEF ScannerInv, ScannerTypeOK, StartedJobs, Holding, Sending, Dropping, MakeTempDir, boardVars, callVars
<1>5. BoardEntriesAreLive'
  BY ScannerAssumption DEF ScannerInv, ScannerTypeOK, StartedJobs, CurrentJobs, BoardEntriesAreLive, Holding, Sending, Dropping, MakeTempDir, boardVars, callVars
<1> QED
  BY <1>1, <1>2, <1>3, <1>4, <1>5 DEF ScannerInv

LEMMA CloneRepositoryInv ==
  ASSUME NEW w \in Jobs, ScannerInv, CloneRepository(w)
  PROVE  ScannerInv'
<1>1. ScannerTypeOK'
  BY ScannerAssumption DEF ScannerInv, ScannerTypeOK, StartedJobs, CurrentJobs, WorkPc, Holding, Sending, Dropping, CloneRepository, boardVars, callVars
<1>2. StartedJobs'
  BY ScannerAssumption DEF ScannerInv, ScannerTypeOK, StartedJobs, CloneRepository, boardVars, callVars
<1>3. CurrentJobs'
  <2>1. /\ work[w] \in Holding \ {"lookup", "release"}
        /\ work'[w] \in Holding \ {"lookup"}
        /\ \A v \in Jobs \ {w} : work'[v] = work[v]
    BY DEF ScannerInv, ScannerTypeOK, Holding, Sending, Dropping, CloneRepository
  <2> QED
    BY <2>1, SameJob DEF ScannerInv, CloneRepository, callVars
<1>4. TokenAccounting'
  BY SameHolders DEF ScannerInv, ScannerTypeOK, StartedJobs, Holding, Sending, Dropping, CloneRepository, boardVars, callVars
<1>5. BoardEntriesAreLive'
  BY ScannerAssumption DEF ScannerInv, ScannerTypeOK, StartedJobs, CurrentJobs, BoardEntriesAreLive, Holding, Sending, Dropping, CloneRepository, boardVars, callVars
<1> QED
  BY <1>1, <1>2, <1>3, <1>4, <1>5 DEF ScannerInv

LEMMA RemoveFromJobBoardInv ==
  ASSUME NEW w \in Jobs, ScannerInv, RemoveFromJobBoard(w)
  PROVE  ScannerInv'
<1>1. ScannerTypeOK'
  BY ScannerAssumption, AfterHolding, StatusType DEF ScannerInv, ScannerTypeOK, StartedJobs, CurrentJobs, WorkPc, Holding, Sending, Dropping, RemoveFromJobBoard, callVars
<1>2. StartedJobs'
  <2>1. work[w] # "none" /\ work'[w] # "none"
    BY AfterHolding DEF ScannerInv, ScannerTypeOK, Holding, Sending, Dropping, RemoveFromJobBoard
  <2> QED
    BY <2>1 DEF ScannerInv, ScannerTypeOK, StartedJobs, RemoveFromJobBoard, callVars
<1>3. CurrentJobs'
  BY ScannerAssumption, AfterHolding DEF ScannerInv, ScannerTypeOK, StartedJobs, CurrentJobs, BoardEntriesAreLive, Holding, Sending, Dropping, RemoveFromJobBoard, callVars
<1>4. TokenAccounting'
  BY SameHolders, AfterHolding DEF ScannerInv, ScannerTypeOK, StartedJobs, Holding, Sending, Dropping, RemoveFromJobBoard, callVars
<1>5. BoardEntriesAreLive'
  BY ScannerAssumption, AfterHolding DEF ScannerInv, ScannerTypeOK, StartedJobs, CurrentJobs, BoardEntriesAreLive, Holding, Sending, Dropping, RemoveFromJobBoard, callVars
<1> QED
  BY <1>1, <1>2, <1>3, <1>4, <1>5 DEF ScannerInv

LEMMA ScanInv ==
  ASSUME NEW w \in Jobs, ScannerInv, Scan(w)
  PROVE  ScannerInv'
<1>1. ScannerTypeOK'
  <2>1. work' \in [Jobs -> WorkPc]
    <3>1. \E pc \in {"release", "verdict"} : work' = [work EXCEPT ![w] = pc]
      BY DEF Scan
    <3> QED
      BY <3>1 DEF ScannerInv, ScannerTypeOK, WorkPc, Holding, Sending, Dropping
  <2>2. found' \in [Jobs -> SUBSET Findings]
    BY DEF ScannerInv, ScannerTypeOK, Scan
  <2> QED
    BY <2>1, <2>2 DEF ScannerInv, ScannerTypeOK, Scan, boardVars, callVars
<1>2. StartedJobs'
  BY ScannerAssumption DEF ScannerInv, ScannerTypeOK, StartedJobs, Scan, boardVars, callVars
<1>3. CurrentJobs'
  <2>1. /\ work[w] \in Holding \ {"lookup", "release"}
        /\ work'[w] \in Holding \ {"lookup"}
        /\ \A v \in Jobs \ {w} : work'[v] = work[v]
    BY DEF ScannerInv, ScannerTypeOK, Holding, Sending, Dropping, Scan
  <2> QED
    BY <2>1, SameJob DEF ScannerInv, Scan, callVars
<1>4. TokenAccounting'
  BY SameHolders DEF ScannerInv, ScannerTypeOK, StartedJobs, Holding, Sending, Dropping, Scan, boardVars, callVars
<1>5. BoardEntriesAreLive'
  BY ScannerAssumption DEF ScannerInv, ScannerTypeOK, StartedJobs, CurrentJobs, BoardEntriesAreLive, Holding, Sending, Dropping, Scan, boardVars, callVars
<1> QED
  BY <1>1, <1>2, <1>3, <1>4, <1>5 DEF ScannerInv

LEMMA VerdictInv ==
  ASSUME NEW w \in Jobs, ScannerInv, Verdict(w)
  PROVE  ScannerInv'
<1>1. ScannerTypeOK'
  BY ScannerAssumption DEF ScannerInv, ScannerTypeOK, StartedJobs, CurrentJobs, WorkPc, Holding, Sending, Dropping, Verdict, boardVars, callVars
<1>2. StartedJobs'
  BY ScannerAssumption DEF ScannerInv, ScannerTypeOK, StartedJobs, Verdict, boardVars, callVars
<1>3. CurrentJobs'
  BY ScannerAssumption DEF ScannerInv, ScannerTypeOK, StartedJobs, CurrentJobs, BoardEntriesAreLive, Holding, Sending, Dropping, Verdict, boardVars, callVars
<1>4. TokenAccounting'
  BY SameHolders DEF ScannerInv, ScannerTypeOK, StartedJobs, Holding, Sending, Dropping, Verdict, boardVars, callVars
<1>5. BoardEntriesAreLive'
  BY ScannerAssumption DEF ScannerInv, ScannerTypeOK, StartedJobs, CurrentJobs, BoardEntriesAreLive, Holding, Sending, Dropping, Verdict, boardVars, callVars
<1> QED
  BY <1>1, <1>2, <1>3, <1>4, <1>5 DEF ScannerInv

LEMMA ReleaseTokenInv ==
  ASSUME NEW w \in Jobs, ScannerInv, ReleaseToken(w)
  PROVE  ScannerInv'
<1>1. ScannerTypeOK'
  <2>1. w \in Holders
    BY DEF Holders, Holding, ReleaseToken
  <2>2. tokens # 0
    BY <2>1, FS_EmptySet DEF ScannerInv, TokenAccounting
  <2> QED
    BY <2>2, ScannerAssumption DEF ScannerInv, ScannerTypeOK, WorkPc, ReleaseToken, boardVars, callVars
<1>2. StartedJobs'
  BY ScannerAssumption DEF ScannerInv, ScannerTypeOK, StartedJobs, ReleaseToken, boardVars, callVars
<1>3. CurrentJobs'
  BY ScannerAssumption DEF ScannerInv, ScannerTypeOK, StartedJobs, CurrentJobs, BoardEntriesAreLive, Holding, Sending, Dropping, ReleaseToken, boardVars, callVars
<1>4. TokenAccounting'
  <2>1. Holders' = Holders \ {w} /\ w \in Holders
    BY DEF ScannerInv, ScannerTypeOK, Holders, Holding, Sending, Dropping, ReleaseToken
  <2>2. IsFiniteSet(Holders) /\ tokens = Cardinality(Holders) /\ tokens \in 0..Limit
    BY DEF ScannerInv, ScannerTypeOK, TokenAccounting
  <2>3. IsFiniteSet(Holders') /\ Cardinality(Holders') = tokens - 1
    BY <2>1, <2>2, FS_RemoveElement
  <2> QED
    BY <2>2, <2>3, ScannerAssumption DEF TokenAccounting, ReleaseToken
<1>5. BoardEntriesAreLive'
  BY ScannerAssumption DEF ScannerInv, ScannerTypeOK, StartedJobs, CurrentJobs, BoardEntriesAreLive, Holding, Sending, Dropping, ReleaseToken, boardVars, callVars
<1> QED
  BY <1>1, <1>2, <1>3, <1>4, <1>5 DEF ScannerInv

-----------------------------------------------------------------------------

LEMMA ScannerInvNext == ScannerInv /\ [ScannerNext]_scannerVars => ScannerInv'
<1> SUFFICES ASSUME ScannerInv, [ScannerNext]_scannerVars PROVE ScannerInv'
  OBVIOUS
<1>1. ASSUME NEW j \in Jobs, NEW i \in Ids, NewJob(j, i) PROVE ScannerInv'
  BY <1>1, NewJobInv
<1>2. ASSUME NEW j \in Jobs, CallStartScan(j) \/ CallStopScan(j) PROVE ScannerInv'
  BY <1>2, CallStartScanInv, CallStopScanInv
<1>3. ASSUME NEW j \in Jobs, CheckBoardOpen(j) \/ AddToJobBoard(j) PROVE ScannerInv'
  BY <1>3, CheckBoardOpenInv, AddToJobBoardInv
<1>4. ASSUME NEW j \in Jobs, StopScan(j) PROVE ScannerInv'
  BY <1>4, StopScanInv
<1>5. ASSUME NEW j \in Jobs, SendReject(j) \/ Send(j) PROVE ScannerInv'
  BY <1>5, SendRejectInv, SendInv
<1>6. ASSUME NEW w \in Jobs, WorkStep(w) PROVE ScannerInv'
  BY <1>6, AcquireTokenInv, LookupInv, MakeTempDirInv, CloneRepositoryInv,
     RemoveFromJobBoardInv, ScanInv, VerdictInv, ReleaseTokenInv DEF WorkStep
<1>7. ASSUME CloseBoard \/ ClearBoard PROVE ScannerInv'
  BY <1>7, CloseBoardInv, ClearBoardInv
<1>8. ASSUME UNCHANGED scannerVars PROVE ScannerInv'
  <2>1. Holders' = Holders
    BY <1>8 DEF scannerVars, Holders
  <2>2. TokenAccounting'
    BY <1>8, <2>1 DEF ScannerInv, TokenAccounting, scannerVars
  <2>3. ScannerTypeOK' /\ StartedJobs' /\ CurrentJobs' /\ BoardEntriesAreLive'
    BY <1>8 DEF scannerVars, ScannerInv, ScannerTypeOK, StartedJobs, CurrentJobs,
       BoardEntriesAreLive
  <2> QED
    BY <2>2, <2>3 DEF ScannerInv
<1> QED
  BY <1>1, <1>2, <1>3, <1>4, <1>5, <1>6, <1>7, <1>8 DEF ScannerNext

\* The strengthened invariant holds in every reachable state of the open scanner.
THEOREM ScannerSafe == ScannerSpec => []ScannerInv
<1> QED
  BY ScannerInvInit, ScannerInvNext, PTL DEF ScannerSpec

\* Type correctness, for any number of jobs and ids.
THEOREM ScannerTypeCorrect == ScannerSpec => []ScannerTypeOK
<1>1. ScannerInv => ScannerTypeOK
  BY DEF ScannerInv
<1> QED
  BY <1>1, ScannerSafe, PTL

\* The tokens channel counts the Work goroutines in their critical section, at most Limit,
\* whatever ids callers reuse and whatever fails.
THEOREM ScannerTokens == ScannerSpec => []TokenAccounting
<1>1. ScannerInv => TokenAccounting
  BY DEF ScannerInv
<1> QED
  BY <1>1, ScannerSafe, PTL

\* Work never ends while its job is on the board.
THEOREM ScannerBoard == ScannerSpec => []BoardEntriesAreLive
<1>1. ScannerInv => BoardEntriesAreLive
  BY DEF ScannerInv
<1> QED
  BY <1>1, ScannerSafe, PTL
=============================================================================
