--------------------------- MODULE ScanLifecycle ---------------------------
(***************************************************************************)
(* What a client of the API can rely on: a scan is created QUEUED, goes    *)
(* through IN PROGRESS to SUCCESS or FAILURE and never back, its findings  *)
(* appear at once, before it becomes SUCCESS, and disappear only when it   *)
(* is being deleted, and a deleted scan never comes back.  ScanService.tla *)
(* implements this.                                                        *)
(***************************************************************************)
CONSTANTS Scans, Findings

VARIABLES
  status,  \* status[s]: "unknown" before s is created, "deleted" in the end
  results  \* results[s]: the findings stored for s

vars == <<status, results>>

Init ==
  /\ status  = [s \in Scans |-> "unknown"]
  /\ results = [s \in Scans |-> {}]

Become(s, from, to) ==
  /\ status[s] \in from
  /\ status' = [status EXCEPT ![s] = to]
  /\ UNCHANGED results

Create(s)  == Become(s, {"unknown"}, "QUEUED")
Begin(s)   == Become(s, {"QUEUED"}, "IN PROGRESS")
Succeed(s) == Become(s, {"IN PROGRESS"}, "SUCCESS")
Fail(s)    == Become(s, {"QUEUED", "IN PROGRESS"}, "FAILURE") /\ results[s] = {}

\* All findings of the scan at once.
Publish(s) ==
  /\ status[s] = "IN PROGRESS"
  /\ results[s] = {}
  /\ \E F \in SUBSET Findings : results' = [results EXCEPT ![s] = F]
  /\ UNCHANGED status

\* The first half of deleting a successful scan.
Purge(s) ==
  /\ status[s] = "SUCCESS"
  /\ results' = [results EXCEPT ![s] = {}]
  /\ UNCHANGED status

Delete(s) ==
  /\ results[s] = {}
  /\ Become(s, {"QUEUED", "IN PROGRESS", "SUCCESS", "FAILURE"}, "deleted")

Next ==
  \E s \in Scans :
    Create(s) \/ Begin(s) \/ Publish(s) \/ Succeed(s) \/ Fail(s) \/ Purge(s) \/ Delete(s)

Spec == Init /\ [][Next]_vars
=============================================================================
