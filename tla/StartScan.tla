----------------------------- MODULE StartScan -----------------------------
(***************************************************************************)
(* POST startScan from end to end (AddScan of src/go/api_scans.go and      *)
(* Insert of src/go/store_scans_psql.go): the lookup of the repository in  *)
(* RepoService, the search for an id in ScanIds, and the INSERT under both *)
(* keys of table scans, among the requests about repositories and with the *)
(* process killed in between.                                              *)
(***************************************************************************)
EXTENDS RepoService, ScanIds

\* Every client may POST; a scan's id is its number.
ASSUME StartScanAssumption == Posts = Clients /\ Scans \subseteq Nat \ {0}

startVars == <<repoVars, idVars>>

StartInit == RepoInit /\ IdsInit

OtherStep(c) == NewRequest(c) /\ UNCHANGED idVars

\* Insert looks for an id once the repository is found.
FindId(c) ==
  /\ req[c].pc = "insert"
  /\ TakeId(c) \/ CheckId(c) \/ FailLookup(c)
  /\ UNCHANGED repoVars

\* The INSERT: a row, or a refusal by either key or for an error. Scans bounds the numbers.
TryInsert(c) ==
  /\ pc[c] = "insert"
  /\ id[c] \in Scans
  /\ InsertScan(c, id[c])
  /\ InsertRow(c) \/ RefuseRow(c)
  /\ rows' = {s \in Scans : scans'[s] # Absent}

DropScan(s) == DeleteScanRow(s) /\ DeleteRow(s)

\* Requests that have not been answered are gone; what they have written is there.
Restart == Kill({c \in Clients : req[c].pc = "insert"}) /\ UNCHANGED repoVars

StartNext ==
  \/ \E c \in Clients : OtherStep(c) \/ FindId(c) \/ TryInsert(c)
  \/ \E s \in Scans : DropScan(s)
  \/ Restart

StartSpec == StartInit /\ [][StartNext]_startVars

\* A request that has found its repository goes on until it is answered, and every
\* statement returns; nobody has to send a request, or to delete a scan.
StartFairSpec ==
  StartSpec /\ \A c \in Clients : WF_startVars(FindId(c) \/ TryInsert(c))

-----------------------------------------------------------------------------
(* Properties.                                                             *)

\* A POST that has found its repository is answered, or lost in a crash: the numbers of the
\* rows that earlier processes left are passed over one by one, and so are lookups that
\* fail, as long as they do not fail for ever.
PostsAreAnswered ==
  \A c \in Clients : (req[c].pc = "insert") ~> (req[c].pc = "done" \/ pc[c] = "lost")
=============================================================================
