----------------------------- MODULE MemStores -----------------------------
(***************************************************************************)
(* The two stores on memdb over MemTable: ScanStoreMemDB                   *)
(* (src/go/store_scans_memdb.go), whose ids come from a generator          *)
(* goroutine and which has a table of findings beside that of the scans,   *)
(* and RepoStoreMemDB (src/go/store_repository_memdb.go), whose NextId     *)
(* reads and increments the plain field nextId before the transaction:     *)
(* `defer func() { rs.nextId++ }()` around `return rs.nextId` is two loads *)
(* and a store.  A behaviour is that of one of them.                       *)
(***************************************************************************)
EXTENDS MemTable

CONSTANTS
  Callers,   \* the goroutines that call the store as they like
  Findings   \* what a scan can find

ASSUME MemStoresAssumption == Callers \subseteq Procs

VARIABLES
  store,     \* "scans" or "repositories"
  nextId,    \* what generateObjIds sends next on nextId, or the field nextId
  findings   \* findings[i]: what table findings holds under scan id i

ownVars == <<store, nextId, findings>>
memVars == <<tableVars, ownVars>>

MemInit ==
  /\ TableInit(0, Absent)
  /\ store \in {"scans", "repositories"}
  /\ nextId = 1
  /\ findings = [i \in Ids |-> {}]

-----------------------------------------------------------------------------
(* Scans.                                                                  *)

\* Mutant: the generator sends the same id again.
InsertScanSameId(p) ==
  /\ store = "scans"
  /\ At(p, "insert", "id")
  /\ nextId <= MaxId
  /\ InsertRow(p, nextId)
  /\ UNCHANGED ownVars

\* Insert: the id is received from the channel inside the write transaction.
InsertScan(p) ==
  /\ store = "scans"
  /\ At(p, "insert", "id")
  /\ nextId <= MaxId
  /\ InsertRow(p, nextId)
  /\ nextId' = nextId + 1
  /\ UNCHANGED <<store, findings>>

\* InsertFindings: one transaction, without a look at table scans.
InsertFindings(i, F) == findings' = [findings EXCEPT ![i] = @ \union F]

\* DeleteFindings: one transaction.
DeleteFindings(i) == findings' = [findings EXCEPT ![i] = {}]

-----------------------------------------------------------------------------
(* Repositories.                                                           *)

\* return rs.nextId.
ReadNextId(p) ==
  /\ store = "repositories"
  /\ At(p, "insert", "id")
  /\ nextId <= MaxId
  /\ call' = [call EXCEPT ![p].id = nextId, ![p].pc = "bump"]
  /\ UNCHANGED <<rows, total, drift, raced, ownVars>>

\* rs.nextId++, its load and its store.
LoadNextId(p) ==
  /\ At(p, "insert", "bump")
  /\ call' = [call EXCEPT ![p].reg = nextId, ![p].pc = "set"]
  /\ UNCHANGED <<rows, total, drift, raced, ownVars>>

StoreNextId(p) ==
  /\ At(p, "insert", "set")
  /\ nextId' = call[p].reg + 1
  /\ call' = [call EXCEPT ![p].reg = 0, ![p].pc = "insert"]
  /\ UNCHANGED <<rows, total, drift, raced, store, findings>>

InsertRepository(p) ==
  /\ At(p, "insert", "insert")
  /\ InsertRow(p, call[p].id)
  /\ UNCHANGED ownVars

-----------------------------------------------------------------------------

StoreStep(p) ==
  \/ InsertScan(p)
  \/ ReadNextId(p) \/ LoadNextId(p) \/ StoreNextId(p) \/ InsertRepository(p)
  \/ TableStep(p) /\ UNCHANGED ownVars

\* Calls of any goroutine in any order.
CallersNext ==
  \E p \in Callers : StoreStep(p) \/ (TableBegin(p) /\ UNCHANGED ownVars)

-----------------------------------------------------------------------------
(* Properties.                                                             *)

\* "Helper function to auto-generate the next unique id value": no two inserts of scans are
\* told the same id.
InsertedIdsAreUnique ==
  store = "scans" =>
    \A p, q \in Procs :
      p # q /\ At(p, "insert", "ok") /\ At(q, "insert", "ok") => call[p].id # call[q].id

\* Each call takes effect at one moment, on a record that exists at that moment, also the
\* Delete that fails. There are two exceptions: the write of an Update whose record has been
\* deleted since its lookup, and the write of a new repository over one that was told the
\* same id.
AtomicButForLateWrites ==
  /\ Atomic!Init
  /\ [][\/ Atomic!Next
        \/ \E p \in Procs :
             \/ WriteRow(p) /\ rows[call[p].id] = Absent
             \/ InsertRepository(p) /\ rows[call[p].id] # Absent]_Atomic!vars
=============================================================================
