------------------------------ MODULE ScanIds ------------------------------
(***************************************************************************)
(* Where scans get their ids on PostgreSQL: NextId and Insert of           *)
(* src/go/store_scans_psql.go, called by requests at once, with the        *)
(* numbers of generateObjIds (src/go/store_scans.go), which counts from 1  *)
(* in every process.  EncodeScanId is one to one, so an id is its number.  *)
(***************************************************************************)
EXTENDS Naturals, FiniteSets

CONSTANTS
  Posts,      \* POST requests
  MaxCrashes, \* bound: how often the process is killed and started again
  MaxErrors   \* bound: how often a lookup fails

ASSUME ScanIdsAssumption == MaxCrashes \in Nat /\ MaxErrors \in Nat

VARIABLES
  next,     \* what the generator sends next
  rows,     \* the ids in table scans
  pc,       \* pc[c]: where request c stands
  id,       \* id[c]: its tmpId
  crashes,  \* how often the process was killed
  errors    \* how often a lookup has failed

idVars == <<next, rows, pc, id, crashes, errors>>

IdsInit ==
  /\ next = 1
  /\ rows = {}
  /\ pc = [c \in Posts |-> "new"]
  /\ id = [c \in Posts |-> 0]
  /\ crashes = 0
  /\ errors = 0

GoTo(c, place) == pc' = [pc EXCEPT ![c] = place]

TakeId(c) ==
  /\ pc[c] \in {"new", "next"}
  /\ id' = [id EXCEPT ![c] = next]
  /\ next' = next + 1
  /\ GoTo(c, "check")
  /\ UNCHANGED <<rows, crashes, errors>>

\* Mutant: the id is not looked up.
FreeUnchecked(i) == TRUE

\* Retrieve says that the id does not exist.
Free(i) == i \notin rows

\* Mutant: an id that exists ends the search.
AfterTakenGivesUp == "gaveUp"

\* for { ... } goes on.
AfterTaken == "next"

CheckId(c) ==
  /\ pc[c] = "check"
  /\ GoTo(c, IF Free(id[c]) THEN "insert" ELSE AfterTaken)
  /\ UNCHANGED <<next, rows, id, crashes, errors>>

\* INSERT INTO scans: an id that exists violates the primary key.
InsertRow(c) ==
  /\ pc[c] = "insert"
  /\ IF id[c] \in rows
     THEN GoTo(c, "error") /\ UNCHANGED rows
     ELSE GoTo(c, "created") /\ rows' = rows \union {id[c]}
  /\ UNCHANGED <<next, id, crashes, errors>>

\* The INSERT fails for another reason, which is answered with 500.
RefuseRow(c) ==
  /\ pc[c] = "insert"
  /\ GoTo(c, "failed")
  /\ UNCHANGED <<next, rows, id, crashes, errors>>

\* An error of Retrieve other than "does not exist" is taken as if the id existed.
FailLookup(c) ==
  /\ pc[c] = "check"
  /\ errors < MaxErrors
  /\ errors' = errors + 1
  /\ GoTo(c, AfterTaken)
  /\ UNCHANGED <<next, rows, id, crashes>>

\* A DELETE has come to its last statement.
DeleteRow(i) ==
  /\ rows' = rows \ {i}
  /\ UNCHANGED <<next, pc, id, crashes, errors>>

\* The process is killed and the generator starts again; the requests in lost are gone.
Kill(lost) ==
  /\ crashes < MaxCrashes
  /\ crashes' = crashes + 1
  /\ next' = 1
  /\ pc' = [c \in Posts |-> IF c \in lost THEN "lost" ELSE pc[c]]
  /\ UNCHANGED <<rows, id, errors>>

\* Gone are those that search, and any that have not come that far.
Crash ==
  \E lost \in SUBSET {c \in Posts : pc[c] \in {"new", "next", "check", "insert"}} :
    /\ \A c \in Posts \ lost : pc[c] \notin {"next", "check", "insert"}
    /\ Kill(lost)

IdsNext ==
  \/ \E c \in Posts : TakeId(c) \/ CheckId(c) \/ InsertRow(c) \/ RefuseRow(c) \/ FailLookup(c)
  \/ \E i \in rows : DeleteRow(i)
  \/ Crash

IdsSpec == IdsInit /\ [][IdsNext]_idVars

-----------------------------------------------------------------------------
(* Properties.                                                             *)

IdsTypeOK ==
  /\ next \in Nat \ {0}
  /\ rows \subseteq Nat
  /\ pc \in [Posts -> {"new", "next", "check", "insert", "created", "error", "failed", "lost"}]
  /\ id \in [Posts -> Nat]
  /\ crashes \in 0..MaxCrashes
  /\ errors \in 0..MaxErrors

\* Although ids are looked up in one statement and inserted in another, and the numbers
\* start again with every process, no insertion meets a row under its id: no POST fails
\* because of its id.
NoIdClash == \A c \in Posts : pc[c] # "error"
=============================================================================
