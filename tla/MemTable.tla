------------------------------ MODULE MemTable ------------------------------
(***************************************************************************)
(* A go-memdb table with the counter total beside it, as ScanStoreMemDB    *)
(* (src/go/store_scans_memdb.go) uses it, and by copy RepoStoreMemDB.      *)
(* memdb runs one write transaction at a time and reads a snapshot: a      *)
(* committed write transaction is one step, and so is a read transaction.  *)
(* total is a plain field: each access to it, outside every transaction,   *)
(* is a step.  How Insert comes by an id differs between the two stores    *)
(* and is left to MemStores.tla.                                           *)
(***************************************************************************)
EXTENDS Pages, FiniteSets

CONSTANTS
  Procs,      \* the goroutines that call the store
  MaxId,      \* bound: the ids are 1 to MaxId
  Vals,       \* the contents of a record
  Written,    \* those that callers who do as they like write
  Absent,     \* no record
  Params      \* the offsets and page sizes List is called with

Ids == 1..MaxId

ASSUME MemTableAssumption ==
  /\ IsFiniteSet(Procs)
  /\ MaxId \in Nat \ {0}
  /\ Absent \notin Vals /\ Written \subseteq Vals
  /\ Params \subseteq [offset : MinInt..MaxInt, pageSize : MinInt..MaxInt]

VARIABLES
  rows,   \* rows[i]: the record with id i, or Absent
  total,  \* the field total
  call,   \* call[p]: where p's call stands, its arguments, locals and result
  drift,  \* history: rows that Update added, less rows that Insert overwrote
  raced   \* history: an increment or decrement of total was lost

tableVars == <<rows, total, call, drift, raced>>

Existing == {i \in Ids : rows[i] # Absent}

NoPage == [offset |-> 0, pageSize |-> 0]

Idle ==
  [pc |-> "idle", op |-> "none", id |-> 0, val |-> Absent, reg |-> 0,
   page |-> NoPage, snap |-> <<>>, items |-> <<>>]

\* A table that already holds the first n ids, or an empty one.
TableInit(n, v) ==
  /\ rows  = [i \in Ids |-> IF i <= n THEN v ELSE Absent]
  /\ total = n
  /\ call  = [p \in Procs |-> Idle]
  /\ drift = 0
  /\ raced = FALSE

At(p, op, pc) == call[p].op = op /\ call[p].pc = pc
Go(p, pc) == call' = [call EXCEPT ![p].pc = pc]
Ended(p) == call[p].pc \in {"ok", "missing", "failed", "refused", "panic"}

-----------------------------------------------------------------------------
(* The calls. Each may begin when the caller is idle.                      *)

Begin(p, c) == call[p].pc = "idle" /\ call' = [call EXCEPT ![p] = c]

BeginInsert(p, v) == Begin(p, [Idle EXCEPT !.pc = "id", !.op = "insert", !.val = v])
BeginRetrieve(p, i) == Begin(p, [Idle EXCEPT !.pc = "lookup", !.op = "retrieve", !.id = i])
BeginDelete(p, i) == Begin(p, [Idle EXCEPT !.pc = "lookup", !.op = "delete", !.id = i])
BeginUpdate(p, i, v) ==
  Begin(p, [Idle EXCEPT !.pc = "lookup", !.op = "update", !.id = i, !.val = v])
BeginList(p, page) == Begin(p, [Idle EXCEPT !.pc = "check", !.op = "list", !.page = page])

-----------------------------------------------------------------------------
(* Insert, once it has an id; Retrieve; Delete; Update.                    *)

\* txn.Insert and Commit: a record with this id is replaced.
InsertRow(p, i) ==
  /\ rows'  = [rows EXCEPT ![i] = call[p].val]
  /\ drift' = IF rows[i] = Absent THEN drift ELSE drift - 1
  /\ call'  = [call EXCEPT ![p].id = i, ![p].pc = "count"]
  /\ UNCHANGED <<total, raced>>

\* Retrieve, also as the first thing Delete and Update do. The result is a clone.
AfterLookup(op) ==
  CASE op = "retrieve" -> "ok" [] op = "delete" -> "remove" [] op = "update" -> "write"

Lookup(p) ==
  /\ call[p].pc = "lookup"
  /\ LET c == call[p]
     IN  IF rows[c.id] = Absent
         THEN Go(p, "missing")
         ELSE call' = [call EXCEPT ![p].pc  = AfterLookup(c.op),
                                   ![p].val = IF c.op = "update" THEN c.val ELSE rows[c.id]]
  /\ UNCHANGED <<rows, total, drift, raced>>

\* Mutant: an aborted Delete goes on to total--.
RemoveRowCountsAborted(p) ==
  /\ At(p, "delete", "remove")
  /\ rows' = [rows EXCEPT ![call[p].id] = Absent]
  /\ Go(p, "count")
  /\ UNCHANGED <<total, drift, raced>>

\* txn.Delete fails on a record that has gone since Retrieve.
RemoveRow(p) ==
  /\ At(p, "delete", "remove")
  /\ IF rows[call[p].id] = Absent
     THEN Go(p, "failed") /\ UNCHANGED rows
     ELSE Go(p, "count") /\ rows' = [rows EXCEPT ![call[p].id] = Absent]
  /\ UNCHANGED <<total, drift, raced>>

\* Mutant: Update ends as Insert does.
WriteRowCounts(p) ==
  /\ At(p, "update", "write")
  /\ rows'  = [rows EXCEPT ![call[p].id] = call[p].val]
  /\ drift' = IF rows[call[p].id] = Absent THEN drift + 1 ELSE drift
  /\ Go(p, "count")
  /\ UNCHANGED <<total, raced>>

\* txn.Insert in Update, whether or not the record is still there.
WriteRow(p) ==
  /\ At(p, "update", "write")
  /\ rows'  = [rows EXCEPT ![call[p].id] = call[p].val]
  /\ drift' = IF rows[call[p].id] = Absent THEN drift + 1 ELSE drift
  /\ Go(p, "ok")
  /\ UNCHANGED <<total, raced>>

-----------------------------------------------------------------------------
(* total++ and total--, after Commit.                                      *)

Step(op) == IF op = "insert" THEN 1 ELSE -1

LoadTotal(p) ==
  /\ call[p].pc = "count"
  /\ call' = [call EXCEPT ![p].pc = "store", ![p].reg = total]
  /\ UNCHANGED <<rows, total, drift, raced>>

StoreTotal(p) ==
  /\ call[p].pc = "store"
  /\ total' = Wrap(call[p].reg + Step(call[p].op))
  /\ raced' = (raced \/ call[p].reg # total)
  /\ Go(p, "ok")
  /\ UNCHANGED <<rows, drift>>

-----------------------------------------------------------------------------
(* List, which reads total four times.                                     *)

CheckPage(p) ==
  /\ At(p, "list", "check")
  /\ LET page == call[p].page
     IN  Go(p, IF Refused(total, page.offset, page.pageSize) THEN "refused" ELSE "total")
  /\ UNCHANGED <<rows, total, drift, raced>>

ReadTotal(p) ==
  /\ At(p, "list", "total")
  /\ call' = [call EXCEPT ![p].pc = "empty", ![p].reg = total]
  /\ UNCHANGED <<rows, total, drift, raced>>

CheckEmpty(p) ==
  /\ At(p, "list", "empty")
  /\ Go(p, IF total = 0 THEN "ok" ELSE "snapshot")
  /\ UNCHANGED <<rows, total, drift, raced>>

\* The ids of S in the order of the index.
Ascending(S) ==
  CHOOSE s \in [1..Cardinality(S) -> S] : \A j, k \in DOMAIN s : j < k => s[j] < s[k]

\* The iterator stays on the table as it is now.
Snapshot(p) ==
  /\ At(p, "list", "snapshot")
  /\ call' = [call EXCEPT ![p].pc = "limit", ![p].snap = Ascending(Existing)]
  /\ UNCHANGED <<rows, total, drift, raced>>

ReadLimit(p) ==
  /\ At(p, "list", "limit")
  /\ LET c     == call[p]
         limit == PageLimit(total, c.page.offset, c.page.pageSize)
     IN  IF RunsOut(c.snap, c.page.offset, limit)
         THEN Go(p, "panic")
         ELSE call' = [call EXCEPT ![p].pc    = "ok",
                                   ![p].items = MemItems(c.snap, c.page.offset, limit)]
  /\ UNCHANGED <<rows, total, drift, raced>>

-----------------------------------------------------------------------------

TableBegin(p) ==
  /\ \/ \E v \in Written : BeginInsert(p, v)
     \/ \E i \in Ids : BeginRetrieve(p, i) \/ BeginDelete(p, i)
     \/ \E i \in Ids, v \in Written : BeginUpdate(p, i, v)
     \/ \E page \in Params : BeginList(p, page)
  /\ UNCHANGED <<rows, total, drift, raced>>

\* The steps of a call, but for how Insert comes by its id.
TableStep(p) ==
  \/ Lookup(p) \/ RemoveRow(p) \/ WriteRow(p) \/ LoadTotal(p) \/ StoreTotal(p)
  \/ CheckPage(p) \/ ReadTotal(p) \/ CheckEmpty(p) \/ Snapshot(p) \/ ReadLimit(p)

-----------------------------------------------------------------------------
(* Properties.                                                             *)

\* Where a call of each kind can stand.
Places(op) ==
  CASE op = "none"     -> {"idle"}
    [] op = "insert"   -> {"id", "bump", "set", "insert", "count", "store", "ok"}
    [] op = "retrieve" -> {"lookup", "missing", "ok"}
    [] op = "delete"   -> {"lookup", "missing", "remove", "failed", "count", "store", "ok"}
    [] op = "update"   -> {"lookup", "missing", "write", "ok"}
    [] op = "list"     -> {"check", "refused", "total", "empty", "snapshot", "limit", "ok", "panic"}

Ops == {"none", "insert", "retrieve", "delete", "update", "list"}

Calls ==
  [pc : UNION {Places(op) : op \in Ops}, op : Ops,
   id : Ids \union {0}, val : Vals \union {Absent}, reg : Int,
   page : Params \union {NoPage}, snap : Seq(Ids), items : Seq(Ids)]

\* Every variable has its type: a call does only the steps of its operation, total is an
\* int32.
TableTypeOK ==
  /\ rows \in [Ids -> Vals \union {Absent}]
  /\ total \in MinInt..MaxInt
  /\ call \in [Procs -> Calls]
  /\ \A p \in Procs : call[p].pc \in Places(call[p].op)
  /\ drift \in Int
  /\ raced \in BOOLEAN

\* The calls that have changed the table by one row and have not yet counted it.
Uncounted(op) == {p \in Procs : call[p].op = op /\ call[p].pc \in {"count", "store"}}

\* What total would be if nothing else went wrong.
Counted ==
  Cardinality(Existing) - Cardinality(Uncounted("insert")) + Cardinality(Uncounted("delete"))
    - drift

\* total goes wrong in three ways only: an increment or decrement is lost to another one
\* (raced), Update brings a deleted row back, or Insert replaces a row under its id
\* (drift). No error path of Insert or Delete counts what it has not done. More rows than
\* an int32 counts make it wrap.
TotalCountsRows == ~raced => total = Wrap(Counted)

\* What List counts with is within int32.
NothingWraps(page) == Counted >= MinInt /\ total - page.offset >= MinInt

\* A List at an offset that is not negative panics for one of four reasons only: a Delete is
\* between its commit and total--, rows have been added since the iterator's snapshot, a
\* count has been lost, or an Insert has replaced a row. Whatever else total and the
\* iterator see of other calls, there is a row for each item of the page.
PanicsOnlyOutOfStep ==
  [][\A p \in Procs : LET c == call[p] IN
       /\ ReadLimit(p)
       /\ call'[p].pc = "panic"
       /\ c.page.offset >= 0
       /\ NothingWraps(c.page)
       => \/ Uncounted("delete") # {}
          \/ Cardinality(Existing) > Len(c.snap)
          \/ raced
          \/ drift < 0]_tableVars

\* What p's call has done, for its caller.
Effect(p) ==
  LET c == call[p]
  IN  CASE c.pc = "missing" -> <<"missing", c.id>>
        [] c.pc = "failed" -> <<"failed">>
        [] c.op = "retrieve" /\ c.pc = "ok" -> <<"retrieved", c.id, c.val>>
        [] c.op = "insert" /\ c.pc \in {"count", "store", "ok"} -> <<"inserted", c.id>>
        [] c.op = "delete" /\ c.pc \in {"count", "store", "ok"} -> <<"deleted", c.id>>
        [] c.op = "update" /\ c.pc = "ok" -> <<"updated", c.id>>
        [] OTHER -> <<"none">>

Atomic == INSTANCE AtomicStore WITH effect <- [p \in Procs |-> Effect(p)]
=============================================================================
