------------------------------- MODULE Paging -------------------------------
(***************************************************************************)
(* ListScans (and ListRepositories, its copy) seen by clients: one sends   *)
(* any body, another reads the whole table page by page while scans are    *)
(* being updated.  One List call is one step on memdb, where the table is  *)
(* quiet but for updates; on PostgreSQL, count and query are two, and each *)
(* may fail.                                                               *)
(***************************************************************************)
EXTENDS Pages, SequencesExt

CONSTANTS
  Rows,        \* the largest table
  MaxUpdates,  \* how often scans are updated meanwhile
  DBMayFail,   \* PostgreSQL may fail in a statement, or break off between two rows
  Bodies       \* the request bodies of the first client, NoBody included

NoBody == [none |-> TRUE]

ASSUME PagingAssumption == Rows \in 0..MaxInt /\ MaxUpdates \in Nat /\ DBMayFail \in BOOLEAN

VARIABLES
  backend,  \* the DATABASE_TYPE
  table,    \* the rows in the order of a sequential read
  updates,  \* how many updates there have been
  pc,       \* where the client stands
  body,     \* its request
  walking,  \* it reads the whole table
  counted,  \* SELECT count(*)
  answer,   \* the last answer
  failed,   \* the database has failed in a request of the client, or broken off
  seen      \* what a walking client has been shown, in this order

pagingVars == <<backend, table, updates, pc, body, walking, counted, answer, failed, seen>>

\* A field that the body leaves out is 0; without a body there are defaults.
Params(b) ==
  IF b = NoBody THEN [offset |-> 0, pageSize |-> 20]
  ELSE [offset   |-> IF "offset" \in DOMAIN b THEN b.offset ELSE 0,
        pageSize |-> IF "pageSize" \in DOMAIN b THEN b.pageSize ELSE 0]

ASSUME BodiesAssumption == \A b \in Bodies : Params(b) \in [offset : Int, pageSize : Int]

Answer(status, total, items) == [status |-> status, total |-> total, items |-> items]
NoAnswer == Answer(0, 0, <<>>)
Is404 == Answer(404, 0, <<>>)
Is500 == Answer(500, 0, <<>>)
Panic == Answer(-1, 0, <<>>)    \* the connection is closed without an answer

AnswerMem(rows, p) ==
  LET total == Len(rows)
      limit == PageLimit(total, p.offset, p.pageSize)
  IN  IF Refused(total, p.offset, p.pageSize) THEN Is404
      ELSE IF total = 0 THEN Answer(200, 0, <<>>)
      ELSE IF RunsOut(rows, p.offset, limit) THEN Panic
      ELSE Answer(200, total, MemItems(rows, p.offset, limit))

\* Mutant: an error of the query is not answered.
AnswerPsqlSilent(rows, total, p) ==
  IF p.offset < 0 THEN NoAnswer
  ELSE Answer(200, total, PsqlItems(rows, p.offset, p.pageSize))

\* PostgreSQL refuses a negative OFFSET.
AnswerPsql(rows, total, p) ==
  IF p.offset < 0 THEN Is500
  ELSE Answer(200, total, PsqlItems(rows, p.offset, p.pageSize))

PagingInit ==
  /\ backend \in {"memdb", "postgresql"}
  /\ table \in {[i \in 1..n |-> i] : n \in 0..Rows}
  /\ updates = 0
  /\ pc = "ready"
  /\ body = NoBody
  /\ walking \in BOOLEAN
  /\ counted = 0
  /\ answer = NoAnswer
  /\ failed = FALSE
  /\ seen = <<>>

\* The first client sends one request; the second asks for the rows after those it has,
\* with the page size of its first request, until it has as many as there are.
Request ==
  /\ pc = "ready"
  /\ IF walking
     THEN \E k \in 1..Rows :
            /\ answer # NoAnswer => k = body.pageSize
            /\ body' = [offset |-> Len(seen), pageSize |-> k]
     ELSE body' \in Bodies
  /\ pc' = "list"
  /\ UNCHANGED <<backend, table, updates, walking, counted, answer, failed, seen>>

Respond(a) ==
  /\ answer' = a
  /\ seen' = seen \o a.items
  /\ pc' = IF walking /\ a.status = 200 /\ a.items # <<>> /\ Len(seen') < a.total
           THEN "ready" ELSE "end"
  /\ UNCHANGED <<backend, table, updates, body, walking>>

ListMem ==
  /\ backend = "memdb"
  /\ pc = "list"
  /\ Respond(AnswerMem(table, Params(body)))
  /\ UNCHANGED <<counted, failed>>

Fail == DBMayFail /\ failed' = TRUE

\* SELECT count(*), and the guards.
CountPsql ==
  /\ backend = "postgresql"
  /\ pc = "list"
  /\ \/ /\ counted' = Len(table)
        /\ UNCHANGED failed
        /\ IF Refused(Len(table), Params(body).offset, Params(body).pageSize)
           THEN Respond(Is404)
           ELSE pc' = "query" /\ UNCHANGED <<backend, table, updates, body, walking, answer, seen>>
     \/ Fail /\ Respond(Is500) /\ UNCHANGED counted

\* The query. List does not ask for rows.Err: when the connection breaks off between two rows,
\* those before are the page.
QueryPsql ==
  /\ pc = "query"
  /\ UNCHANGED counted
  /\ LET full == AnswerPsql(table, counted, Params(body))
     IN  \/ Respond(full) /\ UNCHANGED failed
         \/ Fail /\ Respond(Is500)
         \/ Fail /\ \E n \in 0..Len(full.items) :
              Respond([full EXCEPT !.items = SubSeq(@, 1, n)])

\* An UPDATE of a scan. PostgreSQL writes a new version of the row behind the others; memdb
\* reads in the order of the index.
UpdateRow(i) ==
  /\ updates < MaxUpdates
  /\ pc # "end"
  /\ updates' = updates + 1
  /\ table' = IF backend = "postgresql"
              THEN Append(RemoveAt(table, i), table[i])
              ELSE table
  /\ UNCHANGED <<backend, pc, body, walking, counted, answer, failed, seen>>

PagingNext ==
  Request \/ ListMem \/ CountPsql \/ QueryPsql \/ \E i \in DOMAIN table : UpdateRow(i)

PagingSpec == PagingInit /\ [][PagingNext]_pagingVars

-----------------------------------------------------------------------------
(* Properties.                                                             *)

\* Every variable has its type, and every request ends with an answer or a panic.
PagingTypeOK ==
  /\ backend \in {"memdb", "postgresql"}
  /\ ToSet(table) \subseteq 1..Rows
  /\ updates \in 0..MaxUpdates
  /\ pc \in {"ready", "list", "query", "end"}
  /\ walking \in BOOLEAN
  /\ counted \in 0..Rows
  /\ failed \in BOOLEAN
  /\ answer.status \in {0, 200, 404, 500, -1}
  /\ pc = "end" => answer.status # 0

\* memdb reads in the order of the ids, PostgreSQL in an order that an UPDATE changes.
Ordered == backend = "memdb" \/ updates = 0

\* A client that reads page after page, each from where the last one ended, is shown no row
\* twice and, unless the database fails it, every row, whatever page size it takes, and on
\* memdb whatever is updated meanwhile. "allows retrieving a paginated list of all scans".
WalkShowsAll ==
  pc = "end" /\ walking /\ Ordered =>
    IsInjective(seen) /\ (failed \/ ToSet(seen) = ToSet(table))

\* The page a request with such parameters should be answered with: the rows at the
\* positions offset + 1 and on, at most pageSize of them.
PageOf(rows, p) ==
  LET at == {i \in DOMAIN rows : i > p.offset /\ i - p.offset <= p.pageSize}
  IN  [i \in 1..Cardinality(at) |-> rows[p.offset + i]]

\* Every request that says how many rows it wants (no body at all means 20), from an offset
\* that is not negative, is answered with its page of the table as it is when the rows are
\* read, or with 404, when the offset is past the end or the page size not positive. No
\* arithmetic of List wraps or runs past the last row. If the database fails the answer is
\* 500, or the page ends too early.
AnswersThePage ==
  LET p == Params(body)
      inBounds == p.offset <= Len(table) /\ p.pageSize > 0
      Page(size) == Answer(200, Len(table), PageOf(table, [p EXCEPT !.pageSize = size]))
  IN  pc = "end" /\ ~walking /\ p.offset >= 0 /\ (body = NoBody \/ "pageSize" \in DOMAIN body) =>
        \/ ~inBounds /\ answer = Is404
        \/ inBounds /\ answer = Page(p.pageSize)
        \/ failed /\ answer = Is500
        \/ failed /\ inBounds /\ \E size \in 0..p.pageSize : answer = Page(size)
=============================================================================
