------------------------------- MODULE Pages -------------------------------
(***************************************************************************)
(* How List cuts a page out of a table: on memdb with an iterator and      *)
(* int32 arithmetic (src/go/store_scans_memdb.go and its copy for          *)
(* repositories), on PostgreSQL with LIMIT and OFFSET                      *)
(* (src/go/store_scans_psql.go).  A table is the sequence of its rows in   *)
(* the order in which they are read.                                       *)
(***************************************************************************)
EXTENDS Integers, Sequences

CONSTANT MaxInt   \* the largest int32

ASSUME PagesAssumption == MaxInt \in Nat \ {0}

MinInt == -MaxInt - 1

\* There are this many values of an int32.
Modulus == 2 * MaxInt + 2

\* What an int32 holds when n is stored in it.
Wrap(n) == ((n - MinInt) % Modulus) + MinInt

\* The guards of List, and the page size not checked against any upper bound.
Refused(total, off, size) == off > total \/ size < 1

\* Mutant: a page is never cut to what is left.
PageLimitUncut(total, off, size) == size

\* limit := total - Offset, or the page size when that is less.
PageLimit(total, off, size) ==
  LET left == Wrap(total - off)
  IN  IF left > size THEN size ELSE left

\* Mutant: "skipping offset-1 records", as the comment has it.
SkippedLessOne(off) == IF off > 1 THEN off - 1 ELSE 0

\* The first loop of List.
Skipped(off) == IF off > 0 THEN off ELSE 0

\* Next returns nil after the last row, and the type assertion on nil panics.
RunsOut(rows, off, limit) == limit > 0 /\ Skipped(off) + limit > Len(rows)

MemItems(rows, off, limit) ==
  IF limit > 0 THEN SubSeq(rows, Skipped(off) + 1, Skipped(off) + limit) ELSE <<>>

Smaller(a, b) == IF a < b THEN a ELSE b

\* SELECT ... LIMIT size OFFSET off.
PsqlItems(rows, off, size) == SubSeq(rows, off + 1, Smaller(off + size, Len(rows)))
=============================================================================
