---------------------------- MODULE Paging_proofs ----------------------------
(***************************************************************************)
(* What holds of List and of a client that reads page after page, for      *)
(* every width of int, every size of the table and every request.          *)
(***************************************************************************)
EXTENDS Paging, FiniteSetTheorems, SequenceTheorems, TLAPS

RowIds == 1..Rows
Tables == Seq(RowIds)

\* The rows of a page, by their positions.
Page(rows, off, size) == SubSeq(rows, off + 1, Smaller(off + size, Len(rows)))

AnswerTypes == [status : {0, 200, 404, 500, -1}, total : 0..Rows, items : Tables]

\* The request that is being answered, and the table it is answered from.
ListInv ==
  /\ backend \in {"memdb", "postgresql"}
  /\ table \in Tables /\ Len(table) <= Rows
  /\ updates \in 0..MaxUpdates
  /\ pc \in {"ready", "list", "query", "end"}
  /\ walking \in BOOLEAN
  /\ counted \in 0..Rows
  /\ answer \in AnswerTypes
  /\ failed \in BOOLEAN
  /\ seen \in Tables
  /\ pc # "ready" => Params(body) \in [offset : Int, pageSize : Int]
  /\ pc = "query" => /\ counted = Len(table)
                     /\ ~Refused(Len(table), Params(body).offset, Params(body).pageSize)
  /\ pc = "end" => answer.status # 0

\* While the order is fixed, a walking client has the rows up to one, and asks for the next.
WalkInv ==
  walking =>
    /\ pc # "ready" => Params(body).offset >= 0
    /\ Ordered =>
         /\ IsInjective(table)
         /\ Len(seen) <= Len(table) /\ seen = SubSeq(table, 1, Len(seen))
         /\ pc \in {"list", "query"} =>
              Params(body).offset = Len(seen) /\ Params(body).pageSize > 0
         /\ pc = "end" => failed \/ Len(seen) = Len(table)

PageInv == ListInv /\ AnswersThePage /\ WalkInv

-----------------------------------------------------------------------------
(* Pages.                                                                  *)

\* The arithmetic of int32 keeps what fits.
LEMMA WrapKeeps ==
  ASSUME NEW n \in MinInt..MaxInt
  PROVE  Wrap(n) = n
<1> DEFINE a == n - MinInt
<1>1. /\ MinInt \in Int /\ Modulus \in Nat \ {0} /\ MaxInt = MinInt + Modulus - 1
      /\ MaxInt \in Nat
  BY PagesAssumption DEF MinInt, Modulus
<1>2. a \in 0..(Modulus - 1)
  BY <1>1
<1>3. \A m \in Nat \ {0} : \A b \in 0..(m - 1) : b % m = b
  OBVIOUS
<1>4. a % Modulus = a
  BY <1>1, <1>2, <1>3
<1> QED
  BY <1>1, <1>4 DEF Wrap

\* A page is a piece of the table.
LEMMA PageType ==
  ASSUME NEW rows \in Tables, NEW off \in Nat, NEW size \in Nat, off <= Len(rows)
  PROVE  /\ Page(rows, off, size) \in Tables
         /\ Len(Page(rows, off, size)) = Smaller(off + size, Len(rows)) - off
         /\ \A i \in 1..Len(Page(rows, off, size)) : Page(rows, off, size)[i] = rows[off + i]
<1> DEFINE m == off + 1
           n == Smaller(off + size, Len(rows))
<1>1. Len(rows) \in Nat
  BY DEF Tables
<1>2. m \in Int /\ n \in Int /\ 1 <= m /\ n <= Len(rows) /\ n - off \in Nat
  BY <1>1 DEF Smaller
<1> HIDE DEF n
<1>3. \A i \in m..n : rows[i] \in RowIds
  BY <1>1, <1>2 DEF Tables
<1>4. /\ SubSeq(rows, m, n) \in Seq(RowIds)
      /\ Len(SubSeq(rows, m, n)) = IF m <= n THEN n - m + 1 ELSE 0
      /\ \A i \in 1..(n - m + 1) : SubSeq(rows, m, n)[i] = rows[m + i - 1]
  <2> HIDE DEF m
  <2> QED
    BY <1>2, <1>3, SubSeqProperties
<1>5. Len(SubSeq(rows, m, n)) = n - off
  BY <1>2, <1>4
<1>6. \A i \in 1..(n - off) : SubSeq(rows, m, n)[i] = rows[off + i]
  BY <1>2, <1>4
<1> QED
  BY <1>4, <1>5, <1>6 DEF Page, Tables, n

\* The iterator of memdb takes the same page, and does not run out, where nothing wraps.
LEMMA MemPage ==
  ASSUME NEW rows \in Tables, Len(rows) <= Rows, NEW off \in Nat, NEW size \in Int,
         ~Refused(Len(rows), off, size)
  PROVE  LET limit == PageLimit(Len(rows), off, size)
         IN  ~RunsOut(rows, off, limit) /\ MemItems(rows, off, limit) = Page(rows, off, size)
<1> DEFINE limit == PageLimit(Len(rows), off, size)
           left == Len(rows) - off
<1>1. /\ Len(rows) \in Nat /\ off <= Len(rows) /\ size >= 1
  BY DEF Refused, Tables
<1>2. left \in MinInt..MaxInt /\ left \in Nat
  BY <1>1, PagingAssumption, PagesAssumption DEF MinInt
<1>3. Wrap(left) = left
  <2> HIDE DEF left
  <2> QED
    BY <1>2, WrapKeeps
<1>4. limit = IF left > size THEN size ELSE left
  BY <1>3 DEF PageLimit
<1>5. Skipped(off) = off
  BY DEF Skipped
<1>6. off + limit = Smaller(off + size, Len(rows)) /\ limit \in Nat /\ off + limit <= Len(rows)
  BY <1>1, <1>2, <1>4 DEF Smaller
<1> HIDE DEF limit, left
<1>7. ~RunsOut(rows, off, limit)
  BY <1>1, <1>5, <1>6 DEF RunsOut
<1>8. MemItems(rows, off, limit) = Page(rows, off, size)
  <2>1. CASE limit > 0
    BY <1>5, <1>6, <2>1 DEF MemItems, Page
  <2>2. CASE limit = 0
    <3>1. SubSeq(rows, off + 1, off) = <<>>
      BY SubSeqEmpty
    <3>2. Smaller(off + size, Len(rows)) = off
      BY <1>6, <2>2
    <3> QED
      BY <2>2, <3>1, <3>2 DEF MemItems, Page
  <2> QED
    BY <1>6, <2>1, <2>2
<1> QED
  BY <1>7, <1>8 DEF limit

\* The page that is asked for.
LEMMA PageAsked ==
  ASSUME NEW rows \in Tables, NEW p \in [offset : Int, pageSize : Int],
         p.offset >= 0, p.offset <= Len(rows), p.pageSize >= 0
  PROVE  PageOf(rows, p) = Page(rows, p.offset, p.pageSize)
<1> DEFINE off == p.offset
           size == p.pageSize
           at == {i \in DOMAIN rows : i > off /\ i - off <= size}
           n == Smaller(off + size, Len(rows))
           page == Page(rows, off, size)
<1>1. Len(rows) \in Nat /\ off \in Nat /\ size \in Nat /\ off <= Len(rows)
  BY DEF Tables
<1>2. n \in Nat /\ n >= off
  BY <1>1 DEF Smaller
<1>3. at = (off + 1)..n
  <2>1. DOMAIN rows = 1..Len(rows)
    BY DEF Tables
  <2> HIDE DEF off, size
  <2> QED
    BY <1>1, <2>1 DEF Smaller
<1>4. Cardinality((off + 1)..n) = n - off
  <2> HIDE DEF off, n
  <2>1. Cardinality((off + 1)..n) = IF off + 1 > n THEN 0 ELSE n - (off + 1) + 1
    BY <1>1, <1>2, FS_Interval
  <2> QED
    BY <1>1, <1>2, <2>1
<1>5. PageOf(rows, p) = [i \in 1..Cardinality(at) |-> rows[off + i]]
  BY DEF PageOf
<1> HIDE DEF at, off, size
<1>6. PageOf(rows, p) = [i \in 1..(n - off) |-> rows[off + i]]
  BY <1>3, <1>4, <1>5
<1>7. /\ page \in Seq(RowIds) /\ Len(page) = n - off
      /\ \A i \in 1..Len(page) : page[i] = rows[off + i]
  BY <1>1, PageType DEF Tables
<1> HIDE DEF page, n
<1>8. page = [i \in 1..(n - off) |-> rows[off + i]]
  BY <1>7
<1> QED
  BY <1>6, <1>8 DEF page, off, size

\* The first rows of a page are a smaller page.
LEMMA PageStart ==
  ASSUME NEW rows \in Tables, NEW off \in Nat, NEW size \in Nat, off <= Len(rows),
         NEW n \in 0..Len(Page(rows, off, size))
  PROVE  SubSeq(Page(rows, off, size), 1, n) = Page(rows, off, n) /\ n <= size
<1> DEFINE page == Page(rows, off, size)
           short == Page(rows, off, n)
<1>1. Len(rows) \in Nat
  BY DEF Tables
<1>2. /\ page \in Tables /\ Len(page) = Smaller(off + size, Len(rows)) - off
      /\ \A i \in 1..Len(page) : page[i] = rows[off + i]
  BY PageType
<1>3. Len(page) \in Nat /\ Len(page) <= size /\ off + Len(page) <= Len(rows)
  BY <1>1, <1>2 DEF Smaller
<1>4. n \in Nat /\ n <= Len(page) /\ Smaller(off + n, Len(rows)) = off + n
  <2> HIDE DEF page
  <2> QED
    BY <1>1, <1>3 DEF Smaller, page
<1>5. /\ short \in Tables /\ Len(short) = n
      /\ \A i \in 1..n : short[i] = rows[off + i]
  BY <1>1, <1>4, PageType
<1> HIDE DEF page, short
<1>6. \A i \in 1..n : page[i] \in RowIds
  BY <1>2, <1>3, <1>4 DEF Tables
<1>7. /\ SubSeq(page, 1, n) \in Seq(RowIds)
      /\ Len(SubSeq(page, 1, n)) = IF 1 <= n THEN n - 1 + 1 ELSE 0
      /\ \A i \in 1..(n - 1 + 1) : SubSeq(page, 1, n)[i] = page[1 + i - 1]
  BY <1>4, <1>6, SubSeqProperties
<1>8. Len(SubSeq(page, 1, n)) = n
  BY <1>4, <1>7
<1>9. \A i \in 1..n : SubSeq(page, 1, n)[i] = short[i]
  BY <1>2, <1>3, <1>4, <1>5, <1>7
<1>10. SubSeq(page, 1, n) = short
  <2> DEFINE cut == SubSeq(page, 1, n)
  <2>1. cut \in Seq(RowIds) /\ short \in Seq(RowIds) /\ Len(cut) = Len(short)
    BY <1>5, <1>7, <1>8 DEF Tables
  <2>2. \A i \in 1..Len(cut) : cut[i] = short[i]
    BY <1>8, <1>9
  <2> HIDE DEF cut
  <2> QED
    BY <2>1, <2>2, SeqEqual DEF cut
<1> QED
  BY <1>3, <1>4, <1>10 DEF page, short

-----------------------------------------------------------------------------
(* Answers.                                                                *)

LEMMA NoRows == <<>> \in Tables /\ Len(<<>>) = 0
BY DEF Tables

\* The record that Answer makes.
LEMMA AnswerType ==
  ASSUME NEW status \in {0, 200, 404, 500, -1}, NEW total \in 0..Rows, NEW items \in Tables
  PROVE  /\ Answer(status, total, items) \in AnswerTypes
         /\ Answer(status, total, items).status = status
         /\ Answer(status, total, items).total = total
         /\ Answer(status, total, items).items = items
BY DEF Answer, AnswerTypes

LEMMA OtherAnswers ==
  /\ {NoAnswer, Is404, Is500, Panic} \subseteq AnswerTypes
  /\ NoAnswer.status = 0 /\ NoAnswer.items = <<>>
  /\ Is404.status # 0 /\ Is500.status # 0 /\ Panic.status # 0
<1>1. 0 \in 0..Rows
  BY PagingAssumption
<1>2. \A status \in {0, 200, 404, 500, -1} : Answer(status, 0, <<>>) \in AnswerTypes
  BY <1>1, AnswerType, NoRows
<1>3. {NoAnswer, Is404, Is500, Panic} \subseteq AnswerTypes
  BY <1>2 DEF NoAnswer, Is404, Is500, Panic
<1>4. /\ NoAnswer.status = 0 /\ NoAnswer.items = <<>>
      /\ Is404.status # 0 /\ Is500.status # 0 /\ Panic.status # 0
  BY DEF NoAnswer, Is404, Is500, Panic, Answer
<1> QED
  BY <1>3, <1>4

\* What a request with the parameters p is answered with from these rows.
Answers(a, rows, p) ==
  /\ a \in AnswerTypes /\ a.status # 0
  /\ Refused(Len(rows), p.offset, p.pageSize) => a = Is404
  /\ ~Refused(Len(rows), p.offset, p.pageSize) /\ p.offset >= 0 =>
       a = Answer(200, Len(rows), Page(rows, p.offset, p.pageSize))

\* What it may be answered with when the database fails.
Breaks(a, rows, p) ==
  /\ a \in AnswerTypes /\ a.status # 0
  /\ \/ a = Is500
     \/ /\ ~Refused(Len(rows), p.offset, p.pageSize) /\ p.offset >= 0
        /\ \E k \in 0..p.pageSize : a = Answer(200, Len(rows), Page(rows, p.offset, k))

LEMMA MemAnswers ==
  ASSUME NEW rows \in Tables, Len(rows) <= Rows, NEW p \in [offset : Int, pageSize : Int]
  PROVE  Answers(AnswerMem(rows, p), rows, p)
<1> DEFINE off == p.offset
           size == p.pageSize
           total == Len(rows)
           limit == PageLimit(total, off, size)
           a == AnswerMem(rows, p)
<1>1. off \in Int /\ size \in Int /\ total \in 0..Rows
  BY PagingAssumption DEF Tables
<1>2. CASE Refused(total, off, size)
  BY <1>2, OtherAnswers DEF AnswerMem, Answers
<1>3. CASE ~Refused(total, off, size) /\ total = 0
  <2>1. a = Answer(200, 0, <<>>)
    BY <1>3 DEF AnswerMem
  <2>2. a \in AnswerTypes /\ a.status = 200
    BY <1>1, <1>3, <2>1, AnswerType, NoRows
  <2>3. ASSUME off >= 0
        PROVE  Page(rows, off, size) = <<>>
    <3>1. off = 0 /\ Smaller(off + size, total) = 0
      BY <1>1, <1>3, <2>3 DEF Refused, Smaller
    <3>2. SubSeq(rows, 1, 0) = <<>>
      BY SubSeqEmpty
    <3> QED
      BY <3>1, <3>2 DEF Page
  <2> QED
    BY <1>3, <2>1, <2>2, <2>3 DEF Answers
<1>4. CASE ~Refused(total, off, size) /\ total # 0 /\ RunsOut(rows, off, limit)
  <2>1. a = Panic
    BY <1>4 DEF AnswerMem
  <2>2. ~(off >= 0)
    BY <1>1, <1>4, MemPage
  <2> QED
    BY <1>4, <2>1, <2>2, OtherAnswers DEF Answers
<1>5. CASE ~Refused(total, off, size) /\ total # 0 /\ ~RunsOut(rows, off, limit)
  <2> DEFINE items == MemItems(rows, off, limit)
  <2>1. a = Answer(200, total, items)
    BY <1>5 DEF AnswerMem
  <2>2. items \in Tables
    <3>1. CASE off >= 0
      <4>1. off \in Nat /\ size \in Nat /\ off <= total
        BY <1>1, <1>5, <3>1 DEF Refused
      <4>2. items = Page(rows, off, size)
        BY <1>1, <1>5, <3>1, MemPage
      <4> QED
        BY <4>1, <4>2, PageType
    <3>2. CASE limit > 0 /\ ~(off >= 0)
      <4>1. limit \in Int
        <5>1. Wrap(total - off) \in Int
          BY <1>1, PagesAssumption DEF Wrap, MinInt, Modulus
        <5> QED
          BY <1>1, <5>1 DEF PageLimit
      <4> HIDE DEF limit
      <4>2. Skipped(off) = 0
        BY <1>1, <3>2 DEF Skipped
      <4>3. limit <= Len(rows)
        BY <1>5, <3>2, <4>1, <4>2 DEF RunsOut
      <4>4. \A i \in 1..limit : rows[i] \in RowIds
        BY <1>1, <4>1, <4>3 DEF Tables
      <4>5. SubSeq(rows, 1, limit) \in Seq(RowIds)
        BY <4>1, <4>4, SubSeqProperties
      <4> QED
        BY <3>2, <4>2, <4>1, <4>5 DEF MemItems, Tables
    <3>3. CASE ~(limit > 0)
      BY <3>3, NoRows DEF MemItems
    <3> QED
      BY <3>1, <3>2, <3>3
  <2>3. off >= 0 => items = Page(rows, off, size)
    BY <1>1, <1>5, MemPage
  <2> HIDE DEF items
  <2>4. a \in AnswerTypes /\ a.status = 200
    BY <1>1, <2>1, <2>2, AnswerType
  <2> QED
    BY <1>5, <2>1, <2>3, <2>4 DEF Answers
<1> QED
  BY <1>2, <1>3, <1>4, <1>5

LEMMA PsqlAnswers ==
  ASSUME NEW rows \in Tables, Len(rows) <= Rows, NEW p \in [offset : Int, pageSize : Int],
         ~Refused(Len(rows), p.offset, p.pageSize)
  PROVE  Answers(AnswerPsql(rows, Len(rows), p), rows, p)
<1> DEFINE off == p.offset
           size == p.pageSize
           total == Len(rows)
           a == AnswerPsql(rows, total, p)
<1>1. off \in Int /\ size \in Int /\ total \in 0..Rows
  BY PagingAssumption DEF Tables
<1>2. CASE off < 0
  BY <1>1, <1>2, OtherAnswers DEF AnswerPsql, Answers
<1>3. CASE ~(off < 0)
  <2>1. a = Answer(200, total, Page(rows, off, size))
    BY <1>3 DEF AnswerPsql, PsqlItems, Page
  <2>2. off \in Nat /\ size \in Nat /\ off <= Len(rows)
    BY <1>1, <1>3 DEF Refused
  <2>3. Page(rows, off, size) \in Tables
    BY <2>2, PageType
  <2>4. a \in AnswerTypes /\ a.status = 200
    BY <1>1, <2>1, <2>3, AnswerType
  <2> QED
    BY <2>1, <2>4 DEF Answers
<1> QED
  BY <1>2, <1>3

\* The rows break off.
LEMMA PsqlBreaks ==
  ASSUME NEW rows \in Tables, Len(rows) <= Rows, NEW p \in [offset : Int, pageSize : Int],
         ~Refused(Len(rows), p.offset, p.pageSize),
         NEW full, full = AnswerPsql(rows, Len(rows), p), NEW n \in 0..Len(full.items)
  PROVE  Breaks([full EXCEPT !.items = SubSeq(@, 1, n)], rows, p)
<1> DEFINE off == p.offset
           size == p.pageSize
           total == Len(rows)
           a == [full EXCEPT !.items = SubSeq(@, 1, n)]
<1>1. off \in Int /\ size \in Int /\ total \in 0..Rows
  BY PagingAssumption DEF Tables
<1>2. CASE off < 0
  <2>1. full = Is500
    BY <1>2 DEF AnswerPsql
  <2>2. full.items = <<>> /\ n = 0
    BY <2>1 DEF Is500, Answer
  <2>3. SubSeq(<<>>, 1, 0) = <<>>
    BY SubSeqEmpty
  <2>4. a = Is500
    BY <2>1, <2>2, <2>3 DEF Is500, Answer
  <2> QED
    BY <2>4, OtherAnswers DEF Breaks
<1>3. CASE ~(off < 0)
  <2>1. full = Answer(200, total, Page(rows, off, size))
    BY <1>3 DEF AnswerPsql, PsqlItems, Page
  <2>2. off \in Nat /\ size \in Nat /\ off <= Len(rows)
    BY <1>1, <1>3 DEF Refused
  <2>3. full.items = Page(rows, off, size)
    BY <2>1 DEF Answer
  <2>4. SubSeq(full.items, 1, n) = Page(rows, off, n) /\ n <= size /\ n \in Nat
    BY <2>2, <2>3, PageStart
  <2>5. a = Answer(200, total, Page(rows, off, n))
    BY <2>1, <2>4 DEF Answer
  <2>6. Page(rows, off, n) \in Tables
    BY <2>2, <2>4, PageType
  <2>8. n \in 0..size
    BY <2>2, <2>4
  <2> HIDE DEF a, total
  <2>7. a \in AnswerTypes /\ a.status = 200
    BY <1>1, <2>5, <2>6, AnswerType
  <2>9. \E k \in 0..size : a = Answer(200, total, Page(rows, off, k))
    BY <2>5, <2>8
  <2> QED
    BY <1>1, <1>3, <2>7, <2>9 DEF Breaks, a, total
<1> QED
  BY <1>2, <1>3

-----------------------------------------------------------------------------
(* The invariant.                                                          *)

LEMMA ParamsOfPage ==
  ASSUME NEW n \in Nat, NEW k \in Nat
  PROVE  Params([offset |-> n, pageSize |-> k]) = [offset |-> n, pageSize |-> k]
<1> DEFINE b == [offset |-> n, pageSize |-> k]
<1>1. DOMAIN b = {"offset", "pageSize"} /\ b.offset = n /\ b.pageSize = k
  OBVIOUS
<1>2. DOMAIN NoBody = {"none"}
  BY DEF NoBody
<1> HIDE DEF b
<1>3. b # NoBody
  BY <1>1, <1>2
<1> QED
  BY <1>1, <1>3 DEF Params, b

\* An UPDATE on PostgreSQL moves a row and keeps the number of rows.
LEMMA RowMoves ==
  ASSUME NEW rows \in Tables, NEW i \in DOMAIN rows
  PROVE  /\ Append(RemoveAt(rows, i), rows[i]) \in Tables
         /\ Len(Append(RemoveAt(rows, i), rows[i])) = Len(rows)
<1> DEFINE n == Len(rows)
           before == SubSeq(rows, 1, i - 1)
           after == SubSeq(rows, i + 1, n)
<1>1. n \in Nat /\ i \in 1..n /\ \A j \in 1..n : rows[j] \in RowIds
  BY DEF Tables
<1>2. before \in Seq(RowIds) /\ Len(before) = i - 1
  <2>1. \A j \in 1..(i - 1) : rows[j] \in RowIds
    BY <1>1
  <2>2. /\ before \in Seq(RowIds)
        /\ Len(before) = IF 1 <= i - 1 THEN i - 1 - 1 + 1 ELSE 0
    BY <1>1, <2>1, SubSeqProperties
  <2> QED
    BY <1>1, <2>2
<1>3. after \in Seq(RowIds) /\ Len(after) = n - i
  <2>1. \A j \in (i + 1)..n : rows[j] \in RowIds
    BY <1>1
  <2>2. /\ after \in Seq(RowIds)
        /\ Len(after) = IF i + 1 <= n THEN n - (i + 1) + 1 ELSE 0
    BY <1>1, <2>1, SubSeqProperties
  <2> QED
    BY <1>1, <2>2
<1> HIDE DEF before, after
<1>4. before \o after \in Seq(RowIds) /\ Len(before \o after) = n - 1
  BY <1>1, <1>2, <1>3, ConcatProperties
<1>5. RemoveAt(rows, i) = before \o after
  BY DEF RemoveAt, before, after
<1> QED
  BY <1>1, <1>4, <1>5, AppendProperties DEF Tables

LEMMA PageInvInit == PagingInit => PageInv
<1> SUFFICES ASSUME PagingInit PROVE PageInv
  OBVIOUS
<1>1. PICK n \in 0..Rows : table = [i \in 1..n |-> i]
  BY DEF PagingInit
<1>2. n \in Nat /\ Rows \in Nat /\ MaxUpdates \in Nat
  BY PagingAssumption
<1>3. table \in Tables /\ Len(table) = n /\ IsInjective(table)
  BY <1>1, <1>2 DEF Tables, RowIds, IsInjective
<1>4. /\ backend \in {"memdb", "postgresql"} /\ updates = 0 /\ pc = "ready"
      /\ walking \in BOOLEAN /\ counted = 0 /\ answer = NoAnswer /\ failed = FALSE /\ seen = <<>>
  BY DEF PagingInit
<1>5. ListInv
  <2>1. answer \in AnswerTypes /\ seen \in Tables
    BY <1>4, OtherAnswers, NoRows
  <2>2. failed \in BOOLEAN
    BY <1>4
  <2>3. updates \in 0..MaxUpdates /\ counted \in 0..Rows
    BY <1>2, <1>4
  <2> QED
    BY <1>2, <1>3, <1>4, <2>1, <2>2, <2>3 DEF ListInv
<1>6. WalkInv
  <2>1. Len(seen) = 0
    BY <1>4
  <2>2. SubSeq(table, 1, 0) = <<>>
    BY SubSeqEmpty
  <2> QED
    BY <1>2, <1>3, <1>4, <2>1, <2>2 DEF WalkInv
<1> QED
  BY <1>4, <1>5, <1>6 DEF PageInv, AnswersThePage

\* The rows that a walking client gets are those after the ones it has.
LEMMA WalkGoesOn ==
  ASSUME NEW off \in Nat, NEW size \in Nat, table \in Tables, off <= Len(table),
         seen = SubSeq(table, 1, off)
  PROVE  LET page == Page(table, off, size)
         IN  /\ seen \o page = SubSeq(table, 1, Len(seen \o page))
             /\ Len(seen \o page) <= Len(table)
             /\ size > 0 /\ page = <<>> => Len(seen \o page) = Len(table)
<1> DEFINE page == Page(table, off, size)
           n == Smaller(off + size, Len(table))
<1>1. Len(table) \in Nat /\ \A i \in 1..Len(table) : table[i] \in RowIds
  BY DEF Tables
<1>2. n \in Nat /\ off <= n /\ n <= Len(table) /\ (size > 0 /\ n = off => off = Len(table))
  BY <1>1 DEF Smaller
<1>3. page \in Seq(RowIds) /\ Len(page) = n - off /\ page = SubSeq(table, off + 1, n)
  BY PageType DEF Tables, Page
<1>4. seen \in Seq(RowIds) /\ Len(seen) = off
  <2>1. \A i \in 1..off : table[i] \in RowIds
    BY <1>1
  <2>2. /\ SubSeq(table, 1, off) \in Seq(RowIds)
        /\ Len(SubSeq(table, 1, off)) = IF 1 <= off THEN off - 1 + 1 ELSE 0
    BY <2>1, SubSeqProperties
  <2> QED
    BY <2>2
<1> HIDE DEF page, n
<1>5. Len(seen \o page) = n
  BY <1>2, <1>3, <1>4, ConcatProperties
<1>6. seen \o page = SubSeq(table, 1, n)
  BY <1>1, <1>2, <1>3, ConcatAdjacentSubSeq DEF Tables
<1>7. page = <<>> => n = off
  BY <1>2, <1>3
<1> QED
  BY <1>2, <1>5, <1>6, <1>7 DEF page

\* The response to a request, from the table as it is: what it must be, or what a failing
\* database makes of it.
LEMMA Responds ==
  ASSUME PageInv, pc \in {"list", "query"}, NEW a, Respond(a), counted' \in 0..Rows,
         \/ Answers(a, table, Params(body)) /\ UNCHANGED failed
         \/ Breaks(a, table, Params(body)) /\ failed' = TRUE
  PROVE  PageInv'
<1> DEFINE p == Params(body)
           off == p.offset
           size == p.pageSize
           inBounds == off <= Len(table) /\ size > 0
<1>1. ListInv /\ WalkInv /\ p \in [offset : Int, pageSize : Int]
  BY DEF PageInv, ListInv
<1>2. /\ answer' = a /\ seen' = seen \o a.items /\ pc' \in {"ready", "end"}
      /\ pc' = "ready" => walking
      /\ walking /\ pc' = "end" => ~(a.status = 200 /\ a.items # <<>> /\ Len(seen') < a.total)
      /\ UNCHANGED <<backend, table, updates, body, walking>>
  BY DEF Respond
<1>3. a \in AnswerTypes /\ a.status # 0 /\ a.items \in Tables /\ failed' \in BOOLEAN
  BY <1>1 DEF Answers, Breaks, AnswerTypes, ListInv
<1>4. off \in Int /\ size \in Int /\ table \in Tables /\ Len(table) \in Nat
  BY <1>1 DEF ListInv, Tables
<1>5. inBounds <=> ~Refused(Len(table), off, size)
  BY <1>4 DEF Refused
<1>6. ASSUME off >= 0
      PROVE  \/ ~inBounds /\ a = Is404
             \/ inBounds /\ a = Answer(200, Len(table), Page(table, off, size))
             \/ failed' = TRUE /\ a = Is500
             \/ /\ failed' = TRUE /\ inBounds
                /\ \E k \in 0..size : a = Answer(200, Len(table), Page(table, off, k))
  BY <1>5, <1>6 DEF Answers, Breaks
<1>7. ListInv'
  <2>1. seen' \in Tables
    BY <1>1, <1>2, <1>3, ConcatProperties DEF ListInv, Tables
  <2> QED
    BY <1>1, <1>2, <1>3, <2>1 DEF ListInv
<1>8. AnswersThePage'
  <2> DEFINE Asked(k) == Answer(200, Len(table), PageOf(table, [p EXCEPT !.pageSize = k]))
  <2> SUFFICES ASSUME off >= 0
               PROVE  \/ ~inBounds /\ a = Is404
                      \/ inBounds /\ a = Asked(size)
                      \/ failed' = TRUE /\ a = Is500
                      \/ failed' = TRUE /\ inBounds /\ \E k \in 0..size : a = Asked(k)
    BY <1>2 DEF AnswersThePage
  <2>1. ASSUME inBounds, NEW k \in 0..size
        PROVE  Asked(k) = Answer(200, Len(table), Page(table, off, k))
    <3> DEFINE q == [p EXCEPT !.pageSize = k]
    <3>1. q \in [offset : Int, pageSize : Int] /\ q.offset = off /\ q.pageSize = k
      BY <1>1, <1>4
    <3>2. k >= 0
      BY <1>4
    <3> HIDE DEF q
    <3>3. PageOf(table, q) = Page(table, off, k)
      BY <1>4, <2>1, <3>1, <3>2, PageAsked
    <3> QED
      BY <3>3 DEF q
  <2>2. inBounds => size \in 0..size
    BY <1>4
  <2> HIDE DEF Asked, inBounds
  <2> QED
    BY <1>6, <2>1, <2>2
<1>9. WalkInv'
  <2> SUFFICES ASSUME walking PROVE WalkInv'
    BY <1>2 DEF WalkInv
  <2>1. off >= 0
    BY <1>1 DEF WalkInv
  <2>2. pc' # "ready" => Params(body').offset >= 0
    BY <1>2, <2>1
  <2>3. ASSUME Ordered
        PROVE  /\ IsInjective(table)
               /\ Len(seen') <= Len(table) /\ seen' = SubSeq(table, 1, Len(seen'))
               /\ pc' = "end" => failed' \/ Len(seen') = Len(table)
    <3>1. /\ IsInjective(table) /\ off = Len(seen) /\ size > 0
          /\ Len(seen) <= Len(table) /\ seen = SubSeq(table, 1, off)
      BY <1>1, <2>3 DEF WalkInv
    <3>2. inBounds /\ off \in Nat /\ size \in Nat /\ seen \in Tables
      BY <1>1, <1>4, <2>1, <3>1 DEF ListInv
    <3>3. ASSUME NEW k \in Nat, a = Answer(200, Len(table), Page(table, off, k))
          PROVE  /\ seen' = SubSeq(table, 1, Len(seen')) /\ Len(seen') <= Len(table)
                 /\ k > 0 /\ pc' = "end" => Len(seen') = Len(table)
      <4>1. a.items = Page(table, off, k) /\ a.status = 200 /\ a.total = Len(table)
        BY <3>3 DEF Answer
      <4>2. seen' = seen \o Page(table, off, k)
        BY <1>2, <4>1
      <4>3. /\ seen' = SubSeq(table, 1, Len(seen')) /\ Len(seen') <= Len(table)
            /\ k > 0 /\ Page(table, off, k) = <<>> => Len(seen') = Len(table)
        <5> HIDE DEF off, size
        <5> QED
          BY <1>4, <3>1, <3>2, <4>2, WalkGoesOn
      <4>4. Len(seen') \in Nat
        BY <1>7 DEF ListInv, Tables
      <4>5. pc' = "end" => a.items = <<>> \/ ~(Len(seen') < a.total)
        BY <1>2, <4>1
      <4> HIDE DEF off, size
      <4> QED
        BY <1>4, <4>1, <4>3, <4>4, <4>5
    <3>4. CASE a = Answer(200, Len(table), Page(table, off, size))
      BY <1>2, <3>1, <3>2, <3>3, <3>4
    <3>5. CASE failed' = TRUE /\ a = Is500
      <4>1. a.items = <<>> /\ seen' = seen
        <5>1. a.items = <<>>
          BY <3>5 DEF Is500, Answer
        <5> QED
          BY <1>2, <3>2, <5>1, ConcatEmptySeq DEF Tables
      <4> QED
        BY <3>1, <3>5, <4>1
    <3>6. CASE /\ failed' = TRUE
               /\ \E k \in 0..size : a = Answer(200, Len(table), Page(table, off, k))
      <4>1. PICK k \in 0..size : a = Answer(200, Len(table), Page(table, off, k))
        BY <3>6
      <4>2. k \in Nat
        BY <3>2
      <4> QED
        BY <3>1, <3>3, <3>6, <4>1, <4>2
    <3> QED
      BY <1>6, <2>1, <3>2, <3>4, <3>5, <3>6
  <2>4. Ordered' <=> Ordered
    BY <1>2 DEF Ordered
  <2> QED
    BY <1>2, <2>2, <2>3, <2>4 DEF WalkInv
<1> QED
  BY <1>7, <1>8, <1>9 DEF PageInv

LEMMA PageInvNext == PageInv /\ [PagingNext]_pagingVars => PageInv'
<1> SUFFICES ASSUME PageInv, [PagingNext]_pagingVars PROVE PageInv'
  OBVIOUS
<1>1. /\ ListInv /\ WalkInv /\ AnswersThePage
      /\ table \in Tables /\ Len(table) \in 0..Rows /\ Len(table) <= Rows
  BY DEF PageInv, ListInv, Tables
<1>2. CASE Request
  <2>1. /\ pc = "ready" /\ pc' = "list"
        /\ UNCHANGED <<backend, table, updates, walking, counted, answer, failed, seen>>
    BY <1>2 DEF Request
  <2>2. Len(seen) \in Nat
    BY <1>1 DEF ListInv, Tables
  <2>3. /\ Params(body') \in [offset : Int, pageSize : Int]
        /\ walking => Params(body').offset = Len(seen) /\ Params(body').pageSize > 0
    <3>1. CASE walking
      <4>1. PICK k \in 1..Rows : body' = [offset |-> Len(seen), pageSize |-> k]
        BY <1>2, <3>1 DEF Request
      <4>2. k \in Nat \ {0}
        BY PagingAssumption
      <4>3. Params(body') = [offset |-> Len(seen), pageSize |-> k]
        BY <2>2, <4>1, <4>2, ParamsOfPage
      <4> QED
        BY <2>2, <4>2, <4>3
    <3>2. CASE ~walking
      BY <1>2, <3>2, BodiesAssumption DEF Request
    <3> QED
      BY <3>1, <3>2
  <2>4. ListInv'
    BY <1>1, <2>1, <2>3 DEF ListInv
  <2>5. WalkInv'
    BY <1>1, <2>1, <2>2, <2>3 DEF WalkInv, Ordered
  <2> QED
    BY <2>1, <2>4, <2>5 DEF PageInv, AnswersThePage
<1>3. CASE ListMem
  <2>1. /\ pc = "list" /\ Respond(AnswerMem(table, Params(body))) /\ UNCHANGED <<counted, failed>>
        /\ Params(body) \in [offset : Int, pageSize : Int]
    BY <1>1, <1>3 DEF ListMem, ListInv
  <2>2. Answers(AnswerMem(table, Params(body)), table, Params(body))
    BY <1>1, <2>1, MemAnswers
  <2> QED
    BY <1>1, <2>1, <2>2, Responds DEF ListInv
<1>4. CASE CountPsql
  <2>1. pc = "list" /\ Params(body) \in [offset : Int, pageSize : Int] /\ counted \in 0..Rows
    BY <1>1, <1>4 DEF CountPsql, ListInv
  <2>2. CASE /\ counted' = Len(table) /\ UNCHANGED failed
             /\ Refused(Len(table), Params(body).offset, Params(body).pageSize)
             /\ Respond(Is404)
    <3>1. Answers(Is404, table, Params(body))
      BY <2>2, OtherAnswers DEF Answers
    <3> QED
      BY <1>1, <2>1, <2>2, <3>1, Responds
  <2>3. CASE /\ counted' = Len(table) /\ UNCHANGED failed
             /\ ~Refused(Len(table), Params(body).offset, Params(body).pageSize)
             /\ pc' = "query" /\ UNCHANGED <<backend, table, updates, body, walking, answer, seen>>
    <3>1. ListInv'
      BY <1>1, <2>1, <2>3 DEF ListInv
    <3>2. WalkInv'
      BY <1>1, <2>1, <2>3 DEF WalkInv, Ordered
    <3> QED
      BY <2>3, <3>1, <3>2 DEF PageInv, AnswersThePage
  <2>4. CASE failed' = TRUE /\ Respond(Is500) /\ UNCHANGED counted
    <3>1. Breaks(Is500, table, Params(body))
      BY OtherAnswers DEF Breaks
    <3> QED
      BY <1>1, <2>1, <2>4, <3>1, Responds
  <2> QED
    BY <1>4, <2>2, <2>3, <2>4 DEF CountPsql, Fail
<1>5. CASE QueryPsql
  <2> DEFINE full == AnswerPsql(table, counted, Params(body))
  <2>1. /\ pc = "query" /\ counted = Len(table) /\ counted' = counted /\ counted \in 0..Rows
        /\ Params(body) \in [offset : Int, pageSize : Int]
        /\ ~Refused(Len(table), Params(body).offset, Params(body).pageSize)
    BY <1>1, <1>5 DEF QueryPsql, ListInv
  <2>2. full = AnswerPsql(table, Len(table), Params(body))
    BY <2>1
  <2>3. \/ Respond(full) /\ UNCHANGED failed
        \/ failed' = TRUE /\ Respond(Is500)
        \/ /\ failed' = TRUE
           /\ \E n \in 0..Len(full.items) : Respond([full EXCEPT !.items = SubSeq(@, 1, n)])
    BY <1>5 DEF QueryPsql, Fail
  <2> HIDE DEF full
  <2>4. CASE Respond(full) /\ UNCHANGED failed
    <3>1. Answers(full, table, Params(body))
      BY <1>1, <2>1, <2>2, PsqlAnswers
    <3> QED
      BY <2>1, <2>4, <3>1, Responds
  <2>5. CASE failed' = TRUE /\ Respond(Is500)
    <3>1. Breaks(Is500, table, Params(body))
      BY OtherAnswers DEF Breaks
    <3> QED
      BY <2>1, <2>5, <3>1, Responds
  <2>6. ASSUME failed' = TRUE, NEW n \in 0..Len(full.items),
               Respond([full EXCEPT !.items = SubSeq(@, 1, n)])
        PROVE  PageInv'
    <3>1. Breaks([full EXCEPT !.items = SubSeq(@, 1, n)], table, Params(body))
      BY <1>1, <2>1, <2>2, PsqlBreaks
    <3> QED
      BY <2>1, <2>6, <3>1, Responds
  <2> QED
    BY <2>3, <2>4, <2>5, <2>6
<1>6. ASSUME NEW i \in DOMAIN table, UpdateRow(i)
      PROVE  PageInv'
  <2>1. /\ updates' = updates + 1 /\ updates' \in 0..MaxUpdates /\ pc # "end"
        /\ table' = IF backend = "postgresql" THEN Append(RemoveAt(table, i), table[i]) ELSE table
        /\ UNCHANGED <<backend, pc, body, walking, counted, answer, failed, seen>>
    BY <1>1, <1>6, PagingAssumption DEF UpdateRow, ListInv
  <2>2. table' \in Tables /\ Len(table') = Len(table)
    BY <1>1, <2>1, RowMoves
  <2>3. ListInv'
    BY <1>1, <2>1, <2>2 DEF ListInv
  <2>4. WalkInv'
    <3>1. CASE backend = "memdb"
      BY <1>1, <2>1, <3>1 DEF WalkInv, Ordered
    <3>2. CASE backend # "memdb"
      <4>1. ~Ordered'
        BY <1>1, <2>1, <3>2, PagingAssumption DEF Ordered, ListInv
      <4> QED
        BY <1>1, <2>1, <4>1 DEF WalkInv
    <3> QED
      BY <3>1, <3>2
  <2> QED
    BY <2>1, <2>3, <2>4 DEF PageInv, AnswersThePage
<1>7. CASE UNCHANGED pagingVars
  BY <1>1, <1>7 DEF pagingVars, PageInv, ListInv, WalkInv, AnswersThePage, Ordered
<1> QED
  BY <1>2, <1>3, <1>4, <1>5, <1>6, <1>7 DEF PagingNext

LEMMA PageInvHolds == PagingSpec => []PageInv
BY PageInvInit, PageInvNext, PTL DEF PagingSpec

-----------------------------------------------------------------------------

\* Every request ends with an answer or a panic, whatever its body holds.
THEOREM PagingTypeCorrect == PagingSpec => []PagingTypeOK
<1>1. PageInv => PagingTypeOK
  <2> SUFFICES ASSUME ListInv PROVE PagingTypeOK
    BY DEF PageInv
  <2>1. \A i \in DOMAIN table : table[i] \in RowIds
    <3>1. table \in Seq(RowIds)
      BY DEF ListInv, Tables
    <3> QED
      BY <3>1, ElementOfSeq, LenProperties
  <2>2. ToSet(table) \subseteq 1..Rows
    BY <2>1 DEF ToSet, RowIds
  <2> QED
    BY <2>2 DEF PagingTypeOK, ListInv, AnswerTypes
<1> QED
  BY <1>1, PageInvHolds, PTL

\* List answers each request that is not refused with the rows at the positions it asks for,
\* on both backends and for every width of int: memdb's arithmetic and its iterator do what
\* PostgreSQL's LIMIT and OFFSET do. A failing database turns this into 500 or the start of
\* the page, and into nothing else.
THEOREM PagesAreAnswered == PagingSpec => []AnswersThePage
<1>1. PageInv => AnswersThePage
  BY DEF PageInv
<1> QED
  BY <1>1, PageInvHolds, PTL

\* A client that reads page after page, of any size, is shown no row twice while the order of
\* the rows stays, and every row, unless the database fails it.
THEOREM WalksAreComplete == PagingSpec => []WalkShowsAll
<1>1. PageInv => WalkShowsAll
  <2> SUFFICES ASSUME PageInv, pc = "end", walking, Ordered
               PROVE  IsInjective(seen) /\ (failed \/ ToSet(seen) = ToSet(table))
    BY DEF WalkShowsAll
  <2>1. /\ table \in Tables /\ IsInjective(table) /\ Len(seen) \in Nat /\ Len(seen) <= Len(table)
        /\ seen = SubSeq(table, 1, Len(seen)) /\ (failed \/ Len(seen) = Len(table))
    BY DEF PageInv, ListInv, WalkInv, Tables
  <2>2. IsInjective(seen)
    <3> DEFINE n == Len(seen)
    <3>1. Len(table) \in Nat /\ DOMAIN table = 1..Len(table) /\ DOMAIN seen = 1..n
      BY DEF PageInv, ListInv, Tables
    <3>2. n \in Nat /\ n <= Len(table) /\ table \in Seq(RowIds) /\ seen = SubSeq(table, 1, n)
      BY <2>1 DEF Tables
    <3> HIDE DEF n
    <3>3. \A i \in 1..n : i \in DOMAIN table /\ table[i] \in RowIds
      BY <3>1, <3>2
    <3>5. \A i \in 1..(n - 1 + 1) : SubSeq(table, 1, n)[i] = table[1 + i - 1]
      BY <3>2, <3>3, SubSeqProperties
    <3>4. \A i \in 1..n : seen[i] = table[i] /\ i \in DOMAIN table
      BY <3>2, <3>3, <3>5
    <3> QED
      BY <2>1, <3>1, <3>4 DEF IsInjective
  <2>3. SubSeq(table, 1, Len(table)) = table
    BY <2>1, SubSeqFull DEF Tables
  <2> QED
    BY <2>1, <2>2, <2>3
<1> QED
  BY <1>1, PageInvHolds, PTL
=============================================================================
