-------------------------- MODULE MemService_proofs --------------------------
(***************************************************************************)
(* What holds of the memdb stores for every number of callers, ids and     *)
(* contents, and of a scan on them that is deleted while it is worked on.  *)
(***************************************************************************)
EXTENDS MemService, FiniteSetTheorems, SequenceTheorems, TLAPS

\* An argument that a call has: the id of a record, and its content.
ArgumentsInv(c) ==
  /\ c.op \in {"retrieve", "delete", "update"} => c.id \in Ids
  /\ c.op = "insert" /\ c.pc # "id" => c.id \in Ids
  /\ c.op \in {"insert", "update"} => c.val \in Vals
  /\ c.op = "insert" /\ c.pc = "set" => c.reg \in Nat \ {0}

\* The generator's ids are new, so that an insertion of a scan meets no record.
InsertsScan(p) == call[p].op = "insert" /\ call[p].pc # "id"

IdsInv ==
  /\ nextId \in Nat \ {0}
  /\ store = "scans" =>
       /\ \A p \in Procs : InsertsScan(p) =>
            call[p].pc \in {"count", "store", "ok"} /\ call[p].id < nextId
       /\ \A p, q \in Procs :
            p # q /\ InsertsScan(p) /\ InsertsScan(q) => call[p].id # call[q].id
       /\ \A p \in Procs : At(p, "update", "write") => call[p].id < nextId
       /\ \A i \in Ids : i >= nextId => rows[i] = Absent

\* The handler calls Retrieve and Update only, in turn, and the DELETE Delete, once.
HandlerInv ==
  /\ call[Handler].op \in {"none", "retrieve", "update"}
  /\ call[Handler].op # "none" => call[Handler].id = 1
  /\ handler = "select" => call[Handler].op = "none" \/ At(Handler, "update", "ok")
  /\ handler = "retrieve" => call[Handler].op = "retrieve"
  /\ handler = "insert" => At(Handler, "retrieve", "ok")
  /\ handler = "update" => call[Handler].op = "update"
  /\ handler = "done" => call[Handler].pc \in {"idle", "missing", "ok"}
  /\ handler \in {"retrieve", "insert", "update"} => report # "none"

DeleterInv ==
  /\ del = "none" => call[Deleter] = Idle
  /\ del # "none" => call[Deleter].op = "delete" /\ call[Deleter].id = 1

\* The DELETE has removed the row.
Removed == call[Deleter].op = "delete" /\ call[Deleter].pc \in {"count", "store", "ok"}

\* A handler that was not storing anything when the row went finds it gone.
QuietInv ==
  /\ del \in {"cancel", "sweep", "done"} => Removed
  /\ Removed /\ ~overlap =>
       /\ rows[1] = Absent
       /\ \/ handler \in {"select", "done"}
          \/ handler = "retrieve" /\ call[Handler].pc \in {"lookup", "missing"}
  /\ del = "done" /\ ~overlap => findings[1] = {}

\* Either there is a scan, or callers that do as they like.
ServiceInv ==
  /\ handler \in {"none", "select", "retrieve", "insert", "update", "done"}
  /\ del \in {"none", "delete", "error", "cancel", "sweep", "done"}
  /\ report \in {"none", "ONGOING", "SUCCESS", "FAILURE"}
  /\ overlap \in BOOLEAN
  /\ findings \in [Ids -> SUBSET Findings]
  /\ handler = "none" => del = "none" /\ call[Handler] = Idle /\ call[Deleter] = Idle
  /\ handler # "none" =>
       /\ store = "scans"
       /\ \A p \in Callers : call[p] = Idle
       /\ HandlerInv /\ DeleterInv /\ QuietInv

\* The inductive invariant.
MemInv ==
  /\ TableTypeOK
  /\ store \in {"scans", "repositories"}
  /\ \A p \in Procs : ArgumentsInv(call[p])
  /\ TotalCountsRows
  /\ IdsInv
  /\ ServiceInv

-----------------------------------------------------------------------------
(* The arithmetic of int32.                                                *)

LEMMA ModulusType == MaxInt \in Nat \ {0} /\ MinInt \in Int /\ Modulus \in Nat \ {0}
                     /\ MaxInt = MinInt + Modulus - 1
BY PagesAssumption DEF MinInt, Modulus

LEMMA WrapType ==
  ASSUME NEW n \in Int
  PROVE  Wrap(n) \in MinInt..MaxInt
<1>1. (n - MinInt) % Modulus \in 0..(Modulus - 1)
  BY ModulusType
<1> QED
  BY <1>1, ModulusType DEF Wrap

LEMMA WrapKeeps ==
  ASSUME NEW n \in MinInt..MaxInt
  PROVE  Wrap(n) = n
<1> DEFINE a == n - MinInt
<1>1. a \in 0..(Modulus - 1)
  BY ModulusType
<1>2. \A m \in Nat \ {0} : \A b \in 0..(m - 1) : b % m = b
  OBVIOUS
<1>3. a % Modulus = a
  BY <1>1, <1>2, ModulusType
<1> QED
  BY <1>3, ModulusType DEF Wrap

\* A number has only one remainder.
LEMMA Remainder ==
  ASSUME NEW m \in Nat \ {0}, NEW a \in Int, NEW q \in Int, NEW r \in 0..(m - 1),
         a = q * m + r
  PROVE  a % m = r
OBVIOUS

LEMMA RemainderOfSum ==
  ASSUME NEW m \in Nat \ {0}, NEW a \in Int, NEW q \in Int
  PROVE  (a + q * m) % m = a % m
<1> DEFINE b == a + q * m
           p == (a \div m) + q
<1>1. a % m \in 0..(m - 1) /\ a \div m \in Int /\ a = (a \div m) * m + (a % m)
  OBVIOUS
<1>2. b = p * m + (a % m)
  BY <1>1
<1>3. b \in Int /\ p \in Int
  BY <1>1
<1> HIDE DEF b, p
<1>4. b % m = a % m
  BY <1>1, <1>2, <1>3, Remainder
<1> QED
  BY <1>4 DEF b

\* What is counted on a number that has wrapped wraps as if it had not.
LEMMA WrapStep ==
  ASSUME NEW n \in Int, NEW k \in Int
  PROVE  Wrap(Wrap(n) + k) = Wrap(n + k)
<1> DEFINE a == n - MinInt
           q == -(a \div Modulus)
           b == a + k
<1>1. a \in Int /\ q \in Int /\ b \in Int /\ k \in Int
  BY ModulusType
<1>2. a % Modulus = a + q * Modulus
  BY ModulusType
<1>3. (Wrap(n) + k) - MinInt = b + q * Modulus
  BY <1>1, <1>2, ModulusType DEF Wrap
<1>4. b = (n + k) - MinInt
  BY ModulusType
<1> HIDE DEF a, q, b
<1>5. (b + q * Modulus) % Modulus = b % Modulus
  BY <1>1, RemainderOfSum, ModulusType
<1> QED
  BY <1>3, <1>4, <1>5 DEF Wrap

-----------------------------------------------------------------------------
(* The order of the index.                                                 *)

\* How many elements of S are not above i.
Rank(S, i) == Cardinality({j \in S : j <= i})

LEMMA RankGrows ==
  ASSUME NEW S \in SUBSET Ids, NEW i \in S
  PROVE  /\ IsFiniteSet(S)
         /\ Rank(S, i) \in 1..Cardinality(S)
         /\ \A j \in S : i < j => Rank(S, i) < Rank(S, j)
<1>0. \A k \in S : k \in Int
  BY MemTableAssumption DEF Ids
<1>1. IsFiniteSet(S)
  <2>1. IsFiniteSet(Ids)
    BY FS_Interval, MemTableAssumption DEF Ids
  <2> QED
    BY <2>1, FS_Subset
<1> DEFINE Below(j) == {k \in S : k <= j}
<1>2. \A j \in S : IsFiniteSet(Below(j)) /\ Cardinality(Below(j)) \in Nat
                   /\ Cardinality(Below(j)) <= Cardinality(S)
  <2>1. \A j \in S : Below(j) \in SUBSET S
    OBVIOUS
  <2> QED
    BY <1>1, <2>1, FS_Subset, FS_CardinalityType
<1>3. Cardinality(Below(i)) # 0
  <2>1. i \in Below(i)
    BY <1>0
  <2> QED
    BY <1>2, <2>1, FS_EmptySet
<1>4. ASSUME NEW j \in S, i < j
      PROVE  Cardinality(Below(i)) < Cardinality(Below(j))
  <2>1. Below(i) \in SUBSET Below(j)
    BY <1>0, <1>4
  <2>2. j \in Below(j) /\ j \notin Below(i)
    BY <1>0, <1>4
  <2>3. Below(i) # Below(j)
    BY <2>2
  <2>4. IsFiniteSet(Below(j)) /\ Cardinality(Below(i)) \in Nat /\ Cardinality(Below(j)) \in Nat
    BY <1>2
  <2> HIDE DEF Below
  <2>5. Cardinality(Below(i)) <= Cardinality(Below(j))
        /\ (Cardinality(Below(j)) = Cardinality(Below(i)) => Below(j) = Below(i))
    BY <2>1, <2>4, FS_Subset
  <2> QED
    BY <2>3, <2>4, <2>5
<1>5. Cardinality(S) \in Nat
  BY <1>1, FS_CardinalityType
<1> QED
  BY <1>1, <1>2, <1>3, <1>4, <1>5 DEF Rank

\* There is an ascending sequence of the elements of S: rank gives each its place.
LEMMA AscendingType ==
  ASSUME NEW S \in SUBSET Ids
  PROVE  /\ Ascending(S) \in [1..Cardinality(S) -> S]
         /\ \A j, k \in 1..Cardinality(S) : j < k => Ascending(S)[j] < Ascending(S)[k]
<1> DEFINE n == Cardinality(S)
           r == [i \in S |-> Rank(S, i)]
<1>0. IsFiniteSet(S) /\ n \in Nat
  <2>1. IsFiniteSet(Ids)
    BY FS_Interval, MemTableAssumption DEF Ids
  <2> QED
    BY <2>1, FS_Subset, FS_CardinalityType
<1>1. \A k \in S : k \in Int
  BY MemTableAssumption DEF Ids
<1>2. r \in [S -> 1..n]
  BY RankGrows
<1>3. \A i, j \in S : r[i] = r[j] => i = j
  <2> SUFFICES ASSUME NEW i \in S, NEW j \in S, i < j PROVE r[i] # r[j]
    BY MemTableAssumption DEF Ids
  <2>1. r[i] < r[j] /\ r[i] \in Nat /\ r[j] \in Nat
    BY RankGrows
  <2> QED
    BY <2>1
<1>4. r \in Injection(S, 1..n)
  BY <1>2, <1>3 DEF Injection, IsInjective
<1>5. IsFiniteSet(1..n) /\ Cardinality(1..n) = n
  BY <1>0, FS_Interval
<1>6. r \in Surjection(S, 1..n)
  BY <1>0, <1>4, <1>5, FS_Injection
<1> DEFINE s == [k \in 1..n |-> CHOOSE i \in S : r[i] = k]
<1>7. \A k \in 1..n : s[k] \in S /\ r[s[k]] = k
  BY <1>6 DEF Surjection
<1>8. ASSUME NEW j \in 1..n, NEW k \in 1..n, j < k
      PROVE  s[j] < s[k]
  <2>1. s[j] \in S /\ s[k] \in S /\ r[s[j]] = j /\ r[s[k]] = k
    BY <1>7
  <2>2. CASE s[k] < s[j]
    <3>1. r[s[k]] < r[s[j]]
      BY <2>1, <2>2, RankGrows
    <3> QED
      BY <1>0, <1>8, <2>1, <3>1
  <2>3. CASE s[k] = s[j]
    BY <1>8, <2>1, <2>3
  <2>4. s[j] \in Int /\ s[k] \in Int
    BY <1>1, <2>1
  <2> HIDE DEF s
  <2> QED
    BY <2>2, <2>3, <2>4
<1>9. s \in [1..n -> S]
  BY <1>7
<1> HIDE DEF s, r
<1>10. \E t \in [1..Cardinality(S) -> S] : \A j, k \in DOMAIN t : j < k => t[j] < t[k]
  <2>1. DOMAIN s = 1..n
    BY <1>9
  <2> QED
    BY <1>8, <1>9, <2>1
<1> QED
  BY <1>10 DEF Ascending

LEMMA AscendingIsSeq ==
  ASSUME NEW S \in SUBSET Ids
  PROVE  Ascending(S) \in Seq(Ids)
<1>1. IsFiniteSet(S)
  <2>1. IsFiniteSet(Ids)
    BY FS_Interval, MemTableAssumption DEF Ids
  <2> QED
    BY <2>1, FS_Subset
<1>2. Cardinality(S) \in Nat
  BY <1>1, FS_CardinalityType
<1> DEFINE n == Cardinality(S)
<1>3. Ascending(S) \in [1..n -> Ids]
  BY AscendingType
<1> HIDE DEF n
<1>4. n \in Nat
  BY <1>2 DEF n
<1> QED
  BY <1>3, <1>4, SeqDef

-----------------------------------------------------------------------------
(* What a step makes of the call that takes it.                            *)

\* Only p's call moves, and it stays one that p can be in the middle of.
OneCall(p) ==
  /\ call' \in [Procs -> Calls]
  /\ \A q \in Procs \ {p} : call'[q] = call[q]
  /\ call'[p].pc \in Places(call'[p].op)

\* Where a call stands tells which it can be.
LEMMA PlaceTells ==
  ASSUME TableTypeOK, NEW p \in Procs
  PROVE  /\ call[p] \in Calls
         /\ call[p].pc \in Places(call[p].op)
         /\ call[p].pc = "idle" <=> call[p].op = "none"
         /\ call[p].pc \in {"id", "bump", "set", "insert"} => call[p].op = "insert"
         /\ call[p].pc = "lookup" => call[p].op \in {"retrieve", "delete", "update"}
         /\ call[p].pc \in {"count", "store"} => call[p].op \in {"insert", "delete"}
         /\ call[p].pc \in {"check", "refused", "total", "empty", "snapshot", "limit", "panic"} =>
              call[p].op = "list"
<1>1. call[p] \in Calls /\ call[p].pc \in Places(call[p].op)
  BY DEF TableTypeOK
<1>2. call[p].op \in Ops
  BY <1>1 DEF Calls
<1> QED
  BY <1>1, <1>2 DEF Places, Ops

LEMMA MovesTo ==
  ASSUME TableTypeOK, NEW p \in Procs, NEW c \in Calls, c.pc \in Places(c.op),
         call' = [call EXCEPT ![p] = c]
  PROVE  OneCall(p) /\ call'[p] = c
BY DEF OneCall, TableTypeOK

\* The call goes on with the same arguments.
Goes(p, pc) ==
  /\ OneCall(p)
  /\ call'[p].pc = pc
  /\ call'[p].op = call[p].op /\ call'[p].id = call[p].id /\ call'[p].val = call[p].val

LEMMA GoMoves ==
  ASSUME TableTypeOK, NEW p \in Procs, NEW pc, pc \in Places(call[p].op), Go(p, pc)
  PROVE  Goes(p, pc)
<1> DEFINE c == [call[p] EXCEPT !.pc = pc]
<1>1. call[p] \in Calls
  BY DEF TableTypeOK
<1>2. pc \in UNION {Places(op) : op \in Ops}
  BY <1>1 DEF Calls
<1>3. c \in Calls
  BY <1>1, <1>2, Zenon DEF Calls
<1>4. c.pc = pc /\ c.op = call[p].op /\ c.id = call[p].id /\ c.val = call[p].val
  BY <1>1 DEF Calls
<1>5. call' = [call EXCEPT ![p] = c]
  BY Zenon DEF Go
<1> HIDE DEF c
<1> QED
  BY <1>3, <1>4, <1>5, MovesTo DEF Goes

LEMMA GoWithValMoves ==
  ASSUME TableTypeOK, NEW p \in Procs, NEW pc, pc \in Places(call[p].op),
         NEW v \in Vals \union {Absent}, call' = [call EXCEPT ![p].pc = pc, ![p].val = v]
  PROVE  /\ OneCall(p)
         /\ call'[p].pc = pc /\ call'[p].val = v
         /\ call'[p].op = call[p].op /\ call'[p].id = call[p].id
<1> DEFINE c == [call[p] EXCEPT !.pc = pc, !.val = v]
<1>1. call[p] \in Calls
  BY DEF TableTypeOK
<1>2. pc \in UNION {Places(op) : op \in Ops}
  BY <1>1 DEF Calls
<1>3. c \in Calls
  BY <1>1, <1>2, Zenon DEF Calls
<1>4. c.pc = pc /\ c.op = call[p].op /\ c.id = call[p].id /\ c.val = v
  BY <1>1 DEF Calls
<1>5. call' = [call EXCEPT ![p] = c]
  BY DEF TableTypeOK
<1> HIDE DEF c
<1> QED
  BY <1>3, <1>4, <1>5, MovesTo

LEMMA GoWithIdMoves ==
  ASSUME TableTypeOK, NEW p \in Procs, NEW pc, pc \in Places(call[p].op),
         NEW i \in Ids, call' = [call EXCEPT ![p].id = i, ![p].pc = pc]
  PROVE  /\ OneCall(p)
         /\ call'[p].pc = pc /\ call'[p].id = i
         /\ call'[p].op = call[p].op /\ call'[p].val = call[p].val
<1> DEFINE c == [call[p] EXCEPT !.id = i, !.pc = pc]
<1>1. call[p] \in Calls
  BY DEF TableTypeOK
<1>2. pc \in UNION {Places(op) : op \in Ops}
  BY <1>1 DEF Calls
<1>3. c \in Calls
  BY <1>1, <1>2, Zenon DEF Calls
<1>4. c.pc = pc /\ c.op = call[p].op /\ c.id = i /\ c.val = call[p].val
  BY <1>1 DEF Calls
<1>5. call' = [call EXCEPT ![p] = c]
  BY DEF TableTypeOK
<1> HIDE DEF c
<1> QED
  BY <1>3, <1>4, <1>5, MovesTo

LEMMA GoWithRegMoves ==
  ASSUME TableTypeOK, NEW p \in Procs, NEW pc, pc \in Places(call[p].op),
         NEW n \in Int,
         \/ call' = [call EXCEPT ![p].pc = pc, ![p].reg = n]
         \/ call' = [call EXCEPT ![p].reg = n, ![p].pc = pc]
  PROVE  Goes(p, pc) /\ call'[p].reg = n
<1> DEFINE c == [call[p] EXCEPT !.pc = pc, !.reg = n]
<1>1. call[p] \in Calls
  BY DEF TableTypeOK
<1>2. pc \in UNION {Places(op) : op \in Ops}
  BY <1>1 DEF Calls
<1>3. c \in Calls
  BY <1>1, <1>2, Zenon DEF Calls
<1>4. c.pc = pc /\ c.op = call[p].op /\ c.id = call[p].id /\ c.val = call[p].val /\ c.reg = n
  BY <1>1 DEF Calls
<1>5. call' = [call EXCEPT ![p] = c]
  BY <1>1 DEF TableTypeOK, Calls
<1> HIDE DEF c
<1> QED
  BY <1>3, <1>4, <1>5, MovesTo DEF Goes

LEMMA GoWithRowsMoves ==
  ASSUME TableTypeOK, NEW p \in Procs, NEW pc, pc \in Places(call[p].op),
         NEW s \in Seq(Ids),
         \/ call' = [call EXCEPT ![p].pc = pc, ![p].snap = s]
         \/ call' = [call EXCEPT ![p].pc = pc, ![p].items = s]
  PROVE  Goes(p, pc)
<1> DEFINE c == [call[p] EXCEPT !.pc = pc, !.snap = s]
           d == [call[p] EXCEPT !.pc = pc, !.items = s]
<1>1. call[p] \in Calls
  BY DEF TableTypeOK
<1>2. pc \in UNION {Places(op) : op \in Ops}
  BY <1>1 DEF Calls
<1>3. c \in Calls /\ d \in Calls
  BY <1>1, <1>2, Zenon DEF Calls
<1>4. /\ c.pc = pc /\ c.op = call[p].op /\ c.id = call[p].id /\ c.val = call[p].val
      /\ d.pc = pc /\ d.op = call[p].op /\ d.id = call[p].id /\ d.val = call[p].val
  BY <1>1 DEF Calls
<1>5. call' = [call EXCEPT ![p] = c] \/ call' = [call EXCEPT ![p] = d]
  BY DEF TableTypeOK
<1> HIDE DEF c, d
<1> QED
  BY <1>3, <1>4, <1>5, MovesTo DEF Goes

-----------------------------------------------------------------------------
(* The steps of a call, as far as the invariants look at them.             *)

LEMMA LookupMoves ==
  ASSUME TableTypeOK, NEW p \in Procs, ArgumentsInv(call[p]), Lookup(p)
  PROVE  /\ OneCall(p)
         /\ call[p].pc = "lookup" /\ call[p].id \in Ids
         /\ call[p].op \in {"retrieve", "delete", "update"}
         /\ call'[p].op = call[p].op /\ call'[p].id = call[p].id
         /\ call[p].op = "update" => call'[p].val = call[p].val
         /\ \/ rows[call[p].id] = Absent /\ call'[p].pc = "missing"
            \/ /\ rows[call[p].id] # Absent
               /\ call'[p].pc = AfterLookup(call[p].op)
               /\ call[p].op = "retrieve" => call'[p].val = rows[call[p].id]
         /\ UNCHANGED <<rows, total, drift, raced>>
<1>1. call[p] \in Calls /\ call[p].op \in {"retrieve", "delete", "update"}
  BY PlaceTells DEF Lookup
<1>2. call[p].id \in Ids /\ rows[call[p].id] \in Vals \union {Absent}
  BY <1>1 DEF ArgumentsInv, TableTypeOK
<1>3. CASE rows[call[p].id] = Absent
  <2>1. Go(p, "missing")
    BY <1>3 DEF Lookup
  <2>2. "missing" \in Places(call[p].op)
    BY <1>1 DEF Places
  <2>3. Goes(p, "missing")
    BY <2>1, <2>2, GoMoves
  <2> QED
    BY <1>1, <1>2, <1>3, <2>3 DEF Lookup, Goes
<1>4. CASE rows[call[p].id] # Absent
  <2> DEFINE v == IF call[p].op = "update" THEN call[p].val ELSE rows[call[p].id]
             to == AfterLookup(call[p].op)
  <2>1. call' = [call EXCEPT ![p].pc = to, ![p].val = v]
    BY <1>4 DEF Lookup
  <2>2. v \in Vals \union {Absent}
    BY <1>1, <1>2 DEF Calls
  <2>3. to \in Places(call[p].op)
    BY <1>1 DEF AfterLookup, Places
  <2> HIDE DEF v, to
  <2>5. /\ OneCall(p) /\ call'[p].pc = to /\ call'[p].val = v
        /\ call'[p].op = call[p].op /\ call'[p].id = call[p].id
    BY <2>1, <2>2, <2>3, GoWithValMoves
  <2> QED
    BY <1>1, <1>2, <1>4, <2>5 DEF Lookup, v, to
<1> QED
  BY <1>3, <1>4

LEMMA RemoveRowMoves ==
  ASSUME TableTypeOK, NEW p \in Procs, ArgumentsInv(call[p]), RemoveRow(p)
  PROVE  /\ call[p].op = "delete" /\ call[p].pc = "remove" /\ call[p].id \in Ids
         /\ \/ rows[call[p].id] = Absent /\ Goes(p, "failed") /\ rows' = rows
            \/ /\ rows[call[p].id] # Absent /\ Goes(p, "count")
               /\ rows' = [rows EXCEPT ![call[p].id] = Absent]
         /\ UNCHANGED <<total, drift, raced>>
<1>1. call[p].op = "delete" /\ call[p].pc = "remove" /\ call[p].id \in Ids
  BY DEF RemoveRow, At, ArgumentsInv
<1>2. {"failed", "count"} \subseteq Places(call[p].op)
  BY <1>1 DEF Places
<1>4. \A to \in {"failed", "count"} : Go(p, to) => Goes(p, to)
  BY <1>2, GoMoves
<1> QED
  BY <1>1, <1>4 DEF RemoveRow

LEMMA WriteRowMoves ==
  ASSUME TableTypeOK, NEW p \in Procs, ArgumentsInv(call[p]), WriteRow(p)
  PROVE  /\ call[p].op = "update" /\ call[p].pc = "write"
         /\ call[p].id \in Ids /\ call[p].val \in Vals
         /\ Goes(p, "ok")
         /\ rows' = [rows EXCEPT ![call[p].id] = call[p].val]
         /\ drift' = IF rows[call[p].id] = Absent THEN drift + 1 ELSE drift
         /\ UNCHANGED <<total, raced>>
<1>1. /\ call[p].op = "update" /\ call[p].pc = "write"
      /\ call[p].id \in Ids /\ call[p].val \in Vals
  BY DEF WriteRow, At, ArgumentsInv
<1>2. "ok" \in Places(call[p].op)
  BY <1>1 DEF Places
<1>3. Goes(p, "ok")
  <2>1. Go(p, "ok")
    BY DEF WriteRow
  <2> QED
    BY <1>2, <2>1, GoMoves
<1> QED
  BY <1>1, <1>3 DEF WriteRow

LEMMA LoadTotalMoves ==
  ASSUME TableTypeOK, NEW p \in Procs, LoadTotal(p)
  PROVE  /\ call[p].op \in {"insert", "delete"} /\ call[p].pc = "count"
         /\ Goes(p, "store") /\ call'[p].reg = total
         /\ UNCHANGED <<rows, total, drift, raced>>
<1>1. call[p].pc = "count" /\ call[p].op \in {"insert", "delete"}
  BY PlaceTells DEF LoadTotal
<1>2. "store" \in Places(call[p].op)
  BY <1>1 DEF Places
<1>3. total \in Int
  BY ModulusType DEF TableTypeOK
<1>4. call' = [call EXCEPT ![p].pc = "store", ![p].reg = total]
  BY DEF LoadTotal
<1>5. Goes(p, "store") /\ call'[p].reg = total
  BY <1>2, <1>3, <1>4, GoWithRegMoves
<1> QED
  BY <1>1, <1>5 DEF LoadTotal

LEMMA StoreTotalMoves ==
  ASSUME TableTypeOK, NEW p \in Procs, StoreTotal(p)
  PROVE  /\ call[p].op \in {"insert", "delete"} /\ call[p].pc = "store"
         /\ Goes(p, "ok")
         /\ total' = Wrap(call[p].reg + Step(call[p].op))
         /\ raced' = (raced \/ call[p].reg # total)
         /\ UNCHANGED <<rows, drift>>
<1>1. call[p].pc = "store" /\ call[p].op \in {"insert", "delete"}
  BY PlaceTells DEF StoreTotal
<1>2. "ok" \in Places(call[p].op)
  BY <1>1 DEF Places
<1>3. Go(p, "ok")
  BY DEF StoreTotal
<1>4. Goes(p, "ok")
  BY <1>2, <1>3, GoMoves
<1> QED
  BY <1>1, <1>4 DEF StoreTotal

\* A page that does not run out is cut out of the rows.
LEMMA PageType ==
  ASSUME NEW s \in Seq(Ids), NEW page \in Params \union {NoPage}, total \in Int,
         ~RunsOut(s, page.offset, PageLimit(total, page.offset, page.pageSize))
  PROVE  MemItems(s, page.offset, PageLimit(total, page.offset, page.pageSize)) \in Seq(Ids)
<1> DEFINE off == page.offset
           size == page.pageSize
           limit == PageLimit(total, off, size)
<1>1. off \in Int /\ size \in Int
  BY MemTableAssumption, ModulusType DEF NoPage
<1>2. limit \in Int
  <2> DEFINE left == total - off
  <2>1. left \in Int
    BY <1>1
  <2> HIDE DEF left
  <2>2. Wrap(left) \in Int
    BY <2>1, WrapType, ModulusType
  <2> QED
    BY <1>1, <2>2 DEF PageLimit, left
<1> HIDE DEF limit
<1>3. Skipped(off) \in Nat
  BY <1>1 DEF Skipped
<1>4. CASE limit > 0
  <2>1. Skipped(off) + limit <= Len(s) /\ Len(s) \in Nat
    BY <1>2, <1>3, <1>4 DEF RunsOut, limit
  <2> DEFINE a == Skipped(off) + 1
             b == Skipped(off) + limit
  <2>2. a \in Int /\ b \in Int /\ a >= 1 /\ b <= Len(s)
    BY <1>2, <1>3, <2>1
  <2> HIDE DEF a, b
  <2>3. \A k \in a..b : s[k] \in Ids
    BY <2>2
  <2>4. SubSeq(s, a, b) \in Seq(Ids)
    BY <2>2, <2>3, SubSeqProperties
  <2> QED
    BY <1>4, <2>4 DEF MemItems, limit, a, b
<1>5. CASE ~(limit > 0)
  BY <1>5 DEF MemItems, limit
<1> QED
  BY <1>4, <1>5

LEMMA ListMoves ==
  ASSUME TableTypeOK, NEW p \in Procs,
         CheckPage(p) \/ ReadTotal(p) \/ CheckEmpty(p) \/ Snapshot(p) \/ ReadLimit(p)
  PROVE  /\ call[p].op = "list" /\ OneCall(p) /\ call'[p].op = "list"
         /\ UNCHANGED <<rows, total, drift, raced>>
<1>1. call[p].op = "list" /\ UNCHANGED <<rows, total, drift, raced>>
  BY DEF CheckPage, ReadTotal, CheckEmpty, Snapshot, ReadLimit, At
<1>2. \A pc \in {"refused", "total", "empty", "ok", "snapshot", "limit", "panic"} :
        pc \in Places(call[p].op) /\ (Go(p, pc) => Goes(p, pc))
  <2>1. \A pc \in {"refused", "total", "empty", "ok", "snapshot", "limit", "panic"} :
          pc \in Places(call[p].op)
    BY <1>1 DEF Places
  <2> QED
    BY <2>1, GoMoves
<1>3. ASSUME CheckPage(p)
      PROVE  OneCall(p) /\ call'[p].op = "list"
  <2>1. Go(p, "refused") \/ Go(p, "total")
    BY <1>3 DEF CheckPage
  <2> QED
    BY <1>1, <1>2, <2>1 DEF Goes
<1>4. ASSUME ReadTotal(p)
      PROVE  OneCall(p) /\ call'[p].op = "list"
  <2>1. call' = [call EXCEPT ![p].pc = "empty", ![p].reg = total]
    BY <1>4 DEF ReadTotal
  <2>2. total \in Int
    BY ModulusType DEF TableTypeOK
  <2>3. Goes(p, "empty")
    BY <1>2, <2>1, <2>2, GoWithRegMoves
  <2> QED
    BY <1>1, <2>3 DEF Goes
<1>5. ASSUME CheckEmpty(p)
      PROVE  OneCall(p) /\ call'[p].op = "list"
  <2>1. Go(p, "ok") \/ Go(p, "snapshot")
    BY <1>5 DEF CheckEmpty
  <2> QED
    BY <1>1, <1>2, <2>1 DEF Goes
<1>6. ASSUME Snapshot(p)
      PROVE  OneCall(p) /\ call'[p].op = "list"
  <2>1. call' = [call EXCEPT ![p].pc = "limit", ![p].snap = Ascending(Existing)]
    BY <1>6 DEF Snapshot
  <2>2. Existing \in SUBSET Ids
    BY DEF Existing
  <2>3. Ascending(Existing) \in Seq(Ids)
    BY <2>2, AscendingIsSeq
  <2>4. Goes(p, "limit")
    BY <1>2, <2>1, <2>3, GoWithRowsMoves
  <2> QED
    BY <1>1, <2>4 DEF Goes
<1>7. ASSUME ReadLimit(p)
      PROVE  OneCall(p) /\ call'[p].op = "list"
  <2> DEFINE off == call[p].page.offset
             limit == PageLimit(total, off, call[p].page.pageSize)
             s == MemItems(call[p].snap, off, limit)
  <2>1. CASE RunsOut(call[p].snap, off, limit)
    <3>1. Go(p, "panic")
      BY <1>7, <2>1 DEF ReadLimit
    <3> QED
      BY <1>1, <1>2, <3>1 DEF Goes
  <2>2. CASE ~RunsOut(call[p].snap, off, limit)
    <3>1. call' = [call EXCEPT ![p].pc = "ok", ![p].items = s]
      BY <1>7, <2>2 DEF ReadLimit
    <3>2. s \in Seq(Ids)
      BY <2>2, PageType DEF TableTypeOK, Calls
    <3> HIDE DEF s
    <3>3. Goes(p, "ok")
      BY <1>2, <3>1, <3>2, GoWithRowsMoves
    <3> QED
      BY <1>1, <3>3 DEF Goes
  <2> QED
    BY <2>1, <2>2
<1> QED
  BY <1>1, <1>3, <1>4, <1>5, <1>6, <1>7

LEMMA InsertRowMoves ==
  ASSUME TableTypeOK, NEW p \in Procs, NEW i \in Ids, call[p].op = "insert", ArgumentsInv(call[p]),
         InsertRow(p, i)
  PROVE  /\ OneCall(p)
         /\ call'[p].pc = "count" /\ call'[p].op = "insert" /\ call'[p].id = i
         /\ call'[p].val = call[p].val /\ call[p].val \in Vals
         /\ rows' = [rows EXCEPT ![i] = call[p].val]
         /\ drift' = IF rows[i] = Absent THEN drift ELSE drift - 1
         /\ UNCHANGED <<total, raced>>
<1>1. "count" \in Places(call[p].op)
  BY DEF Places
<1>2. call' = [call EXCEPT ![p].id = i, ![p].pc = "count"]
  BY DEF InsertRow
<1>3. /\ OneCall(p)
      /\ call'[p].pc = "count" /\ call'[p].id = i
      /\ call'[p].op = call[p].op /\ call'[p].val = call[p].val
  BY <1>1, <1>2, GoWithIdMoves
<1> QED
  BY <1>3 DEF InsertRow, ArgumentsInv

\* The id that NextId of the repositories gives, in three steps.
LEMMA NextIdMoves ==
  ASSUME TableTypeOK, NEW p \in Procs, nextId \in Nat \ {0}, ArgumentsInv(call[p]),
         ReadNextId(p) \/ LoadNextId(p) \/ StoreNextId(p)
  PROVE  /\ OneCall(p) /\ call[p].op = "insert" /\ call'[p].op = "insert"
         /\ call[p].pc \in {"id", "bump", "set"} /\ call'[p].pc \in {"bump", "set", "insert"}
         /\ call[p].pc = "id" => store = "repositories"
         /\ call'[p].id \in Ids /\ call'[p].val = call[p].val
         /\ call'[p].pc = "set" => call'[p].reg \in Nat \ {0}
         /\ nextId' \in Nat \ {0}
         /\ UNCHANGED <<rows, total, drift, raced, store, findings>>
<1>1. /\ call[p].op = "insert" /\ call[p].pc \in {"id", "bump", "set"}
      /\ UNCHANGED <<rows, total, drift, raced, store, findings>>
  BY DEF ReadNextId, LoadNextId, StoreNextId, At, ownVars
<1>2. {"bump", "set", "insert"} \subseteq Places(call[p].op)
  BY <1>1 DEF Places
<1>3. CASE ReadNextId(p)
  <2>1. nextId \in Ids /\ store = "repositories" /\ nextId' = nextId
    BY <1>3, MemTableAssumption DEF ReadNextId, Ids, ownVars
  <2>2. call' = [call EXCEPT ![p].id = nextId, ![p].pc = "bump"]
    BY <1>3 DEF ReadNextId
  <2>3. /\ OneCall(p)
        /\ call'[p].pc = "bump" /\ call'[p].id = nextId
        /\ call'[p].op = call[p].op /\ call'[p].val = call[p].val
    BY <1>2, <2>1, <2>2, GoWithIdMoves
  <2> QED
    BY <1>1, <2>1, <2>3
<1>4. CASE LoadNextId(p)
  <2>1. call[p].pc = "bump" /\ nextId' = nextId
    BY <1>4 DEF LoadNextId, At, ownVars
  <2>2. call' = [call EXCEPT ![p].reg = nextId, ![p].pc = "set"]
    BY <1>4 DEF LoadNextId
  <2>3. nextId \in Int /\ "set" \in Places(call[p].op)
    BY <1>2
  <2>4. Goes(p, "set") /\ call'[p].reg = nextId
    BY <2>2, <2>3, GoWithRegMoves
  <2>5. call[p].id \in Ids
    BY <1>1, <2>1 DEF ArgumentsInv
  <2> QED
    BY <1>1, <2>1, <2>4, <2>5 DEF Goes
<1>5. CASE StoreNextId(p)
  <2>1. call[p].pc = "set" /\ nextId' = call[p].reg + 1
    BY <1>5 DEF StoreNextId, At
  <2>2. call' = [call EXCEPT ![p].reg = 0, ![p].pc = "insert"]
    BY <1>5 DEF StoreNextId
  <2>3. 0 \in Int /\ "insert" \in Places(call[p].op)
    BY <1>2
  <2>4. Goes(p, "insert") /\ call'[p].reg = 0
    BY <2>2, <2>3, GoWithRegMoves
  <2>5. call[p].id \in Ids /\ call[p].reg \in Nat \ {0}
    BY <1>1, <2>1 DEF ArgumentsInv
  <2> QED
    BY <1>1, <2>1, <2>4, <2>5 DEF Goes
<1> QED
  BY <1>3, <1>4, <1>5

\* A call that begins.
LEMMA Beginnings ==
  ASSUME NEW i \in Ids, NEW v \in Vals \union {Absent}, NEW page \in Params \union {NoPage}, NEW c,
         \/ c = [Idle EXCEPT !.pc = "id", !.op = "insert", !.val = v] /\ v \in Vals
         \/ c = [Idle EXCEPT !.pc = "lookup", !.op = "retrieve", !.id = i]
         \/ c = [Idle EXCEPT !.pc = "lookup", !.op = "delete", !.id = i]
         \/ c = [Idle EXCEPT !.pc = "lookup", !.op = "update", !.id = i, !.val = v] /\ v \in Vals
         \/ c = [Idle EXCEPT !.pc = "check", !.op = "list", !.page = page]
  PROVE  /\ c \in Calls /\ c.pc \in Places(c.op)
         /\ c.pc \in {"id", "lookup", "check"} /\ c.op # "none"
         /\ c.op = "list" <=> c.pc = "check"
         /\ c.op = "insert" <=> c.pc = "id"
         /\ ArgumentsInv(c)
<1>0. /\ "id" \in Places("insert") /\ "lookup" \in Places("retrieve")
      /\ "lookup" \in Places("delete") /\ "lookup" \in Places("update")
      /\ "check" \in Places("list")
  BY DEF Places
<1>1. {"insert", "retrieve", "delete", "update", "list"} \subseteq Ops
  BY DEF Ops
<1>2. {"id", "lookup", "check"} \subseteq UNION {Places(op) : op \in Ops}
  BY <1>0, <1>1
<1>3. <<>> \in Seq(Ids)
  OBVIOUS
<1>4. c \in Calls
  <2>1. \A pc \in {"id", "lookup", "check"}, op \in Ops, j \in Ids \union {0},
           u \in Vals \union {Absent}, g \in Params \union {NoPage} :
             [pc |-> pc, op |-> op, id |-> j, val |-> u, reg |-> 0, page |-> g,
              snap |-> <<>>, items |-> <<>>] \in Calls
    <3>1. 0 \in Int
      OBVIOUS
    <3> QED
      BY <1>2, <1>3, <3>1, Zenon DEF Calls
  <2> DEFINE R(pc, op, j, u, g) == [pc |-> pc, op |-> op, id |-> j, val |-> u, reg |-> 0,
                                    page |-> g, snap |-> <<>>, items |-> <<>>]
  <2>2. \/ c = R("id", "insert", 0, v, NoPage)
        \/ c = R("lookup", "retrieve", i, Absent, NoPage)
        \/ c = R("lookup", "delete", i, Absent, NoPage)
        \/ c = R("lookup", "update", i, v, NoPage)
        \/ c = R("check", "list", 0, Absent, page)
    BY DEF Idle
  <2>3. \A pc \in {"id", "lookup", "check"}, op \in Ops, j \in Ids \union {0},
           u \in Vals \union {Absent}, g \in Params \union {NoPage} : R(pc, op, j, u, g) \in Calls
    BY <2>1
  <2> HIDE DEF R
  <2>4. /\ "insert" \in Ops /\ "retrieve" \in Ops /\ "delete" \in Ops /\ "update" \in Ops
        /\ "list" \in Ops
    BY <1>1
  <2>5. R("id", "insert", 0, v, NoPage) \in Calls /\ R("check", "list", 0, Absent, page) \in Calls
    BY <2>3, <2>4
  <2>6. R("lookup", "retrieve", i, Absent, NoPage) \in Calls
        /\ R("lookup", "delete", i, Absent, NoPage) \in Calls
        /\ R("lookup", "update", i, v, NoPage) \in Calls
    BY <2>3, <2>4
  <2> QED
    BY <2>2, <2>5, <2>6
<1>5. /\ c.pc \in Places(c.op)
      /\ c.pc \in {"id", "lookup", "check"} /\ c.op # "none"
      /\ c.op = "list" <=> c.pc = "check"
      /\ c.op = "insert" <=> c.pc = "id"
  BY <1>0 DEF Idle
<1>6. ArgumentsInv(c)
  BY DEF Idle, ArgumentsInv
<1> QED
  BY <1>4, <1>5, <1>6

-----------------------------------------------------------------------------
(* The steps of MemService, as far as the table looks at them.             *)

\* p makes another call, none or a Retrieve or Update being over.
NewCall(p) ==
  /\ OneCall(p)
  /\ call[p].op \in {"none", "retrieve", "update"}
  /\ call'[p].pc \in {"id", "lookup", "check"} /\ call'[p].op # "none"
  /\ call'[p].op = "insert" <=> call'[p].pc = "id"
  /\ ArgumentsInv(call'[p])

LEMMA BeginMoves ==
  ASSUME TableTypeOK, NEW p \in Procs, TableBegin(p)
  PROVE  call[p].pc = "idle" /\ NewCall(p) /\ UNCHANGED <<rows, total, drift, raced>>
<1> DEFINE Begins(c) ==
      /\ call[p].pc = "idle" /\ call' = [call EXCEPT ![p] = c]
      /\ c \in Calls /\ c.pc \in Places(c.op)
      /\ c.pc \in {"id", "lookup", "check"} /\ c.op # "none"
      /\ c.op = "insert" <=> c.pc = "id"
      /\ ArgumentsInv(c)
<1>1. ASSUME NEW i \in Ids, NEW v \in Vals \union {Absent}, NEW page \in Params \union {NoPage},
             \/ (BeginInsert(p, v) \/ BeginUpdate(p, i, v)) /\ v \in Vals
             \/ BeginRetrieve(p, i) \/ BeginDelete(p, i) \/ BeginList(p, page)
      PROVE  \E c : Begins(c)
  <2>1. PICK c :
          /\ Begin(p, c)
          /\ \/ c = [Idle EXCEPT !.pc = "id", !.op = "insert", !.val = v] /\ v \in Vals
             \/ c = [Idle EXCEPT !.pc = "lookup", !.op = "retrieve", !.id = i]
             \/ c = [Idle EXCEPT !.pc = "lookup", !.op = "delete", !.id = i]
             \/ c = [Idle EXCEPT !.pc = "lookup", !.op = "update", !.id = i, !.val = v]
                  /\ v \in Vals
             \/ c = [Idle EXCEPT !.pc = "check", !.op = "list", !.page = page]
    BY <1>1, Zenon DEF BeginInsert, BeginRetrieve, BeginDelete, BeginUpdate, BeginList
  <2>2. /\ c \in Calls /\ c.pc \in Places(c.op)
        /\ c.pc \in {"id", "lookup", "check"} /\ c.op # "none"
        /\ c.op = "insert" <=> c.pc = "id"
        /\ ArgumentsInv(c)
    BY <2>1, Beginnings, Zenon
  <2>3. call[p].pc = "idle" /\ call' = [call EXCEPT ![p] = c]
    BY <2>1, Zenon DEF Begin
  <2> QED
    BY <2>2, <2>3
<1>2. UNCHANGED <<rows, total, drift, raced>>
  BY DEF TableBegin
<1>3. PICK c : Begins(c)
  <2>1. 1 \in Ids /\ Absent \in Vals \union {Absent} /\ NoPage \in Params \union {NoPage}
    BY MemTableAssumption DEF Ids
  <2>2. CASE \E v \in Written : BeginInsert(p, v)
    BY <1>1, <2>1, <2>2, MemTableAssumption
  <2>3. CASE \E i \in Ids : BeginRetrieve(p, i) \/ BeginDelete(p, i)
    BY <1>1, <2>1, <2>3
  <2>4. CASE \E i \in Ids, v \in Written : BeginUpdate(p, i, v)
    BY <1>1, <2>1, <2>4, MemTableAssumption
  <2>5. CASE \E page \in Params : BeginList(p, page)
    BY <1>1, <2>1, <2>5
  <2> QED
    BY <2>2, <2>3, <2>4, <2>5 DEF TableBegin
<1>4. call[p].op = "none"
  BY <1>3, PlaceTells
<1>5. OneCall(p) /\ call'[p] = c
  BY <1>3, MovesTo
<1> QED
  BY <1>2, <1>3, <1>4, <1>5 DEF NewCall

LEMMA ServiceProcs ==
  /\ Handler \in Procs /\ Deleter \in Procs /\ Callers \subseteq Procs
  /\ Handler \notin Callers /\ Deleter \notin Callers
  /\ Handler # Deleter
  /\ 1 \in Ids
<1>1. 1 \in Ids
  BY MemTableAssumption DEF Ids
<1>2. Handler \in Procs /\ Deleter \in Procs /\ Callers \subseteq Procs
  BY MemServiceAssumption
<1>3. Handler \notin Callers /\ Deleter \notin Callers /\ Handler # Deleter
  BY MemServiceAssumption
<1> QED
  BY <1>1, <1>2, <1>3

\* The calls of the handler and of the DELETE.
LEMMA ServiceCalls ==
  ASSUME TableTypeOK, NEW p \in Procs, NEW c, Call(p, c),
         call[p].op \in {"none", "retrieve", "update"},
         \/ c = RetrieveCall \/ c = DeleteCall
         \/ \E status \in {"ONGOING", "SUCCESS", "FAILURE"} : c = UpdateCall(status)
  PROVE  /\ NewCall(p)
         /\ call'[p].pc = "lookup" /\ call'[p].id = 1
         /\ c = RetrieveCall => call'[p].op = "retrieve"
         /\ c = DeleteCall => call'[p].op = "delete"
         /\ \A status \in {"ONGOING", "SUCCESS", "FAILURE"} :
              c = UpdateCall(status) => call'[p].op = "update"
<1> DEFINE Value(status) == IF status = "ONGOING" THEN "IN PROGRESS" ELSE status
<1>1. \A status \in {"ONGOING", "SUCCESS", "FAILURE"} : Value(status) \in Vals
  BY MemServiceAssumption
<1>2. PICK v \in Vals \union {Absent} :
        \/ c = [Idle EXCEPT !.pc = "lookup", !.op = "retrieve", !.id = 1]
        \/ c = [Idle EXCEPT !.pc = "lookup", !.op = "delete", !.id = 1]
        \/ c = [Idle EXCEPT !.pc = "lookup", !.op = "update", !.id = 1, !.val = v] /\ v \in Vals
  <2>1. CASE c = RetrieveCall \/ c = DeleteCall
    BY <2>1, Zenon DEF RetrieveCall, DeleteCall
  <2>2. CASE \E status \in {"ONGOING", "SUCCESS", "FAILURE"} : c = UpdateCall(status)
    <3>1. PICK status \in {"ONGOING", "SUCCESS", "FAILURE"} : c = UpdateCall(status)
      BY <2>2
    <3>2. c = [Idle EXCEPT !.pc = "lookup", !.op = "update", !.id = 1, !.val = Value(status)]
      BY <3>1, Zenon DEF UpdateCall
    <3>3. Value(status) \in Vals
      BY <1>1
    <3> HIDE DEF Value
    <3> QED
      BY <3>2, <3>3
  <2> QED
    BY <2>1, <2>2
<1>3. 1 \in Ids /\ NoPage \in Params \union {NoPage}
  BY ServiceProcs
<1>4. /\ c \in Calls /\ c.pc \in Places(c.op)
      /\ c.pc \in {"id", "lookup", "check"} /\ c.op # "none"
      /\ c.op = "insert" <=> c.pc = "id"
      /\ ArgumentsInv(c)
  BY <1>2, <1>3, Beginnings, Zenon
<1>5. /\ c.pc = "lookup" /\ c.id = 1
      /\ c = RetrieveCall => c.op = "retrieve"
      /\ c = DeleteCall => c.op = "delete"
      /\ \A status \in {"ONGOING", "SUCCESS", "FAILURE"} :
              c = UpdateCall(status) => c.op = "update"
  BY DEF RetrieveCall, DeleteCall, UpdateCall, Idle
<1>6. call' = [call EXCEPT ![p] = c]
  BY DEF Call
<1>7. OneCall(p) /\ call'[p] = c
  BY <1>4, <1>6, MovesTo
<1> QED
  BY <1>4, <1>5, <1>7 DEF NewCall

\* A step of the handler or of the DELETE between the steps of its calls.
ServiceMove ==
  \/ \E status \in {"ONGOING", "SUCCESS", "FAILURE"} : ReceiveReport(status)
  \/ Retrieved \/ StoreFindings \/ Updated \/ ReceiveCancel
  \/ BeginDeleteScan \/ ScanDeleted \/ CancelScan \/ SweepFindings

LEMMA ServiceMoves ==
  ASSUME MemInv, ServiceMove
  PROVE  /\ handler # "none"
         /\ UNCHANGED <<rows, total, drift, raced, store, nextId>>
         /\ call' = call \/ NewCall(Handler) \/ NewCall(Deleter)
<1>1. TableTypeOK /\ ServiceInv /\ report \in {"none", "ONGOING", "SUCCESS", "FAILURE"}
  BY DEF MemInv, ServiceInv
<1>2. handler # "none"
  BY <1>1 DEF ServiceMove, ReceiveReport, Retrieved, StoreFindings, Updated, ReceiveCancel,
     BeginDeleteScan, ScanDeleted, CancelScan, SweepFindings, ServiceInv
<1>3. UNCHANGED <<rows, total, drift, raced, store, nextId>>
  BY DEF ServiceMove, ReceiveReport, Retrieved, StoreFindings, Updated, ReceiveCancel,
     BeginDeleteScan, ScanDeleted, CancelScan, SweepFindings, Unstored
<1>4. call[Handler].op \in {"none", "retrieve", "update"}
  BY <1>1, <1>2 DEF ServiceInv, HandlerInv
<1>5. ASSUME NEW status, ReceiveReport(status)
      PROVE  NewCall(Handler)
  BY <1>1, <1>4, <1>5, ServiceCalls, ServiceProcs DEF ReceiveReport
<1>6. handler \in {"retrieve", "insert"} => report \in {"ONGOING", "SUCCESS", "FAILURE"}
  BY <1>1, <1>2 DEF ServiceInv, HandlerInv
<1>7. ASSUME Retrieved
      PROVE  call' = call \/ NewCall(Handler)
  <2>1. handler = "retrieve" /\ (call' = call \/ Call(Handler, UpdateCall(report)))
    BY <1>7 DEF Retrieved
  <2> QED
    BY <1>1, <1>4, <1>6, <2>1, ServiceCalls, ServiceProcs
<1>8. ASSUME StoreFindings
      PROVE  NewCall(Handler)
  <2>1. handler = "insert" /\ Call(Handler, UpdateCall(report))
    BY <1>8 DEF StoreFindings
  <2> QED
    BY <1>1, <1>4, <1>6, <2>1, ServiceCalls, ServiceProcs
<1>9. ASSUME BeginDeleteScan
      PROVE  NewCall(Deleter)
  <2>1. call[Deleter].op = "none" /\ Call(Deleter, DeleteCall)
    BY <1>1, <1>2, <1>9 DEF BeginDeleteScan, ServiceInv, DeleterInv, Idle
  <2> QED
    BY <1>1, <2>1, ServiceCalls, ServiceProcs
<1>10. ASSUME Updated \/ ReceiveCancel \/ ScanDeleted \/ CancelScan \/ SweepFindings
       PROVE  call' = call
  BY <1>10 DEF Updated, ReceiveCancel, ScanDeleted, CancelScan, SweepFindings
<1> QED
  BY <1>2, <1>3, <1>5, <1>7, <1>8, <1>9, <1>10 DEF ServiceMove

LEMMA StepCases ==
  ASSUME MemInv, [MemServiceNext]_memServiceVars
  PROVE  \/ \E p \in Procs : TableStep(p) /\ UNCHANGED <<store, nextId>>
         \/ \E p \in Procs : \/ InsertScan(p) \/ InsertRepository(p)
                             \/ ReadNextId(p) \/ LoadNextId(p) \/ StoreNextId(p)
         \/ /\ UNCHANGED <<rows, total, drift, raced, store, nextId>>
            /\ call' = call \/ \E p \in Procs : NewCall(p)
<1>1. CASE ServiceMove
  BY <1>1, ServiceMoves, ServiceProcs
<1>2. CASE ServiceCall(Handler) \/ ServiceCall(Deleter)
  BY <1>2, ServiceProcs DEF ServiceCall, ownVars
<1>3. CASE CallersNext
  <2>1. PICK p \in Procs : StoreStep(p) \/ (TableBegin(p) /\ UNCHANGED ownVars)
    BY <1>3, ServiceProcs DEF CallersNext
  <2>2. CASE StoreStep(p)
    BY <2>2 DEF StoreStep, ownVars
  <2>3. CASE TableBegin(p) /\ UNCHANGED ownVars
    BY <2>3, BeginMoves DEF ownVars, MemInv
  <2> QED
    BY <2>1, <2>2, <2>3
<1>4. CASE UNCHANGED memServiceVars
  BY <1>4 DEF memServiceVars, memVars, tableVars, ownVars
<1> QED
  BY <1>1, <1>2, <1>3, <1>4 DEF MemServiceNext, ServiceMove

-----------------------------------------------------------------------------
(* Type correctness.                                                       *)

LEMMA TypeNext ==
  ASSUME MemInv, [MemServiceNext]_memServiceVars
  PROVE  /\ TableTypeOK'
         /\ \A p \in Procs : ArgumentsInv(call[p])'
         /\ store' = store
         /\ nextId' \in Nat \ {0}
<1>1. /\ TableTypeOK /\ nextId \in Nat \ {0}
      /\ \A p \in Procs : ArgumentsInv(call[p])
  BY DEF MemInv, IdsInv
<1> DEFINE Result(p) == /\ OneCall(p)
                        /\ ArgumentsInv(call'[p])
                        /\ rows' \in [Ids -> Vals \union {Absent}]
                        /\ total' \in MinInt..MaxInt /\ drift' \in Int /\ raced' \in BOOLEAN
                        /\ store' = store /\ nextId' \in Nat \ {0}
<1>2. ASSUME NEW p \in Procs, Result(p)
      PROVE  /\ TableTypeOK'
             /\ \A q \in Procs : ArgumentsInv(call[q])'
             /\ store' = store
             /\ nextId' \in Nat \ {0}
  <2>1. \A q \in Procs : call'[q].pc \in Places(call'[q].op)
    BY <1>1, <1>2 DEF OneCall, TableTypeOK
  <2>2. \A q \in Procs : ArgumentsInv(call'[q])
    BY <1>1, <1>2 DEF OneCall
  <2> QED
    BY <1>2, <2>1, <2>2 DEF TableTypeOK, OneCall
<1>3. ASSUME NEW p \in Procs, TableStep(p), UNCHANGED <<store, nextId>>
      PROVE  Result(p)
  <2>2. CASE Lookup(p)
    BY <1>1, <1>3, <2>2, LookupMoves DEF ArgumentsInv, TableTypeOK
  <2>3. CASE RemoveRow(p)
    BY <1>1, <1>3, <2>3, RemoveRowMoves DEF ArgumentsInv, TableTypeOK, Goes
  <2>4. CASE WriteRow(p)
    BY <1>1, <1>3, <2>4, WriteRowMoves DEF ArgumentsInv, TableTypeOK, Goes
  <2>5. CASE LoadTotal(p)
    BY <1>1, <1>3, <2>5, LoadTotalMoves DEF ArgumentsInv, TableTypeOK, Goes
  <2>6. CASE StoreTotal(p)
    <3>1. call[p].reg + Step(call[p].op) \in Int
      BY <1>1 DEF TableTypeOK, Calls, Step
    <3>2. Wrap(call[p].reg + Step(call[p].op)) \in MinInt..MaxInt
      BY <3>1, WrapType
    <3> QED
      BY <1>1, <1>3, <2>6, <3>2, StoreTotalMoves DEF ArgumentsInv, TableTypeOK, Goes
  <2>7. CASE CheckPage(p) \/ ReadTotal(p) \/ CheckEmpty(p) \/ Snapshot(p) \/ ReadLimit(p)
    BY <1>1, <1>3, <2>7, ListMoves DEF ArgumentsInv, TableTypeOK
  <2> QED
    BY <1>3, <2>2, <2>3, <2>4, <2>5, <2>6, <2>7 DEF TableStep
<1>4. ASSUME NEW p \in Procs, InsertScan(p) \/ InsertRepository(p)
      PROVE  Result(p)
  <2>1. PICK i \in Ids : InsertRow(p, i)
    BY <1>1, <1>4, MemTableAssumption DEF InsertScan, InsertRepository, ArgumentsInv, At, Ids
  <2>2. call[p].op = "insert" /\ store' = store /\ nextId' \in Nat \ {0}
    BY <1>1, <1>4 DEF InsertScan, InsertRepository, At, ownVars
  <2> QED
    BY <1>1, <2>1, <2>2, InsertRowMoves DEF ArgumentsInv, TableTypeOK
<1>5. ASSUME NEW p \in Procs, ReadNextId(p) \/ LoadNextId(p) \/ StoreNextId(p)
      PROVE  Result(p)
  BY <1>1, <1>5, NextIdMoves DEF ArgumentsInv, TableTypeOK
<1>6. ASSUME NEW p \in Procs, NewCall(p), UNCHANGED <<rows, total, drift, raced, store, nextId>>
      PROVE  Result(p)
  BY <1>1, <1>6 DEF NewCall, TableTypeOK
<1>7. CASE UNCHANGED <<rows, total, drift, raced, store, nextId, call>>
  BY <1>1, <1>7 DEF TableTypeOK
<1> HIDE DEF Result
<1> QED
  BY <1>2, <1>3, <1>4, <1>5, <1>6, <1>7, StepCases

-----------------------------------------------------------------------------
(* The counter.                                                            *)

One(b) == IF b THEN 1 ELSE 0

\* A set that changes at x only.
LEMMA CardinalityMoves ==
  ASSUME NEW S, NEW T, NEW x, IsFiniteSet(S), \A y : y # x => (y \in S <=> y \in T)
  PROVE  /\ IsFiniteSet(T) /\ Cardinality(S) \in Nat /\ Cardinality(T) \in Nat
         /\ Cardinality(T) = Cardinality(S) + One(x \in T) - One(x \in S)
<1>0. Cardinality(S) \in Nat
  BY FS_CardinalityType
<1>1. CASE x \in T /\ x \notin S
  <2>1. T = S \union {x}
    BY <1>1
  <2> QED
    BY <1>0, <1>1, <2>1, FS_AddElement DEF One
<1>2. CASE x \notin T /\ x \in S
  <2>1. T = S \ {x}
    BY <1>2
  <2>2. IsFiniteSet(T) /\ Cardinality(T) = Cardinality(S) - 1
    BY <1>2, <2>1, FS_RemoveElement
  <2>3. Cardinality(T) \in Nat
    BY <2>2, FS_CardinalityType
  <2> QED
    BY <1>0, <1>2, <2>2, <2>3 DEF One
<1>3. CASE (x \in T) = (x \in S)
  <2>1. T = S
    BY <1>3
  <2> QED
    BY <1>0, <1>3, <2>1 DEF One
<1> QED
  BY <1>1, <1>2, <1>3

Counts(c, op) == c.op = op /\ c.pc \in {"count", "store"}

LEMMA SizesAreFinite ==
  /\ IsFiniteSet(Existing) /\ Cardinality(Existing) \in Nat
  /\ \A op : IsFiniteSet(Uncounted(op)) /\ Cardinality(Uncounted(op)) \in Nat
<1>1. IsFiniteSet(Ids)
  BY FS_Interval, MemTableAssumption DEF Ids
<1>2. Existing \subseteq Ids /\ \A op : Uncounted(op) \subseteq Procs
  BY DEF Existing, Uncounted
<1>3. IsFiniteSet(Existing) /\ \A op : IsFiniteSet(Uncounted(op))
  BY <1>1, <1>2, FS_Subset, MemTableAssumption
<1> QED
  BY <1>3, FS_CardinalityType

LEMMA UncountedMoves ==
  ASSUME NEW p \in Procs, OneCall(p), NEW op
  PROVE  Cardinality(Uncounted(op)') =
           Cardinality(Uncounted(op)) + One(Counts(call'[p], op)) - One(Counts(call[p], op))
<1>1. \A q : q # p => (q \in Uncounted(op) <=> q \in Uncounted(op)')
  BY DEF Uncounted, OneCall
<1>2. p \in Uncounted(op) <=> Counts(call[p], op)
  BY DEF Uncounted, Counts
<1>3. p \in Uncounted(op)' <=> Counts(call'[p], op)
  BY DEF Uncounted, Counts
<1>4. Cardinality(Uncounted(op)') =
        Cardinality(Uncounted(op)) + One(p \in Uncounted(op)') - One(p \in Uncounted(op))
  BY <1>1, SizesAreFinite, CardinalityMoves
<1> QED
  BY <1>2, <1>3, <1>4 DEF One

LEMMA ExistingMoves ==
  ASSUME TableTypeOK, NEW i \in Ids, NEW v \in Vals \union {Absent}, rows' = [rows EXCEPT ![i] = v]
  PROVE  Cardinality(Existing') =
           Cardinality(Existing) + One(v # Absent) - One(rows[i] # Absent)
<1>1. \A j : j # i => (j \in Existing <=> j \in Existing')
  BY DEF Existing, TableTypeOK
<1>2. i \in Existing <=> rows[i] # Absent
  BY DEF Existing
<1>3. i \in Existing' <=> v # Absent
  BY DEF Existing, TableTypeOK
<1>4. Cardinality(Existing') =
        Cardinality(Existing) + One(i \in Existing') - One(i \in Existing)
  BY <1>1, SizesAreFinite, CardinalityMoves
<1> QED
  BY <1>2, <1>3, <1>4 DEF One

\* A step that changes the number of rows by e and the drift by d, and p's call.
LEMMA CountedMoves ==
  ASSUME TableTypeOK, NEW p \in Procs, OneCall(p), NEW e \in Int, NEW d \in Int,
         Cardinality(Existing') = Cardinality(Existing) + e, drift' = drift + d
  PROVE  /\ Counted \in Int
         /\ Counted' = Counted + e - d
              - One(Counts(call'[p], "insert")) + One(Counts(call[p], "insert"))
              + One(Counts(call'[p], "delete")) - One(Counts(call[p], "delete"))
<1>1. /\ Cardinality(Existing) \in Int
      /\ Cardinality(Uncounted("insert")) \in Int /\ Cardinality(Uncounted("delete")) \in Int
  BY SizesAreFinite
<1>2. drift \in Int
  BY DEF TableTypeOK
<1>3. Cardinality(Uncounted("insert")') = Cardinality(Uncounted("insert"))
        + One(Counts(call'[p], "insert")) - One(Counts(call[p], "insert"))
  BY UncountedMoves
<1>4. Cardinality(Uncounted("delete")') = Cardinality(Uncounted("delete"))
        + One(Counts(call'[p], "delete")) - One(Counts(call[p], "delete"))
  BY UncountedMoves
<1>5. \A b : One(b) \in Int
  BY DEF One
<1> DEFINE i0 == One(Counts(call[p], "insert"))
           i1 == One(Counts(call'[p], "insert"))
           d0 == One(Counts(call[p], "delete"))
           d1 == One(Counts(call'[p], "delete"))
<1>6. i0 \in Int /\ i1 \in Int /\ d0 \in Int /\ d1 \in Int
  BY <1>5
<1>7. Counted' = Cardinality(Existing') - Cardinality(Uncounted("insert")')
                   + Cardinality(Uncounted("delete")') - drift'
  BY DEF Counted
<1> HIDE DEF i0, i1, d0, d1
<1>8. /\ Cardinality(Uncounted("insert")') = Cardinality(Uncounted("insert")) + i1 - i0
      /\ Cardinality(Uncounted("delete")') = Cardinality(Uncounted("delete")) + d1 - d0
  BY <1>3, <1>4 DEF i0, i1, d0, d1
<1>9. Counted \in Int /\ Counted' = Counted + e - d - i1 + i0 + d1 - d0
  BY <1>1, <1>2, <1>6, <1>7, <1>8 DEF Counted
<1> QED
  BY <1>9 DEF i0, i1, d0, d1

\* The steps of a call that total has nothing to do with.
LEMMA UncountedSteps ==
  ASSUME TableTypeOK, NEW p \in Procs, OneCall(p), UNCHANGED <<rows, drift>>,
         \A op \in {"insert", "delete"} : Counts(call'[p], op) <=> Counts(call[p], op)
  PROVE  Counted \in Int /\ Counted' = Counted
<1>1. Existing' = Existing
  BY DEF Existing
<1>2. Cardinality(Existing') = Cardinality(Existing) + 0 /\ drift' = drift + 0
  BY <1>1, SizesAreFinite DEF TableTypeOK
<1>3. /\ Counted \in Int
      /\ Counted' = Counted + 0 - 0
              - One(Counts(call'[p], "insert")) + One(Counts(call[p], "insert"))
              + One(Counts(call'[p], "delete")) - One(Counts(call[p], "delete"))
  BY <1>2, CountedMoves
<1>4. \A b : One(b) \in Int
  BY DEF One
<1>5. /\ One(Counts(call'[p], "insert")) = One(Counts(call[p], "insert"))
      /\ One(Counts(call'[p], "delete")) = One(Counts(call[p], "delete"))
  BY DEF One
<1> QED
  BY <1>3, <1>4, <1>5

\* The store of an increment or decrement that nothing overtook.
LEMMA TotalStored ==
  ASSUME TableTypeOK, TotalCountsRows, NEW p \in Procs, StoreTotal(p), ~raced'
  PROVE  total' = Wrap(Counted')
<1>1. /\ call[p].op \in {"insert", "delete"} /\ call[p].pc = "store"
      /\ Goes(p, "ok")
      /\ total' = Wrap(call[p].reg + Step(call[p].op))
      /\ raced' = (raced \/ call[p].reg # total)
      /\ rows' = rows /\ drift' = drift
  BY StoreTotalMoves
<1>2. ~raced /\ call[p].reg = total
  BY <1>1 DEF TableTypeOK
<1>3. total = Wrap(Counted)
  BY <1>2 DEF TotalCountsRows
<1>4. Existing' = Existing
  BY <1>1 DEF Existing
<1>5. Cardinality(Existing') = Cardinality(Existing) + 0 /\ drift' = drift + 0
  BY <1>1, <1>4, SizesAreFinite DEF TableTypeOK
<1>6. /\ Counted \in Int
      /\ Counted' = Counted + 0 - 0
              - One(Counts(call'[p], "insert")) + One(Counts(call[p], "insert"))
              + One(Counts(call'[p], "delete")) - One(Counts(call[p], "delete"))
  BY <1>1, <1>5, CountedMoves DEF Goes
<1>7. Counted' = Counted + Step(call[p].op)
  BY <1>1, <1>6 DEF Goes, Counts, One, Step
<1>8. Step(call[p].op) \in Int
  BY DEF Step
<1>9. Wrap(Wrap(Counted) + Step(call[p].op)) = Wrap(Counted + Step(call[p].op))
  BY <1>6, <1>8, WrapStep
<1> QED
  BY <1>1, <1>2, <1>3, <1>7, <1>9

LEMMA TotalNext ==
  ASSUME MemInv, [MemServiceNext]_memServiceVars
  PROVE  TotalCountsRows'
<1>1. TableTypeOK /\ TotalCountsRows /\ \A p \in Procs : ArgumentsInv(call[p])
  BY DEF MemInv
<1>2. ASSUME UNCHANGED <<rows, total, drift, raced>>, Counted' = Counted
      PROVE  TotalCountsRows'
  BY <1>1, <1>2 DEF TotalCountsRows
<1>3. ASSUME NEW p \in Procs, OneCall(p), UNCHANGED <<rows, total, drift, raced>>,
             \A op \in {"insert", "delete"} : Counts(call'[p], op) <=> Counts(call[p], op)
      PROVE  TotalCountsRows'
  BY <1>1, <1>2, <1>3, UncountedSteps
<1>4. ASSUME NEW p \in Procs, OneCall(p), NEW i \in Ids, NEW v \in Vals \union {Absent},
             NEW d \in Int, rows' = [rows EXCEPT ![i] = v], drift' = drift + d,
             UNCHANGED <<total, raced>>,
             One(v # Absent) - One(rows[i] # Absent) - d
               - One(Counts(call'[p], "insert")) + One(Counts(call[p], "insert"))
               + One(Counts(call'[p], "delete")) - One(Counts(call[p], "delete")) = 0
      PROVE  TotalCountsRows'
  <2> DEFINE a == One(v # Absent)
             b == One(rows[i] # Absent)
             e == a - b
             i0 == One(Counts(call[p], "insert"))
             i1 == One(Counts(call'[p], "insert"))
             d0 == One(Counts(call[p], "delete"))
             d1 == One(Counts(call'[p], "delete"))
  <2>1. /\ a \in Int /\ b \in Int
        /\ i0 \in Int /\ i1 \in Int /\ d0 \in Int /\ d1 \in Int
    BY DEF One
  <2>2. Cardinality(Existing') = Cardinality(Existing) + a - b
    BY <1>1, <1>4, ExistingMoves
  <2>3. a - b - d - i1 + i0 + d1 - d0 = 0
    BY <1>4
  <2> HIDE DEF a, b, i0, i1, d0, d1
  <2>4. e \in Int /\ Cardinality(Existing') = Cardinality(Existing) + e
    BY <2>1, <2>2, SizesAreFinite
  <2>5. Counted \in Int /\ Counted' = Counted + e - d - i1 + i0 + d1 - d0
    <3> HIDE DEF e
    <3> QED
      BY <1>1, <1>4, <2>4, CountedMoves DEF i0, i1, d0, d1
  <2>6. Counted' = Counted
    BY <2>1, <2>3, <2>5
  <2> QED
    BY <1>1, <1>4, <2>6 DEF TotalCountsRows
<1>5. ASSUME NEW p \in Procs, TableStep(p)
      PROVE  TotalCountsRows'
  <2>1. CASE Lookup(p)
    <3>1. OneCall(p) /\ UNCHANGED <<rows, total, drift, raced>>
          /\ call[p].pc = "lookup" /\ call'[p].pc \notin {"count", "store"}
      BY <1>1, <2>1, LookupMoves DEF AfterLookup
    <3> QED
      BY <1>3, <3>1 DEF Counts
  <2>2. CASE RemoveRow(p)
    <3>1. CASE rows' = rows
      <4>1. /\ call[p].pc = "remove" /\ Goes(p, "failed")
            /\ UNCHANGED <<rows, total, drift, raced>>
        BY <1>1, <2>2, <3>1, RemoveRowMoves DEF TableTypeOK
      <4> QED
        BY <1>3, <4>1 DEF Goes, Counts
    <3>2. CASE rows' # rows
      <4>1. /\ call[p].op = "delete" /\ call[p].pc = "remove" /\ call[p].id \in Ids
            /\ rows[call[p].id] # Absent /\ Goes(p, "count")
            /\ rows' = [rows EXCEPT ![call[p].id] = Absent]
            /\ UNCHANGED <<total, drift, raced>>
        BY <1>1, <2>2, <3>2, RemoveRowMoves
      <4>2. drift' = drift + 0
        BY <1>1, <4>1 DEF TableTypeOK
      <4>3. PICK v \in Vals \union {Absent} : v = Absent
        OBVIOUS
      <4>4. One(v # Absent) - One(rows[call[p].id] # Absent) - 0
              - One(Counts(call'[p], "insert")) + One(Counts(call[p], "insert"))
              + One(Counts(call'[p], "delete")) - One(Counts(call[p], "delete")) = 0
        BY <4>1, <4>3 DEF Goes, Counts, One
      <4>5. OneCall(p) /\ rows' = [rows EXCEPT ![call[p].id] = v]
            /\ UNCHANGED <<total, raced>> /\ call[p].id \in Ids /\ 0 \in Int
        BY <4>1, <4>3 DEF Goes
      <4> QED
        BY <1>4, <4>2, <4>3, <4>4, <4>5, Zenon
    <3> QED
      BY <3>1, <3>2
  <2>3. CASE WriteRow(p)
    <3>1. /\ call[p].op = "update" /\ call[p].id \in Ids /\ call[p].val \in Vals
          /\ call[p].val # Absent
          /\ Goes(p, "ok") /\ OneCall(p) /\ call'[p].op = "update"
          /\ rows' = [rows EXCEPT ![call[p].id] = call[p].val]
          /\ drift' = drift + One(rows[call[p].id] = Absent)
          /\ UNCHANGED <<total, raced>>
      BY <1>1, <2>3, WriteRowMoves, MemTableAssumption DEF Goes, One, TableTypeOK
    <3>2. One(call[p].val # Absent) - One(rows[call[p].id] # Absent)
            - One(rows[call[p].id] = Absent)
            - One(Counts(call'[p], "insert")) + One(Counts(call[p], "insert"))
            + One(Counts(call'[p], "delete")) - One(Counts(call[p], "delete")) = 0
      BY <3>1 DEF Counts, One
    <3>3. One(rows[call[p].id] = Absent) \in Int
      BY DEF One
    <3> QED
      BY <1>4, <3>1, <3>2, <3>3
  <2>4. CASE LoadTotal(p)
    BY <1>1, <1>3, <2>4, LoadTotalMoves DEF Goes, Counts
  <2>5. CASE StoreTotal(p)
    BY <1>1, <2>5, TotalStored DEF TotalCountsRows
  <2>6. CASE CheckPage(p) \/ ReadTotal(p) \/ CheckEmpty(p) \/ Snapshot(p) \/ ReadLimit(p)
    BY <1>1, <1>3, <2>6, ListMoves DEF Counts
  <2> QED
    BY <1>5, <2>1, <2>2, <2>3, <2>4, <2>5, <2>6 DEF TableStep
<1>6. ASSUME NEW p \in Procs, InsertScan(p) \/ InsertRepository(p)
      PROVE  TotalCountsRows'
  <2>1. PICK i \in Ids : InsertRow(p, i)
    BY <1>1, <1>6, MemTableAssumption DEF InsertScan, InsertRepository, MemInv, IdsInv,
       ArgumentsInv, At, Ids
  <2>2. call[p].op = "insert" /\ call[p].pc \in {"id", "insert"}
    BY <1>6 DEF InsertScan, InsertRepository, At
  <2>3. /\ OneCall(p)
        /\ call'[p].pc = "count" /\ call'[p].op = "insert"
        /\ call[p].val \in Vals /\ call[p].val # Absent
        /\ rows' = [rows EXCEPT ![i] = call[p].val]
        /\ drift' = drift + (0 - One(rows[i] # Absent))
        /\ UNCHANGED <<total, raced>>
    BY <1>1, <2>1, <2>2, InsertRowMoves, MemTableAssumption DEF One, TableTypeOK
  <2>4. One(call[p].val # Absent) - One(rows[i] # Absent) - (0 - One(rows[i] # Absent))
          - One(Counts(call'[p], "insert")) + One(Counts(call[p], "insert"))
          + One(Counts(call'[p], "delete")) - One(Counts(call[p], "delete")) = 0
    BY <2>2, <2>3 DEF Counts, One
  <2>5. (0 - One(rows[i] # Absent)) \in Int
    BY DEF One
  <2> QED
    BY <1>4, <2>3, <2>4, <2>5
<1>7. ASSUME NEW p \in Procs, ReadNextId(p) \/ LoadNextId(p) \/ StoreNextId(p)
      PROVE  TotalCountsRows'
  <2>1. nextId \in Nat \ {0}
    BY DEF MemInv, IdsInv
  <2> QED
    BY <1>1, <1>3, <1>7, <2>1, NextIdMoves DEF Counts
<1>8. ASSUME NEW p \in Procs, NewCall(p), UNCHANGED <<rows, total, drift, raced>>
      PROVE  TotalCountsRows'
  BY <1>3, <1>8 DEF NewCall, Counts
<1>9. CASE UNCHANGED <<rows, total, drift, raced, call>>
  BY <1>2, <1>9 DEF Counted, Existing, Uncounted
<1> QED
  BY <1>5, <1>6, <1>7, <1>8, <1>9, StepCases

-----------------------------------------------------------------------------
(* The ids.                                                                *)

\* What IdsInv says of the scans.
NewIds ==
  /\ \A p \in Procs : InsertsScan(p) =>
       call[p].pc \in {"count", "store", "ok"} /\ call[p].id < nextId
  /\ \A p, q \in Procs :
       p # q /\ InsertsScan(p) /\ InsertsScan(q) => call[p].id # call[q].id
  /\ \A p \in Procs : At(p, "update", "write") => call[p].id < nextId
  /\ \A i \in Ids : i >= nextId => rows[i] = Absent

\* A call that got its id before, and a row that was there before, change nothing.
LEMMA IdsStay ==
  ASSUME NewIds, NEW p \in Procs, OneCall(p), nextId' = nextId,
         InsertsScan(p)' => /\ InsertsScan(p) /\ call'[p].id = call[p].id
                            /\ call'[p].pc \in {"count", "store", "ok"},
         At(p, "update", "write")' => call'[p].id < nextId,
         \A i \in Ids : i >= nextId => rows'[i] = Absent
  PROVE  NewIds'
<1>1. \A q \in Procs : InsertsScan(q)' =>
        /\ InsertsScan(q) /\ call'[q].id = call[q].id
        /\ call'[q].pc \in {"count", "store", "ok"}
  BY DEF OneCall, InsertsScan, NewIds
<1>2. \A q \in Procs : At(q, "update", "write")' => call'[q].id < nextId
  BY DEF OneCall, At, NewIds
<1> QED
  BY <1>1, <1>2 DEF NewIds

LEMMA IdsNext ==
  ASSUME MemInv, [MemServiceNext]_memServiceVars
  PROVE  IdsInv'
<1>1. /\ TableTypeOK /\ nextId \in Nat \ {0}
      /\ \A p \in Procs : ArgumentsInv(call[p])
  BY DEF MemInv, IdsInv
<1>2. store' = store /\ nextId' \in Nat \ {0}
  BY TypeNext
<1> SUFFICES ASSUME store = "scans" PROVE NewIds'
  BY <1>2 DEF IdsInv, NewIds
<1>3. NewIds
  BY DEF NewIds, MemInv, IdsInv
<1>4. \A i \in Ids : i >= nextId => rows[i] = Absent
  BY <1>3 DEF NewIds
<1>5. ASSUME NEW p \in Procs, TableStep(p), UNCHANGED nextId
      PROVE  NewIds'
  <2>1. CASE Lookup(p)
    <3>1. /\ OneCall(p) /\ call[p].op # "insert" /\ call'[p].op = call[p].op
          /\ call'[p].id = call[p].id /\ call[p].id \in Ids /\ rows' = rows
          /\ rows[call[p].id] = Absent => call'[p].pc = "missing"
      BY <1>1, <2>1, LookupMoves
    <3>2. ASSUME At(p, "update", "write")'
          PROVE  call'[p].id < nextId
      BY <1>1, <1>4, <3>1, <3>2 DEF At, Ids
    <3> QED
      BY <1>3, <1>4, <1>5, <3>1, <3>2, IdsStay DEF InsertsScan
  <2>2. CASE RemoveRow(p)
    <3>1. /\ OneCall(p) /\ call'[p].op = "delete"
          /\ \A i \in Ids : rows'[i] \in {rows[i], Absent}
      BY <1>1, <2>2, RemoveRowMoves DEF Goes, TableTypeOK
    <3> QED
      BY <1>3, <1>4, <1>5, <3>1, IdsStay DEF InsertsScan, At
  <2>3. CASE WriteRow(p)
    <3>1. /\ call[p].op = "update" /\ call[p].pc = "write" /\ call[p].id \in Ids
          /\ OneCall(p) /\ call'[p].op = "update" /\ call'[p].pc = "ok"
          /\ rows' = [rows EXCEPT ![call[p].id] = call[p].val]
      BY <1>1, <2>3, WriteRowMoves DEF Goes
    <3>2. call[p].id < nextId
      BY <1>3, <3>1 DEF NewIds, At
    <3>3. \A i \in Ids : i >= nextId => rows'[i] = Absent
      BY <1>1, <1>4, <3>1, <3>2 DEF Ids, TableTypeOK
    <3> QED
      BY <1>3, <1>5, <3>1, <3>3, IdsStay DEF InsertsScan, At
  <2>4. CASE LoadTotal(p) \/ StoreTotal(p)
    <3>1. /\ OneCall(p) /\ call[p].pc \in {"count", "store"} /\ call'[p].pc \in {"store", "ok"}
          /\ call'[p].op = call[p].op /\ call'[p].id = call[p].id
          /\ call[p].op # "update" /\ rows' = rows
      BY <1>1, <2>4, LoadTotalMoves, StoreTotalMoves DEF Goes
    <3> QED
      BY <1>3, <1>4, <1>5, <3>1, IdsStay DEF InsertsScan, At
  <2>5. CASE CheckPage(p) \/ ReadTotal(p) \/ CheckEmpty(p) \/ Snapshot(p) \/ ReadLimit(p)
    <3>1. OneCall(p) /\ call'[p].op = "list" /\ rows' = rows
      BY <1>1, <2>5, ListMoves
    <3> QED
      BY <1>3, <1>4, <1>5, <3>1, IdsStay DEF InsertsScan, At
  <2> QED
    BY <1>5, <2>1, <2>2, <2>3, <2>4, <2>5 DEF TableStep
<1>6. ASSUME NEW p \in Procs, InsertScan(p)
      PROVE  NewIds'
  <2>1. /\ nextId \in Ids /\ nextId' = nextId + 1 /\ InsertRow(p, nextId)
        /\ call[p].op = "insert"
    BY <1>1, <1>6, MemTableAssumption DEF InsertScan, At, Ids
  <2>2. /\ OneCall(p) /\ call'[p].pc = "count" /\ call'[p].op = "insert"
        /\ call'[p].id = nextId /\ rows' = [rows EXCEPT ![nextId] = call[p].val]
    BY <1>1, <2>1, InsertRowMoves
  <2>3. \A i \in Ids : i >= nextId' => rows'[i] = Absent
    BY <1>1, <1>4, <2>1, <2>2 DEF Ids, TableTypeOK
  <2>4. \A q \in Procs \ {p} : InsertsScan(q)' =>
          /\ InsertsScan(q) /\ call'[q].id = call[q].id /\ call[q].id < nextId
          /\ call'[q].pc \in {"count", "store", "ok"}
    BY <1>3, <2>2 DEF OneCall, InsertsScan, NewIds
  <2>5. \A q \in Procs : call'[q].id \in Int /\ call[q].id \in Int
    BY <1>1, <2>2, MemTableAssumption DEF OneCall, TableTypeOK, Calls, Ids
  <2>6. \A q \in Procs : At(q, "update", "write")' => call'[q].id < nextId
    BY <1>3, <2>2 DEF OneCall, At, NewIds
  <2>7. \A q \in Procs : InsertsScan(q)' =>
          call'[q].pc \in {"count", "store", "ok"} /\ call'[q].id < nextId'
    BY <1>1, <2>1, <2>2, <2>4, <2>5
  <2>8. \A q, r \in Procs : q # r /\ InsertsScan(q)' /\ InsertsScan(r)' => call'[q].id # call'[r].id
    BY <1>1, <1>3, <2>2, <2>4, <2>5 DEF NewIds
  <2>9. \A q \in Procs : At(q, "update", "write")' => call'[q].id < nextId'
    BY <1>1, <2>1, <2>5, <2>6
  <2> QED
    BY <2>3, <2>7, <2>8, <2>9 DEF NewIds
<1>7. ASSUME NEW p \in Procs,
             InsertRepository(p) \/ ReadNextId(p) \/ LoadNextId(p) \/ StoreNextId(p)
      PROVE  FALSE
  BY <1>3, <1>7 DEF InsertRepository, ReadNextId, LoadNextId, StoreNextId, At, NewIds, InsertsScan
<1>8. ASSUME NEW p \in Procs, NewCall(p), UNCHANGED <<rows, nextId>>
      PROVE  NewIds'
  BY <1>3, <1>4, <1>8, IdsStay DEF NewCall, InsertsScan, At
<1>9. CASE UNCHANGED <<rows, nextId, call>>
  BY <1>3, <1>9 DEF NewIds, InsertsScan, At
<1> QED
  BY <1>5, <1>6, <1>7, <1>8, <1>9, StepCases

-----------------------------------------------------------------------------
(* The scan and its deletion.                                              *)

\* A step between two calls of the handler.
LEMMA HandlerMoves ==
  ASSUME MemInv,
         \/ \E status \in {"ONGOING", "SUCCESS", "FAILURE"} : ReceiveReport(status)
         \/ Retrieved \/ StoreFindings \/ Updated \/ ReceiveCancel
  PROVE  /\ HandlerInv' /\ DeleterInv' /\ QuietInv'
         /\ handler' \in {"select", "retrieve", "insert", "update", "done"}
         /\ report' \in {"none", "ONGOING", "SUCCESS", "FAILURE"}
         /\ findings' \in [Ids -> SUBSET Findings] /\ UNCHANGED <<rows, del, overlap>>
         /\ \A q \in Procs \ {Handler} : call'[q] = call[q]
<1>1. TableTypeOK /\ ServiceInv /\ handler # "none" /\ rows' = rows
  BY ServiceMoves DEF MemInv, ServiceMove
<1>2. HandlerInv /\ DeleterInv /\ QuietInv
  BY <1>1 DEF ServiceInv
<1>3. /\ report \in {"none", "ONGOING", "SUCCESS", "FAILURE"}
      /\ findings \in [Ids -> SUBSET Findings] /\ overlap \in BOOLEAN
  BY <1>1 DEF ServiceInv
<1>4. /\ Handler \in Procs /\ Deleter \in Procs /\ Handler # Deleter /\ 1 \in Ids
  BY ServiceProcs
<1>5. call[Handler].op \in {"none", "retrieve", "update"}
  BY <1>2 DEF HandlerInv
<1>6. call[Handler].op = "none" => call[Handler].pc = "idle"
  BY <1>1, <1>4, PlaceTells
\* The DELETE's call stands where it was.
<1>7. ASSUME call' = call \/ NewCall(Handler)
      PROVE  /\ call'[Deleter] = call[Deleter]
             /\ \A q \in Procs \ {Handler} : call'[q] = call[q]
  BY <1>4, <1>7 DEF NewCall, OneCall
<1>8. ASSUME NEW status \in {"ONGOING", "SUCCESS", "FAILURE"}, ReceiveReport(status)
      PROVE  /\ HandlerInv' /\ DeleterInv' /\ QuietInv'
             /\ handler' \in {"select", "retrieve", "insert", "update", "done"}
             /\ report' \in {"none", "ONGOING", "SUCCESS", "FAILURE"}
             /\ findings' \in [Ids -> SUBSET Findings] /\ UNCHANGED <<del, overlap>>
             /\ \A q \in Procs \ {Handler} : call'[q] = call[q]
  <2>1. /\ handler = "select" /\ handler' = "retrieve" /\ report' = status
        /\ Call(Handler, RetrieveCall) /\ UNCHANGED <<findings, del, overlap>>
    BY <1>8 DEF ReceiveReport
  <2>2. /\ NewCall(Handler) /\ call'[Handler].pc = "lookup" /\ call'[Handler].id = 1
        /\ call'[Handler].op = "retrieve"
    BY <1>1, <1>4, <1>5, <2>1, ServiceCalls
  <2>3. HandlerInv'
    BY <2>1, <2>2 DEF HandlerInv
  <2>4. DeleterInv'
    BY <1>2, <1>7, <2>1, <2>2 DEF DeleterInv
  <2>5. QuietInv'
    BY <1>1, <1>2, <1>7, <2>1, <2>2 DEF QuietInv, Removed
  <2> QED
    BY <1>3, <1>7, <2>1, <2>2, <2>3, <2>4, <2>5
<1>9. ASSUME Retrieved
      PROVE  /\ HandlerInv' /\ DeleterInv' /\ QuietInv'
             /\ handler' \in {"select", "retrieve", "insert", "update", "done"}
             /\ report' \in {"none", "ONGOING", "SUCCESS", "FAILURE"}
             /\ findings' \in [Ids -> SUBSET Findings] /\ UNCHANGED <<del, overlap>>
             /\ \A q \in Procs \ {Handler} : call'[q] = call[q]
  <2>1. /\ handler = "retrieve" /\ call[Handler].op = "retrieve" /\ report # "none"
        /\ UNCHANGED <<findings, report, del, overlap>>
        /\ \/ call[Handler].pc = "ok" /\ handler' = "insert" /\ call' = call
           \/ call[Handler].pc = "ok" /\ handler' = "update" /\ Call(Handler, UpdateCall(report))
           \/ call[Handler].pc = "missing" /\ handler' = "done" /\ call' = call
    BY <1>2, <1>9 DEF Retrieved, At, HandlerInv
  <2>2. ASSUME handler' = "update"
        PROVE  NewCall(Handler) /\ call'[Handler].id = 1 /\ call'[Handler].op = "update"
    BY <1>1, <1>3, <1>4, <1>5, <2>1, <2>2, ServiceCalls
  <2>3. HandlerInv'
    BY <1>2, <2>1, <2>2 DEF HandlerInv, At
  <2>4. DeleterInv'
    BY <1>2, <1>7, <2>1, <2>2 DEF DeleterInv
  <2>5. QuietInv'
    BY <1>1, <1>2, <1>7, <2>1, <2>2 DEF QuietInv, Removed
  <2> QED
    BY <1>3, <1>7, <2>1, <2>2, <2>3, <2>4, <2>5
<1>10. ASSUME StoreFindings
       PROVE  /\ HandlerInv' /\ DeleterInv' /\ QuietInv'
              /\ handler' \in {"select", "retrieve", "insert", "update", "done"}
              /\ report' \in {"none", "ONGOING", "SUCCESS", "FAILURE"}
              /\ findings' \in [Ids -> SUBSET Findings] /\ UNCHANGED <<del, overlap>>
              /\ \A q \in Procs \ {Handler} : call'[q] = call[q]
  <2>1. /\ handler = "insert" /\ call[Handler].op = "retrieve" /\ report # "none"
        /\ call[Handler].pc = "ok" /\ UNCHANGED <<report, del, overlap>>
        /\ handler' = "update" /\ Call(Handler, UpdateCall(report))
        /\ findings' = [findings EXCEPT ![1] = findings[1] \union Findings]
    BY <1>2, <1>10 DEF StoreFindings, At, HandlerInv, InsertFindings
  <2>2. NewCall(Handler) /\ call'[Handler].id = 1 /\ call'[Handler].op = "update"
    BY <1>1, <1>3, <1>4, <1>5, <2>1, ServiceCalls
  <2>3. HandlerInv'
    BY <1>2, <2>1, <2>2 DEF HandlerInv, At
  <2>4. DeleterInv'
    BY <1>2, <1>7, <2>1, <2>2 DEF DeleterInv
  <2>5. QuietInv'
    BY <1>1, <1>2, <1>7, <2>1, <2>2 DEF QuietInv, Removed
  <2>6. findings' \in [Ids -> SUBSET Findings]
    <3>1. findings[1] \union Findings \in SUBSET Findings
      BY <1>3, <1>4
    <3> QED
      BY <1>3, <2>1, <3>1
  <2> QED
    BY <1>3, <1>7, <2>1, <2>2, <2>3, <2>4, <2>5, <2>6
<1>11. ASSUME Updated
       PROVE  /\ HandlerInv' /\ DeleterInv' /\ QuietInv'
              /\ handler' \in {"select", "retrieve", "insert", "update", "done"}
              /\ UNCHANGED <<findings, report, del, overlap, call>>
  <2>1. /\ handler = "update" /\ UNCHANGED <<findings, report, del, overlap, call>>
        /\ call[Handler].op = "update"
        /\ \/ call[Handler].pc = "ok" /\ handler' \in {"select", "done"}
           \/ call[Handler].pc = "missing" /\ handler' = "done"
    BY <1>11 DEF Updated, At
  <2>2. HandlerInv'
    BY <1>2, <2>1 DEF HandlerInv, At
  <2>3. DeleterInv' /\ QuietInv'
    BY <1>1, <1>2, <2>1 DEF DeleterInv, QuietInv, Removed
  <2> QED
    BY <2>1, <2>2, <2>3
<1>12. ASSUME ReceiveCancel
       PROVE  /\ HandlerInv' /\ DeleterInv' /\ QuietInv'
              /\ handler' \in {"select", "retrieve", "insert", "update", "done"}
              /\ UNCHANGED <<findings, report, del, overlap, call>>
  <2>1. /\ handler = "select" /\ handler' = "done"
        /\ UNCHANGED <<findings, report, del, overlap, call>>
    BY <1>12 DEF ReceiveCancel
  <2>2. HandlerInv'
    BY <1>2, <1>6, <2>1 DEF HandlerInv, At
  <2>3. DeleterInv' /\ QuietInv'
    BY <1>1, <1>2, <2>1 DEF DeleterInv, QuietInv, Removed
  <2> QED
    BY <2>1, <2>2, <2>3
<1> QED
  BY <1>1, <1>3, <1>8, <1>9, <1>10, <1>11, <1>12

\* A step of the DELETE between its calls.
LEMMA DeleterMoves ==
  ASSUME MemInv, BeginDeleteScan \/ ScanDeleted \/ CancelScan \/ SweepFindings
  PROVE  /\ HandlerInv' /\ DeleterInv' /\ QuietInv'
         /\ del' \in {"none", "delete", "error", "cancel", "sweep", "done"}
         /\ findings' \in [Ids -> SUBSET Findings] /\ UNCHANGED <<handler, report, overlap>>
         /\ \A q \in Procs \ {Deleter} : call'[q] = call[q]
<1>1. TableTypeOK /\ ServiceInv /\ handler # "none" /\ rows' = rows
  BY ServiceMoves DEF MemInv, ServiceMove
<1>2. HandlerInv /\ DeleterInv /\ QuietInv
  BY <1>1 DEF ServiceInv
<1>3. findings \in [Ids -> SUBSET Findings] /\ overlap \in BOOLEAN
  BY <1>1 DEF ServiceInv
<1>4. /\ Handler \in Procs /\ Deleter \in Procs /\ Handler # Deleter /\ 1 \in Ids
  BY ServiceProcs
<1>5. CASE BeginDeleteScan
  <2>1. /\ del = "none" /\ del' = "delete" /\ Call(Deleter, DeleteCall)
        /\ UNCHANGED <<findings, report, handler, overlap>>
    BY <1>5 DEF BeginDeleteScan
  <2>2. call[Deleter].op = "none"
    BY <1>2, <2>1 DEF DeleterInv, Idle
  <2>3. /\ NewCall(Deleter) /\ call'[Deleter].op = "delete" /\ call'[Deleter].id = 1
        /\ call'[Deleter].pc = "lookup"
    BY <1>1, <1>4, <2>1, <2>2, ServiceCalls
  <2>4. \A q \in Procs \ {Deleter} : call'[q] = call[q]
    BY <2>3 DEF NewCall, OneCall
  <2>5. HandlerInv'
    BY <1>2, <1>4, <2>1, <2>4 DEF HandlerInv, At
  <2>6. DeleterInv'
    BY <2>1, <2>3 DEF DeleterInv
  <2>7. QuietInv'
    BY <2>1, <2>3 DEF QuietInv, Removed
  <2> QED
    BY <1>3, <2>1, <2>4, <2>5, <2>6, <2>7
<1>6. CASE ScanDeleted
  <2>1. /\ del = "delete" /\ del' \in {"cancel", "error"}
        /\ del' = "cancel" => At(Deleter, "delete", "ok")
        /\ UNCHANGED <<findings, report, handler, overlap, call>>
    BY <1>6 DEF ScanDeleted
  <2>2. HandlerInv' /\ DeleterInv'
    BY <1>2, <2>1 DEF HandlerInv, DeleterInv, At
  <2>3. QuietInv'
    BY <1>1, <1>2, <2>1 DEF QuietInv, Removed, At
  <2> QED
    BY <1>3, <2>1, <2>2, <2>3
<1>7. CASE CancelScan
  <2>1. /\ del = "cancel" /\ del' = "sweep"
        /\ UNCHANGED <<findings, report, handler, overlap, call>>
    BY <1>7 DEF CancelScan
  <2>2. HandlerInv' /\ DeleterInv'
    BY <1>2, <2>1 DEF HandlerInv, DeleterInv, At
  <2>3. QuietInv'
    BY <1>1, <1>2, <2>1 DEF QuietInv, Removed
  <2> QED
    BY <1>3, <2>1, <2>2, <2>3
<1>8. CASE SweepFindings
  <2>1. /\ del = "sweep" /\ del' = "done" /\ findings' = [findings EXCEPT ![1] = {}]
        /\ UNCHANGED <<report, handler, overlap, call>>
    BY <1>8 DEF SweepFindings, DeleteFindings
  <2>2. HandlerInv' /\ DeleterInv'
    BY <1>2, <2>1 DEF HandlerInv, DeleterInv, At
  <2>3. findings' \in [Ids -> SUBSET Findings] /\ findings'[1] = {}
    BY <1>3, <1>4, <2>1
  <2>4. QuietInv'
    BY <1>1, <1>2, <2>1, <2>3 DEF QuietInv, Removed
  <2> QED
    BY <2>1, <2>2, <2>3, <2>4
<1> QED
  BY <1>5, <1>6, <1>7, <1>8

\* A step of the handler's call: it is a Retrieve or an Update.
LEMMA HandlerCalls ==
  ASSUME MemInv, ServiceCall(Handler)
  PROVE  /\ HandlerInv' /\ DeleterInv' /\ QuietInv' /\ overlap' \in BOOLEAN
         /\ \A q \in Procs \ {Handler} : call'[q] = call[q]
<1>1. /\ TableTypeOK /\ ServiceInv /\ handler # "none" /\ TableStep(Handler)
      /\ overlap' = (overlap \/ (rows'[1] = Absent /\ rows[1] # Absent
                             /\ handler \in {"retrieve", "insert", "update"}))
      /\ UNCHANGED <<findings, report, handler, del>>
  BY DEF MemInv, ServiceCall, ownVars
<1>2. HandlerInv /\ DeleterInv /\ QuietInv /\ overlap \in BOOLEAN
  BY <1>1 DEF ServiceInv
<1>3. /\ Handler \in Procs /\ Deleter \in Procs /\ Handler # Deleter /\ 1 \in Ids
  BY ServiceProcs
<1>4. ArgumentsInv(call[Handler]) /\ call[Handler].op \in {"none", "retrieve", "update"}
  BY <1>2, <1>3 DEF MemInv, HandlerInv
<1>5. /\ OneCall(Handler) /\ call'[Handler].op = call[Handler].op /\ call'[Handler].id = call[Handler].id
      /\ \/ /\ call[Handler].pc = "lookup" /\ rows' = rows
            /\ rows[call[Handler].id] = Absent => call'[Handler].pc = "missing"
         \/ call[Handler].op = "update" /\ call[Handler].pc = "write"
      /\ call[Handler].op \in {"retrieve", "update"}
  <2>1. CASE Lookup(Handler)
    BY <1>1, <1>3, <1>4, <2>1, LookupMoves
  <2>2. CASE WriteRow(Handler)
    BY <1>1, <1>3, <1>4, <2>2, WriteRowMoves DEF Goes
  <2>3. CASE RemoveRow(Handler)
    BY <1>4, <2>3 DEF RemoveRow, At
  <2>4. CASE LoadTotal(Handler) \/ StoreTotal(Handler)
    BY <1>1, <1>3, <1>4, <2>4, LoadTotalMoves, StoreTotalMoves
  <2>5. CASE CheckPage(Handler) \/ ReadTotal(Handler) \/ CheckEmpty(Handler)
             \/ Snapshot(Handler) \/ ReadLimit(Handler)
    BY <1>1, <1>3, <1>4, <2>5, ListMoves
  <2> QED
    BY <1>1, <2>1, <2>2, <2>3, <2>4, <2>5 DEF TableStep
<1>6. handler \in {"retrieve", "update"}
  BY <1>1, <1>2, <1>5 DEF HandlerInv, ServiceInv, At
<1>7. HandlerInv'
  BY <1>1, <1>2, <1>5, <1>6 DEF HandlerInv
<1>8. call'[Deleter] = call[Deleter]
  BY <1>3, <1>5 DEF OneCall
<1>9. DeleterInv'
  BY <1>1, <1>2, <1>8 DEF DeleterInv
<1>10. QuietInv'
  <2>1. Removed' = Removed
    BY <1>8 DEF Removed
  <2>2. ASSUME Removed, ~overlap
        PROVE  rows'[1] = Absent /\ handler = "retrieve" /\ call'[Handler].pc = "missing"
    <3>1. rows[1] = Absent /\ handler = "retrieve" /\ call[Handler].pc = "lookup"
      BY <1>2, <1>5, <1>6, <2>2 DEF QuietInv
    <3>2. call[Handler].id = 1
      BY <1>2, <1>5 DEF HandlerInv
    <3> QED
      BY <1>5, <3>1, <3>2
  <2> QED
    BY <1>1, <1>2, <2>1, <2>2 DEF QuietInv
<1>11. overlap' \in BOOLEAN
  BY <1>1
<1> QED
  BY <1>5, <1>7, <1>9, <1>10, <1>11 DEF OneCall

\* A step of the DELETE's call, which may be the one that removes the row.
LEMMA DeleterCalls ==
  ASSUME MemInv, ServiceCall(Deleter)
  PROVE  /\ HandlerInv' /\ DeleterInv' /\ QuietInv' /\ overlap' \in BOOLEAN
         /\ \A q \in Procs \ {Deleter} : call'[q] = call[q]
<1>1. /\ TableTypeOK /\ ServiceInv /\ handler # "none" /\ TableStep(Deleter)
      /\ overlap' = (overlap \/ (rows'[1] = Absent /\ rows[1] # Absent
                             /\ handler \in {"retrieve", "insert", "update"}))
      /\ UNCHANGED <<findings, report, handler, del>>
  BY DEF MemInv, ServiceCall, ownVars
<1>2. HandlerInv /\ DeleterInv /\ QuietInv /\ overlap \in BOOLEAN
  BY <1>1 DEF ServiceInv
<1>3. /\ Handler \in Procs /\ Deleter \in Procs /\ Handler # Deleter /\ 1 \in Ids
  BY ServiceProcs
<1>4. ArgumentsInv(call[Deleter]) /\ call[Deleter].op \in {"none", "delete"}
  BY <1>2, <1>3 DEF MemInv, DeleterInv, Idle
<1>5. /\ OneCall(Deleter) /\ call[Deleter].op = "delete"
      /\ call'[Deleter].op = call[Deleter].op /\ call'[Deleter].id = call[Deleter].id
      /\ \/ /\ call[Deleter].pc = "lookup" /\ call'[Deleter].pc \in {"missing", "remove"}
            /\ rows' = rows
         \/ call[Deleter].pc = "remove" /\ call'[Deleter].pc = "failed" /\ rows' = rows
         \/ /\ call[Deleter].pc = "remove" /\ call'[Deleter].pc = "count"
            /\ rows[call[Deleter].id] # Absent
            /\ rows' = [rows EXCEPT ![call[Deleter].id] = Absent]
         \/ /\ call[Deleter].pc \in {"count", "store"} /\ call'[Deleter].pc \in {"store", "ok"}
            /\ rows' = rows
  <2>1. CASE Lookup(Deleter)
    BY <1>1, <1>3, <1>4, <2>1, LookupMoves DEF AfterLookup
  <2>2. CASE WriteRow(Deleter)
    BY <1>4, <2>2 DEF WriteRow, At
  <2>3. CASE RemoveRow(Deleter)
    BY <1>1, <1>3, <1>4, <2>3, RemoveRowMoves DEF Goes
  <2>4. CASE LoadTotal(Deleter) \/ StoreTotal(Deleter)
    BY <1>1, <1>3, <1>4, <2>4, LoadTotalMoves, StoreTotalMoves DEF Goes
  <2>5. CASE CheckPage(Deleter) \/ ReadTotal(Deleter) \/ CheckEmpty(Deleter)
             \/ Snapshot(Deleter) \/ ReadLimit(Deleter)
    BY <1>1, <1>3, <1>4, <2>5, ListMoves
  <2> QED
    BY <1>1, <2>1, <2>2, <2>3, <2>4, <2>5 DEF TableStep
<1>6. del # "none" /\ call[Deleter].id = 1
  BY <1>2, <1>5 DEF DeleterInv, Idle
<1>7. DeleterInv'
  BY <1>1, <1>5, <1>6 DEF DeleterInv
<1>8. call'[Handler] = call[Handler]
  BY <1>3, <1>5 DEF OneCall
<1>9. HandlerInv'
  BY <1>1, <1>2, <1>8 DEF HandlerInv, At
<1>10. QuietInv'
  <2>1. CASE call[Deleter].pc = "remove" /\ call'[Deleter].pc = "count"
    <3>1. rows[1] # Absent /\ rows'[1] = Absent /\ ~Removed
      BY <1>1, <1>3, <1>5, <1>6, <2>1 DEF TableTypeOK, Removed
    <3>2. ~overlap' => handler \in {"select", "done"}
      BY <1>1, <3>1 DEF ServiceInv
    <3>3. del \notin {"cancel", "sweep", "done"}
      BY <1>2, <3>1 DEF QuietInv
    <3> QED
      BY <1>1, <3>1, <3>2, <3>3 DEF QuietInv
  <2>2. CASE rows' = rows
    <3>1. Removed' <=> Removed
      BY <1>1, <1>3, <1>5, <1>6, <2>2 DEF Removed, TableTypeOK
    <3>2. overlap' <=> overlap
      BY <1>1, <1>2, <2>2
    <3>3. UNCHANGED <<findings, handler, del>>
      BY <1>1
    <3>4. rows'[1] = rows[1]
      BY <2>2
    <3> QED
      BY <1>2, <1>8, <3>1, <3>2, <3>3, <3>4, Zenon DEF QuietInv
  <2> QED
    BY <1>5, <2>1, <2>2
<1>11. overlap' \in BOOLEAN
  BY <1>1
<1> QED
  BY <1>5, <1>7, <1>9, <1>10, <1>11 DEF OneCall

LEMMA ServiceNext ==
  ASSUME MemInv, [MemServiceNext]_memServiceVars
  PROVE  ServiceInv'
<1>1. TableTypeOK /\ ServiceInv /\ \A p \in Procs : ArgumentsInv(call[p])
  BY DEF MemInv
<1>2. store' = store
  BY TypeNext
<1>3. /\ Handler \in Procs /\ Deleter \in Procs /\ Callers \subseteq Procs
      /\ Handler \notin Callers /\ Deleter \notin Callers
  BY ServiceProcs
<1>4. ASSUME handler # "none", HandlerInv', DeleterInv', QuietInv',
             handler' \in {"select", "retrieve", "insert", "update", "done"},
             del' \in {"none", "delete", "error", "cancel", "sweep", "done"},
             report' \in {"none", "ONGOING", "SUCCESS", "FAILURE"},
             overlap' \in BOOLEAN, findings' \in [Ids -> SUBSET Findings],
             \A q \in Callers : call'[q] = call[q]
      PROVE  ServiceInv'
  BY <1>1, <1>2, <1>4 DEF ServiceInv
<1>5. CASE ServiceMove
  <2>1. handler # "none"
    BY <1>5, ServiceMoves
  <2>2. CASE BeginDeleteScan \/ ScanDeleted \/ CancelScan \/ SweepFindings
    BY <1>1, <1>3, <1>4, <2>1, <2>2, DeleterMoves DEF ServiceInv
  <2>3. CASE ~(BeginDeleteScan \/ ScanDeleted \/ CancelScan \/ SweepFindings)
    <3>1. \/ \E status \in {"ONGOING", "SUCCESS", "FAILURE"} : ReceiveReport(status)
          \/ Retrieved \/ StoreFindings \/ Updated \/ ReceiveCancel
      BY <1>5, <2>3 DEF ServiceMove
    <3> QED
      BY <1>1, <1>3, <1>4, <2>1, <3>1, HandlerMoves DEF ServiceInv
  <2> QED
    BY <2>2, <2>3
<1>6. ASSUME NEW p \in {Handler, Deleter}, ServiceCall(p)
      PROVE  ServiceInv'
  <2>1. handler # "none" /\ UNCHANGED <<findings, report, handler, del>>
    BY <1>6 DEF ServiceCall, ownVars
  <2>2. /\ HandlerInv' /\ DeleterInv' /\ QuietInv' /\ overlap' \in BOOLEAN
        /\ \A q \in Callers : call'[q] = call[q]
    BY <1>3, <1>6, HandlerCalls, DeleterCalls
  <2> QED
    BY <1>1, <1>4, <2>1, <2>2 DEF ServiceInv
<1>7. CASE handler = "none" /\ CallersNext /\ UNCHANGED handlerVars
  <2>1. PICK p \in Callers : StoreStep(p) \/ (TableBegin(p) /\ UNCHANGED ownVars)
    BY <1>7 DEF CallersNext
  <2>2. OneCall(p) /\ findings' = findings
    <3>0. p \in Procs /\ nextId \in Nat \ {0}
      BY <1>3 DEF MemInv, IdsInv
    <3>1. CASE InsertScan(p) \/ InsertRepository(p)
      <4>1. PICK i \in Ids : InsertRow(p, i)
        BY <1>1, <3>0, <3>1, MemTableAssumption DEF InsertScan, InsertRepository,
           ArgumentsInv, At, Ids
      <4>2. call[p].op = "insert" /\ findings' = findings
        BY <3>1 DEF InsertScan, InsertRepository, At, ownVars
      <4> QED
        BY <1>1, <3>0, <4>1, <4>2, InsertRowMoves
    <3>2. CASE ReadNextId(p) \/ LoadNextId(p) \/ StoreNextId(p)
      BY <1>1, <3>0, <3>2, NextIdMoves
    <3>3. CASE TableStep(p) /\ UNCHANGED ownVars
      <4>1. OneCall(p)
        BY <1>1, <3>0, <3>3, LookupMoves, RemoveRowMoves, WriteRowMoves, LoadTotalMoves,
           StoreTotalMoves, ListMoves DEF TableStep, Goes
      <4> QED
        BY <3>3, <4>1 DEF ownVars
    <3>4. CASE TableBegin(p) /\ UNCHANGED ownVars
      BY <1>1, <3>0, <3>4, BeginMoves DEF NewCall, ownVars
    <3> QED
      BY <2>1, <3>1, <3>2, <3>3, <3>4 DEF StoreStep
  <2>3. call'[Handler] = call[Handler] /\ call'[Deleter] = call[Deleter]
    BY <1>3, <2>2 DEF OneCall
  <2> QED
    BY <1>1, <1>7, <2>2, <2>3 DEF ServiceInv, handlerVars
<1>8. CASE UNCHANGED memServiceVars
  <2>1. UNCHANGED <<rows, call, store, findings, report, handler, del, overlap>>
    BY <1>8 DEF memServiceVars, memVars, tableVars, ownVars, handlerVars
  <2> QED
    BY <1>1, <2>1 DEF ServiceInv, HandlerInv, DeleterInv, QuietInv, Removed, At
<1> QED
  BY <1>5, <1>6, <1>7, <1>8 DEF MemServiceNext, ServiceMove

-----------------------------------------------------------------------------
(* The invariant.                                                          *)

LEMMA IdleIsACall ==
  /\ Idle \in Calls /\ Idle.pc = "idle" /\ Idle.op = "none" /\ Idle.pc \in Places(Idle.op)
  /\ ArgumentsInv(Idle)
<1>1. "idle" \in Places("none") /\ "none" \in Ops
  BY DEF Places, Ops
<1>2. "idle" \in UNION {Places(op) : op \in Ops}
  BY <1>1
<1>3. Idle \in Calls
  <2>1. <<>> \in Seq(Ids) /\ 0 \in Int
    OBVIOUS
  <2> QED
    BY <1>1, <1>2, <2>1, Zenon DEF Calls, Idle
<1> QED
  BY <1>1, <1>3 DEF Idle, ArgumentsInv

LEMMA TableStarts ==
  ASSUME NEW n \in {0, 1}, NEW v \in Vals \union {Absent}, n = 1 <=> v # Absent, TableInit(n, v)
  PROVE  TableTypeOK /\ TotalCountsRows /\ \A p \in Procs : ArgumentsInv(call[p])
<1>1. /\ rows = [i \in Ids |-> IF i <= n THEN v ELSE Absent]
      /\ total = n /\ call = [p \in Procs |-> Idle] /\ drift = 0 /\ raced = FALSE
  BY DEF TableInit
<1>2. n \in MinInt..MaxInt /\ n \in Int
  BY ModulusType DEF MinInt
<1>3. TableTypeOK /\ \A p \in Procs : ArgumentsInv(call[p])
  <2>1. \A p \in Procs : call[p] = Idle
    BY <1>1
  <2>2. call \in [Procs -> Calls]
    BY <1>1, IdleIsACall, Zenon
  <2>3. rows \in [Ids -> Vals \union {Absent}]
    BY <1>1
  <2>4. total \in MinInt..MaxInt /\ drift \in Int /\ raced \in BOOLEAN
    <3>1. total = n /\ drift = 0 /\ raced = FALSE
      BY <1>1
    <3>2. total \in MinInt..MaxInt
      BY <1>2, <3>1, Zenon
    <3>3. 0 \in Int /\ FALSE \in BOOLEAN
      OBVIOUS
    <3> QED
      BY <3>1, <3>2, <3>3, Zenon
  <2>5. \A p \in Procs : call[p].pc \in Places(call[p].op) /\ ArgumentsInv(call[p])
    BY <2>1, IdleIsACall, Zenon
  <2> QED
    BY <2>2, <2>3, <2>4, <2>5 DEF TableTypeOK
<1>4. Existing = 1..n
  <2>1. \A i : i \in Existing <=> i \in 1..MaxId /\ i <= n /\ v # Absent
    BY <1>1 DEF Existing, Ids
  <2>2. \A i : i \in Existing <=> i \in 1..n
    BY <1>2, <2>1, MemTableAssumption
  <2> QED
    BY <2>2
<1>5. Cardinality(Existing) = n
  <2>1. Cardinality(1..n) = IF 1 > n THEN 0 ELSE n - 1 + 1
    BY <1>2, FS_Interval
  <2>2. Cardinality(1..n) = n
    BY <2>1
  <2> QED
    BY <1>4, <2>2, Zenon
<1>6. \A op : Cardinality(Uncounted(op)) = 0
  <2>1. \A op : Uncounted(op) = {}
    BY <1>1, IdleIsACall DEF Uncounted
  <2> QED
    BY <2>1, FS_EmptySet
<1>7. Counted = n
  BY <1>1, <1>2, <1>5, <1>6 DEF Counted
<1>8. Wrap(n) = n
  BY <1>2, WrapKeeps
<1> QED
  BY <1>1, <1>3, <1>7, <1>8 DEF TotalCountsRows

LEMMA MemInvInit == MemServiceInit => MemInv
<1> SUFFICES ASSUME MemServiceInit PROVE MemInv
  OBVIOUS
<1>1. /\ Handler \in Procs /\ Deleter \in Procs /\ Callers \subseteq Procs
  BY ServiceProcs
<1>2. /\ report = "none" /\ del = "none" /\ overlap = FALSE
      /\ findings = [i \in Ids |-> {}]
  BY DEF MemServiceInit, MemInit, ScanInit
<1>3. findings \in [Ids -> SUBSET Findings]
  BY <1>2
<1>4. CASE MemInit /\ handler = "none"
  <2>1. /\ TableInit(0, Absent) /\ nextId = 1 /\ store \in {"scans", "repositories"}
        /\ call = [p \in Procs |-> Idle] /\ rows = [i \in Ids |-> Absent]
    BY <1>4, MemTableAssumption DEF MemInit, TableInit, Ids
  <2>2. TableTypeOK /\ TotalCountsRows /\ \A p \in Procs : ArgumentsInv(call[p])
    BY <2>1, TableStarts
  <2>3. \A p \in Procs : call[p] = Idle
    BY <2>1
  <2>4. IdsInv
    BY <2>1, <2>3, IdleIsACall DEF IdsInv, InsertsScan, At
  <2>5. ServiceInv
    BY <1>1, <1>2, <1>3, <1>4, <2>3 DEF ServiceInv
  <2> QED
    BY <2>1, <2>2, <2>4, <2>5 DEF MemInv
<1>5. CASE ScanInit
  <2>1. /\ TableInit(1, "QUEUED") /\ nextId = 2 /\ store = "scans" /\ handler = "select"
        /\ call = [p \in Procs |-> Idle]
        /\ rows = [i \in Ids |-> IF i <= 1 THEN "QUEUED" ELSE Absent]
    BY <1>5 DEF ScanInit, TableInit
  <2>2. "QUEUED" \in Vals /\ "QUEUED" # Absent
    <3>1. "QUEUED" \in Vals
      BY MemServiceAssumption, Zenon
    <3>2. Absent \notin Vals
      BY MemTableAssumption
    <3> QED
      BY <3>1, <3>2
  <2>3. TableTypeOK /\ TotalCountsRows /\ \A p \in Procs : ArgumentsInv(call[p])
    BY <2>1, <2>2, TableStarts
  <2>4. \A p \in Procs : call[p] = Idle
    BY <2>1
  <2>5. IdsInv
    BY <2>1, <2>4, IdleIsACall, MemTableAssumption DEF IdsInv, InsertsScan, At, Ids
  <2>6. HandlerInv /\ DeleterInv /\ QuietInv
    BY <1>1, <1>2, <2>1, <2>4, IdleIsACall DEF HandlerInv, DeleterInv, QuietInv, Removed
  <2>7. ServiceInv
    BY <1>1, <1>2, <1>3, <2>1, <2>4, <2>6 DEF ServiceInv
  <2> QED
    BY <2>1, <2>3, <2>5, <2>7 DEF MemInv
<1> QED
  BY <1>4, <1>5 DEF MemServiceInit

LEMMA MemInvNext == MemInv /\ [MemServiceNext]_memServiceVars => MemInv'
<1> SUFFICES ASSUME MemInv, [MemServiceNext]_memServiceVars PROVE MemInv'
  OBVIOUS
<1>1. TableTypeOK' /\ (\A p \in Procs : ArgumentsInv(call[p]))' /\ store' = store
  BY TypeNext
<1>2. TotalCountsRows' /\ IdsInv' /\ ServiceInv'
  BY TotalNext, IdsNext, ServiceNext
<1> QED
  BY <1>1, <1>2 DEF MemInv

LEMMA MemInvHolds == MemServiceSpec => []MemInv
BY MemInvInit, MemInvNext, PTL DEF MemServiceSpec

-----------------------------------------------------------------------------

\* Every variable has its type: a call is always at a place of its own operation, and total
\* is an int32, whatever the callers do.
THEOREM TableTypeCorrect == MemServiceSpec => []TableTypeOK
<1>1. MemInv => TableTypeOK
  BY DEF MemInv
<1> QED
  BY <1>1, MemInvHolds, PTL

\* total is the number of rows, less the insertions and more the deletions that have not
\* counted theirs yet, less the drift: it goes wrong by a lost increment or decrement, by an
\* Update that brings a row back or by an Insert that replaces one, and not otherwise.
THEOREM MemCounts == MemServiceSpec => []TotalCountsRows
<1>1. MemInv => TotalCountsRows
  BY DEF MemInv
<1> QED
  BY <1>1, MemInvHolds, PTL

\* The generator goroutine never gives two insertions of scans the same id.
THEOREM MemIds == MemServiceSpec => []InsertedIdsAreUnique
<1>1. MemInv => InsertedIdsAreUnique
  BY DEF MemInv, IdsInv, InsertsScan, InsertedIdsAreUnique, At
<1> QED
  BY <1>1, MemInvHolds, PTL

\* What has not fallen below int32 is at most itself when it has wrapped.
LEMMA WrapAtMost ==
  ASSUME NEW n \in Int, n >= MinInt
  PROVE  Wrap(n) <= n
<1> DEFINE a == n - MinInt
<1>1. a \in Nat
  BY ModulusType
<1>2. \A m \in Nat \ {0} : \A b \in Nat : b % m <= b
  <2> TAKE m \in Nat \ {0}
  <2> TAKE b \in Nat
  <2>1. b \div m \in Nat /\ b = m * (b \div m) + (b % m)
    OBVIOUS
  <2>2. m * (b \div m) \in Nat
    BY <2>1
  <2> QED
    BY <2>1, <2>2
<1>3. a % Modulus <= a
  <2> HIDE DEF a
  <2> QED
    BY <1>1, <1>2, ModulusType
<1>4. a % Modulus \in Int
  BY <1>1, ModulusType
<1> QED
  BY <1>3, <1>4, ModulusType DEF Wrap

\* A List at an offset that is not negative panics only beside a Delete that has not counted
\* yet, after rows were added behind its snapshot, after a lost count or a replaced row:
\* otherwise total, as it is read last, is at most the number of rows the iterator has.
THEOREM ListsKeepInStep == MemServiceSpec => PanicsOnlyOutOfStep
<1> DEFINE Panics(p) == /\ ReadLimit(p)
                        /\ call'[p].pc = "panic"
                        /\ call[p].page.offset >= 0
                        /\ NothingWraps(call[p].page)
           Reason(p) == \/ Uncounted("delete") # {}
                        \/ Cardinality(Existing) > Len(call[p].snap)
                        \/ raced
                        \/ drift < 0
<1>1. ASSUME MemInv, NEW p \in Procs, Panics(p)
      PROVE  Reason(p)
  <2> SUFFICES ASSUME Uncounted("delete") = {}, ~raced, drift >= 0
               PROVE  Cardinality(Existing) > Len(call[p].snap)
    <3>1. drift \in Int
      BY <1>1 DEF MemInv, TableTypeOK
    <3> QED
      BY <3>1
  <2> DEFINE c == call[p]
             rest == Wrap(total - c.page.offset)
             E == Cardinality(Existing)
             U == Cardinality(Uncounted("insert"))
  <2>1. /\ c \in Calls /\ total \in MinInt..MaxInt /\ drift \in Int
        /\ total = Wrap(Counted)
    BY <1>1 DEF MemInv, TableTypeOK, TotalCountsRows
  <2>2. c.page.offset \in Int /\ c.page.pageSize \in Int /\ Len(c.snap) \in Nat
    <3>1. c.page \in Params \union {NoPage} /\ c.snap \in Seq(Ids)
      BY <2>1 DEF Calls
    <3> DEFINE page == c.page
    <3> HIDE DEF page
    <3>2. page.offset \in Int /\ page.pageSize \in Int
      BY <3>1, MemTableAssumption, ModulusType DEF NoPage, page
    <3> QED
      BY <3>1, <3>2 DEF page
  <2>3. E \in Nat /\ U \in Nat /\ Cardinality(Uncounted("delete")) = 0
    BY SizesAreFinite, FS_CardinalityType, FS_EmptySet
  <2>4. Counted = E - U - drift /\ Counted \in Int
    BY <2>1, <2>3 DEF Counted
  <2>5. total <= E
    <3>1. Wrap(Counted) <= Counted
      BY <1>1, <2>4, WrapAtMost DEF NothingWraps
    <3> QED
      BY <2>1, <2>3, <2>4, <3>1, ModulusType
  <2>6. rest <= total - c.page.offset
    <3>1. total - c.page.offset \in Int /\ total - c.page.offset >= MinInt
      BY <1>1, <2>1, <2>2, ModulusType DEF NothingWraps
    <3> QED
      BY <3>1, WrapAtMost
  <2>7. RunsOut(c.snap, c.page.offset, PageLimit(total, c.page.offset, c.page.pageSize))
    <3> SUFFICES ASSUME ~RunsOut(c.snap, c.page.offset,
                                 PageLimit(total, c.page.offset, c.page.pageSize))
                 PROVE  FALSE
      OBVIOUS
    <3>1. \E items : call' = [call EXCEPT ![p].pc = "ok", ![p].items = items]
      BY <1>1 DEF ReadLimit
    <3>2. call'[p].pc = "ok"
      BY <1>1, <2>1, <3>1 DEF MemInv, TableTypeOK, Calls
    <3> QED
      BY <1>1, <3>2
  <2> DEFINE off == c.page.offset
             size == c.page.pageSize
             limit == PageLimit(total, off, size)
  <2>8. rest \in Int
    <3> DEFINE left == total - off
    <3>1. left \in Int
      BY <2>1, <2>2, ModulusType
    <3> HIDE DEF left
    <3>2. Wrap(left) \in Int
      BY <3>1, WrapType, ModulusType
    <3> QED
      BY <3>2 DEF left
  <2>9. limit \in Int /\ limit <= rest
    <3>1. limit = IF rest > size THEN size ELSE rest
      BY DEF PageLimit
    <3>2. size \in Int
      BY <2>2
    <3> HIDE DEF rest, size, limit
    <3> QED
      BY <2>8, <3>1, <3>2
  <2>10. off \in Nat /\ limit > 0 /\ off + limit > Len(c.snap)
    BY <1>1, <2>2, <2>7 DEF RunsOut, Skipped
  <2> HIDE DEF limit, rest
  <2> QED
    BY <2>1, <2>2, <2>3, <2>5, <2>6, <2>8, <2>9, <2>10
<1>2. MemInv => \A p \in Procs : Panics(p) => Reason(p)
  BY <1>1
<1>3. MemInv /\ [MemServiceNext]_memServiceVars =>
        [\A p \in Procs : Panics(p) => Reason(p)]_tableVars
  BY <1>2
<1> QED
  BY <1>3, MemInvHolds, PTL DEF MemServiceSpec, PanicsOnlyOutOfStep

\* A DELETE whose row went while the handler was not storing anything leaves neither the row
\* nor its findings, whatever reports still arrive.
THEOREM MemQuiet == MemServiceSpec => []QuietDeleteIsWhole
<1>1. MemInv => QuietDeleteIsWhole
  <2> SUFFICES ASSUME MemInv, del = "done", ~overlap PROVE Gone
    BY DEF QuietDeleteIsWhole
  <2>1. ServiceInv /\ handler # "none"
    BY DEF MemInv, ServiceInv
  <2>2. QuietInv
    BY <2>1 DEF ServiceInv
  <2> QED
    BY <2>2 DEF QuietInv, Gone
<1> QED
  BY <1>1, MemInvHolds, PTL

-----------------------------------------------------------------------------
(* The stores against AtomicStore.                                         *)

EffectOf(c) ==
  CASE c.pc = "missing" -> <<"missing", c.id>>
    [] c.pc = "failed" -> <<"failed">>
    [] c.op = "retrieve" /\ c.pc = "ok" -> <<"retrieved", c.id, c.val>>
    [] c.op = "insert" /\ c.pc \in {"count", "store", "ok"} -> <<"inserted", c.id>>
    [] c.op = "delete" /\ c.pc \in {"count", "store", "ok"} -> <<"deleted", c.id>>
    [] c.op = "update" /\ c.pc = "ok" -> <<"updated", c.id>>
    [] OTHER -> <<"none">>

Effects == [p \in Procs |-> Effect(p)]

\* What a call has done is told by where it stands.
LEMMA EffectOfPlaces ==
  ASSUME NEW c
  PROVE  /\ c.pc = "missing" => EffectOf(c) = <<"missing", c.id>>
         /\ c.pc = "failed" => EffectOf(c) = <<"failed">>
         /\ c.pc \in {"idle", "id", "bump", "set", "insert", "lookup", "remove", "write"}
              => EffectOf(c) = <<"none">>
         /\ c.op = "retrieve" /\ c.pc = "ok" => EffectOf(c) = <<"retrieved", c.id, c.val>>
         /\ c.op = "insert" /\ c.pc \in {"count", "store", "ok"} =>
              EffectOf(c) = <<"inserted", c.id>>
         /\ c.op = "delete" /\ c.pc \in {"count", "store", "ok"} =>
              EffectOf(c) = <<"deleted", c.id>>
         /\ c.op = "update" /\ c.pc = "ok" => EffectOf(c) = <<"updated", c.id>>
         /\ c.op \in {"none", "list"} /\ c.pc \notin {"missing", "failed"} =>
              EffectOf(c) = <<"none">>
<1> DEFINE pc == c.pc
           op == c.op
           id == c.id
           val == c.val
<1>1. EffectOf(c) =
        CASE pc = "missing" -> <<"missing", id>>
        [] pc = "failed" -> <<"failed">>
        [] op = "retrieve" /\ pc = "ok" -> <<"retrieved", id, val>>
        [] op = "insert" /\ pc \in {"count", "store", "ok"} -> <<"inserted", id>>
        [] op = "delete" /\ pc \in {"count", "store", "ok"} -> <<"deleted", id>>
        [] op = "update" /\ pc = "ok" -> <<"updated", id>>
        [] OTHER -> <<"none">>
  BY DEF EffectOf
<1> HIDE DEF pc, op, id, val
<1>2. /\ pc = "missing" => EffectOf(c) = <<"missing", id>>
      /\ pc = "failed" => EffectOf(c) = <<"failed">>
      /\ op = "retrieve" /\ pc = "ok" => EffectOf(c) = <<"retrieved", id, val>>
      /\ op = "insert" /\ pc \in {"count", "store", "ok"} => EffectOf(c) = <<"inserted", id>>
      /\ op = "delete" /\ pc \in {"count", "store", "ok"} => EffectOf(c) = <<"deleted", id>>
      /\ op = "update" /\ pc = "ok" => EffectOf(c) = <<"updated", id>>
  BY <1>1
<1>3. pc \in {"idle", "id", "bump", "set", "insert", "lookup", "remove", "write"}
        => EffectOf(c) = <<"none">>
  BY <1>1
<1>4. op \in {"none", "list"} /\ pc \notin {"missing", "failed"} => EffectOf(c) = <<"none">>
  BY <1>1
<1> QED
  BY <1>2, <1>3, <1>4 DEF pc, op, id, val

LEMMA EffectsMove ==
  ASSUME NEW p \in Procs, OneCall(p)
  PROVE  /\ Effects[p] = EffectOf(call[p])
         /\ Effects' = [Effects EXCEPT ![p] = EffectOf(call'[p])]
         /\ EffectOf(call'[p]) = EffectOf(call[p]) => Effects' = Effects
<1>1. Effects = [q \in Procs |-> EffectOf(call[q])]
  BY DEF Effects, Effect, EffectOf
<1>2. Effects' = [q \in Procs |-> EffectOf(call'[q])]
  BY DEF Effects, Effect, EffectOf
<1>3. \A q \in Procs \ {p} : EffectOf(call'[q]) = EffectOf(call[q])
  BY DEF OneCall
<1> DEFINE e(q) == EffectOf(call[q])
           f(q) == EffectOf(call'[q])
<1>4. Effects = [q \in Procs |-> e(q)] /\ Effects' = [q \in Procs |-> f(q)]
  BY <1>1, <1>2
<1>5. \A q \in Procs \ {p} : f(q) = e(q)
  BY <1>3
<1>6. e(p) = EffectOf(call[p]) /\ f(p) = EffectOf(call'[p])
  OBVIOUS
<1> HIDE DEF e, f
<1>7. Effects[p] = e(p) /\ Effects' = [Effects EXCEPT ![p] = f(p)]
  BY <1>4, <1>5
<1>8. f(p) = e(p) => Effects' = Effects
  BY <1>4, <1>5
<1> QED
  BY <1>6, <1>7, <1>8

\* A call that has done nothing yet takes effect.
LEMMA Takes ==
  ASSUME NEW p \in Procs, OneCall(p), EffectOf(call[p]) = <<"none">>
  PROVE  Atomic!Take(p, EffectOf(call'[p]))
<1>1. Effects[p] = <<"none">> /\ Effects' = [Effects EXCEPT ![p] = EffectOf(call'[p])]
  BY EffectsMove
<1> QED
  BY <1>1 DEF Atomic!Take, Effects

LateWrite(p) ==
  \/ WriteRow(p) /\ rows[call[p].id] = Absent
  \/ InsertRepository(p) /\ rows[call[p].id] # Absent

LEMMA AtomicStep ==
  ASSUME MemInv, [MemServiceNext]_memServiceVars
  PROVE  Atomic!Next \/ (\E p \in Procs : LateWrite(p)) \/ UNCHANGED Atomic!vars
<1>1. /\ TableTypeOK /\ nextId \in Nat \ {0}
      /\ \A p \in Procs : ArgumentsInv(call[p])
  BY DEF MemInv, IdsInv
<1>2. ASSUME NEW p \in Procs, OneCall(p), rows' = rows,
             EffectOf(call'[p]) = EffectOf(call[p])
      PROVE  UNCHANGED Atomic!vars
  <2>1. Effects' = Effects
    BY <1>2, EffectsMove
  <2> QED
    BY <1>2, <2>1 DEF Atomic!vars, Effects
<1>3. ASSUME NEW p \in Procs, OneCall(p), NEW i \in Ids, NEW v \in Vals,
             EffectOf(call[p]) = <<"none">>,
             LET e == EffectOf(call'[p])
             IN  \/ rows' = rows /\ e = <<"failed">>
                 \/ rows' = rows /\ rows[i] = Absent /\ e = <<"missing", i>>
                 \/ rows' = rows /\ rows[i] # Absent /\ e = <<"retrieved", i, rows[i]>>
                 \/ /\ rows' = [rows EXCEPT ![i] = Absent] /\ rows[i] # Absent
                    /\ e = <<"deleted", i>>
                 \/ /\ rows' = [rows EXCEPT ![i] = v] /\ rows[i] # Absent
                    /\ e = <<"updated", i>>
                 \/ /\ rows' = [rows EXCEPT ![i] = v] /\ rows[i] = Absent
                    /\ e = <<"inserted", i>>
      PROVE  Atomic!Next
  <2> DEFINE e == EffectOf(call'[p])
  <2>1. Atomic!Take(p, e)
    BY <1>3, Takes
  <2>2. \/ rows' = rows /\ e = <<"failed">>
        \/ rows' = rows /\ rows[i] = Absent /\ e = <<"missing", i>>
        \/ rows' = rows /\ rows[i] # Absent /\ e = <<"retrieved", i, rows[i]>>
        \/ rows' = [rows EXCEPT ![i] = Absent] /\ rows[i] # Absent /\ e = <<"deleted", i>>
        \/ rows' = [rows EXCEPT ![i] = v] /\ rows[i] # Absent /\ e = <<"updated", i>>
        \/ rows' = [rows EXCEPT ![i] = v] /\ rows[i] = Absent /\ e = <<"inserted", i>>
    BY <1>3
  <2> HIDE DEF e
  <2>3. \/ Atomic!Fail(p) \/ Atomic!Missing(p, i) \/ Atomic!Retrieve(p, i)
        \/ Atomic!Delete(p, i) \/ Atomic!Update(p, i, v) \/ Atomic!Insert(p, i, v)
    BY <2>1, <2>2, Zenon DEF Atomic!Fail, Atomic!Missing, Atomic!Retrieve, Atomic!Delete,
       Atomic!Update, Atomic!Insert
  <2> QED
    BY <2>3 DEF Atomic!Next
<1>4. PICK w \in Vals : TRUE
  BY MemServiceAssumption, Zenon
<1>5. ASSUME NEW p \in Procs, TableStep(p)
      PROVE  Atomic!Next \/ LateWrite(p) \/ UNCHANGED Atomic!vars
  <2>1. CASE Lookup(p)
    <3>1. /\ OneCall(p) /\ call[p].pc = "lookup" /\ call[p].id \in Ids /\ rows' = rows
          /\ call[p].op \in {"retrieve", "delete", "update"} /\ call'[p].op = call[p].op
          /\ call'[p].id = call[p].id
          /\ \/ rows[call[p].id] = Absent /\ call'[p].pc = "missing"
             \/ /\ rows[call[p].id] # Absent
                /\ call'[p].pc = AfterLookup(call[p].op)
                /\ call[p].op = "retrieve" => call'[p].val = rows[call[p].id]
      BY <1>1, <2>1, LookupMoves
    <3>2. EffectOf(call[p]) = <<"none">>
      BY <3>1, EffectOfPlaces
    <3>3. CASE rows[call[p].id] = Absent
      <4>1. EffectOf(call'[p]) = <<"missing", call[p].id>>
        BY <3>1, <3>3, EffectOfPlaces
      <4> QED
        BY <1>3, <1>4, <3>1, <3>2, <3>3, <4>1
    <3>4. CASE rows[call[p].id] # Absent /\ call[p].op = "retrieve"
      <4>1. EffectOf(call'[p]) = <<"retrieved", call'[p].id, call'[p].val>>
        BY <3>1, <3>4, EffectOfPlaces DEF AfterLookup
      <4>2. EffectOf(call'[p]) = <<"retrieved", call[p].id, rows[call[p].id]>>
        BY <3>1, <3>4, <4>1
      <4> QED
        BY <1>3, <1>4, <3>1, <3>2, <3>4, <4>2
    <3>5. CASE rows[call[p].id] # Absent /\ call[p].op # "retrieve"
      <4>1. call'[p].pc \in {"remove", "write"}
        BY <3>1, <3>5 DEF AfterLookup
      <4>2. EffectOf(call'[p]) = <<"none">>
        BY <4>1, EffectOfPlaces
      <4> QED
        BY <1>2, <3>1, <3>2, <4>2
    <3> QED
      BY <3>3, <3>4, <3>5
  <2>2. CASE RemoveRow(p)
    <3>1. /\ call[p].op = "delete" /\ call[p].pc = "remove" /\ call[p].id \in Ids
          /\ OneCall(p) /\ call'[p].op = "delete" /\ call'[p].id = call[p].id
          /\ \/ call'[p].pc = "failed" /\ rows' = rows
             \/ /\ rows[call[p].id] # Absent /\ call'[p].pc = "count"
                /\ rows' = [rows EXCEPT ![call[p].id] = Absent]
      BY <1>1, <2>2, RemoveRowMoves DEF Goes
    <3>2. EffectOf(call[p]) = <<"none">>
      BY <3>1, EffectOfPlaces
    <3>3. CASE call'[p].pc = "failed" /\ rows' = rows
      <4>1. EffectOf(call'[p]) = <<"failed">>
        BY <3>3, EffectOfPlaces
      <4> QED
        BY <1>3, <1>4, <3>1, <3>2, <3>3, <4>1
    <3>4. CASE /\ rows[call[p].id] # Absent /\ call'[p].pc = "count"
               /\ rows' = [rows EXCEPT ![call[p].id] = Absent]
      <4>1. EffectOf(call'[p]) = <<"deleted", call[p].id>>
        BY <3>1, <3>4, EffectOfPlaces
      <4> QED
        BY <1>3, <1>4, <3>1, <3>2, <3>4, <4>1
    <3> QED
      BY <3>1, <3>3, <3>4
  <2>3. CASE WriteRow(p)
    <3>1. /\ call[p].op = "update" /\ call[p].pc = "write"
          /\ call[p].id \in Ids /\ call[p].val \in Vals
          /\ OneCall(p) /\ call'[p].pc = "ok" /\ call'[p].op = "update"
          /\ call'[p].id = call[p].id /\ rows' = [rows EXCEPT ![call[p].id] = call[p].val]
      BY <1>1, <2>3, WriteRowMoves DEF Goes
    <3>2. EffectOf(call[p]) = <<"none">> /\ EffectOf(call'[p]) = <<"updated", call[p].id>>
      BY <3>1, EffectOfPlaces
    <3>3. CASE rows[call[p].id] = Absent
      BY <2>3, <3>3 DEF LateWrite
    <3>4. CASE rows[call[p].id] # Absent
      BY <1>3, <3>1, <3>2, <3>4
    <3> QED
      BY <3>3, <3>4
  <2>4. CASE LoadTotal(p) \/ StoreTotal(p)
    <3>1. /\ OneCall(p) /\ call[p].pc \in {"count", "store"} /\ call'[p].pc \in {"store", "ok"}
          /\ call[p].op \in {"insert", "delete"} /\ rows' = rows
          /\ call'[p].op = call[p].op /\ call'[p].id = call[p].id
      BY <1>1, <2>4, LoadTotalMoves, StoreTotalMoves DEF Goes
    <3>2. EffectOf(call'[p]) = EffectOf(call[p])
      <4>1. CASE call[p].op = "insert"
        BY <3>1, <4>1, EffectOfPlaces
      <4>2. CASE call[p].op = "delete"
        BY <3>1, <4>2, EffectOfPlaces
      <4> QED
        BY <3>1, <4>1, <4>2
    <3> QED
      BY <1>2, <3>1, <3>2
  <2>5. CASE CheckPage(p) \/ ReadTotal(p) \/ CheckEmpty(p) \/ Snapshot(p) \/ ReadLimit(p)
    <3>1. OneCall(p) /\ call[p].op = "list" /\ call'[p].op = "list" /\ rows' = rows
      BY <1>1, <2>5, ListMoves
    <3>2. call[p].pc \in Places("list") /\ call'[p].pc \in Places("list")
      BY <1>1, <3>1 DEF TableTypeOK, OneCall
    <3>3. call[p].pc \notin {"missing", "failed"} /\ call'[p].pc \notin {"missing", "failed"}
      BY <3>2 DEF Places
    <3>4. EffectOf(call[p]) = <<"none">> /\ EffectOf(call'[p]) = <<"none">>
      BY <3>1, <3>3, EffectOfPlaces
    <3> QED
      BY <1>2, <3>1, <3>4
  <2> QED
    BY <1>5, <2>1, <2>2, <2>3, <2>4, <2>5 DEF TableStep
<1>6. ASSUME NEW p \in Procs, InsertScan(p) \/ InsertRepository(p)
      PROVE  Atomic!Next \/ LateWrite(p)
  <2> SUFFICES ASSUME ~LateWrite(p) PROVE Atomic!Next
    OBVIOUS
  <2>1. PICK i \in Ids : InsertRow(p, i) /\ rows[i] = Absent
    <3>1. CASE InsertScan(p)
      <4>1. nextId \in Ids /\ store = "scans" /\ InsertRow(p, nextId)
        BY <1>1, <3>1, MemTableAssumption DEF InsertScan, Ids
      <4>2. rows[nextId] = Absent
        BY <1>1, <4>1 DEF MemInv, IdsInv
      <4> QED
        BY <4>1, <4>2
    <3>2. CASE InsertRepository(p)
      <4>1. call[p].id \in Ids /\ InsertRow(p, call[p].id)
        BY <1>1, <3>2 DEF InsertRepository, At, ArgumentsInv
      <4>2. rows[call[p].id] = Absent
        BY <3>2 DEF LateWrite
      <4> QED
        BY <4>1, <4>2
    <3> QED
      BY <1>6, <3>1, <3>2
  <2>2. call[p].op = "insert" /\ call[p].pc \in {"id", "insert"}
    BY <1>6 DEF InsertScan, InsertRepository, At
  <2>3. /\ OneCall(p) /\ call'[p].pc = "count" /\ call'[p].op = "insert" /\ call'[p].id = i
        /\ call[p].val \in Vals /\ rows' = [rows EXCEPT ![i] = call[p].val]
    BY <1>1, <2>1, <2>2, InsertRowMoves
  <2>4. EffectOf(call[p]) = <<"none">> /\ EffectOf(call'[p]) = <<"inserted", i>>
    BY <2>2, <2>3, EffectOfPlaces
  <2> QED
    BY <1>3, <2>1, <2>3, <2>4
<1>7. ASSUME NEW p \in Procs, ReadNextId(p) \/ LoadNextId(p) \/ StoreNextId(p)
      PROVE  UNCHANGED Atomic!vars
  <2>1. /\ OneCall(p) /\ call[p].pc \in {"id", "bump", "set"}
        /\ call'[p].pc \in {"bump", "set", "insert"} /\ rows' = rows
    BY <1>1, <1>7, NextIdMoves
  <2>2. EffectOf(call[p]) = <<"none">> /\ EffectOf(call'[p]) = <<"none">>
    BY <2>1, EffectOfPlaces
  <2> QED
    BY <1>2, <2>1, <2>2
<1>8. ASSUME NEW p \in Procs, NewCall(p), rows' = rows
      PROVE  Atomic!Next \/ UNCHANGED Atomic!vars
  <2>1. OneCall(p) /\ call'[p].pc \in {"id", "lookup", "check"} /\ call'[p].op # "none"
    BY <1>8 DEF NewCall
  <2>2. EffectOf(call'[p]) = <<"none">>
    <3>1. CASE call'[p].pc \in {"id", "lookup"}
      BY <3>1, EffectOfPlaces
    <3>2. CASE call'[p].pc = "check"
      <4>1. call'[p].op \in Ops /\ call'[p].pc \in Places(call'[p].op)
        BY <2>1 DEF OneCall, Calls
      <4>2. call'[p].op = "list"
        BY <3>2, <4>1 DEF Ops, Places
      <4> QED
        BY <3>2, <4>2, EffectOfPlaces
    <3> QED
      BY <2>1, <3>1, <3>2
  <2>3. CASE EffectOf(call[p]) = <<"none">>
    BY <1>2, <1>8, <2>1, <2>2, <2>3
  <2>4. CASE EffectOf(call[p]) # <<"none">>
    <3>1. Effects[p] # <<"none">> /\ Effects' = [Effects EXCEPT ![p] = <<"none">>]
      BY <2>1, <2>2, <2>4, EffectsMove
    <3>2. Atomic!Return(p)
      BY <1>8, <3>1 DEF Atomic!Return, Effects
    <3> QED
      BY <3>2 DEF Atomic!Next
  <2> QED
    BY <2>3, <2>4
<1>9. CASE UNCHANGED <<rows, call>>
  <2>1. Effects' = Effects
    BY <1>9 DEF Effects, Effect
  <2> QED
    BY <1>9, <2>1 DEF Atomic!vars, Effects
<1> QED
  BY <1>5, <1>6, <1>7, <1>8, <1>9, StepCases

\* Each call of the stores takes effect at one moment, on a record that exists at that
\* moment, but for the two writes that come late: an Update's of a row that has gone, and a
\* new repository's over one with the same id.
THEOREM MemAtomic == MemServiceSpec => AtomicButForLateWrites
<1>1. MemServiceInit => Atomic!Init
  <2> SUFFICES ASSUME MemServiceInit PROVE Atomic!Init
    OBVIOUS
  <2>1. MemInv
    BY MemInvInit
  <2>2. rows \in [Ids -> Vals \union {Absent}]
    BY <2>1 DEF MemInv, TableTypeOK
  <2>3. call = [p \in Procs |-> Idle]
    BY DEF MemServiceInit, MemInit, ScanInit, TableInit
  <2>4. \A p \in Procs : call[p].pc = "idle"
    BY <2>3, IdleIsACall
  <2>5. \A p \in Procs : Effect(p) = <<"none">>
    <3> SUFFICES ASSUME NEW p \in Procs PROVE Effect(p) = <<"none">>
      OBVIOUS
    <3>1. EffectOf(call[p]) = <<"none">>
      BY <2>4, EffectOfPlaces
    <3> QED
      BY <3>1 DEF Effect, EffectOf
  <2> QED
    BY <2>2, <2>5 DEF Atomic!Init
<1>2. MemInv /\ [MemServiceNext]_memServiceVars =>
        [\/ Atomic!Next
         \/ \E p \in Procs :
              \/ WriteRow(p) /\ rows[call[p].id] = Absent
              \/ InsertRepository(p) /\ rows[call[p].id] # Absent]_Atomic!vars
  BY AtomicStep DEF LateWrite
<1> QED
  BY <1>1, <1>2, MemInvHolds, PTL DEF MemServiceSpec, AtomicButForLateWrites
=============================================================================
