------------------------- MODULE SecretFinder_proofs -------------------------
(***************************************************************************)
(* What FindSecrets walks over and what it finds there, for every tree,    *)
(* every content and every number of findings.                             *)
(***************************************************************************)
EXTENDS SecretFinder, SequenceTheorems, FiniteSetTheorems, WellFoundedInduction, TLAPS

-----------------------------------------------------------------------------
(* Induction, on sets of numbers.                                          *)

LEMMA LeastNumber ==
  ASSUME NEW T \in SUBSET Nat, T # {}
  PROVE  \E n \in T : \A m \in T : n <= m
<1> DEFINE R == OpToRel(<, Nat)
<1>1. PICK n \in T : \A m \in T : <<m, n>> \notin R
  BY WFMin, NatLessThanWellFounded
<1>2. \A k, m \in Nat : <<m, k>> \in R <=> m < k
  BY DEF OpToRel
<1> HIDE DEF R
<1>3. ASSUME NEW m \in T
      PROVE  n <= m
  <2>1. n \in Nat /\ m \in Nat
    OBVIOUS
  <2>2. ~(m < n)
    BY <1>1, <1>2, <2>1
  <2> QED
    BY <2>1, <2>2
<1> QED
  BY <1>3

LEMMA AllNumbers ==
  ASSUME NEW T \in SUBSET Nat, 0 \in T, \A n \in T : n + 1 \in T
  PROVE  T = Nat
<1> SUFFICES ASSUME Nat \ T # {} PROVE FALSE
  OBVIOUS
<1>1. PICK n \in Nat \ T : \A m \in Nat \ T : n <= m
  BY LeastNumber
<1>2. n - 1 \in T
  BY <1>1
<1> QED
  BY <1>1, <1>2

LEMMA LeastIsMin ==
  ASSUME NEW S \in SUBSET Nat, S # {}
  PROVE  Min(S) \in S /\ \A x \in S : Min(S) <= x
BY LeastNumber DEF Min

LEMMA GreatestIsMax ==
  ASSUME NEW k \in Nat, NEW S \in SUBSET (1..k), S # {}
  PROVE  Max(S) \in S /\ \A x \in S : Max(S) >= x
<1> DEFINE T == {y \in Nat : \E x \in S : y = k - x}
<1>1. \A x \in S : x \in Nat /\ k - x \in T
  OBVIOUS
<1>2. T \in SUBSET Nat /\ T # {}
  BY <1>1
<1>3. PICK m \in T : \A y \in T : m <= y
  <2> HIDE DEF T
  <2> QED
    BY <1>2, LeastNumber
<1>4. PICK x \in S : m = k - x
  OBVIOUS
<1>5. \A y \in S : x >= y
  <2> HIDE DEF T
  <2> QED
    BY <1>1, <1>3, <1>4
<1> QED
  BY <1>5 DEF Max

-----------------------------------------------------------------------------
(* Where a run of symbols ends.                                            *)

LEMMA EndOfRunIs ==
  ASSUME NEW text \in Seq(Symbols), NEW i \in 1..(Len(text) + 1), NEW S
  PROVE  /\ EndOfRun(text, i, S) \in i..(Len(text) + 1)
         /\ \A j \in i..(EndOfRun(text, i, S) - 1) : text[j] \in S
         /\ EndOfRun(text, i, S) <= Len(text) => text[EndOfRun(text, i, S)] \notin S
<1> DEFINE E == {j \in i..Len(text) : text[j] \notin S} \union {Len(text) + 1}
<1>1. Len(text) \in Nat
  OBVIOUS
<1>2. E \in SUBSET Nat /\ E # {} /\ E \in SUBSET (i..(Len(text) + 1))
  BY <1>1
<1>3. Min(E) \in E /\ \A x \in E : Min(E) <= x
  BY <1>2, LeastIsMin
<1>4. EndOfRun(text, i, S) = Min(E)
  BY DEF EndOfRun
<1> DEFINE e == Min(E)
<1>5. e \in i..(Len(text) + 1) /\ (e <= Len(text) => text[e] \notin S)
  BY <1>1, <1>2, <1>3
<1>6. ASSUME NEW j \in i..(e - 1), text[j] \notin S
      PROVE  FALSE
  <2>1. j \in E
    BY <1>1, <1>5, <1>6
  <2> QED
    BY <1>3, <1>5, <2>1
<1> QED
  BY <1>4, <1>5, <1>6

LEMMA EndOfRunOnly ==
  ASSUME NEW text \in Seq(Symbols), NEW i \in 1..(Len(text) + 1), NEW S,
         NEW e \in i..(Len(text) + 1), \A j \in i..(e - 1) : text[j] \in S,
         e <= Len(text) => text[e] \notin S
  PROVE  EndOfRun(text, i, S) = e
<1> DEFINE d == EndOfRun(text, i, S)
<1>1. Len(text) \in Nat
  OBVIOUS
<1>2. /\ d \in i..(Len(text) + 1)
      /\ \A j \in i..(d - 1) : text[j] \in S
      /\ d <= Len(text) => text[d] \notin S
  BY EndOfRunIs
<1> HIDE DEF d
<1>3. ~(d < e) /\ ~(e < d)
  BY <1>1, <1>2
<1> QED
  BY <1>1, <1>2, <1>3 DEF d

\* The positions of a match.
LEMMA MatchPlaces ==
  ASSUME NEW text \in Seq(Symbols), NEW i \in 1..Len(text)
  PROVE  /\ AfterKeyword(text, i) \in (i + 1)..(Len(text) + 1)
         /\ AfterSeparator(text, i) \in AfterKeyword(text, i)..(Len(text) + 1)
         /\ AfterMatch(text, i) \in AfterSeparator(text, i)..(Len(text) + 1)
<1>1. Len(text) \in Nat
  OBVIOUS
<1>2. AfterKeyword(text, i) \in (i + 1)..(Len(text) + 1)
  <2> DEFINE q == i < Len(text) /\ text[i + 1] = "'"
  <2>1. AfterKeyword(text, i) = IF q THEN i + 2 ELSE i + 1
    BY DEF AfterKeyword
  <2>2. q => i < Len(text)
    OBVIOUS
  <2> HIDE DEF q
  <2> QED
    BY <1>1, <2>1, <2>2
<1>3. AfterSeparator(text, i) \in AfterKeyword(text, i)..(Len(text) + 1)
  <2>1. AfterKeyword(text, i) \in 1..(Len(text) + 1)
    BY <1>1, <1>2
  <2> QED
    BY <2>1, EndOfRunIs DEF AfterSeparator
<1>4. AfterMatch(text, i) \in AfterSeparator(text, i)..(Len(text) + 1)
  <2>1. AfterSeparator(text, i) \in 1..(Len(text) + 1)
    BY <1>1, <1>2, <1>3
  <2> QED
    BY <2>1, EndOfRunIs DEF AfterMatch
<1> QED
  BY <1>2, <1>3, <1>4

-----------------------------------------------------------------------------
(* The groups of a text.                                                   *)

GroupTypes == [kind : Keywords, full : BOOLEAN]

\* What FindAllStringSubmatch does at position i, with the groups from later ones on.
GroupsAt(text, from, i) ==
  IF i > Len(text) THEN <<>>
  ELSE IF MatchesAt(text, i) THEN <<Group(text, i)>> \o from[AfterMatch(text, i)]
  ELSE from[i + 1]

LEMMA GroupsAtLooksOn ==
  ASSUME NEW text \in Seq(Symbols), NEW i \in 1..(Len(text) + 1), NEW f, NEW g,
         \A j \in (i + 1)..(Len(text) + 1) : f[j] = g[j]
  PROVE  GroupsAt(text, f, i) = GroupsAt(text, g, i)
<1>1. Len(text) \in Nat
  OBVIOUS
<1>2. CASE i > Len(text)
  BY <1>2 DEF GroupsAt
<1>3. CASE ~(i > Len(text))
  <2>1. AfterMatch(text, i) \in (i + 1)..(Len(text) + 1)
    BY <1>1, <1>3, MatchPlaces
  <2>2. i + 1 \in (i + 1)..(Len(text) + 1)
    BY <1>1, <1>3
  <2>3. /\ f[AfterMatch(text, i)] = g[AfterMatch(text, i)]
        /\ f[i + 1] = g[i + 1]
    BY <2>1, <2>2
  <2> QED
    BY <1>3, <2>3, Zenon DEF GroupsAt
<1> QED
  BY <1>2, <1>3

\* The recursion ends, so Groups is what it says.
LEMMA GroupsAre ==
  ASSUME NEW text \in Seq(Symbols)
  PROVE  \E from : /\ Groups(text) = from[1]
                   /\ \A i \in 1..(Len(text) + 1) : from[i] = GroupsAt(text, from, i)
<1> DEFINE last == Len(text) + 1
           Solves(f, k) == f = [i \in (last - k)..last |-> GroupsAt(text, f, i)]
           T == {k \in Nat : k < last => \E f : Solves(f, k)}
<1>1. last \in Nat \ {0}
  OBVIOUS
<1>2. 0 \in T
  <2> DEFINE f == [i \in last..last |-> GroupsAt(text, <<>>, i)]
  <2>1. \A i \in last..last : GroupsAt(text, <<>>, i) = GroupsAt(text, f, i)
    BY GroupsAtLooksOn
  <2>2. last - 0 = last
    BY <1>1
  <2>3. Solves(f, 0)
    BY <2>1, <2>2, Zenon
  <2> QED
    BY <2>3
<1>3. ASSUME NEW k \in T
      PROVE  k + 1 \in T
  <2> SUFFICES ASSUME k + 1 < last PROVE \E g : Solves(g, k + 1)
    OBVIOUS
  <2>1. PICK f : Solves(f, k)
    BY <1>1
  <2> DEFINE m == last - (k + 1)
             g == [i \in m..last |-> IF i = m THEN GroupsAt(text, f, m) ELSE f[i]]
  <2>2. m \in 1..last /\ last - k = m + 1 /\ m < last
    BY <1>1
  <2>3. \A i \in (m + 1)..last : g[i] = f[i] /\ f[i] = GroupsAt(text, f, i)
    <3>1. f = [i \in (m + 1)..last |-> GroupsAt(text, f, i)]
      BY <2>1, <2>2
    <3> HIDE DEF m, last
    <3>2. ASSUME NEW i \in (m + 1)..last
          PROVE  g[i] = f[i] /\ f[i] = GroupsAt(text, f, i)
      <4>1. i \in m..last /\ i # m
        BY <1>1, <2>2
      <4> QED
        BY <3>1, <4>1
    <3> QED
      BY <3>2
  <2>4. ASSUME NEW i \in m..last
        PROVE  g[i] = GroupsAt(text, g, i)
    <3>1. i \in 1..last /\ \A j \in (i + 1)..last : f[j] = g[j]
      <4> HIDE DEF g, m, last
      <4> QED
        BY <1>1, <2>2, <2>3
    <3>2. GroupsAt(text, f, i) = GroupsAt(text, g, i)
      <4> HIDE DEF g
      <4> QED
        BY <3>1, GroupsAtLooksOn
    <3>3. g[i] = GroupsAt(text, f, i)
      <4>1. CASE i = m
        BY <4>1
      <4>2. CASE i # m
        <5>1. i \in (m + 1)..last
          <6> HIDE DEF m, last
          <6> QED
            BY <1>1, <2>2, <4>2
        <5> QED
          BY <2>3, <5>1
      <4> QED
        BY <4>1, <4>2
    <3> QED
      BY <3>2, <3>3
  <2>5. Solves(g, k + 1)
    <3>1. g = [i \in m..last |-> g[i]]
      OBVIOUS
    <3> HIDE DEF g
    <3> QED
      BY <2>4, <3>1, Zenon
  <2> QED
    BY <2>5
<1>4. Len(text) \in T
  <2>1. T \in SUBSET Nat /\ Len(text) \in Nat
    OBVIOUS
  <2> HIDE DEF T
  <2>2. \A k \in T : k + 1 \in T
    BY <1>3
  <2>3. T = Nat
    BY <1>2, <2>1, <2>2, AllNumbers
  <2> QED
    BY <2>1, <2>3
<1>5. PICK f : Solves(f, Len(text))
  BY <1>1, <1>4
<1>6. last - Len(text) = 1
  OBVIOUS
<1> DEFINE P(h) == h = [i \in 1..last |-> GroupsAt(text, h, i)]
           from == CHOOSE h : P(h)
<1>7. P(f)
  BY <1>5, <1>6
<1>8. P(from)
  <2> HIDE DEF P
  <2> QED
    BY <1>7, Zenon
<1>9. Groups(text) = from[1]
  BY Zenon DEF Groups, GroupsAt
<1> QED
  <2>1. \A i \in 1..last : from[i] = GroupsAt(text, from, i)
    <3> HIDE DEF from
    <3> QED
      BY <1>8
  <2> QED
    BY <1>9, <2>1

LEMMA FromTheLast ==
  ASSUME NEW last \in Nat, NEW T \in SUBSET (1..last),
         \A i \in 1..last : (\A j \in (i + 1)..last : j \in T) => i \in T
  PROVE  T = 1..last
<1> SUFFICES ASSUME (1..last) \ T # {} PROVE FALSE
  OBVIOUS
<1> DEFINE S == (1..last) \ T
<1>1. Max(S) \in S /\ \A x \in S : Max(S) >= x
  BY GreatestIsMax
<1> DEFINE i == Max(S)
<1>2. i \in 1..last /\ i \notin T
  BY <1>1
<1>3. \A j \in (i + 1)..last : j \in T
  <2> SUFFICES ASSUME NEW j \in (i + 1)..last, j \notin T PROVE FALSE
    OBVIOUS
  <2>1. j \in S /\ j > i
    BY <1>2
  <2> QED
    BY <1>1, <1>2, <2>1
<1> QED
  BY <1>2, <1>3

\* A match at i with its token.
FullAt(text, i) == MatchesAt(text, i) /\ AfterSeparator(text, i) <= Len(text)

LEMMA SymbolKinds == Keywords \intersect Separators = {} /\ "'" \notin Keywords
BY Zenon DEF Keywords, Separators

\* A match that runs over a keyword has its token: without one there is only white space and
\* the like up to the end.
LEMMA KeywordIsToken ==
  ASSUME NEW text \in Seq(Symbols), NEW i \in 1..Len(text), NEW k \in (i + 1)..Len(text),
         MatchesAt(text, k)
  PROVE  AfterSeparator(text, i) <= Len(text)
<1> SUFFICES ASSUME ~(AfterSeparator(text, i) <= Len(text)) PROVE FALSE
  OBVIOUS
<1> DEFINE a == AfterKeyword(text, i)
<1>1. Len(text) \in Nat
  OBVIOUS
<1>2. a \in (i + 1)..(Len(text) + 1) /\ AfterSeparator(text, i) = Len(text) + 1
  <2> DEFINE b == AfterSeparator(text, i)
  <2>1. a \in (i + 1)..(Len(text) + 1) /\ b \in a..(Len(text) + 1) /\ ~(b <= Len(text))
    BY MatchPlaces
  <2> HIDE DEF a, b
  <2>2. b = Len(text) + 1
    BY <1>1, <2>1
  <2> QED
    BY <2>1, <2>2 DEF b
<1>3. \A j \in a..Len(text) : text[j] \in Separators
  <2>1. a \in 1..(Len(text) + 1) /\ (Len(text) + 1) - 1 = Len(text)
    BY <1>1, <1>2
  <2>2. EndOfRun(text, a, Separators) = Len(text) + 1
    BY <1>2 DEF AfterSeparator
  <2> HIDE DEF a
  <2> QED
    BY <2>1, <2>2, EndOfRunIs
<1>4. text[k] \in Keywords
  BY DEF MatchesAt
<1>5. a <= k
  <2>1. a = IF i < Len(text) /\ text[i + 1] = "'" THEN i + 2 ELSE i + 1
    BY DEF AfterKeyword
  <2>2. k = i + 1 => ~(text[i + 1] = "'")
    BY <1>4, SymbolKinds
  <2> DEFINE q == text[i + 1] = "'"
  <2>3. (a = i + 1 \/ (a = i + 2 /\ q)) /\ (k = i + 1 => ~q)
    BY <2>1, <2>2
  <2> HIDE DEF q, a
  <2> QED
    BY <1>1, <2>3
<1>6. text[k] \in Separators
  <2> HIDE DEF a
  <2> QED
    BY <1>1, <1>2, <1>3, <1>5
<1> QED
  BY <1>4, <1>6, SymbolKinds

\* Only the last group can be a prefix, and one is full exactly if there is a full match at
\* all: the scan jumps over a full match only within another one.
LEMMA GroupsFrom ==
  ASSUME NEW text \in Seq(Symbols), NEW from,
         \A i \in 1..(Len(text) + 1) : from[i] = GroupsAt(text, from, i)
  PROVE  \A i \in 1..(Len(text) + 1) :
           /\ from[i] \in Seq(GroupTypes)
           /\ \A k \in 1..(Len(from[i]) - 1) : from[i][k].full
           /\ (\E k \in 1..Len(from[i]) : from[i][k].full)
                <=> (\E k \in i..Len(text) : FullAt(text, k))
<1> DEFINE last == Len(text) + 1
           Good(i) == /\ from[i] \in Seq(GroupTypes)
                      /\ \A k \in 1..(Len(from[i]) - 1) : from[i][k].full
                      /\ (\E k \in 1..Len(from[i]) : from[i][k].full)
                           <=> (\E k \in i..Len(text) : FullAt(text, k))
           T == {i \in 1..last : Good(i)}
<1>1. Len(text) \in Nat /\ last \in Nat
  OBVIOUS
<1>2. ASSUME NEW i \in 1..last, \A j \in (i + 1)..last : j \in T
      PROVE  i \in T
  <2> SUFFICES Good(i)
    OBVIOUS
  <2>1. \A j \in (i + 1)..last : Good(j)
    BY <1>2
  <2>2. /\ i > Len(text) => from[i] = <<>>
        /\ ~(i > Len(text)) /\ MatchesAt(text, i) =>
             from[i] = <<Group(text, i)>> \o from[AfterMatch(text, i)]
        /\ ~(i > Len(text)) /\ ~MatchesAt(text, i) => from[i] = from[i + 1]
    <3>1. from[i] = GroupsAt(text, from, i)
      OBVIOUS
    <3> QED
      BY <3>1, Zenon DEF GroupsAt
  <2>3. CASE i = last
    <3>1. from[i] = <<>>
      BY <1>1, <2>3, <2>2
    <3> QED
      BY <1>1, <2>3, <3>1
  <2>4. CASE i # last /\ ~MatchesAt(text, i)
    <3>1. i \in 1..Len(text) /\ i + 1 \in (i + 1)..last
      BY <1>1, <2>4
    <3>2. from[i] = from[i + 1]
      BY <1>1, <2>4, <2>2, <3>1
    <3>3. Good(i + 1)
      BY <2>1, <3>1
    <3>4. ~FullAt(text, i)
      BY <2>4 DEF FullAt
    <3>5. (\E k \in i..Len(text) : FullAt(text, k)) <=> (\E k \in (i + 1)..Len(text) : FullAt(text, k))
      BY <1>1, <3>1, <3>4
    <3> QED
      BY <3>2, <3>3, <3>5
  <2>5. CASE i # last /\ MatchesAt(text, i)
    <3> DEFINE m == AfterMatch(text, i)
               b == AfterSeparator(text, i)
               g == Group(text, i)
               rest == from[m]
    <3>1. /\ i \in 1..Len(text) /\ b \in (i + 1)..last /\ m \in b..last /\ m \in (i + 1)..last
      BY <1>1, <2>5, MatchPlaces
    <3>2. from[i] = <<g>> \o rest
      BY <1>1, <2>5, <2>2, <3>1
    <3>3. g \in GroupTypes /\ (g.full <=> b <= Len(text))
      <4>1. text[i] \in Keywords
        BY <2>5 DEF MatchesAt
      <4>2. g = [kind |-> text[i], full |-> (b <= Len(text))]
        BY DEF Group
      <4>3. (b <= Len(text)) \in BOOLEAN
        OBVIOUS
      <4> HIDE DEF g, b
      <4> QED
        BY <4>1, <4>2, <4>3, Zenon DEF GroupTypes
    <3>4. Good(m)
      BY <2>1, <3>1
    <3>5. ~g.full => m = last /\ rest = <<>>
      <4>1. last \in 1..last /\ ~(last <= Len(text))
        BY <1>1
      <4>2. from[last] = <<>>
        <5>1. from[last] = GroupsAt(text, from, last)
          BY <4>1
        <5> QED
          BY <1>1, <4>1, <5>1 DEF GroupsAt
      <4> HIDE DEF g, b, m
      <4>3. ~g.full => m = last
        BY <1>1, <3>1, <3>3
      <4> QED
        BY <4>2, <4>3
    <3>6. /\ from[i] \in Seq(GroupTypes) /\ Len(from[i]) = 1 + Len(rest) /\ Len(rest) \in Nat
          /\ from[i][1] = g /\ \A k \in 1..Len(rest) : from[i][1 + k] = rest[k]
      <4> HIDE DEF g, m
      <4> QED
        BY <3>2, <3>3, <3>4
    <3>7. \A k \in 1..(Len(from[i]) - 1) : from[i][k].full
      <4> SUFFICES ASSUME NEW k \in 1..(Len(from[i]) - 1) PROVE from[i][k].full
        OBVIOUS
      <4>1. k \in Nat /\ k <= Len(rest)
        BY <3>6
      <4>2. CASE k = 1
        <5>1. rest # <<>>
          BY <3>6, <4>1, <4>2
        <5> QED
          BY <3>5, <3>6, <4>2, <5>1
      <4>3. CASE k # 1
        <5>1. k - 1 \in 1..(Len(rest) - 1) /\ k - 1 \in 1..Len(rest) /\ 1 + (k - 1) = k
          BY <3>6, <4>1, <4>3
        <5>2. from[i][k] = rest[k - 1]
          BY <3>6, <5>1
        <5> QED
          BY <3>4, <5>1, <5>2
      <4> QED
        BY <4>2, <4>3
    <3>8. (\E k \in 1..Len(from[i]) : from[i][k].full) <=> g.full \/ (\E k \in 1..Len(rest) : rest[k].full)
      <4>1. 1 \in 1..Len(from[i]) /\ \A k \in 1..Len(rest) : 1 + k \in 1..Len(from[i])
        BY <3>6
      <4>2. \A k \in 1..Len(from[i]) : k = 1 \/ (k - 1 \in 1..Len(rest) /\ 1 + (k - 1) = k)
        BY <3>6
      <4> HIDE DEF g, rest
      <4>3. \A k \in 1..Len(from[i]) : k # 1 => from[i][k] = rest[k - 1]
        BY <3>6, <4>2
      <4> QED
        BY <3>6, <4>1, <4>2, <4>3
    <3>9. (\E k \in i..Len(text) : FullAt(text, k)) <=> g.full \/ (\E k \in m..Len(text) : FullAt(text, k))
      <4>1. g.full => FullAt(text, i) /\ i \in i..Len(text)
        BY <1>1, <2>5, <3>1, <3>3 DEF FullAt
      <4>2. \A k \in m..Len(text) : k \in i..Len(text)
        BY <1>1, <3>1
      <4>3. ASSUME NEW k \in i..Len(text), FullAt(text, k), k \notin m..Len(text)
            PROVE  g.full
        <5>1. CASE k = i
          BY <3>3, <4>3, <5>1 DEF FullAt
        <5>2. CASE k # i
          <6>1. k \in (i + 1)..Len(text)
            BY <1>1, <3>1, <5>2
          <6> QED
            BY <3>1, <3>3, <4>3, <6>1, KeywordIsToken DEF FullAt
        <5> QED
          BY <5>1, <5>2
      <4> HIDE DEF g, m
      <4> QED
        BY <4>1, <4>2, <4>3
    <3> QED
      <4> HIDE DEF g, m
      <4> QED
        BY <3>4, <3>6, <3>7, <3>8, <3>9
  <2> QED
    BY <2>3, <2>4, <2>5
<1>3. T = 1..last
  <2>1. T \in SUBSET (1..last)
    OBVIOUS
  <2>2. \A i \in 1..last : (\A j \in (i + 1)..last : j \in T) => i \in T
    BY <1>2
  <2> HIDE DEF T, last
  <2> QED
    BY <1>1, <2>1, <2>2, FromTheLast
<1> QED
  BY <1>3

LEMMA GroupsOf ==
  ASSUME NEW text \in Seq(Symbols)
  PROVE  /\ Groups(text) \in Seq(GroupTypes)
         /\ \A k \in 1..(Len(Groups(text)) - 1) : Groups(text)[k].full
         /\ (\E k \in 1..Len(Groups(text)) : Groups(text)[k].full)
              <=> (\E k \in 1..Len(text) : FullAt(text, k))
<1>1. PICK from : /\ Groups(text) = from[1]
                  /\ \A i \in 1..(Len(text) + 1) : from[i] = GroupsAt(text, from, i)
  BY GroupsAre
<1>2. 1 \in 1..(Len(text) + 1)
  OBVIOUS
<1> QED
  BY <1>1, <1>2, GroupsFrom

-----------------------------------------------------------------------------
(* A line behind what is buffered.                                         *)

\* What a line is behind other text.
LEMMA Behind ==
  ASSUME NEW t \in Seq(Symbols), NEW line \in Seq(Symbols)
  PROVE  /\ t \o line \in Seq(Symbols)
         /\ Len(t) \in Nat /\ Len(line) \in Nat
         /\ Len(t \o line) = Len(t) + Len(line)
         /\ \A j \in 1..Len(line) : (t \o line)[Len(t) + j] = line[j]
OBVIOUS

LEMMA RunBehind ==
  ASSUME NEW t \in Seq(Symbols), NEW line \in Seq(Symbols), NEW i \in 1..(Len(line) + 1), NEW S
  PROVE  EndOfRun(t \o line, Len(t) + i, S) = Len(t) + EndOfRun(line, i, S)
<1> DEFINE text == t \o line
           p == Len(t)
           q == Len(line)
           e == EndOfRun(line, i, S)
<1>1. /\ text \in Seq(Symbols) /\ p \in Nat /\ q \in Nat /\ Len(text) = p + q
      /\ \A j \in 1..q : text[p + j] = line[j]
  BY Behind
<1>2. /\ e \in i..(q + 1)
      /\ \A j \in i..(e - 1) : line[j] \in S
      /\ e <= q => line[e] \notin S
  BY EndOfRunIs
<1> HIDE DEF text, p, e
<1>3. p + i \in 1..(Len(text) + 1) /\ p + e \in (p + i)..(Len(text) + 1)
  BY <1>1, <1>2
<1>4. ASSUME NEW j \in (p + i)..((p + e) - 1)
      PROVE  text[j] \in S
  <2>1. j - p \in i..(e - 1) /\ j - p \in 1..q /\ p + (j - p) = j
    BY <1>1, <1>2
  <2> QED
    BY <1>1, <1>2, <2>1
<1>5. p + e <= Len(text) => text[p + e] \notin S
  BY <1>1, <1>2
<1>6. EndOfRun(text, p + i, S) = p + e
  BY <1>1, <1>3, <1>4, <1>5, EndOfRunOnly
<1> QED
  BY <1>6 DEF text, p, e

LEMMA FullBehind ==
  ASSUME NEW t \in Seq(Symbols), NEW line \in Seq(Symbols), NEW i \in 1..Len(line),
         FullAt(line, i)
  PROVE  FullAt(t \o line, Len(t) + i)
<1> DEFINE text == t \o line
           p == Len(t)
           q == Len(line)
           a == AfterKeyword(line, i)
           b == AfterSeparator(line, i)
<1>1. /\ text \in Seq(Symbols) /\ p \in Nat /\ q \in Nat /\ Len(text) = p + q
      /\ \A j \in 1..q : text[p + j] = line[j]
  BY Behind
<1>2. a \in (i + 1)..(q + 1) /\ b \in a..(q + 1)
  BY MatchPlaces
<1>3. AfterKeyword(text, p + i) = p + a
  <2>1. i < q => text[p + (i + 1)] = line[i + 1]
    <3> HIDE DEF text, p
    <3> QED
      BY <1>1
  <2> DEFINE quote == line[i + 1] = "'"
             quote2 == text[(p + i) + 1] = "'"
  <2>2. p + (i + 1) = (p + i) + 1
    BY <1>1
  <2>3. i < q => (quote <=> quote2)
    BY <2>1, <2>2
  <2>4. /\ AfterKeyword(text, p + i) = IF p + i < Len(text) /\ quote2 THEN (p + i) + 2 ELSE (p + i) + 1
        /\ a = IF i < q /\ quote THEN i + 2 ELSE i + 1
    BY DEF AfterKeyword
  <2> HIDE DEF quote, quote2, text, p, a
  <2> QED
    BY <1>1, <2>3, <2>4
<1>4. AfterSeparator(text, p + i) = p + b
  <2>1. a \in 1..(q + 1)
    BY <1>1, <1>2
  <2> HIDE DEF a
  <2>2. EndOfRun(text, p + a, Separators) = p + EndOfRun(line, a, Separators)
    BY <2>1, RunBehind
  <2> QED
    BY <1>3, <2>2 DEF AfterSeparator, a
<1>5. SubSeq(text, p + a, (p + b) - 1) = SubSeq(line, a, b - 1)
  <2> HIDE DEF text, p, a, b
  <2>1. /\ a \in Nat \ {0} /\ b \in Nat /\ a <= b /\ b - 1 <= q
    BY <1>1, <1>2
  <2>2. \A j \in a..(b - 1) : text[p + j] = line[j]
    BY <1>1, <2>1
  <2>3. /\ SubSeq(line, a, b - 1) \in Seq(Symbols)
        /\ Len(SubSeq(line, a, b - 1)) = b - a
        /\ \A j \in 1..(b - a) : SubSeq(line, a, b - 1)[j] = line[a + j - 1]
    <3>1. \A j \in a..(b - 1) : line[j] \in Symbols
      BY <1>1, <2>1
    <3>2. (IF a <= b - 1 THEN (b - 1) - a + 1 ELSE 0) = b - a /\ (b - 1) - a + 1 = b - a
          /\ b - 1 \in Int
      BY <2>1
    <3> QED
      BY <2>1, <3>1, <3>2, SubSeqProperties
  <2>4. /\ SubSeq(text, p + a, (p + b) - 1) \in Seq(Symbols)
        /\ Len(SubSeq(text, p + a, (p + b) - 1)) = b - a
        /\ \A j \in 1..(b - a) : SubSeq(text, p + a, (p + b) - 1)[j] = text[(p + a) + j - 1]
    <3> DEFINE m == p + a
               n == (p + b) - 1
    <3>1. m \in Int /\ n \in Int /\ (IF m <= n THEN n - m + 1 ELSE 0) = b - a /\ n - m + 1 = b - a
          /\ 1 <= m /\ n <= Len(text)
      BY <1>1, <2>1
    <3> HIDE DEF m, n
    <3>2. \A j \in m..n : text[j] \in Symbols
      BY <1>1, <3>1
    <3>3. /\ SubSeq(text, m, n) \in Seq(Symbols)
          /\ Len(SubSeq(text, m, n)) = b - a
          /\ \A j \in 1..(b - a) : SubSeq(text, m, n)[j] = text[m + j - 1]
      BY <3>1, <3>2, SubSeqProperties
    <3> QED
      BY <3>3 DEF m, n
  <2>5. ASSUME NEW j \in 1..(b - a)
        PROVE  text[(p + a) + j - 1] = line[a + j - 1]
    <3>1. a + j - 1 \in a..(b - 1) /\ (p + a) + j - 1 = p + (a + j - 1)
      BY <1>1, <2>1
    <3> QED
      BY <2>2, <3>1
  <2> DEFINE u == SubSeq(text, p + a, (p + b) - 1)
             v == SubSeq(line, a, b - 1)
  <2>6. u \in Seq(Symbols) /\ v \in Seq(Symbols) /\ Len(u) = Len(v) /\ Len(u) = b - a
    BY <2>3, <2>4
  <2>7. \A j \in 1..(b - a) : u[j] = v[j]
    BY <2>3, <2>4, <2>5
  <2> HIDE DEF u, v
  <2>8. u = v
    BY <2>6, <2>7, SeqEqual
  <2> QED
    BY <2>8 DEF u, v
<1>6. text[p + i] = line[i] /\ (b <= q => text[p + b] = line[b])
  <2> HIDE DEF text, p, a, b
  <2> QED
    BY <1>1, <1>2
<1>7. /\ line[i] \in Keywords /\ IsSeparator(SubSeq(line, a, b - 1)) /\ b <= q
      /\ line[b] \notin NoToken
  BY DEF FullAt, MatchesAt
<1>8. p + b <= Len(text)
  <2> HIDE DEF text, p, a, b
  <2> QED
    BY <1>1, <1>2, <1>7
<1>9. MatchesAt(text, p + i)
  <2>1. text[p + i] \in Keywords /\ IsSeparator(SubSeq(text, p + a, (p + b) - 1))
        /\ text[p + b] \notin NoToken
    BY <1>5, <1>6, <1>7
  <2> QED
    BY <1>3, <1>4, <2>1 DEF MatchesAt
<1> QED
  BY <1>4, <1>8, <1>9 DEF FullAt

\* A secret on a line is matched, whatever is buffered before it.
LEMMA SecretIsMatched ==
  ASSUME NEW t \in Seq(Symbols), NEW line \in Seq(Symbols), HasSecret(line)
  PROVE  \E k \in 1..Len(Groups(t \o line)) : Groups(t \o line)[k].full
<1>1. /\ t \o line \in Seq(Symbols) /\ Len(t) \in Nat /\ Len(line) \in Nat
      /\ Len(t \o line) = Len(t) + Len(line)
  BY Behind
<1>2. \E k \in 1..Len(Groups(line)) : Groups(line)[k].full
  <2>1. Groups(line) \in Seq(GroupTypes)
    BY GroupsOf
  <2>2. DOMAIN Groups(line) = 1..Len(Groups(line))
    BY <2>1
  <2> QED
    BY <2>2 DEF HasSecret, ToSet
<1>3. PICK i \in 1..Len(line) : FullAt(line, i)
  BY <1>2, GroupsOf
<1>4. FullAt(t \o line, Len(t) + i) /\ Len(t) + i \in 1..Len(t \o line)
  BY <1>1, <1>3, FullBehind
<1> QED
  BY <1>1, <1>4, GroupsOf

-----------------------------------------------------------------------------
(* A turn of the loop over the lines.                                      *)

\* f[k] is the buffer after the first k groups of a line, and AfterGroups the one after all.
Buffers(f, base, s, line, n) ==
  /\ f[0] = base
  /\ \A k \in 1..Len(s) : f[k] = OnGroup(f[k - 1], s[k], line, n)

AfterGroups(base, s, line, n) ==
  FoldLeft(LAMBDA acc, group : OnGroup(acc, group, line, n), base, s)

\* The fold over the groups of a line takes them one by one.
LEMMA FoldIs ==
  ASSUME NEW line, NEW n, NEW base, NEW s \in Seq(GroupTypes)
  PROVE  \E f : Buffers(f, base, s, line, n) /\ AfterGroups(base, s, line, n) = f[Len(s)]
<1> DEFINE At(f, S) == IF S = {} THEN base ELSE OnGroup(f[S \ {Max(S)}], s[Max(S)], line, n)
           Solves(f, k) == f = [S \in SUBSET (1..k) |-> At(f, S)]
           T == {k \in Nat : \E f : Solves(f, k)}
<1>1. Len(s) \in Nat /\ DOMAIN s = 1..Len(s)
  OBVIOUS
<1>2. ASSUME NEW k \in Nat, NEW f, NEW g, NEW S \in SUBSET (1..k),
             S # {} => f[S \ {Max(S)}] = g[S \ {Max(S)}]
      PROVE  At(f, S) = At(g, S)
  BY <1>2
<1>3. 0 \in T
  <2> DEFINE f == [S \in SUBSET (1..0) |-> base]
  <2>1. \A S \in SUBSET (1..0) : At(f, S) = base
    OBVIOUS
  <2>2. Solves(f, 0)
    BY <2>1
  <2> QED
    BY <2>2
<1>4. ASSUME NEW k \in T
      PROVE  k + 1 \in T
  <2>1. PICK f : Solves(f, k)
    OBVIOUS
  <2> DEFINE g == [S \in SUBSET (1..(k + 1)) |->
                     IF k + 1 \in S THEN OnGroup(f[S \ {k + 1}], s[k + 1], line, n) ELSE f[S]]
  <2>2. \A S \in SUBSET (1..k) : S \in SUBSET (1..(k + 1)) /\ k + 1 \notin S
    OBVIOUS
  <2>3. \A S \in SUBSET (1..k) : g[S] = f[S] /\ f[S] = At(f, S)
    <3> HIDE DEF At
    <3> QED
      BY <2>1, <2>2
  <2>4. ASSUME NEW S \in SUBSET (1..(k + 1))
        PROVE  g[S] = At(g, S)
    <3>1. CASE k + 1 \in S
      <4>1. Max(S) = k + 1
        <5>1. k + 1 \in Nat /\ S # {}
          BY <3>1
        <5>2. Max(S) \in S /\ Max(S) >= k + 1
          BY <3>1, <5>1, GreatestIsMax
        <5> HIDE DEF g
        <5>3. Max(S) \in 1..(k + 1)
          BY <5>2
        <5> QED
          BY <5>2, <5>3
      <4>2. S \ {k + 1} \in SUBSET (1..k)
        OBVIOUS
      <4>3. g[S \ {k + 1}] = f[S \ {k + 1}]
        <5> HIDE DEF g
        <5> QED
          BY <2>3, <4>2
      <4>4. g[S] = OnGroup(f[S \ {k + 1}], s[k + 1], line, n)
        BY <3>1
      <4> HIDE DEF g
      <4> QED
        BY <3>1, <4>1, <4>3, <4>4
    <3>2. CASE k + 1 \notin S
      <4>1. S \in SUBSET (1..k)
        BY <3>2
      <4>2. S # {} => S \ {Max(S)} \in SUBSET (1..k)
        BY <4>1
      <4>3. S # {} => f[S \ {Max(S)}] = g[S \ {Max(S)}]
        <5> HIDE DEF g
        <5> QED
          BY <2>3, <4>2
      <4>4. g[S] = At(f, S)
        <5> HIDE DEF g, At
        <5> QED
          BY <2>3, <4>1
      <4> HIDE DEF g
      <4> QED
        BY <4>3, <4>4
    <3> QED
      BY <3>1, <3>2
  <2>5. Solves(g, k + 1)
    <3>1. g = [S \in SUBSET (1..(k + 1)) |-> g[S]]
      OBVIOUS
    <3> HIDE DEF g, At
    <3> QED
      BY <2>4, <3>1, Zenon
  <2> HIDE DEF g, Solves
  <2> QED
    BY <2>5
<1>5. Len(s) \in T
  <2>1. T \in SUBSET Nat
    OBVIOUS
  <2> HIDE DEF T
  <2>2. T = Nat
    BY <1>3, <1>4, <2>1, AllNumbers
  <2> QED
    BY <1>1, <2>2
<1>6. PICK g : Solves(g, Len(s))
  BY <1>5
<1> DEFINE P(h) == h = [S \in SUBSET DOMAIN s |-> At(h, S)]
           iter == CHOOSE h : P(h)
<1>7. P(iter)
  <2>1. P(g)
    BY <1>1, <1>6
  <2> HIDE DEF P
  <2> QED
    BY <2>1, Zenon
<1>8. AfterGroups(base, s, line, n) = iter[DOMAIN s]
  BY Zenon DEF AfterGroups, FoldLeft, MapThenFoldSet
<1> HIDE DEF iter
<1> DEFINE f == [k \in 0..Len(s) |-> iter[1..k]]
<1>9. f[0] = base
  <2>1. f[0] = iter[1..0]
    BY <1>1
  <2>2. 1..0 = {} /\ {} \in SUBSET DOMAIN s
    OBVIOUS
  <2>3. iter[{}] = base
    BY <1>7, <2>2
  <2> QED
    BY <2>1, <2>2, <2>3
<1>10. ASSUME NEW k \in 1..Len(s)
       PROVE  f[k] = OnGroup(f[k - 1], s[k], line, n)
  <2>1. f[k] = iter[1..k] /\ f[k - 1] = iter[1..(k - 1)]
    BY <1>1
  <2>2. 1..k \in SUBSET DOMAIN s /\ 1..k # {} /\ (1..k) \ {k} = 1..(k - 1)
    <3>1. k \in Nat /\ k \in 1..k /\ k <= Len(s)
      BY <1>1
    <3>2. 1..k \in SUBSET (1..Len(s))
      BY <1>1, <3>1
    <3>3. (1..k) \ {k} = 1..(k - 1)
      BY <3>1
    <3> QED
      BY <1>1, <3>1, <3>2, <3>3
  <2>3. Max(1..k) = k
    <3>1. k \in Nat /\ k \in 1..k /\ 1..k \in SUBSET (1..k)
      BY <1>1
    <3>2. Max(1..k) \in 1..k /\ Max(1..k) >= k
      BY <3>1, GreatestIsMax
    <3> QED
      BY <3>1, <3>2
  <2>4. iter[1..k] = At(iter, 1..k)
    <3> HIDE DEF At
    <3> QED
      BY <1>7, <2>2
  <2> HIDE DEF f
  <2> QED
    BY <2>1, <2>2, <2>3, <2>4
<1>11. f[Len(s)] = iter[DOMAIN s]
  BY <1>1
<1> HIDE DEF f
<1>12. Buffers(f, base, s, line, n)
  BY <1>9, <1>10, Zenon DEF Buffers
<1> QED
  BY <1>8, <1>11, <1>12

FindingTypes == [kind : Keywords, begin : Nat, end : Nat \union {NoLine}]

\* A finding that covers line n of its file.
CoversLine(f, n) == f.begin <= n /\ n <= IF f.end = NoLine THEN f.begin ELSE f.end

\* What one group does: a full one empties the buffer and is reported, with the lines buffered
\* before it; the other kind is kept.
LEMMA OneGroup ==
  ASSUME NEW b, b.out \in Seq(FindingTypes), NEW line, NEW n \in Nat, NEW group \in GroupTypes,
         b.text # <<>> => b.from \in Nat /\ b.from <= n
  PROVE  /\ OnGroup(b, group, line, n).out \in Seq(FindingTypes)
         /\ group.full => /\ OnGroup(b, group, line, n).text = <<>>
                          /\ \E f \in ToSet(OnGroup(b, group, line, n).out) : CoversLine(f, n)
         /\ ~group.full => OnGroup(b, group, line, n) = Keep(b, line, n)
<1>1. CASE group.full
  <2> DEFINE f == IF b.text = <<>> THEN Finding(group.kind, n, NoLine)
                                   ELSE Finding(group.kind, b.from, n)
             out == Append(b.out, f)
  <2>1. OnGroup(b, group, line, n) = Buffer(<<>>, b.from, out)
    BY <1>1 DEF OnGroup, Report
  <2>2. OnGroup(b, group, line, n).text = <<>> /\ OnGroup(b, group, line, n).out = out
    <3> HIDE DEF out
    <3> QED
      BY <2>1 DEF Buffer
  <2>3. f \in FindingTypes /\ CoversLine(f, n)
    BY NoLineAssumption DEF Finding, FindingTypes, CoversLine, GroupTypes
  <2> HIDE DEF f
  <2>4. out \in Seq(FindingTypes) /\ Len(out) = Len(b.out) + 1 /\ out[Len(b.out) + 1] = f
    BY <2>3, AppendProperties
  <2> HIDE DEF out
  <2>5. f \in ToSet(out)
    BY <2>4 DEF ToSet
  <2> QED
    BY <1>1, <2>2, <2>3, <2>4, <2>5
<1>2. CASE ~group.full
  <2>1. OnGroup(b, group, line, n) = Keep(b, line, n) /\ Keep(b, line, n).out = b.out
    BY <1>2 DEF OnGroup, Keep, Buffer
  <2> QED
    BY <1>2, <2>1
<1> QED
  BY <1>1, <1>2

\* The groups of a line, behind what is buffered: all but the last are full.
LEMMA AllGroups ==
  ASSUME NEW base, base.out = <<>>, NEW line, NEW n \in Nat, NEW s \in Seq(GroupTypes), s # <<>>,
         base.text # <<>> => base.from \in Nat /\ base.from <= n,
         \A k \in 1..(Len(s) - 1) : s[k].full,
         NEW f, Buffers(f, base, s, line, n)
  PROVE  /\ f[Len(s)].out \in Seq(FindingTypes)
         /\ \/ f[Len(s)].text = <<>>
            \/ f[Len(s)].text = base.text \o line
               /\ f[Len(s)].from = IF base.text = <<>> THEN n ELSE base.from
            \/ f[Len(s)].text = <<>> \o line /\ f[Len(s)].from = n
         /\ (\E k \in 1..Len(s) : s[k].full) =>
              \E g \in ToSet(f[Len(s)].out) : CoversLine(g, n)
<1> DEFINE N == Len(s)
           Done(k) == /\ f[k].out \in Seq(FindingTypes)
                      /\ k = 0 => f[k] = base
                      /\ k > 0 => /\ f[k].text = <<>>
                                  /\ \E g \in ToSet(f[k].out) : CoversLine(g, n)
           T == {k \in Nat : k < N => Done(k)}
<1>1. N \in Nat \ {0} /\ \A k \in 1..N : s[k] \in GroupTypes
  OBVIOUS
<1>2. ASSUME NEW k \in Nat, k < N, Done(k)
      PROVE  /\ f[k + 1].out \in Seq(FindingTypes)
             /\ s[k + 1].full => /\ f[k + 1].text = <<>>
                                 /\ \E g \in ToSet(f[k + 1].out) : CoversLine(g, n)
             /\ ~s[k + 1].full => f[k + 1] = Keep(f[k], line, n)
  <2> DEFINE a == f[k]
             r == f[k + 1]
             group == s[k + 1]
  <2>1. k + 1 \in 1..N /\ (k + 1) - 1 = k
    BY <1>1, <1>2
  <2>2. r = OnGroup(a, group, line, n) /\ group \in GroupTypes
    <3>1. r = OnGroup(f[(k + 1) - 1], group, line, n)
      BY <2>1, Zenon DEF Buffers
    <3> QED
      BY <1>1, <2>1, <3>1
  <2>3. a.out \in Seq(FindingTypes) /\ (a.text # <<>> => a.from \in Nat /\ a.from <= n)
    BY <1>2
  <2> HIDE DEF a, r, group
  <2>4. /\ r.out \in Seq(FindingTypes)
        /\ group.full => r.text = <<>> /\ \E g \in ToSet(r.out) : CoversLine(g, n)
        /\ ~group.full => r = Keep(a, line, n)
    BY <2>2, <2>3, OneGroup
  <2> QED
    BY <2>4 DEF a, r, group
<1>3. 0 \in T
  <2>1. f[0] = base
    BY DEF Buffers
  <2>2. base.out \in Seq(FindingTypes)
    <3>1. <<>> \in Seq(FindingTypes)
      OBVIOUS
    <3> QED
      BY <3>1, Zenon
  <2>3. f[0].out \in Seq(FindingTypes)
    BY <2>1, <2>2, Zenon
  <2>4. Done(0)
    <3>1. ~(0 > 0)
      OBVIOUS
    <3> QED
      BY <2>1, <2>3, <3>1, Zenon
  <2> HIDE DEF Done
  <2> QED
    BY <2>4
<1>4. ASSUME NEW k \in T
      PROVE  k + 1 \in T
  <2> SUFFICES ASSUME k + 1 < N PROVE Done(k + 1)
    OBVIOUS
  <2>1. k \in Nat /\ k < N /\ Done(k) /\ k + 1 \in 1..(N - 1)
    BY <1>1
  <2> HIDE DEF Done
  <2>2. /\ f[k + 1].out \in Seq(FindingTypes)
        /\ s[k + 1].full => /\ f[k + 1].text = <<>>
                            /\ \E g \in ToSet(f[k + 1].out) : CoversLine(g, n)
    BY <1>2, <2>1
  <2> QED
    BY <2>1, <2>2 DEF Done
<1>5. N - 1 \in Nat /\ N - 1 < N /\ (N - 1) + 1 = N /\ Done(N - 1)
  <2>1. T \in SUBSET Nat
    OBVIOUS
  <2>2. T = Nat
    <3> HIDE DEF T
    <3> QED
      BY <1>3, <1>4, <2>1, AllNumbers
  <2>3. N - 1 \in Nat /\ N - 1 \in T
    BY <1>1, <2>2
  <2> HIDE DEF Done
  <2> QED
    BY <1>1, <2>3
<1> DEFINE a == f[N - 1]
           r == f[N]
<1>6. /\ a.out \in Seq(FindingTypes)
      /\ N - 1 = 0 => a = base
      /\ N - 1 > 0 => a.text = <<>> /\ \E g \in ToSet(a.out) : CoversLine(g, n)
  BY <1>5
<1>7. /\ r.out \in Seq(FindingTypes)
      /\ s[N].full => r.text = <<>> /\ \E g \in ToSet(r.out) : CoversLine(g, n)
      /\ ~s[N].full => r = Keep(a, line, n)
  <2> HIDE DEF Done
  <2> QED
    BY <1>2, <1>5
<1> HIDE DEF a, r, Done, T
<1>8. CASE s[N].full
  BY <1>7, <1>8 DEF r
<1>9. CASE ~s[N].full
  <2>1. /\ r.out = a.out /\ r.text = a.text \o line
        /\ r.from = IF a.text = <<>> THEN n ELSE a.from
    BY <1>7, <1>9 DEF Keep, Buffer
  <2>2. CASE N - 1 = 0
    <3>1. ~\E k \in 1..N : s[k].full
      <4> HIDE DEF N
      <4>1. \A k \in 1..N : k = N
        BY <1>1, <2>2
      <4> QED
        BY <1>9, <4>1
    <3> QED
      BY <1>6, <1>7, <2>1, <2>2, <3>1 DEF r
  <2>3. CASE N - 1 > 0
    BY <1>6, <1>7, <2>1, <2>3 DEF r
  <2> QED
    BY <1>5, <2>2, <2>3
<1> QED
  BY <1>8, <1>9

LEMMA OnLineIs ==
  ASSUME NEW b, b.text \in Seq(Symbols), NEW line \in Seq(Symbols), NEW n \in Nat,
         b.text # <<>> => b.from \in Nat /\ b.from <= n
  PROVE  /\ OnLine(b, line, n).out \in Seq(FindingTypes)
         /\ \/ OnLine(b, line, n).text = <<>>
            \/ OnLine(b, line, n).text = b.text \o line
               /\ OnLine(b, line, n).from = IF b.text = <<>> THEN n ELSE b.from
            \/ OnLine(b, line, n).text = line /\ OnLine(b, line, n).from = n
         /\ HasSecret(line) => \E f \in ToSet(OnLine(b, line, n).out) : CoversLine(f, n)
<1> DEFINE s == Groups(b.text \o line)
           base == Buffer(b.text, b.from, <<>>)
<1>1. b.text \o line \in Seq(Symbols) /\ <<>> \o line = line
  OBVIOUS
<1>2. /\ s \in Seq(GroupTypes) /\ \A k \in 1..(Len(s) - 1) : s[k].full
      /\ HasSecret(line) => \E k \in 1..Len(s) : s[k].full
  BY <1>1, GroupsOf, SecretIsMatched
<1>3. base.text = b.text /\ base.from = b.from /\ base.out = <<>>
  BY DEF Buffer
<1> HIDE DEF s, base
<1>4. CASE s = <<>>
  <2>1. OnLine(b, line, n) = Buffer(<<>>, b.from, <<>>)
    BY <1>4 DEF OnLine, s
  <2>2. ~HasSecret(line)
    BY <1>2, <1>4
  <2> QED
    BY <2>1, <2>2 DEF Buffer
<1>5. CASE s # <<>>
  <2>1. PICK f : Buffers(f, base, s, line, n) /\ AfterGroups(base, s, line, n) = f[Len(s)]
    BY <1>2, FoldIs
  <2>2. OnLine(b, line, n) = f[Len(s)]
    <3>1. OnLine(b, line, n) = AfterGroups(base, s, line, n)
      BY <1>5, Zenon DEF OnLine, AfterGroups, s, base
    <3> QED
      BY <2>1, <3>1
  <2>3. base.text # <<>> => base.from \in Nat /\ base.from <= n
    BY <1>3
  <2>4. /\ f[Len(s)].out \in Seq(FindingTypes)
        /\ \/ f[Len(s)].text = <<>>
           \/ f[Len(s)].text = base.text \o line
              /\ f[Len(s)].from = IF base.text = <<>> THEN n ELSE base.from
           \/ f[Len(s)].text = <<>> \o line /\ f[Len(s)].from = n
        /\ (\E k \in 1..Len(s) : s[k].full) =>
             \E g \in ToSet(f[Len(s)].out) : CoversLine(g, n)
    BY <1>2, <1>3, <1>5, <2>1, <2>3, AllGroups
  <2> QED
    BY <1>1, <1>2, <1>3, <2>2, <2>4
<1> QED
  BY <1>4, <1>5

-----------------------------------------------------------------------------
(* Lines put together.                                                     *)

\* f[i] is the first i lines of s put together.
Flattened(f, s, i) == IF i = 1 THEN s[i] ELSE f[i - 1] \o s[i]
Flattening(f, s) == f = [i \in 1..Len(s) |-> Flattened(f, s, i)]

\* The recursion of FlattenSeq ends.
LEMMA FlattenIs ==
  ASSUME NEW S, NEW s \in Seq(S), s # <<>>
  PROVE  \E f : Flattening(f, s) /\ FlattenSeq(s) = f[Len(s)]
<1> DEFINE Solves(f, k) == f = [i \in 1..k |-> Flattened(f, s, i)]
           T == {k \in Nat : \E f : Solves(f, k)}
<1>1. Len(s) \in Nat \ {0}
  OBVIOUS
<1>2. 0 \in T
  <2>1. Solves([i \in 1..0 |-> 0], 0)
    <3>1. 1..0 = {}
      OBVIOUS
    <3> QED
      BY <3>1
  <2> QED
    BY <2>1
<1>3. ASSUME NEW k \in T
      PROVE  k + 1 \in T
  <2>1. PICK f : Solves(f, k)
    OBVIOUS
  <2> DEFINE g == [i \in 1..(k + 1) |-> Flattened(f, s, i)]
  <2>2. \A i \in 1..k : i \in 1..(k + 1) /\ f[i] = Flattened(f, s, i) /\ g[i] = Flattened(f, s, i)
    <3>1. \A i \in 1..k : i \in 1..(k + 1)
      OBVIOUS
    <3>2. \A i \in 1..k : f[i] = Flattened(f, s, i)
      BY <2>1
    <3> QED
      BY <3>1, <3>2
  <2>3. ASSUME NEW i \in 1..(k + 1)
        PROVE  Flattened(f, s, i) = Flattened(g, s, i)
    <3>1. CASE i = 1
      BY <3>1 DEF Flattened
    <3>2. CASE i # 1
      <4>1. i - 1 \in 1..k
        BY <3>2
      <4>2. f[i - 1] = g[i - 1]
        <5> HIDE DEF g
        <5> QED
          BY <2>2, <4>1
      <4> HIDE DEF g
      <4> QED
        BY <3>2, <4>2 DEF Flattened
    <3> QED
      BY <3>1, <3>2
  <2>4. Solves(g, k + 1)
    <3>1. g = [i \in 1..(k + 1) |-> Flattened(f, s, i)]
      OBVIOUS
    <3> HIDE DEF g
    <3> QED
      BY <2>3, <3>1, Zenon
  <2>5. k + 1 \in Nat
    OBVIOUS
  <2> HIDE DEF g, Solves
  <2> QED
    BY <2>4, <2>5
<1>4. Len(s) \in T
  <2>1. T \in SUBSET Nat
    OBVIOUS
  <2> HIDE DEF T
  <2>2. T = Nat
    BY <1>2, <1>3, <2>1, AllNumbers
  <2> QED
    BY <1>1, <2>2
<1> DEFINE flatten == CHOOSE f : f = [i \in 1..Len(s) |-> IF i = 1 THEN s[i] ELSE f[i - 1] \o s[i]]
<1>5. Flattening(flatten, s)
  <2>1. PICK f : Solves(f, Len(s))
    BY <1>4
  <2>2. f = [i \in 1..Len(s) |-> IF i = 1 THEN s[i] ELSE f[i - 1] \o s[i]]
    BY <2>1, Zenon DEF Flattened
  <2>3. flatten = [i \in 1..Len(s) |-> IF i = 1 THEN s[i] ELSE flatten[i - 1] \o s[i]]
    BY <2>2, Zenon
  <2> HIDE DEF flatten
  <2> QED
    BY <2>3, Zenon DEF Flattening, Flattened
<1>6. FlattenSeq(s) = flatten[Len(s)]
  <2>1. Len(s) # 0
    BY <1>1
  <2> QED
    BY <2>1, Zenon DEF FlattenSeq
<1> QED
  BY <1>5, <1>6

\* One more line is put behind those before it.
LEMMA FlattenLonger ==
  ASSUME NEW S, NEW s \in Seq(S), s # <<>>, NEW t \in Seq(S), Len(t) = Len(s) + 1,
         \A i \in 1..Len(s) : t[i] = s[i]
  PROVE  FlattenSeq(t) = FlattenSeq(s) \o t[Len(t)]
<1>1. Len(s) \in Nat \ {0} /\ t # <<>>
  OBVIOUS
<1>2. PICK f : Flattening(f, s) /\ FlattenSeq(s) = f[Len(s)]
  BY FlattenIs
<1>3. PICK g : Flattening(g, t) /\ FlattenSeq(t) = g[Len(t)]
  BY <1>1, FlattenIs
<1>4. \A i \in 1..Len(s) : f[i] = Flattened(f, s, i)
  BY <1>2 DEF Flattening
<1>5. \A i \in 1..Len(t) : g[i] = Flattened(g, t, i)
  BY <1>3 DEF Flattening
<1> DEFINE T == {k \in Nat : k + 1 <= Len(s) => f[k + 1] = g[k + 1]}
<1>6. 0 \in T
  <2>1. 1 \in 1..Len(s) /\ 1 \in 1..Len(t)
    BY <1>1
  <2>2. f[1] = s[1] /\ g[1] = t[1]
    BY <1>4, <1>5, <2>1 DEF Flattened
  <2> QED
    BY <2>1, <2>2
<1>7. ASSUME NEW k \in T
      PROVE  k + 1 \in T
  <2> DEFINE i == (k + 1) + 1
  <2> SUFFICES ASSUME i <= Len(s) PROVE f[i] = g[i]
    OBVIOUS
  <2>1. i \in 1..Len(s) /\ i \in 1..Len(t) /\ i # 1 /\ i - 1 = k + 1
    BY <1>1
  <2>2. f[k + 1] = g[k + 1]
    BY <1>1
  <2> HIDE DEF i
  <2>3. f[i] = f[k + 1] \o s[i] /\ g[i] = g[k + 1] \o t[i]
    BY <1>4, <1>5, <2>1 DEF Flattened
  <2> QED
    BY <2>1, <2>2, <2>3
<1>8. f[Len(s)] = g[Len(s)]
  <2>1. T \in SUBSET Nat
    OBVIOUS
  <2>2. T = Nat
    <3> HIDE DEF T
    <3> QED
      BY <1>6, <1>7, <2>1, AllNumbers
  <2>3. Len(s) - 1 \in T /\ (Len(s) - 1) + 1 = Len(s)
    <3> HIDE DEF T
    <3> QED
      BY <1>1, <2>2
  <2> QED
    BY <1>1, <2>3
<1>9. Len(t) \in 1..Len(t) /\ Len(t) # 1 /\ Len(t) - 1 = Len(s)
  BY <1>1
<1>10. g[Len(t)] = g[Len(s)] \o t[Len(t)]
  BY <1>5, <1>9 DEF Flattened
<1> QED
  BY <1>2, <1>3, <1>8, <1>10

\* The lines from m to n of a file put together.
TextOf(lines, m, n) == FlattenSeq([k \in 1..(n - m + 1) |-> lines[m + k - 1]])

LEMMA TextOfOne ==
  ASSUME NEW lines, NEW n \in Nat
  PROVE  TextOf(lines, n, n) = lines[n]
<1> DEFINE s == [k \in 1..(n - n + 1) |-> lines[n + k - 1]]
<1>1. n - n + 1 = 1 /\ n + 1 - 1 = n
  OBVIOUS
<1>2. s \in Seq({lines[n]}) /\ Len(s) = 1 /\ s[1] = lines[n]
  BY <1>1
<1> HIDE DEF s
<1>3. PICK f : Flattening(f, s) /\ FlattenSeq(s) = f[Len(s)]
  BY <1>2, FlattenIs
<1>4. f[1] = s[1]
  <2>1. 1 \in 1..Len(s)
    BY <1>2
  <2> QED
    BY <1>3, <2>1 DEF Flattening, Flattened
<1> QED
  BY <1>2, <1>3, <1>4 DEF TextOf, s

LEMMA TextOfMore ==
  ASSUME NEW S, NEW lines, NEW n \in Nat, NEW m \in 1..n,
         \A k \in m..(n + 1) : lines[k] \in S
  PROVE  TextOf(lines, m, n + 1) = TextOf(lines, m, n) \o lines[n + 1]
<1> DEFINE s == [k \in 1..(n - m + 1) |-> lines[m + k - 1]]
           t == [k \in 1..((n + 1) - m + 1) |-> lines[m + k - 1]]
<1>1. \A k \in 1..((n + 1) - m + 1) : m + k - 1 \in m..(n + 1)
  OBVIOUS
<1>2. n - m + 1 \in Nat \ {0} /\ (n + 1) - m + 1 = (n - m + 1) + 1
      /\ m + ((n + 1) - m + 1) - 1 = n + 1
  OBVIOUS
<1>3. s \in Seq(S) /\ Len(s) = n - m + 1 /\ s # <<>>
  BY <1>1, <1>2
<1>4. t \in Seq(S) /\ Len(t) = (n + 1) - m + 1 /\ t[Len(t)] = lines[n + 1]
  BY <1>1, <1>2
<1>5. \A i \in 1..Len(s) : t[i] = s[i]
  BY <1>1, <1>2, <1>3
<1> HIDE DEF s, t
<1>6. Len(t) = Len(s) + 1
  BY <1>2, <1>3, <1>4
<1>7. FlattenSeq(t) = FlattenSeq(s) \o t[Len(t)]
  BY <1>3, <1>4, <1>5, <1>6, FlattenLonger
<1> QED
  BY <1>4, <1>7 DEF TextOf, s, t

-----------------------------------------------------------------------------
(* The walk.                                                               *)

\* Where the walk does not go on with the next entry.
Skipped(j) == tree[j].kind \in {"git", "badDir"}

\* Nothing that is skipped reaches as far as entry i.
Past(i) == \A j \in DOMAIN tree : j < i /\ Skipped(j) => NextEntry(j) <= i

\* The walker is outside of what it has skipped, and works on a file while there is a finding
\* to send.
WalkerInv ==
  /\ tree \in Trees
  /\ entry \in Nat \ {0}
  /\ Past(entry)
  /\ pc = "lines" => entry \in DOMAIN tree /\ tree[entry].kind = "file"
  /\ buffer.out # <<>> => pc = "lines"

FindingsInv ==
  /\ findings \in Seq(ToSet(findings))
  /\ \A f \in ToSet(findings) : f.entry \in DOMAIN tree /\ Scanned(f.entry)

FinderInv == WalkerInv /\ FindingsInv

\* The elements of a sequence that has grown by one.
LEMMA GrownSet ==
  ASSUME NEW s, s \in Seq(ToSet(s)), NEW e
  PROVE  /\ Append(s, e) \in Seq(ToSet(Append(s, e)))
         /\ ToSet(Append(s, e)) = ToSet(s) \union {e}
<1> DEFINE S == ToSet(s) \union {e}
           t == Append(s, e)
<1>1. s \in Seq(S) /\ e \in S
  BY SeqMonotonic
<1> HIDE DEF S
<1>2. /\ t \in Seq(S) /\ Len(t) = Len(s) + 1 /\ t[Len(s) + 1] = e
      /\ \A i \in 1..Len(s) : t[i] = s[i]
  BY <1>1, AppendProperties
<1>3. /\ DOMAIN s = 1..Len(s) /\ DOMAIN t = 1..Len(t) /\ Len(s) \in Nat
  BY <1>1, <1>2, LenProperties
<1>4. ToSet(t) = S
  <2> HIDE DEF t
  <2>1. ToSet(t) \subseteq S
    BY <1>2, <1>3, ElementOfSeq DEF ToSet
  <2>2. \A x \in S : x \in ToSet(t)
    BY <1>2, <1>3 DEF S, ToSet
  <2> QED
    BY <2>1, <2>2
<1> QED
  BY <1>2, <1>4 DEF S

LEMMA FinderInvInit == FinderInit => FinderInv
<1> SUFFICES ASSUME FinderInit PROVE FinderInv
  OBVIOUS
<1>1. tree \in Trees
  BY CheckoutsAssumption DEF FinderInit
<1>2. WalkerInv
  <2>1. Past(1)
    BY <1>1 DEF Past, Trees
  <2> QED
    BY <1>1, <2>1 DEF FinderInit, WalkerInv, EmptyBuffer, Buffer
<1>3. FindingsInv
  <2>1. ToSet(<<>>) = {}
    BY DEF ToSet
  <2> QED
    BY <2>1 DEF FinderInit, FindingsInv
<1> QED
  BY <1>2, <1>3 DEF FinderInv

LEMMA TreesAre ==
  ASSUME tree \in Trees
  PROVE  /\ Len(tree) \in Nat /\ DOMAIN tree = 1..Len(tree)
         /\ \A i \in DOMAIN tree : tree[i].last \in i..Len(tree)
         /\ \A i \in DOMAIN tree : \A j \in i..tree[i].last : tree[j].last <= tree[i].last
         /\ \A i \in DOMAIN tree : tree[i].kind = "noRoot" => Len(tree) = 1
BY DEF Trees

\* BehindParent is behind a directory that the entry is in, the innermost, or the end.
LEMMA BehindParentIs ==
  ASSUME tree \in Trees, NEW i \in DOMAIN tree
  PROVE  /\ BehindParent(i) \in (i + 1)..(Len(tree) + 1)
         /\ \/ BehindParent(i) = Len(tree) + 1
            \/ /\ Above(i) # {}
               /\ BehindParent(i) = tree[Max(Above(i))].last + 1
               /\ Max(Above(i)) \in Above(i)
               /\ \A d \in Above(i) : d <= Max(Above(i))
<1>1. Len(tree) \in Nat /\ DOMAIN tree = 1..Len(tree)
  BY TreesAre
<1>2. i - 1 \in Nat /\ Above(i) \in SUBSET (1..(i - 1))
  BY <1>1 DEF Above
<1>3. CASE Above(i) = {}
  BY <1>1, <1>3 DEF BehindParent
<1>4. CASE Above(i) # {}
  <2> DEFINE d == Max(Above(i))
  <2>1. d \in Above(i) /\ \A j \in Above(i) : d >= j
    BY <1>2, <1>4, GreatestIsMax
  <2>2. BehindParent(i) = tree[d].last + 1
    BY <1>4 DEF BehindParent
  <2> HIDE DEF d
  <2>3. d \in DOMAIN tree /\ i <= tree[d].last
    BY <1>1, <1>2, <2>1 DEF Above
  <2>4. tree[d].last \in d..Len(tree)
    BY <2>3, TreesAre
  <2>5. \A j \in Above(i) : j <= d
    BY <1>2, <2>1
  <2> QED
    BY <1>1, <1>4, <2>1, <2>2, <2>3, <2>4, <2>5 DEF d
<1> QED
  BY <1>3, <1>4

\* Within a directory nothing is skipped that is not in it.
LEMMA SkipsWithin ==
  ASSUME tree \in Trees, NEW d \in DOMAIN tree, NEW j \in DOMAIN tree,
         d < j, j <= tree[d].last, Skipped(j)
  PROVE  NextEntry(j) <= tree[d].last + 1
<1>1. /\ Len(tree) \in Nat /\ DOMAIN tree = 1..Len(tree)
      /\ \A i \in DOMAIN tree : tree[i].last \in i..Len(tree)
      /\ \A i \in d..tree[d].last : tree[i].last <= tree[d].last
  BY TreesAre
<1>2. CASE tree[j].kind = "git"
  <2>1. NextEntry(j) = tree[j].last + 1
    BY <1>2 DEF NextEntry
  <2> QED
    BY <1>1, <2>1
<1>3. CASE tree[j].kind = "badDir"
  <2>1. NextEntry(j) = BehindParent(j)
    BY <1>3 DEF NextEntry
  <2>2. d \in Above(j)
    BY <1>1 DEF Above
  <2>3. CASE BehindParent(j) = Len(tree) + 1 /\ Above(j) = {}
    BY <2>2, <2>3
  <2>4. CASE Above(j) # {}
    <3> DEFINE m == Max(Above(j))
    <3>1. BehindParent(j) = tree[m].last + 1
      BY <2>4 DEF BehindParent
    <3>2. Above(j) \in SUBSET (1..(j - 1)) /\ j - 1 \in Nat
      BY <1>1 DEF Above
    <3>3. m \in Above(j) /\ \A x \in Above(j) : m >= x
      BY <2>4, <3>2, GreatestIsMax
    <3> HIDE DEF m
    <3>4. m \in 1..(j - 1) /\ m >= d
      BY <2>2, <3>2, <3>3
    <3>5. m \in d..tree[d].last /\ m \in DOMAIN tree
      BY <1>1, <3>4
    <3> QED
      BY <1>1, <2>1, <3>1, <3>5
  <2> QED
    BY <2>2, <2>4
<1> QED
  BY <1>2, <1>3 DEF Skipped

\* Going on leaves the walker outside of what it has skipped.
LEMMA WalkOn ==
  ASSUME tree \in Trees, entry \in DOMAIN tree, Past(entry), UNCHANGED tree,
         entry' = NextEntry(entry)
  PROVE  Past(entry)' /\ NextEntry(entry) \in (entry + 1)..(Len(tree) + 1)
<1> DEFINE i == NextEntry(entry)
<1>1. /\ Len(tree) \in Nat /\ DOMAIN tree = 1..Len(tree)
      /\ \A j \in DOMAIN tree : tree[j].last \in j..Len(tree)
  BY TreesAre
<1>2. \A j \in DOMAIN tree : BehindParent(j) \in (j + 1)..(Len(tree) + 1)
  BY BehindParentIs
<1>3. \A j \in DOMAIN tree : NextEntry(j) \in (j + 1)..(Len(tree) + 1)
  BY <1>1, <1>2 DEF NextEntry
<1>4. i = Len(tree) + 1 \/ i = entry + 1
      \/ \E d \in DOMAIN tree : d <= entry /\ entry <= tree[d].last /\ i = tree[d].last + 1
  <2>1. CASE tree[entry].kind = "git"
    BY <1>1, <2>1 DEF NextEntry
  <2>2. CASE tree[entry].kind \in {"noRoot", "badDir"}
    <3>1. i = BehindParent(entry)
      BY <2>2 DEF NextEntry
    <3>2. CASE BehindParent(entry) = tree[Max(Above(entry))].last + 1 /\ Max(Above(entry)) \in Above(entry)
      <4> DEFINE d == Max(Above(entry))
      <4>1. d \in Above(entry) /\ i = tree[d].last + 1
        BY <3>1, <3>2
      <4> HIDE DEF d
      <4>2. d \in DOMAIN tree /\ d <= entry /\ entry <= tree[d].last
        BY <1>1, <4>1 DEF Above
      <4> QED
        BY <4>1, <4>2
    <3> QED
      BY <3>1, <3>2, BehindParentIs
  <2>3. CASE tree[entry].kind \notin {"git", "noRoot", "badDir"}
    BY <2>3 DEF NextEntry
  <2> QED
    BY <2>1, <2>2, <2>3
<1>5. i \in (entry + 1)..(Len(tree) + 1)
  BY <1>3
<1> HIDE DEF i
<1>6. ASSUME NEW j \in DOMAIN tree, j < i, Skipped(j)
      PROVE  NextEntry(j) <= i
  <2>1. NextEntry(j) \in (j + 1)..(Len(tree) + 1) /\ entry \in Nat /\ j \in Nat /\ i \in Nat
    BY <1>1, <1>3, <1>5
  <2>2. CASE j < entry
    <3>1. NextEntry(j) <= entry
      BY <1>6, <2>2 DEF Past
    <3> QED
      BY <1>5, <2>1, <3>1
  <2>3. CASE j = entry
    BY <2>1, <2>3 DEF i
  <2>4. CASE j > entry
    <3>1. CASE i = Len(tree) + 1
      BY <1>1, <2>1, <3>1
    <3>2. ASSUME NEW d \in DOMAIN tree, d <= entry, i = tree[d].last + 1
          PROVE  NextEntry(j) <= i
      <4>1. d < j /\ j <= tree[d].last
        BY <1>1, <1>6, <2>1, <2>4, <3>2
      <4> QED
        BY <1>6, <3>2, <4>1, SkipsWithin
    <3> QED
      BY <1>4, <1>6, <2>1, <2>4, <3>1, <3>2
  <2> QED
    BY <2>1, <2>2, <2>3, <2>4
<1>7. \A j \in DOMAIN tree : NextEntry(j)' = NextEntry(j) /\ (Skipped(j)' <=> Skipped(j))
  BY DEF NextEntry, BehindParent, Above, Skipped
<1> QED
  BY <1>5, <1>6, <1>7 DEF Past, i

LEMMA FinderInvNext == FinderInv /\ [FinderNext]_finderVars => FinderInv'
<1> SUFFICES ASSUME FinderInv, [FinderNext]_finderVars PROVE FinderInv'
  OBVIOUS
<1>1. WalkerInv /\ FindingsInv
  BY DEF FinderInv
<1>2. /\ Len(tree) \in Nat /\ DOMAIN tree = 1..Len(tree) /\ entry \in Nat \ {0}
      /\ \A j \in DOMAIN tree : tree[j].last \in Nat
  BY <1>1 DEF WalkerInv, Trees
<1>3. ASSUME UNCHANGED tree
      PROVE  /\ Past(entry) /\ UNCHANGED entry => Past(entry)'
             /\ \A i : Scanned(i)' <=> Scanned(i)
             /\ UNCHANGED findings => FindingsInv'
  <2>1. \A i : (Scanned(i)' <=> Scanned(i)) /\ NextEntry(i)' = NextEntry(i) /\ (Skipped(i)' <=> Skipped(i))
    BY <1>3 DEF Scanned, Below, CutOff, NextEntry, BehindParent, Above, Skipped
  <2>2. UNCHANGED findings => FindingsInv'
    BY <1>1, <1>3, <2>1 DEF FindingsInv
  <2>3. Past(entry) /\ UNCHANGED entry => Past(entry)'
    BY <1>3, <2>1 DEF Past
  <2> QED
    BY <2>1, <2>2, <2>3
<1>4. ASSUME Visit
      PROVE  FinderInv'
  <2>1. /\ pc = "walk" /\ entry \in DOMAIN tree /\ UNCHANGED <<tree, content, findings, returned>>
    BY <1>2, <1>4 DEF Visit
  <2>2. CASE tree[entry].kind = "file"
    BY <1>1, <1>3, <1>4, <2>1, <2>2 DEF Visit, FinderInv, WalkerInv, EmptyBuffer, Buffer
  <2>3. CASE tree[entry].kind # "file"
    <3>1. entry' = NextEntry(entry) /\ UNCHANGED <<pc, buffer>>
      BY <1>4, <2>3 DEF Visit
    <3>2. Past(entry)' /\ NextEntry(entry) \in (entry + 1)..(Len(tree) + 1)
      BY <1>1, <2>1, <3>1, WalkOn DEF WalkerInv
    <3>3. NextEntry(entry) \in Nat \ {0}
      BY <1>2, <3>2
    <3> QED
      BY <1>1, <1>3, <2>1, <3>1, <3>2, <3>3 DEF FinderInv, WalkerInv
  <2> QED
    BY <2>2, <2>3
<1>5. ASSUME ReadLine
      PROVE  FinderInv'
  BY <1>1, <1>3, <1>5 DEF ReadLine, FinderInv, WalkerInv
<1>6. ASSUME SendFinding
      PROVE  FinderInv'
  <2> DEFINE out == Head(buffer.out)
             f == [entry |-> entry, kind |-> out.kind, begin |-> out.begin, end |-> out.end]
  <2>1. /\ findings' = Append(findings, f) /\ buffer.out # <<>>
        /\ UNCHANGED <<tree, content, entry, pc, lineCnt, returned>>
    BY <1>6 DEF SendFinding
  <2>2. f.entry = entry
    OBVIOUS
  <2>3. pc = "lines" /\ entry \in DOMAIN tree /\ tree[entry].kind = "file"
    BY <1>1, <2>1 DEF WalkerInv
  <2>4. Scanned(entry)
    <3>1. \A j \in 1..entry : Skipped(j) => j < entry /\ NextEntry(j) <= entry
      BY <1>1, <1>2, <2>3 DEF WalkerInv, Past, Skipped
    <3>2. ASSUME NEW j \in 1..entry, tree[j].kind = "git"
          PROVE  ~(entry <= tree[j].last)
      <4>1. NextEntry(j) = tree[j].last + 1 /\ Skipped(j) /\ j \in DOMAIN tree
        BY <1>2, <2>3, <3>2 DEF NextEntry, Skipped
      <4> QED
        BY <1>2, <3>1, <4>1
    <3>3. ASSUME NEW j \in 1..entry, tree[j].kind = "badDir"
          PROVE  ~(entry < BehindParent(j))
      <4>1. NextEntry(j) = BehindParent(j) /\ Skipped(j) /\ j \in DOMAIN tree
        BY <1>2, <2>3, <3>3 DEF NextEntry, Skipped
      <4>2. BehindParent(j) \in Nat
        BY <1>1, <1>2, <4>1, BehindParentIs DEF WalkerInv
      <4> QED
        BY <1>2, <3>1, <4>1, <4>2
    <3> QED
      BY <2>3, <3>2, <3>3 DEF Scanned, Below, CutOff
  <2>5. FindingsInv'
    <3> HIDE DEF f
    <3>1. findings' \in Seq(ToSet(findings')) /\ ToSet(findings') = ToSet(findings) \union {f}
      BY <1>1, <2>1, GrownSet DEF FindingsInv
    <3> QED
      BY <1>1, <2>1, <2>2, <2>3, <2>4, <3>1, <1>3 DEF FindingsInv
  <2>6. WalkerInv'
    BY <1>1, <1>3, <2>1, <2>3 DEF WalkerInv
  <2> QED
    BY <2>5, <2>6 DEF FinderInv
<1>7. ASSUME EndFile
      PROVE  FinderInv'
  <2>1. /\ entry \in DOMAIN tree /\ tree[entry].kind = "file" /\ pc' = "walk" /\ buffer.out = <<>>
        /\ entry' = entry + 1 /\ UNCHANGED <<tree, buffer, findings>>
    BY <1>1, <1>7 DEF EndFile, WalkerInv
  <2>2. NextEntry(entry) = entry + 1
    BY <2>1 DEF NextEntry
  <2>3. Past(entry)'
    BY <1>1, <2>1, <2>2, WalkOn DEF WalkerInv
  <2> QED
    BY <1>1, <1>2, <1>3, <2>1, <2>3 DEF FinderInv, WalkerInv
<1>8. CASE EndWalk
  BY <1>1, <1>3, <1>8 DEF EndWalk, FinderInv, WalkerInv
<1>9. CASE UNCHANGED finderVars
  BY <1>1, <1>3, <1>9 DEF finderVars, FinderInv, WalkerInv
<1> QED
  BY <1>4, <1>5, <1>6, <1>7, <1>8, <1>9 DEF FinderNext

\* Nothing is found below .git, below or behind a directory that cannot be read or without a
\* root: the walk never enters what WalkDirHandler makes it skip, nor comes back to it.
THEOREM OnlyFilesAreSearched == FinderSpec => []OnlyScannedFiles
<1>1. FinderInv => OnlyScannedFiles
  BY DEF FinderInv, FindingsInv, OnlyScannedFiles
<1> QED
  BY <1>1, FinderInvInit, FinderInvNext, PTL DEF FinderSpec

-----------------------------------------------------------------------------
(* What is buffered.                                                       *)

LineTypes == {TooLong} \union Seq(Symbols)

\* Where the walker and the collector stand, and what is buffered: the text of the file from
\* line prevLineCnt on.
LineInv ==
  /\ content \in [DOMAIN tree -> Seq(LineTypes)]
  /\ entry \in 1..(Len(tree) + 1)
  /\ pc \in {"walk", "lines", "ended"}
  /\ returned \in BOOLEAN
  /\ returned => pc = "ended" /\ entry > Len(tree)
  /\ buffer.out \in Seq(FindingTypes)
  /\ pc = "lines" =>
       /\ lineCnt \in 0..Len(Lines)
       /\ buffer.text \in Seq(Symbols)
       /\ buffer.text # <<>> => /\ buffer.from \in 1..lineCnt
                                /\ buffer.text = TextOf(Lines, buffer.from, lineCnt)

LEMMA LineInvInit == FinderInit => LineInv
<1> SUFFICES ASSUME FinderInit PROVE LineInv
  OBVIOUS
<1>1. content \in [DOMAIN tree -> Seq(LineTypes)] /\ Len(tree) \in Nat
  BY CheckoutsAssumption DEF FinderInit, LineTypes, Trees
<1>2. buffer.out = <<>> /\ <<>> \in Seq(FindingTypes)
  BY DEF FinderInit, EmptyBuffer, Buffer
<1>3. entry \in 1..(Len(tree) + 1) /\ pc = "walk" /\ returned = FALSE
  BY <1>1 DEF FinderInit
<1>4. buffer.out \in Seq(FindingTypes)
  BY <1>2, Zenon
<1> QED
  BY <1>1, <1>3, <1>4 DEF LineInv

\* The line that is read next, and what is buffered behind it.
LEMMA NextLine ==
  ASSUME LineInv, entry \in DOMAIN tree, pc = "lines", HasLine
  PROVE  /\ Lines \in Seq(LineTypes)
         /\ lineCnt + 1 \in 1..Len(Lines)
         /\ Lines[lineCnt + 1] \in Seq(Symbols)
         /\ buffer.text # <<>> => buffer.from \in Nat /\ buffer.from <= lineCnt + 1
<1>1. Lines \in Seq(LineTypes)
  BY DEF LineInv, Lines
<1>2. lineCnt \in 0..Len(Lines) /\ (buffer.text # <<>> => buffer.from \in 1..lineCnt)
  BY DEF LineInv
<1>3. Len(Lines) \in Nat /\ lineCnt < Len(Lines) /\ Lines[lineCnt + 1] # TooLong
  BY <1>1 DEF HasLine
<1> HIDE DEF Lines
<1>4. lineCnt + 1 \in 1..Len(Lines)
  BY <1>2, <1>3
<1>5. Lines[lineCnt + 1] \in LineTypes
  BY <1>1, <1>4
<1> QED
  BY <1>1, <1>2, <1>3, <1>4, <1>5 DEF LineTypes

LEMMA LineInvReadLine ==
  ASSUME WalkerInv, LineInv, ReadLine
  PROVE  LineInv'
<1> DEFINE n == lineCnt + 1
           line == Lines[n]
           r == OnLine(buffer, line, n)
<1>1. /\ pc = "lines" /\ entry \in DOMAIN tree /\ HasLine
      /\ lineCnt' = n /\ buffer' = r
      /\ UNCHANGED <<tree, content, entry, pc, findings, returned>>
  BY DEF ReadLine, WalkerInv
<1>2. /\ Lines \in Seq(LineTypes) /\ n \in 1..Len(Lines) /\ line \in Seq(Symbols)
      /\ buffer.text # <<>> => buffer.from \in Nat /\ buffer.from <= n
  BY <1>1, NextLine
<1>3. /\ lineCnt \in 0..Len(Lines) /\ buffer.text \in Seq(Symbols)
      /\ buffer.text # <<>> => /\ buffer.from \in 1..lineCnt
                               /\ buffer.text = TextOf(Lines, buffer.from, lineCnt)
  BY <1>1 DEF LineInv
<1>4. n \in Nat
  BY <1>2
<1> HIDE DEF line, n
<1>5. /\ r.out \in Seq(FindingTypes)
      /\ \/ r.text = <<>>
         \/ r.text = buffer.text \o line
            /\ r.from = IF buffer.text = <<>> THEN n ELSE buffer.from
         \/ r.text = line /\ r.from = n
  BY <1>2, <1>3, <1>4, OnLineIs
<1> HIDE DEF r
<1>6. TextOf(Lines, n, n) = line
  BY <1>4, TextOfOne DEF line
<1>7. ASSUME buffer.text # <<>>
      PROVE  buffer.text \o line = TextOf(Lines, buffer.from, n)
  <2>1. buffer.from \in 1..lineCnt /\ lineCnt \in Nat
    BY <1>3, <1>7
  <2>2. \A k \in buffer.from..n : Lines[k] \in LineTypes
    BY <1>2, <2>1 DEF n
  <2> DEFINE from == buffer.from
             lines == Lines
  <2>3. TextOf(lines, from, lineCnt + 1) = TextOf(lines, from, lineCnt) \o lines[lineCnt + 1]
    <3> HIDE DEF from, lines
    <3>1. from \in 1..lineCnt /\ lineCnt \in Nat
      BY <2>1 DEF from
    <3>2. \A k \in from..(lineCnt + 1) : lines[k] \in LineTypes
      BY <2>2 DEF from, lines, n
    <3> QED
      BY <3>1, <3>2, TextOfMore
  <2> QED
    BY <1>3, <1>7, <2>3 DEF line, n
<1>8. /\ r.text \in Seq(Symbols)
      /\ r.text # <<>> => r.from \in 1..n /\ r.text = TextOf(Lines, r.from, n)
  <2>1. <<>> \in Seq(Symbols) /\ buffer.text \o line \in Seq(Symbols)
    BY <1>2, <1>3
  <2>2. n \in 1..n
    BY <1>2
  <2>3. CASE r.text = <<>>
    BY <2>1, <2>3
  <2>4. CASE r.text = line /\ r.from = n
    BY <1>2, <1>6, <2>2, <2>4
  <2>5. CASE r.text = buffer.text \o line /\ buffer.text = <<>> /\ r.from = n
    <3>1. <<>> \o line = line
      BY <1>2
    <3> QED
      BY <1>2, <1>6, <2>2, <2>5, <3>1
  <2>6. CASE r.text = buffer.text \o line /\ buffer.text # <<>> /\ r.from = buffer.from
    <3>1. buffer.from \in 1..n
      BY <1>3, <2>6 DEF n
    <3> QED
      BY <1>7, <2>1, <2>6, <3>1
  <2> QED
    BY <1>5, <2>3, <2>4, <2>5, <2>6
<1>9. n \in 0..Len(Lines) /\ Lines' = Lines
  BY <1>1, <1>2 DEF Lines
<1> QED
  BY <1>1, <1>5, <1>8, <1>9 DEF LineInv

LEMMA LineInvNext == WalkerInv /\ LineInv /\ [FinderNext]_finderVars => LineInv'
<1> SUFFICES ASSUME WalkerInv, LineInv, [FinderNext]_finderVars PROVE LineInv'
  OBVIOUS
<1>1. /\ Len(tree) \in Nat /\ DOMAIN tree = 1..Len(tree)
      /\ \A i \in DOMAIN tree : tree[i].last \in i..Len(tree)
  BY DEF WalkerInv, Trees
<1>2. ASSUME Visit
      PROVE  LineInv'
  <2>1. /\ pc = "walk" /\ entry \in DOMAIN tree /\ UNCHANGED <<tree, content, findings, returned>>
        /\ ~returned
    BY <1>1, <1>2 DEF Visit, LineInv
  <2>2. CASE tree[entry].kind = "file"
    <3>1. pc' = "lines" /\ lineCnt' = 0 /\ buffer' = EmptyBuffer /\ UNCHANGED entry
      BY <1>2, <2>2 DEF Visit
    <3>2. buffer'.text = <<>> /\ buffer'.out = <<>>
      BY <3>1 DEF EmptyBuffer, Buffer
    <3>3. Lines' = Lines /\ Len(Lines) \in Nat
      BY <2>1, <3>1 DEF Lines, LineInv
    <3>4. <<>> \in Seq(Symbols) /\ <<>> \in Seq(FindingTypes) /\ 0 \in 0..Len(Lines)
      BY <3>3
    <3> HIDE DEF Lines
    <3> QED
      BY <2>1, <3>1, <3>2, <3>3, <3>4 DEF LineInv
  <2>3. CASE tree[entry].kind # "file"
    <3>1. entry' = NextEntry(entry) /\ UNCHANGED <<pc, lineCnt, buffer>>
      BY <1>2, <2>3 DEF Visit
    <3>2. NextEntry(entry) \in 1..(Len(tree) + 1)
      <4>1. NextEntry(entry) \in (entry + 1)..(Len(tree) + 1)
        BY <2>1, <3>1, WalkOn DEF WalkerInv
      <4> QED
        BY <1>1, <2>1, <4>1
    <3> QED
      BY <2>1, <3>1, <3>2 DEF LineInv
  <2> QED
    BY <2>2, <2>3
<1>3. CASE ReadLine
  BY <1>3, LineInvReadLine
<1>4. ASSUME SendFinding
      PROVE  LineInv'
  <2>1. /\ buffer.out # <<>> /\ buffer.out \in Seq(FindingTypes)
        /\ buffer' = [buffer EXCEPT !.out = Tail(@)]
        /\ UNCHANGED <<tree, content, entry, pc, lineCnt, returned>>
    BY <1>4 DEF SendFinding, LineInv
  <2>2. Tail(buffer.out) \in Seq(FindingTypes)
    BY <2>1
  <2> QED
    BY <2>1, <2>2 DEF LineInv, Lines
<1>5. ASSUME EndFile
      PROVE  LineInv'
  <2>1. /\ pc = "lines" /\ pc' = "walk" /\ entry' = entry + 1 /\ entry \in DOMAIN tree
        /\ UNCHANGED <<tree, content, lineCnt, buffer, findings, returned>>
    BY <1>5 DEF EndFile, WalkerInv
  <2>2. entry' \in 1..(Len(tree) + 1) /\ ~returned
    BY <1>1, <2>1 DEF LineInv
  <2> QED
    BY <2>1, <2>2 DEF LineInv
<1>6. CASE EndWalk
  BY <1>6 DEF EndWalk, LineInv
<1>7. CASE UNCHANGED finderVars
  BY <1>7 DEF finderVars, LineInv, Lines
<1> QED
  BY <1>2, <1>3, <1>4, <1>5, <1>6, <1>7 DEF FinderNext

\* Every variable has its type. What is buffered is always the text of the file from line
\* prevLineCnt to the last line read: no line that ScanFile has given up for want of a match,
\* and none of another file, is ever matched with what comes later.
THEOREM FinderTypeCorrect == FinderSpec => []FinderTypeOK
<1>1. LineInv => FinderTypeOK
  BY DEF LineInv, FinderTypeOK, TextOf, Text
<1>2. FinderInit => FinderInv /\ LineInv
  BY FinderInvInit, LineInvInit
<1>3. FinderInv /\ LineInv /\ [FinderNext]_finderVars => FinderInv' /\ LineInv'
  BY FinderInvNext, LineInvNext DEF FinderInv
<1> QED
  BY <1>1, <1>2, <1>3, PTL DEF FinderSpec

-----------------------------------------------------------------------------
(* What is found.                                                          *)

\* The lines of entry i that ScanFile can get to and that have a secret have their findings.
Found(i, n) == \E f \in ToSet(findings) : Covers(f, i, n)
AllFound(i) == \A n \in Reachable(i) : HasSecret(content[i][n]) => Found(i, n)

\* The walker has left no file behind that is to be scanned, and of the file it is at no line:
\* what is found there is collected or about to be sent.
FoundInv ==
  /\ \A i \in DOMAIN tree : i < entry /\ Scanned(i) => AllFound(i)
  /\ pc = "lines" =>
       \A n \in 1..lineCnt : HasSecret(Lines[n]) =>
         Found(entry, n) \/ \E f \in ToSet(buffer.out) : CoversLine(f, n)

LEMMA FoundInvInit == FinderInit => FoundInv
<1> SUFFICES ASSUME FinderInit PROVE FoundInv
  OBVIOUS
<1>1. Len(tree) \in Nat /\ DOMAIN tree = 1..Len(tree)
  BY CheckoutsAssumption DEF FinderInit, Trees
<1>2. entry = 1 /\ pc = "walk"
  BY DEF FinderInit
<1>3. \A i \in DOMAIN tree : ~(i < entry)
  BY <1>1, <1>2
<1> QED
  BY <1>2, <1>3 DEF FoundInv

\* A finding that is collected stays.
LEMMA StillFound ==
  ASSUME UNCHANGED <<tree, content>>, ToSet(findings) \subseteq ToSet(findings')
  PROVE  /\ \A i, n : Found(i, n) => Found(i, n)'
         /\ \A i : AllFound(i) => AllFound(i)'
         /\ \A i : Scanned(i)' <=> Scanned(i)
<1>1. \A i, n : Found(i, n) => Found(i, n)'
  BY DEF Found, Covers
<1>2. \A i : Reachable(i)' = Reachable(i) /\ (Scanned(i)' <=> Scanned(i))
  BY DEF Reachable, Scanned, Below, CutOff, BehindParent, Above
<1>3. \A i : AllFound(i) => AllFound(i)'
  BY <1>1, <1>2 DEF AllFound
<1> QED
  BY <1>1, <1>2, <1>3

\* Nothing that the walk passes over is to be scanned.
LEMMA PassedOver ==
  ASSUME tree \in Trees, entry \in DOMAIN tree, tree[entry].kind # "file",
         NEW i \in DOMAIN tree, entry <= i, i < NextEntry(entry)
  PROVE  ~Scanned(i)
<1>1. /\ Len(tree) \in Nat /\ DOMAIN tree = 1..Len(tree)
      /\ \A j \in DOMAIN tree : tree[j].last \in j..Len(tree)
      /\ tree[entry].kind = "noRoot" => Len(tree) = 1
  BY TreesAre
<1>2. entry \in 1..i
  BY <1>1
<1>3. CASE tree[entry].kind = "noRoot"
  <2>1. i = entry
    BY <1>1, <1>3
  <2> QED
    BY <2>1 DEF Scanned
<1>4. CASE tree[entry].kind = "git"
  <2>1. NextEntry(entry) = tree[entry].last + 1
    BY <1>4 DEF NextEntry
  <2>2. i <= tree[entry].last
    BY <1>1, <2>1
  <2> QED
    BY <1>2, <1>4, <2>2 DEF Scanned, Below
<1>5. CASE tree[entry].kind = "badDir"
  <2>1. i < BehindParent(entry)
    BY <1>5 DEF NextEntry
  <2> QED
    BY <1>2, <1>5, <2>1 DEF Scanned, CutOff
<1>6. CASE tree[entry].kind \notin {"noRoot", "git", "badDir"}
  <2>1. NextEntry(entry) = entry + 1
    BY <1>6 DEF NextEntry
  <2>2. i = entry
    BY <1>1, <2>1
  <2> QED
    BY <2>2 DEF Scanned
<1> QED
  BY <1>3, <1>4, <1>5, <1>6

LEMMA FoundInvReadLine ==
  ASSUME WalkerInv, LineInv, FoundInv, ReadLine
  PROVE  FoundInv'
<1> DEFINE n == lineCnt + 1
           line == Lines[n]
           r == OnLine(buffer, line, n)
<1>1. /\ pc = "lines" /\ entry \in DOMAIN tree /\ HasLine /\ buffer.out = <<>>
      /\ lineCnt' = n /\ buffer' = r
      /\ UNCHANGED <<tree, content, entry, pc, findings, returned>>
  BY DEF ReadLine, WalkerInv
<1>2. /\ Lines \in Seq(LineTypes) /\ n \in 1..Len(Lines) /\ line \in Seq(Symbols)
      /\ buffer.text # <<>> => buffer.from \in Nat /\ buffer.from <= n
  BY <1>1, NextLine
<1>3. /\ lineCnt \in 0..Len(Lines) /\ buffer.text \in Seq(Symbols)
  BY <1>1 DEF LineInv
<1>4. n \in Nat
  BY <1>2
<1>5. HasSecret(line) => \E f \in ToSet(r.out) : CoversLine(f, n)
  <2> HIDE DEF line, n
  <2> QED
    BY <1>2, <1>3, <1>4, OnLineIs
<1> HIDE DEF r, line
<1>6. /\ \A i, k : Found(i, k) => Found(i, k)'
      /\ \A i : AllFound(i) => AllFound(i)'
      /\ \A i : Scanned(i)' <=> Scanned(i)
  BY <1>1, StillFound
<1>7. ToSet(buffer.out) = {}
  BY <1>1 DEF ToSet
<1>8. \A k \in 1..lineCnt : HasSecret(Lines[k]) => Found(entry, k)
  BY <1>1, <1>7 DEF FoundInv
<1>9. Lines' = Lines
  BY <1>1 DEF Lines
<1>10. ASSUME NEW k \in 1..n, HasSecret(Lines[k])
       PROVE  Found(entry, k)' \/ \E f \in ToSet(r.out) : CoversLine(f, k)
  <2>1. CASE k \in 1..lineCnt
    BY <1>1, <1>6, <1>8, <1>10, <2>1
  <2>2. CASE k = n
    BY <1>5, <1>10, <2>2 DEF line
  <2> QED
    BY <1>3, <2>1, <2>2
<1>11. \A i \in DOMAIN tree : i < entry /\ Scanned(i)' => AllFound(i)'
  BY <1>6 DEF FoundInv
<1> HIDE DEF n
<1>12. \A k \in 1..n : HasSecret(Lines[k]) =>
         Found(entry, k)' \/ \E f \in ToSet(buffer'.out) : CoversLine(f, k)
  BY <1>1, <1>10
<1> QED
  BY <1>1, <1>9, <1>11, <1>12 DEF FoundInv, Found

LEMMA FoundInvSend ==
  ASSUME WalkerInv, FindingsInv, LineInv, FoundInv, SendFinding
  PROVE  FoundInv'
<1> DEFINE out == Head(buffer.out)
           g == [entry |-> entry, kind |-> out.kind, begin |-> out.begin, end |-> out.end]
<1>1. /\ buffer.out # <<>> /\ buffer.out \in Seq(FindingTypes)
      /\ findings' = Append(findings, g)
      /\ buffer' = [buffer EXCEPT !.out = Tail(@)]
      /\ UNCHANGED <<tree, content, entry, pc, lineCnt, returned>>
  BY DEF SendFinding, LineInv
<1>2. ToSet(findings') = ToSet(findings) \union {g}
  <2> HIDE DEF g
  <2> QED
    BY <1>1, GrownSet DEF FindingsInv
<1>3. /\ \A i, k : Found(i, k) => Found(i, k)'
      /\ \A i : AllFound(i) => AllFound(i)'
      /\ \A i : Scanned(i)' <=> Scanned(i)
  BY <1>1, <1>2, StillFound
<1>4. \A f \in ToSet(buffer.out) : f = out \/ f \in ToSet(buffer'.out)
  <2> SUFFICES ASSUME NEW k \in 1..Len(buffer.out), k # 1
               PROVE  buffer.out[k] \in ToSet(buffer'.out)
    <3>1. DOMAIN buffer.out = 1..Len(buffer.out) /\ out = buffer.out[1]
      BY <1>1
    <3> HIDE DEF out
    <3> QED
      BY <3>1 DEF ToSet
  <2>1. buffer'.out = Tail(buffer.out)
    BY <1>1
  <2>2. /\ k - 1 \in 1..Len(Tail(buffer.out)) /\ Tail(buffer.out)[k - 1] = buffer.out[k]
        /\ DOMAIN Tail(buffer.out) = 1..Len(Tail(buffer.out))
    BY <1>1
  <2> QED
    BY <2>1, <2>2 DEF ToSet
<1>5. \A k : CoversLine(out, k) => Found(entry, k)'
  <2>1. \A k : CoversLine(out, k) => Covers(g, entry, k)
    BY DEF CoversLine, Covers
  <2> HIDE DEF g
  <2>2. g \in ToSet(findings')
    BY <1>2
  <2> QED
    BY <1>1, <2>1, <2>2 DEF Found, Covers
<1> HIDE DEF out, g
<1>6. Lines' = Lines
  BY <1>1 DEF Lines
<1>7. \A i \in DOMAIN tree : i < entry /\ Scanned(i)' => AllFound(i)'
  BY <1>3 DEF FoundInv
<1>8. pc = "lines" => \A k \in 1..lineCnt : HasSecret(Lines[k]) =>
        Found(entry, k)' \/ \E f \in ToSet(buffer'.out) : CoversLine(f, k)
  BY <1>1, <1>3, <1>4, <1>5 DEF FoundInv
<1> QED
  BY <1>1, <1>6, <1>7, <1>8 DEF FoundInv, Found

LEMMA FoundInvEndFile ==
  ASSUME WalkerInv, LineInv, FoundInv, EndFile
  PROVE  FoundInv'
<1>1. /\ pc = "lines" /\ entry \in DOMAIN tree /\ ~HasLine /\ buffer.out = <<>>
      /\ pc' = "walk" /\ entry' = entry + 1
      /\ UNCHANGED <<tree, content, lineCnt, buffer, findings, returned>>
  BY DEF EndFile, WalkerInv
<1>2. /\ DOMAIN tree = 1..Len(tree) /\ Len(tree) \in Nat
  BY DEF WalkerInv, Trees
<1>3. /\ \A i : AllFound(i) => AllFound(i)'
      /\ \A i : Scanned(i)' <=> Scanned(i)
  BY <1>1, StillFound
<1>4. Lines \in Seq(LineTypes) /\ lineCnt \in 0..Len(Lines)
  BY <1>1 DEF LineInv, Lines
<1>5. ASSUME NEW n \in Reachable(entry)
      PROVE  n \in 1..lineCnt
  <2>1. n \in 1..Len(Lines) /\ TooLong \notin {Lines[m] : m \in 1..n}
    BY <1>4 DEF Reachable, Lines
  <2>2. lineCnt < n => lineCnt + 1 \in 1..n /\ lineCnt < Len(Lines)
    BY <1>4, <2>1
  <2>3. lineCnt < Len(Lines) => Lines[lineCnt + 1] = TooLong
    BY <1>1 DEF HasLine
  <2> HIDE DEF Lines
  <2>4. ~(lineCnt < n)
    BY <2>1, <2>2, <2>3
  <2> QED
    BY <1>4, <2>1, <2>4
<1>6. AllFound(entry)
  <2>1. ToSet(buffer.out) = {}
    BY <1>1 DEF ToSet
  <2> QED
    BY <1>1, <1>5, <2>1 DEF AllFound, FoundInv, Lines
<1>7. \A i \in DOMAIN tree : i < entry + 1 /\ Scanned(i) => AllFound(i)
  <2>1. \A i \in DOMAIN tree : i < entry + 1 => i < entry \/ i = entry
    BY <1>1, <1>2
  <2> QED
    BY <1>6, <2>1 DEF FoundInv
<1> QED
  BY <1>1, <1>3, <1>7 DEF FoundInv

LEMMA FoundInvNext ==
  WalkerInv /\ FindingsInv /\ LineInv /\ FoundInv /\ [FinderNext]_finderVars => FoundInv'
<1> SUFFICES ASSUME WalkerInv, FindingsInv, LineInv, FoundInv, [FinderNext]_finderVars
             PROVE  FoundInv'
  OBVIOUS
<1>1. Len(tree) \in Nat /\ DOMAIN tree = 1..Len(tree) /\ tree \in Trees
  BY DEF WalkerInv, Trees
<1>2. ASSUME UNCHANGED <<tree, content, findings>>
      PROVE  /\ \A i, k : Found(i, k) => Found(i, k)'
             /\ \A i : AllFound(i) => AllFound(i)'
             /\ \A i : Scanned(i)' <=> Scanned(i)
  BY <1>2, StillFound
<1>3. ASSUME Visit
      PROVE  FoundInv'
  <2>1. /\ pc = "walk" /\ entry \in DOMAIN tree
        /\ UNCHANGED <<tree, content, findings, returned>>
    BY <1>1, <1>3 DEF Visit, LineInv
  <2>2. CASE tree[entry].kind = "file"
    <3>1. pc' = "lines" /\ lineCnt' = 0 /\ UNCHANGED entry
      BY <1>3, <2>2 DEF Visit
    <3>2. 1..0 = {}
      OBVIOUS
    <3> QED
      BY <1>2, <2>1, <3>1, <3>2 DEF FoundInv
  <2>3. CASE tree[entry].kind # "file"
    <3>1. entry' = NextEntry(entry) /\ pc' = "walk"
      BY <1>3, <2>1, <2>3 DEF Visit
    <3>2. \A i \in DOMAIN tree : i < NextEntry(entry) /\ Scanned(i) => i < entry
      BY <1>1, <2>1, <2>3, PassedOver
    <3> QED
      BY <1>2, <2>1, <3>1, <3>2 DEF FoundInv
  <2> QED
    BY <2>2, <2>3
<1>4. CASE ReadLine
  BY <1>4, FoundInvReadLine
<1>5. CASE SendFinding
  BY <1>5, FoundInvSend
<1>6. CASE EndFile
  BY <1>6, FoundInvEndFile
<1>7. ASSUME EndWalk
      PROVE  FoundInv'
  BY <1>2, <1>7 DEF EndWalk, FoundInv
<1>8. ASSUME UNCHANGED finderVars
      PROVE  FoundInv'
  <2>1. UNCHANGED <<tree, content, entry, pc, lineCnt, buffer, findings>> /\ Lines' = Lines
    BY <1>8 DEF finderVars, Lines
  <2> QED
    BY <1>2, <2>1 DEF FoundInv, Found
<1> QED
  BY <1>3, <1>4, <1>5, <1>6, <1>7, <1>8 DEF FinderNext

\* When FindSecrets returns no line with a secret is left out, of any file that WalkDirHandler
\* does not skip: whatever ScanFile has buffered when it reads the line, and however many
\* findings the walker still had to hand over.
THEOREM EveryLineIsSearched == FinderSpec => []NoLineMissed
<1> DEFINE Inv == FinderInv /\ LineInv /\ FoundInv
<1>1. Inv => NoLineMissed
  <2> SUFFICES ASSUME Inv, returned
               PROVE  \A i \in DOMAIN tree : Scanned(i) => AllFound(i)
    BY DEF NoLineMissed, SecretsFound, AllFound, Found
  <2>1. entry > Len(tree) /\ entry \in Nat /\ DOMAIN tree = 1..Len(tree) /\ Len(tree) \in Nat
    BY DEF LineInv, FinderInv, WalkerInv, Trees
  <2>2. \A i \in DOMAIN tree : i < entry
    BY <2>1
  <2> QED
    BY <2>2 DEF FoundInv
<1>2. FinderInit => Inv
  BY FinderInvInit, LineInvInit, FoundInvInit
<1>3. Inv /\ [FinderNext]_finderVars => Inv'
  BY FinderInvNext, LineInvNext, FoundInvNext DEF FinderInv
<1> QED
  BY <1>1, <1>2, <1>3, PTL DEF FinderSpec
=============================================================================
