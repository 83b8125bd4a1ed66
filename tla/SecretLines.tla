---------------------------- MODULE SecretLines ----------------------------
(***************************************************************************)
(* What ScanFile finds in the lines of a file (src/engine/                 *)
(* secrets_finder.go).  A line is a sequence of symbols: a keyword, a      *)
(* quote, ":", "=", white space " ", one of the other characters that      *)
(* start no token ";", or any other character "x".  Groups is its regular  *)
(* expression,                                                             *)
(*   (keyword) quote? \s* (:=|:|=|\s) \s* (token | end of text).           *)
(***************************************************************************)
EXTENDS Integers, SequencesExt

CONSTANT NoLine   \* no line number

ASSUME NoLineAssumption == NoLine \notin Nat

Keywords == {"pri", "pub"}   \* private_key, public_key
Separators == {" ", ":", "="}
NoToken == Separators \union {";"}
Symbols == Keywords \union NoToken \union {"'", "x"}

\* The first position from i on with a symbol that is not in S.
EndOfRun(text, i, S) == Min({j \in i..Len(text) : text[j] \notin S} \union {Len(text) + 1})

AfterKeyword(text, i) == IF i < Len(text) /\ text[i + 1] = "'" THEN i + 2 ELSE i + 1
AfterSeparator(text, i) == EndOfRun(text, AfterKeyword(text, i), Separators)

\* White space, with one ":", "=" or ":=" in it or none.
IsSeparator(run) ==
  LET assigns == {k \in DOMAIN run : run[k] # " "}
  IN  /\ run # <<>>
      /\ \/ Cardinality(assigns) <= 1
         \/ \E k \in assigns : assigns = {k, k + 1} /\ run[k] = ":" /\ run[k + 1] = "="

MatchesAt(text, i) ==
  LET a == AfterKeyword(text, i)
      b == AfterSeparator(text, i)
  IN  /\ text[i] \in Keywords
      /\ IsSeparator(SubSeq(text, a, b - 1))
      /\ b <= Len(text) => text[b] \notin NoToken

\* group[1], and whether there is a group[2].
Group(text, i) == [kind |-> text[i], full |-> AfterSeparator(text, i) <= Len(text)]
AfterMatch(text, i) == EndOfRun(text, AfterSeparator(text, i), Symbols \ NoToken)

\* FindAllStringSubmatch: from left to right, without overlaps.
Groups(text) ==
  LET from[i \in 1..(Len(text) + 1)] ==
        IF i > Len(text) THEN <<>>
        ELSE IF MatchesAt(text, i) THEN <<Group(text, i)>> \o from[AfterMatch(text, i)]
        ELSE from[i + 1]
  IN  from[1]

-----------------------------------------------------------------------------
(* prevLine, prevLineCnt, and what the loop over the groups reports.       *)

Finding(kind, begin, end) == [kind |-> kind, begin |-> begin, end |-> end]

Buffer(text, from, out) == [text |-> text, from |-> from, out |-> out]
EmptyBuffer == Buffer(<<>>, 0, <<>>)

\* Mutant: prevLineCnt follows every buffered line.
KeepAlways(b, line, n) == Buffer(b.text \o line, n, b.out)

\* A prefix without its token.
Keep(b, line, n) ==
  Buffer(b.text \o line, IF b.text = <<>> THEN n ELSE b.from, b.out)

\* Mutant: a finding from buffered lines has no end.
ReportNoEnd(b, kind, n) ==
  Buffer(<<>>, b.from,
         Append(b.out, Finding(kind, IF b.text = <<>> THEN n ELSE b.from, NoLine)))

\* A full match.
Report(b, kind, n) ==
  Buffer(<<>>, b.from,
         Append(b.out, IF b.text = <<>> THEN Finding(kind, n, NoLine)
                                        ELSE Finding(kind, b.from, n)))

OnGroup(b, group, line, n) ==
  IF group.full THEN Report(b, group.kind, n) ELSE Keep(b, line, n)

\* One turn of the loop over the lines: the buffer after line n, and its findings.
OnLine(b, line, n) ==
  LET groups == Groups(b.text \o line)
  IN  IF groups = <<>> THEN Buffer(<<>>, b.from, <<>>)
      ELSE FoldLeft(LAMBDA acc, group : OnGroup(acc, group, line, n),
                    Buffer(b.text, b.from, <<>>), groups)
=============================================================================
