---------------------------- MODULE SecretFinder ----------------------------
(***************************************************************************)
(* FindSecrets (src/engine/secrets_finder.go): a goroutine walks the tree  *)
(* of the checkout and scans its files line by line; every finding goes    *)
(* over the unbuffered channel reportCh to the caller, which collects them *)
(* until walkDone.  The tree is given in the order of WalkDir: an entry,   *)
(* then what is below it.                                                  *)
(***************************************************************************)
EXTENDS SecretLines

CONSTANTS
  Checkouts, \* a tree, a sequence of entries [kind, last], last the last entry below, and
             \* its content, the lines of every entry (of those that are no files unused)
  TooLong    \* a line longer than the buffer of bufio.Scanner

Kinds == {"file", "badFile", "dir", "git", "badDir", "noRoot"}

\* What WalkDir can meet: an entry is followed by those below it, and these by theirs. Only
\* the root can be missing: the others come from the directory above them.
Trees ==
  {t \in Seq([kind : Kinds, last : Nat]) : \A i \in DOMAIN t :
     /\ t[i].last \in i..Len(t)
     /\ i = 1 => t[i].last = Len(t)
     /\ \A j \in i..t[i].last : t[j].last <= t[i].last
     /\ t[i].kind = "noRoot" => Len(t) = 1}

ASSUME CheckoutsAssumption == \A c \in Checkouts :
  /\ c.tree \in Trees
  /\ c.content \in [DOMAIN c.tree -> Seq({TooLong} \union Seq(Symbols))]

VARIABLES
  tree,      \* the checkout
  content,   \* content[i]: the lines of entry i, when it is a file
  entry,     \* the entry the walker is at
  pc,        \* where the walker stands
  lineCnt,   \* the lines read of this file
  buffer,    \* prevLine, prevLineCnt and the findings of this line still to be sent
  findings,  \* a.findings
  returned   \* FindSecrets has returned

finderVars == <<tree, content, entry, pc, lineCnt, buffer, findings, returned>>

FinderInit ==
  /\ \E c \in Checkouts : tree = c.tree /\ content = c.content
  /\ entry = 1
  /\ pc = "walk"
  /\ lineCnt = 0
  /\ buffer = EmptyBuffer
  /\ findings = <<>>
  /\ returned = FALSE

\* The directories that entry i is in, the root first.
Above(i) == {j \in 1..(i - 1) : i <= tree[j].last}

\* The entry behind the directory that i is in; with the root the walk is over.
BehindParent(i) == IF Above(i) = {} THEN Len(tree) + 1 ELSE tree[Max(Above(i))].last + 1

\* Mutant: the subdirectory .git is walked like any other.
NextEntryGitToo(i) ==
  IF tree[i].kind \in {"noRoot", "badDir"} THEN BehindParent(i) ELSE i + 1

\* WalkDirHandler returns SkipDir for .git when WalkDir comes to it, and WalkDir passes over
\* what is below. For a directory that cannot be read it returns SkipDir from its second call,
\* and that ends the loop over the directory above (Go 1.18, which go.mod and the Dockerfile
\* name). Without a root there is nothing else.
NextEntry(i) ==
  CASE tree[i].kind = "git"                  -> tree[i].last + 1
    [] tree[i].kind \in {"noRoot", "badDir"} -> BehindParent(i)
    [] OTHER                                 -> i + 1

\* WalkDirHandler, up to the opening of a file; that it cannot be opened is only logged.
Visit ==
  /\ pc = "walk"
  /\ entry <= Len(tree)
  /\ \/ /\ tree[entry].kind = "file"
        /\ pc' = "lines"
        /\ lineCnt' = 0
        /\ buffer' = EmptyBuffer
        /\ UNCHANGED entry
     \/ /\ tree[entry].kind # "file"
        /\ entry' = NextEntry(entry)
        /\ UNCHANGED <<pc, lineCnt, buffer>>
  /\ UNCHANGED <<tree, content, findings, returned>>

Lines == content[entry]

\* scanner.Scan, which gives up at a line that is too long.
HasLine == lineCnt < Len(Lines) /\ Lines[lineCnt + 1] # TooLong

ReadLine ==
  /\ pc = "lines"
  /\ buffer.out = <<>>
  /\ HasLine
  /\ lineCnt' = lineCnt + 1
  /\ buffer' = OnLine(buffer, Lines[lineCnt + 1], lineCnt + 1)
  /\ UNCHANGED <<tree, content, entry, pc, findings, returned>>

\* Mutant: the collector's loop ends with the first finding.
CollectingOnce == ~returned /\ findings = <<>>

\* The collector is in its select.
Collecting == ~returned

\* a.reportCh <- fi, received by the collector. The path is the entry.
SendFinding ==
  /\ buffer.out # <<>>
  /\ Collecting
  /\ LET f == Head(buffer.out)
     IN  findings' = Append(findings,
                            [entry |-> entry, kind |-> f.kind, begin |-> f.begin, end |-> f.end])
  /\ buffer' = [buffer EXCEPT !.out = Tail(@)]
  /\ UNCHANGED <<tree, content, entry, pc, lineCnt, returned>>

\* Its error, if any, is only logged.
EndFile ==
  /\ pc = "lines"
  /\ buffer.out = <<>>
  /\ ~HasLine
  /\ pc' = "walk"
  /\ entry' = entry + 1
  /\ UNCHANGED <<tree, content, lineCnt, buffer, findings, returned>>

\* walkDone <- true, received by the collector.
EndWalk ==
  /\ pc = "walk"
  /\ entry > Len(tree)
  /\ Collecting
  /\ pc' = "ended"
  /\ returned' = TRUE
  /\ UNCHANGED <<tree, content, entry, lineCnt, buffer, findings>>

FinderNext == Visit \/ ReadLine \/ SendFinding \/ EndFile \/ EndWalk

FinderSpec == FinderInit /\ [][FinderNext]_finderVars

\* Both goroutines are scheduled, and what they wait for on the disk comes.
FinderFairSpec == FinderSpec /\ WF_finderVars(FinderNext)

-----------------------------------------------------------------------------
(* Properties.                                                             *)

\* The lines from m to n of the current file, put together.
Text(m, n) == FlattenSeq([k \in 1..(n - m + 1) |-> Lines[m + k - 1]])

\* Every variable has its type. What is buffered is always what stands in the file from
\* line prevLineCnt to the last line read, so that no text of another place is matched.
FinderTypeOK ==
  /\ entry \in 1..(Len(tree) + 1)
  /\ pc \in {"walk", "lines", "ended"}
  /\ returned \in BOOLEAN
  /\ pc = "lines" =>
       /\ lineCnt \in 0..Len(Lines)
       /\ buffer.text # <<>> => buffer.from \in 1..lineCnt /\ buffer.text = Text(buffer.from, lineCnt)

\* A finding of entry i that covers line n.
Covers(f, i, n) ==
  f.entry = i /\ f.begin <= n /\ n <= IF f.end = NoLine THEN f.begin ELSE f.end

\* A line with a keyword, its separator and its token.
HasSecret(line) == \E group \in ToSet(Groups(line)) : group.full

\* In a directory of the kind.
Below(i, kind) == \E j \in 1..i : tree[j].kind = kind /\ i <= tree[j].last

\* In a directory that cannot be read, or behind one in the directory above it.
CutOff(i) == \E j \in 1..i : tree[j].kind = "badDir" /\ i < BehindParent(j)

\* The files the walk comes to.
Scanned(i) == tree[i].kind = "file" /\ ~Below(i, "git") /\ ~CutOff(i)

\* The lines of a file that bufio.Scanner gets to.
Reachable(i) == {n \in DOMAIN content[i] : TooLong \notin {content[i][m] : m \in 1..n}}

\* Every line with a secret in file i has its finding.
SecretsFound(i) ==
  \A n \in Reachable(i) :
    HasSecret(content[i][n]) => \E f \in ToSet(findings) : Covers(f, i, n)

\* When FindSecrets returns it has a finding for every line with a secret in it, whatever is
\* buffered when that line is read, of every file but those below .git, and those below or
\* behind an unreadable directory: the walk is over only when the last finding has been taken.
NoLineMissed == returned => \A i \in DOMAIN tree : Scanned(i) => SecretsFound(i)

\* Nothing is found in a file that is not to be scanned: below .git, cut off by an unreadable
\* directory or without a root.
OnlyScannedFiles == \A f \in ToSet(findings) : Scanned(f.entry)

\* However many findings there are, walker and collector both end.
WalkEnds == <>(pc = "ended" /\ returned)
=============================================================================
