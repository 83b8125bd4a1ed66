---------------------------- MODULE RepoCatalog ----------------------------
(***************************************************************************)
(* What the API promises of repositories and of the scans that belong to   *)
(* them: each request takes effect, and gets the answer that fits, at one  *)
(* moment; a scan is started only for a repository that exists, and no     *)
(* repository goes while it has scans; the id of a deleted repository is   *)
(* not used again.                                                         *)
(***************************************************************************)
CONSTANTS
  Clients, RepoIds, Scans, Infos, Absent,
  Refusals   \* the statuses that may be told of any request

VARIABLES
  repos,   \* repos[r]: what is stored of repository r, or Absent
  used,    \* the ids ever given to a repository
  scans,   \* scans[s]: the repository of scan s, or Absent
  answer   \* answer[c]: what client c has been told, or Silent

vars == <<repos, used, scans, answer>>

Told(status, r, i) == [status |-> status, repo |-> r, info |-> i]
Silent == Told(0, Absent, Absent)

Tell(c, status, r, i) ==
  /\ answer[c] = Silent
  /\ answer' = [answer EXCEPT ![c] = Told(status, r, i)]

Init ==
  /\ repos  \in [RepoIds -> Infos \union {Absent}]
  /\ used   = {r \in RepoIds : repos[r] # Absent}
  /\ scans  = [s \in Scans |-> Absent]
  /\ answer = [c \in Clients |-> Silent]

Create(c, r, i) ==
  /\ r \notin used
  /\ used'  = used \union {r}
  /\ repos' = [repos EXCEPT ![r] = i]
  /\ Tell(c, 201, r, i)
  /\ UNCHANGED scans

Read(c, r) ==
  /\ repos[r] # Absent
  /\ Tell(c, 200, r, repos[r])
  /\ UNCHANGED <<repos, used, scans>>

Modify(c, r, i) ==
  /\ repos[r] # Absent
  /\ repos' = [repos EXCEPT ![r] = i]
  /\ Tell(c, 200, r, i)
  /\ UNCHANGED <<used, scans>>

Delete(c, r) ==
  /\ repos[r] # Absent
  /\ \A s \in Scans : scans[s] # r
  /\ repos' = [repos EXCEPT ![r] = Absent]
  /\ Tell(c, 200, r, Absent)
  /\ UNCHANGED <<used, scans>>

StartScan(c, r, s) ==
  /\ repos[r] # Absent
  /\ scans[s] = Absent
  /\ scans' = [scans EXCEPT ![s] = r]
  /\ Tell(c, 201, r, Absent)
  /\ UNCHANGED <<repos, used>>

NotFound(c, r) ==
  /\ repos[r] = Absent
  /\ Tell(c, 404, r, Absent)
  /\ UNCHANGED <<repos, used, scans>>

\* Nothing is changed.
Refuse(c, r, status) ==
  /\ Tell(c, status, r, Absent)
  /\ UNCHANGED <<repos, used, scans>>

DropScan(s) ==
  /\ scans' = [scans EXCEPT ![s] = Absent]
  /\ UNCHANGED <<repos, used, answer>>

Next ==
  \/ \E c \in Clients, r \in RepoIds :
       \/ \E i \in Infos : Create(c, r, i) \/ Modify(c, r, i)
       \/ Read(c, r) \/ Delete(c, r) \/ NotFound(c, r)
       \/ \E s \in Scans : StartScan(c, r, s)
  \/ \E c \in Clients, r \in RepoIds \union {Absent}, status \in Refusals : Refuse(c, r, status)
  \/ \E s \in Scans : DropScan(s)

Spec == Init /\ [][Next]_vars
=============================================================================
