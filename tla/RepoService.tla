---------------------------- MODULE RepoService ----------------------------
(***************************************************************************)
(* The requests about repositories (src/go/api_repositories.go) and the    *)
(* first half of POST startScan (src/go/api_scans.go), on PostgreSQL       *)
(* (src/go/store_repositories_psql.go), where scans.repoId REFERENCES      *)
(* repositories(id).  One statement is one step.  What becomes of a scan   *)
(* once its row exists is the subject of ScanService.tla; GET repositories *)
(* is that of Paging.tla.                                                  *)
(***************************************************************************)
EXTENDS Integers

CONSTANTS
  Clients,    \* one request each
  RepoIds,    \* the ids the SERIAL column can give
  Scans,      \* the ids of scans
  ValidUrls,  \* the urls url.ParseRequestURI accepts
  Bodies,     \* the repository infos sent: records of url and branch
  NoBranch,   \* an empty or missing branch
  Main,       \* the branch "main"
  Malformed,  \* a body that does not decode
  Absent,     \* no row
  DBMayFail   \* a statement may return an error and change nothing

VARIABLES
  repos,  \* table repositories: repos[r] is the row with id r, or Absent
  used,   \* the ids the SERIAL column has given
  scans,  \* table scans: scans[s] is the repoId of s, or Absent
  req     \* req[c]: where the request of c stands, and its answer

repoVars == <<repos, used, scans, req>>

Infos == Bodies \union {[b EXCEPT !.branch = Main] : b \in Bodies}

\* Ids and infos are told from Absent, and a body that does not decode from one that does.
ASSUME RepoAssumption ==
  /\ Absent \notin RepoIds
  /\ Absent \notin Infos
  /\ Malformed \notin Bodies
  /\ DBMayFail \in BOOLEAN

Request(pc, r, status, i) ==
  [pc |-> pc, repo |-> r, status |-> status, info |-> i]
NoRequest == Request("none", Absent, 0, Absent)

\* It decodes, and its url parses.
Acceptable(b) == b # Malformed /\ b.url \in ValidUrls

\* The repositories of an earlier process are still there.
RepoInit ==
  /\ repos \in [RepoIds -> {b \in Infos : Acceptable(b)} \union {Absent}]
  /\ used  = {r \in RepoIds : repos[r] # Absent}
  /\ scans = [s \in Scans |-> Absent]
  /\ req   = [c \in Clients |-> NoRequest]

Respond(c, r, status, i) == req' = [req EXCEPT ![c] = Request("done", r, status, i)]

\* A request that is answered without a change.
Reject(c, r, status) ==
  Respond(c, r, status, Absent) /\ UNCHANGED <<repos, used, scans>>

New(c) == req[c].pc = "none"

\* Mutant: an update of no row is taken for a success, as if the row had been inserted.
ModifiesAny(r) == TRUE

\* UPDATE affects a row.
Modifies(r) == repos[r] # Absent

\* No row of scans refers to it.
Deletable(r) == repos[r] # Absent /\ \A s \in Scans : scans[s] # r

\* Mutant: the lookup of AddScan is trusted.
ReferencesAny(r) == TRUE

\* repoId INTEGER NOT NULL REFERENCES repositories(id).
References(r) == repos[r] # Absent

AddRepository(c, b) ==
  /\ New(c)
  /\ \/ ~Acceptable(b) /\ Reject(c, Absent, 400)
     \/ /\ Acceptable(b)
        /\ \E r \in RepoIds \ used :
             LET i == IF b.branch = NoBranch THEN [b EXCEPT !.branch = Main] ELSE b
             IN  /\ repos' = [repos EXCEPT ![r] = i]
                 /\ used'  = used \union {r}
                 /\ Respond(c, r, 201, i)
        /\ UNCHANGED scans
     \/ Acceptable(b) /\ DBMayFail /\ Reject(c, Absent, 500)

\* Without a default for the branch.
ModifyRepository(c, r, b) ==
  /\ New(c)
  /\ \/ ~Acceptable(b) /\ Reject(c, r, 400)
     \/ /\ Acceptable(b)
        /\ Modifies(r)
        /\ repos' = [repos EXCEPT ![r] = b]
        /\ Respond(c, r, 200, b)
        /\ UNCHANGED <<used, scans>>
     \/ Acceptable(b) /\ ~Modifies(r) /\ Reject(c, r, 404)
     \/ Acceptable(b) /\ DBMayFail /\ Reject(c, r, 500)

\* The foreign key makes the statement fail, which is answered as any error.
DeleteRepository(c, r) ==
  /\ New(c)
  /\ \/ /\ Deletable(r)
        /\ repos' = [repos EXCEPT ![r] = Absent]
        /\ Respond(c, r, 200, Absent)
        /\ UNCHANGED <<used, scans>>
     \/ repos[r] = Absent /\ Reject(c, r, 404)
     \/ /\ (repos[r] # Absent /\ ~Deletable(r)) \/ DBMayFail
        /\ Reject(c, r, 500)

\* Retrieve; GET answers any of its errors with 404. So a 404 may be an error.
GetRepository(c, r) ==
  /\ New(c)
  /\ \/ /\ repos[r] # Absent
        /\ Respond(c, r, 200, repos[r])
        /\ UNCHANGED <<repos, used, scans>>
     \/ repos[r] = Absent /\ Reject(c, r, 404)
     \/ DBMayFail /\ Reject(c, r, 404)

\* An id that strconv.Atoi does not take.
InvalidId(c) == New(c) /\ Reject(c, Absent, 400)

\* Mutant: the handler does not return after its error, and inserts a scan of no repository.
NoSuchRepositoryGoesOn(c, r) ==
  /\ req' = [req EXCEPT ![c] = Request("insert", Absent, 404, Absent)]
  /\ UNCHANGED <<repos, used, scans>>

\* The error path of AddScan's lookup.
NoSuchRepository(c, r) == Reject(c, r, 404)

\* AddScan, its lookup of the repository.
FindRepository(c, r) ==
  /\ New(c)
  /\ \/ /\ repos[r] # Absent
        /\ req' = [req EXCEPT ![c] = Request("insert", r, 0, Absent)]
        /\ UNCHANGED <<repos, used, scans>>
     \/ (repos[r] = Absent \/ DBMayFail) /\ NoSuchRepository(c, r)

\* AddScan, the row of the scan; the foreign or the primary key may refuse it.
InsertScan(c, s) ==
  LET r == req[c].repo
  IN  /\ req[c].pc = "insert"
      /\ \/ /\ References(r)
            /\ scans[s] = Absent
            /\ scans' = [scans EXCEPT ![s] = r]
            /\ Respond(c, r, 201, Absent)
            /\ UNCHANGED <<repos, used>>
         \/ /\ ~References(r) \/ scans[s] # Absent \/ DBMayFail
            /\ Reject(c, r, 500)

\* A DELETE of the scan has come to its last statement.
DeleteScanRow(s) ==
  /\ scans[s] # Absent
  /\ scans' = [scans EXCEPT ![s] = Absent]
  /\ UNCHANGED <<repos, used, req>>

\* The first step of any request; only startScan has another.
NewRequest(c) ==
  \/ \E b \in Bodies \union {Malformed} :
       AddRepository(c, b) \/ \E r \in RepoIds : ModifyRepository(c, r, b)
  \/ \E r \in RepoIds : DeleteRepository(c, r) \/ GetRepository(c, r) \/ FindRepository(c, r)
  \/ InvalidId(c)

RepoNext ==
  \/ \E c \in Clients : NewRequest(c) \/ \E s \in Scans : InsertScan(c, s)
  \/ \E s \in Scans : DeleteScanRow(s)

RepoSpec == RepoInit /\ [][RepoNext]_repoVars

-----------------------------------------------------------------------------
(* Properties.                                                             *)

Requests ==
  [pc : {"none", "insert", "done"},
   repo : RepoIds \union {Absent},
   status : {0, 200, 201, 400, 404, 500},
   info : Infos \union {Absent}]

\* Every variable has its type; a request that inserts a scan has a repository.
RepoTypeOK ==
  /\ repos \in [RepoIds -> Infos \union {Absent}]
  /\ used \subseteq RepoIds
  /\ scans \in [Scans -> RepoIds \union {Absent}]
  /\ req \in [Clients -> Requests]
  /\ \A c \in Clients : req[c].pc = "insert" => req[c].repo \in RepoIds

\* Every scan belongs to a repository that exists, although AddScan looks the repository up
\* in one statement and inserts the scan in another, with deletions in between.
ScansHaveRepository == \A s \in Scans : scans[s] # Absent => repos[scans[s]] # Absent

Catalog ==
  INSTANCE RepoCatalog WITH
    Refusals <- IF DBMayFail THEN {400, 404, 500} ELSE {400, 500},
    answer <- [c \in Clients |-> [status |-> req[c].status,
                                  repo   |-> IF req[c].pc = "done" THEN req[c].repo ELSE Absent,
                                  info   |-> req[c].info]]

\* Every request takes effect at one moment between its beginning and its end, with the
\* answer that is true then; no scan is started for a repository deleted meanwhile, and no
\* repository id comes back. A database error changes nothing; some handlers answer it with
\* 404, so only without such errors does a 404 say that there is no repository.
ImplementsCatalog == Catalog!Spec
=============================================================================
