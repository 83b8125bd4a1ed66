-------------------------- MODULE StartScan_proofs --------------------------
(***************************************************************************)
(* Proofs about RepoService, ScanIds and POST startScan, which is both at  *)
(* once, so that what is shown of each of them holds for it.               *)
(***************************************************************************)
EXTENDS StartScan, TLAPS

-----------------------------------------------------------------------------
(* RepoService: its types, that every scan has a repository, and that it    *)
(* implements RepoCatalog, for any requests, ids and bodies.                 *)

\* What is stored of an accepted body is an info.
LEMMA DefaultIsInfo ==
  ASSUME NEW b \in Bodies
  PROVE  (IF b.branch = NoBranch THEN [b EXCEPT !.branch = Main] ELSE b) \in Infos
BY DEF Infos

LEMMA AcceptableIsBody ==
  ASSUME NEW b \in Bodies \union {Malformed}, Acceptable(b)
  PROVE  b \in Bodies
BY DEF Acceptable

\* The type invariant is inductive.
THEOREM RepoTypeCorrect == RepoSpec => []RepoTypeOK
<1>1. RepoInit => RepoTypeOK
  BY DEF RepoInit, RepoTypeOK, NoRequest, Request, Requests
<1>2. ASSUME RepoTypeOK, [RepoNext]_repoVars
      PROVE  RepoTypeOK'
  <2>1. ASSUME NEW c \in Clients,
               NEW r \in RepoIds \union {Absent}, NEW status \in {200, 201, 400, 404, 500},
               NEW i \in Infos \union {Absent},
               Respond(c, r, status, i),
               UNCHANGED <<repos, used, scans>>
        PROVE  RepoTypeOK'
    <3>1. Request("done", r, status, i) \in Requests
      BY <2>1 DEF Request, Requests
    <3>2. req' \in [Clients -> Requests]
      BY <1>2, <2>1, <3>1 DEF Respond, RepoTypeOK
    <3>3. \A d \in Clients : req'[d].pc = "insert" => req'[d].repo \in RepoIds
      BY <1>2, <2>1 DEF Respond, RepoTypeOK, Request
    <3> QED
      BY <1>2, <2>1, <3>2, <3>3 DEF RepoTypeOK
  <2>2. ASSUME NEW c \in Clients,
               NEW r \in RepoIds \union {Absent}, NEW status \in {400, 404, 500},
               Reject(c, r, status)
        PROVE  RepoTypeOK'
    BY <2>1, <2>2 DEF Reject
  <2>3. ASSUME NEW c \in Clients, NEW b \in Bodies \union {Malformed}, AddRepository(c, b)
        PROVE  RepoTypeOK'
    <3>1. CASE Reject(c, Absent, 400) \/ Reject(c, Absent, 500)
      BY <2>2, <3>1
    <3>2. ASSUME NEW r \in RepoIds \ used, NEW i \in Infos,
                 repos' = [repos EXCEPT ![r] = i], used' = used \union {r},
                 Respond(c, r, 201, i), UNCHANGED scans
          PROVE  RepoTypeOK'
      <4>1. Request("done", r, 201, i) \in Requests
        BY DEF Request, Requests
      <4>2. req' \in [Clients -> Requests]
        BY <1>2, <3>2, <4>1 DEF Respond, RepoTypeOK
      <4>3. \A d \in Clients : req'[d].pc = "insert" => req'[d].repo \in RepoIds
        BY <1>2, <3>2 DEF Respond, RepoTypeOK, Request
      <4>4. repos' \in [RepoIds -> Infos \union {Absent}] /\ used' \subseteq RepoIds
        BY <1>2, <3>2 DEF RepoTypeOK
      <4> QED
        BY <1>2, <3>2, <4>2, <4>3, <4>4 DEF RepoTypeOK
    <3> QED
      BY <2>3, <3>1, <3>2, AcceptableIsBody, DefaultIsInfo DEF AddRepository
  <2>4. ASSUME NEW c \in Clients, NEW r \in RepoIds, NEW b \in Bodies \union {Malformed},
               ModifyRepository(c, r, b)
        PROVE  RepoTypeOK'
    <3>1. CASE Reject(c, r, 400) \/ Reject(c, r, 404)
                 \/ Reject(c, r, 500)
      BY <2>2, <3>1
    <3>2. CASE /\ Acceptable(b)
               /\ repos' = [repos EXCEPT ![r] = b]
               /\ Respond(c, r, 200, b)
               /\ UNCHANGED <<used, scans>>
      <4>1. b \in Infos
        BY <3>2, AcceptableIsBody DEF Infos
      <4>2. Request("done", r, 200, b) \in Requests
        BY <4>1 DEF Request, Requests
      <4>3. req' \in [Clients -> Requests]
        BY <1>2, <3>2, <4>2 DEF Respond, RepoTypeOK
      <4>4. \A d \in Clients : req'[d].pc = "insert" => req'[d].repo \in RepoIds
        BY <1>2, <3>2 DEF Respond, RepoTypeOK, Request
      <4>5. repos' \in [RepoIds -> Infos \union {Absent}]
        BY <1>2, <3>2, <4>1 DEF RepoTypeOK
      <4> QED
        BY <1>2, <3>2, <4>3, <4>4, <4>5 DEF RepoTypeOK
    <3> QED
      BY <2>4, <3>1, <3>2 DEF ModifyRepository
  <2>5. ASSUME NEW c \in Clients, NEW r \in RepoIds, DeleteRepository(c, r)
        PROVE  RepoTypeOK'
    <3>1. CASE Reject(c, r, 404) \/ Reject(c, r, 500)
      BY <2>2, <3>1
    <3>2. CASE /\ repos' = [repos EXCEPT ![r] = Absent]
               /\ Respond(c, r, 200, Absent)
               /\ UNCHANGED <<used, scans>>
      <4>1. Request("done", r, 200, Absent) \in Requests
        BY DEF Request, Requests
      <4>2. req' \in [Clients -> Requests]
        BY <1>2, <3>2, <4>1 DEF Respond, RepoTypeOK
      <4>3. \A d \in Clients : req'[d].pc = "insert" => req'[d].repo \in RepoIds
        BY <1>2, <3>2 DEF Respond, RepoTypeOK, Request
      <4>4. repos' \in [RepoIds -> Infos \union {Absent}]
        BY <1>2, <3>2 DEF RepoTypeOK
      <4> QED
        BY <1>2, <3>2, <4>2, <4>3, <4>4 DEF RepoTypeOK
    <3> QED
      BY <2>5, <3>1, <3>2 DEF DeleteRepository
  <2>6. ASSUME NEW c \in Clients, NEW r \in RepoIds, GetRepository(c, r)
        PROVE  RepoTypeOK'
    <3>1. repos[r] \in Infos \union {Absent}
      BY <1>2 DEF RepoTypeOK
    <3>2. CASE Respond(c, r, 200, repos[r]) /\ UNCHANGED <<repos, used, scans>>
      BY <2>1, <3>1, <3>2
    <3>3. CASE Reject(c, r, 404)
      BY <2>2, <3>3
    <3> QED
      BY <2>6, <3>2, <3>3 DEF GetRepository
  <2>7. ASSUME NEW c \in Clients, InvalidId(c)
        PROVE  RepoTypeOK'
    BY <2>2, <2>7 DEF InvalidId
  <2>8. ASSUME NEW c \in Clients, NEW r \in RepoIds, FindRepository(c, r)
        PROVE  RepoTypeOK'
    <3>1. CASE Reject(c, r, 404)
      BY <2>2, <3>1
    <3>2. CASE /\ req' = [req EXCEPT ![c] = Request("insert", r, 0, Absent)]
               /\ UNCHANGED <<repos, used, scans>>
      <4>1. Request("insert", r, 0, Absent) \in Requests
        BY DEF Request, Requests
      <4> QED
        BY <1>2, <3>2, <4>1 DEF RepoTypeOK, Request
    <3> QED
      BY <2>8, <3>1, <3>2 DEF FindRepository, NoSuchRepository
  <2>9. ASSUME NEW c \in Clients, NEW s \in Scans, InsertScan(c, s)
        PROVE  RepoTypeOK'
    <3> DEFINE r == req[c].repo
    <3>1. r \in RepoIds
      BY <1>2, <2>9 DEF InsertScan, RepoTypeOK
    <3>2. CASE Reject(c, r, 500)
      BY <2>2, <3>1, <3>2
    <3>3. CASE /\ scans' = [scans EXCEPT ![s] = r]
               /\ Respond(c, r, 201, Absent)
               /\ UNCHANGED <<repos, used>>
      <4>1. Request("done", r, 201, Absent) \in Requests
        BY <3>1 DEF Request, Requests
      <4>2. req' \in [Clients -> Requests]
        BY <1>2, <3>3, <4>1 DEF Respond, RepoTypeOK
      <4>3. \A d \in Clients : req'[d].pc = "insert" => req'[d].repo \in RepoIds
        BY <1>2, <3>3 DEF Respond, RepoTypeOK, Request
      <4>4. scans' \in [Scans -> RepoIds \union {Absent}]
        BY <1>2, <3>1, <3>3 DEF RepoTypeOK
      <4> QED
        BY <1>2, <3>3, <4>2, <4>3, <4>4 DEF RepoTypeOK
    <3> QED
      BY <2>9, <3>2, <3>3 DEF InsertScan
  <2>10. ASSUME NEW s \in Scans, DeleteScanRow(s)
         PROVE  RepoTypeOK'
    BY <1>2, <2>10 DEF DeleteScanRow, RepoTypeOK
  <2>11. CASE UNCHANGED repoVars
    BY <1>2, <2>11 DEF repoVars, RepoTypeOK
  <2> QED
    BY <1>2, <2>3, <2>4, <2>5, <2>6, <2>7, <2>8, <2>9, <2>10, <2>11 DEF RepoNext, NewRequest
<1> QED
  BY <1>1, <1>2, PTL DEF RepoSpec

\* A repository that a scan belongs to is there: AddScan inserts under the foreign key,
\* DELETE removes no repository a scan refers to.
THEOREM ScansAlwaysHaveRepository == RepoSpec => []ScansHaveRepository
<1>1. RepoInit => ScansHaveRepository
  BY DEF RepoInit, ScansHaveRepository
<1>2. ASSUME RepoTypeOK, ScansHaveRepository, [RepoNext]_repoVars
      PROVE  ScansHaveRepository'
  <2>1. CASE UNCHANGED <<repos, scans>>
    BY <1>2, <2>1 DEF ScansHaveRepository
  <2>2. ASSUME NEW r \in RepoIds, NEW i \in Infos,
               repos' = [repos EXCEPT ![r] = i], UNCHANGED scans
        PROVE  ScansHaveRepository'
    BY <1>2, <2>2, RepoAssumption DEF ScansHaveRepository, RepoTypeOK
  <2>3. ASSUME NEW c \in Clients, NEW b \in Bodies \union {Malformed}, AddRepository(c, b)
        PROVE  ScansHaveRepository'
    BY <2>1, <2>2, <2>3, AcceptableIsBody, DefaultIsInfo DEF AddRepository, Reject
  <2>4. ASSUME NEW c \in Clients, NEW r \in RepoIds, NEW b \in Bodies \union {Malformed},
               ModifyRepository(c, r, b)
        PROVE  ScansHaveRepository'
    <3>1. Acceptable(b) => b \in Infos
      BY AcceptableIsBody DEF Infos
    <3> QED
      BY <2>1, <2>2, <2>4, <3>1 DEF ModifyRepository, Reject
  <2>5. ASSUME NEW c \in Clients, NEW r \in RepoIds, DeleteRepository(c, r)
        PROVE  ScansHaveRepository'
    <3>1. CASE Deletable(r) /\ repos' = [repos EXCEPT ![r] = Absent] /\ UNCHANGED scans
      BY <1>2, <3>1 DEF Deletable, ScansHaveRepository, RepoTypeOK
    <3> QED
      BY <2>1, <2>5, <3>1 DEF DeleteRepository, Reject
  <2>6. ASSUME NEW c \in Clients, NEW r \in RepoIds,
               GetRepository(c, r) \/ FindRepository(c, r)
        PROVE  ScansHaveRepository'
    BY <2>1, <2>6 DEF GetRepository, FindRepository, NoSuchRepository, Reject
  <2>7. ASSUME NEW c \in Clients, InvalidId(c)
        PROVE  ScansHaveRepository'
    BY <2>1, <2>7 DEF InvalidId, Reject
  <2>8. ASSUME NEW c \in Clients, NEW s \in Scans, InsertScan(c, s)
        PROVE  ScansHaveRepository'
    <3>1. CASE /\ References(req[c].repo)
               /\ scans' = [scans EXCEPT ![s] = req[c].repo]
               /\ UNCHANGED repos
      BY <1>2, <3>1 DEF References, ScansHaveRepository, RepoTypeOK
    <3> QED
      BY <2>1, <2>8, <3>1 DEF InsertScan, Reject
  <2>9. ASSUME NEW s \in Scans, DeleteScanRow(s)
        PROVE  ScansHaveRepository'
    BY <1>2, <2>9 DEF DeleteScanRow, ScansHaveRepository, RepoTypeOK
  <2>10. CASE UNCHANGED repoVars
    BY <2>1, <2>10 DEF repoVars
  <2> QED
    BY <1>2, <2>3, <2>4, <2>5, <2>6, <2>7, <2>8, <2>9, <2>10 DEF RepoNext, NewRequest
<1> QED
  BY <1>1, <1>2, RepoTypeCorrect, PTL DEF RepoSpec

-----------------------------------------------------------------------------
(* The refinement.                                                         *)

\* Nobody is told anything before the request has ended.
PendingSilent ==
  \A c \in Clients : req[c].pc # "done" => req[c].status = 0 /\ req[c].info = Absent

LEMMA PendingIsSilent == RepoSpec => []PendingSilent
<1>1. RepoInit => PendingSilent
  BY DEF RepoInit, PendingSilent, NoRequest, Request
<1>2. ASSUME RepoTypeOK, PendingSilent, [RepoNext]_repoVars
      PROVE  PendingSilent'
  <2>1. CASE UNCHANGED req
    BY <1>2, <2>1 DEF PendingSilent
  <2>2. ASSUME NEW c \in Clients, NEW r, NEW status, NEW i,
               Respond(c, r, status, i)
        PROVE  PendingSilent'
    BY <1>2, <2>2 DEF Respond, Request, PendingSilent, RepoTypeOK
  <2>3. ASSUME NEW c \in Clients, NEW r \in RepoIds, FindRepository(c, r)
        PROVE  PendingSilent'
    <3>1. CASE req' = [req EXCEPT ![c] = Request("insert", r, 0, Absent)]
      BY <1>2, <3>1 DEF Request, PendingSilent, RepoTypeOK
    <3> QED
      BY <2>2, <2>3, <3>1 DEF FindRepository, NoSuchRepository, Reject
  <2>4. ASSUME NEW c \in Clients, NEW b \in Bodies \union {Malformed}, AddRepository(c, b)
        PROVE  PendingSilent'
    BY <2>2, <2>4 DEF AddRepository, Reject
  <2>5. ASSUME NEW c \in Clients, NEW r \in RepoIds, NEW b \in Bodies \union {Malformed},
               ModifyRepository(c, r, b)
        PROVE  PendingSilent'
    BY <2>2, <2>5 DEF ModifyRepository, Reject
  <2>6. ASSUME NEW c \in Clients, NEW r \in RepoIds,
               DeleteRepository(c, r) \/ GetRepository(c, r)
        PROVE  PendingSilent'
    BY <2>2, <2>6 DEF DeleteRepository, GetRepository, Reject
  <2>7. ASSUME NEW c \in Clients, InvalidId(c)
        PROVE  PendingSilent'
    BY <2>2, <2>7 DEF InvalidId, Reject
  <2>8. ASSUME NEW c \in Clients, NEW s \in Scans, InsertScan(c, s)
        PROVE  PendingSilent'
    BY <2>2, <2>8 DEF InsertScan, Reject
  <2> QED
    BY <1>2, <2>1, <2>3, <2>4, <2>5, <2>6, <2>7, <2>8 DEF RepoNext, NewRequest, DeleteScanRow, repoVars
<1> QED
  BY <1>1, <1>2, RepoTypeCorrect, PTL DEF RepoSpec

\* What the catalog says client c has been told.
Shown(c) ==
  [status |-> req[c].status,
   repo   |-> IF req[c].pc = "done" THEN req[c].repo ELSE Absent,
   info   |-> req[c].info]

\* The answer of a handler is the catalog's answer, when the request had not ended.
LEMMA AnswerIsTold ==
  ASSUME RepoTypeOK, PendingSilent, NEW c \in Clients, req[c].pc # "done",
         NEW r, NEW status, NEW i, Respond(c, r, status, i)
  PROVE  Catalog!Tell(c, status, r, i)
<1>1. Shown(c) = Catalog!Silent
  BY DEF Shown, PendingSilent, Catalog!Silent, Catalog!Told
<1>2. [d \in Clients |-> Shown(d)]'
        = [[d \in Clients |-> Shown(d)] EXCEPT ![c] = Catalog!Told(status, r, i)]
  BY DEF Respond, Request, Shown, Catalog!Told, RepoTypeOK
<1> QED
  BY <1>1, <1>2 DEF Catalog!Tell, Shown

\* Every step of the service is a step of the catalog, or none: for
\* AddScan it is the insertion, its lookup is seen only when it fails.
THEOREM RepoServiceImplementsCatalog == RepoSpec => ImplementsCatalog
<1>1. RepoInit => Catalog!Init
  BY DEF RepoInit, NoRequest, Request, Catalog!Init, Catalog!Silent, Catalog!Told
<1>2. ASSUME RepoTypeOK, PendingSilent, [RepoNext]_repoVars
      PROVE  [Catalog!Next]_(Catalog!vars)
  <2>1. ASSUME NEW c \in Clients, NEW r \in RepoIds \union {Absent},
               NEW status \in IF DBMayFail THEN {400, 404, 500} ELSE {400, 500},
               req[c].pc # "done", Reject(c, r, status)
        PROVE  Catalog!Next
    BY <1>2, <2>1, AnswerIsTold DEF Reject, Catalog!Next, Catalog!Refuse
  <2>2. ASSUME NEW c \in Clients, NEW r \in RepoIds,
               repos[r] = Absent, req[c].pc # "done", Reject(c, r, 404)
        PROVE  Catalog!Next
    BY <1>2, <2>2, AnswerIsTold DEF Reject, Catalog!Next, Catalog!NotFound
  <2>3. ASSUME NEW c \in Clients, NEW b \in Bodies \union {Malformed}, AddRepository(c, b)
        PROVE  Catalog!Next
    <3>1. ASSUME NEW r \in RepoIds \ used, NEW i \in Infos,
                 repos' = [repos EXCEPT ![r] = i], used' = used \union {r},
                 Respond(c, r, 201, i), UNCHANGED scans
          PROVE  Catalog!Next
      <4>1. Catalog!Tell(c, 201, r, i)
        BY <1>2, <2>3, <3>1, AnswerIsTold DEF AddRepository, New
      <4> QED
        BY <3>1, <4>1 DEF Catalog!Next, Catalog!Create
    <3> QED
      BY <2>1, <2>3, <3>1, AcceptableIsBody, DefaultIsInfo DEF AddRepository, New
  <2>4. ASSUME NEW c \in Clients, NEW r \in RepoIds, NEW b \in Bodies \union {Malformed},
               ModifyRepository(c, r, b)
        PROVE  Catalog!Next
    <3>1. CASE /\ Acceptable(b) /\ Modifies(r)
               /\ repos' = [repos EXCEPT ![r] = b]
               /\ Respond(c, r, 200, b)
               /\ UNCHANGED <<used, scans>>
      <4>1. b \in Infos
        BY <3>1, AcceptableIsBody DEF Infos
      <4>2. Catalog!Tell(c, 200, r, b)
        BY <1>2, <2>4, <3>1, AnswerIsTold DEF ModifyRepository, New
      <4> QED
        BY <3>1, <4>1, <4>2 DEF Catalog!Next, Catalog!Modify, Modifies
    <3> QED
      BY <2>1, <2>2, <2>4, <3>1 DEF ModifyRepository, Modifies, New
  <2>5. ASSUME NEW c \in Clients, NEW r \in RepoIds, DeleteRepository(c, r)
        PROVE  Catalog!Next
    <3>1. CASE /\ Deletable(r)
               /\ repos' = [repos EXCEPT ![r] = Absent]
               /\ Respond(c, r, 200, Absent)
               /\ UNCHANGED <<used, scans>>
      <4>1. Catalog!Tell(c, 200, r, Absent)
        BY <1>2, <2>5, <3>1, AnswerIsTold DEF DeleteRepository, New
      <4> QED
        BY <3>1, <4>1 DEF Catalog!Next, Catalog!Delete, Deletable
    <3> QED
      BY <2>1, <2>2, <2>5, <3>1 DEF DeleteRepository, New
  <2>6. ASSUME NEW c \in Clients, NEW r \in RepoIds, GetRepository(c, r)
        PROVE  Catalog!Next
    <3>1. CASE /\ repos[r] # Absent
               /\ Respond(c, r, 200, repos[r])
               /\ UNCHANGED <<repos, used, scans>>
      <4>1. PICK i : i = repos[r]
        OBVIOUS
      <4>2. Respond(c, r, 200, i)
        BY <3>1, <4>1
      <4>3. Catalog!Tell(c, 200, r, i)
        BY <1>2, <2>6, <4>2, AnswerIsTold DEF GetRepository, New
      <4>4. Catalog!Read(c, r)
        BY <3>1, <4>1, <4>3 DEF Catalog!Read, Catalog!Tell
      <4> QED
        BY <4>4 DEF Catalog!Next
    <3> QED
      BY <2>1, <2>2, <2>6, <3>1 DEF GetRepository, New
  <2>7. ASSUME NEW c \in Clients, InvalidId(c)
        PROVE  Catalog!Next
    BY <2>1, <2>7 DEF InvalidId, New
  <2>8. ASSUME NEW c \in Clients, NEW r \in RepoIds, FindRepository(c, r)
        PROVE  Catalog!Next \/ UNCHANGED Catalog!vars
    <3>1. CASE /\ req' = [req EXCEPT ![c] = Request("insert", r, 0, Absent)]
               /\ UNCHANGED <<repos, used, scans>>
      <4>1. req[c].status = 0 /\ req[c].info = Absent /\ req[c].pc # "done"
        BY <1>2, <2>8 DEF FindRepository, NoSuchRepository, New, PendingSilent
      <4>2. [d \in Clients |-> Shown(d)]' = [d \in Clients |-> Shown(d)]
        BY <1>2, <3>1, <4>1 DEF Shown, Request, RepoTypeOK
      <4> QED
        BY <3>1, <4>2 DEF Catalog!vars, Shown
    <3> QED
      BY <2>1, <2>2, <2>8, <3>1 DEF FindRepository, NoSuchRepository, New
  <2>9. ASSUME NEW c \in Clients, NEW s \in Scans, InsertScan(c, s)
        PROVE  Catalog!Next
    <3> DEFINE r == req[c].repo
    <3>1. r \in RepoIds
      BY <1>2, <2>9 DEF InsertScan, RepoTypeOK
    <3>2. CASE /\ References(r)
               /\ scans[s] = Absent
               /\ scans' = [scans EXCEPT ![s] = r]
               /\ Respond(c, r, 201, Absent)
               /\ UNCHANGED <<repos, used>>
      <4>1. Catalog!Tell(c, 201, r, Absent)
        BY <1>2, <2>9, <3>2, AnswerIsTold DEF InsertScan
      <4> QED
        BY <3>1, <3>2, <4>1 DEF Catalog!Next, Catalog!StartScan, References
    <3> QED
      BY <2>1, <2>9, <3>1, <3>2 DEF InsertScan
  <2>10. ASSUME NEW s \in Scans, DeleteScanRow(s)
         PROVE  Catalog!Next
    BY <2>10 DEF DeleteScanRow, Catalog!Next, Catalog!DropScan
  <2>11. CASE UNCHANGED repoVars
    BY <2>11 DEF repoVars, Catalog!vars
  <2> QED
    BY <1>2, <2>3, <2>4, <2>5, <2>6, <2>7, <2>8, <2>9, <2>10, <2>11 DEF RepoNext, NewRequest
<1> QED
  BY <1>1, <1>2, RepoTypeCorrect, PendingIsSilent, PTL
  DEF RepoSpec, ImplementsCatalog, Catalog!Spec

-----------------------------------------------------------------------------
(* No insertion of a scan meets a row under its id, for any number of        *)
(* requests, deletions and restarts.                                         *)

\* The requests that hold a number of this process.
Holds(c) == pc[c] \in {"check", "insert"}

\* The numbers held are below next and different, so that a row found to be free can only be
\* taken by the request itself.
IdsInv ==
  /\ IdsTypeOK
  /\ \A c \in Posts : Holds(c) => id[c] < next
  /\ \A c, d \in Posts : c # d /\ Holds(c) /\ Holds(d) => id[c] # id[d]
  /\ \A c \in Posts : pc[c] = "insert" => id[c] \notin rows
  /\ NoIdClash

LEMMA IdsInvInductive ==
  ASSUME IdsInv, [IdsNext]_idVars
  PROVE  IdsInv'
<1> USE DEF IdsInv, IdsTypeOK, NoIdClash, Holds, GoTo
<1>1. ASSUME NEW c \in Posts, TakeId(c)
      PROVE  IdsInv'
  <2>1. pc' = [pc EXCEPT ![c] = "check"] /\ id' = [id EXCEPT ![c] = next] /\ next' = next + 1
        /\ rows' = rows /\ UNCHANGED <<crashes, errors>>
    BY <1>1 DEF TakeId
  <2> QED
    BY <2>1
<1>2. ASSUME NEW c \in Posts, CheckId(c)
      PROVE  IdsInv'
  BY <1>2 DEF CheckId, Free, AfterTaken
<1>3. ASSUME NEW c \in Posts, InsertRow(c)
      PROVE  IdsInv'
  <2>1. id[c] \notin rows
    BY <1>3 DEF InsertRow
  <2>2. pc[c] = "insert" /\ pc' = [pc EXCEPT ![c] = "created"] /\ rows' = rows \union {id[c]}
        /\ UNCHANGED <<next, id, crashes, errors>>
    BY <1>3, <2>1 DEF InsertRow
  <2> QED
    BY <2>2
<1>4. ASSUME NEW i \in rows, DeleteRow(i)
      PROVE  IdsInv'
  BY <1>4 DEF DeleteRow
<1>5. ASSUME Crash
      PROVE  IdsInv'
  <2>1. PICK lost : /\ \A c \in Posts \ lost : ~Holds(c)
                    /\ Kill(lost)
    BY <1>5 DEF Crash
  <2>2. \A c \in Posts : ~Holds(c)'
    BY <2>1 DEF Kill
  <2>3. \A c \in Posts : pc'[c] \in {pc[c], "lost"}
    BY <2>1 DEF Kill
  <2>4. IdsTypeOK'
    BY <2>1, ScanIdsAssumption DEF Kill
  <2> QED
    BY <2>2, <2>3, <2>4
<1>6. ASSUME NEW c \in Posts, RefuseRow(c)
      PROVE  IdsInv'
  BY <1>6 DEF RefuseRow
<1>7. ASSUME NEW c \in Posts, FailLookup(c)
      PROVE  IdsInv'
  BY <1>7, ScanIdsAssumption DEF FailLookup, AfterTaken
<1>8. CASE UNCHANGED idVars
  BY <1>8 DEF idVars
<1> QED
  BY <1>1, <1>2, <1>3, <1>4, <1>5, <1>6, <1>7, <1>8 DEF IdsNext

LEMMA IdsInvHolds == IdsSpec => []IdsInv
<1>1. IdsInit => IdsInv
  BY ScanIdsAssumption DEF IdsInit, IdsInv, IdsTypeOK, NoIdClash, Holds
<1> QED
  BY <1>1, IdsInvInductive, PTL DEF IdsSpec

\* Every variable has its type.
THEOREM IdsTypeCorrect == IdsSpec => []IdsTypeOK
<1>1. IdsInv => IdsTypeOK
  BY DEF IdsInv
<1> QED
  BY <1>1, IdsInvHolds, PTL

\* No POST fails because its scan's id exists, in any process of a row of processes.
THEOREM IdsNeverClash == IdsSpec => []NoIdClash
<1>1. IdsInv => NoIdClash
  BY DEF IdsInv
<1> QED
  BY <1>1, IdsInvHolds, PTL

-----------------------------------------------------------------------------
(* Both at once.                                                           *)

\* A request looks for an id only between its lookup and its INSERT, and the ids in use are
\* those of the scans that are there.
Linked ==
  /\ RepoTypeOK
  /\ IdsInv
  /\ rows = {s \in Scans : scans[s] # Absent}
  /\ \A c \in Clients :
       /\ req[c].pc = "none" => pc[c] = "new"
       /\ req[c].pc = "insert" => pc[c] \in {"new", "next", "check", "insert", "lost"}
       /\ req[c].pc = "done" => pc[c] \notin {"next", "check", "insert"}

LEMMA InitLinked == StartInit => Linked
<1> SUFFICES ASSUME StartInit PROVE Linked
  OBVIOUS
<1>1. RepoTypeOK
  BY DEF StartInit, RepoInit, RepoTypeOK, NoRequest, Request, Requests
<1>2. IdsInv
  BY ScanIdsAssumption DEF StartInit, IdsInit, IdsInv, IdsTypeOK, NoIdClash, Holds
<1>3. rows = {s \in Scans : scans[s] # Absent}
  BY DEF StartInit, RepoInit, IdsInit
<1> QED
  BY <1>1, <1>2, <1>3, StartScanAssumption
  DEF Linked, StartInit, RepoInit, IdsInit, NoRequest, Request

LEMMA StepIsRepoStep ==
  ASSUME [StartNext]_startVars
  PROVE  [RepoNext]_repoVars
<1>1. ASSUME NEW c \in Clients, OtherStep(c) \/ FindId(c) \/ TryInsert(c)
      PROVE  [RepoNext]_repoVars
  BY <1>1 DEF OtherStep, FindId, TryInsert, RepoNext
<1>2. ASSUME NEW s \in Scans, DropScan(s)
      PROVE  RepoNext
  BY <1>2 DEF DropScan, RepoNext
<1>3. CASE Restart \/ UNCHANGED startVars
  BY <1>3 DEF Restart, startVars
<1> QED
  BY <1>1, <1>2, <1>3 DEF StartNext

LEMMA StepIsIdsStep ==
  ASSUME Linked, [StartNext]_startVars
  PROVE  [IdsNext]_idVars
<1>1. ASSUME NEW c \in Clients, OtherStep(c) \/ FindId(c) \/ TryInsert(c)
      PROVE  [IdsNext]_idVars
  BY <1>1, StartScanAssumption DEF OtherStep, FindId, TryInsert, IdsNext
<1>2. ASSUME NEW s \in Scans, DropScan(s)
      PROVE  IdsNext
  BY <1>2 DEF DropScan, DeleteScanRow, IdsNext, Linked
<1>3. ASSUME Restart
      PROVE  IdsNext
  <2> DEFINE lost == {c \in Posts : req[c].pc = "insert" /\ pc[c] # "lost"}
  <2>1. lost \in SUBSET {c \in Posts : pc[c] \in {"new", "next", "check", "insert"}}
    BY StartScanAssumption DEF Linked
  <2>2. \A c \in Posts \ lost : pc[c] \notin {"next", "check", "insert"}
    BY StartScanAssumption DEF Linked, RepoTypeOK, Requests
  <2>3. Kill(lost)
    BY <1>3, StartScanAssumption DEF Restart, Kill
  <2> QED
    BY <2>1, <2>2, <2>3 DEF Crash, IdsNext
<1>4. CASE UNCHANGED startVars
  BY <1>4 DEF startVars
<1> QED
  BY <1>1, <1>2, <1>3, <1>4 DEF StartNext

LEMMA StepKeepsLinked ==
  ASSUME Linked, RepoTypeOK', [StartNext]_startVars
  PROVE  Linked'
<1>1. IdsInv'
  BY StepIsIdsStep, IdsInvInductive DEF Linked
<1> DEFINE Stage(c) ==
      /\ req[c].pc = "none" => pc[c] = "new"
      /\ req[c].pc = "insert" => pc[c] \in {"new", "next", "check", "insert", "lost"}
      /\ req[c].pc = "done" => pc[c] \notin {"next", "check", "insert"}
<1>2. \A c \in Clients : Stage(c)
  BY DEF Linked
<1>3. ASSUME NEW c \in Clients, OtherStep(c)
      PROVE  (\A d \in Clients : Stage(d))' /\ (rows = {s \in Scans : scans[s] # Absent})'
  <2>1. req[c].pc = "none" /\ UNCHANGED <<pc, rows, scans>>
    BY <1>3 DEF OtherStep, NewRequest, AddRepository, ModifyRepository, DeleteRepository,
                GetRepository, FindRepository, NoSuchRepository, InvalidId, New, Reject, idVars
  <2>2. \E R : req' = [req EXCEPT ![c] = R] /\ R.pc \in {"insert", "done"}
    <3>1. ASSUME NEW p \in {"insert", "done"}, NEW r, NEW status, NEW i,
                 req' = [req EXCEPT ![c] = Request(p, r, status, i)]
          PROVE  \E R : req' = [req EXCEPT ![c] = R] /\ R.pc \in {"insert", "done"}
      <4>1. Request(p, r, status, i).pc = p
        BY DEF Request
      <4> QED
        BY <3>1, <4>1
    <3>2. ASSUME NEW r, NEW status, NEW i, Respond(c, r, status, i)
          PROVE  \E R : req' = [req EXCEPT ![c] = R] /\ R.pc \in {"insert", "done"}
      BY <3>1, <3>2 DEF Respond
    <3>3. ASSUME NEW r \in RepoIds, FindRepository(c, r)
          PROVE  \E R : req' = [req EXCEPT ![c] = R] /\ R.pc \in {"insert", "done"}
      BY <3>1, <3>2, <3>3 DEF FindRepository, NoSuchRepository, Reject
    <3>4. ASSUME NEW r \in RepoIds, DeleteRepository(c, r) \/ GetRepository(c, r)
          PROVE  \E R : req' = [req EXCEPT ![c] = R] /\ R.pc \in {"insert", "done"}
      BY <3>2, <3>4 DEF DeleteRepository, GetRepository, Reject
    <3>5. ASSUME NEW b \in Bodies \union {Malformed},
                 AddRepository(c, b) \/ \E r \in RepoIds : ModifyRepository(c, r, b)
          PROVE  \E R : req' = [req EXCEPT ![c] = R] /\ R.pc \in {"insert", "done"}
      BY <3>2, <3>5 DEF AddRepository, ModifyRepository, Reject
    <3> QED
      BY <1>3, <3>2, <3>3, <3>4, <3>5 DEF OtherStep, NewRequest, InvalidId, Reject
  <2>3. req'[c].pc \in {"insert", "done"} /\ \A d \in Clients \ {c} : req'[d] = req[d]
    BY <2>2 DEF Linked, RepoTypeOK
  <2> QED
    BY <1>2, <2>1, <2>3 DEF Linked
<1>4. ASSUME NEW c \in Clients, FindId(c)
      PROVE  (\A d \in Clients : Stage(d))' /\ (rows = {s \in Scans : scans[s] # Absent})'
  <2>1. req[c].pc = "insert" /\ UNCHANGED <<rows, scans, req>>
    BY <1>4 DEF FindId, TakeId, CheckId, FailLookup, repoVars
  <2>2. pc' = [pc EXCEPT ![c] = "next"] \/ pc' = [pc EXCEPT ![c] = "check"]
          \/ pc' = [pc EXCEPT ![c] = "insert"]
    BY <1>4 DEF FindId, TakeId, CheckId, FailLookup, GoTo, AfterTaken
  <2> QED
    BY <1>2, <2>1, <2>2, StartScanAssumption DEF Linked, IdsInv, IdsTypeOK
<1>5. ASSUME NEW c \in Clients, TryInsert(c)
      PROVE  (\A d \in Clients : Stage(d))' /\ (rows = {s \in Scans : scans[s] # Absent})'
  <2>1. \A d \in Clients \ {c} : req'[d] = req[d]
    BY <1>5 DEF TryInsert, InsertScan, Reject, Respond, Linked, RepoTypeOK
  <2>2. req'[c].pc = "done"
    BY <1>5 DEF TryInsert, InsertScan, Reject, Respond, Request, Linked, RepoTypeOK
  <2>3. pc' = [pc EXCEPT ![c] = "created"] \/ pc' = [pc EXCEPT ![c] = "error"]
          \/ pc' = [pc EXCEPT ![c] = "failed"]
    BY <1>5 DEF TryInsert, InsertRow, RefuseRow, GoTo
  <2>4. (rows = {s \in Scans : scans[s] # Absent})'
    BY <1>5 DEF TryInsert
  <2> QED
    BY <1>2, <2>1, <2>2, <2>3, <2>4, StartScanAssumption DEF Linked, IdsInv, IdsTypeOK
<1>6. ASSUME NEW s \in Scans, DropScan(s)
      PROVE  (\A d \in Clients : Stage(d))' /\ (rows = {t \in Scans : scans[t] # Absent})'
  <2>1. rows' = rows \ {s} /\ scans' = [scans EXCEPT ![s] = Absent] /\ UNCHANGED <<pc, req>>
    BY <1>6 DEF DropScan, DeleteScanRow, DeleteRow
  <2> QED
    BY <1>2, <2>1 DEF Linked, RepoTypeOK
<1>7. ASSUME Restart
      PROVE  (\A d \in Clients : Stage(d))' /\ (rows = {s \in Scans : scans[s] # Absent})'
  <2>1. pc' = [c \in Posts |-> IF req[c].pc = "insert" THEN "lost" ELSE pc[c]]
    BY <1>7, StartScanAssumption DEF Restart, Kill
  <2>2. UNCHANGED <<rows, scans, req>>
    BY <1>7 DEF Restart, Kill, repoVars
  <2> QED
    BY <1>2, <2>1, <2>2, StartScanAssumption DEF Linked
<1>8. CASE UNCHANGED startVars
  BY <1>8 DEF startVars, repoVars, idVars, Linked, IdsInv, IdsTypeOK, NoIdClash, Holds
<1>9. CASE StartNext
  <2>1. (\A d \in Clients : Stage(d))' /\ (rows = {s \in Scans : scans[s] # Absent})'
    BY <1>3, <1>4, <1>5, <1>6, <1>7, <1>9 DEF StartNext
  <2> QED
    BY <1>1, <2>1 DEF Linked
<1> QED
  BY <1>8, <1>9

\* POST startScan from end to end behaves, to the repositories, as RepoService and, to the
\* ids, as ScanIds: a crash loses exactly the requests that ScanIds may lose.
THEOREM StartImplementsBoth == StartSpec => RepoSpec /\ IdsSpec
<1>1. StartInit => RepoInit /\ IdsInit /\ Linked
  BY InitLinked DEF StartInit
<1>2. [StartNext]_startVars => [RepoNext]_repoVars
  BY StepIsRepoStep
<1>3. Linked /\ [StartNext]_startVars => [IdsNext]_idVars
  BY StepIsIdsStep
<1>4. Linked /\ RepoTypeOK' /\ [StartNext]_startVars => Linked'
  BY StepKeepsLinked
<1> QED
  BY <1>1, <1>2, <1>3, <1>4, RepoTypeCorrect, PTL DEF StartSpec, RepoSpec, IdsSpec

\* What POST startScan promises, with the lookup, the search and the INSERT in three
\* statements, other requests and crashes in between: its scan has a repository, its id is
\* free, and its answer is true.
THEOREM StartScanCorrect ==
  StartSpec => []ScansHaveRepository /\ []NoIdClash /\ ImplementsCatalog
BY StartImplementsBoth, ScansAlwaysHaveRepository, IdsNeverClash, RepoServiceImplementsCatalog, PTL
=============================================================================
