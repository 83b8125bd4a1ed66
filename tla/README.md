# A TLA+ model of reposcanner

reposcanner is a Go service that clones repositories, looks for secrets in them and serves
the results over HTTP. This directory models it from the API to the line scanner, checks the models with TLC on
small instances and proves their safety with TLAPS for every size.

Contents: [the system](#the-system), [hard behaviours](#hard-behaviours),
[modules](#modules), [runs](#runs), [bounds](#bounds), [fairness](#fairness),
[proofs](#proofs), [findings](#findings), [disagreements](#disagreements), [not modelled](#not-modelled), [plan](#plan).

## The system

| component | state | operations | talks to |
|---|---|---|---|
| `engine.Scanner` (`src/engine/scanner.go`) | `tokens` channel, `jobBoard` under `jobBoardLock`, `jobBoardOpen` | `StartScan`, `StopScan`, `Work`, `CleanUp` | sends `JobUpdate`s on `Job.Result` |
| `engine.Controller` (`src/engine/controller.go`) | channels `Incoming`, `Cancelling`, `Quit`, the id generator, `QuitFlag` | `AddJob`, `RemoveJob`, `Stop`, `Run` | spawns `StartScan` and `StopScan` |
| `App` (`src/go/app.go`) | `ActiveJobs` under `ActiveJobsLock`, one `CancelFlag` and one `ScanRequestHandler` goroutine per scan | `AddScanRequest`, `RemoveScanRequest`, `ScanRequestHandler`, `CleanUp` | `AddJob`; receives from `Result`; writes the scan store |
| scan API (`src/go/api_scans.go`) | none | `AddScan`, `GetScan`, `DeleteScan`, `ListScans` | stores, `App` |
| scan stores (`src/go/store_scans_psql.go`, `store_scans_memdb.go`) | tables `scans` and `findings` | insert, retrieve, update, delete, list | PostgreSQL or memdb |
| repository API and stores | table `repositories` | create, read, update, delete, list | PostgreSQL or memdb |
| `SecretFinder` (`src/engine/secrets_finder.go`) | findings, the report channel, the line buffer | `FindSecrets`, `ScanFile` | files of the checkout |
| downloader, models, router, `main` | none that changes after start-up | | go-git, net/http |

A scan's life: `AddScan` inserts a QUEUED row, answers 201, and calls `AddScanRequest`, which
builds a job, leaves it to a goroutine blocked on `Incoming`, registers it in `ActiveJobs` and
spawns the handler. The `Run` loop receives the job and spawns `StartScan`, which puts it on
the board and spawns `Work`. `Work` waits for a token, looks the job up, sends ONGOING,
clones, scans, sends SUCCESS with the findings or FAILURE, and gives the token back. Each send
is unbuffered and meets the handler, which stores findings and status. `DeleteScan` deletes
rows and sends to the handler's `CancelFlag`.

What makes each component correct:

- **Scanner**: a token is taken and returned exactly once on every path; the board holds no
  entry nobody will remove; a worker works the job it was spawned for.
- **Controller**: ids are unique; every job received is started; a job cancelled is not
  worked.
- **App**: what is stored follows what the engine reports; a scan that is SUCCESS has its
  findings; every scan ends; nothing is left behind by a deletion, neither rows, nor
  goroutines, nor tokens.
- **Stores**: findings belong to a row; a deleted row stays deleted; a page lists each row
  once.
- **SecretFinder**: every match is reported once at its line, and the collector ends.

## Hard behaviours

The board is read by id after waiting for a token, and checked again between long steps, so
every check may be stale. `StartScan` and `StopScan` of a job run in goroutines of no fixed
order. Sends on `Result` block while a token is held. The handler reads a record, computes and
writes it back while a DELETE runs through its own three statements. Any statement, the
temporary directory and the clone may fail, and some of these errors are only logged. The
memdb stores check in one transaction and write in another, and count rows in a plain field.
The process may be killed between any two steps, and nothing but the database survives it.
The walker and the collector of `SecretFinder` meet on unbuffered channels, and its line
buffer joins lines of which some have been reported already.
`PROJECT.json` lists each such hazard at its line, with the properties that watch it.

## Modules

| module | what it models | how it corresponds to the code |
|---|---|---|
| `Scanner` | `engine.Scanner` in an open environment | `board`, `phase` and `tokens` are `jobBoard`, `jobBoardOpen` with the progress of `CleanUp`, and the length of the channel. `start`, `stop`, `reject` and `work` are the program counters of the goroutines of `StartScan`, `StopScan`, the refusal and `Work`; `cur` and `found` are `Work`'s locals `j` and `findings`; `sent` is the history of each `Result` channel. |
| `Engine` | `Controller` composed with `Scanner` | `incoming`, `cancelling` and `quit` are the goroutines blocked in a send to `Run`; `nextJobId` is the generator. |
| `ScanService` | `App`, the scan API and the PostgreSQL store, composed with `Engine` | `rows` and `findings` are the tables; `active`, `handler`, `upd`, `newsr` and `cancel` are `ActiveJobs`, the handler's program counter and locals and the blocked senders of `CancelFlag`; `cleanUp` is the progress of `App.CleanUp`; `add`, `del` and `get` are the requests. |
| `ScanLifecycle` | the abstract promise of the API: QUEUED, IN PROGRESS, SUCCESS or FAILURE, deleted | no code; `ScanService` implements it, its actions are mapped to the code that makes the step. |
| `ServiceRestart` | `ScanService` and the death of the process | `Crash` sets every variable but the tables and the histories to what `Initialize` and `ClearStores` make of it. |
| `ScanIds` | `NextId` and `Insert` over several processes | `next` is the generator's local `nextId`, `id` the request's `tmpId`; `FailLookup` and `RefuseRow` are errors of the two statements; `Kill` starts the generator again. |
| `RepoService` | the repository requests and the start of a scan on PostgreSQL | `repos` and `scans` are the tables, `used` the SERIAL column, `req` the requests with the HTTP status of their answers. |
| `RepoCatalog` | the abstract promise: every request is atomic and gets the answer that fits | no code; `RepoService` implements it. |
| `StartScan` | POST startScan from end to end: `RepoService` and `ScanIds` in one step each, with crashes | a request with `req[c].pc = "insert"` searches for its id; `TryInsert` is the INSERT under the primary and the foreign key, so `rows` and `scans` are one table. |
| `Pages`, `Paging` | `List` of all four stores, `ListScans` and `ListRepositories` | `table` is the order in which rows are read; `Wrap` is the arithmetic of `int32`; `seen` is what a client that pages on has been shown. |
| `MemTable` | a memdb table, `total` and the calls of the store | `call[p]` holds the program counter, arguments and locals of a call; `total` is loaded and stored in steps of their own. |
| `MemStores` | the two memdb stores | `MemTable` with the generator's channel and table `findings`, or with the unsynchronised field `nextId`; `store` says which. |
| `AtomicStore` | the abstract promise of the store interfaces | no code; `MemTable` is compared with it. |
| `MemService` | the users of `MemStores` | callers that do as they like, or a scan with its `ScanRequestHandler` and a `DeleteScan`. |
| `SecretLines` | the regular expression and the line buffer of `ScanFile` | operators on lines of symbols, one symbol for each kind of character the expression tells apart; `OnLine` is a turn of the loop. |
| `SecretFinder` | `FindSecrets`: walker and collector | `tree` and `content` are the checkout, `buffer` is `prevLine` with `prevLineCnt` and the findings of a line that are still to be sent. |
| `Scanner_proofs`, `Engine_proofs`, `ScanService_proofs` (with `ServiceRestart`), `ScanReports_proofs` (`ScanService` without database errors), `StartScan_proofs` (`RepoService`, `ScanIds`, `StartScan`), `MemService_proofs`, `Paging_proofs`, `SecretFinder_proofs` | theorems about the module named | see [proofs](#proofs) |
| `MC...` | constants for TLC | |

The modules are composed by EXTENDS: `Engine` takes the actions of `Scanner` and says who
calls them; `ScanService` does the same to `Engine`, and joins a send of the engine with the
receive of the handler, because the channel is unbuffered. One action is one access to shared
state: a section under a lock, a channel operation, an SQL statement or a committed
transaction. Local computation is part of the neighbouring action. In particular:

- `CheckBoardOpen` and `AddToJobBoard` are two actions, because `addToJobBoard` reads
  `jobBoardOpen` before it locks; `CloseBoard` and `ClearBoard` likewise.
- `Send` is one action for the four sends of `Work`; the program counter says which, and
  `AfterSend` where `Work` goes on. `endJobWithFailure` returns to the line after its call,
  so a failed `TempDir` is followed by the clone (`AfterDrop`).
- `Scan` joins the cancellation check with `FindSecrets`, which touches nothing shared; its
  result is any subset of `Findings`.
- With `Noop` the download and its failures are skipped.
- `ScanStore.Delete` is inlined in the DELETE request: `BeginDelete` (its Retrieve),
  `DeleteFindings`, `DeleteRow`; then `CancelRequest` and `SweepFindings` of `DeleteScan`.
- The foreign key of table `findings` is in `RowDeletable` and in `InsertFindings`.
- A committed write transaction of memdb is one step (memdb has one writer at a time), and so
  is a read transaction, which sees a snapshot. The check of `Update` and `Delete` is a
  transaction of its own, as in the code. `total` is a plain field without a lock, so `total++`
  is a load and a store; `return rs.nextId` with the deferred increment is two loads and a
  store. `panic` is the failed type assertion of `List`, which net/http recovers.
- A table is a sequence for `List`: the index order on memdb; on PostgreSQL the order of a
  sequential scan, in which an UPDATE puts the new version of the row behind the others.
- `repos` has the foreign key of `scans` in `Deletable` and `References`.
- A statement that returns rows may fail, or break off between two rows: `ListFindings` and
  `List` do not ask `rows.Err()`, so the rows so far are the result. `get[r].pc = "cut"` and
  `failed` record that this has happened; no action reads them.
- `NextEntry` is `filepath.WalkDir` of Go 1.18, the version in `go.mod` and in the Dockerfile:
  SkipDir for a directory whose entries cannot be read also ends the loop over the directory
  above it (Go 1.19 changed that).
- A finding is sent when the collector takes it, because `reportCh` is unbuffered; the end of
  the walk likewise.

The variable `id` of a job that has not been built is `NoId`; scan `s` runs as job `s`, and
its scan id is `s` itself, since the ids of one process are never reused.

## Runs

Runs that pass:

| run | instance | what it shows |
|---|---|---|
| `engine_safety` | `EngineFairSpec`; 2 jobs, 1 token, failing clones, cancellation, Stop and CleanUp at any time | `TokenAccounting`: tokens equal the workers in their section. `BoardEntriesAreLive`: no entry outlives its worker. `WorkersServeTheirOwnJob`, `UpdateProtocol` (ONGOING, one final status, nothing more), `OnlyClosedBoardRefuses`. `JobsComplete`, `WorkersEnd`: nobody waits for a token for ever. |
| `service_safety` | `ServiceFairSpec`; 2 scans, 1 token, 1 DELETE, failing clones | `UnfinishedIsAttended`: a row that is QUEUED or IN PROGRESS has somebody who will finish it. `SuccessIsComplete`; `RowFollowsReports`: no report is lost or overtaken by an older one. `OnlyDeletedScansStrand`: a worker that waits for a receiver for ever belongs to a deleted scan. `ScansFinish`, `RegistryDrains`: unless a scan is deleted, all end. |
| `service_faults` | `RestartSpec`; 1 scan, 2 DELETEs, 1 GET, CleanUp, crashes at any time; every statement, TempDir and clone may fail | `ImplementsLifecycle`: refinement of `ScanLifecycle`, wherever the process dies. `DeletedStaysDeleted`, `TimesMatchStatus`. `GetShowsStoredResult`: the order of the two reads of GET against the two writes of the handler; a GET that answers SUCCESS shows all that is stored, or a part of it when the database broke off. |
| `start_scan` | `StartFairSpec`; 3 requests of any kind, 1 repository, 5 numbers for scans, deletions, 1 crash, 1 failing lookup, other statements fail at will | `ImplementsCatalog`: every request is atomic and its answer true. `ScansHaveRepository`, `NoIdClash`; `PostsAreAnswered`: the search for an id ends. |
| `paging` | both backends, tables of up to 3 rows, every offset and page size of a 4-bit integer, given or left out, 2 updates; count and query may fail, or the rows break off | `AnswersThePage`: a request with a page size (or without a body) and an offset that is not negative gets exactly its page and the total, or 404; no arithmetic wraps and no iterator runs out; a failing database makes of this 500 or the start of the page, and nothing else. `WalkShowsAll`: paging shows no row twice, and every row unless the database fails, while the order of the table stays. |
| `mem_service` | 3 calls of any kind at once on either store, 3 ids; or 1 scan, its reports and 1 DELETE | `TotalCountsRows` (up to the width of an `int32`), `AtomicButForLateWrites` (refinement of `AtomicStore`): the only ways in which `total` and the records go wrong are named. `PanicsOnlyOutOfStep`: so are the ways in which a `List` comes to panic; each of the four occurs alone. `InsertedIdsAreUnique` for scans. `QuietDeleteIsWhole`: a DELETE that does not overlap the storing of a report leaves nothing. |
| `secret_finder` | every file of up to 3 lines out of 13; trees of 7 entries in 3 levels, 3 contents; with fairness | `FinderTypeOK`: the buffer is a run of lines of the file. `NoLineMissed` and `OnlyScannedFiles`: a finding for every secret line of just the files that are neither in `.git` nor below or behind an unreadable directory. `WalkEnds`. |

Every property of these runs has a mutant in `PROJECT.json`: a plausible bug (the operator is
defined beside the one it replaces) with which TLC finds the property violated.

Runs that find a violation are described under [findings](#findings).

## Bounds

- **Two jobs.** The interactions are between a worker and a caller of the same id, and between
  two workers that compete for one token; two jobs give both. With one job fewer ids can clash
  and no token is awaited. What is proved of the engine and the service holds for any number.
- **One token** is the scarcest case: any leak stops the other job.
- **One finding**: properties only tell "all of them" from "fewer".
- **Two DELETEs and one GET** in flight let a DELETE race the handler and another DELETE. The
  faults are checked on one scan: scans meet only at tokens, the board and ids, which
  `service_safety` has and the proofs cover.
- **Three requests on one repository, five numbers**: a POST, the DELETE it races and one more
  that creates or changes; a second POST and the rows an earlier process left compete for
  numbers. `start_scan` is small, because its safety is proved for every size.
- **Three calls** of a memdb store: a lost increment needs two, an iterator that runs out an
  insertion, a deletion and a List.
- **Four-bit integers** for `List`: they wrap where 32-bit ones do, and with three rows every
  relation of offset, page size and total occurs, the largest and smallest values included.
- **Three lines**: a finding spans the buffer and the current line, so that a third line sees
  what a match leaves behind; the proofs hold for any number of lines. The 13 kinds of line are the empty and the blank line, prefixes,
  matches, two of them on a line, a match with a prefix behind it, what ends a prefix, text
  that is no match, and a line that is too long.
- **Seven entries**: a directory of each kind stands in a directory, with a file before, below
  and behind it on both levels, so that each way on for the walk (into, past, out of) differs.
- **Crashes**: any number of them in `service_faults`. In `start_scan` one, which leaves old
  ids and lost requests for the process after it; the proofs about ids are for any number.
- `MaxCrashes`, `MaxErrors`, `MaxUpdates`, `MaxId` and the number of `Scans` are bounds of the
  models, not of the code.
- The id counter of the engine is bounded by the number of jobs, so the `uint64` never wraps.
  Each job is started, stopped and each request sent once; a client that repeats a request is
  another request. No variable needs a further bound.

Symmetry is used over the memdb callers only, in a run without liveness. Deadlock is not an
error: when all requests are answered every goroutine may have ended.

## Fairness

`EngineFairness` and `ServiceFairness` assume weak fairness of every step a goroutine can take
on its own (Go's scheduler runs every runnable goroutine), of the select cases of `RunOnce`
(select chooses among ready cases at random), and of a send meeting a waiting receiver. Weak
fairness is enough for tokens because each job acquires one once. In `Engine` alone,
`Deliver` is fair: the owner keeps receiving; in `ScanService` that is no assumption but the
behaviour of the handler. SQL statements and git return in the end, with a result or an error.
Clients owe nothing: no fairness for new requests, cancellation, Stop or CleanUp.
`StartFairSpec` lets a POST that has found its repository go on, and `FinderFairSpec` lets the
walker and the collector run; files and statements answer in the end.

## Proofs

The proofs about the engine hold for every `Jobs`, `Ids`, `Findings`, `Limit` and fault. They assume
`ScannerAssumption` (a positive limit, distinct null values, Boolean switches) and
`EngineAssumption` (ids are natural numbers), which TLC evaluates on every run.

**Scanner** (`Scanner_proofs`). `ScannerInv` is inductive. `TokenAccounting` by itself is
not: a worker is spawned by `StartScan`, so one must know that it did not exist before
(`StartedJobs`). `BoardEntriesAreLive` is not either: `Work` removes the entry under
`j.Id`, and must be known to hold a job under its own id (`CurrentJobs`), which in turn comes
from `BoardEntriesAreLive` at the lookup. There is one lemma per action with one step per
conjunct; the lemma `SameHolders` serves all actions that move no worker in or out of the
section, and the two that do use the cardinality theorems. Results: `ScannerTypeCorrect`,
`ScannerTokens`, `ScannerBoard`.

**Engine** (`Engine_proofs`). `EngineIsScanner`: each step of the engine is a step of the
scanner or leaves it alone, so the scanner's invariants carry over. `EngineInv` adds
`UniqueIds`; from it follow `EngineRefusals` and `EngineWorkers` (the job a worker finds under
its id is its own). `EngineReports` proves `UpdateProtocol` under the assumption
`~TmpMayFail`, which it needs: `ReportsFollowWork` ties what was sent to where the worker
stands, including the case that a failed clone walks on to the next cancellation check and
must find its job off the board; `RefusedJobsReportOnce` covers refused jobs.

**Service** (`ScanService_proofs`), for every number of scans, DELETEs and GETs, whatever
statement, clone or temporary directory fails, with `CleanUp` and any number of crashes
(`RestartSpec`). `DeletedStaysDeleted` is not inductive: a DELETE reads the status, deletes
findings and deletes the row in three statements, while a handler that has read the row stores
findings and status later. One must know that the status a DELETE acts on is final, and which
rows have findings. `ServiceInv` says for each scan what its actors may rely on from each other:

- `AddInv`: there is no handler before AddScan has returned, and the row is as it was inserted;
- `ReceivedInv`: where `Work` and the handler stand fits what the handler has received;
- `StoredInv`: the row the handler is about to change has the status its update starts from,
  and the times that go with it;
- `FindingsInv`: findings are stored only for a row that is, or is about to be, a success;
- `DeleteInv`: a DELETE past its row has deleted it, and only a DELETE has;
- `GetInv`: a row a GET has read as a success is still one, or gone.

`RefusedJobsIdle` (from `Engine_proofs`) adds that the worker of a refused job finds no job on
the board, so that its handler receives one FAILURE and nothing else. `RestartInvNext` covers `Crash`: all but the tables and the histories is
reset, and each part holds of what is left. From `ServiceInv` follow `ServiceTypeCorrect`,
`ServiceDeletes`, `ServiceTimes`, `ServiceGets` and the refinement
`ServiceImplementsLifecycle`, step by step: an insert, an update that meets its row and the
deletion of a row are steps of `ScanLifecycle`, and so are the storing of findings (`Publish`)
and their deletion (`Purge`); all else is a stutter. It assumes
`ServiceAssumption` (the null row is no row).

**Reports** (`ScanReports_proofs`). With the database answering (`~DBMayFail`, a hypothesis of
the theorems, without which they are false: an error of `InsertFindings` is only logged) and
without crashes, `ReportsInv` is inductive together with `ServiceInv`. `LastReceived`: the
handler has got whatever was sent, as the channel is unbuffered. `SettledInv`: the row shows what the handler has got, unless the
handler is between its receive and its update. `CompleteInv`: what a successful handler stores is what `Work`
found, and only a DELETE that goes on to the row takes it away. `AttendedInv`: a handler ends
early only for a deleted scan or `CleanUp`. Hence `ServiceReports`, `ServiceSucceeds`,
`ServiceAttends` (also assumes that `CleanUp` is not called) and `ServiceStrands` (also assumes
`~TmpMayFail`, as `service_tempdir` shows it must). The hypotheses are those of the run
`service_safety`, where TLC checks the same properties.

**Repositories** (`StartScan_proofs`), for every number of clients, repositories and scans,
from `RepoAssumption` (null values are told apart). `RepoTypeOK` with `ScansHaveRepository` is
inductive: a scan is inserted only where `References` holds, and a row goes only where
`Deletable` does, in one statement each. `RepoServiceImplementsCatalog` covers failing
statements too: the catalog may then refuse a request with 404, because GET and AddScan answer
an error so. Its invariant `PendingSilent` says that a request that is not done has shown
nothing; each action is then an action of the catalog, and the lookup of AddScan a stutter.

**Ids** (`StartScan_proofs`), for every number of requests, crashes and errors. `NoIdClash` is
not inductive: `IdsInv` adds that the numbers held by requests are below `next` and different,
and that a number found free stays free, because only its holder inserts it.

**POST startScan** (`StartScan_proofs`), from `StartScanAssumption` (any client may post; scans
have positive numbers). `StartImplementsBoth`: a step of `StartScan` is a step of `RepoService`
and one of `ScanIds`. The first holds by itself; the second needs `Linked`, which ties where a
request stands in the one to where it stands in the other, and `rows` to the scans that are
there, so that a crash loses only requests `ScanIds` may lose. With it the invariants of both
and the refinement of the catalog carry over: `StartScanCorrect`.

**memdb** (`MemService_proofs`), for every finite set of callers, every bound of ids, every
content and every width of int. They assume `PagesAssumption`, `MemTableAssumption`,
`MemStoresAssumption` and `MemServiceAssumption` (in particular: the callers, the handler and
the deleter are different). `MemInv` is inductive. `TotalCountsRows` compares a plain field
with what it should count: the rows, less what is still to be counted, plus `drift`. Every
step moves one of these by one, `FiniteSetTheorems` give the cardinalities, and `WrapStep`
that `total++` on a value that has wrapped is the wrap of the increment. A caller that has
loaded `total` stores what it loaded plus one, so as long as nothing has raced the value
loaded is the value there. `IdsInv` is what `InsertedIdsAreUnique` and "an Insert of a scan
meets no row" need: ids given out are below `nextId`, different, and rows are below it.
`QuietInv` follows one scan: unless its DELETE overlapped the storing of a report, the handler
finds the row gone or waits. `MemAtomic` shows the refinement of `AtomicStore` but for the two
late writes: a call takes effect in the step that commits its transaction or finds its record
missing, and every access to `total` stutters. `PanicsOnlyOutOfStep` follows from `MemInv`
alone: without a lost count, a replaced row and a Delete that has still to count, `total` is at
most the number of rows. `List` reads the rows in the order of their ids
(`Ascending`); that every finite set of ids has one follows from `Rank`, the number of
ids up to one, without an induction.

**Paging** (`Paging_proofs`), for every width of int, every number of rows that fits
(`Rows` at most `MaxInt`: a table with more overflows `total`), every body with integers in it
and every number of updates. `WrapKeeps`: arithmetic that stays in range is exact; `MemPage`:
for a request that is not refused `PageLimit` and the iterator stay in range, so memdb takes
the piece of the table that LIMIT and OFFSET take; `PsqlBreaks`: rows that break off are the
piece of a smaller page; `PageAsked`: this piece is the page as it is specified, by positions. `AnswersThePage` needs `ListInv`: between count and query the
table may be reordered but keeps its length. `WalkShowsAll` needs `WalkInv`: a client that
pages on has the first rows of the table, in order, and asks for the next (`WalkGoesOn`).

**Secret finder** (`SecretFinder_proofs`), for every checkout that is a tree with lines of
symbols in its files (`CheckoutsAssumption`: an entry is followed by what is below it, and only
the root can be missing) and a `NoLine` that is no number (`NoLineAssumption`).

- `OnlyScannedFiles` is not inductive: `WalkerInv` says that the walker has passed the last
  entry of every directory it has skipped, with an unreadable one the last of the directory
  above it, and that a finding still to be sent is of a file, the
  current one. The nesting of the tree is needed: otherwise a directory skipped within a skipped
  one might reach beyond it.
- `FinderTypeOK` needs to know what one turn of the loop over the lines leaves in the buffer
  (`OnLineIs`). That is the last of the groups of the text: `FindAllStringSubmatch` looks on
  behind each match, so every group but the last has its token (`GroupsOf`), since one without
  reaches the end of the text, and a group with its token empties the buffer (`AllGroups`). So
  only the whole text, or the current line, is ever kept; with `TextOfMore` (one more line behind
  those put together) `LineInv` is inductive.
- `NoLineMissed` needs that a line with a secret has a full group also behind whatever is
  buffered (`SecretIsMatched`). What is matched from the buffer can run into the line; but a match
  that runs over a keyword has taken it as its token (`KeywordIsToken`), so it is full itself and
  its finding covers the line, and any other leaves the match of the line alone (`FullBehind`).
  `FoundInv` then follows the findings: those of every file the walker has passed are
  collected, those of the lines read of the current one are collected or waiting to be sent.
  `PassedOver` says that the entries the walk skips are those below `.git` and those cut off: it is the converse of
  `OnlyScannedFiles`.

The groups, the fold over them and the lines put together are recursive functions. That they
have values, and what these are, is shown by induction in a form the provers can use: a set of
numbers that has 0 and, with each number, the next is `Nat` (`AllNumbers`), which follows from
the least number of its complement (`LeastNumber`, from `WFMin` and `NatLessThanWellFounded`).

Every safety property and every refinement of the passing runs is proved. Only model-checked is
liveness: `JobsComplete`, `WorkersEnd`, `ScansFinish`, `RegistryDrains`, `PostsAreAnswered` and
`WalkEnds`. That `Groups` matches what the regular expression of `ScanFile` matches is neither
checked nor proved: it is how the model defines the expression.

## Findings

Each is a run with one property, quoting the documentation, which TLC finds violated:

| run | what the code does | what it says |
|---|---|---|
| `scanner_duplicate` | `StartScan` spawns `Work` for a job it rejects; it works the other job of that id again | `TestStartScanRejectsDuplicateJobIds` |
| `engine_cancel` | a cancelled job still sends: `StopScan` may run before `StartScan`, or between `Work`'s last check and its send | `RemoveJob`: "No further data should be expected from the results channel." |
| `engine_cleanup` | a job is put on the board after `CleanUp` emptied it, because `jobBoardOpen` is read outside the lock | `CleanUp`: "Close and clear the job board" |
| `service_cancel` | DELETE ends the handler, not the job; the worker blocks in its next send with its token for ever, so five such deletions stop all scanning | swagger: "Deleting an incomplete scan will cancel it." |
| `service_tempdir` | a failed `TempDir` and a failed clone send FAILURE twice; the second has no receiver | README: new scans "will block until previously executing scans are completed" |

`OnlyDeletedScansStrand` and `ScansFinish` are the converse: without a deletion, a failing
`TempDir` or a database error no worker is left without a receiver. `SuccessIsComplete` is
stated without database errors: an error of `InsertFindings` is only logged, and the scan
becomes SUCCESS with no findings; `ScanLifecycle` allows that.

## Disagreements

Other places where the code does not do what its documentation says. The models have this
behaviour; the properties exclude or name it, and no run is spent on it.

| where | what the code does | what it says |
|---|---|---|
| `App.Initialize` | after a restart unfinished scans stay QUEUED or IN PROGRESS; nothing is read back (`UnfinishedIsAttended` is checked without crashes) | swagger: "the current execution status of this scan" |
| `ScanStorePsqlDB.NextId` | after a restart the id of a deleted scan is given again (`NoIdClash` only speaks of rows that exist) | swagger: "unique id for this scan" |
| `RepoStorePsql.Delete` | DELETE of a repository with scans answers 500, because of the foreign key (`Deletable`) | swagger: "including all related scans and findings" |
| `App.ModifyRepository` | PUT without a branch stores an empty one | swagger: `default: "main"` |
| `ScanStorePsqlDB.List` | no ORDER BY: an update between two pages makes one row appear twice and another not at all (`WalkShowsAll` requires a fixed order) | README: "a paginated list of all scans" |
| `List` | a negative offset is answered with a page, a panic (memdb) or 500 (PostgreSQL) (`AnswersThePage` excludes it) | swagger: 404, "Parameters out-of-bounds" |
| `App.ListScans` | a body without pageSize asks for 0 rows and gets 404 (`AnswersThePage` is about bodies with a page size) | swagger: `default: 20` |
| `List` of all stores | skips `offset` records (`PageOf`) | the comments of `List`: "skipping offset-1 records from the start of the data store"; swagger agrees with the code: "start returning repositories from this position in the list" |
| `ScanStorePsqlDB.ListFindings` | rows that break off go unnoticed, as nothing asks `rows.Err()`: GET answers 200 SUCCESS with a part of the findings (`GetShowsStoredResult` names it) | "a list of findings on success, or nil and an error on failure" |
| `List` on PostgreSQL | rows that break off end the page too early, with 200 and the right total (`AnswersThePage` and `WalkShowsAll` name it) | README: "a paginated list of all scans" |
| `WalkDirHandler` | with Go 1.18 an unreadable directory takes the rest of the directory above it with it (`CutOff`) | the log: "Skipping directory %v due to error." |
| `ScanStoreMemDB.Update` | brings a scan deleted since its lookup back (an exception of `AtomicButForLateWrites`, counted in `drift`) | "Update an existing scan record in the data store." |
| `ScanStoreMemDB.Insert`, `Delete` | `total` loses increments (`raced`) | swagger: "total number of stored scans" |
| `ScanStoreMemDB.List` | panics when it meets a Delete between commit and `total--` (`PanicsOnlyOutOfStep` names the four reasons) | "List returns a scan list ..." |
| `RepoStoreMemDB.NextId` | two inserts get one id (an exception of `AtomicButForLateWrites`) | "auto-generate the next unique id value" |
| `DeleteScan` on memdb | a DELETE while a report is stored leaves the scan or its findings (`overlap`) | swagger: "including all related findings" |
| `ScanFile` | the second finding of a buffered text is placed at a line without its keyword (`Covers` accepts it) | swagger: "the start of the block of code that produced this finding" |
| `ScanFile` | a keyword behind a match is lost at a blank line (`HasSecret` asks for the token on the line) | "buffer it and see if the token appears later" |
| `ScanFile` | lines after one of more than 64 KB are not scanned, silently (`Reachable`) | README: "attempts to find possible secrets committed to the repository" |

Those about memdb concern the store the README keeps for tests, which is also the one used when
`DATABASE_TYPE` is not `postgresql`.

## Not modelled

- The end of the process after `App.CleanUp` (`main`); CleanUp itself and what goes on after it
  are modelled.
- The content of repositories, the work of go-git, temporary directories on disk, request
  parsing, logging, routing, configuration.
- The error path of `GetScan` that answers twice when `ListFindings` fails is one answer here.
- On memdb: the foreign keys that are not there (a repository deleted under its scans, in
  particular), and `ListFindings`, which changes nothing. `MemService` has one scan and reports
  in the order of `UpdateProtocol`, instead of the engine.
- The error of `txn.Get` in `List` on memdb: it only says that the table or index does not exist.
- Several servers on one database. Their generators would collide; the README describes one.
- Pages while scans are inserted or deleted: a page and its total are then of different
  moments, as `List` runs two statements, and nothing is promised.
- `NextId` while the database fails for ever: it does not end.
- Senders blocked on `Incoming` or `Cancelling` after `Quit`: they exist only while the process
  ends.
- Data models beyond the fields named in the modules; logging, routing and the connection to
  PostgreSQL, which have no state that changes after start-up.

## Plan

What is left is outside of the modules rather than in them:

1. Liveness stays with TLC. `JobsComplete` and `ScansFinish` on a third job would need a
   coarser `Engine`, whose steps that touch neither the board nor a token are merged.
2. Several servers on one database, should the README come to allow it: `ScanIds` would get one
   `next` for each.
