# Verification of the DFIR collection kit

TLA+ models of the parts of this repository that carry its correctness: the
collection workflow between backend, agent and worker, the evidence vault, the
chain of custody, the audit log, the processing pipeline and the super timeline,
and the web client: its session, the request function, and the pages as they act
on the server. TLC checks them on small instances, TLAPS proves the central
properties of the backend, of the session and of the pages of an incident for every
instance.

Paths below are relative to the repository; `B` is `backend/app`, `E` is
`B/api/v1/endpoints`, `A` is `agent/internal`, `F` is `frontend/src`.

## 1. Inventory of the system

| Component | State it keeps | Operations | Talks to | What is hard |
|---|---|---|---|---|
| Incidents and jobs (`E/incidents.py`, `E/jobs.py`, `E/agents.py`, `B/crud/job.py`) | `incidents.status`, `jobs.status` | start, retry, cancel, close, create, claim, report, upload | agents over HTTP, Celery, scheduler | every handler reads, decides and writes at commit under READ COMMITTED; nobody locks the rows |
| Agent (`A/agent`, `A/jobs`, `A/api`) | the job it runs, its work directory | poll, run modules, check cancellation, pack, upload, report | backend over HTTP, S3 | lost replies, kills, cancellation between two checks, upload fallback |
| S3 ingest (`B/worker.py`) | the Celery task | download, extract, insert, lock, pipeline, retry | S3, vault, database | retries, an `except` branch that commits without rolling back |
| Scheduler (`B/worker.py`) | `scheduled_collections` | trigger due schedules | incidents and jobs | runs beside operators |
| Evidence vault (`B/core/evidence_files.py`, `E/agents.py`, `B/crud/evidence.py`) | per job: archive, extracted files, manifest, LOCKED marker; folder and item rows | upload, ingest, export | uploads, ingest tasks, close | files and rows cannot be committed together |
| Chain of custody (`B/crud/chain_of_custody.py`) | hash-chained rows per incident | append, list and verify | almost every handler | appended inside concurrent transactions |
| Audit log (`B/services/audit_log_service.py`, `B/crud/audit_log.py`) | one hash-chained log | record, list, prune | every handler | no sequence, no constraint, retention |
| Collection log (`B/crud/collection_log.py`) | numbered log lines | append, stream | status reports | read-then-insert numbering |
| Agent commands (`E/agent_commands.py`) | queue of live commands and results | issue, poll, answer | agent, operator | lost and late answers |
| Processing (`E/processing.py`, `B/services/artifact_parser_service.py`, `B/services/workspace_lock.py`, `B/worker.py`) | processing row per job, workspace lock, derived files and rows | trigger, run phases, retry, forced rebuild | uploads, S3 ingest, Celery, super timeline | files and rows change phase by phase; killed workers, late acknowledgement, retries beside rebuilds |
| Super timeline (`B/services/super_timeline_service.py`) | build row, DuckDB file, detections, lock of the incident | trigger, build, query | processing (shares its locks), Celery | file and rows are published apart; builds meet pipelines and each other |
| Schedules, legal holds, notes, hypotheses (`E/platform_features.py`) | one row each | create, change, release | scheduler, delete | a hold placed while a delete runs |
| Login and tokens (`E/auth.py`, `B/core/security.py`, `B/core/request_throttle.py`) | failed logins, lockout, sliding windows | login, refresh, logout | audit log | counters at their limit, in-process state |
| Settings (`E/settings.py`, `B/services/system_settings_service.py`) | the settings row and a cache | read, update | every handler | stale cache |
| Devices (`E/devices.py`, `B/crud/device.py`) | registration, last seen | register, heartbeat | agents | late heartbeats |
| API client and session (`F/lib/api.ts`, `F/lib/auth.ts`, `F/App.tsx`, `F/pages/Login.tsx`, `F/components/layout`) | the cookie of the browser, `dfir_session` of each tab, the phase of the login page, calls in flight | request with a second attempt, login, guard, logout | every endpoint | any call may be executed twice; sessions die while pages poll; tabs share the cookie and not the storage |
| Collection wizard (`F/pages/CreateIncident.tsx`, `CollectionSetup.tsx`) | form, module list, selection, profile | load, choose system, profile, modules, devices, submit | modules, devices, incidents | answers for another operating system arrive late |
| Execution page (`F/pages/CollectionExecution.tsx`) | started, polling, log, result | join or start, poll, abort | start, status and cancel endpoints | reload and return between a read and a start; the log cursor is on the server |
| Managed lists (`UserManagement`, `Collectors`, `LegalHolds`, `ScheduledCollections`, `CustomModules`, `HypothesisBuilder`, `ThreatHuntLibrary`) | a query, a form, a row being edited or confirmed | create, edit, switch, release, delete, run | their tables | an older fetch under way; a repeated request |
| Local lists (`Devices`, `IncidentTemplates`, three tabs of `AdminSettings`, `usePagination`) | a copy of a query, patched by hand; filters, page number | the same | their tables | closures and fetches that overwrite a patch; page numbers past the end |
| Settings (`AdminSettings`) | the settings object, masked secrets, markers of running checks | load, edit, save, reset, verify tools | settings endpoint | the whole object is written from a stale copy |
| Incident and processing pages (`IncidentHub`, `ProcessingStatus`, `useAdaptivePolling`) | a shared cache entry, two pollers, the log | trigger, close, poll | processing | pollers that stop, or run twice |
| Search pages (`Dashboard`, `AuditLog`, `IOCMatches`, `SigmaHits`, `YaraMatches`) | a cache entry per filter and page number, a selection | filter, page, bulk close, import | their tables | answers in any order, partly failed batches |
| Timeline page (`SuperTimeline.tsx`) | build status, rows per build, annotations | build, filter, annotate, import, export | super timeline | rows of earlier builds, annotations sent in a row |
| Agent modules, parsers, detection, reports, exports, single-query views | files and views | - | - | input/output and computation |

## 2. Modules

| Module | Models | Composes |
|---|---|---|
| `Collection` | incident and job status with every handler that writes them, the agent's run, the S3 task and the scheduler's trigger | - |
| `CollectionProofs` | theorems about `Collection` | `Collection` |
| `EvidenceVault` | directory and rows of one job against concurrent uploads and ingest tasks | - |
| `CustodyLog` | abstract specification: one append-only log per incident | - |
| `ChainOfCustody` | `create_entry` statement by statement, `list_entries`, `verify_entries` | `CustodyLog` through a refinement mapping |
| `ChainOfCustodyProofs` | theorems about `ChainOfCustody` | `ChainOfCustody` |
| `AuditLog` | `record_event`, `get_latest_entry`, `prune_old_entries` | - |
| `RecordsProofs` | theorems about `EvidenceVault` and `AuditLog` | both |
| `ProcessingPipeline` | requests, messages and workers of the processing pipeline, its lock and its outputs | - |
| `SuperTimeline` | builds of the super timeline beside the pipelines of the incident | `ProcessingPipeline`, with the workspace locks shared |
| `SuperTimelineProofs` | theorems about `ProcessingPipeline` and `SuperTimeline` | `SuperTimeline` |
| `ApiCall` | abstract specification: what a page may rely on when it awaits a call | - |
| `WebSession` | `request()`, the stored session, login page, guards, logout, with the server's login, lockout and sessions | `ApiCall` through a refinement mapping |
| `WebSessionProofs` | theorems about `WebSession` | `WebSession` |
| `PageCalls` | the same calls as a page sees them: sent, served, broken, sent again, settled | - |
| `CollectionWizard` | `CreateIncident`, `CollectionSetup` | `PageCalls` |
| `CollectionExecution` | the execution page and the handlers behind it | `PageCalls` |
| `CollectionExecutionProofs` | theorems about `CollectionExecution` | `CollectionExecution` |
| `PageFrame` | one page at work: component state, its query in the cache, its table, somebody else changing it, leaving and returning | `PageCalls` |
| `ManagedLists`, `LocalLists`, `AdminTabs`, `SettingsPage` | the pages that manage rows and settings | `PageFrame` (`AdminTabs` also `LocalLists`) |
| `ProcessingPages`, `SearchPages`, `TimelinePage` | the pages of an incident | `PageFrame` |
| `LiveConsole` | `AgentConsole.tsx`, `agent_commands.py` and the agent's command loop | `PageFrame` |
| `MCWebPages`, `MCWebConsole` | the two families of pages, one initial state per page | the modules above |
| `LiveConsoleProofs` | theorems about the live console and the pages of a processing job; which steps a page can take, calls in flight | `MCWebConsole` |
| `WebConsoleProofs` | theorems about the search pages, the timeline page and all pages of an incident | `LiveConsoleProofs` |
| `MCRecords` | the evidence of a job and the audit log in one run: they share no state, and TLC explores one or the other from the common initial state | `MCEvidenceVault`, `AuditLog` |
| the other `MC` modules | the constants of the instances | their module |

### Collection

State: `incident` and `job` are the status columns, `vault` the jobs with a
committed evidence folder, `notified` the jobs whose S3 object the backend has
acknowledged, `tx` what each database session is about to write, `at` where each
agent run and each S3 task is.

A backend handler is two steps. Its action (`StartCollection`, `Report`,
`CancelJob`, ...) reads the committed rows and opens a transaction with the
writes it computed; `Commit`, `CommitNotify` or `Rollback` ends it. SQLAlchemy
emits an `UPDATE` only for a column whose new value differs from the loaded one;
`IncidentWrite` and `JobWrite` say so, and that decides which concurrent writes
are lost. `Claim` is one step because `get_next_job` uses
`FOR UPDATE SKIP LOCKED`. The agent is `Executor.Run` from `start` to its last
report; each of its error returns, a lost reply (`LoseReply`) and a killed
process (`AbortRun`) are there.

Left out: the progress, phase and message columns; reads that change nothing;
the reads of one handler at different moments (they are one moment, the writes
another); incident deletion. `collecting_n` stands for every `collecting (n/m)`.

### EvidenceVault

One job, since jobs share neither directory nor folder key. `zip`, `files`,
`manifest`, `marker` are the directory, `folder` and `item` the committed rows,
`pend` what a writer has flushed, `pc` its next statement. A collection is one
archive with one file; its content is what tells two collections apart.
`CreateFolder` waits for another open insert of the same primary key, and
`RowsFail` or `IngestBreaks` is what a committed one leads to. The two writers
differ as the code does: the upload checks the marker first, locks before it
commits and removes the extracted files on a failure; the task never looks at
the marker, locks after it commits, and its `except` branch commits what was
flushed. `failed` is the part of the job's status that lets a second collection in:
`complete_job_upload` refuses a job that is completed or being processed, so a second
ingest needs a failure recorded by the first, that of its pipeline included.

### ChainOfCustody and CustodyLog

A request records the entries of its `Plan` one after the other: look for the id,
`SELECT ... ORDER BY sequence DESC LIMIT 1 FOR UPDATE`, `INSERT`. Choosing the
row and getting its lock are two steps, because PostgreSQL chooses from the
statement's snapshot and then waits; the row it returns afterwards is the chosen
one. An insert waits for an uncommitted row with the same key and fails on a
committed one. A `strict` entry fails its request, the others are recorded inside
`try/except`. The hash is a parameter; the instance uses its preimage. The
signature is a function of the hash and is left out.

`CustodyLog` is what readers are promised: each request appends a contiguous
block, in its order, or nothing; of its plan it may leave out the places of entries
that are not strict. The mapping reads the committed rows of an incident in sequence
order.

### AuditLog

The same discipline without sequence and unique constraint: the timestamp is
taken first, the latest row chosen, locked, continued. `Prune` is the retention
that runs whenever the log is listed. Clock ticks stand for microseconds. A request
that records several events keeps every row it continued locked until it ends, and
`CircularWait` is what PostgreSQL would report as a deadlock. That the log forks is
a behaviour of the model and no property (section 5).

### ProcessingPipeline

`status` is the committed row of a job, `lock` who holds `.pipeline.lock`. `out` says of
each output (parsed files, Sigma hits, `timeline.jsonl`, the matches of YARA and of the
indicators) which pieces it consists of: of the latest run, of earlier ones, half written.
That is a set because runs mix: the parsers write beside the files that are there
(`Parse`), the timeline is made of every CSV below `parsed/` (`Export`), matches stay
when their engine is not configured any more (`Detect`); Sigma hits and the timeline are
replaced. A forced rebuild moves the directories away first (`Prepare`).
A task is one request with its message: `at` is where the handler (`checked`,
`reserved`), the message (`queued`) or the worker is, `seen` the status the handler
has loaded. `Trigger` and `Reserve` are the two sides of the commit of
`trigger_processing`; `AutoProcess` is the end of an upload, `IngestProcess` of an
S3 ingest, whose pipeline runs inside its own task. A worker takes the lock without
waiting (`Lock`, `Busy`), then takes one step per phase, each of which writes its
output and commits; a stage may run, fail or not be configured. `Release` and `Busy` end in `RetryOrDrop`, Celery's one
retry; `Crash` frees the lock as the operating system does and puts the message
back, since it is acknowledged late. `TimeUp` is the soft time limit: in the code of the
pipeline it is an exception like others, in the event loop it cancels the pipeline past
its `except` clause and leaves the row RUNNING (`expired`).

Two things the code means to do and does not: the failure recorded after the last
retry goes to the table of collection jobs and is never reached, because
`retry(exc=exc)` raises the original exception; and the automatic super
timeline after a run imports `app.crud.system_settings`, which does not exist. The
phase markers are written and cleared but never read, so they are left out.

### SuperTimeline

One incident. `tl` is its row, `duck` the published DuckDB file, `moves` the
committed detections, each absent, of an earlier build or of the last one that
began; `tlock` is `.super-timeline.lock`. A build is a `Reader` of
`ProcessingPipeline`: it picks the completed jobs with a timeline (`Pick`), takes
their workspace locks one by one (`Acquire`), gives up when one is held
(`SourceBusy`), reads, frees them (`Merge`), renames the file (`SwapFile`) and commits
(`CommitBuild`). The webhook is sent while `tlock` is still held, which is why
`ReleaseBuild` is a step of its own. A build that runs out of time fails like others or
leaves BUILDING (`BuildFails`).

### WebSession and ApiCall

`cookie` is the session the browser sends, `stored` what a tab keeps in
`sessionStorage`, `path` and `phase` what it shows, `req` the calls of each tab by
purpose. A call goes through `Begin`, `Fetch` (the server may execute it and the
answer may be lost), `Retry` after a bad status or a network error, `LastTry`
after a timeout, and `Resolves`, `Rejects` or `Leaves`, the redirect of
`handleUnauthorized`. The server counts failed logins, locks the account, hands
out, expires and revokes sessions. `ApiCall` is the contract: at most `MAX_RETRIES`
executions, at least one when the call resolves, nothing known otherwise.

### PageCalls and PageFrame

`PageCalls` is `WebSession` without cookies: a call in one of a few slots, whose
`Served`, `Continued` and `Retries` steps are given by the page. A page that is
unmounted does not cancel its calls: `live` is cleared, the server still executes
them, and what the code does after the `await` still happens outside the page. A request that the
client gave up is not executed later by the server: aborting a fetch does not recall it,
so a very late execution is possible and left out here, as in `WebSession`
(`CollectionExecution` has it for the start, the one handler that is long enough:
`LateStart`).

`PageFrame` adds the query cache of react-query as the code uses it: `q` is the
entry with the version of the table it shows, an invalidation starts a fetch that
replaces the one under way unless the entry has no data yet, in which case it
joins it, and `Other` is a change made by somebody else. `db.ver` counts
the changes of the table, so that "older" has a meaning in the properties.

### The pages

`CollectionWizard`: `create` and `setup` are the states of the two pages, `jobs`
the last effect, the start request. `CollectionExecution`: `exec` is the state of
the page, `inc`, `job`, `log` and `cursor` the server's. A start is two steps,
`ReadStart` (the status is read, without a lock) and `FinishStart` (everything is written
in one transaction); between them other requests are handled, another start included,
and the client may give up (`LateStart`). `handling` counts the starts between the two,
`overlapped` remembers that there were two at once. `Agents` is the progress of agents
and scheduler: claims, reports, late ones too, and a due schedule; `Retry` and `Close`
are other clients. So an ended collection may be taken up again. `base` numbers log lines
across restarts, which delete them. `crossed` in `CollectionWizard` remembers that the
answer for a profile arrived after another system was chosen.
A page of `ManagedLists` or `LocalLists` is selected by `page`; the
operators that differ (`UserForm`, `HoldForm`, ..., `OnUser`, `OnHold`, ...) carry
the guards of each page and the shared ones (`RowChanged`, `ListArrives`, ...) what
their code has in common. `LocalLists` keeps the closures: a patch is applied to
the rows that the handler captured (`Closure`) where the code does so.
`SettingsPage` has the object as the server sends it and the secret it stores.
`ProcessingPages` has the two pollers as `stat` and `log` with the era of the
poller, since a flag that goes off and on starts another. `SearchPages` has one
cache entry per filter, text and page number. `TimelinePage` has the rows of a
key as the number of the build they came from. An import carries the annotations it
has still to send (`rest`) and goes on when the page is left; `RefuseBuild` is a build
refused with 409, 429 or 503.

`LiveConsole`: on the server `pend` is `_pending`, `wait` the commands with a result
queue, `chunks` what is in them; every socket has the state of its handler (`srv`) and
of both directions (`inn`, `out`). `agent` is the command the agent executes, `rest`
the one of `POST /run`. Sockets break at any moment and polls lose their answer. The
instance has two sockets and two commands (`MaxSock`, `MaxCmd`), enough for an old socket
beside a new one; the proofs hold for any number. `queue.remove` takes the first
occurrence (`RemoveFirst`).

## 3. Runs

| Run | Instance | Shows |
|---|---|---|
| `collection_faults` | 1 incident, 1 job, 2 sessions, S3, faults | `EvidenceBeforeSuccess`: no successful job without its evidence. `ClosedStays`: closed and drained is final. |
| `collection_fair` | 2 jobs, 1 session, no faults, fairness | `ClaimSettles`: a claimed job settles whatever operators do. |
| `custody_safety` | 4 requests on 2 incidents, faults, fairness | Chain intact, verifies on read, implements `CustodyLog`, every request ends. |
| `records` | 2 uploads, 2 ingests, faults; 2 sessions, 6 events, faults, pruning | `LockedWhenCommitted`: what an upload committed is locked. `RowsOnce`: committed rows are final. `NoCircularWait`: requests that record events never wait in a circle. |
| `vault_lock` | 2 ingests, faults | Expected violation of `LockedUnmodified`: a second ingest overwrites locked files (section 5). |
| `pipeline_recovery` | 1 job, 2 tasks, 1 killed worker, faults, fairness | `CompletedIsWhole`: a completed row stands beside outputs that belong together. `RebuildIsClean`: a forced rebuild leaves nothing of earlier runs. `RunningSettles`: a run that began gets an outcome. |
| `timeline_builds` | 1 job, 1 pipeline task, 2 builds, 1 killed worker, faults | `PublishedTogether`: DONE means file and detections of one build. `ReadsUndisturbed`: no pipeline writes what a build reads. |
| `web_session` | 1 tab, 2 users, lockout after 2 failures, 2 submits, 1 fault, fairness | `ImplementsApiCall`. `NeverStuck`: a call that finds its session dead brings the tab to the login page (`DeadCallLeaves`), a submitted form becomes usable again or leads on (`LoginSettles`). |
| `web_wizard` | 2 systems, 3 modules, 2 devices and an unregistered host, 2 edits, 1 return, 1 fault, fairness | `ChoiceFitsOS`: list, selection and lit buttons agree (`ListedFitsOS`, `FullMeansAll`, `SelectionFitsOS`). `LoadSettles`. |
| `web_collection` | 1 device and 1 scheduled job, 2 log lines, 2 events, 1 fault, fairness | `StartedOnce`: a second start needs two requests handled at once. `LogsInOrder`. `EndIsShown`: the page shows the end unless the collection is taken up again. |
| `web_pages` | tables of 2 rows, 2 calls at once, 3 events, 2 filter moves, 1 fault | `ChangesShown`: what was acknowledged is shown (`RowChangesShown`, `SavedIsFetched`). `PageNotEmpty`. `NothingStuck`: what is shown as going on has its request (`SpinnerHasCall`, `SettingsSpinnerHasCall`). |
| `web_console` | the same with 2 events; 2 builds; 2 sockets and 2 commands | `LogLinesOnce`, `NeverOlder`. `NothingStuck` (`PollersAlive`, `ImportHasCall`). `RowsAsNamed`: rows fit the filter and the build named beside them (`RowsFitFilter`, `RowsOfBuild`). `BulkCloseTruthful`, `NotesShown`. `QueuesBelong`. `ConsoleOutcome` (`AnsweredBeforeIdle`, `OutputBeforeExit`). |

The web runs also check a type invariant. The types of the backend modules are
proved (section 4), so their runs do not check them again.

Bounds of the backend. Two sessions are enough for every race between a read and a
commit, and two jobs for every wrong aggregate; a third adds interleavings of the
same kind. `collection_faults` has one job because its properties speak of one job
and of its incident. `MaxEvents` bounds the audit log: three events of each of
two sessions, so that a session holds a row, asks for the next one and meets a prune. The sessions of `collection_faults` are interchangeable, so symmetry is
used there; it is not used where a temporal property with fairness is checked.
`custody_safety` has a request with three entries, one with the same id on the
same incident, and two downloads by one user in the same second, which give
the same id on two incidents. `pipeline_recovery` has two messages and a kill,
so that a killed run, its second delivery and a forced rebuild meet. Jobs share
nothing in `ProcessingPipeline`, so one is enough there; in `timeline_builds` a
second job would matter for a build that holds some of its locks and is refused
the next. Two jobs are out of reach of TLC (more than 14 million states), and the
theorems of `SuperTimelineProofs` cover any number.

Bounds of the web client. Every property speaks of one page and of what was known
to it, so each page is explored on its own. Two calls in flight are enough for one to
overtake the other; a page that would need a third waits, as the analyst's next
click would. One fault is enough to lose the answer of an executed request, to fail a
second attempt or to let a call time out; a second fault only rejects what one
already rejects. Events (changes, departures, faults) are counted together, and a
page with more buttons begins with one less. `MaxMoves` bounds filters and page
numbers: two filters in flight and a way back. `web_session` has one tab: with two,
sharing a cookie, TLC does not finish; `DeadCallLeaves` says "unless the browser
got a new session" because a second tab can give it one.

Deadlock is not checked in the pipeline and timeline runs, where a request killed
between its commit and the message leaves a row PENDING that nobody takes further,
nor in the web runs, where a finished page with its bounds used up may rest.

Fairness. `collection_fair`: a handler that was started ends (Uvicorn and Celery
run it to its end), and an agent that is neither killed nor cut off takes its
next step. Strong fairness, since a step needs a free session that other requests
keep taking, and since the module list is finite although it reports progress
again and again. Operators promise nothing. `custody_safety`: a statement that
can run does run; PostgreSQL grants a lock when its holder ends. `pipeline_recovery`:
Celery delivers the messages it holds and a worker that is neither killed nor out of
time runs its task to the end. Nobody is obliged to trigger anything. `RunningSettles` is stated for
uploaded evidence: a pipeline that runs inside a killed S3 task is not repeated, and
its row stays RUNNING. It also excepts a run of the job ended by the time limit. The web runs with liveness: the server answers what it
receives or the attempt ends in an error or a timeout, the browser runs
continuations and timers of a page that is on the screen. Nobody is obliged to make
another call: `AppLayout` has no `refetchInterval` and some pages never call again on
their own, so `DeadCallLeaves` speaks of the tabs that do call. Analysts and agents
promise nothing.

## 4. Proofs

All proofs are for arbitrary constants, with the named assumptions of each
module (`CollectionAssumption`, `VaultAssumption`, `CustodyAssumption`,
`AuditAssumption`, `PipelineAssumption`, `SessionAssumption`, `ExecutionAssumption`,
`CallsAssumption`, `FrameAssumption` and `ConsoleAssumption`), which only give the constants their types and keep the null
values apart. Each inductive invariant was model-checked on small instances before it
was proved.

* `CollectionProofs`. `TypeCorrect`, `EvidenceFirst` (`EvidenceBeforeSuccess`),
  `ClosedForGood` (`ClosedStays`). `EvidenceBeforeSuccess` is not inductive: a
  transaction may be about to write a successful status, and an agent about to
  report one. `EvidenceInv` adds that an open transaction that will write a
  success also stores the folder or follows an acknowledged object, that an
  agent at `report` has its evidence in the vault or acknowledged, and that a
  reply will send an agent there only in those cases.
* `RecordsProofs`, about the evidence vault. `CommittedIsLocked`
  (`LockedWhenCommitted`), `RowsCommittedOnce` (`RowsOnce`).
  `VaultInv` adds that an upload about to commit has written the marker and that
  at most one folder insert is open, none beside a committed folder.
* `ChainOfCustodyProofs`. `ChainStaysIntact` (`ChainIntact`). `ChainInv` says of
  all rows, committed or not, that sequence numbers do not clash, that every row
  continues a committed row or one of the same request, and that the row a
  request is about to continue is visible to it. Nothing is assumed of the hash.
  `ChainVerifiedOnRead` (`VerifiedOnRead`) follows from it: a listing is sorted, so
  with rows that do not clash it is strictly sorted, and between a row and the row it
  continues there is no other. That neighbours in order mean all in order is an
  induction over a sequence, which is proved through the least counterexample
  (`LeastNatural`, from the well-foundedness of `<`); that a listing holds every row
  once needs the rows to be finite (`FiniteInvariance`).
  `TableIsAppendOnlyLog` (`ImplementsCustodyLog`) is the refinement. It needs two more
  facts. The rows of an incident that a request sees are numbered from 1 without a gap
  (`Whole`, `Numbered`: every number below that of a row is taken, because rows link
  down to number 1), so the log has a row for each number and a commit only adds
  numbers above the committed ones. And the rows of an open request have places in its
  plan (`InOrder`, `Placed`): rows of one incident in the order of the plan, every strict
  entry passed so far among them, no row shared with another request or with the table.
  So a commit appends, to each log, the entries of the plan that were not swallowed, in
  order; every other step, a rollback included, appends nothing.
* `RecordsProofs`, about the audit log. `RequestsNeverCircle` (`NoCircularWait`). `LockInv`
  says that no two events share a timestamp and none is ahead of the clock, that a held
  row is visible to its holder and held once, and that a request asks for a row no older
  than those it holds (`InOrder`). In a circle the request waiting for the latest row
  would wait for one that holds it and waits for no older row, so for the same one,
  which two would then hold. The latest row of a circle exists by well-foundedness, for
  the number of requests is any.
* `SuperTimelineProofs`, first about the pipelines alone. `TypeCorrect`,
  `CompletedStaysWhole` (`CompletedIsWhole`), `RebuildStaysClean` (`RebuildIsClean`). `PipelineInv` adds that a worker inside a workspace holds
  its lock, so there is one, that a run under way is not reported as completed,
  and that the outputs fit the phase it has reached (`Fits`): the hits are of the run, the
  timeline is what parsed files and hits are, and with `force` nothing is of another run. A request may write the row at
  any time, but never a completed status.
* `SuperTimelineProofs`, about builds beside them. `PublishedStaysTogether` (`PublishedTogether`),
  `ReadersAlone` (`ReadsUndisturbed`). `TLInv` extends `PipelineInv` with: a build at
  work holds the lock of the incident; one that reads holds the workspaces it
  picked; one under way has not been reported DONE, and one about to commit has
  renamed its file. Pipelines keep it because they only free their own locks, and
  builds keep `PipelineInv` because they never touch a lock a pipeline holds.

* `CollectionExecutionProofs`. `TypeCorrect`, `CollectionStartedOnce` (`StartedOnce`),
  `LogShownInOrder` (`LogsInOrder`). `PageInv` adds: the page is driven by its timer or by
  one call, never by two (`OneDriver`), so that no poll overtakes another; a start leaves
  PENDING for ever, and until two handlers were at work at once, those at work and the
  starts they made are one together (`StartsApart`), whatever agents, schedules, retries
  and abandoned requests do; and the lines of an answer under way follow those on the page,
  because the server's cursor is past both (`LinesFollow`), also when a start deletes the log.
* `WebSessionProofs`. `TypeCorrect` (`TypeOK`) and `RequestKeepsPromise`
  (`ImplementsApiCall`). The type is not shallow here: `issued` stays in `Session` only
  because a submitted form costs two sessions at most. `SessionsBounded` says so by
  counting, beside the sessions handed out, the answers that logins under way may still
  get (`Pending`); a second attempt uses up one, a submit adds two. `TabsFit` ties each
  request to the phase of the login page that made it and every session a tab or a
  request holds to one handed out, and says of a page's call that it was not executed
  more often than it was sent. From that every step of the client, the network and the
  server is a step of `ApiCall` for one caller, or none: `PageCall` is `Call`, a
  successful `ServePage` `Execute`, `PageOk` `Resolve`, `PageFails` `Reject`, `Reload` and
  `Expelled` `Unload`; sending again leaves the promise pending.
* `LiveConsoleProofs` and `WebConsoleProofs`. One state of `MCWebConsole` is one page at
  work, so the first module shows that a step keeps the page and that a handler only acts on its own
  page (`JobUserPage`, `SearchUserPage`, `TimelineUserPage`, `ConsoleStepPage`,
  `CallPage`); then every family of pages has an inductive invariant of its own.

  The console: `QueuesBelongHolds` (`QueuesBelong`), `ConsoleOutcomeHolds`
  (`ConsoleOutcome`). `ConsoleOK` says that a socket that is not open yet has no handler
  and nothing in either direction (`Blank`); that the queues are those of the handlers at
  work and of `POST /run`, each of which has a command of its own, and that a command
  waits for the agent once (`Waited`); that a command on its way to a handler is in one
  inbox, once, and has neither queue nor agent (`Inboxes`); that a command that was not
  executed yet has no result anywhere (`Silent`); that everything entered on an open
  connection is in its inbox, at work, answered on the way to the page, or told
  (`Owed`); and that along terminal, socket and queue the output stands before the exit
  code (`Told`). `QueuesBelong` alone is not inductive: without `Waited` two handlers could
  wait for one command, and the end of one would free the queue of the other.

  `IncidentHub` and `ProcessingStatus`: `LogLinesOnceHolds` (`LogLinesOnce`) and
  `PollersAliveHolds`. `JobOK` adds that there is one status fetch at a time
  (`StatusOnce`), that a poller of the present era has one log call, whose `after` is the
  last line on the page and whose lines follow it (`LogsOnce`), and that everything that
  waits has its call (`Alive`).

  Searches: `BulkCloseTruthfulHolds` (`BulkCloseTruthful`), `RowsFitFilterHolds`, and
  with the pollers `NothingStuckHolds` (`NothingStuck`). `SearchOK` says that cached rows
  fit their key (`Shown`), that a key is fetched once at a time and its answer fits it and
  is not older than what is shown (`Fetches`), that what a batch of CLOSE_ALL has to
  close is closed on the server or is the subject of a call in flight, until one was
  refused (`Batches`), that `closed` speaks of closed incidents (`AreClosed`), and that the
  import dialog waits for a call (`Blocked`). `Batches` is the heart: one answer of a batch
  says nothing about the others, only the absence of a refusal and of calls in flight
  together do.

  The timeline: `NotesShownHolds` (`NotesShown`) and, with the searches, `RowsAsNamedHolds`
  (`RowsAsNamed`). `TimelineOK` says that the rows of a key are of the build it names or
  of a later one, that the answers under way are too, and that the page names no build
  the server does not have (`Builds`); that the annotations are fetched once at a time
  and no fetch brings older ones than are shown (`Listed`); that annotations are changed
  only once they were read, one import at a time, and what was reported saved is on the
  server (`Noted`); and that what was saved is shown, or is being fetched, unless the last
  fetch failed (`Fresh`). `Fresh` alone is not inductive: a fetch that was answered before
  the save could still arrive, and it is `Noted` (the page has its list before it
  changes anything, so the invalidation replaces that fetch) that excludes it.

  All pages: `NeverOlderHolds` (`NeverOlder`), an action property. Only the answers of
  queries and the ends of mutations write the cache (`UsersKeepCache`,
  `CallsKeepCache`); an answer is not older than what is shown by `StatusOnce`, `Listed`
  and `Fetches`, and a mutation changes no version.

Only model-checked: liveness, which is out of the prover's reach (`ClaimSettles`,
`EveryRequestEnds`, `RunningSettles`, `NeverStuck`, `LoadSettles`, `EndIsShown`);
and the safety of the wizard and
of the managed and local lists. `TypeOK` of `MCWebConsole` bounds the versions by the bounds of the
instance and is checked as that; the types the proofs need are the first conjuncts of
their invariants.

## 5. Where the code and its documents disagree

Each of these is a behaviour of the models. One is shown by a run that must fail
(`vault_lock`); the properties of the other runs are stated so that they hold, and their
conditions name what had to be excluded.

Backend.

* `B/crud/job.py` 39 aggregates the jobs its own transaction sees. With two
  sessions, the last two reports of an incident each see the other's job outstanding and
  leave it in progress, or a report completes it beside a new job; no later event
  corrects that. The docstring at 29-33 says that it becomes complete only when every job
  completed. No property excludes it.
* `B/worker.py` 228 never looks for the LOCKED marker. The first ingest commits and locks,
  its pipeline fails and with it the job, the operator retries, and the second ingest saves
  and extracts over the locked files before the folder's key stops it: `LockedUnmodified`
  is violated (run `vault_lock`). `README.md` 313 says "LOCKED marker file prevents
  post-collection modification". The rows hold (`RowsOnce`).
* `B/crud/audit_log.py` 11: two concurrent requests continue the same audit entry and
  nothing refuses the second, so the log forks; `README.md` 37 calls it hash-chained. Two
  first events do it already, for there is no row to lock.
* `B/services/parser_execution.py` 69: outputs of an earlier run that was killed or failed
  stay below `parsed/` and are exported with those of the next, and `artifact_parser_service.py`
  403-407 and 419-420 keep the matches of an engine that is not configured any more. A
  completed row may stand beside a timeline of several runs; `CompletedIsWhole` says
  only that its parts fit each other, and `RebuildIsClean` that a forced rebuild is free of
  it. The phase markers that should make the pipeline idempotent are never read.
* `B/worker.py` 122-125: a pipeline cancelled by the soft time limit leaves its row RUNNING, and
  a RUNNING row refuses every trigger, a forced one included; the docstring at 109 speaks of
  graceful cleanup. `RunningSettles` excepts it.
* `E/incidents.py` 157-176 reads the status of the incident without a lock and commits it much
  later, so two starts handled at once both start: the second waits for the row, then deletes the log
  of the first and writes a second custody entry, against the comment at 179-181 (only the jobs
  are not doubled: it finds those of the first by their ids). `StartedOnce` says
  that nothing else does.
* `B/services/super_timeline_service.py` 295: a build delivered while the previous one
  still sends its webhook is acknowledged and forgotten (`BuildBusy`), and its row
  blocks later triggers; `E/processing.py` 677 says "Safe to re-trigger".
* The close gate compares with two statuses that no job has (`CloseGate`), a retry
  requeues jobs while others run (`B/crud/job.py` 31-33), a job can be created for a
  closed incident (`README.md` 429), and a request that read the incident before it
  was closed writes it back (`Drained` in `ClosedStays`; the bulk close of the
  dashboard meets the same write, which is outside its run).
* `FOR UPDATE` does not serialise custody appends: the row a waiting request gets may
  have a successor, and the unique key then fails the request. A list of all
  incidents' entries is verified as if it were one chain. A second download by one user in the same second
  has the same entry id and is missing from the chain; `ImplementsCustodyLog` permits that, as
  a swallowed entry.

API client and session.

* `F/lib/api.ts` 106 repeats every failed request, those refused with a 4xx and POSTs
  whose answer was lost included. A created row may exist twice, a wrong password
  counts as two failures (`GETTING_STARTED.md` 393 counts attempts), and the PATCH of
  `.../toggle` executed twice switches a schedule back, whatever the button said
  (`ScheduledCollections.tsx` 237). The second attempt has
  no timeout; a timeout is reported as 408 although the server may have executed the
  request.
* `Login.tsx` 768 expects to continue when `/users/me` fails; with a 401 the page is
  reloaded instead. The logout of `AppSidebar.tsx` 104 runs in the background and may
  revoke a session obtained meanwhile.

Pages.

* `useAdaptivePolling.ts` 12-13 says that polls do not overlap; when the flag goes off
  and on while one is in flight they do, and log lines are shown twice (`era` in
  `LogLinesOnce`). The last lines of a run are not fetched. `IncidentHub` stores `null`
  under the key that `ProcessingStatus` reads.
* `CollectionExecution.tsx`: leaving between the GET and the POST still starts the
  collection; log lines of a lost answer are lost, since the cursor is on the server;
  an aborted collection that is visited again polls for ever, and CLOSED is not an
  end (`EndIsShown` excludes both). A page that shows a collection as complete has stopped
  polling and does not see that a retry, a schedule or a late report took it up again. `agentIds` of `CollectionSetup.tsx` 661 is dropped.
* `CollectionSetup.tsx`: the answer for a profile is not compared with the system
  chosen meanwhile and may select modules of another one (`crossed`, which
  `ChoiceFitsOS` excepts); the start is then refused (`fits` in `CollectionExecution`), although
  the comment at 258-260 means to avoid just that. `CreateIncident.tsx` 72-73 accepts the same host twice.
* react-query: an invalidation during the first fetch joins it, so a row created then
  is missing from the list (`RowChangesShown` speaks of changed rows).
* `AdminSettings.tsx` writes the whole object from its copy, so what somebody else saved
  is lost, and a refetch overwrites unsaved edits; RESET (1447) only reloads; the
  check of one tool clears the marker of another; the handlers at 599, 615, 631 and 670
  patch the rows they captured and lose updates, as do 247, 267 and 277 of
  `IncidentTemplates.tsx`.
* `Dashboard.tsx`: rows selected while CLOSE_ALL waits are deselected without being
  closed. `SigmaHits.tsx` 125 fetches the old offset under the new filter first.
  `SuperTimeline.tsx`: search and dates keep the page number, `clearFilters` (620) does
  nothing, an import overwrites a colleague's annotation.
* `HypothesisBuilder` and `ThreatHuntLibrary`: the reset of a saved form is given to
  whichever row is being edited then; the end of any run clears the marker of all.
* `E/agent_commands.py`: a command popped by a poll whose response is lost is answered
  by the deadline only, as is a result above 1 MB (413); a command may run after its
  analyst was told that it timed out (`QueuesBelong` speaks of commands that were not polled). `AgentConsole.tsx` 85: the `onclose` of an old
  socket clears the reference to the new one.

## 6. Plan

Done: all modules of section 2 with their runs, and the proofs of section 4. Left, in
this order:

1. Proofs for the managed lists (`ChangesShown`) and the wizard (`ChoiceFitsOS`).
2. `CustodyAudit`: `ChainOfCustody` and `AuditLog` in one transaction, for the lock
   order of start, export and download.
3. A hold placed while a delete runs; the throttle; the settings cache; the
   staleness flag of the super timeline; requests executed after they were given up.

## 7. Not modelled

Collection modules and parsers of the agent, detection engines, reports, exports
to other systems and the migrations: they transform or show data and keep no state
of the protocol. Of the web client: pages that send one query or one request and
show its answer (`AIAnalysis`, `AttackChains`, `ChainOfCustody`, `CorrelationView`,
`EvidenceVault`, `IncidentReport`, `SIEMExport`, `ThreatIntel`), `IncidentTasks`, whose
form and status switch are those of the managed lists again, the audit tab and the Google account of `AdminSettings`, and layout, styles and
third-party widgets. `PROJECT.json` lists every component with its reason, and under
`hazards` what is hard to test with the properties that cover it or the reason why
none does.
