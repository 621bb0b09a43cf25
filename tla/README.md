# GOAT AI: specifications, model checks and proofs

TLA+ specifications of GOAT AI: of its durable jobs (code sandbox and
workbench), of what chat turns leave behind, of the stores, of who sees what, of
the model client, and of the programs around the server: the desktop shell, the
page, deployment and maintenance. TLC checks them on small instances; TLAPS
proves every safety property and every action property of the passing runs for
all values of the constants, so that only liveness rests on instances alone. Paths
without a first directory of their own are under `src/backend/`.

## 1. The system

A FastAPI process serves a React client, in a browser or in a Tauri shell that
starts the server as a sidecar. SQLite or Postgres holds the runtime metadata, an
object store the bytes. The security middleware runs on the event loop;
synchronous handlers and the steps of response generators run in worker threads,
40 of which all requests share; background
work runs in threads of `ThreadBackgroundJobRunner` or in FastAPI background
tasks; at startup one daemon thread per durable subsystem recovers what a
previous process left (`main.py`, `_build_lifespan`). Nothing but the database
and the object store survives a process.

Logins, sessions, API keys and tenants are still in the tree but not in the
program: `main.py:147-157` mounts no router of theirs and `load_settings` raises
on each of their settings (`config/settings.py:427-433`). Every request takes the
last branch of the middleware (`platform/http_security.py:351-356`), as the same
local principal of the default tenant with all scopes; only the owner header tells
callers apart. That branch asks no rate limiter: **no request is limited**, though the
operators' documentation counts on it (section 5). So the accounts and the limiter
are not modelled, and the access model has that one branch. What releases with
tenants left in the tables is modelled, as rows which a request may meet.

| Component | State | Operations | Interacts with | Hard behaviours | What makes it correct |
|---|---|---|---|---|---|
| Code sandbox: store (`code_sandbox_execution_store.py`, `code_sandbox_log_store.py`, `code_sandbox_runtime.py`) | execution row, log chunks, event timeline | create, mark started / completed / failed / cancelled, append chunk, append event | every actor below, one transaction per call | the guards of the two backends differ; an update that matches no row must leave no event | row and timeline agree; a settled row never changes |
| Code sandbox: service, supervisor, recovery (`code_sandbox_execution_service.py`, `code_sandbox_supervisor.py`) | cancel events in memory, the worker's place, the recovery thread's list | execute, request_cancel, release, reap running, replay queued | store, provider | two workers may take up one execution; the reaper runs while requests are served; stale reads | one launch; nothing stranded; everything settles |
| Code sandbox: HTTP (`application/code_sandbox.py`) | none of its own | submit (sync, async), retry, cancel, log stream | store, supervisor, worker | decides on reads made before its writes; waits for an acknowledgement with a timeout; three transactions per retry | replies stay true; the stream delivers the whole log; lineage is mutual |
| Code sandbox: providers (`code_sandbox_provider.py`) | a container or process, pump threads, a queue | write stdin, stream chunks, decide the outcome, kill | worker, cancel event | deadline, cancellation, end of the program and the pumps race; input that is not read; pumps that break; reads that end inside of a character | a completed run has what its program wrote in the log; a run ends |
| Workbench tasks (`workbench_task_store.py`, `workbench_execution_service.py`, `application/workbench_task_lifecycle.py`, canvas and research executors) | task row, timeline, research state in memory | create, retry, cancel, execute by kind, recover | store, language model, retrieval sources | the same two takers, an interrupting recovery, partial results, loop counters | a cancelled task never ran; a completed one has its result; nothing stranded |
| Workspace outputs (`workbench_workspace_output_store.py`, `application/workbench_workspace_outputs.py`) | the canvas output and the list of its exports | create, export | artifact store, timeline | read-modify-write of the whole list; the artifact is registered before it is linked | links name stored artifacts |
| Idempotency keys (`idempotency_service.py`, `application/chat.py`, `application/upload.py`) | one record per (key, route, scope), with an expiry | claim, replay, store completed, release, expire | chat stream, upload, session and conversation log | disconnects at any chunk, a claim outlived by its TTL, failing release, crash | one at a time; replays are one's own; a key is not in progress for nobody |
| Chat turns (`chat_stream_*.py`, `chat_orchestration.py`, `session_service.py`, `session_message_codec.py`, `log_service.py`, `application/history.py`) | the buffer of one stream; the session row, its messages, artifacts, log | stream, call tools, moderate, persist; rename, delete | language model, safeguards, stores | text held back across yields, a session read before the model call and written after it, a `finally` clause that may run on a disconnect | nothing leaves unreviewed; a turn is stored whole or not at all; no rename is overwritten |
| Safeguards (`domain/safeguard_policy.py`, `safeguard_service.py`) | none | review input, review output | chat turns | a phrase that spans tokens | see above |
| Rate limiter (`domain/rate_limit_policy.py`, `rate_limiter.py`, `rate_limit_store.py`) | instants per subject | evaluate | nothing that a request can reach | – | not modelled: no request is limited |
| Accounts, sessions, OAuth (`routers/auth.py`, `account_*.py`, `browser_access_session.py`, `google_oauth_service.py`) | – | none is mounted | – | – | not modelled: unreachable |
| Authorization (`platform/http_security.py`, `authorizer.py`, `domain/resource_ownership.py`, routers) | rows with the ownership they were stored with | decide each request | every resource | ownership through chains of retries and exports, bindings of sources, rows of earlier releases | nobody is shown, changes or uses what is not theirs |
| Knowledge, media, uploads (`knowledge_*.py`, `media_service.py`, `goat_ai/uploads/object_store.py`) | rows, chunks, index file, bytes | upload, ingest, search, answer | object store, database, chat | two stores without a common transaction, two ingestions of one document, a restart | what is stored can be read; what is indexed can be found |
| Artifacts (`artifact_service.py`) | row and bytes | store, register, download | chat, exports | one of two writes fails | a link has bytes behind it |
| Migrations, snapshots (`db_migrations.py`, `runtime_metadata_*.py`, `alembic/`) | schema, ledger; the snapshot | migrate at start; export, import, compare | both backends | a start cut short between statements, an older release on a newer file, exports while the server writes | a server serves its own schema; what was compared is what was moved |
| LLM client (`goat_ai/llm/ollama_client.py`) | waiting tokens, slots; the worker threads; breaker, capability cache | calls of five kinds | Ollama, chat, workbench | a condition variable whose waiters look one by one and keep their threads, a stream that needs a thread per chunk, a generator broken off for a follow-up, retries | slots are counted; calls return; the breaker opens when it should |
| Maintenance (`tools/ops/`, `privacy_cleanup.py`) | log files, backups, the tables that name a chat | rotate, back up, prune, drill, purge | a server that goes on working | killed at any step; what the server writes between two steps | nothing old is lost for something new that is not there; only what may go goes |
| Deployment and releases (`tools/release/`, `ops/deploy/`, `ops/systemd/`) | the project tree, manifests, the port | build, install, start, verify, roll back | the host | a script that ends at any command; a port that is not free | what is said to be installed and serving is |
| Desktop shell (`frontend/src-tauri/src/main.rs`) | flags, the slot of the child, the window | start, retry, focus, close | the sidecar, which is a onefile program with the server as its child | events come late and in another task; a kill misses the server, or fails | no second sidecar beside one that was not stopped; the startup ends; it fails closed |
| Frontend (`frontend/src/hooks/`) | one page | chat, history, sandbox panel | HTTP API | answers out of order, a stream that outlives the chat it is for, an answer about the run before | chats stay apart; a log is of one run and in order; a watched run is shown at its end |
| Telemetry, tabular analysis, charts, configuration, repository tooling | counters, none | conversions, reports | – | – | – |

## 2. Modules

```
DurableLifecycle            what is promised of a durable job (abstract)
   ^ implemented by                ^ implemented by
SandboxSystem               WorkbenchSystem
  SandboxRuntime              WorkbenchRuntime
    SandboxStore                WorkbenchStore

StoresSystem  =  Idempotency | PostgresRuntime | Releases | Maintenance
                 | OwnerlessPurge | Cutover
ClientSystem  =  DesktopShell | ChatPage | SandboxPanel | SandboxProvider
ServerSystem  =  ChatSystem (ChatStream over ChatStore) | AccessSystem (Visibility)
DataSystem      Knowledge over Uploads over Migrations
LlmSystem       slots, worker threads, breaker and cache
```

The systems compose components that share state: a request passes the middleware
and then reads a row; a start dies and takes the ingestions with it; a call that
waits for a slot keeps a thread which the holder of the slot needs. The parts of
`StoresSystem`, `ClientSystem` and `ServerSystem` share none, so a behaviour follows
one of them, chosen in its first state (`part`): a run over the system checks each of
them alone. (A chat and its artifacts do appear on both sides of `ServerSystem`:
as texts and files in `ChatSystem`, as rows with owners in `AccessSystem`. No
property relates the two.)

`MCServer` and `MCData` hold the definitions an instance needs; the other
systems are instantiated by their `.cfg` alone. `Symmetry` stands at the end of
`SandboxSystem`, `WorkbenchSystem` and `StoresSystem`. `...Proofs` holds the proofs.
Properties stand at the end of the system they are about. Definitions marked
`Mutant:` or `Mutation:` are not part of any specification: each is a plausible bug of one
definition, used to confirm that a property notices it.

**One action is one transaction, one access to shared memory, one stretch under a
lock, or one event from outside** (a chunk, an outcome, a disconnect). Everything
a handler does between two of those is in the same action, because nobody else
can see in between. Where a call is several transactions, it is several actions.

| Module | Models | State and actions |
|---|---|---|
| `DurableLifecycle` | – | `status`; accept, start, settle once, cancel from `CancelFrom` (`queued` and `running` for executions, `queued` for tasks). `FairSpec`: accepted jobs settle |
| `SandboxStore` | the execution store | `status`, `detail` (the `error_detail` column, a name per message), `logSeq`, `output` (chunks in the stdout and stderr columns), `timeline`. `Backend` selects the guard of the completion, which differs: Postgres does not ask for `running` |
| `SandboxRuntime` | service, supervisor, recovery | `token` is `_cancel_events`; `pc`, `verdict`, `kept` a worker's place, outcome and accumulators; `phase`, `todo`, `reaping` the recovery thread with the columns the reaper read and later writes back. A worker is `<<e, "api">>` or `<<e, "recovery">>`, the replay, which has no supervisor and never hears a cancellation |
| `SandboxSystem` | HTTP operations, restarts | `cancel`, `stream`: requests in progress; `origin`: the source of a retry; `Crash` forgets all but the store |
| `WorkbenchStore`, `WorkbenchRuntime`, `WorkbenchSystem` | workbench, the same split | `run` is the research state (ready sources, planned steps, hits, citations), so the loop's decisions are modelled: `ShouldContinue` is `advance_or_finish` with its thresholds 8 and 2. `linked` holds the exports of an output, `export` what an export read |
| `PostgresRuntime` | the Postgres repositories | committed rows, events and chunks; `connection` a transaction at its statement, with its uncommitted writes; row locks, unique constraints, READ COMMITTED reads. Shows that the calls `SandboxStore` and `WorkbenchStore` take for one step may be taken so |
| `Idempotency` | the key and its two routes | one record with payload hash, response and remaining time; requests through chat (claim, stream, write, done, store) or upload. A closed generator is resumed where it was suspended: the capture releases the claim, then `CloseSource` runs the `finally` clause, which may still persist |
| `ChatStore`, `ChatStream`, `ChatSystem` | a turn from its first read to the end of `finally`, with its safeguard | texts are short sequences of tokens, so that phrases span tokens; `run` a turn with its buffer, `out` what its client received; `session`, `visible` (message rows), `artifact`, `object`, `convlog`; paths with tool call, knowledge and web search; rename and deletion between their check and their write |
| `Visibility`, `AccessSystem` | the reachable branch of the middleware, every route on stored resources | `settings` as records; `row` every resource with the ownership it was stored with, `reply` the last answer |
| `Migrations`, `Uploads`, `Knowledge`, `DataSystem` | starts, uploads, ingestion, search | schema, ledger and rows statement by statement; bytes and rows apart; one thread per request |
| `LlmSystem` | `_InferenceConcurrencyGate`, the worker pool, breaker, cache | `waiting`, `active`, `asleep`, `notified`; `threads`, how many there are, `pool`, who has one: a waiter keeps it, a stream gives it back after each chunk; `breaker`, `cache`, `clock`; `client` the call under way |
| `Releases` | build, install, deploy scripts, post-deploy check, unit file | what each entry of the tree is of, the script at its command, the process on the port |
| `Maintenance` | rotation, backup and drill | the job at its step; lines, archives, backups; `lost`, what was truncated uncopied |
| `OwnerlessPurge` | the purge, on SQLite | `tables`, which tables have rows of each chat, also those the purge leaves; `owner`; the ids it selected before its transaction; who got an owner since |
| `Cutover` | export, import, comparison | rows per table, the snapshot, the transaction of the import |
| `DesktopShell`, `ChatPage`, `SandboxPanel`, `SandboxProvider`, `ClientSystem` | the programs around the server | threads, flags, and of each attempt the spawned process, its server and what its event task read; the page with its requests under way; stream, poll and answers; program, stdin, pump, queue and loop |

## 3. What is checked

`tlc -config X.cfg MODULE`. Distinct states are those of the completed search.

| Run (`.cfg`), module | Instance | States | Properties |
|---|---|---|---|
| `sandbox_races`, `SandboxSystem` | Postgres, 1 execution, 2 cancels, 2 boots, 1 chunk, failing store calls | 1,500,088 | `SingleLaunch`, `TimelineIsTrue`, `CancelReplyIsFinal`, `TerminalIsFinal` |
| `sandbox_stream`, `SandboxSystem` | SQLite, 1 execution, 1 cancel, 1 log stream, 1 chunk, fair | 306,143 | `LogIsWhole`, `StreamsEnd` |
| `sandbox_recovery`, `SandboxSystem` | SQLite, 2 executions with retry, 2 boots, fair | 469,519 | `NothingIsStranded`, `ImplementsLifecycle` |
| `workbench_tasks`, `WorkbenchSystem` | Postgres, 2 tasks (plan, canvas) with retry, 1 cancel, 2 boots, fair | 200,113 | `NothingIsStranded`, `CancelledNeverRan`, `ImplementsLifecycle` |
| `workbench_research`, `WorkbenchSystem` | SQLite, 1 task of any kind or a plan and its retry, 1 export, 2 sources, both engines, 3 steps, 1 cancel, faults, 1 boot | 720,112 | `TasksRunOnce`, `ResearchIsSound` |
| `stores`, `StoresSystem` | 3 requests, 2 payloads, TTL 2, 1 crash; 3 connections; 2 releases; 4 lines, 3 commits, 2 files kept, 2 jobs killed; 2 chats, 1 owner; 3 tables of 2 rows, 2 exports | 535,161 | `ReplayIsOwn`, `AnswersOncePerTTL`, `PendingHasOwner`, `TransactionsGetThrough`, `JobsAreAtomic`, `DeploymentsAreHonest`, `JobsLoseNothing`, `CutoverIsSound` |
| `server`, `MCServer` | SQLite, 2 turns of every path, 1 operation of the owner, faults; 3 owner headers, 3 deployments, what earlier releases left, a restart | 991,270 | `NothingUnsafeLeaves`, `TurnsAreWhole`, `BytesBehindLinks`, `RenameSticks`, `ReadersOwn` |
| `data`, `MCData` | starts of every release; 2 documents, 1 image, 2 ingestions, 1 query, fair | 649,034 | `StoredIsThere`, `StartsAreSafe`, `AttachedDocumentsAnswer`, `IngestionsEnd` |
| `llm`, `LlmSystem` | 2 clients, 4 calls, 1 slot, 1 or 2 threads, 2 ticks, fair | 128,975 | `SlotsAreCounted`, `ReadsAreSound`, `CallsReturn` |
| `client`, `ClientSystem` | 2 attempts; 2 chats, 2 turns, 2 requests; 2 executions, 2 chunks, 2 answers under way; a program of 2 chunks; fair | 369,417 | `OneSidecar`, `ChatsStayApart`, `LogsAreWhole`, `ShellSettles`, `WatchedRunsEnd` |
| `llm_overflow`, `LlmSystem` | 3 clients, 4 calls, 2 slots | – | `OnlyOverflowWaits`, violated (section 5) |
| `client_reveal`, `ClientSystem` | as `client` | – | `FailsClosed`, violated (section 5) |

A question about one run is one formula, a conjunction of named parts:

| Property | Parts | What it says |
|---|---|---|
| `TimelineIsTrue` | `TimelineSettlesOnce`, `StartComesFirst`, `ByRequestWasRequested` | the row is terminal exactly when its timeline holds one terminal event of that kind, though the worker, two cancel paths and the reaper write them; what presumes a start follows one; "cancelled by request" follows a recorded request |
| `CancelReplyIsFinal` | – | what a 200 reported stays true, also after a crash |
| `LogIsWhole` | `RunnerSettlesLast`, `CompletedOutputIsLog`, `StreamDeliversAll` | a completed run's columns hold its log; a stream that said done delivered every chunk (claimed for executions their runner settled: a reaped one whose runner is alive may still grow) |
| `NothingIsStranded` | `NoExecutionStranded` or `NoTaskStranded`, `LineageIsMutual` | an unsettled row has a thread that will act on it; retry and source name each other. Claimed while the store answers: with a failing one rows do wait for the next start |
| `TasksRunOnce` | `SingleClaim`, `TimelineSettlesOnce`, `CompletedCanvasHasOutput` | the background task and the recovery thread never both work |
| `ResearchIsSound` | `ResearchRestsOnEvidence`, `FollowUpsAreEarned`, `SynthesisComesLast` | citations and counts come from sources that answered; a further step is taken only when the last one earned it |
| `TransactionsGetThrough`, `JobsAreAtomic` | `NumbersNeverCollide`, `NobodyDeadlocks`; `ExecutionsAreAtomic`, `TasksAreAtomic` | Postgres calls never fail on a sequence number nor wait for each other in a circle, and each commit is one step of the stores' models |
| `DeploymentsAreHonest` | `InstallsAreHonest`, `DeploysServe` | a manifest is there only when the tree is of its release, wherever an install was cut short; a deploy that reports success serves its release, except where a stray server keeps a port that nothing frees (systemd, or no `fuser` and `lsof`) |
| `JobsLoseNothing` | `RotationLosesNothing`, `BackupsAreKept`, `PurgesSpareOwners` | lines are in the log or in an archive that is kept, except those the server wrote between copy and truncation (`WhatIsTruncatedIsArchived` claims those too, section 5); a good backup is not pruned for a torn one; a purge deletes no chat with an owner, except one that got its owner since the purge selected it (`OnlyOwnerlessGo`, section 5) |
| `CutoverIsSound` | – | an import is the whole snapshot or nothing, its references resolve though the server wrote during the export, and Postgres gives no imported number out again |
| `NothingUnsafeLeaves` | – | no forbidden phrase in what a client received, in whichever tokens it came |
| `TurnsAreWhole` | `DoneIsComplete`, `StoredIsWhole`, `DoneIsSaid` | done is said of a whole answer; the history holds whole answers or a refusal (an unreviewed answer may be cut where its client left); a client that stays is told done |
| `BytesBehindLinks`, `RenameSticks` | – | an artifact with a row, or linked from the history, has its bytes; a title the owner set is lost only to a refusal or to a turn that had read the title before it was there, that is before the rename, or before a turn that still knew the title stored a deleted session again |
| `ReadersOwn` | `SeenIsOwn`, `SourcesAreAllowed` | whatever route, header and chain of retries and exports: what is shown or changed is of the default tenant and, with an owner header, of that owner; what a task may use is bound to its own tenant, creator and owner |
| `StoredIsThere` | `UploadsAreWhole`, `IndexedIsSearchable` | a row has its bytes; a document that says indexed has chunks and index |
| `StartsAreSafe` | `ServesItsRelease`, `UninterruptedIsComplete`, `TasksSurvive` | a server that serves has the schema of its release; starts that were not cut short applied whole scripts; the table rebuild loses no task wherever it is cut |
| `AttachedDocumentsAnswer`, `IngestionsEnd` | – | a question about attached documents the caller may read has hits when one of them is indexed; each ingestion ends, unless the process died or its failure could not be recorded |
| `SlotsAreCounted`, `ReadsAreSound`, `CallsReturn` | `BreakerIsExact`, `CapabilitiesAreFresh` | the counter is the number of holders; the breaker of each client opens after its failures and for its time, and capabilities are not older than their TTL; every call returns, unless waiters keep every worker thread while a stream that has a slot waits for one: the only way in which calls stay (`RequestsTimeOut`, section 5) |
| `OneSidecar`, `ShellSettles` | – | the shell never has two sidecars, or servers of theirs, that it did not have killed, and keeps the child of the one; what survives its kill is not counted. The startup ends; and a shell that is ready ends with a sidecar and its server, except one whose end was judged before the ready flag was set, or which it reused (`FailsClosed` claims more and is violated) |
| `ChatsStayApart` | `RequestsAreOneChat`, `PersonaSticks` | what is sent with a chat's id is that chat's; its persona does not change |
| `LogsAreWhole` | `LogIsOfOneRun`, `OutputIsWhole` | the panel shows lines of one run, in order; a run reported completed has all its program wrote in the log, each chunk as written unless a read ended inside of a character, but for a container whose pump broke without telling or outlived the second it is given |
| `WatchedRunsEnd` | `PanelSettles`, `RunsEnd` | the panel comes to show the end of the run it watches, unless a late answer about another one made it stop (`WatchEnds` claims that too, section 5); a provider's run ends, unless the program never takes its input |

`AnswersOncePerTTL` is claimed until a request outlives its claim (`overran`): the
TTL is not renewed, so a longer one really can be joined by a second. `ReplayIsOwn`
holds even then.

**Bounds.** `MaxBoots` (process starts), `MaxChunks`, `MaxCrashes`, `MaxSteps`,
`Found` (new citations of a source: 0 and 8, below and at the threshold),
`MaxOps`, `Budgets`, `Works`, `MaxCalls`, `MaxTime`, `Threads`, `MaxTurns`, `MaxRequests`,
`MaxLog`, `MaxAnswers` (answers to polls under way at once; two may overtake each other), `MaxLines`, `MaxCommits`, `MaxDeaths`, `MaxRows`, `MaxExports`, `Together`
(the kinds of task a behaviour may have more than one of; `workbench_research` has
plans only, as the others share nothing but the recovery list), and the
sizes of the sets. Rows of different ids share only the recovery thread's list and
a retry's lineage; two exercise both. A second boot gives a crash at every point
and a recovery from every state it leaves; `workbench_research` has one start, whose
recovery thread runs beside the requests, and what a crash leaves of a research task
is covered by the proofs, which hold for every `MaxBoots`. Two cancels race with each other and
with the worker. Three requests are needed for a key to be claimed, outlived, claimed again and
replayed; TTL 2 separates "still live" from "just expired". Three connections
make a circle of waits possible and one bystander. `Budgets` and `Works` are sets
of records: a behaviour draws one, so that a start or two ingestions or an upload,
or the routes of one kind of resource, are looked at closely one at a time.
`Threads` stands for the 40 worker threads: one for each client of `llm`, or one too few.
Two startup attempts show a killed one beside the next.
`Holdback` is 1, as in the code; answers are a few tokens, so that a phrase may
span them. `MaxChunks` is 0 in the recovery run, where no property looks at the log.

**Deadlock** is not checked for: in every instance the bounded work is done at
some point and nothing is left to do. That nobody hangs before is what the
liveness properties and `NobodyDeadlocks` state.

**Symmetry** is used in runs without liveness only.

**Fairness** is weak, and given to what a scheduler runs: workers, the
recovery thread, the lineage events of a retry, in the sandbox the requests in
progress; an ingestion; the shell's startup
thread and event task; what has arrived at the page; a provider's loop and its
deadline, though not the write of a program's input, which waits for the program. The operating
system schedules threads, a provider is bounded by its deadline and a model call
by its HTTP timeout. Nothing is assumed about what comes from outside:
submissions, cancellations, chunks, store faults, crashes, the user. Weak
fairness is enough since a thread, once able to go on, stays so until it does.
The steps of a model call are fair in the strong sense, as they need a thread of the
shared pool, which others take and give back in between: the limiter of the
pool serves those who wait in their order, so nobody is passed over for ever. It helps nobody when
all threads are held by waiters, which is why `CallsReturn` excepts that state.
The runs of `ImplementsLifecycle` assume a store that answers, because a failing one may
stop a recovery thread for good (`RecoveryFails`, which the model contains).

## 4. What is proved

`tlapm XProofs.tla`, for any number of executions, tasks, requests, turns,
headers, documents, ingestions, callers, slots, threads and attempts, every lifetime and
set of forbidden phrases, either backend, with and without store faults; whatever
bounds the constants set. The only assumptions are the named ones on the constants,
which stand beside them with the reason in the code and which TLC evaluates in the runs:

- ranges of numbers and switches: `BackendAssumption`, `RuntimeAssumption`,
  `SystemAssumption`, `IdempotencyAssumption`, `MaintenanceAssumption`,
  `GateAssumption`, `ReadsAssumption`, `PoolAssumption`, `AttemptsAssumption`,
  `PageAssumption`, `PanelAssumption`, `ProviderAssumption`, `ChatAssumption`;
- the shape of what clients ask for and of what is stored: `StreamAssumption`,
  `WorkAssumption`, `HistoryAssumption` (earlier releases resolved sources as this one
  does), `CutoverAssumption` (the tables that grow are of the schema);
- ids that never meet: `JobAssumption` (rows of two tables, fresh uuids),
  `UploadAssumption` (`doc-` and `att-`), `ConnectorAssumption` (`connector:`),
  `VersionAssumption`;
- `ModerationAssumption`: no forbidden phrase is empty, and
  `SAFEGUARD_REFUSAL_MESSAGE` contains none.

| Module | Theorem | Says | Argument |
|---|---|---|---|
| `SandboxProofs` | `TypeCorrect`, `ClaimsInOrder` | `[]TypeOK`, `[](ClaimInv /\ RequestInv)` | one step per action, over lemmas about the store's transactions |
| | `LaunchedOnce` | `[]SingleLaunch` | a conjunct of `ClaimInv`, with the start on the timeline |
| | `TimelineInOrder`, `TimelineTellsTheTruth` | `[]TimelineInv`, `[]TimelineIsTrue` | `ClaimInv`, and how many events of each kind a timeline has |
| | `CancelRepliesStay` | `[]CancelReplyIsFinal` | `ReplyInv`: what each place of a cancel request knows of the row |
| | `SettledForEver` | `TerminalIsFinal` | from `ClaimInv`, a step makes one move of the lifecycle at most |
| | `NothingIsLost` | `[]NothingIsStranded` | `LineageInv`: at least as many `retry_requested` notes on a source as rows that name it |
| | `LogsAreWhole` | `[]LogIsWhole` | `KeptInv`, `LogInv`, `StreamInv`: accumulators, counter and cursor agree, and who wrote last |
| | `RefinesLifecycle` | `Spec => Lifecycle!Spec` | every step maps to a step of `DurableLifecycle` or a stutter |
| `WorkbenchProofs` | `TypeCorrect`, `ClaimsInOrder`, `RunsInOrder` | `[]TypeOK`, `[]ClaimInv`, `[]RunInv` | as above; `RunInv` ties a worker's place to its timeline and output |
| | `CancelledTasksNeverRan`, `TasksRunExactlyOnce` | `[]CancelledNeverRan`, `[]TasksRunOnce` | a task that was never claimed has no runner and no trace; from `RunInv` |
| | `NothingIsLost` | `[]NothingIsStranded` | a `LineageInv` of its own |
| | `ResearchRestsOnWhatWasFound` | `[]ResearchIsSound` | `LoopInv` and `ResearchInv`: what the counters of the loop and the timeline's notes say of each other at each place, in both engines |
| | `RefinesLifecycle` | as above | as above |
| `StoresProofs` | `TypeCorrect`, `ClaimsAreHeld` | of the keys: `[]TypeOK`, `[](Unanswered /\ OneAtATime /\ Timely)` | below |
| | `ExecutesAlone`, `AnsweredOnce`, `ReplaysAreOwn`, `ClaimsHaveOwners` | `OneAtATime`, `AnswersOncePerTTL`, `ReplayIsOwn`, `PendingHasOwner` | from `ClaimsAreHeld`; a completed record holds the answer of a request with its payload |
| | `KeysAreFollowed` | `StoresSpec => Spec` | the keys proceed in the composed system as in theirs, so the theorems above hold there |
| | `EveryTransactionGetsThrough` | `TransactionsGetThrough` | `PostgresInv`: events are numbered 1 to their count, who holds a row has it to itself, and so does not wait |
| | `TransactionsAreWhole` | `JobsAreAtomic`: `PostgresRuntime` implements `SandboxStore` and `WorkbenchStore` step by step | `WorkInv`: what a transaction holds back is what the operation makes of the row it locked |
| | `DeploymentsTellTheTruth` | `DeploymentsAreHonest` | `TreeInv`, `HistoryInv`, `ServerInv`: what the manifest says of each entry, at each command of the script |
| | `JobsKeepTheirPromise` | `JobsLoseNothing` | `RotationInv` (where each line is), `BackupInv` (pruning follows a finished backup, which is the newest), `PurgeInv` (a selected chat has no owner, or got it since) |
| | `MovesAreWhole` | `CutoverIsSound` | `CutoverInv`: the tables the import has been through are the snapshot's and refer to rows that are there; the next number of a table is above all its rows |
| `ChatProofs` | `TypeCorrect` | `[]TypeOK` | part of `IInv`, below |
| | `WhatLeavesIsReviewed` | `[]NothingUnsafeLeaves` | `Reviewed`, in `SoundTurn`: what is released is a prefix of a text that passed; the text without its charts is reviewed again before it is stored |
| | `TurnsComeWhole`, `LinksHaveTheirBytes` | `[]TurnsAreWhole`, `[]BytesBehindLinks` | `SoundTurn`, `GoodMessage`; `LinkInv`: bytes before names, no deletion |
| | `OwnersTitleStays` | `RenameSticks` | `TitleInv`: a turn that is not stale writes the title it read |
| `AccessProofs` | `EverybodySeesTheirOwn` | `[]ReadersOwn` | `OwnInv`: whose a row is follows from who made it, through every retry and export |
| | `TurnsAreFollowed` | `ServerSpec => Spec` of the chat | the turns proceed in the composed system as in theirs, so the theorems of `ChatProofs` hold there |
| `DataProofs` | `StoredDataIsThere` | `[]StoredIsThere` | `UploadInv` (keys of one's own, a row after its bytes), `IngestionInv` (chunks before the status, indexes that stay) |
| | `StartsStaySafe` | `[]StartsAreSafe` | `TaskInv` (each statement of the rebuild), `ServesItsRelease`, `ShapeInv` (the ledger is as far as the schema; the script to come is the least that is not recorded) |
| | `AttachedAreFound` | `AttachedDocumentsAnswer` | `QueryInv` and the action that answers |
| `LlmProofs` | `EverySlotHasItsHolder` | `[]SlotsAreCounted` | `GateInv`: who waits, sleeps or holds is where its call says, and no token waits twice |
| | `ReadsTellTheTruth` | `[]ReadsAreSound` | `BreakerInv`, `ReportInv`, `CacheInv`: a clock read before a call bounds what is reported of it |
| `ClientProofs` | `OneSidecarAtATime` | `[]OneSidecar` | `ShellInv`: only the current attempt can have a sidecar that was not stopped, none can when the next begins, and the slot knows it; nothing is said of what survives a kill |
| | `ChatsNeverMix` | `[]ChatsStayApart` | `PageInv`: every bubble is of a request of the chat on the screen, of a stored chat, or of the turn that streams |
| | `LogsComeWhole` | `[]LogsAreWhole` | `PanelInv`, `ProviderInv`: lines, stream and cursor are of one run; written, queued and emitted chunks in their order, and which state of the pump the end of the loop saw |

*Why the strengthenings are needed.* That the Postgres completion does not ask
for `running` is harmless only because no worker gets so far without a claim, and
the reaper fails only what it once saw running. Neither fact is in the row.
`ClaimInv` says so: a worker past its claim has a row that is no longer queued,
no two workers of one row are past it, and what the recovery thread holds was
claimed. With it each guarded update becomes a move of the lifecycle.
`RequestInv` adds that a set token, a verdict "cancelled" and a `by_request` detail follow
a recorded request: the event is appended before the token is set.

`TimelineSettlesOnce` counts events, and an append is a function on sequences. The
lemmas give what an append does to the set `At(e, types)` of indices at which
events of some types stand: it stays, or gains the new index. Each transaction is
then one of three cases (no event, an event with its change of status, a note),
and the invariant ties each status to the events that must, and must not, be there.
Lineage is counted the same way: a source has noted at least as many retries as
rows name it, because the note comes first.

`OneAtATime` is not inductive either: a second request executes as soon as the
record is gone, and what removes it is time, or a release by anybody with the
same payload. `Timely` ties the two together: until a request outlives its
claim, whoever executes *holds* the record (pending, its payload), and its age
and the record's remaining time add up to TTL; so an expired or missing record
means nobody executes. The same equation for completed records gives
`AnswersOncePerTTL`.

Of the Postgres transactions the number of an event is read, not drawn: the call
locks the row, reads the highest number and inserts the next. That no two calls take one
number, and that none waits in a circle, needs that whoever has written to a job has its
row (`Apart`), which a call locks only one of, and that the numbers so far are 1 to their count.

A chat turn is sound by its own request, run and what its client was sent alone
(`SoundTurn`), so a step of one turn leaves the others sound; what turns leave to each
other are messages, and a stored message is a refusal or what a turn *that can no longer
change* had said (`GoodMessage`). Moderation looks at the whole text with each token
and holds back its end, so what is released is a prefix of a text that passed,
and a phrase in a prefix is a phrase in the text: no induction over the text is needed.

A property was false as first stated, and the proof showed it before an instance
did: a title may also be lost to a turn that read it before *another turn* restored
it in a session deleted meanwhile (three turns and two operations are needed).
`RenameSticks` counts the first turn as stale.

*Model-checked only.* Liveness: `StreamsEnd`, `IngestionsEnd`, `CallsReturn`,
`ShellSettles`, `WatchedRunsEnd` and the fair half of `ImplementsLifecycle`, in both
systems. Fairness and ENABLED are outside the prover's reach. The violated
`OnlyOverflowWaits` and `FailsClosed` are refuted on an instance. The type
invariants of the durable jobs, the keys and the chat are proved, so no run checks them again.
No module that is proved about uses recursive operators: texts are cut with
`SelectSeq` and `SubSeq`, of which the library has the theorems.

## 5. Where code and documentation part

In the runs `llm_overflow` and `client_reveal` TLC finds the documented statement
violated; the others were found the same way and keep their formulas in the modules,
where a `.cfg` can name them. None of these formulas is claimed to hold, and where a
property of a passing run excuses such a case, it names it.

1. `OnlyOverflowWaits` (`LlmSystem`): `docs/operations/OPERATIONS.md:320` says
   overflow waits in order. `release` wakes everybody, but who is not at the
   head goes back to sleep, and the head does not notify when it takes its slot:
   when two slots are given back before the waiters look, the second may sleep
   beside a free slot until the next release (`goat_ai/llm/ollama_client.py:50`).
2. `BreakerSparesOllama` (`LlmSystem`): `OPERATIONS.md:357,358` describe one
   breaker; every request makes an `OllamaService` with a breaker of its own
   (`platform/dependencies.py:76`), so the failures of different requests never add up.
3. `Cancel200IsCancelled` (`SandboxSystem`): a cancellation may be answered 200 with
   `completed` or `failed`; `docs/api/API_REFERENCE.md:1079,1081` promises
   `cancelled`. The workbench's cancel has the same reply (`API_REFERENCE.md:635`).
4. `CancelledBeforeStartNeverRan`: a cancel that read `queued` cancels an
   execution that started since, as "cancelled before start", and its provider
   is never told to stop.
5. `ReapedWasAbandoned`: recovery runs beside the first requests and fails an
   execution whose runner is alive in the same process.
6. `ExportsAreAppended` (`WorkbenchSystem`): two exports of one output write back the
   list each read; one link is lost although both were answered 201.
7. `AvoidsDuplicateWrites` (`Idempotency`): the turn is persisted before the done
   chunk; a client that goes away at that chunk makes the server release the
   key, and the retry persists the turn again.
8. `ArtifactsStayLinked` (`ChatSystem`): a turn is stored from the messages its client
   sent, which carry no artifacts, so a second turn takes the files from the first
   answer's message (`session_message_codec.py:137`; `API_REFERENCE.md:830`).
9. `RecordedIsApplied` (`DataSystem`): `db_migrations.py:4` says additive steps are idempotent;
   a start cut short after ALTER TABLE and before the backfill is finished by the
   next one without it, and the script is recorded.
10. `FailsClosed` (`ClientSystem`): the end of a sidecar is judged by the flags of the
    moment it is told. Told before the startup thread stores `ready`
    (`main.rs:1030`, `main.rs:445`) it only sets the startup failure, which nobody reads once
    the health check has answered: the window is revealed over no backend and stays,
    although `docs/operations/OPERATIONS.md:169,170` says that startup, and exits after the
    reveal, fail closed. Nor does the shell notice the end of a backend it reused.
11. `RequestsTimeOut` (`LlmSystem`): `OPERATIONS.md:324` names a timeout for the first
    event of a chat, but it begins with the slot. Waiters for a slot keep their worker
    threads without a timeout (`goat_ai/llm/ollama_client.py:50,51`), and the stream that
    has the slot needs a thread of the same 40 for its next chunk
    (`application/chat.py:164`): with as many waiters as threads nobody goes on, until a
    client that is being served disconnects.
12. `WatchEnds` (`ClientSystem`): the answer to a poll of the run before stops the watch
    of the new run when it tells an end (`useCodeSandboxController.ts:71-78`); the new
    run's end is then never shown, though `API_REFERENCE.md:1197` has clients fall back to
    polling. An older "running" that arrives after the end overwrites it on the screen.
13. `OnlyOwnerlessGo` (`OwnerlessPurge`): the purge selects ownerless chats before
    its transaction and deletes by id (`privacy_cleanup.py:54,66`); a chat stored under an
    owner in between goes too, against `tools/ops/purge_ownerless_history.py:16`.
14. `WhatIsTruncatedIsArchived` (`Maintenance`): `tools/ops/rotate_fastapi_log.py:75` says
    copy and truncate; what the server writes between the two (line 88) is in no archive.
15. No request is limited. `OPERATIONS.md:262,263` names "the built-in per-minute rate
    limit" as protection, `:342,343` its settings and `API_REFERENCE.md:11` the 429, but the
    branch every request takes (`platform/http_security.py:351-356`) asks no limiter.

Seen while modelling, without a statement to compare with:

- Chat: a turn that read the title before the owner set another one writes the old
  title back (`session_service.py:60`); that is the race `RenameSticks` excuses. An
  `ObjectStoreError` under a file of the answer is a `RuntimeError` nobody catches
  (`chat_stream_finalize.py:98`): the stream breaks off without error event or done, and
  nothing is stored; that is what `TurnsAreWhole` excuses.
- Shell: a kill ends the process that was spawned, not the server that process
  started (`main.rs:525-538`; `tools/desktop/build_desktop_sidecar.py:89` builds it
  `--onefile`), and its failure is ignored. The server of a stopped attempt goes on with
  port and database: the next attempt finds it healthy and reuses it, or, if its own
  sidecar is up already, that one cannot bind, ends, and ends the ready shell. That a sidecar
  ended is told only when nobody holds its pipes open any more. A late end of a
  killed attempt counts against the next; a second launch shows the window before
  ready; a window destroyed between the check and the store leaves a sidecar.
- Panel: `cancelled` is not among its final states, so polling goes on.
- Page: a chat loaded while its turn is under way shows it without that turn.
- Provider: writing to the localhost program's stdin blocks before the loop and its
  deadline (`code_sandbox_provider.py:525-527`): with the default limits the input fits
  a Linux pipe, not the pipe of Windows nor under a raised limit. The pump of a
  container tells of a `DockerException` only (`:241`); after any other end of it an exit
  code of 0 completes the run with its log cut short. Each chunk is decoded by itself with
  `errors="replace"` (`:267`, `:456`, `:638`, `:819`), so a character that a read of 1024
  bytes cuts (`:595`) is replaced.
- Deployment: an install that is cut short loses the manifests, which are not
  in `DEFAULT_PRESERVE_NAMES`; deploying a release again makes it its own
  predecessor (`docs/operations/RELEASE_GOVERNANCE.md:48`); the systemd path never
  frees the port; the bash scripts leave a server in service that failed its
  contract check, which `deploy.ps1` stops.
- Jobs: `--max-files 0` and `--keep 0` are not clamped; torn copies are removed
  only after a success; a purge leaves the objects of the rows it removes, and the
  workbench tasks and outputs that name its chats (`workbench_runtime.py:474,901`).

## 6. What is not modelled, and why

- Telemetry and capacity figures, tabular analysis, charts, prompts, repository
  tooling: counters that nothing decides on, pure conversions, scripts that run once and report.
- Configuration: parsing and validating the environment; the security settings
  are records.
- The workbench, knowledge and settings panels of the page, its file contexts and rendering.
- Providers: how an image or an interpreter is prepared and a container removed; the
  limit on the bytes of a log.
- Accounts, sessions, API keys and the rate limiter: unreachable (section 1).
- Rendering an artifact from a message; building wheels and bundles.
- The purge on Postgres; backups of a Postgres database, which are external.
- `mark_execution_denied`: nothing calls it.
- `_BoundedTextAccumulator` cuts the kept stdout and stderr at a number of bytes:
  `CompletedOutputIsLog` is claimed up to it.
- Several app processes on one database: recovery and the cancel events assume
  one process, as `docs/operations/OPERATIONS.md` does.
- Texts, prompts, code, citations, embeddings and rankings: no property tells them
  apart; they are counts, identities, short token sequences or model values. The
  regular expressions of the safeguard are phrases that must not occur; hashes and signatures are identity.
- Visibility: ids are fresh and the list by project is left out; rows live through queued, completed
  and cancelled only. Who may read media and knowledge is in `Uploads` and `Knowledge`.
- Postgres: one output per task at a time, which the claim ensures.

## 7. Plan

The order of work was: sandbox, workbench, idempotency keys; chat; access; data;
Postgres; model client; shell and page; operations; then the proofs, in the same
order. What is left:

1. Modelling: the workbench panel of the page, which watches tasks as the sandbox
   panel watches runs; provider preparation; the purge on Postgres.
2. Proofs: the step refinement of the lifecycle for executions on the composed
   Postgres transactions, so that `SandboxSystem` may be read over `PostgresRuntime`
   in one theorem.
