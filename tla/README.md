# Formal models of doc3gpp

doc3gpp keeps 3GPP meeting, TDoc, test case and specification data in local SQLite
databases and a disk cache, and serves it through a command line, an HTTP server
and an MCP server. The server runs long operations (syncs, parses, cache purges,
index rebuilds) as background jobs beside the requests it answers; commands in
other terminals work on the same databases and files at the same time.

This directory holds TLA+ models of the program, the TLC configurations that
model-check them, and TLAPS proofs of the main safety properties. Paths below are
relative to `src/src/doc3gpp/` unless they start with `docs/` or `tests/`.

## 1. Inventory

### How the parts interact

```
 terminals ── commands ─┐                 ┌── site, MCP tools ── create/cancel ──┐
   config file, pid file│                 │ lists, content, search, doors        │
                        ▼                 │   SSE stream ◄── event queue ◄──┐    ▼
               services (syncs,           │                                 │  jobs table
               extraction, spec      ◄── handlers ◄── worker loop ──────────┴── claim, finish
               documents, search)         │
                        │                 └─ TDocPipeline / one permit by hand
                        ▼                                  │
            scraping sources ── TDoc cache         PipelineRuntime: permits,
                        │                          preparation pool, writer
                        ▼                                  │
            parsers ── DocxConvertPool ◄───────────────────┘
                        │
                        ▼
       SQLite: rows, content, full-text and vector indexes (create_schema)
```

- A request or a command that changes something goes through a service; long ones
  become rows of the jobs table that the worker loop of a server process claims.
  The only link between request and run is the table, and an `asyncio.Event` in
  memory for the cancel of a running job.
- A running job reports through an `asyncio.Queue` in a registry that the SSE
  route also reads and edits.
- Handlers that parse documents use one process-wide `PipelineRuntime`; its threads
  share the TDoc cache on disk (with other processes too) and the conversion pool.
- Services store in several transactions and stamp at the end; index hooks and
  rebuilds derive the search tables from the rows.
- Readers (lists, content, search) take their answers from several statements and
  files while all this goes on.

### The components

| Component | State | Operations | What is hard | What makes it correct | Module |
|---|---|---|---|---|---|
| **Job queue and worker** (`job_worker.py`, `jobs_sql.py`, the cancel route) | job rows; per process: phase, tasks, events | create, cancel, list, claim, run, finish, orphan recovery, retention, shutdown | claim against cancel; crash between claim and outcome; unguarded terminal writes; several processes | a handler starts at most once; a RUNNING row has an owner; outcomes are final; the cap holds; jobs and shutdowns end | `JobLifecycle`, `JobQueue` |
| **Job status stream** (`routes/jobs.py`, `state.py`) | queue registry, queues, a generator per client | register or reuse a queue, snapshot, drain, drop oldest, unregister | several streams on one queue; reconnects | the end that is told is the row's; the stream ends | `JobEvents` |
| **Job handlers** (`handlers.py`, the doors that submit) | the place of each handler, its items and counters | submit, gates, awaits, items, verdict | a cancel during the last await; partial failure | the status is true | `JobHandlers` |
| **Pipeline** (`pipeline_runtime.py`, `tdoc_pipeline.py`) | capacity, permits, waiters, executors; per batch: index, reservation, outcomes, stops | acquire, submit, process, discard, drain, shutdown | permits on every path; a cancel between any two steps; lost wake-ups | permits conserved; honest reports; nothing begun after a stop; calls end | `Pipeline` |
| **TDoc cache** (`cache.py`) | two trees, sidecars, tree lock, key locks | put, verified and plain read, trim, purge | rename order, death between renames, power loss | a read names the url of its bytes; the limit; no lock left | `Cache` |
| **Conversion pool** (`docx_convert_pool.py`) | the attached executor, futures | submit, collect, detach, retire, close | several callers retire one executor | retired once; fresh after a break; calls end | `ConvertPool` |
| **TDoc extraction** (`tdoc_cr_service.py`, `tdoc_family_service.py`) | ZIP and Markdown caches, inventory, bundle | by id, by URL, forced or cached | overlapping runs; moved TDocs; two sources of a ZIP | what is stored under a URL is of one ZIP of that URL | `Extraction` |
| **TDoc content** (`tdoc_content_service.py`) | four tables, one file | resolve, read, select | reads torn by writers | complete means all, and of one extraction | `Content` |
| **Specification documents** (`spec_doc_service.py`, `spec_doc_sql.py`) | ZIP, inventory, source row, sections, content | fetch, parse, batch halves | six transactions, an earlier mark | a version marked parsed is whole | `SpecDocs` |
| **Meeting and TDoc syncs** (`tdoc_sync_coordinator.py` and services) | meetings, lists, files, stamps | calendar, list and file syncs, sweep, auto-sync | half a sync with a stamp; folders that do not answer | a stamp is earned | `MeetingSync` |
| **Specification sync** (`spec_service.py`, `spec_sql.py`) | header, versions, links, stamps, two pools | single sync, sweep, follow-ups | tasks that wait for tasks; read before, written after | a stamp is earned; links stay; a sweep goes on | `SpecSync` |
| **Indexes** (`search_sql.py`, `vector_sql.py`, `spec_doc_*_sql.py` and services) | index rows, stamps, cursors, model, failures | hooks, fresh, resumed and stale-only rebuilds | rebuilds that die and resume next to hooks | nothing left out; stale shows as stale; one model | `FtsIndex`, `VectorIndex`, `SpecIndex` |
| **Search** (`semantic_search_service.py`, `factory.py`) | services built once, the window | four modes | filters after the cut; an endpoint that is down | the nearest that pass; text needs no endpoint | `Search` |
| **Lists** (`*_sql.py`, `rich_filters.py`, routes, tools) | a table, a client's offset | query, cut, filter, next link | pages read in several transactions; rows that tie | who follows the links misses nothing | `Listing` |
| **Doors** (`web/routes/`, `mcp_server.py`, `errors.py`) | facts, a handler's place | questions asked at both doors | two orders of checks, two tables of codes | both doors give the same error | `Doors` |
| **Schema and migration** (`migrate.py`) | layouts and rows of an old database | `create_schema`, statement by statement | killed after any statement | a later run ends current, nothing is lost | `Migration` |
| **Parse selection** (`cli.py`, `tdoc_parse`) | selection, prompt, what is converted, counters | select, confirm, prepare, persist, report | rows change while the prompt is open and between look and write | complete stays complete | `ParseSelection` |
| **Local and URL batches** (`cli.py`) | outputs, counters | two loops, kill | stale look at outputs | nothing overwritten, all counted | `BatchParse` |
| **Commands** (`cli.py`) | tables, FILE, a command's place | every command as a program | refused after FILE is truncated | a command that says no leaves everything | `CommandLine` |
| **Server control** (`cli_server.py`) | processes, port, pid file | start, stop | deaths, reuse of numbers, force | the pid file names the server | `ServerControl` |
| **Settings file** (`config_writer.py`) | the file, temporary ones | init, set | kills, secrets, hand edits, variables that hide the file | usable and private | `ConfigFile` |
| **Server lifespan** (`app.py`, `state.py`) | | order of shutdown | | | in `JobQueue`, `Pipeline` |

### Not modelled

| Part | Why |
|---|---|
| TSG, work item and test case syncs (`tsg_service.py`, `wi_service.py`, `testcase_service.py`) | one fetch behind one upsert in one transaction: there is no state between two steps that another could meet. Their lists are in `Listing`, their jobs in `JobHandlers` |
| Rendering (`web/render.py`), HTML templates, columns and formats of output | layout of values that other parts chose |
| Scraping sources, parsers | network input and pure functions over documents; in the models a fetch may answer or raise and a conversion may succeed, skip or fail |
| Rank fusion and reranking | arithmetic over scores of SQLite and of the embedding endpoint |
| Parts of the migration: the drop of the main text index, the search schema of the specification database, a SQLite without FTS5 or sqlite-vec | each returns at once or repeats a pattern that is modelled |
| Engine disposal, closing the embedder, status and log commands, the skill installer | they change no state the models have |

`PROJECT.json` lists the hazards of the code line by line, with the property that
would catch each, or the reason why none does.

## 2. The modules

| Module | What it is |
|---|---|
| `JobLifecycle` | what the queue promises its clients: the abstract specification that `JobQueue` implements |
| `JobQueue`, `JobEvents`, `Pipeline`, `Cache`, `ConvertPool` | the concurrent core of the server |
| `Extraction`, `SpecDocs`, `MeetingSync`, `SpecSync` | the services that fetch and store |
| `FtsIndex`, `VectorIndex`, `SpecIndex` | the derived indexes |
| `JobHandlers`, `Listing`, `Content`, `Search`, `Doors` | what clients of the server are answered |
| `Migration`, `ParseSelection`, `BatchParse`, `CommandLine`, `ServerControl`, `ConfigFile` | the command line |
| `MCJobQueue`, `MCJobEvents`, `MCPipeline`, `MCCache`, `MCConvertPool`, `MCSpecIndex` | finite instances of one module |
| `Services`, `Indexes`, `Commands`, `Server` | the services, the indexes, the command line and what a server does for its clients, each side by side: a behaviour is about the one that `focus` names. The modules share no state at this level of detail, so that what holds of the composition is what holds of each |
| `MCServices`, `MCIndexes`, `MCCommands`, `MCServer` | their finite instances |
| `ServerProofs`, `JobEventsProofs`, `PipelineProofs`, `ConvertPoolProofs`, `CacheProofs`, `ServicesProofs`, `IndexesProofs`, `CommandsProofs` | theorems |

The components meet through few and narrow calls, so each is a module of its
own. What crosses a border is in both modules: a cancel event is
`event[w][j] = "set"` in `JobQueue`, `flag[b]` in `Pipeline` and `cancel` in
`JobHandlers`; shutdown's order (events first, executors later) is `Stop` in the one
and the guard of `Shutdown` in the other; the ZIP and the archive that `Extraction`
finds or not are `Cache`'s; the hook after an extraction is `Persist` and `Hook` of
the indexes; what `Extraction` leaves behind when it breaks off is what `Content`
reads.

The comment above each definition says which code it is; the `map` of
`PROJECT.json` has the lines. Definitions that begin with "Mutant:" are plausible
bugs of the code beside the definition they would replace. They are in no
behaviour of the models; they are there to show that each property can fail.

### JobQueue

One step is a stretch of Python without an `await` (one event loop per process)
or one database transaction, whichever ends first. `status` and `createdAt` are
columns of the jobs table and survive a crash; `phase`, `orphans`, `task` and
`event` are memory of a process. `task[w][j]` is the asyncio task of
`_claim_and_run`: "spawned" until its first step, "handling" while the handler is
suspended at an await, "failing" between a `mark_running` that raised and the
`mark_failed` of the except clause.

| Action | Code |
|---|---|
| `Create`, `Cancel` | `repo.create`; `request_cancel`: `cancel_if_queued`, else the local event |
| `Start`, `RecoverOrphan`, `EnterLoop` | start-up of `run()`: retention, `_recover_orphans` row by row, the loop |
| `Tick`, `Cleanup` | top and bottom of the loop: list the newest queued rows up to the cap, create tasks; retention |
| `ClaimWon`, `ClaimLost` | the first step of `_claim_and_run` |
| `Finish` | the handler's end and its terminal write |
| `Stop`, `LoopCancelled`, `Abort`, `Exit` | `JobWorkerHandle.shutdown`, the loop's `CancelledError` branch, the expiry of the bounded wait, the end |
| `Crash` | the process dies; memory is lost |
| `StartBlind`, `RecoverFails`, `ClaimRaises`, `FailClaim`, `FinishLost` | the listing of orphans, a write of one, `mark_running` or the terminal write raises |

There are two specifications: `Spec` (and `FairSpec`), in which every statement on
the jobs table succeeds, and `FaultySpec`, which adds the last row: a locked database.

`MarkTerminal` has no guard on the old status because `mark_succeeded`,
`mark_failed` and `mark_cancelled` have none. `runs` and `halts` are a history
variable and a bound.

### JobEvents

`queues` holds every `asyncio.Queue` ever made for the job, `registered` is the
registry entry, `workerQueue` and `streamQueue` are the references that the worker
and each generator captured. These can differ, and that is what the module is
about. A queue made by the worker is bounded, one made by a stream is not.
`intact` is a history variable: no other stream, and no cancel of the queued job,
has interfered.

### Pipeline

`stage` follows an item through both executors, `held` are the unreleased
permits, `reserve` is the state of `reserve_task` and its place among the async
waiters. `flag` is what `is_cancelled()` would answer, `cancelled` and `fatal` are
the local variables of `run_async` and `run_sync`. `Start` ... `Finish` are the
loop of a batch, `DirectSubmit`, `DirectPrepared`, `DirectPersisted` are
`_parse_spec_docs`; `PrepareStart` ... `PersistEnd` are the executor threads,
`Shutdown` and `ShutdownPersist` are `PipelineRuntime.shutdown`. `Emit` lets
`on_progress` return, raise or cancel, since jobs pass callbacks that do.

### Cache

One step is one change that a directory can show. `content` is what a name shows
now; `disk` is the set of contents a power loss may leave under it, which an
fsync of its directory reduces to the one shown. `tree` and `keyLock` are the
file locks. A file carries its payload, the time of its rename, and the url it
came from: for a sidecar this is its content, for a ZIP it is history, so that a
property can compare the two.

`Open`, `DropSidecar`, `InstallZip`, `InstallSidecar`, `SyncPair`, `InstallMd` are
`put_zip_with_provenance` and `put_bytes`; `Evict`, `EndPut` are
`enforce_size_limit`; `OpenPurge` ... `EndPurge` are `purge` and `purge_subdir`;
`OpenRead`, `ReadZip`, `Verify` are `get_zip_with_provenance`; `Check`,
`ReadBytes` are `get_bytes`. `Interrupt` is an exception or the death of a process
anywhere, `PowerLoss` the loss of what was not synced.

### ConvertPool

`Submit` is `_submit` under the pool's lock, `TakeOutcome` is `_outcome`, `Retire`
is `_detach_locked` with what its callers do next; `Close`, `Shutdown`, `Joined`
are `close` and the `executor.shutdown(wait=True)` that runs outside the lock.
`Convert`, `Break` and `Fail` are Python's `ProcessPoolExecutor`, modelled from the
way the code uses it: a broken pool rejects submissions, fails what is pending in
any order, and still joins.


### Services

One step is a transaction, a file operation or a request to the outside; any of
them may fail and any run may die. Numbers stand for bytes that the portal
published and for what is made of them.

- **Extraction.** `Begin`, `Lookup` (row, stored bundle), `FetchCached`, `Download`,
  `Recheck` (a CR looks once more after the download), `Convert` (which caches the
  archive) and `ConvertFails`, `StoreInventory`, `StoreBundle`, `BreakOff`. `SyncRow`,
  `Publish` and `Evict` are what happens meanwhile: a list sync moves or retypes the TDoc, a
  URL gets new bytes, a cached file goes. Bytes are [where they were published, version], and
  the URL that a cache entry, a run or a row goes by is kept apart from them. `disturbed` and
  `sole` are history: whether the parts under a URL were written by one run in one go.
- **SpecDocs.** `Begin`, `InvalidateFirst` (forced, command line), `Check`, `OpenZip`,
  `WriteZip`, `ReadZip`, `Convert`, then `PersistInvalidate` (forced, batch) and the
  transactions `PersistInventory`, `PersistSource`, `PersistToc`, `PersistContent`,
  `PersistParsed`. The ZIP is written in place, so it can be there in part.
- **MeetingSync.** `CalendarGate`, `FetchCalendar`, `StoreMeetings`, `StampTsg` for the
  calendar; `TakeMeeting`, `FetchList`, `StoreList`, `Scan`, `StoreFiles`, `Stamp` for a
  meeting; `Scan` reads some of the subfolders and passes over
  the others; `Raise` goes where the handler of an exception sends it, which differs between the sweep, a single sync and the auto-sync of a read command (`OnError`).
- **SpecSync.** `StartSweep` and `StartOne`, `Enter` (a task gets a thread), `Detail`,
  `Backfill` (submits follow-ups), `StartFollowUp`, `EndFollowUp`, `Gather` (waits for
  them while it keeps its thread), `StoreHeader`, `StoreVersions`, `Stamp`, `Fail`,
  `Leave`.

### Indexes

- **FtsIndex.** `StartRun`, `ListStale`, `TakeBatch`, `WriteBatch`, `SetCursor`, `EndRun`
  are one rebuild, `Hook` and `HookSkipped` the index update after an extraction,
  `SyncRow`, `Persist`, `Damage`, `Rechunk` the changes of the rows, `Crash` the death of
  a rebuild between any two transactions.
- **VectorIndex.** Here reading and writing are apart with a remote call between
  them: `ReadBatch` and `WriteBatch`, `HookRead` and `HookWrite`; `TakeSnapshot`,
  `SetCursor`, `MarkRebuilt`; `ChangeModel` is the operator. An embedding that fails
  writes nothing and is only logged.
- **SpecIndex.** Both indexes of specification documents. A page is a set of versions
  that are treated in order (`Page`, `Current`): `NextBatch`, `WriteFts`,
  `ReadVec`, `WriteVec`, `FailVec` (the list of failures), `SetCursor`, `ClearOne`, `End`.

### Clients

- **JobHandlers**, **CommandLine** and **Doors** describe each handler, command and
  question as a program, a sequence of steps or checks taken from its body in order;
  actions run these programs side by side. `JobHandlers`: gates, awaits, items and the
  verdict. `CommandLine`: checks, prompts, fetches, stores, and the truncation of FILE.
  `Doors`: one program for the site and one for the MCP server per question, and the
  tables that make a code of an exception.
- **Listing.** `Ask`, `Query` (a page's first statement, which takes rows that tie in any
  order), `More` (its second statement), `Show` with `Next_ask` (what the next link asks),
  `Write`.
- **Content.** `WriteArchive`, `StoreBundle`, `BreakOff` are the extraction as a
  reader sees it; `Resolve`, `ReadMeta`, `ReadRows`, `ReadArchive` or `ReadLegacy`,
  `ReadCover`, `Select` are the reader.
- **Search.** `BuildText` and `BuildSemantic` (built once and kept), `SearchText`,
  `Encode`, `Knn`, `Match`; `Event` changes endpoint, tables and locks.
- **ParseSelection.** `Select`, `Confirm`, `Prepare` (looks, downloads, converts), `Persist`
  (looks at nothing again), `Report` of commands and jobs that overlap, with `Sync` and
  `Change` of rows and archives. `fresh` is what a run has converted and not yet stored.
- **BatchParse.** `Start` looks at the outputs, `Pass`, `Open`, `Write` or `WriteFails`
  treat an input, `Summary`; `Kill` at any point.
- **ConfigFile.** `InitFile`, `Read`, `Validate` (of the file under the environment of the
  command, `Merged`), `Mode`, `WriteTemp`, `Replace`; `Kill`, and `Edit` by hand.
- **ServerControl.** `StartRefused`, `Launch`, `Boot`, `ChildExited`, `WritePid`, `Healthy`;
  `StopNothing`, `StopSignal`, `EndSignalled`, `StopDone`; `Die`, `Reuse` of a number.
- **Migration.** `create_schema` statement by statement, since each DDL statement is
  durable by itself: `LookForLegacy`, `DropCover`, `Rename`, `ReadColumns`, `AlterColumn`
  (which fails quietly for the columns in `Optional`),
  `ColumnsAdded`, `CountBatch`, `CreateAll`, `DropSlides`, `CreateSlides`, `Reconcile`,
  `DropVectors`, `CreateVectors`, `Unstamp`, `CompressBatch`, `Crash`.

## 3. What is checked

| Run | Instance | States | Shows |
|---|---|---|---|
| `JobQueue_single` | 3 jobs (one ignores a late cancel), 1 process, cap 2, 2 crashes or shutdowns | 59,860 | a RUNNING row has an owner, the cap holds, `JobLifecycle` is implemented, jobs and shutdowns end |
| `JobEvents` | 2 clients, 4 connects, queue of 2, 3 log lines | 52,707 | the end a stream is told is the row's; an undisturbed stream ends |
| `JobEvents_reconnect` | 1 client, 2 connects | | finding 1 |
| `Pipeline_direct` | `run_async`, `run_sync` and a spec document job of 1 item each, any 2 of them called, 1 permit, 1 thread | 37,425 | permits conserved, drained at the end, honest report, nothing begun after a stop, every call ends |
| `Cache` | 2 threads, 1 ZIP key, 1 Markdown key, 2 contents, 2 urls, limit 5, 2 puts, 1 power loss | 198,402 | verified reads, the sidecar names the source of its ZIP, the trim, operations end |
| `ConvertPool` | 2 callers with 5 and 1 members, 2 workers (window 4), 1 break, close | 203,563 | retired once, fresh after a break, calls end |
| `Indexes` | 3 TDocs or versions, batches of 2, 1 crash, 2 edits, 2 models; for specifications 2 runs, of which the second may resume the first, and a parse beside them | 1,162,736 | a rebuild covers what it should, a fresh one leaves nothing stale, late uploads show, one model per table |
| `SpecIndex_order` | the same with specification names of which one continues the other | | finding 2 |
| `Services` | Extraction: 2 runs on one path; SpecDocs: 3 runs, 2 deaths; MeetingSync: 2 runs on 2 meetings of 2 subfolders; SpecSync: 2 syncs of 2 specifications, pools of 1 thread | 1,911,750 | content is of one ZIP of its URL, parsed is whole, stamps are earned, tasks that wait go on, links stay |
| `Commands` | the instances below | 964,415 | what the command line promises |
| `Server` | the instances below | 1,176,965 | a handler starts at most once with two processes; what clients of the server are answered |
| `ParseSelection_continues` | 3 TDocs, cap 2 | | finding 3 |

The parts of `Commands`: migration of one process, 3 runs and 2 deaths, of 2 columns, one of
which may fail quietly; a selection of 3
TDocs with a cap of 2 by a command and a job; 3 files, two of which share an
output; 5 steps on a settings file of 3 keys, 2 of which a variable may set; 3 process numbers and 4 server commands; 2
commands on one FILE with a kill. The parts of `Server`: 2 jobs in 2 processes with a
cap of 1, 1 crash or shutdown and failing writes; lists of 4 rows, 2 of which tie, in pages of at most
2 with 1 write; content through 2 events and 2 versions; a search for 2 TDocs in 4 chunks
whose window grows from 2 to 3; questions with up to 3 writes; handlers of 2 jobs of 2
items.

What the properties of `Services`, `Indexes`, `Commands` and `Server` say:

| Property | Meaning |
|---|---|
| `ContentIsOneZip` | rows stored under a URL are of bytes published there, and the file list and archive of the same bytes, unless runs mixed or left off their writes there |
| `ParsedIsWhole` | a version marked parsed has sections, chunks and a chunk count of the same bytes, unless runs on it overlapped |
| `StampIsEarned` | a stamp stands for a list and files (or versions) stored that are as new as what upstream showed when the stamping run began, save the subfolders that did not answer it |
| `NobodyStarves` | while a task of a sweep is not at its end, some task of it or a follow-up of them has a step to take |
| `LinksKept` | a PDF link of a version, once stored, stays |
| `LateUploadsSeen` | a TDoc uploaded since the corpus was rebuilt is embedded, or the status says stale, also if its embedding failed |
| `OneModel` | the vectors of a table are of one model |
| `RebuildCovers` | a rebuild that ends, resumed or not, has indexed what did not change meanwhile, or recorded its failure |
| `RunEndsFresh` | a text index run that ends on an unchanged source reads as fresh |
| `EndsCurrent` | a `create_schema` that returns leaves the present layout, wherever earlier ones died, save the column whose removal may fail quietly |
| `CoverPagesKept` | no step loses the cover pages of an older release |
| `CompleteKept` | it takes a forced run, or two runs at the TDoc at once, to make a complete TDoc incomplete |
| `BatchIsTrue` | a run without `--force` leaves what is whole as it is, and a summary accounts for every input once |
| `FileStaysInOrder` | the file a command wrote is one a program accepts in that command's environment, and one with a secret is private |
| `ServerIsNamed` | when all is quiet the pid file names the server that holds the port |
| `NoMeansNothing` | a command that is refused, declined or fails leaves FILE, and the first two every database, as it was |
| `NothingMissed` | whoever follows the links of a list sees every row that matched all the while and ties with no other, unless one ceased to match |
| `AnswerIsWhole` | an answer flagged complete has every document, of the URL asked for, and of one version if nothing was written meanwhile |
| `SearchAnswers` | text search is not refused for the sake of the endpoint; semantic search finds the nearest TDocs that pass |
| `DoorsAgree` | an error is one the other door, too, would have given at some instant of the request |
| `HonestVerdict` | SUCCEEDED is never the answer to an accepted cancel, and every chosen item was treated and counted once |

The precise statements, with the exceptions they make, are above the definitions.

Why the bounds are enough:

- *JobQueue.* Three jobs against a cap of two make a row that waits while two run
  and one that is overtaken; two halts allow a crash during the recovery from a
  crash and a shutdown after a restart. For the claim, two processes and one
  contested row are the whole race.
- *JobEvents.* Three lines and two status frames overflow a queue of two, and four
  connects let each client come back while the other is there.
- *Pipeline.* One permit for two users makes waiting, waking and losing the race to
  another waiter happen; each kind of call competes with each other kind.
- *Cache.* Two puts suffice to replace a file, to have two urls serve the same
  bytes, and to exceed the limit. The safety properties also held with three puts
  (4,040,147 states), an instance too large to be rerun each time.
- *ConvertPool.* A call of five members fills the window of four and goes on after
  the break. The safety properties also held with two breaks and two members for
  the second caller (5.4 million states).
- *Indexes.* Three rows in batches of two leave a cursor between the first and the
  last, so that a resumed run has something behind and before it; two models are one
  change of model. `MaxTick` counts the parses of specification versions: the three
  versions of the start have one each, and the fourth lets a version be parsed again while a
  rebuild runs or is broken off. All four properties also held with three edits of
  the vectors' sources and three runs on specifications (6,404,530 states), an instance too
  large to be rerun each time.
- *Services.* Every race found in the code is one of two runs, and a death is one of
  a run before another; pools of one thread are the worst case for tasks that wait.
- *Commands and Server.* A migration that is killed twice is resumed from a resumed one; four
  rows in pages of one or two put the two that tie on one page or on both sides of its end, and
  leave a place before and after them that a write can disturb; the others need two actors
  and one change between their steps.

`CHECK_DEADLOCK FALSE` is set where the system may stop: all jobs finished and no halt
left, all streams ended, every batch returned, no put left, every call done, all
runs, commands and events used up.

### Fairness

- *JobQueue.* The loop runs what is ready, handlers return, and a process that
  went down is started again (`docs/processes.md`: stale rows are failed "at
  startup", so an orphan needs a next start to end). Requests, crashes, shutdowns and
  the expiry of the shutdown wait are never owed.
- *JobEvents.* The worker loop polls, the handler returns, and a connected
  generator is driven by the server. Connects, disconnects, log lines and cancels
  are never owed.
- *Pipeline.* Weak fairness of each loop and of the threads, since every wait in
  the code is a poll or a future. Strong fairness of `Acquire` and `TryReserve`:
  each polls again and again for a slot that others take and release, and the code
  has no queue that would promise a turn; `BatchesEnd` says that given such luck
  nothing else is in the way, in particular no lost wake-up. No call starts once the
  runtime is down: the worker loop, which starts them, has ended by then.
- *Cache.* Threads that began take their steps. File locks are not first come
  first served, so `OperationsEnd` says only what can be said without that: once
  callers stop coming, whatever began ends.
- *ConvertPool.* Callers run, a thread that is to shut an executor down does so,
  and while members are pending some worker finishes one.

The other modules state safety only. Their runs are sequences of steps without
loops that wait; the one that waits, a sweep for its follow-ups, has `NobodyStarves`.

## 4. What is proved

For all values of the constants, under the assumptions named in each module.

| Module | Theorem | Property |
|---|---|---|
| `ServerProofs` | `TypeCorrect`, `ClaimExclusive`, `OneRunHolds`, `CapHolds` | `TypeOK`, `RunAtMostOnce` (and `ExclusiveRun`), `InFlightBounded`, with any number of processes and failing writes (`FaultySpec`) |
| | `OwnershipHolds`, `QueueImplementsLifecycle`, `OutcomeIsFinal` | `RunningIsOwned` (and `RegistryTracksTasks`), `LifecycleSpec`, `TerminalIsFinal`, under `SingleProcess` |
| | `HonestVerdictHolds` | `HonestVerdict` |
| | `AnswerIsWholeHolds` | `AnswerIsWhole` |
| | `SearchAnswersHolds` | `SearchAnswers` |
| | `DoorsAgreeHolds` | `DoorsAgree` |
| | `NothingMissedHolds` | `NothingMissed` |
| `JobEventsProofs` | `EndsAreTold` | `EndIsTold` |
| `PipelineProofs` | `TypeCorrect`, `PermitsKept`, `EndsDrained`, `ReportsAreHonest`, `StopsBeginNothing` | `TypeOK`, `PermitConservation` (and `PendingHoldPermits`), `DrainedAtEnd`, `HonestReport`, `StoppedBeginsNothing` |
| | `ShutdownRejectsNothing`, `CancelStops` | `NoRejectedSubmission`, `NothingNewAfterCancel` |
| `ConvertPoolProofs` | `ExecutorsRetiredOnce`, `FreshExecutorAfterBreak`, `NobodyRejected`, `HealthyExecutorsKept` | `RetiredOnce`, `FreshAfterBreak`, `NoneRejected`, `HealthyKept` |
| `CacheProofs` | `TypeCorrect`, `VerifiedReadsWereServed`, `AuthorityIsTheFiles` | `TypeOK`, `VerifiedWasServed`, `AuthorityFollowsBytes` |
| `ServicesProofs` | `StoredIsOneZip`, `ContentIsOneZipHolds` | `ContentIsOneZip` |
| | `ParsedVersionsAreWhole`, `ParsedIsWholeHolds` | `ParsedIsWhole` |
| | `MeetingStampsEarned`, `StampsEarned`, `StampIsEarnedHolds` | `StampIsEarned`, of meetings, of specifications and of both |
| | `LinksStay`, `LinksKeptHolds` | `LinksKept` |
| `IndexesProofs` | `TextRebuildCovers`, `SpecRebuildCovers`, `RebuildCoversHolds` | `RebuildCovers`, of TDocs, of specification versions and of both |
| | `TextRunEndsFresh`, `RunEndsFreshHolds` | `RunEndsFresh` |
| | `LateUploadsAreSeen`, `LateUploadsSeenHolds` | `LateUploadsSeen` |
| | `ModelsDoNotMix`, `OneModelHolds` | `OneModel` |
| `CommandsProofs` | `UpgradesEndCurrent`, `EndsCurrentHolds`; `CoverPagesStay`, `CoverPagesKeptHolds` | `EndsCurrent`, `CoverPagesKept`, for one process |
| | `CompleteStays`, `CompleteKeptHolds` | `CompleteKept`, in any number of terminals and jobs |
| | `BatchesAreTrue`, `BatchIsTrueHolds` | `BatchIsTrue`, in one terminal |
| | `ConfigStaysInOrder`, `FileStaysInOrderHolds` | `FileStaysInOrder`, in one terminal |
| | `ServerStaysNamed`, `ServerIsNamedHolds` | `ServerIsNamed`, in one terminal |
| | `NoIsNothing`, `NoMeansNothingHolds` | `NoMeansNothing`, in any number of terminals |

In the modules about compositions (`ServerProofs`, `ServicesProofs`, `IndexesProofs`,
`CommandsProofs`) the first theorem of a pair is about the component by itself, the
second, or the only one, is about the composition that the run checks. A step of the
composition is a step of the component in focus or leaves its variables alone
(`FocusSteps`), and the focus never changes; so each component's invariant, under its
focus, is an invariant of the whole.

What the theorems assume of constants, beyond types: TDocs, rows, meetings and inputs are numbers in the order in which
the code takes them; batches are not empty; there is more than one TDoc (`SomeTDocs`:
the first ones are stored when a behaviour begins, the last is still to be
uploaded); and, for the specification indexes, that the texts of the cursor are in the order of the columns
(`KeysInOrder`). The last is just what finding 2 says that the code cannot rely on: the
run `SpecIndex_order` drops it and the property fails, the theorem keeps it and the
property holds, so nothing else is wrong there. Of a server they assume that a list has a
largest page of at least one row (`KeysAndPages`), that no URL is the mark for none
(`NothingIsNoUrl`), that the index has a reach (`SearchReach`; the limit and the fan-out may
be zero), and that no job is the mark for none (`HandledIsNoZero`). That commands about the schema, local
files, the settings and the server are given in one terminal is no convenience either:
with two, the properties fail, as section 6 lists.

How the arguments go:

- *Claim.* That `runs[j] <= 1` is not inductive: a claim needs to know that a row
  that is still queued never ran. `ClaimInv` adds this (`NeverRun`), and that the row
  of a running handler has left the queue (`HandlingLeftQueue`); no write leads back
  to "queued".
- *Cap.* Creation numbers are distinct (`RanksInOrder`), so each row that `Picked`
  takes has its own number of newer queued rows, and all these numbers are below the
  free places: there are no more rows than places.
- *Ownership.* Only one process (`SingleProcess`) and no failing writes (`Spec`), because a
  second process that starts fails the first one's live rows, and a failed terminal
  write leaves a row nobody owns. `OwnInv` adds where RUNNING rows may be before the
  loop is entered: they are the orphans still to be marked. Refinement maps `asked`
  to the jobs whose event is set; each action maps to a step of `JobLifecycle` or to
  a stutter, a crash to `Forget`.
- *Verdict.* What is left of a handler's program is the end of the one its kind has
  (`Suffix`), and how much is left tells what may have been counted and whether the
  handler may have lost the loop (`Under`): before its first await it is `Alone`, and no
  cancel is in. So a program that ends without looking at the event once more is one
  that never let anybody else run, or whose batch looked.
- *Stored content.* `StoredInv` says what the tables hold between any two transactions:
  rows and metadata of a URL are of one extraction, and the archive is too unless it came
  from another URL or an extraction is, or was broken off, between archive and rows.
  `ReaderInv` says, for each place of the reader, which of them it has in hand and that
  they are still the stored ones if nobody wrote.
- *Search.* The invariant is that an undisturbed window is the beginning of the index
  and as long as was asked. The rest is about sequences: the nearest chunk of each
  TDoc in a beginning that has enough of them is also one of the whole (`Rank` counts the
  places before one, so that cutting off the end changes no rank), and what the widest
  window shows is the reach of the index.
- *Doors.* Every fact is looked at once in a handler, so that checks passed before a
  write and checks failed after it can be put together (`Split`): either the facts
  before the write or those after it make the other door fail with the same code. That the
  two doors say the same of the same facts is checked question by question, from the
  programs and the tables. A TDoc by its URL is different: there the path is checked
  first and six tables are asked, and the error needs all six to be silent (`UrlPassed`).
- *Lists.* The rank of a row can only grow while no row leaves. `SeenBefore` says that all steady
  rows of a rank up to the offset have been seen, which a step of the walk extends by a
  page and a write that adds a row only makes weaker; between the two statements of a page
  (`Halfway`) the rows in hand are a page of a set of matching rows that has the steady ones,
  not necessarily of the present one. Without a write, and where no rows tie, what was seen is
  exactly the beginning (`Reached`). Rows that tie are taken in any order in each statement, but
  the rank of a row that ties with none is the same in all of them; the jobs page, which goes
  on without its filter, goes on in a list that has at least the rows it had. For the lists whose page is cut by the service, or only after a filter on
  parsed was applied, `Cut` is shown to be the same page.
- *Streams.* The only bounded queue is the worker's, the terminal frame is last in
  it, and nobody puts anything after it; so dropping the oldest never drops it.
- *Permits.* `PermitInv` counts: free slots, granted reservations and held permits
  add up to the capacity, an item is pending exactly if it holds a permit, items
  leave the source in order (so the next one is not pending), and a reservation
  stands for an item not yet submitted. The theorems about ends and stops add
  `EndedIsDrained`, `Announced` (after a shutdown every running call has its flag set)
  and `DirectForgets`.
- *Reports.* `TruthInv` relates what threads did to what the loop recorded: what is
  committed will be or was recorded a success, a success was committed, an outcome is
  there exactly if it was recorded, and only a stop drops an item. `ReturnedWhole`
  carries this to the report of a call that returned.
- *ConvertPool.* Executors are numbered as they are made (`Numbered`), so a fresh one
  differs from every one in use; callers have only broken executors in hand
  (`BrokenInHand`); and an executor whose error was told is not attached (`Told`).
- *Cache.* What stands in a sidecar, may stand in it after a power loss, or is about
  to be written into one was served (`SidecarsBacked`, `WritersBacked`); the digest
  check then gives the first theorem. For the second, a thread holds the lock of a key
  between its first and its last step on it (`Holds`), a sidecar beside a ZIP has its
  url (`Paired`), and what a thread looked up under a lock is still so (`KnowsOf`).
- *Extraction.* A cache entry, and what a run has in hand, was published at the url it goes
  by (`ZipsOwn`, `InHand`). As long as a run is the only one to write at its URL (`sole`),
  it finds there the archive and the file list it has stored (`FindsItsOwn`); so the bundle,
  when it is stored, is of the same bytes as these, and every other write marks the URL.
- *SpecDocs.* A run that is alone relies on the version not being marked while it
  stores, and each part it has stored equals the bytes it read (`RunInOrder`); a run that
  meets another one knows that it did (`Solo`), and nothing is claimed of it.
- *SpecSync.* Within a task what was asked is at most what was fetched, which is at
  most what is stored, and header, versions and stamp are stored in this order; no
  other task interferes with this.
- *MeetingSync.* Lists and subfolders only grow, so it never shows less than a stamp stands for
  (`StampedShown`) nor less than a run that is at a meeting was shown when it asked
  (`AsksFirst`), of which a scan keeps what it could read; a run that is alone at its meeting
  finds the rows it stored, and no stamp newer than itself (`KeepsAlone`), and what it found
  in a subfolder is not older than what an earlier stamp was given for (`FoundAnew`); and runs that meet at a meeting are marked
  on both sides, in their own state and in the history (`Marked`). The events, the steps
  between meetings, the steps at one, and the stamp are a lemma each.
- *Migration.* For every step that may be half done there is something in the
  database by which a later run sees it: each conjunct of `MigrationInv` belongs to one
  phase of a run and to those after it.
- *Parse selection.* Between look and write a run that is `alone` at a TDoc is the only one
  that has it converted, and an unforced one found it incomplete; since only a run that has it
  converted writes it, it still is (`AloneInOrder`).
- *Local batches.* Counters and inputs not yet treated add up to the number of inputs
  (`AddsUp`), a file that is open is not whole (`Opened`). The first of a set of inputs
  exists since numbers are well ordered.
- *Settings.* What a command has read from a file that shows no secret is not shown in
  what it writes, and what is about to replace the file was validated under the command's environment (`Carried`),
  which is the one that `wrote` keeps of it.
- *Server process.* Exactly the process with the port serves, and a child is booting
  only while the command that started it waits (`OneServes`); `Named` says, for each point
  of that command, which processes the pid file may name.
- *Commands.* In every program of the command line, parts only follow an open FILE, and
  no check or question follows a deletion (`InOrder`, one lemma for all programs); what a
  command has done therefore says what it cannot come to any more (`LeftInOrder`).
- *Vectors.* The stamp, the snapshot and what a rebuild will stamp are behind the latest
  upload, and not later than any upload since the snapshot (`Behind`); so a late upload
  without a vector has a date that the stamp does not exceed, which is what freshness
  looks at. A run keeps the table at the model it began with.
- *Text.* What a rebuild has to cover is in the index as it is stored, or ahead of the
  run (`Ahead`), and whatever the cursor has passed is in the index also after a run died.
  A batch is the first rows of what is ahead, so nothing before its greatest is
  outside of it (`FirstOfAll`).
- *Specification indexes.* Behind the cursor, behind the position of a run, and before any
  recorded failure, an untouched version is covered; what a batch has passed is indexed,
  recorded as failed, or still in the batch (`BehindCovered`). The failures that a run
  took up are repeated or repaired before they are cleared (`MarkedKept`, `FailedAgain`).

Most of these invariants were checked by TLC on the runs before they were proved, those of
the indexes also with the bound that lets a version be parsed while it is indexed.

Only model-checked:

- liveness (`EverythingEnds`, `UndisturbedStreamEnds`, `BatchesEnd`, `OperationsEnd`,
  `CallsEnd`) and `NobodyStarves`: fairness and ENABLED are out of the prover's reach;
- `TrimIsRight`: the size of the cache is a sum over files, and what a sum computes
  needs induction over data, which is out of reach as well. (That a set of numbers
  has a least or, when it is finite, a greatest element needs no induction rule:
  `IndexesProofs` and `ServerProofs` take it from the well-foundedness of the numbers,
  and the latter that a finite set of them can be put in order, rank by rank.)

All other invariants and action properties of the passing runs are proved. To this end
`Ordered` in `Listing` and `Picked` in `Search` say by rank, without recursion, what the code gets by
sorting and by a loop.

## 5. Findings

Each is a run that TLC ends with a counterexample.

1. **A second stream on a running job never ends** (`JobEvents_reconnect`). A stream
   of a running job that leaves unregisters the queue the worker writes to; the next one registers a
   queue of its own and waits for ever. The docstring of `job_events` says the
   stream drains until the job is terminal.
2. **A rebuild of the specification vectors passes over a version**
   (`SpecIndex_order`). Rows are ordered by specification and version, the cursor is
   compared as the text `spec_id@version`. `29.198-04` and `29.198-04-1` are ordered
   differently by the two, so a batch that ends with the first moves the cursor past the second.
3. **A parse that was cut off does not continue** (`ParseSelection_continues`).
   `docs/cli.md:1308-1311` says that the next run "continues exactly where the first
   stopped". The query takes the first rows that are not complete; when as many as
   the cap cannot be completed, each run selects the same ones.

## 6. Observations without a run

Things met while reading that a maintainer may want to look at.

*Jobs.*

- `cancel_if_queued` changes the row of a QUEUED job and puts no frame on any queue, so a stream
  that was opened on the job before never ends either; finding 1 is about a job that runs.
- `mark_failed` has no guard on the status: if `mark_running` raises, a cancelled
  queued job becomes FAILED (`job_worker.py`, against `jobs.py:587-589`). A terminal
  write that raises leaves a RUNNING row until the next start (`job_worker.py:342`). A
  second `server start` that fails to bind still fails the live server's RUNNING jobs.
- `_parse_spec_docs` reads the cancel before it waits for a permit and submits after
  (`handlers.py:670`). `rebuild_search` blocks the loop and no door submits it; the auto-sync
  of `parse_tdoc_url` blocks the loop too.
- REST takes an empty `tsg` that the handler refuses, so the job FAILS; a `max_batch` of
  0 or less treats nothing and SUCCEEDS; unknown filter keys are dropped; a
  `parse_tdoc_url` whose files all failed SUCCEEDS.

*Services.*

- A failing fetch of one meeting ends `sync_all_tracked_meetings`
  (`tdoc_sync_coordinator.py:120-121`). Sweeps never gate (`docs/processes.md:62-67`);
  `sync_spec(force=True)` is gated again inside (`spec_service.py:350`, against
  `docs/known-constraints.md:54-55`).
- The ZIP of a specification is written in place (`spec_doc_service.py:167`), and after the
  loss of the cache a parse fetches without the force it was given
  (`spec_doc_service.py:257`).
- `fetch_tdoc_files_from_meeting_ftp` passes over a subfolder on any `httpx.HTTPError`
  (`ftp_source.py:94-100`), though its docstring (66-72) says that only a 404 is skipped and "any
  other HTTP error propagates"; the sync is then stamped (`tdoc_sync_coordinator.py:221`), and
  the files of that subfolder are missing until the interval is over, or for ever once the
  meeting is closed.
- `persist_prepared_extract` does not look again (`tdoc_cr_service.py:833-877`): of two runs that
  found a TDoc incomplete, the one that ends last decides, and may store a part over the
  whole.
- An extraction broken off between archive and bundle leaves the main document of the
  new bytes with the annexes of the old, flagged complete. A reader between metadata and
  documents is told "incomplete", one between cover page and metadata gets raw Markdown
  of a CR that has a cover.
- `get_bytes` checks and reads without a lock (`cache.py:194`): an eviction between the
  two raises.

*Search and indexes.*

- Stale-only runs look at less than `docs/cli.md:2191` says (`search_sql.py:177-181`); the
  stamp of specification vectors is a maximum (`docs/processes.md:288-290`,
  `spec_doc_vector_sql.py:555-558`); stored model and dimension are cached for the life
  of a process (`vector_sql.py:222-257`); `_LazyService` keeps a first failure
  (`factory.py:100-104`).
- The "parsed" filter counts either store (`docs/cli.md` near 1205, `tdoc_sql.py:563-567`).

*Command line.*

- `spec doc parse` exits 0 when everything
  failed; `db reset` under a running server loses what the server writes; two
  `config set` lose an update.
- `config set` validates the file under the environment (`config_writer.py:211-220`), whose
  variables beat it (`schema.py:1028-1048`): a wrong value that a variable hides is written,
  although `docs/cli.md:3166-3167` speaks of the validated result, and the next start without the
  variable refuses the file.
- `_migrate_spec_versions_drop_comment` swallows every exception of its `ALTER`
  (`migrate.py:212-215`), where its docstring (195-197) speaks of old SQLite versions: a locked
  database leaves the column too, until the next run.
- `create_schema` in two processes at once may raise (`migrate.py:62-76`), and
  `tests/integration/test_vec_layout_drop_clears_stamps_sqlite.py:4-6` expects stamps to be
  cleared with the drop, which are two transactions (`migrate.py:443`, `migrate.py:484`).
- `server stop` that races a start removes the new pid file; a child that needs longer
  than 3 s to die is reported as running (`docs/cli.md:3246-3258`); a stale pid file
  whose number was reused makes `stop` signal a foreign process.
- Of two inputs with one stem the second overwrites or skips the first
  (`docs/cli.md:1555`); a write that was killed leaves a truncated output, which later
  runs skip (`docs/cli.md` near 1890, `cli.py:6391-6420`); a forced run counts all as
  parsed again; "every match is already parsed" may be untrue by the time it is
  printed (`cli.py:2520`).

*Lists and doors.*

- The next link of the jobs page has no `status` (`templates/job_status.html:25`): a filtered
  list goes on in that of all jobs, at an offset of the filtered one, and shows others and
  some twice.
- Test cases are ordered by `testcase_id` alone (`testcase_sql.py:155`), which several groups
  share, and jobs by `created_at` (`jobs_sql.py:102`): rows that tie may change places from one
  page to the next, so that one is shown twice and another not at all.
- `list_jobs` with a negative limit drops the last row at the MCP door, where a slice
  takes the limit; the work item list has no offset; count and rows of a page may be of
  different commits.
- The doors differ on incomplete content (200 with a header, or `cache_miss`), an empty
  `group`, a missing presentation, the check of the format of specification content, the range
  of a limit, empty version codes, and a corrupt index in HTML (200). `Doors` has the errors
  that both doors can give: what only the site checks is given to it right.

## 7. Limits of the models

- Each behaviour has finitely many jobs, so `EverythingEnds` says nothing of an old
  queued row under an endless stream of newer ones, which are listed first.
- There is no clock: intervals, retention ages and time-outs are choices. The expiry
  of the shutdown wait is in `JobQueue` (`Abort`) and not in `Pipeline`, where every
  call is followed to its end.
- `Pipeline`'s pools start queued work in any order (the code promises none), and a
  spec document job has one item, as `Sizes` assumes.
- `Cache` does not count the hidden temporary files, as the code does not, and
  models power loss for the ZIP tree only, the one the code syncs. The digest stands
  for the bytes it is taken from.
- `ConvertPool` is for two or more workers; with fewer the conversion runs in the
  calling thread and shares nothing.
- The ownership theorems and liveness of jobs hold for one server process per
  database, as `docs/processes.md` asks ("Use one server process for a database").
- One rebuild of an index at a time. In `VectorIndex` dates only move forward, the
  corpus has a first rebuild behind it, and the model changes with all processes restarted.
- Parses that store nothing and the hooks' reads of the legacy store are left out of
  `Extraction`; `Content` has one extraction at a time.
- `BatchParse`, `ConfigFile` and `ServerControl` state their properties for one terminal,
  `Migration` for one process: with two, updates are lost as section 6 says.
- In `Listing` a row has one text column for the grammar that all columns share. Rows that
  tie are taken in any order by each statement; SQLite often keeps to one, but promises none.
- `ContentIsOneZip` claims nothing of a URL at which two runs mixed their writes, or where one
  left off, until a run has stored it in one go; and the Markdown archive is compared only while
  it is still that of the URL, as its readers do.
- `StampIsEarned` claims nothing of a subfolder that did not answer, `EndsCurrent` nothing of
  the column whose removal fails quietly, `FileStaysInOrder` nothing of a start without the
  variables that hid a wrong value: section 6 has each of them.
- `DoorsAgree` is stated for at most one write while a question is asked, except for a TDoc by
  its URL: with two, a chain of checks, like that of the other door, can put an error
  together out of two instants, neither of which has it.
