# Verification of wooloo in TLA+

wooloo is an OCI registry back end: a FastAPI process that keeps repositories in
PostgreSQL and blobs in a content-addressed file tree. These modules model the parts of
it that are hard to test, TLC checks them on small instances, and TLAPS proves their
safety properties for every instance. Paths below are relative to
`src/wooloo/` of the repository.

## 1. Inventory

| Component | State | Operations | Interacts with |
|---|---|---|---|
| Blob port, `domain/storage/contracts.py` | a map from keys to contents | put, get, exists, size, delete, check_health | implemented by the adapter, used by the service and the health check |
| Filesystem adapter, `infrastructure/storage/filesystem.py` | sharded tree, `tmp/*.part` scratch files, open handles | the same, each a chain of `asyncio.to_thread` syscalls | other calls, other processes and the kernel, through the file system |
| Storage service and blob routes, `application/services/storage_service.py`, `api/routes/storage.py` | nothing of their own; log events and status lines | store, retrieve, remove | chain two port calls per request |
| Repository store, use cases and routes, `infrastructure/repositories/store.py`, `application/use_cases/`, `api/routes/repositories.py` | table `repositories` | create, get by id, get by name, list, delete | one session per request, PostgreSQL's locks and unique index |
| Engine and session, `infrastructure/database/engine.py` | connection pool, two timeouts | acquire, release, dispose | every request that uses the database |
| Error handlers, `api/errors/handlers.py` | none | exception to status | every route |
| Repository names, `domain/repositories/name.py` | none | strip and validate | create use case |
| Health check, `application/services/health_service.py` | probe file | two probes under a timeout | adapter, pool |
| Body limit and request logging, `api/middleware/` | byte count, response-started flag, status | wrap receive and send | every HTTP request |
| Lifecycle, `application/lifecycle.py`, `main.py` | cached engine, tracer | start, stop | engine, telemetry, logging, health requests under way |
| Settings and backend selection, `config/`, `infrastructure/storage/factory.py` | static | normalise, validate, choose | every boot and every request that needs an adapter |
| Logging, telemetry, schemas | static | configure, format | lifecycle |

What is hard, and what makes each part correct:

* **Adapter.** Every await is a point where other calls, a cancellation, a planted
  symlink, a kill or a power loss may come in. It is correct if a path only ever holds
  the bytes its digest names, a stream is never torn, put() tells the truth, a failed
  put() is invisible, a blob leaves only through a delete(), and every call returns.
* **Service.** The blob may change hands between the size() and the get() or delete() of
  one request. It is correct if answers and log events match what happened and no error
  surfaces after a 200 other than as a cut connection.
* **Repository store.** Transactions overlap at READ COMMITTED, statements wait for each
  other's locks, COMMIT may be lost on the way back. It is correct if names are unique
  whatever the case, 409/404/2xx are true, the first deletion time is kept, reads are
  current, connections come back and every request is answered.
* **Middleware.** Route, error handlers, body limit and server all may send; the limit may be
  crossed, the client leave or the task be cancelled before, during or after any message. It
  is correct if the client gets one response, the application never more than the limit, an
  oversized upload never a success, and the log one summary with the status and the id the
  client saw.
* **Health check and lifecycle.** A deadline abandons threads that go on touching the disk;
  database and disk may hang at any moment. They are correct if every probe is answered, with
  a 200, "up" is true, probe files go away, the boot depends on the configuration alone, and
  `application_stopped` means that everything was released.

`PROJECT.json` lists every hazard at its line with the properties that would catch it.

## 2. Modules

| Module | Models |
|---|---|
| `BlobContract` | what the port promises: a linearizable store of contents under keys |
| `FilesystemBlobStorage` | the adapter, one action per awaited syscall |
| `FilesystemRefinesContract` | the refinement mapping from the adapter to the contract |
| `StorageService` | service, blob routes and blob error handlers, extending the adapter |
| `RepositoryStore` | use cases, store, session, pool and table, one action per statement |
| `RepositoryContract` | what the repository port promises |
| `RepositoryRefinesContract` | the refinement mapping from `RepositoryStore` to `RepositoryContract` |
| `RepositoryName` | the name algorithm, and the OCI grammar as an automaton it is compared with |
| `RepositoryNaming` | the store with the names it parses: what `Parse` is, and the property that relates both |
| `RequestPipeline` | one request through request logging, body limit, application and error handlers |
| `Application` | the life of the process: settings, startup, health requests, shutdown |
| `MC*` | values for TLC |
| `*Proofs` | inductive invariants, lemmas and theorems about the module they extend (section 5) |

### The adapter

A `Request` makes one call; since only put() creates files, the request also names the
inode that `mkstemp` gives it. `tree` is what is at each content-addressed path (nothing, an
inode, a symlink or a directory), `disk` the directory entries a power loss would leave,
`scratch` the inodes that have a name under `tmp/`, `data` and `synced` their bytes and whether
`fsync` covers them. `pc` is the syscall a call awaits. put() goes through `MakeTmpDirectory`,
`Mkstemp`, `HashChunk`/`WriteChunk` per chunk, `SourceEnds`, `Fsync`, `LstatTarget`, and then
either `MakeShardDirectory`, `LstatScratch`, `Rename` or `DiscardDuplicate`; failures inside
`_spool`'s try block go through `Cleanup`. get() is `OpenBlob` and one `ReadChunk` per
iteration; exists(), size() and delete() are one syscall each.

The environment is a set of `Hazards`: `fault` (a syscall raises an OSError that does not mean
absence), `cancel` (the task is cancelled, and the thread of `asyncio.to_thread` runs on as an
orphan: `OrphanRun`, `OrphanDrop`), `foreign` (another user plants an entry), `kill`, `power`.

Abstractions: bytes are chunks of a small alphabet and sizes count chunks; Sha256 is an
injective function (collision freedom is an assumption); `flush`, `fsync` and `close` are one step,
because a failure in any of them takes the same path; directories exist as soon as they
are needed and are not state; `created_at` and `content_type` are carried along without
influence. An orphaned `write` is not an orphan action: its file is already being
unlinked, so its bytes are unreachable. A kill leaves the bytes a scratch file has: nothing
reads them again.

`latest` is a history variable: the file the last rename put at each path. Racing puts of one
content replace each other's file, so what must be conserved is not the file of each put but the
last one at the key: `StoredBlobConserved` says that it is there, or that a delete() took that very
file.

### The service

`StorageService` extends the adapter, so a service step is a step of one more process over the
same variables. `frame` is the method a request runs, `log`/`logSize` its event, `status` the
status line (`aborted` is a connection that was cut). `RetrieveSized` and `RemoveSized` sit between
the two port calls; the body is pulled only after `StartResponse`, as StreamingResponse does.

### The repository store

A row's uuid is named by the request that inserts it. `row` is the committed version of each
row, `staged` the version an open transaction has written, which holds the row lock and the
index key until COMMIT: `Blocked` is PostgreSQL's wait. `began` is `now()`, the start of the
transaction, which is what `created_at`, `updated_at` and `deleted_at` are set from. `Acquire` takes a
pooled connection and begins; `Insert`, `Update`, `Select`, `ListPage`, `ListTotal` are the
statements; `Commit`, `Rollback` and `Close` give the connection back. A unique violation is always
the name's: the only other unique index is the primary key's, whose values the database makes. So
the violation whose constraint the driver does not name, which the code takes for a duplicate,
is the clash of `Insert` as well. A rollback that fails turns whatever the flush had found into
an error and leaves the connection to `Close`, which is what `Raise` does without a rollback, so
it has no action of its own. `DbError` during COMMIT leaves
the transaction to the server, and `Resolve` decides later whether it had arrived. `Parse`
is RepositoryName (strip, then accept or reject, computed by the module of that name) and `Fold`
is CITEXT's comparison.

`RepositoryContract` has neither statements nor transactions: a write takes effect with its
COMMIT, a conflict is decided by the INSERT, a lookup by its SELECT. list() is two instants in
the contract as well, because nothing in the code makes them one. A write that ended in an error,
or whose process died, may take effect later, whole and never against the uniqueness of names.

`RepositoryName` keeps of a character only its class. `Strip`, `Components` and `IsValidComponent`
follow the code; the pattern becomes "words with a joint between any two", and the reference,
`IsOciName`, reads the whole name character by character: `Run` is the state after each of them.
The run compares them on every string of up to `MaxLength` + 1 characters, so that the length limit
is crossed too; the proof compares them on every string. `RepositoryNaming` says that what the store
calls `Parse` is this algorithm.

### The request pipeline

One request, because requests share no state here. `Correlate` and `CheckDeclared` are the two
middlewares on the way in, `LeaveLimit` and `LeaveLogging` their except and finally clauses on the
way out, `ReceiveBody` and `SendStart`/`SendBody` the wrapped receive and send. Between them the
application is free: it reads, answers and raises in any order, and reads while it answers.
`wire` is what reaches the server, `log` the records with the id they carry. `exc` is the
exception in flight; `_BodyTooLarge` and a cancellation pass every `except Exception`.
The application's own response is a route's 200 or one of the answers FastAPI gives by itself
(`OwnStatus`): 404 and 405 of the router, 422 of request validation (a path that is no UUID), 400 of
a body it cannot read. `main.py` registers no handler for those, so their bodies carry no
`request_id` and log no `request_failed`; their header carries the id like every other, since the
middleware adds it. `IdsAgree` asks the id of the header of every response and of the body of those
that are an `ErrorResponse`, made by `handlers.py` or by `_reject`.
FastAPI, Starlette's error middlewares (a handled exception after the status line becomes an
unhandled one; a 500 that was answered is raised again) and the server's fallback are external.
A send is atomic, since nothing observes the middle of one.

### The application

`phase` walks through `main.py`'s import and `lifespan`. `deployment` is what a boot needs
besides valid settings: a parseable DSN, package metadata, a constructible exporter. A health
request goes through `CheckDatabase`, the two threads of check_health and `Respond`;
`StorageDeadline` may fire at any await, withdraws a queued call and leaves a running one to itself.
`db` and `disk` change at any time, `Workers` bounds the executor. The server drains requests
before it lets the lifespan go on, and the event loop joins its threads before the process ends,
after a shutdown that raised too: `exit` says that it stopped, `events` how far the shutdown came.
Raw settings are a few spellings of each value, enough to tell "accepted as written",
"accepted after normalising" and "refused".

PostgreSQL, the kernel and the thread pool are external: modelled from how the code uses
them and marked so in the map.

Operators whose comment begins with "Mutant" are plausible bugs, used by no
specification; each one replaces a definition to show that a property depends on it.

## 3. Runs

| Run | Bounds | Result |
|---|---|---|
| `blob_crashes` | 2 calls, streams of 0 or 1 chunk, all hazards | content addressing, true put() reports, failed puts invisible; the adapter implements `BlobContract` |
| `blob_races` | 3 calls, up to 2 chunks, faults and cancellations | streams, scratch files, conservation of blobs, deletes |
| `service_requests` | 3 HTTP requests, 2 contents, faults, cancellations, planted entries | answers and logs are true |
| `service_answers` | 2 HTTP requests, fair scheduling, faults, cancellations, kills, power losses | every port call returns or waits for its own caller, every request is answered |
| `repository_writes` | 3 creates/deletes, 3 spellings of one name, 2 connections, 2 instants, errors and kills | uniqueness, true answers, first deletion kept, no leak; names follow the grammar (every string of up to 6 characters) |
| `repository_reads` | 3 requests of any kind, 2 repositories, limits and offsets out of range on both sides | reads current, first page newest |
| `repository_answers` | 3 requests on 2 connections, fair, errors and kills | every request is answered, and the store implements `RepositoryContract` |
| `pipeline_requests` | 1 request, bodies of up to 3 messages of 0, 2, 3 or 4 bytes around a limit of 3, any Content-Length, responses of up to 3 messages | one response, bounded body, true summary, one id; oversized requests end |
| `application_health` | 2 health requests on 1 thread, every deployment and spelling, 2 changes of database or disk | probe files, verdicts, statuses, boot and stop |

Three concurrent actors are what the races need: a victim, a competitor and an observer
(two creates and a delete, a put, a delete and a reader). Two chunks distinguish empty,
partial and whole streams. Two instants order any two transactions either way.
A limit of 3 with messages of 0 to 4 bytes is met exactly, passed by one message, passed by a
sum and passed by one byte. Two probes on one thread make one wait for the other; two changes
let a dependency fail and recover, or fail differently, within one probe.
Symmetry is used only in runs without liveness.

Three runs show where the code does something other than what is written about it:

* `blob_rewrite`: two concurrent puts of the same content both find the target absent, and the
  second rename replaces the first file. The contract calls a repeat a no-op that reports the
  original timestamp. The bytes stay right (`ContentAddressed` holds); the timestamp does not.
* `service_notfound_logged`: a delete between size() and get() leaves a `blob_retrieved` event
  for a request that answers 404, though retrieve says this is not logged.
* `repository_updated_at`: a repeated delete whose transaction began before the first delete's but
  updates after it moves `updated_at` back before `deleted_at`, though the entity says it is
  the moment the row last changed.

Two more disagreements were met and have no run of their own, since no interleaving is needed to
see them. With `STORAGE_BACKEND=s3`, healthz answers 500, because the adapter is built before the
route runs, where its docstring says the status is 200 either way (`HealthzAnswers` says
which backend gets which). And the docstrings of the settings and of the factory name `minio` and
`gcs` among the recognised backends, while `config/storage.py` accepts only `filesystem` and `s3`.

## 4. Fairness

The adapter: weak fairness of `Syscall` for each call, because the thread pool runs every
submitted function and the event loop resumes its coroutine. A caller's stream (put()'s
source, get()'s consumer) owes nothing, so a call may wait for it for ever; the liveness
properties say so. The service adds weak fairness of its own steps. The repository store: weak
fairness of `Serve`, the event loop again, plus `pool_timeout` and `command_timeout` of `engine.py`,
which end every wait. The server's `Resolve` is not assumed fair: `EveryCallAnswers` holds even if a
transaction without a client keeps its locks, because of `command_timeout`. The pipeline: weak
fairness of the middlewares, the error response and the server, none of the application, the
client or the body, so `OversizedEnds` does not depend on them. The application: weak fairness of
the boot, of the shutdown and of each health request's event-loop steps, deadlines included; the
executor's threads, the database and the disk owe nothing, and may hang for ever.

## 5. Proofs

Every theorem holds for any number of requests, any values and any set of hazards, from the
named assumptions of the modules: bounds are naturals, the things a model tells apart are
distinct, `Sha256` is injective, the set of repository requests is finite. Each inductive
invariant was checked by TLC before it was proved.

| Module | Theorem: property |
|---|---|
| `FilesystemBlobStorageProofs` | `Typing`: `TypeOK`; `ContentAddressing`: `ContentAddressed`; `FaithfulStreams`: `StreamFaithful`; `HonestReports`: `PutReportsWhatItConsumed`; `NoEffectOfFailedPut`: `FailedPutPublishesNothing`; if there is no power loss, `ScratchFiles`: `ScratchAccounted`; `Conservation`: `StoredBlobConserved`; `OneDeleteWins`: `DeletesNeverShareAVictim` |
| `BlobRefinementProofs` | `Refinement`: `ImplementsContract` |
| `StorageServiceProofs` | `ServiceTyping`: `ServiceTypeOK`; `TrueDeletionLog`: `DeletionLogIsTrue`; `WholeDownloads`: `CompletedDownloadIsWhole`; `EagerNotFound`: `NotFoundIsEager`; `ServiceKeepsPromises` and, if there is no power loss, `ServiceConserves`: the adapter's seven safety properties in the service's own behaviours |
| `RepositoryStoreProofs` | `Typing`: `TypeOK`; `UniqueNames`: `NamesUnique`; `CreateIsTruthful`: `CreateAnswersTruthfully`; `DeleteIsTruthful`: `DeleteAnswersTruthfully`; `ConnectionsComeBack`: `ConnectionsReturned`; `RowsAgeOnly`: `RowsOnlyAge`; `CurrentReads`: `ReadsAreCurrent`; `NewestFirst`: `FirstPageIsNewest` |
| `RepositoryRefinementProofs` | `RepositoryRefinement`: `ImplementsRepositoryContract` |
| `RepositoryNameProofs` | `NameIffOciName`: `RepositoryName` accepts exactly the OCI names, among strings of every length; `StoredNamesAreOciNames`: `NamesFollowTheGrammar` |
| `RequestPipelineProofs` | `Typing`: `TypeOK`; `BoundedBody`: `BodyBounded`; `OneResponseEver`: `OneResponse`; `OversizedRefused`: `OversizedIsRefused`; `TrueSummary`: `SummaryIsTrue`; `OneId`: `IdsAgree` |
| `ApplicationProofs` | `Typing`: `TypeOK`; `UpIsClean`: `UpLeavesNoProbe`; `ProbeFilesGo`: `ProbeFilesAreTemporary`; `BootFailures`: `BootFailsOnConfigurationOnly`; `StopReleases`: `StoppedMeansReleased` |

### The adapter

None of the properties is inductive. `IInv` adds what the code relies on without
saying: while spooling, the scratch file equals what the digest has consumed, less the chunk
between `digest.update` and the write (`SpoolInv`); from the fsync to the rename the file is durable
and its key settled (`TargetInv`); an inode in the tree or on disk is durable, has the bytes its
path names and its writer has finished (`PublishedInv`), which is why nobody writes to it again and
why a power loss cannot truncate it; the file a duplicate was found in has the same bytes, by
injectivity (`DuplicateInv`); and an open handle keeps a durable inode whether or not it is still
in the tree (`StreamInv`). `LocalStep`, `TreeStep` and `OwnStep` separate what a step does to its own call
from what it does to the tree; crashes go through `DieOwnInv`.

The second half of the module adds `CallInv`, what the await a call is at says of its method, its key and
its outcome, which holds under every hazard, and `HistoryInv`: who owns a scratch file, that a deleted
inode is in no path and was deleted once, and of each path that the file last renamed to it is there or is a
delete's victim (`LatestInv`). `ConservedInv` ties the calls to that: a put() that has found its content
stored, or has stored it, has a key to which some rename has gone. Every step of a
call is `Silent`, `Publishes` its inode or `Removes` one (`NameStep`), and only the last two need an
argument. A power loss does undo renames and unlinks that were answered, since no directory is
synced, so these three theorems assume `NoPowerLoss`; the runs that check these properties have
no power loss either.

`BlobRefinementProofs` shows that the adapter implements `BlobContract`, power losses included.
`PortInvoke` to `PortLateEffect` restate the contract's actions over the mapped state, `StepCall` to
`StepOrphan` show which of them each action of the adapter is, and `StepSpool`, the longest part of
put(), that it is none. `CallsInv` is what the mapping needs: the stage and the answer of a
call are read off `pc`, and the contract's guards are about `op`.

### The service

Its steps are not all steps of the adapter: `RetrieveSized` and `RemoveSized` begin a second call
in a request that is done. `ResumeCalls` shows that `CallsInv` survives that, because a request that
asked for a size has made no file (`FrameInv`), so nobody's open handle or path is its inode. `SizedInv`
says that the size a request has learnt is that of the content its key names, whichever file it
was read from, and `DeletedInv` the same of the file it removed; the hash being injective, the two
contents are one, which is why the size logged is right although the file may have changed hands.
`StatusInv` ties each status line to the one outcome it is sent for.

The adapter's theorems are about a request that makes one call, so they say nothing of a request
that makes two until it is shown that the second call does no harm. `CallsInv` is part of
`ServiceInv`, and `ResumeHistory` shows the same of `HistoryInv`: a request between its two calls
owns no file, so nobody's victim or blob changes. `ServiceKeepsPromises` and `ServiceConserves` follow.

### The repository store

`LockInv` is what PostgreSQL's row and index locks give: no two open transactions write one name or one
row, and what an INSERT has staged is no name of a row. With what each point of a request
implies about its connection, its staged version and its answer (`OwnInv`), COMMIT, a lost COMMIT and
`Resolve` keep `NamesUnique`. `RowsOnlyAge` is an action property and follows from the same
invariant. The reads need more: what existed and what was deleted when the read was asked
(`ReadInv`), and the order of the page from the moment it is fetched (`PageInv`); `ReadsKeep` shows that
a table that only ages cannot falsify them.

`RepositoryRefinementProofs` shows that the store implements `RepositoryContract`. `PortAsk` to
`PortFail` restate the contract's actions over the mapped state, `StepArrive` to `StepKill` show
which of them each action of the store is: COMMIT is the write, a clashing INSERT the conflict, a
SELECT the lookup, and `Resolve` publishing what a lost client left open the late effect. That such
a version still fits (the name is free, the row exists) is `InsertInv` and `UpdateInv`; `PortInv` adds
that an insert stages a live row and that only a returned list() has a total. `PageIsFull` is the one
argument about data: ranks are a bijection between the live rows and the numbers below their count,
so LIMIT and OFFSET cut out as many rows as there are.

### Names

The code splits a name at its slashes and matches each piece with a pattern; the reference reads it
from left to right. `Fits` is what both amount to: a condition on one character and the one or two
before it. `RunStates` shows by induction that the automaton is in the state the last character
gives as long as all of them fit, and in the sink for ever after the first that does not, hence
`OciNames`. `ComponentsFit` shows that every component matches exactly when all characters fit and
the last one ends a word: in one direction (`PiecesFit`) a character lies between two neighbouring
cuts and inside one maximal run between two words, which the pattern says is a joint; in the other
(`FittingPieces`, `FittingRun`) the first character of a run decides what the rest of it can be.
`NameIffOciName` is the two together, for every string and every `MaxLength`.

Induction over the characters needs no induction theorem with an operator parameter: `LeastElement`
is `WFMin` for the naturals, `GreatestElement` and `SetInduction` follow, and `RunDefined` uses them to
show that the recursive function `Run` satisfies its own equation.

`StoredNamesAreOciNames` brings this to the store with one more invariant (`NameInv`): a row carries the
name its own create() parsed, through soft deletes, lost COMMITs and `Resolve`, and only a name that
does not parse is refused.

### The pipeline and the application

The pipeline's invariant follows the response: who may still send and with which status
(`ResponseInv`), that the body limit's flag is the truth about the wire (`FlagInv`), that what was
delivered is what was counted (`CountInv`), how far a refusal has come (`RefusalInv`) and what the
records hold (`LogInv`). The application's says of a probe which call its thread is at and
whether its file can exist (`ProbeInv`), of a session that it is open only while its request is under way
(`SessionInv`), and of the phase what has been validated, started and released (`PhaseInv`).

### Only model-checked

Liveness (`EveryCallReturns`, `EveryRequestIsAnswered`, `EveryCallAnswers`, `OversizedEnds`,
`HealthzAnswers`, `LifespanProgresses`), since fairness and ENABLED are out of the prover's reach.

## 6. Not modelled

* API schemas: field by field copies of entities, no state and no decision.
* `WoolooException` and its table of presentations, and BlobAlreadyExists: raised by no code.
* Wording, rendering and routing of log records, truncation of logged paths, span processors and
  `_strip_query_string`: they change what a record or a span says, not what the program does.
* Migrations: modelled by the schema they leave. Recycling and pre-ping of connections replace a
  connection before a statement and are not seen by it.
* Non-HTTP scopes (lifespan, websocket): both middlewares pass them on unchanged.

## 7. Plan

Every safety property of the passing runs, both refinements included, is proved. What is left is to
keep modules, runs and proofs in step with the code.
