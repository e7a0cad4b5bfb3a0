# Verification of surreal-memory-server

TLA+ models of surreal-memory-server: its operation ledger, its connections, its embedding
executor, its storage and the server around them; model-checked with TLC on small instances,
with theorems that TLAPS proves for all instances. Paths below are relative to the directory
that holds `src/`; `operations.rs` stands for `src/src/operations.rs` and `surreal.rs` for
`src/crates/surreal-memory/src/storage/surreal.rs`.

## 1. The system

The server keeps long-term memories of agents in SurrealDB, behind REST and MCP.
Work that must not be lost goes through a *durable operation ledger*: a client
submits an operation under an id of its own, the server records a receipt before it
does anything, and one coordinator task per tenant drives every receipt to
`committed` or `rejected` through failures and restarts.

| Component | State | Operations | Talks to |
|---|---|---|---|
| operation ledger (`operations.rs`) | tables `memory_operation`, `memory_operation_event`, `memory_operation_part`; in memory the wake channel, `in_flight`, the drain loop's queue | `submit`, `retry`, `reject`, `list_nonterminal_ids`, `drain_pending`, `process`, `transition`, `finish_operation`, `record_processing_error`, `reject_permanent_failure` | ledger connection, executor, memory store, task streams |
| event stream (`operations.rs`, `event_stream`) | a broadcast receiver and `last_sequence` per client | subscribe, replay, receive, refetch after lag | the ledger's writers through `events_tx` |
| ledger connection (`operations.rs:409-736`) | connection with a generation, replacement lock | `ledger_connection`, `replace_ledger_connection`, `await_database` | every ledger call |
| embedding executor (`src/src/executor.rs`) | child process, generation, progress, exit count, `force_cpu` | `request`, `exchange`, `restart_child`, `prepare_operation` | a child over pipes; its events go to the journal |
| executor journal (`operations.rs:1172-1267`) | table `memory_executor_event`, snapshot columns | `record_executor_events`, `persist_executor_snapshot` | executor, ledger |
| storage connection (`surreal.rs`) | `ConnectionCell`, embedded-mode semaphore | `live_db`, `retry_operation`, `reconnect_with_attempts`, `write_retrying_conflicts` | every storage call |
| memory store (`surreal.rs`) | tables `memory`, `memory_history` | `store_indexed_memory`, `add_memory`, `update_memory`, `delete_memory` and the owned forms | storage connection, embeddings |
| expiry (`storage/surreal/expiry.rs`, `src/src/workers/ttl.rs`) | `valid_until` | `sweep_expired`, `delete_if_still_expired` | memory store |
| task streams and steps (`surreal.rs`) | `task_stream` with counters and status, `task_step` | `add_to_task_stream`, `delete_task_stream`, `add_task_step`, `complete_step` | memory store, compression |
| compression (`storage/surreal/derivation.rs`, `compression/`) | derivations, claims, `status`, `derived_into` | `derive_summary`, the gate, promotion, lineage | memory store, task streams |
| mindmaps, entities, relations (`surreal.rs`, `mindmap.rs`) | one row per mindmap with nodes and edges; entities with observations; pairs | create, add node, add edge, delete node; observe, delete with relations | storage connection |
| query embedding cache (`surreal.rs`) | cache, identity, insertion guard | `embed_query` | executor |
| migrations (`storage/migrations/`, `ensure_embedding_indexes`) | schema, recorded versions, vector indexes and their metadata | `run_migrations`, `repair-data`, index rebuild | the database of a tenant |
| tenants (`src/src/auth/tenants.rs`) | one cell per tenant | `runtime`, `create` | creates storage, ledger and TTL worker |
| authentication, access, REST (`src/src/auth/`, `src/src/api/`) | principals | modes, restricted credentials, ownership | tenants, storage |
| server start (`src/src/main.rs`) | mode, address, tasks | boot, stop, `repair-data` | everything above |
| MCP, contracts, hooks, palace, embedding backends | - | decoding, dispatch, numeric code | everything above |

What is hard in it:

* **Concurrency.** Requests, the coordinator, the journal task and the TTL worker
  interleave at every `await`. A ledger transition reads the row and writes it one
  await later, and the `UPDATE` has no guard of its own.
* **Failure.** Every ledger call has a deadline. A call that reaches it is dropped,
  but the transaction it sent may have committed, may commit later, or never will.
* **Restart.** Everything but the tables is lost; the next process may run another
  embedding model.
* **Ordering.** Events are published after their transaction committed, by several
  tasks. Clients combine a history query with a lossy broadcast channel.
* **Progress.** Wakes may be lost; only a periodic sweep guarantees that an operation
  goes on.
* **Half-way.** A query of several statements that is not a transaction commits them
  one by one; migrations are such queries, and a start of a storage may be cut off
  between any two of them by a crash, a timeout or the client that happened to drive it.
* **Read, think, write.** Summaries, updates, owned writes and mindmap edits read rows,
  await an embedding or a model, and then write: what they have read may be stale.

`PROJECT.json` lists the hazards one by one, each at its line.

## 2. Modules

| Module | Models | Extends |
|---|---|---|
| `OperationLedger` | the ledger, its coordinator, operator requests, submissions, restart | - |
| `Receipt` | what the ledger promises, independent of how | - |
| `EventStream` | `event_stream` for one operation, its writers and the channel | - |
| `StorageConnection` | the connection cell, retries, reconnects, conflicts, the semaphore | - |
| `LedgerConnection` | the ledger's connection and its generations, beside the storage's | `StorageConnection` |
| `Executor` | the supervised embedding child, the receipt's counters, restart | - |
| `QueryCache` | searches that share embeddings in front of the executor | `Executor` |
| `Compression` | from texts to claims: extraction, gate, budget, promotion, lineage (pure) | - |
| `MemoryStore` | memories and their history: add, update, delete, sweep, stable-key write | `Compression` |
| `TaskStreams` | streams, their counter, selection and publication of summaries | `MemoryStore` |
| `Documents` | mindmaps, steps, entities, relations | `TaskStreams` |
| `Storage` | the calls of one storage together | `Documents` |
| `Server` | processes, tenants, credentials, migrations, indexes, TTL worker around it | `Storage` |
| `MCOperationLedger`, `MCExecutor`, `MCStorage` | the instances TLC checks | |
| `OperationLedgerProofs` | theorems about the ledger, its effects, answers and order | `OperationLedger` |
| `EventStreamProofs` | theorem about the event stream | `EventStream` |
| `LedgerConnectionProofs` | theorems about both connections | `LedgerConnection` |
| `ExecutorProofs` | theorems about the executor and the query cache | `QueryCache` |
| `StorageProofs` | theorems about memories, history and summaries | `Server` |
| `AccessProofs` | theorem about credentials restricted to a user | `StorageProofs` |
| `StartProofs` | theorem about the start of a storage and its migrations | `AccessProofs` |
| `DocumentProofs` | theorems about steps, mindmaps, counters and types | `StartProofs` |

What the parts have in common: a task (a request, the coordinator, a worker) is a
program counter with what it remembers, one action is what it does between two awaits,
and a request may be dropped at any await.

### OperationLedger

*Durable state*: `rec` (receipt rows), `events` (event rows), `planned` and
`embedding` (part rows), `stored` (operations whose effect is in the store).
*In doubt*: `late`, the transactions whose caller gave up. *Volatile*: `wake`,
`in_flight`, `mutex`, `coord`, `operator`, `client`, `model`.

One action is what one task does between two awaits:

| Actions | Code |
|---|---|
| `SubmitGet`, `SubmitCreate`, `SubmitReread`, `SubmitRead`, `SubmitWake` | `submit` and the status `submit_operation` answers with |
| `Discover`, `DiscoverFails`, `TakeWake` | `run`, `reconcile_nonterminal`, `list_nonterminal_ids` |
| `StartNext`, `Done`, `Failed`, `WaveEnds` | `drain_pending` |
| `Load`, `CheckDependencies` | `process` |
| `Plan`, `Advance`, `Embed`, `Store` | `process_add_memory`, `process_task_operation`, `store_indexed_memory` |
| `Finish`, `Seal` | `finish_operation` |
| `TransitionRead`, `TransitionCommit`, `TransitionLost` | `transition` when it commits, conflicts, or gives up |
| `Pause` and the dead letter in `Failed` | `record_processing_error`, `reject_permanent_failure` |
| `AwaitFails` | any other await of `process` that fails; a write it carried may have happened |
| `OperatorRetry`, `RejectLock`, `RejectCheck`, `RejectRead`, `RejectCommit` | `retry`, `reject` |
| `LateCommit` | the database executes an abandoned transaction |
| `Crash` | the process dies and another starts |

A transaction is the record it writes. It commits if and only if the key of the event
row it creates is free (`KeyFree`), because the record id `<operation>-<sequence>`
makes `CREATE`, and with it the whole transaction, fail on an existing row.

Abstractions, and why they are sound for the properties:

* payloads are hashes; what `validate_payload` refuses (`Invalid`), what the planner
  answers with no part (`EmptyPlan`) and what the store refuses every time, because a task
  stream or a step does not exist (`Refused`, `Storable`), depend on the payload only;
* a plan is a set of parts, an embedding is the model that made it, and a model is
  known by the width of its vectors, because that is all `aggregate_embeddings`
  compares. Two models of one width are one model here (a listed hazard);
* the six queries of `list_nonterminal_ids` and the lookups of `dependency_blockers`
  are one step each. A dependency that has committed stays committed, and an operation
  missed by one discovery is found by the next;
* the drain queue is a set: it is sorted by id, and ids are arbitrary;
* the start-up reconciliation's second attempt is an ordinary sweep;
* `Done` joins clearing `in_flight` with the read of the receipt, which asks only
  whether it committed, and a terminal row stays. `RejectCheck` joins `get` with
  `get_memory`: the mutex keeps the coordinator from storing in between, and
  `transition` reads the row again;
* the trailing read of `transition` failing after its commit is `Abandon` with the
  transaction committed at once or later;
* writes of parts and memories take effect before their call returns or not at all;
  only ledger transactions stay in doubt. They are keyed and idempotent, and the
  coordinator is the only task that writes them;
* a handler whose client disconnects is dropped at an await: for the ledger that is
  the same as the failure of that await;
* no memory is deleted here: `stored` means that the effect was put into the store;
* `result`, `updated_at` and the executor snapshot columns are not read by any decision
  here; the snapshot columns are `snapshot` in `Executor`.

### Receipt

`Accept`, `Apply`, `Commit`, `Reject` over `receipt` and `applied`. The refinement mapping
sends every non-terminal state to `"open"` and `stored` to `applied`. The intermediate
states are not distinguished because the code does not keep their order once transactions
commit late (section 4, liveness of the ledger). A rejected receipt may have been applied,
for the reason shown by `ledger_reject_stored`.

### EventStream

One operation and one client. `committed` is the table (its rows are gapless by
`OperationLedger!EventLogComplete`), `unsent` what writers have committed and not
published, `channel` all that was ever sent, of which the last `Capacity` are still
there, `cursor` the receiver. `Commit`/`Send`/`AnswerLost` are the writers,
`Subscribe`, `ReadRows`, `Yield`, `GoLive`, `Receive`, `Lagged` the stream. A history
read that fails ends the stream and the client reconnects with `after` set to the last
event it has. The channel is external (`tokio::sync::broadcast`).

### StorageConnection and LedgerConnection

`cell` is the `ConnectionCell`; a connection is the number of the handle that was
opened, `alive` those whose transport works, `permits` the embedded-mode semaphore.
`task` are calls of the storage: creates go through `retry_operation` (`Start`,
`GetPermit`, `CreateAnswers`, `ConnectOk`, `ConnectFails`, `Wakes`), every other write
through `write_retrying_conflicts` (`WriteAnswers`, `Wakes`), whose answer is found by
`select_statement_error` among the errors of the statements. `Dropped` is the deadline
of a call or a client that went away, with the drop of `ReconnectGuard` and of the permit.
A request that is lost or dropped may have been executed.

`LedgerConnection` adds `conn` (handle and generation), `lock` (`connection_replacement`)
and `caller`, the ledger's calls: `Call`, `LockForFirst`, `FirstConnected`, `FirstFails`
are `ledger_connection`; `QueryOk`, `QueryRefused`, `QueryFails` are `await_database`;
`Replace`, `Replaced`, `ReplaceFails` are `replace_ledger_connection`, and `Told` is the
one retry of `retry_recovered_ledger_once`. In server mode a replacement is a new
transport, in embedded mode a clone of the storage's handle, which is why the two live
in one specification. An embedded database has no transport to lose.

### Executor and QueryCache

`child` is the content of the state mutex: generation, device, the request it works on and
the pipe with what it has written; `owner` holds the mutex; `sup` are the counters and flags
of the service. `Acquire`, `Spawned`, `SpawnFails`, `Stopped`, `StopFails`, `Read`,
`Watchdog` are `request_once`, `exchange`, `restart_child` and `spawn_child`; `Return` is
the one retry of `request`; `Cancel` drops an interactive request together with its
`InFlightRequest`. `Accept`, `Complete`, `Fail`, `Stray`, `Die` are the child
(`run_embedding_executor`) and what it may do wrong. `Process`, `Prepare`, `Persist` are
what the coordinator does around a request: `prepare_operation` adopts a child whose
generation is behind that of the receipt, `persist_executor_snapshot` writes `snapshot`. Its
`UPDATE` has no guard: one that was given up at the deadline, or sent before a crash, stays
in `late` and may overwrite a newer snapshot (`LateSnapshot`), so that generation and exit
count of a receipt may fall. `Crash` keeps nothing else. `past` and `begun` are history
variables for `ExitsAreReal`: the exits of earlier lives of the server, and those there had
been when an operation was first prepared. Heartbeats of the child only hold off the
watchdog, so they are not steps; rows of the journal are represented by the generation of
their key.

`QueryCache` puts `embed_query` in front of it for searches of one query: `cached` and
the insertion guard `producer`. A key exists once the first child has identified itself
and until the fallback to the CPU. Eviction is not modelled.

### Compression, MemoryStore, TaskStreams, Documents, Storage

`memory`, `history`, `stream`, `derivations`, `mindmap`, `step`, `entity`, `relation` are
the tables; `call` are the requests under way. A transaction is one step; what retries
and lost connections do to it is `StorageConnection`'s subject.

| Actions | Code |
|---|---|
| `StartAdd`, `SearchDuplicates`, `InsertMemory`, `Readback` | `add_memory` |
| `StartGet`, `GetMemory`, `WriteUpdate`, `GetUpdated`, `DeleteOwned` | `update_memory`, `update_memory_owned`, `delete_memory_owned` |
| `StartDelete`, `StartDeleteAll`, `SeeMemory`, `WriteDelete`, `AllDeleted` | `delete_memory`, `delete_all_memories`, the memories of a deleted stream |
| `StartSweep`, `SweepOne`, `CountSwept`, `SweepFails`, `SweepEnds` | `sweep_expired`, `delete_if_still_expired` |
| `StartIndexed`, `CreateIndexed`, `GetIndexed` | `store_indexed_memory` |
| `CreateStream`, `SetStatus`, `StartAddTo`, `SeeCounter`, `StartDeleteStream`, `ListMembers`, `DropStream` | the task streams |
| `StartCompress`, `StartSummarize`, `LoadStream`, `SelectSources`, `Generate`, `CheckPublished`, `Publish`, `Confirm` | `auto_summarize_task_stream`, `compress_memories`, `derive_summary` |
| `CreateMap`, `ReadMap`, `EditMap`, `FindMap`, `DropMap`, `UnlinkMaps` | mindmaps |
| `FindStreamOfStep`, `FindStep`, `CreateStep`, `RefetchStep`, `CompleteStep`, `SetStep` | task steps |
| `CreateEntity`, `CreateRelation`, `DeleteRelation`, `DeleteEntity`, `ReadEntity`, `UpdateEntity` | the knowledge graph |

`Compression` is pure: a source is a row, a text a set of sentences, and `Sentence` gives
for each what the cue lists find in it. `Extracted` and `Proposed` are what the rules and
a language model suggest (the model may quote anything, also wrongly), `Gate` validates,
requalifies, decides the status and fits the budget. A sum of tokens (`SumOf`, `Total`) is
the cardinality of a set that holds as many `Units` of each thing as it counts.

Names of streams are unique for each owner (version 18). A call that names no owner meets
the streams of all (`Named`): a read takes any one of them, and the `UPDATE` of an add or of a
status change reaches all. A sweep is known by its cutoff, as in the code: `CountSwept` looks
for a `deleted` row of the memory that bears it.

Abstractions: agent and user are one owner; near-duplicates are equal texts of one owner, or
of anyone if the call names none; a new row has the origin `user`; a provider proposes one
claim at a time; budgets of batches, `LIMIT` and pages are one pass; a summary may always be
deferred; time passes only in the workloads in which something expires.

### Server

Two processes over one tenant database `db` (recorded version, schema elements, dimension of
the vector indexes, metadata, rows of older formats). `start[h]` is a start of the storage,
driven by a request (`TenantRegistry::create`), by `main` in local mode, or by
`repair-data`. `Migrations` lists the statements of all 24 versions as far as the schema
tells them apart; `Statement`, `Inspect`, `Normalise`, `RecordVersion`, `Validate` execute
one each, in the order of the code, and a statement that is refused does not stop those of
the same query. A start stands at statement `next` of `version`; `Latest` is 24 and the
index rebuild of `ensure_embedding_indexes` counts as version 25. Nothing keeps the starts
of two processes apart: `Disturbed` marks the processes under which another changes the
schema, and `Clashes` is such a start changing it in turn. `Succeeds` and `Fails` end a
start, `Boot` and `Crash` a process; `Authenticate`, `Initialise`, `Resolve`, `Handle`,
`Disconnect` are a request on its way to the storage, `BeginSweep` is a pass of the TTL
worker, and `Serve` is a step of a call in `Storage`. `IndexRefuses` is a vector that does
not fit the index. Stopping drains nothing, so it is a crash. Tenants share nothing; one is
modelled.

## 3. Properties

* `TypeOK`, one per specification.

Ledger and stream:

* `EventLogComplete`: sequence numbers are 1..`progress_seq` without gap or duplicate,
  every event starts where the one before ended, the last is the row's state.
* `TerminalImmutable`: a committed or rejected row never changes, whatever is in flight.
* `StartedAfterDependencies`: nothing passes `blocked` before its dependencies commit.
* `CommittedIsStored`: indexed and committed receipts have their effect in the store,
  from fully embedded parts of one width.
* `SubmitAnswersTruly`: 202 to one caller of an id at most; 202 and 200 only over the
  caller's payload; 409 only over another.
* `RejectedIsNotStored`: a rejected memory was not stored.
* `StatesInOrder`: a receipt never moves back (without late commits).
* `DrivenToTheEnd` (liveness): an accepted operation whose dependencies have committed
  ends, unless it gets to where storing it cannot succeed any more (`Incurable`).
* `NothingRetriesForever` (liveness): such an operation ends too. Violated, see below.
* `ImplementsReceipt`: the ledger implements `Receipt`.
* `OnlyUnsentMissing`, `AllDelivered` (liveness): the stream loses nothing that was
  sent, and delivers everything that is sent to a client that stays.

Connections:

* `NeverStranded`: the cell says `Reconnecting` only while some call is connecting.
* `AppliedAtMostOnce`: the effect of a call reaches the database at most once, however
  often it is retried.
* `CauseIsNamed`: an aborted write is never reported by its placeholder error.
* `FailedIsRetried` (liveness): once a create that begins on a `Failed` cell has been
  answered, the cell is `Failed` no more. Violated, see below.
* `OnlyTheFailedIsReplaced`: a ledger connection is replaced only by its successor, for a
  failure on itself. `RecoveredIsNewer`: who is told to retry finds a newer one.
* `CallsEnd`, `LedgerRecovers` (liveness): every call ends; a lost ledger connection is
  replaced.

Executor:

* `RepliesMatch`: nobody takes the reply to another request for its own.
* `AlignedWhenFree`: with the mutex free, the child owes nothing and nothing is unread.
* `ReadyMeansChild`: the service reports ready only while there is a child.
* `FallbackIsComplete`: a search that begins after a Metal fault is answered from the
  CPU, whatever the cache and a child being started hold.
* `EventsFollowReceipt`: an operation's events have generations above its receipt's.
* `ExitsAreReal`: a receipt shows no more exits than there were since its operation was
  first prepared: none is counted twice, restarts and late snapshots included.
* `RequestsEnd` (liveness): searches and processings end.

Storage:

* `HistoryIsComplete`: versions 1..n of a memory have exactly one history row each.
* `NoResurrection`: a memory with a `deleted` row does not come back.
* `SweptOnce`: two sweeps report one memory as removed only if they began at one instant,
  or a client deleted it at the instant of one of them.
* `SummariesCiteWhatWas`: a derivation archived the very versions it read, no source is
  in two, and each claim quotes what the memory said at the version it names.
* `CounterExact`: the counter of a stream is at least the tokens of its active memories, as
  long as no call deletes (sweeps included) and no member of the stream was updated (the
  code does not recount for those); it is just that if no add without an owner meets another
  owner's stream of the name beside it, since such an add counts for all of them.
* `AckedNodesKept`: an acknowledged node is in its mindmap while nothing is removed.
* `AddsAgree`: calls that add a step under one key agree on one row.
* `CorroborationIsEarned`: violated, see below.

Server:

* `ServesFullSchema` has two halves. A process with a ready runtime finds everything that no
  migration takes away, repaired rows and streams with owners, however many processes start
  at once, wherever starts were cut off and whatever version they read. It finds the whole
  schema, and indexes of its dimension, unless another process changed the schema meanwhile
  (`disturbed`) or the database bears a mark of `Cut` or `Clashes` (`scar`), which the code
  allows in three cases: a start that dies between rebuilding the index and writing its
  metadata leaves an index that a later start with the old dimension keeps
  (`surreal.rs:965`); a version that cannot be read counts as 0 and runs everything again,
  `REMOVE` statements included (`migrations/mod.rs`), so that being cut off in the middle
  leaves less than there was; and of two starts at once the one may take away what the other
  has just laid.
* `OwnRowsOnly`: a restricted credential changes no memory of another user.
* `FirstRequestsEnd` (liveness): a request that waits for its tenant's storage is served
  or answered.

## 4. Runs

Passing:

| Run | Instance | Shows |
|---|---|---|
| `ledger` | a memory and two task operations of which one waits for the other; one operator request; three clients racing for one id, one with another (invalid) payload; two of them and a restart; two parts, two models; one lost or failed await; transactions in doubt (1,210,213 states) | `TypeOK`, `StartedAfterDependencies`, `EventLogComplete`, `CommittedIsStored`, `SubmitAnswersTruly`, `TerminalImmutable`, `ImplementsReceipt` |
| `ledger_live` | two clients race for a memory, one of them with a payload whose plan is empty, or for a task operation, one of them with a payload that the store refuses; one failed await and one operator request; or a memory embedded by two servers with two models in turn; nothing commits late (216,976 states) | `RejectedIsNotStored`, `StatesInOrder`, `DrivenToTheEnd` |
| `stream_delivery` | 4 events, 2 of other operations, channel of 2, one commit without an answer, one failed read | `OnlyUnsentMissing`, `AllDelivered` |
| `connections` | both modes; two creates, a create and a write, a create beside the ledger's sweep, or sweep, request and journal of the ledger; 3 faults (84,000 states) | the properties of the connections |
| `executor` | three searches; a search and a processing; the same with a second processing and a restart; three processings of one operation and a restart; 1 or 2 faults (254,108 states) | the properties of the executor |
| `storage` | the workloads of `MCStorage` (259,996 states): up to five calls on memories, streams of one owner or two, summaries, mindmaps, steps, entities; starts from versions 0, 9, 10, 16 and 24, two processes, requests that share a start, restricted credentials, repair | the properties of storage and server |

Violated, each stating what a comment or the guide says (`findings` in
`PROJECT.json` quotes it):

| Run | Property | What happens |
|---|---|---|
| `ledger_unavailable` | `UnavailableIsNotAccepted` | the `CREATE` commits, the read-back fails, the client gets 503 for an accepted operation |
| `ledger_reject_stored` | `RejectedIsNotStored` | an operation is paused in `processing`; a reject times out and frees the mutex; the coordinator resumes and stores the memory; then the rejection commits |
| `ledger_forever` | `NothingRetriesForever` | a step is to be added to a task stream that does not exist: the error is a plain one, the operation is paused, and every sweep tries again |
| `stream_gap` | `NoGap` | the coordinator commits event n, an operator's reject commits and publishes n+1 first; the stream drops n |
| `connection_failed` | `FailedIsRetried` | a reconnect fails; the next create asks `live_db()` for a handle, is refused, and leaves the retry loop before it could reconnect |
| `lineage` | `CorroborationIsEarned` | two memories are compressed, the text of one is said again and compressed with the summary: its claim counts the roots of both and is promoted as corroborated |

**Bounds of the ledger.** A workload gives the clients that may submit and the number of
failed awaits, operator requests and restarts; `WakeCap` is 1 instead of 256 so that the
channel is full as soon as one wake is pending; `Capacity` is 2 instead of 1024 so that the
receiver lags. One fault at any await, together with one racing request or restart, already
produces every kind of stale read and in-doubt transaction; the theorems of section 5 remove
the bounds for the safety properties. Two operations suffice for dependencies, because an
operation looks only at its direct ones.

**Bounds of the others.** `MaxFaults` in `connections` is 3: a lost transport, a failed
reconnect and a dropped call together reach every state of the cell with a stale handle
about. `ReconnectAttempts` is 1 instead of 2 and `MaxConflicts` 2 instead of 16 (one
resubmission and the end of them); `MaxRetries` is the code's 3. `MaxInflight` is 1 so that
two creates compete. `MaxRounds` is 1: a caller other than the sweep calls once. In
`executor`, `left` bounds searches, processings, restarts and faults; two faults give a
fault during the recovery from another; three processings of one operation with a restart
are needed for a generation to be counted anew and adopted. In `storage` each workload is a
race the code has to survive, at most five calls on the rows they compete for; `left` and
`outages` bound dropped calls and crashes. Start-up is checked with a second failure during
the repair of a first one. `MaxNow` is 2: something has expired, expires, and has not yet,
so that two sweeps may begin at one instant or at two. `Threshold` and `MinMembers` are
small and the tokens of the sentences chosen so that a stream passes the threshold with one
more memory.

**Symmetry** is used in `ledger` only, over parts and models, which are model values that
nothing tells apart; the run has safety properties only.

**Fairness.** `ledger_live` assumes weak fairness of the coordinator's steps, of a running
operator request, and of a client that has started: the runtime polls every ready task,
`select!` takes a wake or a tick, and the sweep ticks for ever. No client owes a first
request, the database owes no late commit, and a crash is never due. With finitely many
requests and faults weak fairness is enough where the code relies on tokio's fair mutex and
channel. Some failures repeat for ever: a target of a task operation that does not exist
(`surreal.rs:3008, 3151`) and parts of two widths (`operations.rs:2010`), like a changed or
inconsistent plan (`operations.rs:1084, 1991`), are ordinary errors that every sweep
retries. `DrivenToTheEnd` therefore ends at `Incurable`, and `ledger_forever`, under the
same fairness and with no fault at all if need be, refutes what the guide promises for them.
`StatesInOrder` is checked without late commits; with them it fails:
`record_processing_error` reads the old state, the transition that had timed out commits,
and the pause writes the old state back. `stream_delivery` assumes weak fairness of a writer
that has its answer and of the stream's own steps.

`connections` assumes weak fairness of every task and caller that has begun, and of the
next call of the coordinator, which sweeps for ever; it does not assume that anybody
else calls again, that a transport stays, or that a connect succeeds: failures are finitely
many. `executor` assumes that requests are polled and that a child that lives answers what
it was asked (`Accept`, `Complete`); that it lives, and that clients stay, is not assumed.
`storage` assumes that a statement under way ends, by the query timeout if need be, and
that a request waiting for its tenant is polled; nothing is assumed of the calls, whose
clients may take as long as they like.

Deadlock checking is off where writers, clients and callers may rest for good.

## 5. Proofs

Every safety property of a passing run is a theorem here; what is left to TLC is liveness.
Eight modules hold theorems: `OperationLedgerProofs` about the ledger, `EventStreamProofs`
about its event stream, `LedgerConnectionProofs` about the connections of the storage and of
the ledger, `ExecutorProofs` about the executor with the query cache in front of it, and
about the storage and the server around it, each on top of the one before, `StorageProofs`
(memories), `AccessProofs` (restricted credentials), `StartProofs` (schema and indexes) and
`DocumentProofs` (steps, mindmaps, counters, types).

`OperationLedgerProofs` proves, for every set of operations, dependencies, clients,
parts and models, every set of payloads that are refused, every number of faults, requests
and crashes, and with or without in-doubt transactions:

| Theorem | Statement |
|---|---|
| `Inductive` | `Spec => []IInv` |
| `TypeCorrect` | `Spec => []TypeOK` |
| `LogIsComplete` | `Spec => []EventLogComplete` |
| `DependenciesFirst` | `Spec => []StartedAfterDependencies` |
| `TerminalRowsAreFinal` | `Spec => TerminalImmutable` |
| `LedgerImplementsReceipt` | `Spec => ImplementsReceipt` |

The only assumption is `LedgerAssumption` (types of the constants).

None of these invariants is inductive: a transaction on its way to the database could
do anything. `IInv` adds what every carried transaction satisfies, `TxnOK`: its
sequence number is at most the row's plus one; if it *is* the row's plus one, the row
is still in the state it was built from, which is not terminal; and its target state is
justified (dependencies committed, effect stored). So a transaction either conflicts
with an existing event or is the legal successor of the row as it is now, and it does
not matter who sent it or when. `TxnOK` survives other commits, because they only
raise the sequence number (`Committing`), and reads, because they change no row
(`Untouched`). The rest of `IInv` (`CoordInv`, `GoalInv`, `OperatorInv`, `ClientInv`)
says what each task knows at each program counter, so that what it builds is `TxnOK`.
The proof has one step per action, grouped by task.

It goes on to what receipts mean for the store, for clients and for each other:

| Theorem | Statement |
|---|---|
| `EffectsInductive`, `CommittedReceiptsAreStored` | `Spec => []EffectInv`, `Spec => []CommittedIsStored` |
| `AnswersInductive`, `AnswersAreTrue` | `Spec => []AnswerInv`, `Spec => []SubmitAnswersTruly` |
| `OrderInductive` | `ASSUME ~InDoubt PROVE Spec => []OrderInv` |
| `RejectedLeavesNothing` | `ASSUME ~InDoubt PROVE Spec => []RejectedIsNotStored` |
| `ReceiptsMoveForward` | `ASSUME ~InDoubt PROVE Spec => StatesInOrder` |

`EffectInv` says that a stored memory has a complete plan of one width (`Ready`), which is
stable because parts with a vector are never written again, and that the coordinator is past
the parts of an operation only if it is planned. `AnswerInv` says what a submission may rely
on at each program counter: a row is never removed and its payload hash never changes, so
what it read stays true, and only one of two creators of an id commits. The last three need
`~InDoubt`: if a transaction whose caller gave up can still commit later, a rejection can
overtake a store and a receipt go back a step, which is what the runs `ledger_reject_stored`
and the text on fairness in section 4 show. Without it, `OrderInv` says that `in_flight` and
the mutex keep `reject` and the dead letters away from the operation in process, so that
whoever moves a receipt has read it where it still is.

`EventStreamProofs` proves `StreamLosesNothing`: `ASSUME OneTransition PROVE Spec =>
[]OnlyUnsentMissing`. `OneTransition` says that besides `submit` one task writes the
events of the operation; nothing in `event_stream` enforces it, and the run `stream_gap`
shows the gap that two writers leave. The invariant follows an event from its commit to
the client: until the stream has got hold of it, its writer is about to send it, it is in
the channel after the cursor, or nobody will send it (`OnItsWay`); sends are in order
(`SendOrderInv`), so that what a history read covers and what the channel brings meet
without a hole (`RowsInv`).

`LedgerConnectionProofs` proves, for either mode and every set of creates, writes and
callers, every number of permits, retries, reconnects, conflicts, statements, rounds and
faults:

| Theorem | Statement |
|---|---|
| `ConnectionsInductive` | `Spec => []IInv` |
| `ConnectionTypes` | `Spec => []TypeOK` |
| `CellIsNeverStranded` | `Spec => []NeverStranded` |
| `EffectsAreNotRepeated` | `Spec => []AppliedAtMostOnce` |
| `CausesAreNamed` | `Spec => []CauseIsNamed` |
| `RetriesFindNewer` | `Spec => []RecoveredIsNewer` |
| `ReplacementsInOrder` | `Spec => OnlyTheFailedIsReplaced` |
| `StuckForGood` | `Spec => [](Stuck => []Stuck)` |

The assumptions are `StorageAssumption` and `LedgerConnectionAssumption` (types and
least values of the constants, and that no caller is named like the free lock).

A step of a call replaces the record of that call and nothing of the others, so `IInv` says
of each record by itself what it may be. `TaskOK`: a write that has not ended has applied
nothing, which is why resubmitting it after a conflict applies it once; only a create
connects, and only while an attempt is left. `PermitInv`: free permits and holders add up to
`MaxInflight`, so that a permit can be returned within its type. `CallerOK`: who is opening
the first connection or replacing one holds the lock, and the generation it replaces is the
published one, so nobody else can have published in between; a caller that was told to retry
has failed on an older generation than the published one. `OneTask`, `OneCell` and
`OneCaller` carry that to all records after a step of one, and `CauseFound` shows of every
answer to a transaction that the cause is found behind the placeholders. `Stuck` says that
the cell has failed and no create is at a query or connecting: no step leads out of it,
which is why `FailedIsRetried` is violated.

`ExecutorProofs` proves, for every number of searches, operations, parts, restarts and
faults:

| Theorem | Statement |
|---|---|
| `Inductive` | `Spec => []IInv` |
| `TypeCorrect` | `Spec => []TypeOK` |
| `RepliesAreOnesOwn` | `Spec => []RepliesMatch` |
| `StreamsAreAligned` | `Spec => []AlignedWhenFree` |
| `ReadinessIsTaken` | `Spec => []ReadyMeansChild` |
| `FallbackLeavesNothing` | `Spec => []FallbackIsComplete` |
| `EventsAreNew` | `Spec => []EventsFollowReceipt` |
| `ExitsAreCountedOnce` | `Spec => []ExitsAreReal` |

The assumptions are `ExecutorAssumption` and `QueryCacheAssumption`: types of the constants,
and that no caller is named like the free mutex, no search like the free insertion guard.
`IInv` ties the mutex to program counters (`HolderInv`: its holder is the one call between
lock and answer, and a child is in place exactly while it is read), the pipe to the holder
(`StreamInv`: the child works for the holder's request or for none, and the last word on
that request is the last in the pipe), generations to the counter and to the receipt
(`GenInv`, `ServingInv`: from `prepare_operation` on every generation in use is above the
receipt's), exit counts to what there was to count (`CountInv`: what a baseline, a snapshot
or a late `UPDATE` holds, plus the exits before the operation began, is at most all exits
there were), and the device to the fallback (`DeviceInv`). A step of a request ends it,
stops a child, starts one or reads on; the lemmas about these four outcomes carry each part
of `IInv` once instead of once per action.

`StorageProofs` proves, over the whole of `Server` (any workload, any processes, deaths of
processes, dropped calls, index refusals, any schema):

| Theorem | Statement |
|---|---|
| `StorageInductive` | `Spec => []IInv` |
| `HistoriesAreComplete` | `Spec => []HistoryIsComplete` |
| `DeletedStaysDeleted` | `Spec => []NoResurrection` |
| `SweepsAreCountedOnce` | `Spec => []SweptOnce` |
| `SummariesAreHonest` | `Spec => []SummariesCiteWhatWas` |

`Server` makes assumptions on its workloads, which are the states and the requests it may
start with; TLC evaluates them on those of `MCStorage`. `NameAssumption`: calls and
processes have different names. `SentenceAssumption` and `MaxNowAssumption`: there are
finitely many sentences, with natural numbers of tokens, and time is bounded.
`StoreAssumption`: there are finitely many memories, each at version 1, the fields of rows
and requests have their types, and the ids that calls draw for new rows are different from
each other, from those that are there and from the stable keys of operations, as UUIDs are
(`Uuid::new_v4`). The other assumptions are named below where they are needed.

The invariant has four parts. `RowsInv`: the history of a row that is there has each version
once, none above its own and no `deleted` row, and its newest row says what the row says.
`CallsInv`: what a call has read was once so (`Witnessed`), the claims it carries quote what
it has read, and it is at a place its kind of call can be at (`PathOK`). `FreshInv`: an id
that a call will still create (`Due`) has no row, no history and no other owner. `KeysInv`:
a memory that ever had a stable key has that key in the history, so that the unique key of
the `created` row keeps an operation from storing it again. Histories only grow, so what is
witnessed stays so; a publication without drift finds each source as it was read, because
two history rows of one version are one row. What a sweep has counted bears its cutoff in
the history, and of one memory one sweep at most has written such a row. Steps are sorted by
what they write: nothing (`Quietly`), a new row, an update, a removal, a publication.

The other three modules go on from `StorageInductive`, over the same `Server`:

| Theorem | Statement |
|---|---|
| `AccessInductive` | `Spec => [](IInv /\ AInv)` |
| `RestrictedTouchOwnRows` | `Spec => OwnRowsOnly` |
| `StartsInductive` | `Spec => []SInv` |
| `LaidInductive` | `Spec => []LaidInv` |
| `FullSchemaServed` | `Spec => []ServesFullSchema` |
| `DocumentsInductive` | `Spec => [](IInv /\ DInv)` |
| `StepsAgree` | `Spec => []AddsAgree` |
| `NodesStay` | `Spec => []AckedNodesKept` |
| `CountersInductive` | `Spec => [](TInv /\ CInv)` |
| `CountersAreExact` | `Spec => []CounterExact` |
| `TypesAreKept` | `Spec => []TypeOK` |

More assumptions say what a workload is. `ClientAssumption`: each call comes with the
request of a client, and one with a restricted credential starts outside and is neither a
sweep of the worker nor a repair, which carry no credential. `DatabaseAssumption` and
`ProcessAssumption`: the database is as some version has left it, and a process that has a
runtime to start with is up, before a database of the latest version and, unless disturbed,
of its dimension. `DocumentAssumption`: the fields that rows of mindmaps and calls have, and
that mindmaps have different names, as the unique index sees to. `StreamAssumption`: streams
of one owner have different names, streams have counted their memories, and their ids are
not the value that stands for none. `MembersAssumption`: a summary takes at least two
memories (the code takes four, `surreal.rs:3414`).

`OwnRowsOnly` is about what a step does, but what it does was chosen steps before: the
handler looks at the owner of a row, awaits, and then writes or deletes by id. `AInv`
therefore says what a restricted request holds at each place (`Permitted`): before the
storage only an operation that is open to users; in the storage (`Scoped`) only the owned
form of it, under the user's name, with ids that are `Mine`: each has a history, and if
its row is there it is the user's. That survives the steps of all others (`RowsFollow`)
because an owner never changes and because an id that has a history is never created
again, which is `FreshInv` and `KeysInv` of `StorageProofs`: between the check and the
write a row may go, it cannot become another user's. `StartsInv` keeps apart the start of
a storage that such a request drives and the handling that follows it.

`SInv` is about migrations, of which none is a transaction. That a start has come to
statement k of version v says what the schema holds (`Reached`), and so does the version
that is recorded: what a statement before that place lays is there (`Tables`), unless a
later one removes it for good; rows of older formats are gone after version 14, the vector
index agrees with its metadata after version 17, and so on. `Reached` looks at the kind of
a statement at its place only (`Kind`), which is found once by walking the list (`Script1` to
`Script25`); statements lay more or lay the same, whoever executes them, so a start
of another process does no harm to what is reached, unless it runs the few that remove
something. Those are the difficulty: two statements take away the tables of mindmaps and the
old index of stream names, and they run again if a version could not be read (`misread`),
beside a start of another process. Therefore what is reached is said of starts that nobody has
disturbed (`Lone`, of which there is at most one, `LoneInv`), of others only while no lone
start runs everything again (`Redone`), and `BehindInv` says that the table of nodes
is not removed behind the back of a start that has laid it. `IndexInv` follows the index
through clearing, rebuilding and noting its dimension; its metadata may disagree with it
just while the note is due (`Marked`). `HostsInv` says who drives a start and where the process
stands meanwhile, so that a process gets ready only by the start whose work is complete.

The first half of `ServesFullSchema` needs none of these exceptions, and an invariant of its
own. `Removable` is what some migration takes away. `LaidInv` says of every start, and of the
recorded version, what is there for certain before the statement it has come to, `Removable`
aside; it is kept because every statement, of whatever start, leaves at least as much
(`Grows`), and because a process becomes ready only after its own start has walked to the end.

`DInv` says of a call that adds a step where it stands (`StepCall`): up to its `CREATE` the
id it drew is in no row; sent to the second look because of the unique key, it will find a
step; its answer is an error only if the stream was not found; and if it is a step, it is
the only one with this key. Steps are never removed and never change their key
(`StepsGrow`), so the second look finds what refused the first. For nodes (`NodeCall`,
`MapsGrow`), while nothing is removed, a map that was read is still there at the write,
and the write appends to the nodes that are there then, not to those that were read. In
every step of the system each call goes on as the invariant wants it, stays, stops or is
one that is not followed here (`DocsMove`), and `DocsFollow` carries `DInv` over all steps
at once.

`TInv` are the types of all that a counter or a time is made from: rows (`RowsTyped`),
what calls have read (`CallsTyped`), streams, history, clock and documents. `TypeOK`, one
conjunct of which is that a counter is a natural number, needs it because a counter is a
difference of sums that is floored at 0 (`derivation.rs:421`), and the expiry of a summary the
earliest of its sources, which is found by well-founded order on the numbers.

`CInv` is about the counter while nothing is deleted. Publishing a summary takes the tokens
of its sources off the counter and puts its own on, adding a memory puts the tokens of the
memory on the counter of the stream that the request names, and the two are steps of
different calls that have read their stream and their rows long before. `CallsCounted` says
what they hold is still right at the write: a call that is to place a row knows a stream of
the name that its request gives, of the owner it gives if any (streams are not renamed and
go only by a deletion), and sources that were read are still there and in the same stream.
Then `TotalSplit` does the arithmetic: the tokens of the active members are those of the
rows that a step touches and those of the rest. Because sums are cardinalities, this is a
fact about disjoint finite sets and needs no induction over what is summed. Dropped calls
are the reason why this is not obvious from the code: a call may stop between any two of its
statements, and the counter is never written in another transaction than the rows. An add
that names no owner puts its row into one stream and its tokens on all of the name, so a
counter may be too high, never too low; for a stream that is not beside such an add it is
exact.

Model-checked only: every liveness property, because liveness under fairness is outside the
prover: `DrivenToTheEnd`, `AllDelivered`, `CallsEnd`, `LedgerRecovers`, `RequestsEnd` and
`FirstRequestsEnd`.

## 6. Not modelled, and what is left

Parts that could still be modelled:

1. The rows of the executor's journal: heartbeats, lag of the journal task, and the key of
   an event written between a crash and the snapshot before it (`operations.rs:1221`). The
   generations alone are modelled.
2. Reads that answer clients: `get_context`, the searches and the hybrid ranking, graph
   reads, lists. None changes a row.
3. Rekeying of agent ids, persona and conversation intake; `merge_equivalent` of claims.
4. Two tenants of one process and their registry; the base storage in jwt mode, which is
   a database of its own.

Details that are left out: the `auto_summarize` switch of a stream (on here), `LIMIT`s of
queries, and the last read of a stream by the route that summarises, which only fills its
answer; `updated_at` columns.

Left out for good: decoding of requests and of settings, verification of tokens, prompts
and cue lists, numeric embedding code and HTTP clients of embedding services, the palace
adapter of an external library, formatting of exports, the command-line hook.

Races that the models contain and no property forbids, because the repository promises
nothing about them: concurrent deletions write two `deleted` rows; two sweeps of one cutoff,
or a sweep and a deletion at its cutoff, report one memory twice; an add without an owner
counts for the streams of all owners; two calls of `add_memory` with one text may both
insert; two `add_node` with one id both pass the validation; the removal of a node writes
back arrays that may be stale; two completions of a step with different results are both
applied; two `add_observations` lose one; a memory added to a stream while it is deleted is
orphaned, or counted for a stream that was created again under the name.
