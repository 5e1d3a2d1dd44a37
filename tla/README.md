# TLA+ verification of RAG-Assistant

RAG-Assistant answers questions about a company's regulatory documents. A FastAPI
server and an arq worker share PostgreSQL, Redis, a Qdrant collection and a
number of paid model providers (`src/README.md`; the code is
`src/server/app/{domain,application,infrastructure,presentation}`). This
directory holds TLA+ models of its core protocols, the TLC configurations that
check them and the proofs that TLAPS checks.

Paths below are relative to `src/server/app/`.

## 1. The system and what is hard about it

### Vector index synchronisation - modelled
- Code: `infrastructure/repositories/vector/outbox_dispatcher.py`,
  `infrastructure/repositories/config/sqlalchemy_vector_outbox_repository.py`,
  `domain/knowledge/index_sync.py`, `infrastructure/repositories/vector/qdrant_*.py`.
- State: `documents`, `chunks`, `act_versions` and `vector_store_outbox` rows; the points
  of Qdrant with their payloads; a session advisory lock per document.
- Operations: writers commit rows and outbox entries together; dispatchers recover
  stuck entries, claim batches with SKIP LOCKED and apply each entry in a coroutine:
  read, embed, upsert in batches, check again, patch the metadata of the act version,
  count, mark done; failures back off and end in a dead letter; a periodic job settles
  documents that are still `indexing`.
- Interaction: every writer of the corpus (ingestion, chunk editor, deletion, act
  versions) calls it through the table; the NOTIFY listener and the scheduler wake it.
- Hard: rows are read long before their text is written to Qdrant; entries run in any
  order, concurrently, several times; processes die between two calls.
- Correct when: the index converges to the committed rows, no divergence is forgotten,
  no stale text is served, entries and documents do not stay unfinished.

### Cost budget of paid calls - modelled
- Code: `infrastructure/budget/{ledger,transport,runtime,job_context}.py`,
  `application/budget/admin_service.py`.
- State: `cost_usage` rows (reserved, sending, settled), `cost_rates` versions,
  the limits of `config_parameters`, advisory transaction locks of a tariff and of
  a principal, the job scope of an execution.
- Operations: reserve before each HTTP attempt, mark the dispatch, send, settle the
  reported usage, release what was never sent, reconcile by hand, publish a tariff.
- Interaction: the HTTP transport of every paid client calls the ledger; jobs give
  their requests stable operation ids; the administrator corrects what is left.
- Hard: a job is retried or delivered twice while an execution is alive; cancellation
  at every await; check and insert of two requests; policy and tariff read before locks.
- Correct when: a request is paid once and stays in the ledger, the limits of every
  window hold, a tariff that was exceeded is not used again.

### Background jobs and document lifecycle - modelled in part
- Code: `infrastructure/worker/{runtime,admission,queue,cron,tasks,document_deletion}.py`,
  `application/documents/{upload,processor,persistence,conflicts,delete,deletion_jobs}.py`,
  `infrastructure/repositories/misc/sqlalchemy_background_job_repository.py`.
- State: `documents` and `background_jobs` rows, objects of the file store, arq messages with
  their delivery counters, a lease in Redis per principal.
- Operations: upload or replace, create the job row, enqueue; admit, mark running, run the
  body, settle, retry; delete a document; fail orphaned and stale jobs and their documents, fail
  documents stuck in processing, delete old rows.
- Interaction: the API writes to PostgreSQL, the store and Redis in turn; workers and crons
  read what it left. Processed documents go on to the outbox.
- Hard: three systems that no transaction joins; a job may be failed by a cron while its worker
  is alive; `mark_running`, `mark_done` and `mark_failed` do not look at the status they replace.
- Correct when: every job ends, no document waits behind a lost message or worker, objects live
  as long as their rows, and a job that is reported as done has done its work.

### Corpus switch - modelled in part
- Code: `infrastructure/corpus/{control,locks,repository,snapshot,validation}.py`.
- State: a journal of one row (phase, active snapshot, candidate), heartbeats of processes, a
  session advisory lock that writers share and a switch takes exclusively, the clients that each
  process has installed.
- Operations: read the journal, prepare or install what it says, send the heartbeat, finish or
  fail the switch of a dead owner; survey, validate, lock, compare again, journal, wait for all
  processes, commit.
- Interaction: every write to Qdrant asks for admission; a switch replaces the clients of all.
- Hard: processes act on a journal read some time ago; owners and processes die at every step.
- Correct when: no write reaches a collection that is not the active one, the collection that is
  switched to holds the corpus, writes reopen when both roles serve it, and switches end.

### Act version timeline - modelled in part
- Code: `domain/knowledge/acts/{timeline,models}.py`, `application/act_versioning/*`,
  `application/documents/delete.py`.
- State: editions of an act with start, end and a current flag under a unique index; editions
  without an act that wait for an administrator.
- Operations: upload an edition, correct its dates, link, unlink and delete it; each rewrites the
  neighbours under the locks of the acts.
- Interaction: deletion of a document and processing of an upload call it; the versions are
  copied to chunks and points (`SaveVersion` of `VectorIndexSync`).
- Hard: long sequences of edits; only equality tells an end that was derived from one that was
  asked for; what to lock is read before the lock.
- Correct when: editions neither overlap nor leave a gap nobody asked for, the index refuses no
  write, and no act disappears from the searches.

### Benchmark sweeps - modelled in part
- Code: `application/benchmark/{services,sweep_jobs,sweep}.py`, `infrastructure/worker/sweep.py`,
  `infrastructure/repositories/benchmark/*`, `presentation/api/routes/benchmark_admin.py`.
- State: sweep rows (at most one active), checkpoints of paid evaluations, rows of results, the
  job row of the last request, one message per sweep.
- Operations: create, cancel, resume; evaluate, save, complete or fail; cron recovery and
  retention of checkpoints.
- Hard: sweeps run for hours, beyond the time after which a cron fails their job; a resume may
  meet the old worker, or lose its message to the old one.
- Correct when: a done sweep has all results, a cancellation holds, paid work survives until it
  is used, and no sweep stays active for ever.

### Not modelled
- Circuit breaker (`infrastructure/resilience`): the state of one process, changed between two
  awaits of one event loop; nothing is shared with the components above but the exceptions,
  which they already raise at any call.
- ML client registry (`infrastructure/ml/clients`, `infrastructure/ml/config`): leases inside one
  process. What other processes see of a change is the corpus switch.
- Identity, rate limits, idempotency (`application/identity`, `infrastructure/rate_limit`): rules
  over rows and counters of a library; the idempotency store is one Redis key per request.
- Retrieval, chat and RAG (`application/rag`, `application/chat`, `application/search`): ranking,
  prompts and calls of language models; numeric and with little shared state.
- Ingestion sources, parsing, OCR (`application/ingestion`, `infrastructure/ml/ingestion`,
  `services/ocr_vl`): data transformation; the rows it commits are in the model.
- Search strategies, scoring, data sets, reports of the benchmark: computations without state.
- Database pools, caches, events, health, composition, presentation, client, deployment:
  adapters and wiring. READ COMMITTED, advisory locks and the lag of a replica are modelled
  where a component depends on them.

`PROJECT.json` lists every component with its files, and under `hazards` each hazard at
the line where it bites together with the properties that cover it or the reason none does.

## 2. Modules

| module | models |
|---|---|
| `VectorIndexSync` | writers, outbox, dispatcher, Qdrant |
| `MCVectorIndexSync` | instances for TLC |
| `VectorIndexSync_proofs` | inductive invariant and theorems |
| `CostLedger` | abstract specification: an atomic ledger |
| `CostBudget` | reservations, transports, settlements, split at their locks; implements `CostLedger` |
| `MCCostBudget` | instances for TLC |
| `CostBudget_proofs` | inductive invariant and theorems |
| `FiniteSums` | sums over finite sets of rows |
| `CostLedger_proofs` | the limits, the fence of the tariffs and the refinement |
| `DocumentJobs` | documents, their objects, job rows, messages, admission, workers, crons |
| `MCDocumentJobs` | instances for TLC |
| `DocumentJobs_proofs` | inductive invariant and theorems |
| `CorpusRegister` | abstract specification: the active generation behind a gate |
| `CorpusSwitch` | journal, lock, ticks, writers and switches; implements `CorpusRegister` |
| `MCCorpusSwitch` | instances for TLC |
| `CorpusSwitch_proofs` | inductive invariant, theorems and the refinement |
| `ActVersions` | editions of acts under uploads, corrections, relinkings and deletions |
| `MCActVersions` | instances for TLC |
| `ActVersions_proofs` | inductive invariant and theorems |
| `BenchmarkSweeps` | sweeps, their requests, workers, crons and checkpoints |
| `MCBenchmarkSweeps` | instances for TLC |
| `BenchmarkSweeps_proofs` | inductive invariant and theorems |

The modules meet at what one leaves for another and do not share variables: `DocumentJobs` ends at
`indexing`, where `VectorIndexSync` starts (`Indexed` stands for its effect); `CorpusSwitch`
abstracts the outbox of `VectorIndexSync` to "what the corpus was since it last had nothing to
do"; a crash, a retry or a second delivery in the job modules is a new execution (`StartJob`) in
`CostBudget`.

### VectorIndexSync
One step is one transaction or one call to Qdrant; between two steps everything else may
happen. PostgreSQL: `dstat`, `home`, `chunk`, `vmeta` are rows; `job`, `status`,
`attempts` are the columns of an outbox entry; `replica` is what all read replicas have replayed.
Qdrant: `point`, `pmeta`. Locks: `lock`. A worker is one execution of `_apply_one`, whose local
variables are `pc`, `cur` (entry), `snap` (the rows it read), `todo` (ids left to upload, then ids
to delete), `flag` (a content has changed; later, all entries are done) and `seen` (the version).

- Writers: `CreateDocument`, `Ingest` (`process_chunks_in_uow`), `AddChunk`, `EditChunk`,
  `DeleteChunk` (`ChunkMutationService`), `DeleteDocument`, `SaveVersion`.
- Dispatcher: `RecoverStuck`, `Claim`, then by operation `ApplyDelete`, or
  `StartUpsert` - `PurgeObsolete` - `UploadBatch`* - `UploadEnds` - `Verify` - `CleanUploaded` under the
  document's lock, then `ReadVersion` - `PatchVersion`, or only these two for metadata; then
  `CountByDocument` and `CommitDone`, the two statements of the last transaction.
- Failures: `Fail` is an exception at any point, `MarkFailed` its handler, `Crash` the death of
  the process.
- Periodic: `ReconcileIndexing`. `ReplicaCatchUp` with a replica.

Abstractions:
- Texts, hashes and metadata are model values. The filename is constant: a transaction that
  enqueues `rename_document` is rejected by the CHECK constraint of the table
  (`infrastructure/database/models.py:621`), so no committed state has such an entry.
- `pending` stands for every document status before indexing.
- Entries are claimed one at a time; `run_once` claims a batch and applies it
  concurrently, which is one claim after the other. Backoff times have elapsed.
- The upload sends one chunk per batch, the finest interleaving.
- `recover_stuck` is one step although it selects and flushes in two statements.
- A versioned ingestion is followed by its planned version changes as separate
  `SaveVersion` steps; so is the reconnection of the timeline on a deletion.
- Qdrant calls take effect before their worker fails or dies: a request that Qdrant executes
  much later is not modelled. An advisory lock is lost only with its worker.
- A cache invalidation that fails is a `Fail`; otherwise it changes nothing modelled.
- Chunk ids are never reused (a sequence), hence `home` survives deletion.

### CostLedger and CostBudget
`CostLedger` says what the ledger promises with one atomic step per promise: `Admit` needs
a row that can be armed, a tariff that was not exceeded and room in both windows; `Dispatch`;
`Send` once; `Settle` as not dispatched only when nothing was sent and as provider's charge
only with the charge itself. `CostBudget` is the code: transactions split where they wait for
an advisory lock and between their reads and their write, by any number of executions (`Slots`)
with parallel coroutines (`Attempts`) and administrators.

- Admission: `Identify` (policy, tariff, operation id), `LockTariffShared`, `CheckAdmits` or
  `CheckRefuses` (the principal's lock, three queries and the Redis script), `Reserve`.
- Transport: `MarkDispatch`, `Send`, `Usage`, `NoUsage`, and `GiveUp` for the release before the
  dispatch.
- Settlement: `ReadTariff` before any lock, `LockTariff`, `SettleRow`, for an attempt or, after
  `Reconcile`, for an administrator; `Fail` rolls a transaction back.
- `StartJob` is a fresh `job_billing_scope`, also for a retry or a second delivery of a job whose
  older execution is alive; `Crash` is the death of a slot.

Abstractions: a disabled policy passes requests through without a ledger; fingerprints and
principals of an operation are constant; calls outside jobs are operations used once; policy
and rate are read in one step; the Redis script checks totals that were read under the lock, so
it is part of the check; one provider and model; the two automatic cost sources are one; a
stream reports its usage once; `now()` is the start of the transaction (`t0`); the synchronous
transport follows the same protocol.

### DocumentJobs
Every transaction and every call of Redis or of the object store is a step. A worker is named by
the job it runs, because arq hands a message to one worker at a time; `pc` and `out` are its place
and outcome, `doomed` the list `storage_deletes`, `dead` what the cron carries from its first
transaction to its second, `runs`, `invalidated` and `faults` are history.

- Requests: `Upload` (with a document it replaces), `CreateJob`, `RequestDeletion`, `Enqueue`, and
  their failures `UploadLost`, `CreateJobLost`, `EnqueueLost`, `EnqueueRefused`.
- Delivery: `Admit`, `Wait`, `AdmissionFails`, `StartDeletion`, `Exhaust`, `LeaseExpires`; then
  `MarkRunning`, the body, `Settle` and `Leave` (release of the lease, retry or end).
- Processing: `Lookup` - `Begin` - `Parse` - `Check` - `Persist` or `PersistNothing` - `Invalidate` -
  `Handle` - `Cleanup`. Deletion: `DeletionLookup` or `Denied` - `Erase` - `RemoveObject` -
  `DeletionInvalidate`.
- Failures: `BodyFails`, `Cancel` (arq's timeout or a shutdown), `Crash`.
- Crons: `RecoverJobs`, `FailDocuments`, `CronLost`, `RecoverStuck`, `DeleteOld`.

Abstractions: time is not counted, a cron may find any row old enough (a message may wait in the
queue for any time); one object per document; ownership by principal only; `HasReplica` lets a read
of `uow_factory.create()` miss a row; what is parsed is a yes or no; renames are left out.

### CorpusRegister and CorpusSwitch
`CorpusRegister` is what a writer relies on: it enters through an open gate with the active
generation, the gate closes when nobody is inside, and the generation changes behind the closed gate.
`CorpusSwitch` is the code. A switch is named by the generation it publishes, a fresh uuid; `seen` is
the journal that a tick has read, `row` the heartbeats.

- A process: `Start`, `End`, `Expire` (its heartbeat), and the tick `ReadJournal` - `Recover`, `Apply`,
  `ApplyFails` or `TickFails` - `FinishCommit` or `FailOrphan`.
- A writer: `TakeClient` - `LockShared` - `Admit` or `Reject` - `Write` - `Unlock` - `MarkDone`, and
  `WriteFails`. `Edit` changes the corpus.
- A switch: `Request` - `Survey` - `Inputs` - `Validate` - `Lock` - `Recheck` - `BeginPrepare` -
  `Prepared` - `Commit` - `Leave`, with `Cancel`, `Forget` and `Abort`.

Abstractions: contents are compared as the digest does, by equality; the configuration snapshot has
its generation and collection only; clients are their generation; a lock is lost with its
process, not with its connection; a tick reads the participants in the step of its heartbeat.

### ActVersions
A transaction holds the locks of the acts it rewrites to its end and is one step; the unlocked read
that says which act to lock is a step of its own (`Load`), so other commands come in between
(`Found`). `row` is the table. Four history variables restrict no action: `ended` holds the
editions whose end is the one a request gave; `stray` those with another end that the code takes
for explicit; `overwritten` says whether a pending edition was written from an outdated read,
`conflict` whether the unique index refused one of the UPDATEs in the order the code sends them.
`ended` depends on the requests alone: an end that `insert_boundary` derived is never counted.

- Operators: `Rebuild`, `InsertBoundary`, `ExplicitEnd`, `SuccessorDate`, `IsLatest` of
  `timeline.py`; `SaveOrder` and `Written` for the order and the columns of a save.
- Commands: `Upload`, `Correct`, `CorrectPending`, `Relink`, `Delete`, `Abort`; `Midnight`.

Abstractions: one scope; acts are known by id, not found by number; the verification columns, the
copies in chunks and the outbox are left out. No relinking and no interleaving is left out: what
the properties except is in their formulas (`stray`, `overwritten`) and described in section 3.

### BenchmarkSweeps
A request is named by the job row it will create, a worker by the sweep it evaluates, because the id
of the message is `sweep:{id}`. `checkpoints` and `results` are sets of configurations, `found` what
a worker holds in memory.

- Requests: `Create`; `CheckResume` - `Requeue`; then `CreateJob` - `Attach` - `Enqueue`;
  `RequestFails`, `GiveUp` (the handler of `resume_sweep`), `Cancel`.
- Worker: `Deliver` - `Start` - `Evaluate`, `RecordProgress` - `EvaluationEnds` - `SaveRow` for each
  configuration - `SaveResults` - `Complete` - `Purge` - `Settle`; `Poll` - `HandleCancelled`;
  `RecordFailure`.
- Failures: `EvaluationFails`, `BodyFails`, `CancelBody`, `Crash`, `Expire` (arq's mark of a message).
- Crons: `RecoverJobs`, `CleanCheckpoints`; `Age` is a day without a checkpoint.

Abstractions: one checkpoint per configuration, not per question and phase; the identity by which a
checkpoint is found is constant; events and reports are left out, but a cancellation may come while
they are published or written (`CancelBody` at `settle`).

## 3. What is checked

| run | bounds | what it shows |
|---|---|---|
| `sync_live` | 1 document, 1 chunk, 1 text, 2 editions, 2 entries, 2 workers, 2 attempts, 1 crash, fairness | `IndexMatchesCorpus`, `CoveredDivergence` and the inductive invariant `IInv`; `EntriesFinish`, `IndexingEnds`, `EventuallyConsistent` |
| `sync_slow` | 1 chunk, 2 texts, 2 entries, 3 workers, 1 attempt, replicas, live workers overtaken | `NothingDeletedServed`: lag may cancel an upload and two workers may apply one entry, but the text of a deleted chunk does not stay in the index |
| `sync_stale_metadata` | 1 chunk, 2 editions, 3 entries, 2 workers | violates `QuiescentMetadata` |
| `budget_retry` | 2 executions, 2 jobs, 2 principals, 1 tariff, 1 administrator | `PaidOnce`, `ViolatedTariffRefused`, and `LedgerRefined`: `CostBudget` implements `CostLedger` |
| `budget_window` | 2 parallel requests of 1 principal, 2 tariffs, hour 1 and day 2 over 3 instants | `WithinBudget`, and `LedgerRefined` across a publication |
| `budget_tariff` | 2 principals, 2 tariffs, an administrator | violates `ViolatedTariffRefused` |
| `jobs_faults` | 2 documents, 2 jobs, 3 tries, 1 wait, 1 fault, replicas, the cron may die | `RowsHaveObjects`, `NoOrphanObject`, `DoneDeletion`, `WaitsCostNoRetry` |
| `jobs_live` | 1 document, 2 jobs, 2 tries, 1 wait, 1 fault, fairness | `DoneProcessing`; `JobsEnd`, `PendingEnds`, `ProcessingEnds` |
| `corpus_fence` | 1 API process, 1 worker, 2 switches, 2 collections, 2 contents, 1 edit, 1 fault | `WritesFenced`, `ActiveHoldsCorpus`, `ServedIsPublished`, `InstalledByBothRoles`, and `RegisterRefined`: `CorpusSwitch` implements `CorpusRegister` |
| `corpus_live` | 2 API processes, one of them a replacement, 1 worker, 1 switch, 1 fault, fairness | `PreparingEnds`, `CommittingEnds` |
| `acts_order` | 1 act, 3 editions, 1 of them pending, 2 days, 2 commands that overlap on one edition, corrections of the end or of the begin to the last day | `NoConflict`, `Adjacent`, `ActServed`, but for strays and outdated writes |
| `sweeps` | 2 sweeps, 2 requests, 1 configuration, 1 fault, fairness | `DoneHasResults`, `CancellationHolds`, `CheckpointsKept`; `SweepsEnd` |

Why these bounds are enough to be interesting.
- Sync: two entries are an upload and the change or the deletion that races with it; a third one
  (`sync_stale_metadata`) is a second edition. Two workers are the race, and three (`sync_slow`) are
  two at one entry and one at the deletion; two texts (`sync_slow`) tell a stale text from a current
  one; an attempt that fails and a crash leave an entry in each state from which it is taken up again.
  With one document the act version has its document's number, which exercises the two id spaces that
  `count_by_documents` mixes. `sync_live` has one text: `IndexMatchesCorpus` fails there by a deletion
  that races with an upload, and its theorem covers all texts and chunks.
- Budget: two requests with room for one are the race of the limits; two executions with two jobs
  include the double delivery of one job. Charges of 0 and 2 against a price of 1 are below and
  above the reservation.
- Jobs: two documents are a replacement and its original, also when it is deleted meanwhile; two jobs
  are two processings, a processing and a deletion, or two deletions, and compete for one lease;
  three tries and a wait tell waits from attempts. Every action can fail once.
- Corpus: two switches are a switch and a stale owner, tick or client of the former one; two
  collections are a switch away and back, or in place; both hold the corpus at first (`UpToDate`), and
  one edit, at any moment, makes the inactive one stale. A second API process matters for who
  finishes whose switch, hence `corpus_live`.
- Acts: three editions are a predecessor, a successor and one in between; two commands are a stale
  unlocked read; two days make an edition begin or end at midnight. The constraint `Bounded` explores
  no state after `overwritten`, where the properties promise nothing, and lets commands overlap only
  when they have read the same of one edition. The unlocked read uses the act of a linked edition or the
  row of a pending one, which only commands on that edition change, so it commutes with the commands on
  all others; a command that several others on its edition have overtaken finds what it has read, as
  if it had read it only now, or is not found, or writes an outdated read.
- Sweeps: two requests are a creation and a resume, or the race of two creations; one configuration is
  evaluated or missing; one fault is a superseded or dead worker, a lost message or a failed transaction.

`MaxCrashes`, `MaxTime`, `MaxFaults`, `MaxWaits`, `MaxEdits`, `MaxVersions`, `MaxPending`, `MaxDate` and
the sets of ids are the bounds; the theorems of section 4 hold for every value of them.

All runs but those of the budget switch deadlock checking off: when the supply of entries, jobs,
switches, editions or requests has ended, or all processes of `CorpusSwitch` have, nothing is left to do.

Fairness (`FairSpec`), never of failures, crashes, writers or requests that start something:
- `VectorIndexSync`: weak for the progress of a claimed entry, because a coroutine that is not
  blocked goes on; strong for the claim of each entry, because the scheduler runs `run_once` every 30
  seconds (`infrastructure/scheduling`) and claims are ordered by id, so an entry that is due again
  and again is not passed over for ever; weak for the recovery and the reconciliation, which run
  periodically.
- `DocumentJobs`: weak for a request that has begun (`CreateJob`, `Enqueue`), for a worker's progress at
  each job, for the expiry of a dead worker's lease, and for the cron jobs, which run every quarter of
  an hour and find every row that stays as it is old enough.
- `CorpusSwitch`: weak for ticks, the steps of a switch and the expiry of a dead process's heartbeat.
- `BenchmarkSweeps`: weak for requests and workers that run, for a recovery that includes each active
  job, and for the recovery that fails the sweeps of dead jobs.
- The budget and the timeline have safety properties only: no code promises that a reservation is
  settled or that an administrator links an edition.

What the liveness properties except is in their statements: `PendingEnds` is about documents that
have a job row, because nothing repairs an upload whose API process died before it, and is checked
with a cron process that does not die between its two transactions; `PreparingEnds` excepts a
preparation whose failure could not be journalled; `SweepsEnd` a sweep without a job, or
whose job is reported as done.

### Disagreements found
Each has a run and an entry in `PROJECT.json`:
1. Two workers may patch act version metadata in the opposite order of their reads, which
   leaves the older metadata (`sync_stale_metadata`).
2. A settlement reads the row's tariff version before its locks; an administrator who closes
   the row as not dispatched and a retry that arms it again under a new tariff make it record an
   overcharge without excluding reservations of that tariff (`budget_tariff`). With one tariff
   the property holds (`budget_retry`).

### Behaviour the models name and exclude
No document of the repository says what should happen, so these are no disagreements; the
hazards without a property in `PROJECT.json` describe them.
- `_document_exists` reads from a replica: before the insert has been replayed it cancels the
  upload, which is reported as success. `HasReplica = FALSE` excludes it from `IndexMatchesCorpus`;
  what is left with replicas is `NothingDeletedServed`.
- Strays: `explicit_ends` (`timeline.py:113`) takes an end for explicit unless it equals the start of
  the next edition. `Adjacent` and `ActServed` except the editions where that is wrong:
  - Undated v1 and v2 are uploaded, then v3 dated today or before, which closes both at its start. v3 is
    deleted: the next edition after v1 is v2, which has no start, so v1 keeps the derived end as if it
    were its own. v2 is deleted: v1 is left alone, closed, although nobody ended it, and no search
    finds the act.
  - v1 starts on day 1, v2 has no date, v3 starts on day 2: v1 and v2 end on day 2. The end of v2 is that
    of its second neighbour, and stays when v2 gets a date.
  - A relinked edition joins an act that has a later row with the same start: it closes that row on
    the day it starts (`commands.py:379`), and after the relinked edition has left, the other one stays
    closed. The docstring of `correct` (`timeline.py:91-93`) says that ends equal to the old successor's
    start are derived, other ends are explicit, and equal starts use insertion order: it describes
    the rule, not what callers make of it.
  - A relinked edition keeps an end beyond the start of its successor (`commands.py:383`).
- Outdated reads: two commands read one pending edition, which no act's lock covers
  (`persistence.py:24`, `:38`), and the second writes after the first (`overwritten`). Dates may then be
  out of order, a boundary may stand where no edition starts, and the index may refuse a relinking.
- An entry is applied by two workers because the first is overtaken; the second one uploads the text
  of a chunk whose deletion has just been applied, and fails or dies before its check. The first one's
  `mark_done`, which does not ask who owns the entry, then hides the failure: all entries are done and the
  deleted text stays. It takes three workers; `NothingDeletedServed` excepts it (`Disturbed`). The class
  comment of the dispatcher (`outbox_dispatcher.py:33`) calls at-least-once delivery safe; it is when
  no two deliveries overlap, which is what `IndexConverges` states.
- A job of a document is reported as done, its worker dies before it acknowledges the message, and the
  next delivery cannot mark the row running: the body then runs under a row that already says done,
  and the document is `processing` or `failed` again. `DoneProcessing` admits one fault for that reason.
- An upload whose process dies before the job row, a cron that dies between its two
  transactions, a replica that hides an upload from its job: the document stays pending.
- The advisory lock's connection is lost while its process lives.
- A job that the cron has failed too early makes its living worker cancel the resumed sweep. The
  model keeps this; nothing it reports is wrong.

## 4. What is proved

With tlapm; each theorem holds for every value of the constants allowed by the assumptions.

`VectorIndexSync_proofs`:
- `TypeCorrect`: `Spec => []TypeOK`, with or without a replica, overtaken workers and crashes.
- `SyncInvariant`: `Spec => []IInv`, `DivergenceIsCovered`: `Spec => []CoveredDivergence` and
  `IndexConverges`: `Spec => []IndexMatchesCorpus`, assuming that reads are committed (`~HasReplica`) and that no
  live worker is overtaken (`~RecoverLive`). The first is needed because of the read of
  `_document_exists`, the second because an overtaken worker writes after the second one has
  finished the entry.

- `DeletedTextsLeave`: `Spec => []NothingDeletedServed`, without any of these assumptions.

The argument: a point can differ from its row only while an entry that covers it is `Live`, not
done and with its writes to come. Rows change together with a new entry (`RowsAgree` describes what
entries and rows say of each other). The last write of a worker could end this too early, so the
invariant says what an uploading worker knows: it holds the lock, what it has uploaded is its
snapshot, vanished ids are gone (`UploadInv`), and after the check every point that still
differs is covered by another live entry, because a change after the check enqueued one
(`CleanInv`). `HeldEntries` makes a busy worker the only one at its entry. The conjunction is
`IInv`; there is one lemma per action. `IndexMatchesCorpus` is the case without unfinished entries.

For `DeletedTextsLeave` neither the advisory lock nor one worker per entry is needed (`StaleInv`): the text
of a chunk without a row is in the index only while an entry that covers it has not been applied
by anybody (`Unapplied`), or while the worker that uploaded it has not checked it (`WillClean`); a worker
that fails first still holds its entry, and then leaves it to be applied from the start or, where it
was overtaken, leaves a trace in `attempts` or `crashes`. Ids of chunks are never reused, so what has no
row never gets one.

`CostBudget_proofs`:
- `BudgetTypeCorrect`: `Spec => []TypeOK`.
- `ChargedOnce`: `Spec => []PaidOnce`, for any number of jobs, executions, parallel requests and
  administrators, whatever is retried, delivered twice, crashed or reconciled.

The argument: a row is armed by at most one attempt at a time (`OneHolder`) because the check and
the insert are under the lock of the principal (`Inserting`); a holder knows whether its request was
sent and what was billed (`HolderFacts`), so a release concerns an unsent request and a charge
the billed one; an administrator can close a row but not make it armable after a dispatch
unseen, since only `not_dispatched` rows are armed again. `IInv` is their conjunction with
`PaidOnce`; lemmas handle the groups of actions that leave rows or holders alone.

`CostLedger_proofs`, over the same invariant:
- `BudgetIsKept`: `Spec => []WithinBudget`, for any prices, policies, windows and numbers of requests.
- `TariffsAreFenced`: `Steady /\ Spec => ViolatedTariffRefused` and `LedgerIsImplemented`:
  `Steady /\ Spec => LedgerRefined`. `Steady` says that no administrator settles rows or that there is one
  tariff version; `budget_tariff` is the counterexample without it.

The argument: the check of a principal and the insert of its row are under one lock, so between them
nobody adds to the principal's windows; time only takes rows out of a window and a settlement lowers
what is counted, charges above a reservation aside (`FitFacts`, `LInv`). A settlement that finds an
overcharge holds the lock of the tariff that reservations share, so a reservation has read the tariff
either after it or before a settlement that waits for it (`TariffFacts`). `FiniteSums` has what this
needs of sums over finite sets: they exist, and adding, changing or removing one row changes them by
that row. The sum is a function, proved by well-founded recursion on finite subsets.

`DocumentJobs_proofs` (no assumption beyond those of the constants; replicas and a dying cron
included):
- `Invariant`: `Spec => []IInv`; `JobsTypeCorrect`, `ObjectsOutliveRows` (`RowsHaveObjects`),
  `DeletionsAreHonest` (`DoneDeletion`), `NothingOrphaned` (`NoOrphanObject`), `WaitsAreFree`
  (`WaitsCostNoRetry`).

The argument: a body is at a step of its job's kind and runs exactly while its message does (`Shape`);
what it is about to delete from the store has no row any more (`Removals`), so no row loses its
object; a deletion that is past a step has done it or found it done (`Deletions`); every delivery
is a wait, an admitted attempt or a fault (`Attempts`).

`ProcessingsAreHonest`: `Spec => []DoneProcessing` when reads are committed (`~HasReplica`); otherwise a lookup
that misses the row ends the job. A document gets its processing job once (`OneJob`); a body that has not
failed has left its document with its chunks or gone when it ends (`Finished`), and no cron touches such a
document; after the report the message ends or, with one fault, is delivered again and marks the row
running before it touches the document (`Reported`).

`CorpusSwitch_proofs`:
- `Invariant`: `Spec => []IInv`; `CorpusTypeCorrect`, `Fenced` (`WritesFenced`), `CorpusIsServed`
  (`ActiveHoldsCorpus`), `ServedIsCommitted` (`ServedIsPublished`), `ReopenedByBothRoles`
  (`InstalledByBothRoles`).
- `RegisterImplemented`: `Spec => RegisterRefined`. Every step is a step of the gated register or
  a stutter.

The argument: a switch holds the lock from its last check to its commit, so nobody shares it
(`LockFacts`); a generation that was ever read, installed or reported is not the one a switch may
still publish (`PastFacts`, `CandidateFacts`), so a stale client never looks current; a collection
that was compared changes only with the active generation (`ContentFacts`); a process that
installed the active generation does not go back (`InstalledFacts`).

`ActVersions_proofs`:
- `TimelineInvariant`: `Spec => []IInv`; `ActsTypeCorrect`, `IndexNeverRefuses` (`NoConflict`),
  `EditionsAdjacent` (`Adjacent`), `ActsAreServed` (`ActServed`), with the exceptions their formulas
  name and no assumption on what commands do.

The argument: types hold always (`Types`); the rest of `IInv` (`Table`) until the first write of an outdated
read, which is why a command whose read of a pending edition is not `Stale` works with the row as it is.
Between two transactions at most one edition of an act is current (`OneCurrent`), and an end without
a neighbour belongs to a request, to a stray or to the next edition (`EndFacts`). Lemmas say what the
interval operators return: the earliest start after a date, a boundary that is inserted, a timeline
rebuilt from explicit ends; `SoundRows` collects what each command must show of the rows it writes.
`ActsAreServed` adds what the flag is for (`Flags`): when only undated editions have begun and one of
them has no end, one is current. Otherwise one of the latest editions that have begun by a day ends after
it, because its end comes from a neighbour that begins later.

`BenchmarkSweeps_proofs`:
- `SweepInvariant`: `Spec => []IInv`; `SweepsTypeCorrect`, `DoneSweepsAreComplete` (`DoneHasResults`),
  `CancellationsHold` (`CancellationHolds`), `CheckpointsAreKept` (`CheckpointsKept`).

The argument: a worker that is past `SaveResults` has stored the results of all configurations, and
while a worker evaluates or saves, its sweep is not done (`WorkFacts`): only it writes results, and
another worker of the sweep cannot exist. `CheckpointsAreKept` says when checkpoints may go, as
`complete_sweep` and `cleanup_checkpoints` have it: with all results stored, whatever the status of the
sweep, or after a day without a new checkpoint when the sweep is inactive. A day-old inactive
sweep without results does lose them; one that was resumed, or is younger, does not.

Every safety property that a passing run checks is proved. Only model-checked are the liveness properties
(the prover has no reasoning about fairness or `ENABLED`); `QuiescentMetadata` and, without `Steady`,
`ViolatedTariffRefused` are false.

## 5. What is left

- `CorpusSwitch`: the comparison of configuration rows in a tick, the preparation from the command
  line, the BM25 index of a process, the loss of the connection that holds the advisory lock.
- `DocumentJobs`: the bodies of ingestion jobs and of single benchmark runs, renames.
- `ActVersions`: creation of an act by its number, visibility scopes, the queries of a day.
- `BenchmarkSweeps`: checkpoints per question and the identity that invalidates them.
- Proofs: the metadata of points when patches do not overlap, and what holds of a timeline after a
  pending edition was written from an outdated read.
