# TLA+ specifications of ocr_service

`ocr_service` accepts documents over HTTP, runs each through a LangGraph
pipeline (parse, guard, extract, score, route), stores the outcome in Postgres,
notifies the tenant by webhook, lets people review or retry what was not
decided, and erases documents on request. One Python process does all of it:
request handlers and pipeline runs are asyncio tasks that interleave at every
`await`; Postgres, a blob store, Qdrant, the parser and the LLM providers are
outside. The hard part of the program is what happens between two awaits of one
task when another task works on the same document, and that is what these
modules are about.

All paths below are relative to the repository.

## 1. Inventory

| component | state it keeps | operations | talks to |
|---|---|---|---|
| ingest (`app/services/ingest.py`, `app/api/routers/extract.py`) | `documents` row, file in the blob store | POST /extract, GET, DELETE | limiter, schema registry, runner, erasure |
| pipeline graph (`app/pipeline/`) | `ExtractionState`, checkpointed after every node | parse, guardrail, extract, score, route, deliver / review / dlq | parsers, guardrails, extraction chain, confidence |
| runner (`app/worker/runner.py`) | the set of live asyncio tasks | enqueue, load, run the graph, persist the outcome, schedule the webhook | pool, limiter, Postgres, erasure's flags |
| erasure (`app/services/erasure.py`, `app/worker/cancellation.py`) | in-memory cancellation flags, tombstones in `audit_log` | cancel, mark, delete from each store, delete rows | every store |
| dead letters (`app/api/routers/dlq.py`) | `dlq` rows | list, get, retry | runner |
| review (`app/services/review.py`) | `review_tasks` rows | list, accept, correct, reject | extraction results, Qdrant |
| limiter and pool (`app/services/rate_limit.py`, `app/worker/pool.py`) | in-flight counter, a semaphore per tenant | acquire, release, submit, set_tenant_limit | ingest, runner |
| extraction chain and breaker (`app/pipeline/extraction.py`, `app/domain/circuit_breaker.py`) | failure times, opened_at | call, record failure / success | LLM providers |
| schema registry (`app/services/schema_registry.py`) | `schemas`, `schema_versions`, seed examples in Qdrant | create, update, add seed, activate | ingest, runner |
| webhooks (`app/services/webhook_delivery.py`, `_deliver_webhook` of the runner) | `webhook_deliveries` rows, a session open for minutes | read the payload, post with retries, record, bury | runner, dlq, every writer of the document |
| authentication (`app/services/auth.py`) | in-process cache of resolved API keys | resolve key, verify JWT | every request; `api_keys`, which only an operator writes |
| confidence, guardrails, parsers, embeddings, encryption | none (parsers: retry loop) | pure functions and calls of services | pipeline |
| sessions and tables (`app/db/`, `migrations/`) | rows, version columns, keys, triggers | tenant_session: commit or roll back | all |
| app wiring, config, logging, metrics | - | - | - |

What interacts with what: a run, a retry, a reviewer and an erasure all write
`documents.status` from reads of different ages. `documents` and `review_tasks`
have SQLAlchemy version columns (a stale UPDATE fails the whole transaction);
`dlq`, `schemas` and the checkpoints have none. The runner asks two things
before it stores an outcome, the status column and the in-memory flags.

Where the behaviour is hard: reads that are old when they are used (persist
guard, retry, review, seed counts, breaker state); effects outside the
transaction (files, examples, tasks created before a commit); suppressed errors;
tasks that die with the process; counters that more parties decrement than
increment; cleanup that races its producer; deliveries whose answers get lost;
cached decisions that go out of date while lookups overwrite each other.

What makes each part correct: a document that is erased leaves no rows and is
not resurrected; a decision always has its extraction, a review its task, a
rejected document a dead letter to retry; a pending document has somebody
working on it and is decided in the end; slots and permits are not lost, and a
tenant's calls of the models stay within its permits; the breaker opens exactly
on bursts; an active schema has its examples and each pinned version exactly one
definition; what a delivery did is on record whole or not at all; an API key
that was revoked is soon refused. `PROJECT.json` lists the hazards line by line,
with the properties that watch each or the reason none does.

## 2. Modules

| module | models | depends on |
|---|---|---|
| `Pipeline` | the nodes of the graph as functions from state to state | - |
| `GraphRun` | the graph as a state machine: those nodes, one run after another | `Pipeline` |
| `ExtractionRun` | the runs in detail: parsers, guardrails, models, score, thresholds; implements `GraphRun` | `GraphRun` |
| `DocumentLifecycle` | upload, runs, persistence, webhook, erasure, retry, review, crash for a set of documents | `Pipeline`, `DocumentContract` |
| `DocumentContract` | what the handlers promise of a document's rows together, as atomic steps; `DocumentLifecycle` implements it | - |
| `WebhookDelivery` | `DocumentLifecycle` with its webhook deliveries in detail | `DocumentLifecycle` |
| `DocumentInvariant` | the inductive invariants of `DocumentLifecycle` | `DocumentLifecycle` |
| `Admission` | the tenant limiter and the worker pool | - |
| `CircuitBreaker` | the breaker and the fallback order, under concurrent calls | - |
| `Worker` | a process at work: runs that hold a permit of the pool while they call models under the breaker | `Admission`, `CircuitBreaker` |
| `SchemaRegistry` | one schema: create, edit, seed, activate, submit, run | - |
| `KeyCache` | the API-key cache under overlapping lookups | - |
| `MCRequests` | the registry and the key cache side by side, for TLC | `SchemaRegistry`, `KeyCache` |
| other `MC*` | symmetry and a view for TLC | the module of that name |
| `*Proofs` | theorems | see section 5 |

Names ending in an adverb or adjective that follows the name of a definition
(`StaleUnversioned`, `ErasePurgeUnchecked`, ...) are mutants: versions of that
definition with a plausible bug. They are not part of any specification; each
property of a passing run is violated when one of them replaces its original.

### Pipeline and DocumentLifecycle

`Pipeline` has one operator per node (`nodes.py`). A node returns a partial
update that LangGraph merges, so a state is a record that keeps what the later
nodes look at: whether the parse failed, the text is empty or blocked, whether
an extraction is present, the routing level, the failure reason and the status.
`WithInput` is the merge of a new run's input into the thread's last checkpoint,
which is why a retry sees its predecessor's extraction.

`DocumentLifecycle` follows each document through:

| code | actions |
|---|---|
| POST /extract | `UploadSave` (row flushed, file saved), `UploadCommit`, `UploadEnqueue`, `UploadFails` |
| `_process` | `RunLoad`, `RunStart`, one action per node with its checkpoint, `PersistRead` (the guard), `PersistCommit`, `HookBegin`, `HookDelivered`, `HookExhausted` |
| `erase_document` | `EraseCancel` (flag), `EraseRead`, `EraseMark`, `EraseBlob`, `EraseVectors`, `ErasePurge`, `EraseRows` |
| `retry_dlq` | `RetryRead`, `RetryEnqueue`, `RetryCommit` |
| `apply_action` | `ReviewRead`, `ReviewLoad`, `ReviewWriteBack`, `ReviewCommit` |
| failures | `Abort` (any task's database call raises), `Crash` (the process dies; nothing recovers on start) |

A database session is a read and, some awaits later, a commit; the read's row
is kept in `seen` and compared with the stored version when an UPDATE is
flushed (`Stale`). An assignment that leaves a column as it was is no UPDATE,
so no version check either: `RetryTouches` and the review's `reviewTouched`
model that. Foreign keys, unique keys and cascades are part of `PersistCommit`,
`HookExhausted` and `EraseRows`.

Abstractions: contents (text, extracted fields, confidences, corrections) are
reduced to what the nodes branch on; audit events other than tombstones are
left out, as they are written in the same transactions and never read; a
webhook's minutes of attempts are one wait that ends delivered or exhausted
(`WebhookDelivery` has them one by one); `asyncio` may schedule any ready task
next.

### DocumentContract

What is left of `DocumentLifecycle` when there are no tasks, versions, reads or
faults: the status of each document, its extraction, its review, the dead letters
and the tombstones, and the steps in which handlers change them (`Submit`,
`Accept`, `Reject`, `Letter`, `Retry`, `Review`, `Mark`, `Erase`). Each guard is
about the rows as they are in that step. `DocumentLifecycle!ImplementsContract`
is the refinement: `Status`, `Decision` and the rest of the mapping read the rows
and forget their versions. That it holds means that no commit depends on a read
that has become old, although nearly all of them come several awaits after
theirs. It also shows what the promise is worth: the contract has to allow a
letter of its own for a document in any state (an exhausted webhook's, and that
of a second run rejected like the first), a retry that uses up a letter without
touching the document and a review that decides one of its two rows only, and two
tombstones. Its guards say when these are harmless: a retry that leaves the status
alone is not that of the last letter of a rejected document, a review that leaves
the document alone is not that of one in review. `RowsAgree` is what the contract
is for: by its steps alone the rows of a document always fit together.

### WebhookDelivery

`DocumentLifecycle` and, joined to its steps, the delivery that a completed run
schedules as a task of its own:

| code | actions |
|---|---|
| `_deliver_webhook`: document and tenant, then the extraction | `Begin` (with `HookBegin`), `Gather` |
| the loop of `WebhookDeliverer.deliver` | `Post`: answered with 2xx, with something else, or not at all, which the receiver may have accepted all the same |
| its two ends, and the commit | `Deliver`, `Exhaust` (with `HookDelivered`, `HookExhausted`) |
| everything else, at any time between those | `Other`: what it aborts rolls back, what it erases takes its delivery rows along |

Between two statements of a delivery any other action may come. Everything a
delivery adds to its session is written by one commit at its end, because
sessions of this code do not flush by themselves; so `recorded` (the attempts),
`event` (the audit event) and the dead letter change in one step, or not at all
if the foreign key to the document fails. `accepted` is an observer: the runs whose
result the receiver has taken. How long an attempt waits is left out, as is the
signature.

### KeyCache

`Hit`, `Miss`, `Resolve`, `Decide` and `Fail` are the segments of
`resolve_api_key` between its awaits, `Return` ends the request. Refusals are
cached like grants. Nothing under `app/` writes `api_keys`, so `Write` is the
operator, who issues, re-scopes, revokes or restores keys; `Tick` is the clock.
`Lag` bounds the time from a session's read to its end: that time is not part of
the entry's TTL, since `set` starts the TTL afterwards. (The wait for a
connection comes before the read and is not bounded.) `lastRight` is an
observer: when each answer was last the one the row called for. JWTs are not
cached, and the public key is loaded once.

### GraphRun and ExtractionRun

`GraphRun` executes the nodes of `Pipeline` in the order of `graph.py`, each with
any of its outcomes. `DocumentLifecycle` takes the same nodes with the same
outcomes and puts the other actors between them; `ExtractionRun` shows that
nothing inside a node has an outcome they do not know.

| code | actions of `ExtractionRun` |
|---|---|
| `parse_node`, `get_parser` | `Load`, then the cloud parser or the local one |
| `LlamaParseClient` | `Upload`, `Poll`, `PollTimesOut`, `Result`; `Retry` is the loop of `parse` |
| `LocalParser` | `Local`, `Ocr` |
| `guardrail_node` and the guardrails | `Guardrail` with `Block` and `Multiplier` |
| `extract_node`, `ExtractionChain` | `Extract`, `Primary`, `Fallback` |
| `score_node`, `confidence.py` | `Score` with `Completeness`, `FillRate`, `SelfReport`, `Rounded` |
| `route_node`, `route_decision`, terminal nodes | `Route`, `Deliver`, `Review`, `Dlq` |
| the next run of the document | `Again`, which merges its input into the last state |

A text is what the code measures of it: its characters, its words, whether
enough of them are printable, whether a pattern of the injection guardrail
matches. An extraction is the set of its keys and of those with a blank value
(values are strings: `build_output_model` allows nothing else). Signals are exact
fractions; a model's self-report is a multiple of 1/10000, the unit the code
rounds scores to. `Rounded` allows both neighbours of a tie, because which one
`round` picks depends on the binary representation of the product. The schema's
properties and required fields may differ from run to run (it may be edited);
its thresholds are constants, with the relation the registry enforces. A second
of sleeping is one unit of `waited`, a request takes one of `Costs`; the delays
between attempts carry no information and are left out. `requests` is an observer
of the code, counted until one above `Budget`. A breaker that is open appears as
a primary model that fails; `CircuitBreaker` says when that happens.

The refinement mapping: `AbstractAt` joins the steps of a node, `Abstract` keeps
of the text whether it is usable and injected, of the extraction whether there
is one, and of the score on which side of the thresholds it is.

### Admission

`inflight` is the limiter's counter for a tenant, `current` the pool's map
entry, `cap`, `permits` and `waiters` the semaphores that exist. `Admit` is
`acquire`; `UploadFails` and `Finish` are the two places that `release`. A retry
enters by `RetryEnqueues` without `acquire` but leaves by `Finish`. `SetLimit`
replaces the tenant's limit and drops its semaphore from the map while jobs may
hold it or queue for it (nothing in the repository calls it yet).
`asyncio.Semaphore` is external: a released permit is handed to the first waiter
(Python 3.12), which counts as running from then on; that the woken task resumes
only later in the same turn of the loop is left out, because nothing the
properties mention can be done in between. The sections under the limiter's and
the pool's locks contain no await and are single actions.

### CircuitBreaker

A call reads the state when it begins (`Begin`) and records its outcome when the
provider answers (`PrimaryFails`, `PrimarySucceeds`); in between, other calls and
`Tick`, the clock, move. `failedAt` is an observer that remembers when each call
failed, from which the properties compute real bursts independently of the
breaker's own list.

### Worker

The two modules above as `run_pipeline` joins them: a run begins a call only while
its job executes under a permit (`BeginsCall`), and the job ends, and gives the
permit back, only when its call has ended or if it made none (`Ends`). A provider
that hangs or fails thus holds up the runs that queue, and the pool decides how
many calls overlap before the breaker. Calls that are not of this tenant's runs
(`Calls \ Jobs`) are those of other tenants, since the breaker is the process's.
`CallsBounded` is what `pool.py:3-5` wants of all this: the calls of one tenant are
no more than its permits.

### SchemaRegistry

One schema name of one tenant. A request reads the row when it begins and
commits when it ends; there is no version column, and an UPDATE writes the
columns that differ from what was read, so concurrent edits merge column by
column (`Merged`) and concurrent seeds overwrite each other's count
(`Counted`). `Gated` is the trigger `trg_schema_activation_gate`, which checks
the merged row on every write. A request that violates a unique key or the
trigger fails and writes nothing. `Submit` pins the version of a document and
`RunLoad` takes the definition of its run.

## 3. Runs

| run | question | bounds |
|---|---|---|
| `races` | do rows, decisions, reviews, dead letters and deliveries stay consistent, and do all sessions amount to the contract's atomic steps, is nothing written over unread and an erasure final once what it met in flight has ended, when a run, a retried run, their webhooks, an erasure, a retry and two reviewers interleave with failures or crashes? | 1 document, 2 runs, 1 erasure, 1 retry, 2 reviewers, 2 dead letters, 2 faults, 2 attempts |
| `nodes` | does a run in detail do what the graph may do, never send blocked text, never complete on a weak signal, and end within its requests? | 2 runs, 3 schemas, 6 texts, 2 attempts, 3 seconds of polling at 0 or 1 second a request, thresholds 0.85 and 0.60, fair |
| `erasure` | do erasures win over a run in flight and finish, is no document abandoned pending or half erased, and does each delivery end on record? | 1 document, 1 run, 2 erasures, all parse and extraction outcomes, 5 attempts (the schedule of the code), fair |
| `residue` (violated) | does a tombstone mean that nothing is left? | 1 run, 1 erasure, no failing store |
| `double_retry` (violated) | can one document run twice at a time? | 2 retries |
| `stuck_retry` (violated) | is every pending document decided, after a retry of a completed one? | 1 retry, fair |
| `worker` | what do the limiter, the pool and the breaker guarantee together, while limits change and calls fail, and does every run end? | 2 uploads, 1 retry, queue of 1, limits 2 and 1, 2 semaphores, 3 calls, threshold 2, window 2, cooldown 1, time to 2, fair |
| `queue_bound` (violated) | has a tenant never more than `max_queue_size` documents in the pipeline? | 3 uploads, 1 retry, queue of 2 |
| `half_open` (violated) | does reaching the threshold always open the breaker? | 4 calls, threshold 2, window 2, cooldown 2, time to 4 |
| `requests` | what do counting, trigger and unique keys of a schema guarantee for overlapping requests? How long can an answer about an API key be out of date, and how large can the cache grow? | 2 creations, 1 edit, 3 seeds, 2 activations, 1 document; 2 keys, 2 lookups, a cache of 1, TTL 1, lag 1, time to 4 |
| `pinned` (violated) | does a document run on the version it was pinned to? | 1 creation, 1 edit, 3 seeds, 1 activation, threshold 3 |
| `revoked` (violated) | is a revoked key refused? | 1 key, 2 lookups, TTL 1, sessions that take no time |

`requests` explores two modules in one run. They share no variable, and every
property is about one of them, so `MCRequests` takes steps of either only while the
other is in its initial state: the states of the two add up instead of multiplying.

Why the bounds are enough. Documents share nothing but the process and the
dead-letter ids, so one document with several tasks shows every race on it. Two
tasks of a kind are what a read-then-commit race needs; the properties of `races`
about decisions and dead letters are proved for any number of overlapping runs,
so three or more are left to the theorems. Two faults at any points of `races`
cover a crash or a failing call between any two steps, and a second one of what
the first has left half done. Two attempts are one that is followed by another
and one that is the last; `erasure` has all five. In
`worker` three jobs are what it takes for one to run, one to wait and one to come
later, or for a retried run to give back the slot of an upload; with a threshold of
2, three calls that overlap let a burst start, expire and be completed or cleared by
a call that began before it, and a window of 2 makes "inside" and "outside" differ.
`half_open` has a fourth call, to come after the cooldown. In `requests` three seeds against a threshold of 2 let counts
be overwritten downwards after an activation has read them. In `nodes` the second
run meets an edited schema and everything the first one left behind; the schemas
have two, one and no properties, so a ratio can be clipped and a denominator
absent; one text each is empty, nearly empty, good, short, garbled and hostile;
a self-report of 0.8499 lies just below the threshold; two attempts and three
seconds let every attempt end in each of its ways. In `requests`, too, a lookup can read,
be overtaken by a change of the row and by another lookup that stores the newer
answer, and store its own; with one entry each of the two keys drops the other,
and time goes on until entries of both generations have expired. The theorems of
section 5 hold for all bounds.

State is bounded by the sets of tasks alone: each id is used once. `MaxFaults`
bounds faults, `MaxTime` the clocks of the breaker and the key cache, `MaxRuns` the
runs of `ExtractionRun`, `Attempts` the posts of a delivery. `LiveView` identifies states
that differ only in the locals of ended tasks, which no action reads;
`Symmetry` is used in the runs without liveness. Deadlock is not checked where
every task of the instance may have ended.

Fairness. `DocumentLifecycle!FairSpec` has weak fairness of each begun task's
or request's steps, of the commit of an upload and of its enqueueing:
the event loop schedules every ready task, and every await returns or times
out. Sending a request and failing are never fair. `WebhookDelivery!FairDeliverySpec`
adds weak fairness of each delivery's steps: a POST is answered or times out after
10 seconds. Both assume that a session gets its connection from the pool in the
end. `Worker!FairWorkerSpec` has weak
fairness of starting each job, of the end of its call and of the end of the job, for
the same reason. `ExtractionRun!FairSpec`
has weak fairness of `Step`: requests to the cloud parser have a timeout, the
models' clients have theirs, and the other nodes await nothing; running a
document again is not fair. `KeyCache`, the breaker and the registry are checked
for safety only.

## 4. Findings

Seven places where the code does something else than a document, docstring or
comment of the repository says; each is a violated run, quoted in
`PROJECT.json`.

1. `residue`: a run in flight keeps writing checkpoints after
   `_purge_checkpoints`; nothing checks the flag between nodes, although
   `cancellation.py` says the pipeline does. The tombstone is written while a
   checkpoint of the run appears: in the shortest trace it holds the run's input,
   later ones the parsed text. `ErasureIsFinal` bounds what can be left: only
   tasks that were in flight at the tombstone write anything, and only until they
   end.
2. `double_retry`: two retries of one dead letter both pass the `pending` check and
   both enqueue before either commits (`dlq.py:66`). The second commit is stale,
   because `documents` has a row version, and rolls back; its run has been scheduled
   all the same, so the document runs twice at a time.
3. `stuck_retry`: retrying `WEBHOOK_DELIVERY_FAILED` resets a completed
   document; the second outcome breaks the unique key of `extraction_results`,
   and the document stays pending without a dead letter.
4. `half_open`: after the first opening, `_opened_at` is renewed only when a
   success has cleared it, so a half-open breaker never re-opens on failures.
5. `pinned`: runs read the live `schemas` row; `schema_versions` is read by
   nobody, so editing an active schema changes documents in flight. (An edited
   active schema cannot be published either: activating it again inserts the
   same version and fails on the unique key, since nothing sets `deprecated`.)
6. `queue_bound`: a retried run never asks the limiter (`dlq.py:66`) but releases a
   slot when it ends (`runner.py:60`), that of an upload still in the pipeline, and
   another upload is let in. `rate_limit.py:3-4` (REQ-035, SC-012) bounds a tenant's
   documents in the pipeline by `max_queue_size`; the run counts uploads alone, which
   are some of them, and finds them to be more. `AdmittedBounded` and its theorem say
   what is left: the excess is never more than the retried runs that have ended.
7. `revoked`: a key that is cached is accepted for up to 60 s after it was revoked,
   though `auth.py:12` says that a revoked key is rejected, REQ-032, SC-030 and EC-015
   that it is refused within 100 ms, and `03-architecture.md:878` that keys are not
   cached at all. (`auth.py:7` and `AUTH.md` do document the cache.) `AnswersRecent`
   and its theorem say what is left: no answer is older than the TTL and a session.

Seen while modelling, in the model or noted, without a run: a retry or a review
decision can overwrite `cancelled` of a half-done erasure; a DELETE that fails
leaves its flag set, and a later run's outcome is dropped; a retry reuses its
predecessor's extraction and failure reason from the checkpoint; a crash loses
queued documents; two DELETEs can leave two tombstones; a failed upload leaves
its file; a decided review can be decided again. `_call_cloud` lets a 4xx escape
where its docstring promises the fallback (`ParseFails` in `Upload` and
`Result`), and a 5xx of the result request is not retried as one of the upload
or the poll is; a job the service reports as failed is asked for until the
deadline. REQ-004 and SC-005 (`docs/sdlc/02-requirements.md:16,143-148`) want any
missing required field to force LOW; `confidence.py` multiplies by the share of
required fields that are present, so that one of five missing leaves a document in
review, and `WeakSignalHolds` states only what the thresholds make of that share. A
document that a reviewer rejects gets no dead letter, which `RejectedCanBeRetried`
excepts. A webhook is sent only for runs that completed, none after a
review, though `docs/PRODUCT_SPEC.md:108` speaks of "STP or post-review". The
attempts of a delivery that is interrupted are forgotten, though the receiver has
seen them. A delivery keeps its database connection through all its waits.

## 5. Proofs

| module | theorems |
|---|---|
| `DocumentProofs` | `TypeCorrect`, `NoOrphanRows`, `TasksAdvance` |
| `ExtractionRunProofs` | `TypeCorrect`, `NothingBlockedIsSent`, `WeakSignalsHold`, `BudgetIsKept`, `RunsAdvance`, `DetailImplementsGraph` |
| `DocumentDecisionProofs` | `DecidedAlwaysHasResult`, `ReviewAlwaysOpen`, `RejectedStaysRetryable`, `NothingIsOverwritten`, `SessionsAreAtomic`, `ContractIsEnough`, `RowsAlwaysAgree`, `ErasureStaysFinal`, `LiveAlwaysHasBlob`, `ErasureAlwaysWins`, `MarkedAlwaysOwned`, `UnfinishedAlwaysOwned` |
| `WebhookDeliveryProofs` | `DeliveriesAreHooks`, `DeliveriesTypeCorrect`, `RecordsAreWhole`, `PayloadsAreWhole`, `DeliveriesKeepRows`, `DeliveriesKeepErasures`, `DeliveriesAdvance` |
| `AdmissionProofs` | `TypeCorrect`, `SlotsNeverLeak`, `UploadsBounded`, `PoolStaysBounded`, `WaitersFindItFull`, `WaitersHaveARunner`, `PoolIsFair`, `WorkerKeepsBoth`, `CallsStayBounded` |
| `CircuitBreakerProofs` | `BreakerTypeCorrect`, `ClosedStaysBelowThreshold`, `OpensOnlyOnBurst` |
| `SchemaRegistryProofs` | `TypeCorrect`, `CountsAreCovered`, `ActiveStaysSeeded`, `PinsHaveSnapshots`, `VersionsAreUnique` |
| `KeyCacheProofs` | `KeysTypeCorrect`, `CacheStaysBounded`, `AnswersStayRecent`, `ExpiryIsBounded` |

Each holds for any numbers of documents, tasks, requests, faults, limits,
thresholds, columns, texts, schemas, scores, keys, times and attempts (at most the
ten the table admits). Assumed are only the named ASSUMEs of the modules: the
kinds of tasks are disjoint, bounds are natural numbers (some positive), sets
that are counted are finite, thresholds are ordered, a text with characters has a
word, and placeholder values are not real ones. A few theorems are about the
instances their properties are about and say so in an ASSUME: `LiveAlwaysHasBlob`
and `ErasureAlwaysWins` hold without retries and reviewers (`Lone`), whatever
fails, since a retry or a review may take a document back from a half-done erasure
(section 4); `UnfinishedAlwaysOwned` without retries and faults, with any reviewers;
`MarkedAlwaysOwned` without faults; `DeliveriesKeepErasures` as the theorems it
repeats for deliveries in detail.

Eight properties are proved without a run of their own: `RowsAgree` of the contract, `MarkedInv`, `EveryTaskAdvances`,
`RunAdvances`, `AttemptsAdvance`, `NobodyIsOvertaken`, `WaitsWhenFull`, and that a job
waits only for one that runs. TLC agrees with each on the instances of section 3.

The arguments:

- *Rows need their document* (`RowInv`). Every task's target has been committed
  at some time (`TargetInv`), a dead letter belongs to such a document, and an
  id that has had a row gets no second one (`UploadInv`); so inserting a child
  row under the foreign key and deleting by cascade are the only ways rows come
  and go.
- *Nothing is overwritten unread* (`DocumentInvariant`). The property says of each
  write of a status or a decision that the writer's own read is the row it
  replaces. It is not inductive: a row with the version that was read must be the
  row that was read (`ReadInv` for documents, `ReviewReadInv` for reviews, both from
  versions that grow with every write), and a run at its commit must be known to
  have read a status other than `cancelled` (`GuardInv`). That a run never
  overwrites an erasure's mark is a special case.
- *Decisions* (`DecisionInv`). A reviewer or retry at its commit may rely on
  rows it saw several awaits ago only because nothing reopens a review and
  nothing sends a document back to review after a reviewer has read it
  (`ReviewInv`), and because a retry that uses up a dead letter without touching
  the document has read it as `pending` (`RetryInv`, with `Retryable` saying
  that some dead letter is not about to be used up that way).
- *Sessions are atomic* (`ContractInv`). Each commit is a step of the contract:
  of a run because its UPDATE is not stale (`RaceInv`), of a reviewer and a retry
  because of `DecisionInv`, one lemma per handler. A run that ends like the one
  before updates nothing and is checked by nothing; if it has an extraction, the
  unique key must fail it, and it does, since a row that was read as decided has
  kept its extraction (`FoundInv`). That a document is never submitted again
  after an erasure follows from its tombstone (`TombInv`).
- *The contract is enough* (`ContractIsEnough`). `RowsAgree` is inductive for the
  contract by itself, without a word about tasks or versions; the refinement then
  gives it for the system (`RowsAlwaysAgree`). It includes what `DecisionInv` says
  of extractions, reviews and letters, but is proved from eight atomic steps.
- *Erasures are final* (`AnsweredInv`). A task that takes up a document does so for
  its upload, for a dead letter or for a review. The tombstone is written in the
  step that deletes letters and review (`RowsNeedDocument`, `TombInv`), and a client
  can ask for an erasure only when the upload has been answered, which is after it
  has been enqueued, and that happens once (`AnsweredInv`). So nobody
  begins (`NobodyTakesUp`), and only who works on a document makes one of its
  stores grow (`StoresGrow`).
- *Erasures win* (`LoneInv`). An erasure that has passed its mark finds the
  document marked or gone in every later step (`MarkInv`), so what deletes the
  file is never ahead of the mark, and files are saved before rows (`FileInv`).
- *Nobody is abandoned* (`CareInv`). A pending row is the one its upload wrote,
  at the same version (`PendingInv`), so the run that carries it cannot be stale
  unless it was decided or marked; a reviewer cannot make it so, since a pending
  document that nobody retries has no review yet. What a run may drop is what a flag
  tells it to drop, and whoever set the flag is on the way to erase (`OwnerInv`): two
  erasures may overtake each other, but the first to end takes the row along. A
  marked document has an erasure past its mark for the same reason (`MarkedInv`,
  which needs nothing but that no request fails).
- *Everybody advances*. `EveryMove` says who moves in a step: one task, and the run
  it may enqueue, or, in a crash, all of them to their end. `Stage` orders the
  steps of each kind of task, so no task goes back (`TasksAdvance`). Between the
  stages `StepsLeft` counts what a run in detail may still do, from an attempt's
  share of `PollTime + 2` steps (`RunsAdvance`), and `AttemptsLeft` what a delivery
  may (`DeliveriesAdvance`). Together they are the safety half of the liveness
  properties: no task can work for ever. The other half, that one that is ready is
  scheduled, is the fairness that only TLC uses.
- *Deliveries* (`DeliveryInv`). A delivery at work has left no trace, and every
  trace is of one that has ended (`TraceInv`); a status read as decided keeps its
  extraction until the document is erased (`PayloadInv`, from `DecisionInv`, which
  holds here too because deliveries are hooks of `DocumentLifecycle`, as do all its
  theorems: `DeliveriesKeepRows`, `DeliveriesKeepErasures`).
- *Key cache* (`KeyInv`). What a session read was right when it read, at most
  `Lag` ago (`ReadInv`), and what is cached was right at most `Lag` before it was
  stored (`CacheInv`): whichever lookup stores last.
- *Runs in detail*. Lemmas on fractions (`ShareIsFraction`, `LowerIsFraction`,
  `RoundedBounded`) give that a score is one. `GraphInv` says what a node hands
  to the next: a text that reaches the guardrails is not empty, one that reaches
  the models has passed them, and a model is asked only without an extraction.
  With it each action is a node of `GraphRun` or a stutter, one lemma per node.
  `JobInv` gives each attempt a share of `PollTime + 2` requests and bounds those
  made so far by the seconds waited. `SignalInv` carries the strength of the
  signals from the score to the completed document; `RoundedReaches` is why half
  a unit is all that rounding can add.
- *Slots and permits*. `SlotInv` relates the counter to the uploads in flight
  and the retried runs that ended. `PermitInv` says for each semaphore that its
  permits and its running jobs make its size, `QueueInv` that its queue holds
  the jobs that wait on it, each once, and `WaitInv` that somebody waits only
  while no permit is free. Hence a job waits only for one that runs
  (`WaitersHaveARunner`), on a semaphore that was dropped from the map too, and a
  permit goes to the head of the queue and to nobody else (`PoolIsFair`).
- *A process at work*. Each step of `Worker` is one of `Admission` and of
  `CircuitBreaker`, or a stutter (`WorkerKeepsBoth`), so what is proved of either
  holds of both together. Who calls a model is running (`CallInv`), since a job does
  not end before its call; with `PermitInv` this gives `CallsStayBounded`.
- *Breaker*. Every failure in the list is the failure of a call that really
  ended then, and a closed breaker's list is short of the threshold.
- *Registry*. Each count that is stored, was read, or is about to be written is
  covered by examples in the store (`SeedInv`); the version never moves and a
  schema becomes active in the step that writes its snapshot (`VersionInv`).

Model-checked only: the liveness properties (`EveryRunEnds`, `RunEnds`,
`PendingIsDecided`, `ErasureCompletes`, `DeliveryRecorded`; the prover has no
support for fairness and ENABLED, and the bound on the number of steps that the
measures give is an induction over it), and the violated properties.

## 6. Not modelled, and the plan

Done, in the order of the plan: `Pipeline` and `DocumentLifecycle` with their
proofs, `Admission`, `CircuitBreaker`, `Worker`, `SchemaRegistry`, `ExtractionRun` with its
refinement of `GraphRun`, `WebhookDelivery`, `DocumentContract` with its
refinement by `DocumentLifecycle`, `KeyCache`, and the proofs of all safety
properties that the passing runs check.

What could follow: the connection pool as a resource that deliveries, runs and
requests compete for, so that the fairness of sessions would be a theorem instead
of an assumption; and `Admission` composed with `DocumentLifecycle`, which now
share only the order of their steps.

Outside the models for good: PII encryption, prompt building, file formats and
regular expressions of the guardrails (pure conversions of text), JWT
verification and minting of keys (library calls that keep no state), the LLM,
Qdrant and blob clients (libraries and services), row-level security and roles,
response schemas, configuration, logging and metrics (no state the program reads
back). They and the columns nothing branches on are most of what the map leaves
uncovered.

## 7. Running

    tlc -workers 2 -config Races.cfg MCWebhookDelivery
    tlapm DocumentProofs.tla

`PROJECT.json` names the module and configuration of every run, maps every
definition to the lines it translates, and lists mutants, hazards and theorems.
