# TLA+ models of imigrAI

imigrAI answers "which Canadian programme fits this person" with a scored,
auditable assessment. A request is accepted by a FastAPI process and the work is
done later by Celery workers; the two meet only in PostgreSQL and in message
queues. The rules the score is computed with come from web pages that an
ingestion pipeline watches. Who may ask for how much follows from Stripe
subscriptions. This directory holds models of that behaviour, the TLC
configurations that check them on small instances, and TLAPS proofs of the most
important properties for every instance.

    tlc -config Pipeline.cfg MCScorePipeline.tla
    tlapm ScorePipelineProofs.tla

`PROJECT.json` lists, for every definition, the source lines it stands for; for
every property of a passing run, a mutant of the model that violates it; and the
hazards of the code with the properties that watch them.

## Inventory

    browser ──HTTP──> API (FastAPI) ──SQL──> PostgreSQL <──SQL── Celery workers
                        │                                        ▲        │
                        ├─ INCR/EXPIRE ─> Redis (rate limits)    │        ├─> LLM provider
                        └─ apply_async ─> score / roadmap / ingestion     └─> web sources
    Stripe ──webhook──> API                 queues, dead_letter_queue

Every request and every task opens its own database sessions
(`app/db/session.py`, `app/db/engine.py:31`, `expire_on_commit=False`), under
the READ COMMITTED level PostgreSQL has by default. There is no lock besides the
`SELECT ... FOR UPDATE` of the `mark_*` methods of the jobs table; everything
else relies on unique indexes, one exclusion constraint, and the row locks and
index entries of writes that are flushed and not yet committed.

| Component | State | Hard behaviour | What makes it correct | Model |
|---|---|---|---|---|
| Assessments API (`apps/assessments/services.py`, `repositories.py`) | `assessments`, `user_profile_snapshots` | overlapping requests of one user or one key; reads that are stale after an await; four commits in one request | one row per key, one snapshot per assessment, the quota counts what was created, a committed assessment is published | `AssessmentsApi` |
| Billing quota (`apps/billing/services.py` 67-103) | `usage_counters` | read, compare, write without a lock | counter and free limit | `AssessmentsApi` |
| Jobs ledger (`apps/common`) | `jobs` | several executions share one row | completed jobs stay done, attempts stay in budget | `Jobs` |
| Score worker (`apps/assessments/tasks.py`, `process_assessment`) | results, items, the status of assessment and job, queue, dead letters | duplicate tasks, retries, soft and hard time limits, crashes, failed flushes | completed means there is a result; an audit trail is never lost; no job is orphaned; every job settles | `ScorePipeline`, `ResultLedger` |
| Entitlements and Stripe webhooks (`apps/billing`) | `plans`, `subscriptions`, `entitlements`, `billing_events` | replayed, concurrent and reordered events; a handler that fails after a flush; the baseline against a webhook | an event is settled once and in the end; access follows the subscription; nobody is left without entitlements | `Billing` |
| Roadmaps (`apps/roadmaps/services.py`, `tasks.py`) | `roadmaps`, `roadmap_steps`, `jobs` | two requests with one key, time limits between two commits that belong together, lost publications | ready means there is a contract; job and roadmap agree; every roadmap settles | `Roadmaps`, `RoadmapLedger` |
| Roadmap contracts (`apps/roadmaps/services.py`, `schemas.py`, stub) | steps of a roadmap | any answer of a language model | the fallback is always acceptable and answers the audit | `RoadmapContracts` |
| LLM provider and circuit breaker (`apps/roadmaps/llm.py`) | failures, opened until, for the time of one roadmap | state that is dropped before it is asked again | a primary that fails in a row rests (it does not, finding 6) | `CircuitBreaker` |
| Ingestion orchestration (`apps/ingestion/tasks.py`, `services.py`) | runs, items, health of sources | several tasks finalize one run; counts loaded before a fetch and written after it; errors that leave an item running | completed means all items succeeded; failing sources reach quarantine; runs and items settle | `Ingestion` |
| Publication and program versions (`apps/ingestion/publisher.py`, `apps/immigration_rules`) | `program_versions`, documents, hashes | a publication that read the active versions earlier; an administrator at the same time | a new version is the one in force; the constraint holds | `ProgramVersions` |
| Score engine (`apps/assessments/engine.py`), rule extraction (`apps/ingestion/extractors.py`) | none | conditions of any rule set, normalization, rounding | a better applicant is not scored worse | `ScoreEngine` |
| Rate limiter (`app/core/rate_limit.py`) | Redis counters, in-process fallback | `INCR` and `EXPIRE` are two calls; Redis fails | admissions are bounded; a window ends | `RateLimiter` |
| Profile match (`apps/profile_match`) | the submission | overlapping claims of one guest submission | claims one after the other show the results to one user; improving never lowers a score | `ProfileMatch` |
| Accounts and authentication (`apps/accounts`) | users | single transactions over one table | unique e-mail | not modelled |
| Frontend (`frontend/src`) | query caches | a client of the API: polling with backoff | polling ends when the status is final | not modelled |
| Observability, migrations, seeds, scripts | nothing that is decided on | | | not modelled |
| Fetchers, storage, Stripe gateway | none | external input and output | | their failures are actions of the callers |

### How the components interact

* **API → worker.** `create_assessment` consumes the quota (one commit), inserts
  snapshot and assessment (one commit), inserts the job (one commit), and then
  calls `apply_async`. `create_roadmap` does the same with a roadmap. Nothing
  ties the publication to the commits.
* **Worker → jobs.** `mark_running` shares a session with the work;
  `mark_completed`, `mark_pending_retry` and `mark_failed` each open another.
* **Worker → broker.** Messages are acknowledged when they are taken
  (`celery_app.py` never sets `acks_late`), so a worker that dies takes the
  message with it. A transient error becomes `task.retry`; a definitive one a
  dead letter.
* **Repeated POST.** With a known key the API answers with the stored
  assessment, and publishes once more when the status it read is `pending` or
  `failed`. Two tasks can therefore run for one assessment.
* **Stripe → billing.** Events come in any order, repeatedly, and again until
  they are answered with success. A webhook may ask Stripe for the subscription
  as it is now, which is later than the event.
* **Ingestion → scoring.** A publication archives the versions it has listed and
  adds its own. A worker looks the version up when it takes the task, with the
  time of the request.

## The plan and where it stands

Modelled, in the order of the plan: the path of an assessment (`Jobs`,
`AssessmentsApi`, `ScorePipeline` over its abstract specification
`ResultLedger`), `Billing`, `Roadmaps` over its abstract
specification `RoadmapLedger`, `CircuitBreaker` and `RoadmapContracts`,
`Ingestion`, `ProgramVersions`, `ScoreEngine`, `RateLimiter`, `ProfileMatch`.

What is left, most useful first:

1. A composition of `Billing` with `AssessmentsApi`: the limit that is compared
   is the entitlement of the moment.
2. The polling loop of the frontend over `JobsSettle` and `RoadmapsSettle`.

## The modules

`AssessmentsApi` extends `Jobs`; `ScorePipeline` extends `AssessmentsApi` and
adds the worker to the same variables and refines `ResultLedger`; `Roadmaps`
extends `Jobs` and refines `RoadmapLedger`. The others share no state in the code and none here. `MC*`
modules hold the instances for TLC, `*Proofs` modules the theorems about the
module they are named after; `FallbackProofs` has those about `RateLimiter`
and `RoadmapContracts`, `ScoringProofs` those about `ScoreEngine`
and `ProfileMatch`.

A common form: a request or a task is a record with the place it has got to
(`pc`) and the local variables of the code that are used after an await. An
action is what the code does between two points where the commit of another
session can become visible: one action per SELECT whose value is used later,
one per commit. Writes flushed before a commit belong to the commit's action,
unless another session has to wait for them (`Billing`).

### Jobs

One row as a record `[status, attempts]` and the transitions of
`JobsRepository` as functions from a row to a row. `mark_running` and
`mark_pending_retry` leave a completed row alone; `mark_completed` and
`mark_failed` have no guard, in the code as in the model.

### AssessmentsApi

| Action | Code | What it does |
|---|---|---|
| `Post` | lookup by key | binds the request to its assessment; a known key skips to the job |
| `ReadQuota`, `CommitQuota` | `consume_assessment_quota` | the comparison with the limit, then `read + 1` as an absolute value |
| `ReadSnapshotVersion`, `InsertAssessment` | the snapshot, the insert and its commit | the version from an earlier read, both unique indexes, the foreign key of the program |
| `RefreshAssessment` | `refresh_assessment` | the status the publication is decided on |
| `FindJob`, `InsertJob` | `get_or_create_job` | look up, then insert under the unique index |
| `Enqueue` | the tail of `create_assessment` | `apply_async` when the status read is pending or failed |
| `RequestDies` | any exception or loss of the process | what was committed stays |

`Programs` are the ids a client may send and `StoredPrograms` those with a row;
nothing looks a program up before the quota is committed. `used`, `snapshots`,
`assessments`, `jobs` are the tables; `queue` the broker;
`req` the requests in progress; `dispatches` counts publications; `posts` and
`faults` are used-up bounds.

### ScorePipeline

`wrk[w]` holds the message, the status and result row the session has loaded,
and the error that is leaving the task. The actions follow
`process_assessment_task`: `Take`, `MarkRunning`, `LoadAssessment`,
`SetRunning`, then `ComputeFails`, `PersistResult`, `PersistCollides` or
`PersistRejected`, then `RefreshResult` and `MarkCompleted`; or `HandleFailure`
and `Republish` or `EmitDeadLetter`. `InterruptOutside` and `InterruptInside`
are database errors and the soft time limit outside and inside the `try` of
`process_assessment`; `Crash` is the hard limit, a lost worker, or a failure
inside `_handle_failure`.

Facts about SQLAlchemy that several models depend on:

* An UPDATE contains only attributes whose value differs from the one loaded
  (`WriteStatus`, `Ingestion.Written`, `Ingestion.WriteRun`): a worker that
  thinks the status is already `running` does not write it over `completed`.
* A flush that fails, by itself (`PersistCollides`) or inside `commit()`
  (`PersistRejected`), leaves the session waiting for a rollback, and the next
  commit raises `PendingRollbackError`: the except clause of `process_assessment`
  stores nothing and replaces the error by one that is retried.
* A rollback expires what the session has loaded, and reading an expired
  attribute outside a greenlet raises `MissingGreenlet`
  (`Ingestion.ProcessFails`).
* Deleting a parent whose relationship has no delete cascade sets the children's
  foreign key to NULL (`FlushFails`): a result that has items cannot be replaced.

A result is abstracted to whether it has items, since that is all
`replace_assessment_result` is sensitive to.

`ResultLedger` is what a user who polls is promised of an assessment, its job and
its result, with workers, messages and retries gone: nobody works on an
assessment before its job exists; the step that reports it as completed is the
one that stores a result; a result with items is final; a job is completed only
when there is a result, and never started again. `ResultLedgerKept` is the
refinement. What the ledger does *not* promise is as telling: after a result was
delivered the status may still become `running` or `failed`, because of a
duplicate execution that had loaded the assessment before.

### Billing

The tables are functions from keys to rows; a grant is the set of entitlement
rows that one `_apply_plan_entitlements` call creates. A closed grant is never
read again and is dropped, which keeps timestamps out of the model.
`provider` is each subscription's status at Stripe and `sent` the events Stripe
has created; an event may be delivered whenever and as often as there is a
handler. A handler goes through `AddPlan` (default plans, one commit),
`CheckBaseline` for a request of the user, or for a webhook `LookupEvent`,
`CreateEvent` (flushed: a second insert of the event waits), `HandleEvent`,
`RetrieveFails`, `Load`, `Reselect` (the subscription's row is looked up again),
`FlushSubscription` (the row's lock, or a collision on its unique index),
`ApplyEntitlements` (from the entitlements that were in use when read), and
`Commit`, `CommitIgnored` or `CommitFailed`. `Die` is a lost process: the
transaction goes with it. A price is the Pro plan's, as in the seeds, or unknown:
`PriceUnknown` fails the event until an operator has entered it.

### Roadmaps, RoadmapLedger and RoadmapContracts

`Roadmaps` has the shape of the score pipeline: `CreateRoadmap`, `FindJob`,
`InsertJob`, `Enqueue`; then `Take`, `MarkRunning`, `LoadRoadmap`, `SetPending`,
`Generate`, `ApplyContract`, `MarkCompleted`, `Finish`; or `GenerateFails` and
`Interrupt`, then `FailJob`, `FailRoadmap`, `Republish`. A known key is answered
with the stored roadmap (`Post`), but nothing in the roadmaps table is unique
over the key: it is the job's, which is inserted after the roadmap. Two
overlapping requests with one key make two roadmaps.

`RoadmapLedger` is what the user who polls is promised: a roadmap is requested,
may be delivered once with a contract that is never exchanged or taken back, or
fails. `LedgerKept` is the refinement, seen through the status and the steps.

`RoadmapContracts` is the way from the items of a result to stored steps: which
items are gaps, the steps of the stub, the schema, `_validate_contract`, and
what is stored. The primary may answer with any steps within the bound. `Gaps`
is the list the loop of `_build_provider_payload` collects, as the set of items
it appends, in their order.

### CircuitBreaker and RateLimiter

Both keep times as durations (what is left of a period, the age of a call), so
that their behaviours need no bound on time. `CircuitBreaker` is a worker that
generates one roadmap after the other: `build_llm_provider`, `CallPrimary` and
`PrimarySucceeds` or `PrimaryFails`, or `CallFallback`, and `BreakerSecond`. As
in `process_roadmap`, a provider is built for each roadmap and called once;
`streak` and `since_failure` are history, what a breaker that outlived a roadmap
would know. `RateLimiter` is one key in Redis with `Incr` and `Expire` as two
steps, the store of the process that stands in for Redis, and the end of a
process, at any point and with it its store. An error may hide that Redis has
done what it was asked (`LeftInRedis`). `recent[age]` is history: how many
requests the last `age + 1` seconds have admitted.

### Ingestion and ProgramVersions

`Ingestion` is who works on what: `DispatchScheduled`, `DispatchCountry` and
`Reprocess` create a run with its items; `Publish`; `Take` or `ProcessSync`;
then `Quarantined`, `Fetch` or `FetchFails`, `SkipUnchanged`, `Complete` or
`ProcessFails`, `FailItem`, and the finalizer's two transactions `ListItems` and
`WriteRun`. What a process has loaded of the source (`loaded`) is what it counts
up from. `stranded`, `streak` and `overlapped` are history the properties read.

`ProgramVersions` is what an item publishes and what an administrator changes:
`SkipRaw`, `RecordOnly`, then `ListActive` and `PublishVersion` as two steps,
because the versions to archive and the time are read before; `UpdateVersion`,
`Activate`; and `Request` and `Score` of an assessment. `Consistent` is the
exclusion constraint `ex_program_versions_active_no_overlap`, which is not
deferrable. The two modules meet in one value, the status an item ends with.

### ScoreEngine and ProfileMatch

Pure algorithms as operators, compared on pairs of inputs. `ScoreEngine` is
`evaluate` with its normalization of profiles, its ten operators, `all` and
`any`, blocking, the range of a rule set, `ROUND_HALF_UP` to hundredths, and the
bands, together with the groups and the confidence the deterministic extractor
publishes. Deltas are in one unit, whichever it is, and are counted out: the
points an applicant wins and loses are sets, a sum is the difference of their
sizes. `ProfileMatch` has all countries with their weights, and the guest's
submission with overlapping claims (`overlapped` is history: two of them have
been in progress at once); profiles are those the request's schema
admits, with amounts in whole thousands of BRL, and the sums are exact.

## The runs

| Run | Instance | Outcome |
|---|---|---|
| `api_races` | a free and a Pro user, 2 keys each, 2 programs of which 1 is stored, 2 clients, limit 2, 4 requests, 1 dying; fair | holds: the counter within the limit, one snapshot per assessment, messages name committed rows, what is committed is published |
| `pipeline` | 2 workers, 2 clients, 1 key, 2 requests, 2 retries; at most 2 interrupts, 1 crash and 1 dying request; fair | holds: results, jobs and messages under every overlap of duplicates, retries and failures; `ResultLedger` is implemented; every job of which nothing was lost settles |
| `roadmaps` | 2 clients, 2 workers, 1 key or none, 2 roadmaps, 1 retry, 1 interrupt and 1 loss; fair | holds: contract, job and roadmap, carriers, settling, and `RoadmapLedger` is implemented |
| `ingestion` | 2 sources, 2 workers, 2 runs with 2 items in all, quarantine after 2, 1 retry, 1 fault; fair | holds: what completed means, quarantine, items and runs settle |
| `independent` | five components, each on its own: billing (2 handlers, one subscription, checkout, an update and a deletion, 1 fault), contracts, versions, engine, match | holds: grants are backed, settled events stay, nobody loses all access; and what the other four promise |
| `limiter_and_billing` | the rate limiter (limit 2, window 2, 2 callers, 7 faults) or billing (1 handler, all kinds of events but the update back to active, 1 fault); fair | holds: admissions are bounded and refusals end; entitlements and subscription agree, every event is settled |
| `api_limit_race` | 2 clients, 3 keys, limit 2 | "Free: 3 assessments/mes" is violated |
| `quota_charged` | 1 client, 1 key, a program that is not stored, nobody dies | "Consumo ocorre na criação de assessment novo" is violated |
| `billing_cancel_race` | 2 handlers, one subscription | "cancelamento ... retorna usuário ao baseline Free" is violated |
| `versions_requested_at` | 2 versions, one source, one assessment | "ativa na data da solicitação" is violated |
| `extracted_age` | the extracted rules, ages below and above the limit | "Age requirement ... matched" is violated: it lowers the score |
| `breaker_per_roadmap` | threshold 3, recovery 4 s, time-out 2 s | "Circuit breaker para falhas consecutivas no primário" is violated |

**`independent` and `limiter_and_billing`.** Components that share no state are
put into one run: `MCIndependent` and `MCLimiterAndBilling` start one of them
(`part`) and let the others rest, so that each is explored in full and the states
of the run are the sum of theirs, not the product. `Billing` is in both, with
different instances: overlapping handlers in one, and in the other one handler
with more kinds of events and with fairness, since what `OneGrant`, `ProIsPaid`
and `PaidHasPro` say is false of handlers that overlap.

**Why these bounds.** Rows of different keys interact only through their user's
counter and snapshots: the API runs have several keys and users, and the
pipeline run, whose extra state is per assessment, has one. Two clients and two
workers give every pairwise race, and the retries of one task meet the duplicate
of the other request. One retry reaches both sides of the budget, two also an
attempt between the first and the last. In the billing part of `independent` the
events are one of each kind that takes a different path through the handler, and
the fault lets a delivery fail and come back beside another. In `roadmaps` two
roadmaps are needed for the race on a key and are enough for it. Two items in
`ingestion` are one run of two sources, or two runs of one source that overlap;
two failures reach the quarantine, once within one item (a retry) and once over
two. The clock of `versions` has two moments, which is what "before" and "after"
need; two sources and two versions let two publications overlap. In `engine` and
`match` the inputs cover each operator, both match operators, blocking, and both
sides of the thresholds; the country rules are all of the code's. The seven
faults and ends of processes of the limiter reach every bound `AdmissionBounded`
states: `2 * Limit - 1` without one, and with restarts `Limit` more for each
store that is lost. Deadlock is not checked: when the bounds are used up and
everything is settled, the modelled system has nothing to do.

**Fairness.** An ASGI server drives an accepted request to its end and a Celery
worker that is up keeps consuming and executing: weak fairness of `RequestStep`,
`HandlerStep`, `WorkerStep` and of the dispatchers' `Publish`. Stripe delivers an
event again until it is answered with success: strong fairness of the delivery
of each event that is not settled, because handlers may be busy. Limiter: time
passes, and a call to Redis is answered or fails.
Nothing is assumed of errors (they are bounded but may happen at any time) or of
the choice between the outcomes of a computation. Liveness is claimed only while
nothing is lost where early acknowledgement makes it false otherwise, and the
properties say so (`faults > 0`, `crashes > 0`, `losses > 0`).

**Mutants.** Each property of a passing run has a mutant beside the definition
it mutates (`ReadQuota_late`, `ApplyEntitlements_two_commits`,
`WriteRun_all_columns`, ...): a plausible slip under which TLC finds the property
violated. No specification uses them.

## Findings

1. **The free limit can be passed** (`api_limit_race`).
   `consume_assessment_quota` compares and later writes `read + 1`, with no lock
   on the row. Two overlapping requests at `limit - 1` both pass, both write the
   same count, and the user has one assessment more than the plan allows.
   `CounterWithinLimit` still holds: the counter itself never shows it.
2. **A cancelled user can keep Pro** (`billing_cancel_race`). A handler whose
   subscription row does not change takes no lock. It reads the active
   entitlements before the handler of `customer.subscription.deleted` commits,
   closes what that one has already closed, and adds Pro beside Free.
3. **A waiting assessment loses its version** (`versions_requested_at`).
   `get_active_program_version` asks for the version in force at the request
   that is also active *now*. A publication archives it, and the assessment ends
   in dead letter.
4. **Meeting an age limit lowers the score** (`extracted_age`). The extractor
   puts the reward and the penalty into one group with one condition, so both
   apply to whoever is within the limit.
5. **A request can be charged for nothing** (`quota_charged`). The charge is
   committed before anything looks at `program_id`. For a program that does not
   exist the insert fails on the foreign key; the key stays unknown, so every
   repetition of the request is charged again. No overlap, fault or retry of the
   server is needed.
6. **A failing primary never rests** (`breaker_per_roadmap`). `process_roadmap`
   builds a provider, and with it a closed breaker, for each roadmap and calls it
   once. Failures of different roadmaps never add up, and the next roadmap calls
   the primary again without a pause.

### Further behaviours the models show

They bound what the properties above can claim, and are listed as hazards:

* After a crash an assessment stays `running` for ever, since a repeated POST
  publishes only for `pending` or `failed`; `mark_failed` has no guard, so the
  last failure of a duplicate turns a completed job into `dead_letter`.
* The loser of a race on an assessment's key, or on a snapshot version, has paid
  the quota as well. An IntegrityError of the worker is hidden by
  `PendingRollbackError` and retried (`docs/06-regras-de-negocio.md:130` says
  dead letter), and the status stays `running` meanwhile.
* An older `customer.subscription.updated` delivered after the deletion
  activates the subscription again (`billing/services.py:300`); the end of one
  of two subscriptions takes Pro away although the other is paid (`:394`).
* Two overlapping requests with one roadmap key create two roadmaps
  (`docs/02-arquitetura-da-solucao.md:25` promises idempotency): both are
  generated under one job, or the second stays pending without one. A completed
  roadmap can be reported as failed when its last attempt is interrupted after
  the contract was stored; a process lost between the two commits of a failure
  leaves the job in dead letter and the roadmap pending; a publication that fails
  is never repeated.
* Activation with force works only when a single version with a smaller key
  conflicts, and fails with two; a version that is active in the future blocks
  publications. The `create_*` of the rules repository are synchronous and
  awaited, so every POST of the rules API fails.
* An item that does not publish collides with
  `uq_source_documents_program_version_source_url` when the page changes again,
  and stays running. An error after the first query of an item is not recorded
  on it at all, and a synchronous reprocess that fails never finalizes its run.
  Overlapping tasks write failure counts from what they have loaded. A stale
  finalizer may set a run with a retried item back to running.
* A key of the rate limiter whose `EXPIRE` fails, or whose process ends before it,
  never expires. Each process that ends takes the counts of its own store with
  it, so that while Redis is down `Limit` more requests pass. Two users with
  one guest session may both claim a submission; the last one has it.

## What is proved

For every value of the constants, from the named assumptions of the modules
(`ApiAssumption`, `PipelineAssumption`, `BillingAssumption`,
`RoadmapsAssumption`, `VersionsAssumption`,
`IngestionAssumption`, `RateAssumption`, `ContractsAssumption`,
`RulesAssumption`, `ProfilesAssumption`, `UsersAssumption`: bounds are natural numbers, some sets
are finite, "no key" is not a key, an event has a type, a subscription has a
payer, rules have finitely many groups and outcomes, a profile fits the schema of
its request, "no owner" is not a user). The theorems whose names end in
`OneByOne`, and `PipelineQuotaExact`, have one more hypothesis in their statement:
requests, or webhooks and requests of billing, that do not overlap. Those about
`QuotaExact` also assume `ProgramsStored`: clients ask for programs that exist.

| Theorem | States |
|---|---|
| `ApiTypeCorrect`, `CounterBounded`, `SnapshotsNumbered` | types of the API; the counter stays within the limit; snapshot versions are 1 up to the number of assessments |
| `QuotaExactOneByOne`, `FreeLimitOneByOne`, `PipelineQuotaExact` | of requests one at a time: the counter is what was created, if their programs exist; the free limit holds; the workers change nothing about it |
| `TypeCorrect`, `PublishedIsCommitted`, `CompletedIsBacked`, `CompletedJobIsBacked`, `AuditTrailSafe`, `CompletedJobStays`, `NoOrphan`, `WorkNotMultiplied`, `ResultsArePromised` | types of the pipeline; messages name committed rows; completed means a result; no result is lost; completed jobs are not restarted; while nobody dies, an unsettled job has somebody who will write it; retries never double a message; the refinement of `ResultLedger` |
| `BillingTypesCorrect`, `GrantsAreBacked`, `EventInsertedOnce`, `SettledEventsStay`, `UsersKeepAccess` | types of billing; grants and processed events have stored subscriptions; one insert per event; a settled event stays; no step takes all access away |
| `OneGrantOneByOne`, `ProIsPaidOneByOne`, `PaidHasProOneByOne` | of handlers one at a time: one grant each; Pro is paid for; who pays has Pro |
| `RoadmapTypesCorrect`, `RoadmapHasOneOwner`, `RoadmapsProofs!CompletedIsBacked`, `LedgerIsKept`, `PendingIsCarried`, `JobTellsTheRoadmap` | types of the roadmaps; one carrier per roadmap; completed means a contract; the refinement of `RoadmapLedger`; a pending roadmap has somebody who will settle it; job and roadmap agree |
| `RateTypesCorrect`, `AdmissionsAreBounded`, `StuckByFaultOnly` | types of the limiter; what `Window` seconds can admit, with and without faults; a key nobody will expire takes a fault or the end of a process |
| `FallbackIsComplete` | the contract of the fallback is accepted, answers every gap once, in an order that respects its dependencies, for any number of items |
| `VersionsTypeCorrect`, `PublicationTakesEffect` | types of the versions; a published version is the only one in force |
| `IngestionTypesCorrect`, `ItemHasOneCarrier`, `CompletedRunsSucceeded`, `QuarantineIsReached` | types of the ingestion; one carrier per item; a completed run has only successes; failing sources reach quarantine |
| `ScoreIsFair` | for all finite rules and any two applicants: a better one is not scored lower, barred or not recommended for it; who wins all there is scores 100; nobody in the low band is recommended |
| `OwnersAreShown`, `ImprovementIsSafe` | as long as no two claims overlap, only the owner of a submission has seen its results; a better profile is not scored lower, for any two profiles of the schema |

**The API.** `CounterWithinLimit` is not inductive: what a pending charge will
write depends on what it read. `ApiInv` adds `ChargeBelowLimit` (the count a
request carries at `charge` is below the limit). `SnapshotPerAssessment` needs
`VersionReadExists`: then a version that does not clash is exactly the next one.

**Requests one at a time.** Besides programs that do not exist, what makes
`QuotaExact` and `FreeLimitRespected` fail is an overlap: the count and the
snapshot version are used after another session has committed. With `OneRequest`
(any two clients are the same) a read is still current when it is used,
`ReadsCurrent`, and `QuotaAccounted` says what the counter is made of: the
assessments created, the request that has paid and not created yet, and a rest
that is never negative and, with `ProgramsStored`, at most the number of
requests that have died. So the counter is exact when none died; and it is never
less than what was created, which keeps the free limit whatever the requests
name and even when some died. Neither hypothesis can go: `api_limit_race` is the
counterexample with two clients, `quota_charged` the one with a program that
does not exist.

**The pipeline.** `Inv` is `TypeOK`, `ApiInv` and five parts. `RowsExist`: a
message, a task or a request past the insert names rows that exist.
`JoblessIsPending`: an assessment without a job has never been touched by a
worker. `CompletedHasResult` and `CompletedJobHasResult` are the goals.
`FinisherHasResult` carries them over the gap between the two commits.
`UnsettledHasCarrier` is kept by following the carrier: the lemma
`WorkerKeepsDuty` shows that a worker lets go of its task only after settling the
job or publishing it again. `OneCarrierPerDispatch` needs none of it: `Lone` says
that no two places hold messages of one publication and that each was numbered
below the next one of its assessment, so that a new publication is akin to none;
a task publishes its message again in the step in which it lets go of it.
`ResultLedgerKept` maps every action to a step of the ledger or to a stutter. It
needs the rows of `RowsExist`, `JoblessIsPending` for the job that is opened,
`FinisherHasResult` for the one that is completed, and `ComputesRunning`: a task
that computes holds the status `running`, so that the UPDATE to `completed` is
really emitted with the result, whatever others have written in between.

**Billing.** `GrantsBacked` and `SettledStays` depend on what a handler has
loaded before others commit, so `HandlerInv` says of every place in a handler
what it may rely on: the user it has resolved is the subscription's payer, a
loaded subscription row is still stored, an event whose earlier failure was read
has a row. `InsertedOnce` is the unique index on events: of the handlers that
have found no row for an event only one has inserted it. Together they make
`SettledStays` inductive. `AccessKept` relies on closing and opening being one
commit.

`OneGrant`, `ProIsPaid` and `PaidHasPro` are about what overlapping handlers
break: each closes the entitlements it has listed, not those that are open when
it commits. With `OneHandler`, `HandlerCurrent` says that the list and the
subscription row a handler holds are those of the tables, and `AtMostOneGrant`,
`ProBacked` and `PaidBacked` follow commit by commit. `PaidHasPro` also needs
`OneSubEach`, one subscription for each user: a cancellation grants Free without
looking at the user's other subscriptions, and TLC finds the violation with one
handler as soon as a user has two. The run `limiter_and_billing` has one each.

**Roadmaps.** `OneOwner` (of the requests, messages and tasks no two name one
roadmap) is why nothing overlaps on a roadmap, in spite of two workers and
retries; it rests on `KeysInOrder` (primary keys are given in order) for the new
one. `Phases` then says at each place of the task which status and steps the
roadmap has, and `RowsWhole` that status and steps belong together when nobody
works on it. From these the refinement is a step-by-step mapping: every action
is a `Request`, a `Deliver`, a `Fail` or a stutter.

A job is shared by the roadmaps of its key, and what happens to the second is
known to go wrong (above). `JobInv` adds to `Inv` what is true of all,
`JobsNamed` (whatever names a roadmap with a job names the job of its key, and
no job row names a roadmap whose own request has not inserted one), and what is
true of a roadmap that is alone with its key, `JobsFollow`: the job is completed
after the roadmap and in dead letter before it, and a task between the two commits
of a failure has already written the job. `PendingHasCarrier` is inductive with
these.

**Rate limiter.** `AdmissionBounded` speaks of the last `Window` seconds only, and
is not inductive: what may still be admitted depends on when the window began.
`AdmissionsCounted` says of every shorter time that what it has admitted was paid
for, with what Redis has counted (`RedisShare`) and what the stores have
(`StoreShare`, and `Limit` for each store that ended). A share is what the
present window has counted, less the request that opened it when the time does
not reach back that far, plus at most `Limit - 1` of the window before when it
does: a second that passes shifts every age by one and every window towards its
end by one, and the shares keep pace. `FirstAlone` gives the other half: between
`INCR` and `EXPIRE` there is one request, and the key has no time to live yet.

**Contracts.** What the fallback does is arithmetic on positions, except for the
list of gaps. `InOrderEnumerates` shows that the elements of a finite set of
numbers, in order, name each of them once: the rank is an injection into
`1 .. Cardinality`, and an injection between finite sets of one size is onto. This
takes the place of an induction over the items.

**Score engine.** As points are sets, a better applicant's points contain the
other's (`BetterSums`), so their number is no smaller; the quotient and the
rounding keep the order (`PercentGrows`), and so do the thresholds. The proof
corrected the property: an applicant who meets every favourable group need not
score 100 when the only outcome worth points is a blocking one, whose delta never
counts.

**Versions.** `PublicationInForce` follows from `Consistent` (the exclusion
constraint after every step) and `ReadEarlier`: what a publication has listed
existed, and the time it read is not after now. The new version is open-ended, so
`OpenVersionAlone` shows that no other active one covers a later moment.

**Ingestion.** `OneCarrier`: an item waits to be published, is in one message or
with one process. `CarriedItems`: an item that has a carrier has not succeeded,
unless a finalizer failed. So an item that has succeeded stays so, and a verdict
"completed" remains true between the transaction that reached it and the one
that writes it: `RunsJudged`. `HealthKnown` says that for a source on which no
two processes overlapped, what the process has loaded is what is stored; then
the stored count is at least the real one, and the quarantine is reached.

**Profile match.** `ShownToOwner` is not inductive: a claim in progress will
show the results to its user. `OneAtATime` adds that without an overlap there is
one such claim, that the submission has no owner then and nobody has seen it,
and `NothingClaimedYet` that nothing is claimed before it is submitted.
`MatchInv` says that the stored submission and the second one carry the ranking
of their profiles, whoever has claimed in between. The rest is about the
algorithm alone: every term of `WeightedScore` grows with the profile
(`LanguageGrows` for each language mode, `FundsGrow` through the quotient and
the clamp), so does the sum (`ScoreGrows`), and rounding keeps the order
(`RankGrows`).

## What is only model-checked

All liveness properties, since the prover does not treat fairness:
`CommittedIsDispatched`, `JobsSettle`, `EventsSettle`, `RoadmapsSettle`,
`ItemsSettle`, `RunsSettle`, `RefusedIsAdmitted`.

Every safety property of a passing run is stated by a theorem: the invariants,
the action properties and the refinement. `QuotaExact` is false as it stands
(finding 5), and `OneGrant`, `ProIsPaid` and `PaidHasPro` are false of overlapping
requests; the theorems about them name the conditions. The six findings are TLC's
counterexamples. That
`RefusedIsAdmitted` ends in an admission is TLC's result, that its excuse takes a
fault is a theorem (`StuckByFaultOnly`).

## What is not modelled, and why

* Accounts and authentication: single transactions over one table, tokens of a
  library. Observability: nothing reads it. Migrations, seeds and scripts run
  once; the tables and constraints they create are in the modules that rely on
  them. The frontend is a client: its requests are the `Post`s of the models.
* Of the rules API only what changes which version is in force; the CRUD of
  countries, groups, conditions and outcomes is row by row. Silver sections and
  the file storage decide nothing. The LLM extraction is never published without
  review, and ends as `manual_review`.
* A plan that changes while an assessment is requested, and the end of the
  month: the limit is constant in `AssessmentsApi`. Which of two paid plans a
  price belongs to: the seeds have one.
* Soft and hard limits, retry delays and backoff have no duration: they are
  events that may happen at any moment.
* The broker delivers each message once, in any order; redelivery by the broker
  is not modelled. The same for the local setting with SQLite and eager Celery.
* The engine a worker process reuses across event loops (`asyncio.run` per call)
  appears only as the transient errors it may cause.
* Texts, recommendations, breakdown wording, trace ids and metrics.
