# Mendpoint: a verification development

Mendpoint is a TypeScript monorepo: an API, a worker and a web application over
one SQLite database. The API admits work and records it as rows; worker
processes claim the rows, analyse repositories, call models and GitHub, and
settle the rows. API and workers never talk to each other: everything they
agree on goes through the tables of `packages/db`, in `BEGIN IMMEDIATE`
transactions or single statements, with leases instead of locks because a
worker may die or stall anywhere. This directory models that core: the tables
that hold work, the protocols by which calls, lanes and people share them, and
what those protocols promise.

The modules are written from the source under `src/`; comments name the
functions, and `PROJECT.json` maps each definition to its lines.

## 1. Inventory

| Component | State | Operations | Interacts with | Module |
|---|---|---|---|---|
| Dependency-outage queue (`packages/db/src/dependency-outage-queue.ts`) | one row per operation: status, attempts, circuit, lease, generation, authority version, window; a history | `enqueue`, `claim`, `complete`, `fail`, `reactivateAuthority`, `reopen`, `run`, `runAdoptive` | GitHub client (adoptive deliveries), agent (model calls), operator route, policy | `DependencyOutageQueue` |
| Dependency-outage policy (`packages/ops/src/dependency-outage.ts`) | none | `classifyDependencyOutage` | called by the queue, which validates its decision | `OutagePolicy` |
| Job queue (`packages/db/src/index.ts`, `jobs`) | per job: status, attempts, due time, owner, lease, generation | `enqueueJob`, `enqueueOrResetJob`, `claimNextJob` (with `recoverExpiredJobs`), `renewJobLease`, `completeJob`, `failJob`, `rescheduleJob`, `retryJob`, `cancelJob` | API routes, worker lanes, handlers | `JobQueue` |
| Worker lanes (`apps/worker/src/cli.ts`) | the job in hand, its generation, a renewal timer | claim, run, settle or fail, wait | job queue, every handler | `JobQueue` |
| Delivery replay (`cli.ts`, `index.ts`, `packages/pipeline/src/delivery.ts`) | pull-request row: status, replay generation and count; retry and fallback jobs; usage hold | retry, schedule the fallback, settle, finalize dead-lettered fallbacks, operator's retry | job queue, usage, outage queue | `DeliveryReplay` |
| Model accounting and usage: usage (`packages/db/src/usage.ts`) | entitlements, ledger entries, finance authorizations | plan, reserve, settle, release, correct, verify an invoice | API admission, fan-out runs, replays | `UsageLedger`, `FanoutUsage` |
| Candidate delivery (`apps/worker/src/warden-candidate-delivery.ts`, `packages/db/src/warden-candidate-delivery.ts`) | delivery row: pending, bound to an intent, delivered, failed; draft on GitHub | approve, bind intent, authorize, begin, draft call, record, fail, outcome | job queue, GitHub, dispatch fence, missions | `CandidateDelivery` |
| Mission mutation dispatch (`packages/db/src/mission-mutation-dispatch.ts`, `-fence.ts`) | one dispatch row per remote mutation | authorize, begin, uncertain, settle, revoke | candidate delivery, CI updates, every writer of a Mission | `CandidateDelivery`, `CiReentry` |
| CI re-entry (`packages/db/src/warden-ci-reentry.ts`, three handlers of `apps/worker/src`) | cycle, repair run, update row, the jobs of the cycle, head of the branch | observe, wake, repair, review, pause, update, take over, reconcile, fail, expire | job queue, dispatch, GitHub, people | `CiReentry` |
| Model accounting and usage: model calls (`packages/db/src/warden-model-accounting.ts`, `apps/worker/src/mission-task-job-bridge.ts`) | reservations per call, cost entries per attempt | reserve, settle, settle unknown, look for lost attempts | agent run, job queue, routing ledger | `PaidAttempts` |
| Routing circuit breaker (`index.ts`, `apps/worker/src/warden-router.ts`) | decision and outcome rows, failures and state of an executor | route, record an outcome, trip, close | agent run, cost entries | `PaidAttempts` |
| Missions, tasks, handoffs, campaigns | life cycles with revisions | open, claim, settle, hand off | delivery, API | revisions, exceptions and one task in `CandidateDelivery` |
| Adaptive delivery | delivery rows | as candidate delivery | job queue | not modelled |
| Feed schedule and dispatch, webhook receipts (`index.ts`) | leases of windows and dispatches; receipts | claim, complete; deduplicate | worker, API | not modelled |
| Transformer control plane (`packages/platform`) | trials, promotions, release outbox | trial, promote, roll back, dispatch | API | not modelled |
| Analysis, code graphs, catalog, learning, web, SDK, evaluation | none that is shared, or data | pure computation and presentation | called by the handlers | not modelled |

What is hard here:

* **Interleavings.** Two lanes, two processes or two calls of one process work on
  the same row. Every handler awaits between reading a row and settling it, and
  some helpers read and write in separate statements.
* **Leases.** A worker may outlive its lease and settle late; two lanes may have
  the same name; the instant a lease is compared with was read earlier.
* **Crashes.** A process dies between a remote effect and its record, or under a
  claim whose credential then changes.
* **Uncertain effects.** A call times out although its effect was applied; the
  next attempt must reconcile and not repeat, and must not give up.
* **Fences.** A Mission must not change while a mutation it authorized may be
  happening on GitHub, and must be free again afterwards.
* **Money.** Holds, charges, credits and prices of model calls are sums over
  rows written by different parties in different transactions, before and after
  the work they pay for.
* **Budgets.** Attempts are consumed, refunded, reset and checked in different
  places, with different comparisons and exceptions.
* **Progress.** Orphaned claims, open circuits, capacity limits, blocked rows,
  waiting cycles and deferred retries must not strand work.

What makes each component correct: for the outage queue, an exclusive claim, an
accurate copy of the row while it is held, an accepted decision for every
failure, effects not repeated, and reclaimed orphans; for the job queue and its
lanes, an exclusive lease, consistent rows, a tenant's capacity, recovered
orphans; for a replay, no failure left silent, no hold forgotten, a paid run
backed by its own hold; for usage, a ledger that is an account and that its own
verifier accepts, and runs charged exactly when done; for a candidate delivery
and its fence, no draft against a Mission that moved on, no draft forgotten,
row, job and dispatch settled together; for a CI cycle, no push forgotten, a
waiting cycle with the job it waits for, pauses that stand; for paid attempts,
a budget that holds, evidence recorded once, and a breaker that counts what
happened.

## 2. Modules

| Module | What it is |
|---|---|
| `OutagePolicy` | `classifyDependencyOutage` and the queue's `validateFailureDecision` as pure operators |
| `FencedLease` | the abstract promise of a leased piece of work: a numbered lease, exclusive while it lives, final once done |
| `DependencyOutageQueue` | one ledger row and the calls of `run` and `runAdoptive` that share it; extends `OutagePolicy`, refines `FencedLease` |
| `JobQueue` | the jobs table, worker lanes, and candidate delivery as the one handler with an effect of its own, against leases with a clock |
| `DeliveryReplay` | one failed pull-request row, its two jobs and its usage hold, until its end |
| `QuotaAccount` | the abstract account of one tenant: what is free, held and charged of each entitlement |
| `UsageLedger` | the append-only usage ledger, every balance a sum over entries; implements `QuotaAccount` |
| `FanoutUsage` | `UsageLedger` with the fan-out runs that hold and settle its quota |
| `CandidateDelivery` | approved candidates of one Mission, the lanes that deliver them, the dispatch fence and the Mission's writers |
| `CiReentry` | one CI cycle of a delivered draft: observation, repair, update of the branch |
| `PaidAttempts` | reservations, routing outcomes, cost entries and breaker of one `agent.run` job over its attempts |
| `FiniteSums` | lemmas about `SumFunctionOnSet` of the community modules |
| `...Proofs` | the theorems about the module of that name; those about the ledger and its account are in `FanoutUsageProofs` |
| `MC...` | values for TLC; `CiReentry` and `PaidAttempts` need none |

Conventions shared by the modules. A step is cut where another party can get in
between: at each transaction, each statement outside one, and each await or
remote call. `JobQueue` and `DependencyOutageQueue` have a clock, because their
properties are about lapsed leases, due times and windows. In the others a
lease lapses by a step of its own: at any time, counted as a bounded event,
while its lane works (an overrun), and for free once no lane holds it. A crash
empties a lane and leaves the rows. History variables, which no guard reads, are named as such.

### DependencyOutageQueue

*State.* `row` is the row of `dependency_outage_operations`; every statement is
keyed by the full primary key, so operations do not interact and one row is
enough. `event` is the kind of the last history record. A worker is one call of
`run`: `pc` says where it is, `now` and `auth` what it was called with or read
at its start, `seen` what it read outside a transaction, `claim` the copy of
the row the claim returned, `result` what an await brought. `clock` and
`authority` are the wall clock and the current credential. `produced`,
`executions` and `uncertain` are history variables for the properties.

*Actions.* `Start`, `Enqueue`, `Get`, `Authorize`, `ClaimGranted`,
`ClaimRefused`, `Reconcile`, `SettleReconciliation`, `Execute`,
`SettleExecution` and `Replay` are the steps of a call; `OperatorReopen` is the
API's delivery retry; `ChangeAuthority`, `Crash` and `Tick` are the
environment. `Adoptive` chooses between `runAdoptive` (GitHub deliveries) and
`run` (model calls).

*Abstractions.* The hashed backoff is any member of `Delays`. Digests are
chosen, not computed. A malformed answer of `reconcile` ends the call like a
crash. The history's hash chain and the `tenantHealth` report are left out. A
lost fence in `complete`, and the failure settlement that then throws as well,
are one step without effect. Settlements read the clock in the step of their
transaction.

*Seen in the model.* Four states of a row that nobody can leave: blocked on
authority past its window (`reactivateAuthority` refuses it as expired,
`reopen` as not failed); and under a changed credential, unless it changes back,
blocked for reconciliation, queued in the reconcile-first mode, and claimed by a
call that died (`claim` refuses the mismatch, `dependency-outage-queue.ts:777`,
`reactivateAuthority` takes no claimed row, `:951`, and `run` asks it for a
blocked row only, `:1096`). Each is an explicit refusal of the code. The last is
the exemption `Stranded` of `LapsedLeaseIsReclaimed`, which TLC finds violated
without it. An effect that was applied but timed out, and a `reconcile` that
throws, are requeued without a mark, so the effect may be repeated;
`UncertainEffectNotRepeated` is about the errors that carry one (`completed`).

### JobQueue

*State.* `jobs` holds the rows, all of them, since a claim recovers every lapsed
job of its scope and counts a tenant's running ones. `delivery` is the status
of the row a delivery job carries out, `drafts` the deliveries whose draft
exists remotely. A lane has a place `pc`, the job and generation it `held`, the
`outcome` of its handler and `failJob`'s decision `retry`. `seen` is what
`enqueueOrResetJob` read when no transaction surrounds it.

*Actions.* `Claim` is the whole transaction of `claimNextJob`: recovery,
selection, grant. `Renew`, `Complete` and `Reschedule` are single statements.
`failJob` is two, `FailRead` and `FailWrite`, unless its caller opens a
transaction (`FailAtomically`). `enqueueOrResetJob` is one action inside a
transaction and two without (`ReadForReset`, `WriteReset`): in that window a
job can be revived and claimed, and the write then resets a running job. A
handler is reduced to what it comes to (`Work`), except that of a candidate
delivery, which binds its intent under the lease, calls GitHub, and settles job
and delivery row together. `RetryJob` and `CancelJob` are the API's. The
statement's instant was read up to `LockWait` before it got the write lock, so
a lease can be judged with a stale time.

*Abstractions.* Equally old due jobs are taken in any order. Lanes take every job
type. `settleExpiredWardenModelReservations`, which recovery calls, is in
`PaidAttempts`. `failed` is accepted by `retryJob` but never written by this
code. A handler older than the 7-day limit fails terminally, one of the
outcomes of `Work`. Delivery failures in the settling transaction itself end
like a crash.

*Seen in the model.* `rescheduleJob` compares the lane's name only, so a lane that
defers late puts back the job another lane of its name has taken over. A
delivery that fails before the call of its last attempt is given up together
with the draft an earlier, uncertain call may have left
(`UncertainEffectSurvives` allows it, and only to the lane that holds the job).

### DeliveryReplay

*State.* `DeliveryReplay` follows one `migration_prs` row: its status, replay
generation and number of full-pipeline replays, its delivery-only retry job,
the full-pipeline fallback job it admits when there is no artifact to replay,
the usage holds by admission key, and each lane with what it read before the
transaction that uses it.

*Actions.* The retry handler up to each of its ends (delivered, failed again,
deferred to an earlier fallback, fallback scheduled with reservation, count, job
and completion of the retry in one transaction), the fallback's run with its
settlement, the generic failure paths, recovery inside another lane's claim,
`finalizeDeadLetteredReplays` row by row (`Drain`), and the API's retry of a
row, retry and cancel of a job, with the release in its own transaction.

*Seen in the model.* A worker that dies during the remote call of a
delivery-only retry leaves the row `delivery_pending`, which no path retries,
although a comment says "never stranded" (`apps/worker/src/cli.ts:5170`). The
operator's retry of a dead-lettered fallback whose hold was released can never
settle. The operator's reopening writes the status without comparing it with
what it read. A row older than seven days is abandoned again after it was
reopened. A hold leaks when the draft was recorded before its fallback ended.
Each is an exemption by name in `SilenceExplained`, `HoldBacksReplay` or
`OpenHoldCarried`. With two jobs of one tenant at a time `SilenceExplained`
does not hold: a retry beside the running fallback adopts it and completes,
while the fallback's requeue found the retry live. Production lanes pass
`maxRunningPerTenant: 1` (`cli.ts:5696`); the one-shot `processJobsOnce()`
(`cli.ts:5913`) passes none. A fallback whose lane crashed after its verdict lets
the retry of the next generation, which the operator requested meanwhile, end as
skipped (`packages/pipeline/src/delivery.ts:370`) before it reaches the deferral; run
again, the fallback takes the row back into delivery, and when it is dead-lettered
its generation guard skips the stamp. This is the silent state the deferral's
comment (`cli.ts:4912`) says it prevents; the exemption `yielded` names it.

### UsageLedger, FanoutUsage, QuotaAccount

*State.* `plans`, `entries` and `auths` are the tables of `usage.ts`. No entry is
ever updated. Every balance, hold and invoice line is a sum over the sequence,
as in the SQL. `FanoutUsage` adds the job of each run and the releases a
process still owes.

*Actions.* One per operation of the ledger, each a transaction: plan, renewal,
`reserve`, `settle`, `release`, adjustment, credit over several entitlements in
their order, authorization. `FanoutUsage` composes them with the API's
admission (reserve, then enqueue, in two transactions), completion (settlement
inside the completing transaction), failure, recovery, cancel and retry.
Clients settle their own reservations only; a reused key is refused. The
refinement maps the ledger to `QuotaAccount`.

*Seen in the model.* `docs/USAGE_ENFORCEMENT.md` describes the settlement as
best-effort after completion; the code settles inside the completion, and a
failed settlement rolls it back. A run dead-lettered by lease expiry never has
its hold released, and an API crash between reservation and enqueue leaks one.

### CandidateDelivery

*State.* The Mission's revision and exceptions, its task, and per delivery the
authority it was approved under, its row, job, dispatch row, scope, the draft on
GitHub and the outcome of its pull request.

*Actions.* Approval, claim and recovery, and the handler cut at each transaction
and at the call: bind the intent, authorize (which takes over a dispatching row
of an earlier claim), begin, call, settle dispatch with authority, row and job;
the two failure paths; webhooks and the sweep that completes a merged task;
every writer of the Mission, refused while a dispatch is in flight and revoking
what is only authorized; retry and cancel by the operator.

*Abstractions and omissions.* Branch, commit and pull request are one effect.
Deliveries that are bound to no Mission, updates of an existing pull request,
campaign hints, the precursor link, the reverted outcome and learning admission
are left out. A webhook that reports the merge before the worker has recorded
the draft is dropped, as in the code. `createMissionTask`, also of another
repository's task, revokes every authorized dispatch that names no task.

### CiReentry

*State.* The cycle with its head, status and budget; the repair run; the three
kinds of job; the update and dispatch rows by expected head; the branch on
GitHub; `outrun`, a history variable.

*Actions.* The three handlers, cut at their awaits: observe; dispatch a repair;
update with intent, authority, begin, push, record, or read the branch to
resolve a push in doubt; taking over an update a lost lane left; failures with
`failWardenCiOperation`; review, pause and resume by people; webhooks; pushes
by others; retention.

*Abstractions and omissions.* The repair run's own job ends in one step. The
texts of a pause, evidence artifacts, a draft that is made ready, requests that
land after the worker crashed, and delegated cleanup are left out.

*Seen in the model.* A review that arrives while an observation is under way
wakes nothing. A foreign head is resolved as unknown again and again.
`failWardenCiOperation` throws for a repair whose cycle has moved on. A pause
can leave an update uncertain while its dispatch is only authorized. A push
that stalls can land after it was recorded as not applied (`outrun`), which
ADR 2026-08-26 accepts. Lease expiry dead-letters CI jobs without
`failWardenCiOperation`, and the retention sweep expires the approved candidate
of an update in doubt. An uncertain push or branch read whose error text speaks of
authorization is not retried (`cli.ts:1154-1172`): the job is dead-lettered, the
cycle paused and the update left in doubt. An intent that was armed before the
cycle was paused and never begun is still pushed when the operator retries its
job: `bindWardenCiUpdateIntent` returns a bound intent before it looks at the
cycle (`warden-ci-reentry.ts:608`), although
`docs/website-upload/draft-delivery.md:70` says that the final side effect requires
the current pause state. `PauseStands` therefore says that nothing is newly armed
for a paused cycle, and not that nothing is pushed.

### PaidAttempts

*State.* `calls` is the reservation table in insertion order, `ledger` the
routing outcome of each attempt, `costs` the Mission's cost entries, `breaker`
the executor's health; an attempt is named by the lease generation it runs
under. `bill` in a call is history: what the provider charged, which the program
may never learn.

*Actions.* `Claim`; `Recover` (settles the lapsed claim's calls, then recovers
the job); `Reconcile` (finds a lost paid attempt before this one, and refuses);
`Route` (or hands off under an open breaker); `Reserve`, `Send`, `Settle`; `End`; `Complete` and
`FailJob`, which apply the outcome in the settling transaction; and what goes
wrong between them.

*Abstractions and omissions.* Tokens, digests, settlements above the reservation
(`BillsAssumption`: the provider keeps to the output bound it is sent), the
choice among executors and the chain of fallback executions, jobs without a
Mission, the reuse of a call's result from the checkpoint journal, and the run
meter.

*Seen in the model.* `reconcilePriorPaidWardenAttempts` is there to import a paid
attempt whose outcome was lost, as a failed one with one cost entry. It accepts
only a decision whose action is `route` (`mission-task-job-bridge.ts:369`), and the
worker's router records `execute` (`warden-router.ts:484`), so in the program it
imports nothing: it throws `warden_paid_attempt_evidence_invalid`, which `failJob`
does not retry, in every later attempt. The lines after that check are therefore
not in the model, and `CostRecovered` fails (run `paid_lost`). What holds is that
nothing more is spent (`PaidAttemptsRecorded`) and that the job comes to rest with
people (`LostAttemptStopsJob`). A crash in the last attempt, or a cancel, leaves
paid work that no later attempt looks at, although `cli.ts:2258` says "Every
charged attempt is immutable accounting evidence". An attempt with an unanswered call
is recorded as measured, with the sum of what was reported (perhaps 0), because
`usage.measured` is `model.calls > 0` (`packages/agent/src/attempt-engine.ts:963`),
while `agent-run-meter.ts:7` says that a cost "is left null when unmeasured —
never fabricated". An open breaker dead-letters the job as a handoff to people.

## 3. What the runs show

| Run | Module | What happens in it | Properties |
|---|---|---|---|
| `outage_adoptive` | `DependencyOutageQueue` | two adoptive calls of one process, a changing credential or a crash, retries, the circuit, expiry, reopening | type; `DecisionAccepted`; refinement `ImplementsLease` |
| `outage_model` | `DependencyOutageQueue` | model calls whose reconcile knows nothing, a crash and a change of the credential, a fair clock and fair callers | `ExecutionsWithinBudget`; `LapsedLeaseIsReclaimed`; `UncertainEffectNotRepeated` |
| `jobs` | `JobQueue` | two lanes under one name, a candidate delivery and a job that defers, one slot, all failures, a crash, two requests | type; `OneLease`; `RowConsistent`; `TenantCapacity`; `UncertainEffectSurvives`; `OrphanRecovered` |
| `replay` | `DeliveryReplay` | one row from its failed delivery to its end, two lanes, a request, a crash, a stall | type; `SilenceExplained`; `OpenHoldCarried`; `HoldBacksReplay`; `FailureSurfaces` |
| `usage` | `FanoutUsage` | two clients and a run share two entitlements, finance corrects an invoice twice | type; `LedgerReconciles`; `ChargedIffDone`; refinement `ImplementsAccount`; no deadlock |
| `dispatch` | `CandidateDelivery` | two candidates of one change, two lanes, two bounded events | type; `LiveUnderAuthority`; `DraftAccountedFor`; `SettledTogether`; `EffectUnderAuthority`; `FenceLiftsOnce`; `MergedTaskCompletesOnce` |
| `ci` | `CiReentry` | two lanes, two repairs, two bounded events | type; `HeadAccounted`; `InDoubtTogether`; `WaitsForItsJob`; `PauseStands`; `UpdateResolved` |
| `paid` | `PaidAttempts` | two lanes, two attempts of two calls, two bounded events | type; `ActiveIsHeld`; `SpendWithinBudget`; `PaidAttemptsRecorded`; `BreakerCounts`; `LostAttemptStopsJob` |

`PROJECT.json` says in a sentence what each shows. In `jobs` both lanes have one
name on purpose, so that the generation alone must tell them apart: a lane is
named after its process, and two processes started with the same
`MENDPOINT_WORKER_ID` have lanes of the same names.

Four runs show where the code and its documentation part:

* `jobs_outage_budget` (`OutageOutlivesBudget`): the generic failure path drops
  `retryPastMaxAttempts`, so a long GitHub outage dead-letters
  `pipeline.delivery-retry` jobs within hours although the classifier promises
  about seven days.
* `usage_retry` (`RetriedRunHolds`): a run retried after its hold was released
  executes without a hold, and its completion can only roll back.
* `dispatch_frozen` (`FenceCanLift`): a call to GitHub that is refused for good
  leaves its dispatch uncertain, and every writer of the Mission is refused from
  then on.
* `paid_lost` (`CostRecovered`): a paid attempt whose outcome was lost is never
  imported, and makes every later attempt of its job fail before it is routed. One
  lane, one call and one crash show it.

### Bounds

Two workers, lanes or callers are enough for every conflict here: a row has one
holder, and what matters is one late party and one current one.

| Run | Bounds | Why they are enough | Distinct states |
|---|---|---|---|
| `outage_adoptive` | two generations, time 3, window 2, delays 0 and 1, budget 2, two credentials, two mishaps (crashes and changes of the credential) | a grant, a lapse and a takeover; due times before, at and after lease ends; the last attempt; a change to the other credential and back | 2,168,460 |
| `outage_model` | as above, three generations, time 2 | a third holder after two crashes; a crash and a change of the credential in either order; the window closes at time 2. Starts under one of the two credentials, which are interchangeable | 511,215 |
| `jobs` | time 2, lease 1, two generations, two attempts, capacity 1, lock wait 1, two requests, one crash | every lease can lapse and be taken over; first and last attempt; judged with a stale instant | 243,296 |
| `replay` | one replay, one attempt, four claims, one request, one crash, one stall, deliveries that age | the cap is reached, a fallback of an earlier generation is met, every lane can be late once | 476,090 |
| `usage` | amounts and quotas of 1, corrections 1, -1, -2, two keys each, two entitlements, six entries | a credit of 2 must span two entitlements of 1; two reservations cannot both fit | 291,108 |
| `dispatch` | two attempts, two events | a retry after an answer that was lost, with a writer, crash or overrun between | 673,631 |
| `ci` | two repairs, two attempts, two events | an update of the head an earlier one made; the budget is exhausted | 240,200 |
| `paid` | two calls and two attempts, budget 3, calls reserved at 2 and billed at 1, threshold 1, two events | a third call fits or not depending on how the first two were settled; the breaker trips, cools down and is reset | 405,189 |

Because generations, requests and entries are bounded a behaviour may stop, so
deadlock is checked in `usage` only.
Symmetry is used where only safety is checked (`outage_adoptive`, `usage`).
Larger instances were run once by hand: `ci` with three events, its safety
properties only (1,146,130 states); the invariant of `DeliveryReplayProofs` with capacity 2, two replays
and two requests (744,280 states); and its part `Silence` with capacity 1 and two
attempts, once with one lane and two crashes (92,734 states), once with two
lanes, a crash and a stall and deliveries that do not age (3,378,528 states).

### Fairness

Each temporal property is checked under the fairness the code's scheduling
gives, stated in the module's `FairSpec`:

* outage queue: the clock advances, and calls are made again and proceed, as the
  job behind them is run again until it settles;
* job queue: the clock advances, and the lanes of `FairLanes` claim when idle
  (`runJobLane` loops until shutdown, with a bounded wait) and see their handlers
  return. The code puts no limit on a job's duration, so this is asked of one
  lane only: the other may hang for ever, renewing its lease or not, and crash;
* delivery replay: every lane drains and works, a lease nobody renews ends, a
  request the API has begun ends;
* candidate delivery, CI, paid attempts: some lane works or looks for work, and a
  lease nobody renews ends; for deliveries also the sweep of merged outcomes,
  which the worker's maintenance repeats (`cli.ts:1972`).

No fairness is asked of people, writers, webhooks, crashes or overruns.

## 4. What is proved

For every set of workers, lanes, jobs, tenants and deliveries, and every value of
the numeric constants the assumptions admit, TLAPS checks the following.

`DependencyOutageQueueProofs`: `Typing`; `OneActiveClaimTheorem` and
`SnapshotTheorem`, from `IInv == TypeOK /\ Fences /\ RowSound` (no worker's
generation is ahead of the row's, two working calls never share one, and a
working call's copy equals the row while the row is claimed under its
generation); `DecisionsAcceptedTheorem`, a case analysis of the policy on the
copy that equals the row; `NowPastTheorem` and `LeaseRefinement`: no call works
with an instant of the future, hence a claim judged with a stale instant does not
take over a live lease, and every step is a step of `FencedLease` or a stutter;
`OwnAuthorityTheorem`, `CompletionTheorem` and `PermanentTheorem`: a claim is
worked under its caller's own credential, a completed row has an effect behind
it, and a permanent failure is left only for the record of a late effect.
Two theorems are about `run` (`~Adoptive`) and about what its caller's `reconcile`
answers; the one caller in `src/`, the agent, answers `missing` always
(`packages/agent/src/agent.ts:3344`), which both hypotheses allow.
`BudgetTheorem`, where no answer is `resume`: the effect is executed within the
retry budget, because executions and the calls that may still execute
(`Promised`) are together at most the attempts of the row. `UncertainTheorem`, where every answer is
`missing` or `completed`: an uncertain effect stays marked on the row until the
row is final (`Marked`), and a call under that mark does not execute.

`JobQueueProofs`: `Typing`; `OneLeaseTheorem`, `RowsTheorem` and
`DecisionTheorem` from one invariant, `Leased`, whose parts need each other: a
claim's generation is one its job has had and no two lanes share one, which
rests on rows whose generations only grow; a queued ordinary job is below its
attempts only if `failJob` decides rightly; and its decision is right because a
row still running under a lane's generation has not stopped since. From the same
invariant `CapacityTheorem` (recovery and grant are one transaction; it assumes
a finite table, `FiniteAssumption`) and `EffectTheorem`: a delivery whose draft may
exist is dead-lettered only by the lane that holds its claim, after a terminal
failure or after a transient one in the last attempt. With `Definite`, a delivery
never fails as an outage, and an uncertain failure is always retried. The failure may be
one before the call of that attempt, so a draft that an earlier, uncertain call
left can be given up with its delivery; nobody else, and no uncertain outcome,
can do that.

`DeliveryReplayProofs`: `Typing`, `HoldTheorem`, `CarriedTheorem` and
`DraftTheorem`. The invariant says that a lane which keeps its fence sees job
and row as it read them, although both reads lie before its transaction; that a
used admission key is of an earlier generation or counted, so the next one is
unused; and that every open hold belongs to the one live fallback or to a named
leak. Only a fenced retry lane admits, and generations make it alone.

`SilenceTheorem`, in the same module, assumes `Capacity = 1`, what the lanes pass
(`cli.ts:5696`); with 2 it is false. Its invariant `Silence` says that whoever
ends its job leaves the row to somebody: an unexplained failure has a live retry
or a fallback of its own generation (`Answered`); a fallback of an earlier
generation, which may still write the row and will stamp nothing, has a retry
behind it or a row it can no longer reopen (`OutdatedBacked`); and a lane about
to complete, settle or admit has already seen to it (`LaneAnswers`), which is
what one job at a time makes true. It holds until one of the named
interleavings happens. Most steps are `Calm`: they move no job and no row
towards silence, and one lemma serves them all.

`FanoutUsageProofs`: `Typing`; `Refinement`, that the ledger with its runs
implements `QuotaAccount`; `AccountsStayWithin`, of the account alone, and
`NeverPastQuota`, which carries it over to the ledger; `Reconciliation`, that the
ledger's own verifier accepts it; and `Charging`. The account has one number per
balance, the ledger a sum over a sequence of entries, so the invariant says what
the sums are made of. A hold is closed once and with all it held (`ClosedOnce`,
`EntriesSound`), so what a plan holds is what its open reservations hold
(`HoldsAccounted`), and closing one frees what it reserved. No plan is past its
quota (`WithinQuota`) and no line of an invoice below zero (`LinesCovered`), so a
credit takes from each plan no more than it charged. An authorization that was
spent explains its entries as of the moment it was spent (`AuthsMatched`), which
later entries cannot change. `RunsSound` gives each run a hold no client and no
other run closes, charged exactly if the run is done. Of the portions of a credit,
which the code finds in a loop, the proof needs and shows that they are of
different plans and each within what the invoice charged to its plan
(`SpreadPortions`), and that entries made later do not change them
(`PortionsKept`).

`CandidateDeliveryProofs`: `TypesHold`, `FencedMissionStands`,
`NoDraftForgotten`, `FinishedTogether`, `CreatesUnderAuthority`,
`ChangeOwnedOnce` and `LanesRevokeNothing`. The invariant adds, to the properties, that a lane
in a call owns the row its dispatch is armed for, that a delivery in doubt keeps
its dispatch, and that a dispatch row with authority was approved under the
Mission and task as they stand.

`CiReentryProofs`: `Typing`, `HeadTheorem`, `DoubtTheorem`, `ServiceTheorem` and
`PauseTheorem`. A head is a number, so "the branch is where the cycle believes"
is arithmetic; the invariant says who may be pushing to which head, that an
update and its dispatch are in doubt together, and which job serves each status.
`PauseTheorem` goes by what can put an update in doubt: only a lane's `Authorize`,
which looks at the cycle unless the intent was bound already (`PausedArmsNothing`).

`PaidAttemptsProofs`: `Typing`, `ActiveTheorem`, `SpendTheorem`,
`RecordedTheorem` and `BreakerTheorem`. None is inductive. `Base` gives every
lane an attempt of its own; `Calling` says that only a lane in a call has one
open, hence a completed job has none (`ActiveIsHeld`) and a settlement never
meets a call somebody else settled; `Priced` says what a call is charged, by how
it ended, hence bills are covered and the sum committed never rises but by a
reservation that fits; `Routed` says that the row of a lane at work waits for
its outcome, hence outcomes are written once, with one entry (`EntryEach`), and
only at the newest generation, which is why the breaker's count is the count of
attempts; `Accounted` says that every paid attempt before a lane at work, before
the last call or in a finished job has its outcome. Each
lemma about a conjunct goes by the kinds of a step (`CallSteps`, `LedgerSteps`,
`LaneSteps`, `JobSteps`, `EndSteps`), which are proved once from the actions.

`FiniteSums`: what `SumFunctionOnSet` does when its indices or summands change.
The provers cannot instantiate induction theorems that take an operator as a
parameter; `SetInduction` and `SubsetInduction` are about a set instead, from
the least element of a non-empty set of numbers, which `WFMin` and
`NatLessThanWellFounded` give. The proofs of paid attempts and of usage rest on it.

Every conjunct of an inductive invariant was checked by TLC before its proof. The
assumptions used are those the modules declare. `ClaimSnapshotCurrent`, `ClaimUnderOwnAuthority`,
`OneActiveClaim`, `CompletedHasEffect`, `PermanentFailureStands`,
`FailDecisionCurrent`, `DraftStands`, `ScopeOwnedOnce` and the like are proved
and, being proved, in no run.

Only model-checked: the liveness properties, since fairness and `ENABLED` are out
of the prover's reach (`LapsedLeaseIsReclaimed`, `OrphanRecovered`,
`FailureSurfaces`, `FenceLiftsOnce`, `MergedTaskCompletesOnce`, `UpdateResolved`,
`LostAttemptStopsJob`). Every invariant and every action property of a passing run is
a theorem, `ExecutionsWithinBudget`, `UncertainEffectNotRepeated` and
`SilenceExplained` under the hypotheses above. Outside them nothing is claimed:
a `reconcile` that answers `resume` lets a call execute again after the claim it
was counted under, `runAdoptive` executes a completed operation again by design,
and an operator's reopening gives it a new budget.

## 5. Plan

Done, in this order: outage queue and policy; job queue; delivery replay; usage;
candidate delivery with its fence; CI re-entry; paid attempts and the breaker.
Next:

1. Adaptive delivery, the second delivery of the shape of `CandidateDelivery`.
2. Feed schedule and dispatch, clients of `FencedLease`, and the deduplication of
   webhooks.
3. Handoffs, evidence and campaigns around a Mission; the release outbox of the
   transformer control plane.
4. Proofs: the job queue's rows as instances of `FencedLease`; the named
   interleavings of a replay, that each happens only by the steps it is named after.

## 6. Not modelled

The reason for each component is in `PROJECT.json`: analysis, code graphs, catalog and
learning compute over large data and keep no state between calls; the web
application, SDK and evaluation tools present or measure; secrets, audit chain
and organization memory write within one transaction. What section 5 lists next
is not modelled yet. Within the modelled components, section 2 names what is
left out, and the hazards in `PROJECT.json` without a property say why they have
none.
