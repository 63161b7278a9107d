# A verification of ChampsFlow in TLA+

ChampsFlow sells audits of how a brand appears in the answers of language models, and
content to improve it. It is a Next.js web application, a Hono API (`apps/api`), a worker
process of BullMQ queues (`apps/worker`), PostgreSQL with row-level security
(`packages/db`), Redis, and calls to social platforms, LLM providers, Stripe and a mail
service. This directory models the parts of it where processes meet over shared state. The
modules are translated from the source; `PROJECT.json` maps each definition to the lines it
stands for.

Five parts are modelled and model-checked: the publishing of drafts (`PublishPipeline`),
the ledger of credits (`CreditLedger`), the audit of a brand (`AuditRun`), the agent graphs
(`GraphRunner`, and `AgentGraph`, the specification it implements), and what a subscription
does to plan and mails (`StripeWebhooks`, composed with `Nurture`). Each of the five has
theorems that hold for every size: all of the safety properties that the passing runs
check, one of them under two hypotheses that section 4 names.

## 1. Inventory

How the parts meet: the API and the worker share PostgreSQL rows and BullMQ queues, never
memory. Every `db.query` is a transaction of its own, on both sides, so two requests or a
request and a worker interleave between any two queries of a handler. BullMQ delivers a
job at least once. Nothing is rolled back when a handler dies half way.

| Part | State | Operations | What is hard | What makes it correct |
|---|---|---|---|---|
| Schedules API (`routes/schedules.ts`) | `publish_jobs`, `drafts.status`, the queue `publish` | schedule, cancel | four steps per job between database and queue; check, then update | a cancelled job stays unpublished; row and queue agree in the end |
| Publish worker (`jobs/publish.ts`) | the row, the tenant's semaphore keys in Redis, BullMQ's lock | `processPublishJob`, one run per delivery | at-least-once delivery, crash between the post and its record, retries counted twice, lock and key expiry | no duplicate post but where an answer or a record was lost; keys come back; every job settles |
| Drafts API (`routes/drafts.ts`) | `drafts` | generate, approve, regenerate, report | approving what another request is rewriting | nobody publishes a text that was not looked at |
| Social accounts (`routes/social-accounts.ts`) | `social_accounts` | connect, disconnect | disconnecting while a job runs | no post on a revoked account that a run sees revoked |
| Platform adapters (`integrations/*.ts`) | the platform's posts | publish with retries | an answer lost after the post was kept | bounded repetition |
| Data-subject requests (`routes/dsr.ts`) | every table of a person | intake, export, erase | the cascade meets requests and runs in progress | an erased row is never written back |
| Credit ledger (`lib/credits.ts`) | `credit_ledger`, insert only | grant, expire, residual, debit, purchase | lazy monthly grant by whoever comes first; every writer may be repeated | one row per reference; allowance spendable; debits match what was made |
| Hosted content (`routes/audits.ts`, `lib/hosted-content.ts`) | `content_piece` | generate a draft on the platform's key | gate, minutes of generation, store, debit | charged if and only if stored; one draft per key |
| Stripe billing (`routes/billing.ts`) | `billing_subscriptions`, `tenants.plan_tier`, `credit_ledger`, Redis marker of an event | checkout, webhook | events arrive twice and out of order; row and plan are two queries; marker set after the handler | repetition changes nothing, and the plan is the one that is paid for |
| Audit run and queue (`jobs/audit-run.ts`, `shared/audit-queue.ts`, `coverage-retry.ts`, `routes/audits.ts`) | `geo_audit`, `geo_score`, the `coverage_retry` of a breakdown, the queue `audit-runs` | request, run, retry, coverage retry, debit | retries of a long job with several effects; row and queue are two systems | charged if and only if delivered; every row decided; a repeat announced is a repeat queued |
| Monitor reconcile (`jobs/monitor-reconcile.ts`) | `brands.monitoring_enabled`, repeatable jobs | reconcile, toggle | acts on a list it read before | flag and schedule agree |
| Nurture mails (`jobs/nurture-send.ts`, `routes/nurture.ts`) | `nurture_enrollment`, `nurture_send_log` | enroll, poll, send, advance, chain, suppress, unsubscribe | crash between mail, log row and cursor; overlapping polls; a purchase in the middle of one | a step is sent once and none left out; none after suppression |
| Agent graphs (`lib/graph-runner.ts`, `jobs/graph-tick.ts`, `routes/telegram.ts`) | `agent_run`, `agent_step`, a circuit counter in Redis | start, tick, retry, ask, tap, publish, act | a step whose effect happened and whose row was not written; a tap against a tick; nobody answers | nothing published without a yes, nothing twice unasked, every run ends |
| Suppression and campaigns (`lib/followup.ts`, `lib/recycle.ts`, `webhooks-smartlead.ts`) | prospects | scan, send, unsubscribe | a service outside answers by webhook | nobody unsubscribed is written to |
| Rate limits (`lib/*-rate-limit.ts`) | a counter per window | hit | the edge of a window | limit per window |
| Plan tasks, landing pages, retention, drift jobs | a row each | status changes, periodic jobs | little concurrency | legal transitions |
| Audit engine (`packages/llm`) | none | scoring | floating point | not a state machine |
| Other API routes, web application | one row each | create, read, update, delete | none of their own | row-level security |

`PROJECT.json` lists the same parts with their files and status, and under `hazards` what
is hard to test in each, line by line.

## 2. Modules

| Module | What it is |
|---|---|
| `PublishPipeline` | drafts, jobs, queue, worker runs, API requests and their faults, with the properties |
| `MCPublishPipeline` | symmetry sets for TLC |
| `PublishPipelineTypes` | proof that `TypeOK` holds |
| `PublishPipelineProofs` | proof of the two properties about posts and records |
| `PublishRunProofs` | proofs about one run of the worker: what is kept from the platforms, the semaphore keys, the agreement of row and queue, what a duplicate costs |
| `CreditLedger`, `MCCreditLedger`, `CreditLedgerProofs` | the same for the ledger |
| `GraphDefinition` | a graph, and what the registry's validation admits; used by the next two |
| `AgentGraph`, `AgentGraphProofs` | what a run of a graph promises, and the proof that it publishes nothing unapproved |
| `GraphRunner`, `MCGraphRunner` | ticks, the founder, the clock and crashes, over the two tables; the graph TLC checks it on |
| `GraphRunnerProofs` | proof that `GraphRunner` implements `AgentGraph`, and of its other safety properties |
| `AuditRun`, `MCAuditRun` | request, schedule, worker and queue of an audit |
| `AuditRunProofs` | proof of its types and its six other safety properties |
| `Nurture` | one contact's mail sequences under overlapping polls |
| `StripeWebhooks`, `MCStripeWebhooks` | composes `Nurture` with the events of one subscription |
| `StripeWebhooksProofs` | proof of the properties of the mails, of the types of both and of `SettledPlanIsRight` |

### PublishPipeline

*State.* `draftStatus` and `body` are the columns of `drafts`, a text being the number of
times it was regenerated. `revoked` and `expired` are what the worker asks of
`social_accounts`. `status`, `attemptCount` and `target` are a row of `publish_jobs`;
`"none"` is an id not in use yet, `"deleted"` a row that went with its draft. `bull`,
`lock`, `bullAttempts` and `stalls` are what BullMQ knows of a job. `slot` is
`semaphore:publish:<tenant>:<n>` in Redis. `worker[w]` and `req[r]` are the local state of
a run of `processPublishJob` and of an API request: where it stands and what it has read.
The last group (`posts` .. `sentTexts`) is history: what the properties speak of.

*Actions.* One per query, queue call or Redis call, named for it. A request goes
`ScheduleCheckDraft`, `ScheduleCheckAccounts`, then per account `ScheduleInsertJob`,
`ScheduleEnqueue`, `ScheduleMarkQueued`, and last `ScheduleMarkDraft`; or `CancelCheck`,
`CancelUpdate`, `CancelRemove`, `CancelCount`, `CancelRevert`; or `ApproveCheck`,
`ApproveUpdate`; or `RegenerateFetch`, `RegenerateUpdate`; or is `DisconnectAccount` or
`EraseSubject` in one transaction. A run goes `Take`, `FetchJob` (the idempotency guard),
`AcquireSlot` (one key after the other), `MarkProcessing`, `FetchDraft`, `FetchAccount`
(with the guards on the account and the text), `Dispatch`, `MarkDone`, `MarkPublished`,
`AuditLog`; from the catch block `CatchRead`, `CatchWrite`; from the finally block
`ReleaseGet`, `ReleaseDel`; and `Finish` tells BullMQ.

*Faults.* `CallFails` (any query or Redis call of a run, with the effect its place in
try, catch and finally gives it), `Crash`, `StalledCheck` on a live run (a lock it could
not renew), `TokenExpires`, `SlotExpires`, `RequestFails`, an answer of the platform that
is lost (in `Dispatch`) and a failed `remove` (in `CancelRemove`). Each costs one of
`MaxFaults`.

*Abstractions.* One tenant: rows, keys and drafts of two tenants never meet. The delay of
a scheduled job and the backoff of a retry are "some time later". `Dispatch` is one call
with the adapter's own retries inside, up to four requests of which each may leave a post
no answer reported; nothing else reads the platform. `DisconnectAccount`
is one action since only its UPDATE of the account is visible to others; the revocation at
the platform before it changes nothing here. `EraseSubject` takes every draft and account,
as one owner has them all in the model. `audit_log`, metrics and rate limits change
nothing the properties speak of.

### CreditLedger

*State.* `ledger` is the set of rows of one tenant, with the kind (`reason`), the reference
its unique index looks at (an audit, a session, a key or a month) and the delta; `pieces`
the drafts of `content_piece`, with `of` the key a draft was asked for and `key` what the
column holds; `req` the requests in flight; `period` the month.

*Actions.* `ensureMonthlyGrant` is `GrantCheck`, `SumLedger`, `ExpireInsert`,
`GrantInsert`; `GET /credits` puts `ReadCredits` before and `ResidualInsert` after it;
`POST /brands/:id/content` is `CreateContent`, the grant, `CreditGate`, `Generate`,
`StorePiece`, `DebitForContentDraft`. `DebitForAudit` and `CreditPack` are the worker's
and the webhook's statements and may happen any number of times for the same audit or
session; the function of the same purpose in `lib/credits.ts` has no caller.
`Insert` is `INSERT ... ON CONFLICT DO NOTHING` under the two unique indexes.

*Abstractions.* The price list is five constants. The fact check, the provider and its
retries are one choice in `Generate`. A tenant is on the free tier in `ReadCredits`, which
has all the writes of the others and the residual.

### GraphRunner

*State.* `run[r]` is `agent_run.status`; `steps[r][n]` the rows of `agent_step` of a node,
oldest first, so that a step id is `<<run, node, position>>`; `failures` the circuit
counter in Redis. `tick` is the local state of `runGraphTick` and `advanceRun`: the runs
still to come, the run at hand, the snapshot of steps it was loaded with and what the tick
has since done to it in memory, and where it stands. `inflight` are the founder's taps
between their check and their write. History: posts and effects that happened, the step
ids a yes was written to.

*Actions.* They follow the sections of `advanceRun`. `TickBegin` chooses the runs and fails
the starved ones; `LoadRun` reads the snapshot; `Recover`, `MaintainHarvest`,
`MaintainAsk`, `MaintainParked` keep what is under way; `Decline`, `YesToRetry`, `MayRetry`,
`Forget`, `OpenGate`, `ParkGate` are the retry section; `FrontierDone`, `SkipStraggler`,
`FailRun` fail a run fast; then ready nodes start (`RunTask`, `Park`, `CheckChannel`,
`RefuseContent`, `Send`, `RecordAccepted`, `RecordUnsent`, `Act`, `RecordActed`) and
`CloseRun` ends the run. The founder is `TapCheck` and `TapWrite`. The clock is `Age` (a
step passes the timeout of its status), `NextDay` and `CircuitExpires`. Faults are
`Interrupted` (the tick dies, or a call throws) and, in `Send`, an error answer to a post
that was accepted or refused, and no answer.

*Abstractions.* One channel. Five node kinds: `task` stands for task, debate, synthesis and
snapshot, `harvest` for wait and harvest, `effect` for store, spawn, verdict and report. A
timeout is a flag that is set between ticks. The starvation check's two statements are one.
A tick looks at all the parked runs (`MAX_PARKED_RECHECKS_PER_TICK` is left out).

### AgentGraph

Four variables: the status of a run, what has finished, been approved and been posted.
Nodes finish in the order of the graph, an approval only by a yes, a publish only by its
post. The refinement mapping reads `finished` from the succeeded rows, `approved` from the
yeses and `posted` from the posts.

### AuditRun

*State.* `audit`, `scores`, `retry`, `charged` are the row, its scores, the state of its
repeat and its ledger row; `job` what BullMQ knows of a job, named by what it is for, since
`queue.add` under a known id is ignored; `worker` and `req` the local states.

*Actions.* A job comes from `CronFires`, from a request (`RequestChecks`, `RequestWindow`,
`RequestMonth`, `RequestInserts`, `RequestEnqueues`, `RequestMarks`) or from a run that
repeats its audit; a super_admin's request passes by the two quotas. A run is `Take`,
`InsertRow` and `UpdateData` (a scheduled job makes its own row and writes its id into the
job), `MarkRunning`, `CheckCap`, `CheckPanel`, `Probe`, `Refuse`, `WriteScore`, `Complete`,
`Charge`, `Plan`, `EnqueueRepeat`, `RecordRepeat`, `MarkUnrun`; `MarkFailed` is the catch
block and `Finish` tells BullMQ. Faults: `CallFails`, `Crash`, `StalledCheck`,
`RequestDies`.

*Abstractions.* One brand on the weekly schedule, in one calendar month and one window of the
manual limit, so the backstop of a day, which counts over all brands, adds nothing. What
providers answer is a choice: the panel full or not, ready or not. `UpdateData` lets the
process see either the old or the new data of its job afterwards (section 5, a). A live run
does not lose its lock.

### Nurture and StripeWebhooks

*State.* `enrollment` has the row of each of the two sequences a kit buyer goes through,
`sendLog` the log rows, `planTier` the plan of the contact's tenant, `poll[p]` one invocation
of `processNurtureJobs`: the rows its SELECT returned and are still to come, with the step
read then, the one at hand, what it has read of the plan, and where it stands.
`StripeWebhooks` adds `story` (what happened at Stripe), `acked`, the Redis `marker`, the
`subscription` row and `delivery[d]`, one request of the webhook.

*Actions.* A poll goes `FetchDue`, and per row `CheckLog`, `Recheck`, `Send`, `InsertLog`,
`Advance` and, after the last mail of the first sequence, `ChainCheckPlan`, `ChainInsert`.
`Unsubscribe` is the link in a mail. A request goes `CheckMarker`, `WriteRow`, `SyncTier`,
for a purchase `SuppressOnConversion`, and `Acknowledge`. Faults: `PollFails`, a refused or
unanswered mail (`Send`), `DeliveryFails`, a swallowed failure of the suppression, of the
marker or of the answer, and a second delivery of what is under way or answered.

*Abstractions.* The contact has an account, and one subscription, bought once. Two
sequences, the ones that are chained; `DelayPasses` is longer than a poll, for the shortest
delay is a day. `WriteRow` stands for three statements of one shape, of which the refund's
goes on to the plan only where it changed a row.

### Two constants that say what the schema is

`ExpiryColumn` and `GrantsAsPlatform` are FALSE in the repository as it stands (findings 1
and 5 below): publishing fails in a SELECT, and a hosted draft in its grant. With them
FALSE most of the two components is unreachable. The passing runs set them TRUE, to check
the code that lies behind; the runs of the findings set them FALSE. The theorems hold for
both values.

## 3. Runs

`tlc -workers 2 -config X.cfg M`, M being the `MC` module of the component. Deadlock is not
an error in any of them: requests, jobs, events and faults are bounded, and when they are
used up the system may stop.

| Run | Instance | Checks |
|---|---|---|
| `publish_redelivery` | 1 draft, account, job, key and request, 2 workers, 2 attempts, 2 faults, fairness | `TypeOK`, `NoUnexplainedDuplicate`, `RecordedIsSettled`, `AcceptedJobIsSettled`, `ProcessingIsTransient` |
| `publish_requests` | 1 draft, account, job and key, 2 workers, 2 requests, 3 attempts, 1 fault | `DuplicatesCostFaults`, `NoLeakReachesPlatform`, `QueueAndRowSettleTogether`, `WithdrawnStaysWithdrawn` |
| `publish_parallel` | 3 accounts, jobs and workers, 2 keys, 1 request, 1 attempt, no fault | `NoSlotLeaks`, `RunsHoldTheirKeys` |
| `credits` | 2 requests, keys and months, 1 audit, session and fault | `TypeOK`, `OneRowPerReference`, `ChargedDraftExists`, `HostedDraftIsCharged`, `GateBoundsOverdraft` |
| `graph_runs` | 1 run of a graph of 6 nodes, 2 taps, budget, cap, threshold and faults 1, fairness | `TypeOK`, `NothingPublishedWithoutApproval`, `NoUnapprovedDuplicate`, `EffectsAtMostOnce`, `AttemptsWithinBudget`, `ClosedRunAsksNothing`, `SucceededRunPublished`, `UnracedYesStands`, `RunEnds`, `ImplementsAgentGraph` |
| `audit_runs` | 5 audit rows, 1 firing, request and worker, 2 attempts, 1 repeat, 2 faults, fairness | `TypeOK`, `DeliveredIsCharged`, `ScoresExplained`, `ScheduledIsQueued`, `RecoveredIsMeasured`, `OneRowPerJob`, `CompleteStands`, `RowsAreDecided` |
| `conversions` | sequences of 2 and 1 mails, 2 polls and 2 webhook requests, at most 2 of the 4 at a time, 2 events, 1 fault | `TypeOK`, `MailsExplained`, `CursorFollowsLog`, `SettledPlanIsRight`, `LadderStopsAtPurchase`, `SuppressedStaysSilent` |
| `approval_toctou`, `schema_drift`, `month_change_race`, `second_draft`, `hosted_refused` | the smallest that shows it | one statement of the repository each, violated (section 5) |

*What the passing runs show.* A job has at most one post, and besides each post that
was not acknowledged (a repetition of one call may leave several) and one for each run
whose record was lost or overwritten from outside or which had lost BullMQ's lock (`NoUnexplainedDuplicate`); each post beyond the first costs a fault, so that
without one a job is posted at most once, whatever requests and retries do meanwhile
(`DuplicatesCostFaults`); once a post stands recorded the queue cannot
reach the row (`RecordedIsSettled`). A job cancelled while no run had read its row and no
scheduling request was still to mark it is never dispatched, even if it stays in the queue
(`WithdrawnStaysWithdrawn`); one cancelled later may be, and the code promises no more. A
regeneration after approval cannot smuggle a text past the editorial guard, for the worker
looks again. The attempts of the row and of the queue run out together, except for a row
the schedule request marked 'queued' after the worker had taken the job. The semaphore
keys are exclusive and come back on every way out. In the ledger every repetition is
absorbed, a debit has its draft and a stored draft its debit, and the check-then-act gate
overdraws by at most the drafts in flight beside the first.

A graph publishes nothing the founder has not said yes to, and nothing twice but after a
retry gate was answered yes, or where the runner cannot take a post for one
(`NoUnapprovedDuplicate`); an effect happens once whatever dies in between; a yes that no
tick or other tap was racing with stands; a run ends even if the founder never answers.
A run recorded as succeeded has published, a retry gate answered yes notwithstanding
(`SucceededRunPublished`). That is a property of the step that records it, not of the rows
it leaves: in the graph of an A/B test (`agent-graphs.ts:1291-1315`) a yes checked while
the optional approval was waiting and written after its timeout turns the row to
'succeeded' in a run that was closed without a post.

An audit is charged when it is delivered and only then (`DeliveredIsCharged`), has one score
and one more for each run cut short after the score, and ends up decided unless whoever had
to decide it is gone (`RowsAreDecided`); a repeat the report announces is in the queue, and
one it calls recovered had that very repeat scored on the full panel, in a row of its own
(`RecoveredIsMeasured`).

A mail of a sequence repeats only for a log entry that was never made or a poll that
overlapped (`MailsExplained`), and none is left out (`CursorFollowsLog`); nothing is mailed
after a suppression that found no poll past its re-check. Once all of Stripe's events are
answered, plan and row say what the last one said, however often each came and wherever a
handler broke off, if no event was handled after a later one and no refund broke off between
its two queries (`SettledPlanIsRight`). A subscriber gets no more sales mails but those of a
sequence started after the plan was written, by a poll that had read it as free before
(`LadderStopsAtPurchase`).

*Bounds, and why they are enough.*

- `MaxConcurrent` is 2 in the code. `publish_parallel` has 2 and one worker more, so that
  a run finds the first key taken, or both; the other runs have 1 and at most two workers.
- `MaxAttempts` is 5 in the code, in row and queue alike. `publish_requests` has 3: a first,
  a middle and a last attempt, which is as many as `CatchWrite` and `Finish` tell apart;
  `publish_redelivery` has 2, and `publish_parallel` 1, since what a key goes through in a
  run does not depend on the attempt.
- `MaxStalled` is 1, BullMQ's default.
- `MaxFaults` is 2 in `publish_redelivery`: one that makes the queue deliver again and one
  in the second delivery. It is 1 in `publish_requests`, for a fault that meets a request,
  and 0 in `publish_parallel`, since its properties are about runs without one. `credits`
  has 1.
- `MaxVersion` is 1: the text that was approved and the one that replaced it.
  `LeakyVersions` is `{1}` where the guard matters.
- Two requests are every pair of routes against the workers. What needs three at once is
  left to the theorems, which cover any number.
- `MaxPeriod` is 2, so that there is a month's change. The credits a thing costs are 1 or
  2, so that one draft empties the grant and two overdraw it.

- `graph_runs` has one run: runs meet only in the order a tick takes them, in the cap and
  in the circuit counter, and `NextDay` and `CircuitExpires` put those in either state. The
  graph has each kind of node, a chain of approval, post and measurement, and an optional
  approval with an effect. With a budget, a cap and a threshold of 1 each of them is
  reached; two taps are one for the approval and one for a retry gate, or two on one step.
- `audit_runs` has as many rows as its jobs can make: a scheduled one, a second one its job
  lost, a manual one and the repeats. Two faults are one that cuts a run short and one
  that meets its redelivery. The cap of one audit a month is met by a scheduled run after
  the manual one.
- `conversions` has a sequence with a first and a last mail and a chained one. Two polls can
  be at one row, two requests at one event, a poll and a request at one plan; three at once
  are left out (`MaxBusy`). Two events are the purchase and what ends it; with three the
  instance is four times as large and has the same result.

*Fairness.* In `publish_redelivery`, weak fairness of taking a waiting job, since BullMQ's
workers poll for as long as the process runs and a dead process is restarted by its host;
of each run's next step, since nothing in `processPublishJob` waits for another run; and
of the stalled check on a job whose run is dead, which BullMQ makes at an interval. No
fairness for requests, faults, or the stalled check of a live run. In `graph_runs`, weak
fairness of the tick, which a repeatable job starts every few minutes and which waits for
nobody, and strong fairness of the clock: a timeout that is due on and off between ticks
does pass. The founder owes no answer. In `audit_runs`, weak fairness of what the
system itself has under way, taken together: the next steps of requests and of the pool, and
the stalled check of a dead run. Jobs, attempts and stalls are bounded, so none of them can
keep the others waiting for ever; the customers and the schedule owe nothing.
`conversions` assumes none.

## 4. Proofs

`tlapm M.tla`. The theorems hold for every number of drafts, accounts, jobs, workers,
requests, keys, runs, audits, polls, events and mails of a sequence, every graph and every bound,
from the `ASSUME`s of the components' modules alone (`None` names nothing else, bounds and
prices are numbers, polls and requests are finitely many and the ledger has a request, a
graph is one that `validateGraph` admits); `SuccessIsPublished` has two hypotheses more,
which are named below.

| Theorem | Module | States |
|---|---|---|
| `TypeCorrect` | `PublishPipelineTypes` | `TypeOK` |
| `NoDuplicate` | `PublishPipelineProofs` | `NoUnexplainedDuplicate` |
| `RecordedSettled` | `PublishPipelineProofs` | `RecordedIsSettled` |
| `NoLeak` | `PublishRunProofs` | `NoLeakReachesPlatform` |
| `Withdrawn` | `PublishRunProofs` | `WithdrawnStaysWithdrawn` |
| `KeysAreHeld` | `PublishRunProofs` | `RunsHoldTheirKeys` |
| `KeysAreGivenBack` | `PublishRunProofs` | `NoSlotLeaks` |
| `RowSettlesWithQueue` | `PublishRunProofs` | `QueueAndRowSettleTogether` |
| `DuplicatesArePaidFor` | `PublishRunProofs` | `DuplicatesCostFaults` |
| `LedgerTypes` | `CreditLedgerProofs` | `TypeOK` of `CreditLedger` |
| `OneRow` | `CreditLedgerProofs` | `OneRowPerReference` |
| `ChargedDraft` | `CreditLedgerProofs` | `ChargedDraftExists` |
| `HostedCharged` | `CreditLedgerProofs` | `HostedDraftIsCharged` |
| `OverdraftIsBounded` | `CreditLedgerProofs` | `GateBoundsOverdraft` |
| `PostsAreApproved` | `AgentGraphProofs` | `NoPostWithoutYes` of `AgentGraph` |
| `RunnerTypes` | `GraphRunnerProofs` | `TypeOK` |
| `RunnerImplementsPromise` | `GraphRunnerProofs` | `ImplementsAgentGraph` |
| `NothingPublishes` | `GraphRunnerProofs` | `NothingPublishedWithoutApproval` |
| `EffectsOnce` | `GraphRunnerProofs` | `EffectsAtMostOnce` |
| `ClosedAsksNothing` | `GraphRunnerProofs` | `ClosedRunAsksNothing` |
| `YesesStand` | `GraphRunnerProofs` | `UnracedYesStands` |
| `AttemptsStayInBudget` | `GraphRunnerProofs` | `AttemptsWithinBudget` |
| `NoDuplicateUnapproved` | `GraphRunnerProofs` | `NoUnapprovedDuplicate` |
| `SuccessIsPublished` | `GraphRunnerProofs` | `SucceededRunPublished` |
| `AuditTypesHold` | `AuditRunProofs` | `TypeOK` of `AuditRun` |
| `DeliveriesAreCharged` | `AuditRunProofs` | `DeliveredIsCharged` |
| `ScoresAreExplained` | `AuditRunProofs` | `ScoresExplained` |
| `ScheduledRepeatsAreQueued` | `AuditRunProofs` | `ScheduledIsQueued` |
| `RecoveryIsMeasured` | `AuditRunProofs` | `RecoveredIsMeasured` |
| `JobsMakeOneRow` | `AuditRunProofs` | `OneRowPerJob` |
| `CompleteAuditsStand` | `AuditRunProofs` | `CompleteStands` |
| `MailsAreExplained` | `StripeWebhooksProofs` | `MailsExplained` |
| `CursorsFollowTheLog` | `StripeWebhooksProofs` | `CursorFollowsLog` |
| `SuppressionIsSilent` | `StripeWebhooksProofs` | `SuppressedStaysSilent` |
| `LaddersStopAtPurchase` | `StripeWebhooksProofs` | `LadderStopsAtPurchase` |
| `TypesHold` | `StripeWebhooksProofs` | `TypeOK` of `StripeWebhooks` |
| `PlanSettles` | `StripeWebhooksProofs` | `SettledPlanIsRight` |

*Types.* `TypeOK` is not inductive: a run writes the row its local `job` names. `LinkInv`
adds that the ids in rows, runs and requests name something, and that an unused id is
known to nobody. `TablesKept`, `WorkersTyped`, `RequestsTyped` and `LinksKept` are the four
halves of a step.

*Posts.* `IInv` is `LinkInv`, `QueueInv` and `PostInv`. `QueueInv`: only an active job has
a lock, and a job about to be enqueued is not in the queue yet. `PostInv`: a run that has
the lock of a recorded job made the post itself or has not passed the guard, and a post
beyond the excused ones is recorded or its run still holds the lock (`PostsAccounted`).
Without the last one the bound on posts is no invariant: a step that posts has to know that
nobody else's post is still unrecorded. `ReopenedCounts` and `LostCounts` are the two ways
a post loses its record, each paid by one excuse.

*Guards.* `LeakInv`: the text of a run about to dispatch has been looked at. `WithdrawnInv`:
a job cancelled in time has a row no run gets past, no run past it and no request that
would put it back; `WithdrawnQuiet` derives the action property.

*Keys.* A run answers for at most one key (`KeyOf`): the one it acquired, until its release
is through. `KeyInv` says that, as long as there was no fault, a run's key holds
its job (`KeysHeld`), no two runs answer for one key (`KeysApart`) and a key that is set is
some run's (`KeysOwned`). The two properties are one half of it each, and neither half is
inductive: a release deletes the key only if it still reads its own job there, and takes no
other run's key away only because keys are apart.

*Row and queue.* The row counts attempts in `CatchWrite`, BullMQ in `Finish`. `SettleInv`
says that, without a fault, locks and runs name each other, and for a run in progress at which
point it is: until it has decided, the counters are equal; if it throws, the row is one ahead
and has an attempt left, so BullMQ has one left too; if it does not, the row is settled, or
reopened by the schedule request behind it. What requests do in between is quiet
(`QuietRow`, `QuietJob`): it counts nothing and revives nothing.

*Duplicates.* The number of posts is not inductive, for a job may be on its way to one more.
`PaidFor` counts, besides the posts a job has, those it may get without a further fault: one
if the queue may still deliver it (`MayDeliver`), and one for each run that lost the lock
and has not dispatched yet (`Strays`). Together they are never more than 1 plus the faults.
A post moves from the second sum to the first, and only a fault makes the whole grow
(`QuietPosts`, `PaidPosts`). `ThrowsLast` supports it: a run decides to throw only at
its end, past any post.

*Ledger.* `InsertKeepsOneRow` is the unique index. `DraftInv` adds to the property that a
request about to debit has stored its draft. A balance is a sum over a set of rows, that is
a fold, whose value needs an induction over finite sets. `SmallestSubset` stands for it: if a
claim failed for some of the subsets of a finite set, it would fail for a smallest one. From
it `AddingAdds` (the fold's recursion has a solution), `AddsAgree` (only one) and `SumAdds`
(one row more adds its delta, whichever row the fold picks first). Over these, `BalanceInv`:
what is spendable, audits and expiries left out, covers the drafts that are `Underway` past
the gate, all but those of the other requests. The gate lets a draft through only when the
balance covers it, and audits and expiries can only have lowered that; there are then fewer
under way than requests, which is where the bound comes from.

*Agent graphs.* `NoPostWithoutYes` follows from two facts about `AgentGraph`: an approval
that is finished was approved, and whatever is finished has its inputs finished; the set of
nodes that are finished or inputs of the posted one is closed under dependencies, so it
holds every node upstream. For the runner, `RunnerInv` is `TypeOK`, `StoreInv` and
`TickInv`. `StoreInv` is about the tables: a row that has started had its inputs done, a
succeeded one is done, a closed run has no row waiting, an effect that happened has its row.
`TickInv` is about the tick: what it holds in memory of a step is what the table says or was
true when the tick read it and stays true; at each place of the tick the node at hand has
the kind, the row and the inputs that place presumes. Without `TickInv` a step that posts
from memory would not be a step of `AgentGraph`. Each action is one lemma for the invariant
and one for the step it maps to; `NothingPublishes` combines the refinement with
`PostsAreApproved`.

*Answers, attempts, posts.* The three properties that count are proved together, from
`BudgetInv`: `PairInv` for every node of every run, about its rows and about the snapshot.
`AnswersStand`: a yes that raced with nothing is on a row that succeeded, in the table and in
whatever a tick reads of it, and no tap is under way that could still overwrite it.
`RowsSpent`: a row makes room for the next one by failing or by a yes, and the rows are
within the budget of the yeses *before the last row*, for a yes to the last row pays for the
one to come. `PostsOwed`: one post may be without a yes or an excuse, but none while the last
row may still be sent, or may be sent again unasked (`not_sent`); a row that is about to be
sent has no tap on it. `SnapSpent` and `SnapOwed` say the same of what the tick holds in
memory, where a row may have been forgotten for a retry (`id` 0) and where between `Send` and
its record the tick alone knows of the post. The numbers only move in step: a post is added
where none was owed, a yes is added where a gate had failed. `YesesCount` and the lemmas
after it say what one more yes or one more row does to the cardinalities.

*Success.* `CloseInv` ties what is written of a publish to its posts. A row, or its copy in
the snapshot, is `Explained`: 'accepted' is noted only for a post, and a retry gate is asked
only within the budget. Whatever has started, or is about to in section 4, has the posts of
its inputs (`StartedPosted`, `StartsPosted`), and a skipped step of a running run is an
optional approval, or the tick is at failing that run (`SkippedIsOver`). When the run is
closed as succeeded, `ClosedAsSucceeded` takes, of the nodes at or above the publish that
have not succeeded, one whose inputs all have: it was ready, so it was started, so it was
skipped, so it is an optional approval. If there is none, the publish has succeeded, and the
node that waits for it alone was started after its post.
The two hypotheses are needed. A yes tapped at a retry gate during a tick stands for the
post until a node that depends on the publish alone is about to start and finds there is
none; the registered graphs all have one (`wait`), but `validateGraph` asks only for a
harvest somewhere below. And a tap checked while its step waited, written after a tick that
died between failing the run's steps and closing the run, can put a yes over the failure
the run was to be closed for, so no tick is to die there (*Model-checked only*, below). Any
other crash is allowed.

*Audit.* `AInv` has two parts. `Ownership` says whose a row is: no two jobs, runs or requests
name the same one, and a request shares its row only with the job it queued; without it a
run could not tell that what it has written is still there at its next query. `RunInv` says
what a run at each of its queries has left behind for its row: the order of
`processAuditJob` (score, complete, charge, plan, enqueue, record) is in it. `JobInv` says
what outlives a run: whatever BullMQ will run again has no scores but those of runs that were
cut short (`Spare`), and what it has completed is paid. Most properties read off one
conjunct. `CompleteStands` is an action property: only `MarkRunning` takes a complete row
back, and the row of a run that gets there is `Spare`.

*Mails.* The count of `MailsExplained` is not inductive: while polls are on their way to
mail a step, each has to have a mail to its credit. `Account` says that mails sent and polls
that look at a step (`Looking`) are together no more than what went unlogged, what overlapped,
and one once the step is opened: in the log, or at hand in some poll. A poll that finds the
step unlogged either opens it or has overlapped; sending trades its place among the polls for
the mail, failing gives it back. `PollsInside` and `LogInv` say that a step is only read or
passed when every earlier one is in the log, and what is in the log was mailed;
`SilenceInv`, that a silenced sequence is suppressed and no poll is past its re-check. `NInv`
is their conjunction with the types.

*Subscription.* `NewestInv`: no handled event is later than `newest`, and whoever has handled
the purchase has made the row. `OrderInv`: as long as nothing has come out of its order, the
row is that of `newest`, and so is the plan once its request is past the tenants' table; for
a refund the plan is right or somebody is about to write it, or one was cut off. A replay of
`newest` changes nothing, a later event finds nobody handled it yet, and an earlier one makes
`disordered` true.

*Model-checked only.*

- Liveness: `AcceptedJobIsSettled`, `ProcessingIsTransient`, `RunEnds`, `RowsAreDecided`.
- `SucceededRunPublished` with a tick that dies between failing the steps of a run and
  closing it, the crash the theorem leaves out. `graph_runs` has no violation: its graph has
  one post and one required approval. Side by side with another step that waits for an answer
  it fails, as TLC finds in instances kept out of the runs for their size: a no is written at
  one step, the other is skipped for it, the tick dies, a yes to the first that was checked
  before is written over the no, and the next tick finds nothing failed. With two required
  approvals that takes 2 taps and 1 crash; no graph of the registry has two. With two posts
  behind one approval, as in the announcement of a blog article (`agent-graphs.ts:1359-1360`),
  it takes 3 taps and 3 crashes, two of them to bring both posts to a retry gate, and the run
  is recorded as succeeded with one post made.

## 5. Where code and repository disagree

1. `schema_drift`: the worker selects `token_expires_at`, a column no migration gives
   `social_accounts` (the schema has `expires_at`). Every attempt fails in the query.
2. `approval_toctou`: `approved_text` is compared in one query and the approval written by
   another without a condition; a regeneration in between is approved unseen. The worker's
   leak guard still holds, a person's preview does not.
3. `month_change_race`: two first reads of a month. The second one sums the ledger after
   the first one's grant and writes that grant off as last month's.
4. `second_draft`: the catch around the INSERT of a draft takes the unique violation for a
   missing column and stores the second draft without its key.
5. `hosted_refused`: the content route grants inside the tenant's session, where the policy
   on `credit_ledger` refuses a positive row, so no hosted request reaches the gate. The
   billing route wraps the same call in `runAsPlatform`.

Read in the code while modelling it, without a run of their own:

- a. *Audit.* `job.updateData` replaces `job.data` in BullMQ 5.81, so the conditions
  `!job.data.audit_id` at `audit-run.ts:806` and `:2539` are false for a scheduled run that
  has just written its row's id there: its monthly ceiling and its coverage repeat, which
  the comments at `:787-797` describe, may never apply. The model has both outcomes.
- b. *Audit.* Nothing makes the score of an audit unique, so a run cut short after the score
  writes a second one (`ScoresExplained` counts them). A redelivered run that fails after
  the charge leaves a charged audit 'failed'. Two manual requests both pass the check of
  `audits.ts:1317-1331` before either inserts. An API process that dies between the INSERT
  and `queue.add` leaves a pending row nobody decides (`lost`).
- c. *Graphs.* The cap of a channel counts succeeded posts by `started_at`
  (`graph-tick.ts:2007`), and releasing a parked post does not change it: any number of
  posts deferred from one day may go out on another, beside that day's own
  (`graph-runner.ts:1106-1113` means the cap to bound a day).
- d. *Stripe.* A refund that breaks off between its row and its plan
  (`billing.ts:2607-2641`) finds no row to change when it comes again: the plan stays paid
  (`cutOff`).
- e. *Stripe.* `stripe_event_id_last` knows the last event only, and the UPDATE of the plan
  looks at no event id: an older event handled after a newer one, or replayed when the
  marker was not set, puts its plan back, where `billing.ts:1126` and `:1306-1309` count on
  the row's guard (`disordered`). The comment above the bonus mail of a checkout relies on a
  marker set before the handler; it is set after.
- f. *Mails.* The comment on `nurture_send_log`'s unique index, "sent at most once", is kept
  but for a crash before the row and overlapping polls, which `setInterval` allows.
- g. *Mails.* "suppressOnConversion also covers the race" (`nurture-cadence.ts:121`): not the
  one of a poll that reads the plan before a purchase writes it and enrolls after the
  suppression (`late`). A contact who unsubscribes during the last mail of a sequence is
  enrolled in the next one all the same. A worker that dies between completing a sequence
  and the INSERT of the chained one loses it.

## 6. Plan

Done so far: the five parts above, and the proofs of section 4. Next, in this order.

1. Action properties of the ledger and of the agent graphs: what a run's end, a piece that
   was stored and a row that was decided never go back on.
2. `PublishContract`: what the scheduler promises of one job (unscheduled, accepted,
   posted, settled, withdrawn; at most one post that is not excused), and
   `PublishPipeline` shown to implement it.
3. The user's toggle and the reconciler of the monitor, as a module of its own beside
   `AuditRun`.
4. Stripe's orders (kit, pages, AI audit), their refunds and the sequences they start,
   composed with `Nurture`.

Runs stay few: a new module gets one passing run, and a finding's run makes room where a
newer question is worth more.

## 7. Not modelled

Scoring and sampling (`packages/llm`) are numerical functions of provider answers in
floating point. The web application, the remaining routes and the periodic jobs read and
write single rows and keep no state that two of them share. OAuth connection, token
encryption and the mail service are calls out of the system. Rate limits, plan tasks and
landing pages may follow as small modules once the plan is done.

Of the parts that are modelled:

- *Graphs.* The containment marks of an experiment, receipts and their reconciliation,
  reminders and digests, orphaned runs, the operator's finish route; two ticks at a time
  (during a deploy); the SELECT then INSERT that starts a brain run.
- *Audit.* A live run that loses its lock; notices and mails; the toggle against the
  reconciler; the boot of a worker, which dispatches the daily audits again under new ids;
  scoring, verification and what providers answer, which are choices.
- *Mails and Stripe.* Sequences that are not chained; orders for kits, pages and AI audits,
  `customer.subscription.updated` and failed payments; checkouts without an account, whose
  buyers the chain's check of the plan does not find; the bonus mail.
- *Liveness of the mails.* Whether every sequence comes to its end: nothing bounds how long
  a row may wait, and with fairness the instance is too large to check beside the rest.
