# A verification project for the zap platform

The repository is a Zapier clone in TypeScript: a webhook arrives, is stored
with an outbox row, travels through Kafka, and a worker executes the steps of a
*zap* (a trigger, then filters and actions) exactly in order, each action at
most once. Postgres is the only coordination between the processes: there are
no transactions around an execution, no locks held over an API call, and every
`await` is a point at which another process, a cron job or a crash can get in.
This directory holds TLA+ modules translated from the code, the TLC
configurations that check small instances of them, and TLAPS proofs of every
safety property and refinement that a run checks.

Run `tlc -config RunExecution.cfg MCRunExecution` (likewise for the other
configurations, with the module that `PROJECT.json` names) and
`tlapm RunExecutionProofs.tla`, or another `...Proofs` module.

## The system

| Part | State | Operations | Interaction |
|---|---|---|---|
| hooks-api: webhook ingest | `webhook_events`, `zap_runs`, `outbox` | verify, route GitHub events, one transaction: event (deduplicated by event id), queued run, outbox row | leaves the outbox row to the relay |
| relay: poller, producer | `outbox.status/attempts`, the module variable `producer` | sweep: `SELECT ... FOR UPDATE SKIP LOCKED`, mark `dispatched`, commit; then produce each row, revert on failure, `dead` after `max_attempts` | several processes share the table; produces to Kafka |
| app-api: outbox jobs | `outbox` | every 10 minutes: `dispatched` rows older than 15 minutes go back to `pending`; daily: `consumed` rows older than 7 days are deleted; an alert that only reads | undo or finish what relay and worker left |
| worker: consumer, executor | `zap_runs`, `zap_run_steps`, the stack of the handler | `onMessage`: claim or insert the run with a frozen snapshot of the steps, tick off the outbox row, check the zap and its cap; `resume`: loop over the snapshot, claim, execute, record | at-least-once messages, redelivered after rebalance, restart or a second production |
| worker: claims | `zap_run_steps.status/claimed_at` | `INSERT ... ON CONFLICT DO NOTHING`; an expired lease is reclaimed: `ambiguous`, the run fails, nothing is executed again | the only mutual exclusion between workers |
| worker: step runner | tokens of the connection | render, validate, rate limit, call the API, refresh the token on 401 and call once more | third-party APIs |
| worker: retry-stuck-steps | `zap_run_steps` | steps `processing` for over two minutes become `failed` | in every worker process, beside the handlers |
| worker: rate limiter | Redis counters | fixed window per connection, cap of runs per zap and hour | refuses a step or a run |
| token refresh | `connections` | on 401 (worker), for tokens that expire soon (app-api job) | writes the access token of a row that others write too |
| app-api: connections | `connections`, `zap_steps.connection_id` | OAuth flow and callback (upsert), API key, delete | reconnecting and deleting race with the refreshes |
| app-api: zap editor | `zaps`, `zap_steps` | create, delete a zap; add, update, delete a step; positions stay contiguous | runs resume by the positions that are stored now and refer to steps by foreign key |
| filter evaluator, templates, payload validation | none | pure functions of a step's config and the payload context | called by the executor |
| worker: connectors | none | `buildRequest`, `parseResponse` of Slack, Razorpay, GitHub | their output joins the context of later steps |
| seed data | `connectors`, `available_actions`, `available_triggers` | upserts | input schemas and auth types that steps are validated with |
| authentication, read-only controllers, web, logging, Docker | | | not modelled, see below |

What is hard, and what correctness means there:

* *Execution*: two workers get the same message; a worker dies between two
  statements, or lives on after its lease has expired; a statement rejects and
  `eachBatch` swallows the error; the cron job writes to rows it read earlier.
  An API must not be called twice for a step, no step may be skipped, a run
  shown as completed must be whole, and work must not be left hanging.
* *Outbox*: the row is marked `dispatched` before it is produced. Whatever
  dies in between, the event must get to the topic; several relays must not
  work on the same row.
* *Editing*: every request reads in one statement and writes in another, and
  runs are under way. Positions must stay 0, 1, 2, ... with the trigger first,
  and runs must execute the snapshot they have frozen.
* *Intake*: providers retry, answers get lost, deliveries of one event overlap.
  What was answered with 200 must be stored, once and whole.
* *Tokens*: refreshes, callbacks and deletions of one row race, each with a
  request to the provider between its read and its write. Reconnecting must
  last, a step must not give up for a token that was merely old, and the job
  must keep accounts working that no step can repair.
* *Limits*: windows have boundaries, commands are counted although their answer
  is lost, messages are delivered again.
* *Data of a run*: the context is built up in the memory of one handler. After a
  crash the next one starts with the payload only; no filter may open and no
  request may change its meaning because of that.

The hazards are listed, at their lines, in `PROJECT.json`.

## Modules

| Module | Models |
|---|---|
| `StepLedger` | Abstract specification: each run goes through its steps in order; an action is called once before it finishes and never again. |
| `EventLifecycle` | Abstract specification, and the interface between the parts: an event's run and outbox row are stored at once, the row can be relied on until a worker has claimed the run, a run is claimed once, and what is over stays over. |
| `RunExecution` | The worker: consumer, executor, claims, step runner, run state, cron job. Implements `StepLedger` and `EventLifecycle`. |
| `OutboxRelay` | Ingest transaction, relay, outbox jobs, and what the worker does to the row. Implements `EventLifecycle`. |
| `WebhookIngest` | hooks-api: providers that retry, concurrent deliveries, GitHub routing, the transaction. Implements `EventLifecycle`. |
| `ZapEditor` | Requests that edit a zap, and the executor as far as it depends on them. |
| `TokenRefresh` | Connections: OAuth flow, API keys, deletion, refreshes by steps and by the job. |
| `RunLimits` | The counters in Redis under the handlers of one zap's runs. |
| `StepData` | Values, paths, filters, templates, payload validation. |
| `Connectors` | The catalogue of actions and the three adapters. Extends `StepData`. |
| `StepContext` | The context of one run, with restarts. Extends `Connectors`. |
| `RunExecutionProofs`, `OutboxRelayProofs`, `ZapEditorProofs`, `WebhookIngestProofs`, `TokenRefreshProofs`, `StepContextProofs`, `RunLimitsProofs` | Theorems about these modules, proved with TLAPS. |
| `MCRunExecution`, `MCWebhookIngest`, `MCStepContext`, `MCRunLimits` | Snapshots, payloads, symmetry of the instances. The other modules are checked as they are. |

In each module an action is one awaited statement (a query, a transaction, a
call of Kafka or of an API). The database serialises statements and nothing
else is atomic. Tables are functions from a row's key to the columns that
matter; a process has a program counter (`pc`, `hold`, `phase`, `request`)
that names the statement it awaits next and the values it has read.

`RunExecution` has for every worker process `pc`, the run it handles (`cur`),
`currentPosition` (`pos`), the status it is about to write (`out`) and the
rows its cron job has selected (`picked`). `Deliver` starts a handler;
`ClaimRun`, `InsertRun`, `FetchRun`, `MarkConsumed`, `CheckZap`, `CheckCap` are
the statements of `onMessage`; `ReadCompleted`, `ClaimStep`, `InspectRow`,
`Reclaim`, `CompleteTrigger`, `EvaluateFilter` those of `resume` and
`claim.service`; `CheckStep`, `Release`, `Send`, `Respond`, `Refresh`,
`RecordResult` those of `runStep`; `FinishRun` is `run-state.service`.
`Expire` lets `claimed_at` fall behind the lease, `JobSelect` and `JobUpdate`
are the cron job, `Throw` a rejected statement, `Crash` the end of a process.
Payloads, templates and credentials are abstracted to the outcomes they can
have. The instances keep the zap's steps as they are during a run: edits are
the subject of `ZapEditor`. `done`, `rejected` and `sent` are history: what was
once completed, which filter said no, how often an API accepted the call.

`OutboxRelay` has per row status, attempts and age class (0 young, 1 older
than 15 minutes, 2 older than 7 days), per relay what it does with each row of
its batch (`hold`), the attempts it read (`snap`) and its connection (`link`).
A row is locked from `Select` to `Dispatch`; updates by others wait for it.

`ZapEditor` has the table of steps (`position`, with -1 for a step without a
row), the requests that are under way with the layout they have read, and per
run its status, snapshot, rows and handler. `Valid` is `validateZapSteps`,
`Resequenced` the `UPDATE` of `deleteStep`. Foreign keys and the unique index
on `(zap_id, position)` are guards; `Reject` is every way in which a write is
refused, among them the order in which Postgres checks a unique index while
one `UPDATE` moves several rows. The constraints of
`packages/db/prisma/migrations/0001_init.sql` are not used: the file stands
outside of a migration directory and is not deployed.

`WebhookIngest` has the state of the zap, per request what it awaits and with
which event id, what the provider knows (`tries`, `acked`) and the three tables
as numbers of rows per event id. `Deliver` is `raw-body.middleware`, `Lookup` and
`Insert` are the two statements of `ingestWebhook`, `Answer` and `Fail` the
responses of `handleWebhook`. A zap that has stored an event can not be deleted
(`zap_runs` restricts it), in this module as in `ZapEditor`.

`TokenRefresh` numbers the consents at a provider (`grant`). A row has the
refresh token (its grant), the access token and `expires_at`; time is counted
down in them. `call` is what a step or a sweep awaits: `creds`, `send`,
`refresh`, `post` and `write` are the statements of `executeWithRefresh`,
`refreshToken` and `refreshAccessToken`. What providers do (grant, replace,
revoke, end older access tokens, lose an answer) is a fault of the instance.
An API that is sent an invalid token answers 401 (`Unauthorized`, which leads to
the lazy refresh) or, as Slack does, 200 with an error in its body
(`ErrorInBody`, which ends the step). Four variables are history: `latest`, the
grant stored last; `misses`, how often a sweep has selected the row's token, and
`failed`, whether one of these was skipped, not answered or took a period (its
sweep still has the row in `todo` or in `call`: `Held`); `disturbed`, whether
somebody else touched the account during a step, or the token of the step's own
refresh expired before it was used (`Expires`).
`Tick` does not pass while an answer of the provider waits to be stored
(PromptWrites, at the action): the answer may take any time, the `UPDATE` after
it takes none.

`RunLimits` has a clock, the keys in Redis as count and expiry, and per worker
what its handler awaits with the cap and bucket that it has read. `LoseAnswer`
is a command that Redis executed and nobody heard of. `caps` (the values that
the owner has given the cap), `started`, `refused`, `called` and `denied` are
history.

`StepContext` takes a handler's loop for one action per step: claims and calls
are the subject of `RunExecution`. A value is kept as its type, `String(value)`
and `Number(value)`; the text of a mixed template as what was put into it.
`output` is history: what `step_n` stands for. `Restart` sets the context to the
payload, as `resume` does.

`EventLifecycle` is what hooks-api, relay, jobs and worker tell each other
through the tables and the topic: per event the `stage` of its run, whether the
outbox row is there and not ticked off (`kept`) and whether the topic has a
message of it (`offered`). Each part has its own view of these and
implements the specification with it (`Lifecycle` at the end of the module):

| Part | `stage` | `kept` | `offered` | Steps it takes |
|---|---|---|---|---|
| `WebhookIngest` | `queued` as soon as the event is stored, per event id | run and outbox row are there | not yet | `Store` |
| `OutboxRelay` | the status of the run | the row is `pending`, `dispatched` or `dead` | `published` | all |
| `RunExecution` | the status of the run; a run that does not exist yet (an event of before the status `queued`) counts as queued | not `consumed` | always: this is where messages come from | `Claim`, `Tick`, `Finish` |

Every other step of the code is a stutter. So the parts, which are checked one at
a time because their product is out of TLC's reach, agree on what they hand over:
`OutboxRelay` claims a run once and without knowing how, `RunExecution` has the
statements that do it.

## Runs

Passing:

| Run | Instance | Shows |
|---|---|---|
| `execution` | 2 workers, 1 run, trigger-filter-action; crashes, leases that expire under a live owner, refused rate limits | `SentAtMostOnce`; `OneOwner` of a step between claim and record; `ClaimedInOrder`; `CompletedRunIsWhole`; `ConsumedRunIsClaimed`; `RunNeverReopened`; `ImplementsLedger` and `ImplementsLifecycle`, the refinements of `StepLedger` and `EventLifecycle` |
| `resume` | 2 workers, 1 run, the same zap, statements throw, processes crash, rate limits refuse, redelivery | `StepsSettle`: no step stays `processing`. `RunsResume`: once failures stop, a redelivered run becomes terminal unless it stops at a failed or ambiguous step |
| `outbox` | 1 event, 2 relays, 3 attempts; crashes, failed sends, lost acknowledgements, rejected statements | `QueuedRunKeepsRow`: the row of an event whose run has not started is never lost; `OneRelayPerYoungRow`; `StoredIsProduced`: a stored event reaches the topic or becomes a dead letter; `ImplementsLifecycle` |
| `outbox_batch` | 2 events in a batch of 1 relay; Kafka is not reached, sends fail or lose their acknowledgement | `DispatchedIsPublishedOrHeld`, unless the connection broke; `DeadStaysDead` |
| `edit` | 2 concurrent requests, up to 4 steps, 1 run, handlers get lost | `TypeOK`; `TriggerFirst`: validation and the unique index keep the trigger first and single under every interleaving. Unless requests overlapped: `StepsContiguous`, `CompletedRunIsWholeUnlessOverlapped`, `ExecutedInOrder`, although a run resumes by today's positions, and `RunInFlightFinishes`, if no step of its snapshot was deleted |
| `intake` | 1 event of every kind, 2 requests, every fault | `AcknowledgedHasRun`; `StoredOnceAndWhole`; `ImplementsLifecycle`; `WantedEventRuns`: a wanted event with an id gets its run, unless the zap is switched off or deleted |
| `tokens` | 1 OAuth account, 1 API key, 1 step, 1 sweep, 2 grants, every fault | `ReconnectionIsKept`; `RefusedOnlyIfDisturbed`; `ExpiredWasSwept`: a token expires in the row only after two selections, one of which was skipped, not answered or took a period; `WorkingAgain`: where no API answers 401, the job alone makes the stored token valid again and again, unless it has lapsed |
| `limits` | 2 workers, 3 runs, caps 1 and 2, an hour and a window of 2 ticks, redelivery, lost answers, edits | `TypeOK`; `HourlyCap`; `RefusedOnlyAtCap`; `CallsPerWindow`; `DeniedOnlyWhenBusy` |
| `stepdata` | trigger and 3 steps out of 10, 15 payloads, 3 responses, restarts at any step | `UninterruptedContextIsWhole`; `ResumedFilterIsConservative`; `RequestLacksOnlyUnresolved`; `RestartLosesOnlyTargets`; `ThrownOnlyByBlankTarget`: catalogue and adapters agree |

Violations, each a statement of the repository that the code does not keep
(quoted in `PROJECT.json`):

| Run | Statement | What happens |
|---|---|---|
| `limit` | "Reset stuck steps so sequential-executor can re-attempt them"; "No run is ever left stuck at in_progress forever" | The job sets a rate limited step to `failed`; `claim` returns null for it at every delivery and the run stays in progress. |
| `filter` | "If false, marks run `filtered` and halts" | The filter is completed before the run is marked. After a crash in between (one worker, one crash, one redelivery), resumption starts behind the filter and calls the actions. |
| `edit_race` | "Contiguous positions prevent this silent truncation" | A `deleteStep` that overlaps with an `addStep` (the only step is deleted while one is added behind it) or with another `deleteStep` (two of three steps) leaves a step at position 1 and none at 0; the executor takes position 0 for the end and marks the run completed. |

Further deviations that the models have:

* An outage makes dead letters: every failed send is an attempt, and
  `max_attempts` sweeps (10, one every 2 seconds) of an outage make a row `dead`
  (outbox-poller.ts:122), which no relay selects again.
  docs/design-journey/DD2_RELAY_LINE_BY_LINE.md:432-433 says "When Kafka
  recovers, the relay drains the backlog without any manual intervention".
  `StoredIsProduced` therefore has dead letters as an exception.
* A snapshot step that was deleted can not be claimed: `zap_run_steps` refers to
  it by foreign key, the error is swallowed at every delivery (claim.service.ts:31)
  and the run stays in progress.
  docs/design-journey/02_HIGH_LEVEL_ARCHITECTURE_AND_DATA_FLOW.md:151 says
  "in-flight runs execute against the snapshot version that existed when the
  event fired!" `RunInFlightFinishes` has this exception.
* After a resumption the context lacks the outputs of the steps completed before
  (sequential-executor.ts:54); `zap_run_steps.output` is stored but never read.
  docs/design-journey/01_PHILOSOPHY_AND_CORE_CONCEPTS.md:179-180 says "Step k+1
  can unambiguously reference any previous step via template syntax".
  Fields that refer to lost outputs become null; filters that refer to them do
  not match, except those with `neq` or with `eq "undefined"`, which pass: the
  reason for `Positive` in `ResumedFilterIsConservative`.
* A resolved null is coerced by ajv to `""` or `0`; only unresolved fields stay
  null. The `unresolvedFields` that payload-validator.ts:84 says are "not
  silently dropped" are dropped by `recordStepResult`.
* Events without a delivery id are stored again at every retry
  (webhook.controller.ts:40).
* Lazy refresh never happens for the only OAuth connector. It is "the primary
  guarantee" (refresh-expiring-tokens.job.ts:9); "no token ever stays expired
  during active use" (docs/design-journey/DD4_JOBS_AND_CONNECTORS.md:281-282),
  and the job leaves out expired tokens because "the lazy refresh handles it"
  (DD4_JOBS_AND_CONNECTORS.md:303). But Slack reports an invalid token with
  status 200 and `ok: false`, which `parseResponse` turns into
  `SLACK_API_ERROR` (send-message.ts:55-59): nothing throws, so
  `executeWithRefresh` does not refresh. A Slack token that has expired stays so,
  however often its steps run, until the user connects again: `Lapsed`, the
  exception of `WorkingAgain`. A stale token that has not expired (a late write
  over a newer one) fails steps until the job replaces it.
* Nothing limits how long a sweep waits for a provider (oauth.service.ts:143).
  The accounts behind one that hangs can expire, although the next sweeps
  start on time: `failed` in `ExpiredWasSwept`.
* Providers that rotate refresh tokens are not supported: neither refresh stores
  a new one. A second API key of one connector is refused by the unique index
  `(user_id, connector_id, external_account_id)`. The state of an OAuth flow
  never expires.
* A redelivered run uses the cap again: with `max_runs_per_hour` 1 an interrupted
  run is failed by its own first delivery. Runs refused under one cap count for
  the next.
* A deleted zap: `deleteZap` is rejected as soon as the zap has stored an event,
  because `zap_runs_webhook_event_id_fkey` is `ON DELETE RESTRICT`
  (migration.sql:226).
* seed.js lacks two of GitHub's triggers, which the routing table has.
* With two relays, `DeadStaysDead` fails: a recovered row is held by both, and
  the late update of one revives a dead letter of the other.
* The recovery job measures the age of a row from its creation: a row that has
  waited 15 minutes in the outbox is recovered while a relay produces it. This
  is why `OneRelayPerYoungRow` speaks of young rows.
* A lost acknowledgement reverts a row that the worker may have consumed; the
  next message of a terminal run returns before it marks the row again.
* `failed`, `completed` and `filtered` overwrite each other when the owner of
  an expired lease goes on (`RunNeverReopened` says what does hold), and the
  cron job overwrites the status of a step that completed after its read.
  History (`done`) keeps what was once completed.
* A process that dies between recording a failed step and failing its run
  leaves the run in progress: the exception in `RunsResume`.
* `deleteStep` accepts the trigger; nothing can be added to what remains.

### Bounds and why they are enough

* Runs of different events share only the counters of the rate limiter, which
  are free choices in `RunExecution` and have a module of their own. One run
  (`RunExecution`), one row (`OutboxRelay`) or one event (`WebhookIngest`) shows
  every interleaving of its handlers; two rows are needed for batches, three
  runs for caps.
* Two workers, relays or requests: every conflict in the code is between two
  statements of two processes on one row. The proofs cover any number.
* `execution` leaves out the fault `"throw"`, which differs from a crash only in
  that the cron job of the process goes on; `resume` and the theorems include it.
* Three steps: a trigger, a filter and an action, so that a step stands
  before, between and behind others. `edit` creates up to four, enough for a
  trigger, two steps deleted together and an insertion between; requests that
  overlap raise `overlapped`, the exception of its last four properties.
* `MaxAttempts` 2 or 3 instead of 10: attempts are only compared with it, and
  saturate there (`AttemptCap`). Ages are the two thresholds of the jobs.
* `sent` is not bounded: `SentAtMostOnce` bounds it. `MaxSteps` bounds the
  inserts of `ZapEditor`, the only source of new steps.
* `intake`: `MaxTries` 3 deliveries of one event, two of them at a time. All
  combinations of headers the controller and the mapper tell apart are initial.
* `tokens`: `MaxGrants` 2, a first connection and a reconnection; `Life` 3,
  `Window` 2, `Period` 1 are the proportions of 60, 30 and 15 minutes, short of
  one tick of life: a shorter life is the harder case. One step and one sweep
  refresh the same account at once; while the sweep hangs the schedule goes on
  by skipped invocations, which do to the row what an overlapping sweep does
  whose own requests hang. Two steps of one account, and sweeps that overlap, are
  covered by the theorems, which are for all sets of both and all times that
  satisfy `TokenAssumption`.
* `limits`: `MaxClock` 3 passes one boundary of an hour and of a window, both of
  2 ticks; `MaxDeliveries` 3, for all runs together, exceed every cap; caps 1 and 2 are edited
  while runs are under way.
* `stepdata`: every zap of a trigger, an action and two of ten steps, so that
  each kind of step follows each kind of action; 15 payloads with a missing,
  null, zero, wrong or good amount and a missing, empty or good address; an
  answer with all, some and no fields.
* Deadlock checking is off where the instance is finite by its bounds: every
  row deleted or dead, every step created and deleted, every delivery or grant
  used, the last position reached.

`TypeOK` of `RunExecution`, `OutboxRelay`, `WebhookIngest`, `TokenRefresh` and
`StepContext` is not among the runs: it is proved.

### Fairness

* `RunExecution`: weak fairness of every handler and of the selection of the
  cron job (Node's event loop goes on), of the passing of time; strong
  fairness of the job's transaction (a process does not die between its two
  statements every single time). `RedeliverSpec` adds strong fairness of
  delivery to an idle worker. This is generous on purpose: the relay produces
  a row again after recovery or revert, consumers restart from the committed
  offset with `autoCommit: false` and `fromBeginning`, and rebalances repeat
  messages. A violation under it does not come from a message that was lost.
* `OutboxRelay`: weak fairness of selection, ageing, recovery and cleanup, which
  timers repeat; strong fairness of the other statements of a sweep, and of the
  worker on each message. A process does not die at the same statement of every
  sweep, and a broker that is asked for ever accepts some message.
* `ZapEditor`: weak fairness of handlers and of redelivery while a run is in
  progress. `RunInFlightFinishes` has the premise that handlers are not lost for
  ever.
* `WebhookIngest`: weak fairness of each request, the event loop; strong
  fairness per event of a delivery (a provider tries until it gets a 200) and of
  the two statements that may reject.
* `TokenRefresh`: weak fairness of time, of the start of the job, of each next
  request of a sweep, of what follows a request to the provider (an answer,
  an error or a broken connection, then the `UPDATE`) and of the callback's
  write. Nothing is assumed of steps, of the API they call or of the user, so
  `WorkingAgain` owes nothing to a 401. Its premise `JobAlone` is that from some
  point on no step refreshes (Slack), answers arrive and no due sweep is skipped
  while a token is about to expire; `Usable`, that the grant in the row is
  honoured.

## What is proved

`RunExecutionProofs`, for every set of workers and runs, every number and
types of steps and every set of faults (assumption `StepsAssumption`: the
number of steps is natural, their types are known, `NoRun` is not a run):

* `TypeCorrect`, `AtMostOnce`, `ExclusiveOwner`, `InOrder`,
  `CompletedIsWhole`, `ConsumedIsClaimed`: the invariants of the run
  `execution`;
* `NeverReopened`: its action property;
* `Refinement`: `RunExecution` implements `StepLedger`;
* `LifecycleRefinement`: it implements `EventLifecycle`. A claim needs a run that is
  queued, or has no row; a row is ticked off, and a run finished, by a
  handler whose run has left the queue (`RunInv`, `HandlerInv`); the statuses
  that overwrite each other after a lease has expired are all terminal.

None of the invariants is inductive. `SentAtMostOnce` alone allows a handler at
`send` whose call was sent already; `ClaimedInOrder` alone allows a handler to
claim position 5 after nothing. The argument has two layers. `ControlInv`
(`TypeOK` and `Local`) says what each label implies for the handler's own
variables: who handles a run, at a position inside the snapshot, with which
status to write. `LedgerInv` relates tables, handlers and history: a row exists
at a position only if everything before it was done (`RowInv`); a terminal or
started run has left the queue (`RunInv`); what the cron job has picked was
claimed (`PickInv`); a handler at a position has everything before it done, and
an owner before its send has sent nothing (`WorkInv`, `HandlerInv`,
`OwnerInv`); two owners of one step are the same (`OneOwner`). The key
observation is that history only grows (`Grows`), so a handler that is
overtaken by the cron job or a reclaim, and whose row no longer has the status
it expects, still stands on the same history. One lemma per kind of fact shows
that the acting handler keeps it, `Bystander` that all others do.

`OutboxRelayProofs`, for any number of relays and events, every batch size,
`max_attempts` and set of faults (assumption `OutboxAssumption`: these are
natural, batch size and attempts not zero, the faults are known):

* `TypeCorrect`;
* `QueuedKeepsRow`. The invariant `KeepInv` ties the tables together: an event
  has a row, a hold or a message only once it is stored, and a handler only
  once its run has left the queue, so `MarkConsumed` finds no queued run and
  `Cleanup`, which deletes consumed rows only, no row of one;
* `OneRelay`. `YoungInv` adds that a young pending row is held only by the
  relay that locks it, hence what `SKIP LOCKED` lets through is free;
* `DispatchedIsCovered`, if `Faults` has neither `"crash"` nor `"throw"`: with
  any number of relays, where the run has one. `FirstCallConnects` is the extra
  invariant: the first producer call of a relay is the one that connects, so a
  connection that failed is the exception the property names;
* `DeadLettersRest`, if there is a single relay: with every fault, where the
  run has two. A dead row is in nobody's hands (`DeadIsIdle`);
* `Refinement`: `OutboxRelay` implements `EventLifecycle`. `KeepInv` gives all steps
  but `Dispatch`, which writes `dispatched` without looking at the row; `LockInv`
  says why it may: a locked row is pending, and one relay has the lock.

The hypotheses of `DispatchedIsCovered` and `DeadLettersRest` are needed: "Further deviations" above says what
happens without them. Most steps of a relay are alike for these invariants:
they take no row into hand (`TakesNoRow`), which is proved once.

`TokenRefreshProofs`, for any number of connections, steps and sweeps and every
set of faults (`TokenAssumption`: the window is at least two periods of the job
and a token lives longer than the window):

* `TypeCorrect`, with the foreign key `link`;
* `ReconnectionKept`: inductive as it stands, because neither refresh writes the
  column of the refresh token;
* `SweptTwice`, by `SweepInv`: `RowInv` bounds the life that is left from below
  by what was missed (a token not missed yet has more than `Window - phase`
  left, one missed once more than `Window - Period - phase`), `WriteInv`
  says that an answer on its way to the row has its whole life before it, and
  `HeldInv` that a row selected once, without failure, is still in the hands of
  the sweep that selected it, so that a second selection finds a failure;
* `RefusedIfDisturbed`, by `SafeInv`: after its refresh an undisturbed step has
  a valid token at each label, first in its hands, then in the row, then in
  its hands again. Time alone disturbs it only by ending this token
  (`SafeTick`).

`StepContextProofs`, for any number of steps, all sets of keys, fields, zaps,
payloads and responses (`ContextAssumption`: these have their types):

* `TypeCorrect`, `UninterruptedIsWhole`, `PartOfWhole`: `ContextInv` says that
  the context of a run, resumed or not, is a part of the context that it would
  have without a restart (`Whole`);
* `FiltersStayShut`, `RequestsLackOnlyUnresolved`,
  `RestartKeepsRequestsValid`: from the part to the whole, operator by operator
  (a condition on a missing value fails, a template resolves to the same or to
  null, validation accepts the same fields);
* `ThrownIsBlankTarget`: catalogue and adapters agree, for every zap whose
  connections are those of its actions. `ThrownInv` says that `resume` is left by
  an exception only where the request of a valid payload can not be built. A
  required field that was substituted by something truthy stays truthy when ajv
  coerces it, because the text of a number or a boolean is never blank (part of
  `Value`), so Slack and Razorpay have what they insist on, and GitHub is left.

`WebhookIngestProofs`, for any number of requests and every set of hooks with
their deliveries (`IngestAssumption`: the flags of a hook are Booleans, the bound on
retries is natural, not zero, `NoEvent` is not an event):

* `TypeCorrect`, `StoredOnce`, `AcknowledgedHasItsRun`. `IngestInv` says what a
  request knows at each label (`RequestInv`): past the lookup its delivery was not
  refused, at the insert its routing key is the catalogue's (`Routing`), and each
  answer 200 has its reason: a row under its key, now or when it was looked up, or
  an event nobody wants. Rows are only added (`Grows`), so a bystander's reason
  stands;
* `Refinement`: `WebhookIngest` implements `EventLifecycle`. With `StoredOnceAndWhole`
  a row is added to all three tables or to none.

`ZapEditorProofs`, for any number of requests, handlers of runs and steps
(`EditorAssumption`: the bound on steps is natural, not zero):

* `TypeCorrect`, `TriggerIsFirst`: every layout a request has read is sound, the
  stale ones too, and no write of one moves the trigger (`TriggerInv`);
* `NoGap`, `CompletedIsWhole`, `InOrder`, as long as no two requests of one zap
  overlapped, which is the exception the properties name. `LayoutInv` then says
  that positions are 1 to n (by `StepsBefore` and `IndexAfter`, about the
  cardinality of the steps before a position, from which `deleteStep` computes
  its new indexes) and that what a request has read is what is there.
  `OrderInv` says that an edit keeps the relative order of the steps of a
  snapshot and puts new ones behind them, `RowInv` that a step that was executed
  keeps its position, and `HandlerInv` what a handler has behind it.

`RunLimitsProofs`, for any number of workers, runs and deliveries, every limit,
cap, window and hour and every set of faults (`LimitsAssumption`: limit, caps,
window and hour are natural and not zero, and the workers are a finite set):

* `TypeCorrect`;
* `CallsInWindow`, `DeniedWhenBusy`, by `WindowInv`. A sum over every window is not
  inductive; what is: all calls since the window was opened (`Opened`, the
  expiry of the key less `Window`) are counted by the key up to `Limit`, and the
  window's length before it has seen at most `Limit`. Any other stretch
  of that length is covered by the two (`WithinCovered`);
* `CapOfTheHour`, `RefusedAtCap`, by `CapInv`. Until a clock hour is over, its key
  is unset or does not expire, and counts every start of the hour (`HourInv`);
  after it, the late starts and the handlers that still wait with this hour's
  bucket are together at most the workers (`LateInv`), since nobody asks for an
  hour that is over (`AskedInv`). `CountInv` bounds the key from above by what was
  started, until a cap that the zap has had is reached: refused runs do
  not use it up.

Counting occurrences in a history needs no induction: `WithinAppend` says what one
more entry does, and the invariants are carried from step to step.

Left to TLC: everything about liveness and fairness (`StepsSettle`, `RunsResume`,
`StoredIsProduced`, `RunInFlightFinishes`, `WantedEventRuns`, `WorkingAgain`). Every
invariant, action property and refinement of the passing runs is a theorem, two
of them (`DispatchedIsCovered`, `DeadLettersRest`) under the hypotheses above. The
findings are counterexamples of TLC.

## Not modelled, and why

* Signature verification is a Boolean of the event; encryption, password
  hashing, JWT and the state parameter of OAuth are library calls.
* `updateZap` and `updateStep` occur as what other code reads of them: switching
  a zap (`WebhookIngest`), its cap (`RunLimits`), the connection of a step
  (`TokenRefresh`). The rest of a step's configuration is frozen in the snapshot
  of a run.
* The kind of a connection is assumed to be the connector's `authType`, as the
  API writes it. Columns that nothing reads (`supportsIdempotencyKey`, the
  schemas of GitHub's triggers) are left out, and so is a payload with a key
  `step_n`, which the context would override.
* Clocks of workers that differ from each other, and Redis keys lost in a restart
  of Redis: the counters of `RunLimits` have one clock and survive. An `INCR`
  whose answer is lost is modelled, one that is executed late is not.
* Timeouts of the connectors' POST requests are the ambiguous outcome of
  `RunExecution`, whatever the provider did.
* Read-only controllers, the alert job, web frontend, seed data beyond the
  catalogue, logging, Sentry, configuration, Docker and CI: they change no state
  that a modelled part reads.
* Graceful shutdown of the processes: a stop between two statements is a
  `Crash` of the models, and a stop between messages changes nothing.

## Plan

Done: `StepLedger`, `EventLifecycle`, `RunExecution`, `OutboxRelay`, `ZapEditor`,
`WebhookIngest`, `TokenRefresh`, `RunLimits` and `StepContext` (with `StepData` and
`Connectors`), all that implement something with their refinements, and all with
their proofs.

Left:

1. Consequences of `EventLifecycle` alone, which then hold of each part by its
   refinement: a run in the queue keeps its row, nothing is claimed twice.
2. `DeadStaysDead` for several relays of which none is overtaken by the recovery
   job, and `DispatchedIsPublishedOrHeld` with crashes, for rows that no recovery
   has touched yet: weaker hypotheses than the two theorems have.
