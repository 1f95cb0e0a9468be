# Formal model of the workflow platform

TLA+ modules for the services under `src/services` and the browser code under `src/apps` of this repository, the
TLC configurations that check them, and TLAPS proofs. Paths below are relative to the repository (`src/...`); in
tables `WF` is `services/workflow-api/src`, `AU` is `services/audit-service/src`, `NO` is
`services/notification-service/src`, `HO` is `apps/host-app/src`, `WI` is `apps/workflow-widget/src`.

    cd tla
    tlc -workers 2 -config WorkflowConcurrent.cfg MCWorkflowService      # one run
    tlapm WorkflowServiceProofs.tla                                      # the proofs of one module

`PROJECT.json` lists runs, mutants, the definition-to-source map, hazards, findings and theorems.

## 1. The system: inventory

A request reaches **workflow-api** (2 replicas, Fastify), passes the tenant, rate limit and idempotency hooks, and
becomes a statement-by-statement handler that keeps workflows in PostgreSQL and writes an event per transition into
`outbox_events`. The **outbox relay** inside workflow-api publishes the events to Kafka (`workflow.events`).
**audit-service** (2 replicas) and **notification-service** (1 replica) consume them as two consumer groups, the
latter pushing them to browsers over SSE. The two services share a retry topic and a dead letter topic;
audit-service stores dead letters and replays them. In the browser the **host application** holds one stream per
tab and embeds the **workflow widget**, which loads, polls and decides.

| component | state it keeps | operations | interacts through | what is hard | module |
|---|---|---|---|---|---|
| WorkflowService `WF/services/workflow.service.ts` | rows of `workflows`, `workflow_steps` | create, submit, approve, reject, cancel, delete by tenant | PostgreSQL; `saveToOutbox` | every `await db` is a transaction of its own; handlers act on the snapshot they read; UPDATEs test only the id; crash between statements | WorkflowService |
| RulesEngineService `WF/services/rules.engine.ts` | `workflow_rules` | choose a rule, generate steps | called by create | boundaries of amounts and orders, gaps in orders, ties in priority | RulesEngine |
| DelegationService `WF/services/delegation.service.ts` | `delegations` | create, is this actor authorized, list | called by approve and reject | validity window; its answer is not enforced, only recorded | Delegation |
| Hooks: tenant, rate limit, idempotency `WF/middleware` | windows in memory per replica, `idempotency_keys` | count, refuse, claim a key, answer again, complete | PostgreSQL | a failed request leaves its key PROCESSING; two requests with one key; window boundary | RateLimiter, RequestPipeline |
| OutboxRelayService, EventProducer, start and shutdown `WF/services/outbox.relay.ts`, `WF/kafka/producer.ts`, `WF/index.ts` | `outbox_events`, `isProcessing`, `isConnected` | save, immediate relay, background pass, connect, disconnect | PostgreSQL, Kafka | duplicates, lost acknowledgements, outages, fallback mode, SIGTERM under a running pass, starvation | OutboxRelay |
| audit-service `AU/consumer.ts` | `audit_events`, `dlq_messages`, group offsets | handle a message of three topics, escalate, persist dead letter, replay | Kafka, PostgreSQL | redelivery, swallowed failures, retry limit, replay of what failed before | EventConsumers |
| notification-service `NO/consumer.ts`, `store.ts` | processed ids and notifications in memory, group offsets | deduplicate, store, broadcast | Kafka, SSE | memory lost and offsets kept at a restart; events seen again through the retry topic | EventConsumers |
| SSE stream `NO/sse.ts`, `server.ts`, `HO/context/SSEContext.tsx`, `HO/pages/NotificationsPage.tsx` | connected clients; the tab's stream, timeout and list | add, remove, broadcast, reconnect after 3 s, reload | HTTP | events broadcast while a client reconnects; a switch of the tenant; answers that overtake each other | LiveStream |
| workflow pages and widget `HO/pages/ExpensesPage.tsx`, `ApprovalsPage.tsx`, `WI/WorkflowWidget.tsx` | selection, rows, the workflow shown, preview mode | load, poll, select, decide, create, preview | HTTP, `postMessage` events | late answers, stale closures, an arithmetic of levels repeated in the client | WorkflowWidget, HostPages |
| Row-level security, telemetry, other pages, scripts, deployment | - | - | - | section 9 | - |

What makes each correct, and what becomes of it here:

* **WorkflowService** - nobody's decision is passed over: no order is left behind with a pending reviewer, an
  announced approval is true, a terminal status stays, a waiting workflow waits for somebody, every transition has
  its event, and each handler is as good as one atomic operation. *Checked; every invariant and the refinement
  proved.*
* **Rules engine** - the plan is the best applicable rule's, no amount falls between rules, no order is empty.
  *Checked and proved.* **Delegation** - who is recorded as acting for somebody was entitled to, and step and event
  agree. *Checked and proved.*
* **Request pipeline** - replays are truthful, a claimed key executes once, claims are not lost for no reason.
  *Checked and proved.* The limiter refuses nobody for another's requests (*checked and proved*); it is no sliding
  window, and what it admits in any window's length, up to twice its quota less one, is *proved* (section 6 has
  what the documentation says).
* **Outbox relay** - what is marked published is in Kafka; what is saved is published in the end. *Checked; the
  first proved.*
* **Consumers** - an event handled is audited, on its way, or a stored dead letter; clients are told of everything
  committed; nothing is listed twice; retries end. *Checked; the safety properties proved.*
* **Live stream** - no event twice, none of another tenant, at rest the list lacks only what no stream could bring,
  and the stream comes back. *Checked; the safety properties proved.*
* **Pages and widget** - no step is approved unseen, nobody is shown waiting at a level that is passed, the preview
  plays by workflow-api's rules, the widget catches up. *Checked; all but the last proved.*

## 2. Modules

    ApprovalProcess            the promise: one workflow as an atomic state machine
        ^ refinement
    SerialWorkflow             refinement mapping, EXTENDS WorkflowService
    WorkflowService            handlers statement by statement                        <- WorkflowServiceProofs
    RulesEngine                the step plan createWorkflow stores                    <- RulesEngineProofs
    Delegation                 on whose behalf a step was acted on                    <- DelegationProofs
    RateLimiter <- RequestPipeline   the hooks before and after a handler             <- RequestPipelineProofs
    OutboxRelay                outbox, relay, producer, broker                        <- OutboxRelayProofs
    EventConsumers             both consumer groups, DLQ, replay                      <- EventConsumersProofs
    LiveStream                 SSE server and one browser tab                         <- LiveStreamProofs
    WorkflowWidget <- HostPages      the widget, in the pages that embed it           <- HostPagesProofs
    MC*                        instances for TLC

`WorkflowServiceProofs` EXTENDS `SerialWorkflow` and so proves about all three modules of the first group.

How they meet: the step plan that `RulesEngine` produces is the constant `StepOrder`/`StepPolicy` of
`WorkflowService`, and `NoEmptyOrder` says when it has no gaps, which `SomeReviewerIsAwaited` (section 7) needs;
`Delegation` is the same handlers seen through the columns `acted_by` and `delegated_from`; the handler that
`RequestPipeline` abstracts to success or failure is `WorkflowService`'s; `SaveEvent` is where `OutboxRelay` begins
(`Save`); what `OutboxRelay` marks published is in the topic that `EventConsumers` reads with duplicates and in any
order (`Arrive`); what it broadcasts is `Broadcast` of `LiveStream`; and `HostPages` has the handlers of
`WorkflowService` between a tab's requests and their answers, again statement by statement, without the events.
`Served`, a step of `ApprovalProcess` as a function, is only what the preview is compared with.

### WorkflowService

Follows one workflow. `row` is its row of `workflows`, `steps` the status of each of its `workflow_steps`, `outbox`
the events written for it; `req[w]` holds the local variables of a handler invocation: program counter `pc`, the
snapshot it read (`row`, `steps`), the step it acts on, the siblings it has still to skip.

| action | code |
|---|---|
| `CreateRow`, `InsertSteps`, `InsertStepsFails` | `createWorkflow`: INSERT of the row; INSERT of the steps, whose failure is logged and forgotten |
| `ReadRow` | `getWorkflowById`: the first SELECT |
| `DecideSubmit/Approve/Reject/Cancel`, `Refuse` | the second SELECT (`getStepsForWorkflow`) and all conditions up to the first write, or the error answer |
| `MarkStep`, `SkipSibling` | UPDATE of the step acted on; one UPDATE per sibling, in the code's loop |
| `UpdateRow` | UPDATE of status and order computed from the snapshot |
| `SaveEvent` | `saveToOutbox` |
| `DeleteSteps`, `DeleteOutbox`, `DeleteRow` | `deleteWorkflowsByTenant` |
| `Abandon` | the handler ends anywhere between two statements: a crash, or a statement that throws |

`Resolved`, `NextStatus`, `NextOrder` and `EventKind` are the arithmetic of `approveWorkflow` (lines 325-374). A
step plan is a constant: `StepOrder` and `StepPolicy` are what the rules engine generated. Data left out: tenant,
title, amount, comments, actor names. Any handler may act on any step of the current order, as in the code, which
reads the delegation answer and does not act on it.

### ApprovalProcess and SerialWorkflow

`ApprovalProcess` has one action per operation and no intermediate state. `SerialWorkflow` maps the handlers onto
it: until a handler has saved its event the process is what the handler read when it started. A handler that runs
alone and to its end implements it (run `WorkflowSerial`, theorem `ServiceImplementsProcess`); one that may be cut
short does not (section 6).

### RulesEngine

`rules` is `workflow_rules`, `call[c]` what an invocation of `createWorkflow` holds, `workflows[c]` what it stored.
`Receive` takes custom steps as they are (`Expand` numbers those without an order) or goes on to `EvaluateSteps`:
the SELECT, whose rows come in any order that respects the priority (`Results`), and the loop that stops at the
first rule that applies (`FirstHit`), or else the default matrix. `EvaluateStepsFails` is the catch block.
`InsertRow`, `InsertSteps`, `InsertStepsFails`, `Abandon` are the statements of `createWorkflow`; rules are created
and deleted in between (`CreateRule`, `DeleteRule`). `call[c].read` remembers what was stored when the plan was
made.

### Delegation

Two handlers approve and reject steps of one order: `ReadToApprove`/`ReadToReject` pick the step, `Ask` and
`Authorize` are `isAuthorizedApprover`, its `const now` and its SELECT (`InForce`, `DelegatedFrom`), and the
handler's own `const now`; `Mark` is the UPDATE with `acted_by` and `delegated_from`, `Skip` the automatic skips,
`Announce` the event. The clock (`Tick`) and new delegations (`CreateDelegation`) run in between. It leaves out
what WorkflowService has: the workflow's own row.

### RateLimiter and RequestPipeline

`RateLimiter` is `checkRateLimit` as a function of bucket and time. `RequestPipeline` takes requests through
`Arrive` (tenant and rate limit, one step since neither awaits), `SelectKey`, `InsertKey`, the handler (`Succeed`,
`Reject`, `FailLate`) and `RecordResponse`. A failed statement on the key table lets the request go on (`Bypass`),
as its catch block does; `Crash` loses a replica's requests and buckets. Only the routes of `Recording` record
their answer: those on delegations and rules do not.

### OutboxRelay

`rows` is `outbox_events` (is the row there, `published`, `retryCount`), events numbered by `createdAt`; `kafka` is
one partition, since all events share a partition key; `proc`, `connected` and `pass` are a replica's process, its
producer's `isConnected` and its background pass; `relay[e]` is the immediate relay of event `e`. `Save`,
`RelaySelect`, `RelayPublish`, `RelayMark`, `RelayRecordsFailure`, `RelayStatementFails` are `saveToOutbox` and
`relayEventImmediately`; `StartPass`, `PassPublish`, `PassMark`, `PassRecordsFailure`, `PassStatementFails` are
`relayUnpublishedEvents` with its SELECT (`Batches`), loop (`Advance`) and `finally`; `Publish` is
`publishWorkflowEvent` with its three endings (acknowledged; not connected, returns anyway; throws). `Shutdown`,
`Disconnect`, `Exit`, `Restart`, `Crash` are `index.ts` and Kubernetes. Two replicas share the table without locks.

### EventConsumers

`topic` holds the messages of `workflow.events`, the retry topic and the dead letter topic; `pos` and `committed`
are each group's position and committed offsets; `audited` and `letters` are audit-service's tables; `processed`,
`inbox` and `seen` are notification-service's ids, its list, and what it has broadcast. `eachMessage` has one
durable effect, so handling a message is one action: `Poison`, `Audit`, `AuditFails` (with `Escalate`),
`PersistDLQRecord(Fails)`, `Notify`. `ReplaySend` and `ReplayMark` are the two effects of `replayDLQMessage`, with
`ReplayFails` between them. `Commit` and `Rebalance` model the consumer group protocol of kafkajs (not part of this
repository), `Restart` a process start, including the one that cannot reach the broker and leaves the service
running without a consumer. Each topic has one partition here; the two audit replicas are one group, whose
rebalancing is `Rebalance`.

### LiveStream

A connection is a record both sides know parts of: the tab's `browser` state, the server's `server` state, whether
the network has broken it, and the `channel` of what was written and not yet handled. `AddClient`, `RemoveClient`,
`Broadcast`, `AnswerFetch` are notification-service; `Receive` (with `Handle`), `StreamError`, `Reconnect`,
`Switch` are the effect of `SSEProvider` and its cleanup; `FetchReturns`, `FetchFails` are the notification page,
whose requests are answered and return in any order. `missed` and `overtaken` are history: what no stream could
bring, and whether an answer overtook another.

### WorkflowWidget and HostPages

`WorkflowWidget` is what the widget computes from a workflow and a user: which buttons it offers, which step it
acts on, the colour of a level (`Level`), the caption of a step (`Caption`), and the preview's state machine
(`MockAct`); and what a handler of workflow-api computes from the workflow it has read (`Accepts`, `Marked`,
`Skipped`, `NextStatus`, `NextOrder`). `HostPages` is the page around it with everything that is on its way: lists,
single workflows, decisions and creations (`pending`), each carrying what its closure had captured (tenant,
selection). A request carries its handler at workflow-api (`pc`, `body`, `toSkip`), which takes one statement at a
time: `ListRows`, `ReadRow` and `ReadSteps` (the two SELECTs of `getWorkflowById`), `Decide`, `MarkStep`,
`SkipSibling`, `UpdateRow`, the re-read that ends a decision, and `InsertRow`, `InsertSteps`, `InsertStepsFails`.
`Colleague` begins such a handler for another user, `Broken` lets one end half way or go on when nobody waits for
it. `ListReturns`, `GetReturns`, `PostReturns`, `CreateReturns`, `RequestFails` the continuations after `await
fetch`, `SelectRow` to `ActivateMockMode` the user, `LiveEvent` and `Poll` the rest of the world.

## 3. Properties

Each property is stated in words above its definition. In short:

| property | module | says |
|---|---|---|
| `SettledBehind` | WorkflowService | no step below the current order is pending; none at all once APPROVED |
| `ApprovedEventTruthful` | WorkflowService | once `workflow.approved.v1` is in the outbox no step waits |
| `TransitionsAnnounced` | WorkflowService | every status reached and every order passed has its event, while nothing was cut short |
| `Unanimity`, `EventsChain`, `AwaitedStepExists`, `TerminalIsFinal` | WorkflowService | serial handlers: approval by all who had to; events without gaps; somebody is awaited; terminal is final |
| `ImplementsApprovalProcess` | SerialWorkflow | refinement of the atomic process |
| `QuorumAdvances` | WorkflowService | the last parallel approval moves the workflow (does not hold) |
| `PlannedByBestRule` | RulesEngine | a rule plans a workflow only if it applies and none that applies has a higher priority; the matrix only if none applies |
| `NoAmountBetween` | RulesEngine | two rules that share a limit leave no amount to the default matrix |
| `NoEmptyOrder` | RulesEngine | without explicit orders no order of a plan is empty |
| `Backed` | Delegation | who is recorded as acting for the approver held a delegation in this tenant that had begun and not ended when the handler asked |
| `ApprovalAnnounced` | Delegation | an approved step and its event name the same two people |
| `ReplayIsTruthful` | RequestPipeline | a replayed answer is that of a request of the same key that took effect |
| `ExecutedOnce` | RequestPipeline | of the requests that respected a claim at most one executes |
| `NoLostClaim` | RequestPipeline | a key is PROCESSING only for a request under way, or for a reason |
| `RefusedForItself` | RequestPipeline | nobody is refused for others' requests |
| `PublishedIsInKafka`, `BacklogDrains` | OutboxRelay | zero loss; the backlog drains |
| `Accounted`, `EventuallyAccounted` | EventConsumers | the audit trail has no holes; events reach it or the dead letters |
| `BroadcastAtLeastOnce`, `NotifiedOnce` | EventConsumers | no committed event was kept from clients; none is listed twice |
| `HandledOnce`, `OwnTenantOnly` | LiveStream | the tab handles no event twice, and none of a tenant it has left |
| `OnlyGapsAreMissed` | LiveStream | at rest the list lacks only what no stream could bring |
| `StreamComesBack` | LiveStream | in the end the tab has one live stream and the server no other client |
| `NothingUnseenIsApproved` | HostPages | an approval that takes effect is of a step that was shown and offered |
| `NobodyWaitsBehind` | HostPages | no step behind the current level, and none of an approved workflow, is shown as waiting |
| `PreviewKeepsTheRules` | HostPages | the preview moves as workflow-api would |
| `WidgetCatchesUp` | HostPages | in the end the widget shows what workflow-api has |

Six more are stated without a run, because TLC refutes them in a few steps (section 6): `NoReexecution` and
`QuotaPerWindow` (RequestPipeline), `ProxyAnnounced` (Delegation), `DeliveredInOrder` (OutboxRelay),
`GivenUpIsListed` (EventConsumers), `GreenMeansPassed` (HostPages). `StraddleBound` (RequestPipeline) is proved and
has no run: three requests cannot exceed it, and `BurstsStraddle`, an assumption of `MCRequestPipeline` that TLC
evaluates, is stronger evidence.

## 4. Runs

Passing runs (distinct states):

| run | bounds, and why they suffice |
|---|---|
| `WorkflowConcurrent` (527 000) | 2 handlers interleaved at every statement, 3 steps over 2 orders with both policies, 5 requests, 1 handler cut short, purge allowed. Two handlers are enough to make every snapshot stale; 5 requests go through submit, two approvals that race, and one more operation. Symmetry over handlers, which the safety properties do not tell apart. |
| `WorkflowSerial` (1 400) | 1 handler, 4 steps with both policies at one order, 6 requests: long enough for every path to APPROVED, REJECTED and CANCELLED. |
| `Rules` (2.1 million) | 2 workflows, 2 rules at a time out of 5 (limits that meet at 2, a department rule of higher priority, another tenant's, an inactive one), amounts on, between and beyond the limits and the tiers 3 and 4, custom steps, 1 fault. Two rules are what a boundary or a tie needs. |
| `Delegation` (2.3 million) | 2 handlers, 2 parallel steps, delegations that begin later, have ended, run the other way round or belong to another tenant, 3 moments, 2 requests. |
| `Pipeline` (1.8 million) | 3 requests of 2 tenants with limits 1 and 2, one key, one replica, a window of 2 and a clock up to 2 (both sides of a window boundary), 1 fault. Replicas share only the key table, between whose statements requests of one replica interleave as well. The limiter's arithmetic by itself is evaluated over all arrivals of up to 6 requests and limits up to 3 (`BurstsStraddle`). |
| `RelayNoLoss` (545 000) | 2 replicas, 2 events, one of which fails its schema; one outage, one failed statement or lost acknowledgement, one crash, one purge. No shutdown and no restart: with either, the property fails (run `RelayFallback`, section 6). |
| `RelayDrains` (167 000) | 1 replica, 2 events, the older one invalid, batch of 2; an outage, a fault, a crash, a shutdown, two restarts, a purge. One replica, because a second only adds passes that help. |
| `Consumers` (412 000) | both groups, a valid and an unparseable event, 2 messages on `workflow.events` (arrivals and replays), 1 retry before the dead letters, 2 faults of any kind. Two faults take a valid event to the dead letters, or put a crash beside any other failure. |
| `Live` (336 000) | 2 tenants, 2 events, 1 switch, 1 fault: a stream that breaks before, during or after the switch, with requests of both sessions out. |
| `Pages` (603 000) | an administrator and a team lead, 2 workflows of one tenant (both there, one of them still a draft, or one still to be created; one has parallel steps of which any suffices, and an order after them), a tenant without any, 2 inputs, 1 fault, 2 requests on their way at a time, handlers of colleagues included: enough for an answer to meet another selection or session, and for the statements of a decision to fall between the two SELECTs of an answer. |

The limits 20 (batch), 3 (retries), 10000 and 100000 (tiers), 100 requests and 1000 ms are constants; the runs set
them to small values, which reaches each limit. `MaxRetry` of OutboxRelay is where the model stops counting
`retryCount`, which no decision of the code reads. `CHECK_DEADLOCK FALSE` everywhere: all models end when their
bounds are used up.

Violation runs, one disagreement with the documentation each: `WorkflowQuorum`, `RelayFallback` (section 6).

## 5. Fairness

* `OutboxRelay!FairSpec`: the interval timer of a running replica fires again and a pass that has begun goes on
  (`StartPass`, `PassStep`); a draining replica disconnects and exits; Kubernetes restarts a replica that is down
  (Deployment); an outage ends. *Not* assumed: that an immediate relay ever takes its next step, since the code
  says it is best effort, nor that a broker outage or a crash ever happens.
* `EventConsumers!FairSpec`: a consumer of audit-service is handed the next message as long as there is one
  (kafkajs's fetch loop). No fairness for commits, replays or restarts, and none for notification-service, of which
  no liveness is checked.
* `LiveStream!FairSpec`: both event loops turn (`Server`, `Tab`): requests arrive and are answered, the end of a
  connection reaches both sides, the timeout of three seconds fires. Broadcasts, faults and switches need not
  happen.
* `HostPages!FairSpec`: requests are answered, answers return, the interval of thirty seconds ticks, as one weakly
  fair action: at most `MaxPending` requests are out, so none of the three can go on without the others. Nobody has
  to click.
* The other modules have safety properties only.

## 6. What does not hold

The code does the following, against what the documentation says. Two have a run that ends in a counterexample.

1. `WorkflowQuorum` - two last parallel approvals each see the other pending; the workflow stays PENDING with all
   steps APPROVED (`docs/ARCHITECTURE.md:343`, `tests/unit/parallel-approvals.test.ts:35`).
2. `RelayFallback` - a producer that could not connect reports success; rows are marked published and never sent
   (`README.md:103`).

Met while modelling, without a run of their own. Where a property is named, adding it to the run of its module, or
lifting the bound named, shows it.

* Row and event are separate statements; a crash between them leaves a transition without an event ("single atomic
  PostgreSQL ACID transaction", `README.md:102`): `ImplementsApprovalProcess` with `MaxAbandons = 1`.
* A handler that dies between marking its step and updating the row leaves a workflow waiting for nobody:
  `AwaitedStepExists` or `QuorumAdvances` with `MaxAbandons = 1`.
* With interleaved handlers an UPDATE that tests only the id replaces a terminal status (`docs/FEATURES.md:39-40`):
  `TerminalIsFinal` with two workers; and `reject` overwrites a step that an approval has counted: `Unanimity` with
  two workers.
* Immediate relays and passes overtake each other (`README.md:135`, `:88`): `DeliveredInOrder`. A batch full of
  rows that fail their schema hides every younger row (`README.md:104`): `BacklogDrains` with `BatchSize = 1`. A
  pass still running when SIGTERM disconnects the producer marks the rest of its batch published:
  `PublishedIsInKafka` with `MaxShutdowns = 1`. `retryCount` loses an increment when a pass writes back the value
  it read (`docs/FAQ.md:229`).
* A message dead-lettered again after its replay keeps its REPLAYED row (`docs/ARCHITECTURE.md:302-306`):
  `GivenUpIsListed`. The backoff delay of a retry is computed and logged, and never waited for.
* The limiter's windows are fixed, and what ends one and begins the next comes to twice the quota less one in a
  window's length, where the documentation has a "sliding-window token bucket enforcing per-tenant quotas"
  (`README.md:90`; `docs/FEATURES.md:224` the same): `QuotaPerWindow` with `MaxRequests = 4`.
* Two requests with one idempotency key that both find no row both execute: `NoReexecution`. A key whose operation
  failed stays PROCESSING, and so does every key of the delegation and rule routes, which record no answer.
* The delegation answer is recorded and not enforced. The event of a rejection does not say on whose behalf
  (`docs/FEATURES.md:59`): `ProxyAnnounced`. An automatic skip leaves `delegated_from` of an earlier decision
  beside the actor SYSTEM.
* Explicit step orders may have gaps; a workflow that reaches such an order waits for nobody (the hypothesis of
  `SomeReviewerIsAwaited`).
* A level drawn green need not be passed: `approve` marks the step before it moves the workflow on, and an answer
  that reads in between, or between whose own two SELECTs that happens, shows the current level green. After two
  last parallel approvals (run `WorkflowQuorum`), or an approval cut short, it stays so: `GreenMeansPassed`.
* The widget's reject, cancel and submit act on the selected workflow while the answer for another may still be
  shown; only an approval carries the id of the step shown. A preview goes on with a real workflow whose answer was
  under way when it began, and knows no policy; preview mode outlives a change of the selection. `onStatusChange`
  reloads the list of the tenant of the rendering that was clicked. Answers of the audit page for an old selection
  are shown like the others.

## 7. What is proved

The proofs hold for every value of the constants that satisfies the modules' named assumptions: any number of
handlers, requests, replicas, events, tenants, and any bounds.

**WorkflowServiceProofs** (interleaved handlers, crashes and purges included):

* `TypeCorrect`: `Spec => []TypeOK`.
* `Invariant`, `NoOrderLeftBehind`, `ApprovedEventsAreTruthful`: `Spec => []IInv`, and from it `SettledBehind` and
  `ApprovedEventTruthful`. Neither is inductive: a handler that holds a snapshot could write an order nobody has
  settled. `IInv` says why it cannot. *Settled* is stable (a step never becomes PENDING again), so whatever a
  snapshot showed settled still is (`SnapshotsBehind`); an approval that will declare its order resolved has
  settled, or has still on its list, every step of that order (`ApprovalsCover`, `SkipsAreDone`); and while steps
  have not been inserted nobody is past order 1 (`StepsComeFirst`, `BeforeCreation`). This is why stale snapshots,
  which break the lifecycle and the quorum (section 6), never pass a reviewer over.
* `StoryInvariant`, `TransitionsAreAnnounced`: `Spec => []TransitionsAnnounced`. `Story` says of the row *and of
  every snapshot* that what they show has been announced or is about to be by the handler that wrote it; since a
  stale handler writes a status or order computed from its snapshot, that is what carries the claim over its
  UPDATE.

The second half of **WorkflowServiceProofs** (ApprovalProcess and SerialWorkflow: one handler at a time that ends,
`OneHandler`; any plan of steps, any number of requests):

* `AloneInvariant` relates a handler under way to the rows: nothing has changed since its snapshot but what it has
  written itself.
* `ServiceImplementsProcess`: the refinement `Spec => ImplementsApprovalProcess`. Each statement of a handler is a
  stutter of the mapped process but the last, and this one is the operation.
* `ProcessInvariant` is the inductive invariant of the atomic process: the events form a chain (`Chain`), steps are
  stored together or not at all (`AllOrNone`), and while nobody rejects, orders are agreed to in turn and nobody
  after the current one was asked (`InTurn`). It is proved of `Process`, the mapped instance, and the refinement
  carries it over to the service, and with it `EventsAreChained`, `ApprovalIsUnanimous`, `SomeReviewerIsAwaited`,
  `TerminalStatusIsFinal`. `SomeReviewerIsAwaited` has the hypothesis that the orders 1 to `TotalSteps` all have
  steps: without it the theorem is false, and `NoEmptyOrder` of RulesEngine says which plans satisfy it.

**OutboxRelayProofs** (any replicas, events, batch size and bounds):

* `RelayTypeCorrect`: `Spec => []TypeOK`, with a non-empty batch in every running pass. The batch of the SELECT is
  a sequence of ids of unpublished rows by `Batches`; finiteness of the table gives its length.
* `RelayInvariant`, `ZeroEventLoss`: under `NoDeployments` (`MaxShutdowns = 0` and `MaxRestarts = 0`), `Spec =>
  []PublishedIsInKafka`. The invariant `RelayInv` adds that every replica that runs is connected (`AllConnected`),
  and that what a relay or pass is about to mark has been acknowledged (`SentIsInKafka`). The hypothesis is needed:
  TLC refutes the property with a restart or a shutdown. Crashes, outages, lost acknowledgements, failed
  statements, purges and any number of replicas are covered.

**EventConsumersProofs**: `ConsumersTypeCorrect`; `ToldAtLeastOnce` (`Told`: what is remembered as processed has
been broadcast, and so has every valid event before the position and the committed offset); `ListedOnce` (`Marked`:
what is listed is remembered); `TrailIsAccounted` (a message that is handled leaves its event audited, waiting in a
topic, or a stored letter; a rebalance only moves positions back).

**RequestPipelineProofs**: `PipelineTypeCorrect`, `ReplaysAreTruthful`, `ClaimantExecutesOnce`, `NoClaimIsLost`,
from invariants of the key table: the answer a row holds is of a request that took effect (`Recorded`); a row
belongs to the request whose INSERT it was, and a PROCESSING one has a reason to be (`Claimed`); a request that
executes without having gone past the table holds the claim (`Holding`).

Of the limiter, with any window length, limits, replicas and tenants:

* `WindowsAreBounded`: `Spec => []StraddleBound`, which is how far the code falls short of a sliding window, not
  the quota that the documentation promises. `Metered` tells a replica's history of a tenant apart at the start of
  its last window: since then it has admitted what the bucket counts, up to the quota; in the window's length
  before it at least one less than the quota, because the window before opened with an admission that is older than
  that. Twice the quota less one is the sum of the two, and a window that opens later has both in its past.
* `NoNoisyNeighbour`, an action property: `Spec => RefusedForItself`. Who is refused has a full bucket, and
  `Metered` says whose admissions filled it.

**RulesEngineProofs** (any rules, departments, amounts, orders; calls interleaved with rules that come and go):
`RulesInvariant`, with which a call remembers what its one SELECT returned: what planned a workflow is best among
the `Candidates` of *that* read (`Best`), whatever happens to the table afterwards; what is stored is the plan made
(`Origin`, `Written`). From it:

* `RulesTypeCorrect`: `Spec => []TypeOK`.
* `BestRulePlans`: `Spec => []PlannedByBestRule`. The rows of a SELECT are a permutation of the selected ones
  (`ResultsAreTheSelected`), in an order that respects the priority, so that the first that applies, a minimum of
  positions, outranks the rest.
* `LimitsMeet`: `Spec => []NoAmountBetween`. A shared limit lies within both rules, since both bounds are
  inclusive.
* `ImplicitPlansCanBeApproved`: `Spec => []NoEmptyOrder`, for any number of steps.

**HostPagesProofs** (any workflows, plans, tenants, users, requests in flight; handlers interleaved at every
statement or cut short; answers in any order; failures):

* `PagesInvariant`: `Spec => []IInv`. It says of every request in flight what its answer may do when it comes
  (`RequestInv`): an approval carries a target that was shown; the body of a GET or of a decision is a workflow of
  workflow-api's; the body of a preview's is the outcome of a decision on what the widget *still* shows. The last
  is what needs an argument: at most one decision of a mounted widget is in flight, as long as one is the widget is
  `acting`, and nothing but a workflow of workflow-api's can replace what it shows meanwhile.
* `HandlerInv`, part of it, says of every handler under way what it may still write. What it has read is `Passed`
  in the steps *as they are now*: whoever is behind the level it saw has a verdict, since a verdict never goes back
  to PENDING. And a handler that will declare its level over has marked, has still to mark or has still on its list
  to skip every step of it (`Writing`).
* `PagesTypeCorrect`: `Spec => []TypeOK`.
* `ApprovalsWereShown`: `Spec => []NothingUnseenIsApproved`.
* `NobodyIsLeftWaiting`: `Spec => []NobodyWaitsBehind`, of every plan. An answer pairs a row with steps that are
  read later, which by `Passed` can only be further than the row says; that is also why the converse,
  `GreenMeansPassed`, fails.
* `PreviewIsFaithful`, an action property: `Spec => PreviewKeepsTheRules`. `DecisionIsServed` compares the two
  state machines; it needs that the demo's steps must all be approved, which is an assumption of WorkflowWidget and
  true of `DEFAULT_MOCK_WORKFLOW`.

**DelegationProofs**: `DelegationTypeCorrect`; `ProxiesAreBacked` (what a handler holds between SELECT and UPDATE
was granted for the time it asked at, which is no later than its `actedAt`, and delegations are never taken back);
`ApprovalsAreAnnounced` (an approved step's event is in the outbox, or its handler still holds it).

**LiveStreamProofs**: `StreamInvariant` (every connection but the current one is closed, and the current one is
when a timeout runs: `OneStream`; connections are paid for by switches and faults: `Budget`; channels carry their
tenant's events, none twice and none handled before: `OwnContent`, `Fresh`), from which `StreamTypes`,
`NothingIsHandledTwice` and, as an action property, `NoForeignEvent`; `NothingFallsBetween` (every event of the
session's list is missed, on its way, or in the answer to the last request) and from it `TheListLacksOnlyGaps`.

`RulesEngineProofs` and `HostPagesProofs` use what the library says of finite sets to show that a finite set of
integers has a least and a greatest element (`ExtremesExist`): the library's `Min` and `Max` are choices.

Only model-checked: liveness (`BacklogDrains`, `EventuallyAccounted`, `StreamComesBack`, `WidgetCatchesUp`), which
is out of the prover's reach, as is anything about ENABLED. Every invariant and every other action property of the
passing runs has its theorem. No module declares a RECURSIVE operator.

## 8. Plan, and what is left of it

Done, in the order of what matters most: WorkflowService with its abstract process and refinement, OutboxRelay,
EventConsumers; RulesEngine and Delegation; RequestPipeline with RateLimiter; LiveStream; the pages and the widget;
proofs of the safety properties of all of them.

Left over, for whoever continues:

1. `EventPipeline`: a composition of the outbox (each saved event delivered at least once, in any order) with
   EventConsumers, and an abstract audit trail that it implements. Section 2 says where the modules meet; no run
   puts two of them side by side, but for HostPages, which has the handlers of WorkflowService of its own.
2. What a tenant gets of a whole deployment: `StraddleBound` is stated per replica, and two replicas admit twice as
   much.

The number of runs is kept small on purpose: violation runs whose finding another run or section 6 already shows
gave way to runs of other components.

## 9. Not modelled, and why

* Row-level security and `withTenantContext`: no handler that writes uses it, and the SELECTs of the handlers that
  are modelled filter by tenant themselves.
* The catch block of the notification handler: nothing in its try block can fail for the five event types
  published. The cap of 500 on the notification list: it only drops old entries.
* Several partitions: events of one workflow share a key and so a partition; across partitions nothing is promised.
* The audit, dead letter and rules pages, the navigation bar, badge and toast: they show answers and keep nothing
  else. The wrapper of the widget as a web component, `initialMockWorkflow`, what is typed into forms.
* Telemetry: nothing of it feeds back into the behaviour of the services. Scripts, test doubles, deployment files.
  JSON schemas are the constants `Invalid`, `Valid` and `Identified`.
