# A formal model of RevBrain

RevBrain moves Salesforce CPQ implementations to Revenue Cloud. A user triggers an
*assessment run* for a project; a worker container extracts the configuration of the
customer's Salesforce org into *findings* and a normalized graph; a segmenter turns the
graph into migration waves; fee agreements, milestones and Stripe payments pay for it.

This directory holds TLA+ modules for the parts of that system that have a protocol, TLC
configurations that check them on small instances, and proofs, checked by TLAPS, of their
safety properties for all values of the constants. Paths below are relative to the
repository root; `PROJECT.json` maps every definition to the lines it translates.

Contents: [1 Inventory](#1-inventory) · [2 Modules](#2-modules-and-the-code) ·
[3 Runs](#3-what-the-runs-show) · [4 Fairness](#4-fairness) · [5 Proofs](#5-proofs) ·
[6 Limits](#6-what-is-only-model-checked-and-what-is-not-modelled) ·
[7 Observations](#7-observations-that-are-not-runs) · [8 Plan](#8-plan) ·
[9 Running it](#9-running-it)

## 1 Inventory

| part | state it keeps | operations | talks to |
|---|---|---|---|
| API server, assessment routes (`apps/server/src/v1/routes/assessment.ts`) | none of its own; rows `assessment_runs` | trigger, status, cancel, log | database; trigger proxy (fire and forget) |
| trigger proxy (`apps/trigger-proxy`) | none | authenticate, start a Cloud Run execution | Cloud Run |
| worker (`apps/worker`) | one process per run: lease, timers, shutdown flag, collectors in flight | claim, heartbeat, extract, persist, release, exit | database, Salesforce, API server (token refresh) |
| database (`supabase/migrations/0042*`, `packages/database/sql`) | the rows; a status trigger; a partial unique index; the sweeper (pg_cron) | `enforce_run_state_machine`, six sweeper statements | – |
| worker Salesforce client (`apps/worker/src/salesforce`) | circuit breaker per API, cached tokens, refresh promise | request, retry, refresh | Salesforce, API server |
| normalizer, segmenter, reports (`packages/bb3-normalizer`, `packages/migration-segmenter`, `apps/worker/src/{normalize,report,summaries}`) | none | pure transformations | called by the worker and the API |
| Salesforce connection (`apps/server/.../salesforce*`, `routes/internal.ts`) | the connection, its secrets with `token_version`, pending OAuth flows | connect, callback, test, refresh, disconnect, clean up | Salesforce, worker |
| payment webhooks (`routes/webhooks.ts`, `billing.service.ts`, `webhook-retry.service.ts`) | rows `billing_events` | deliver, handle, retry, clean up | Stripe |
| billing (`billing.service.ts`) | subscriptions, payments, plans | event handlers, checkout, refund | Stripe |
| fee agreements, milestones (`services/agreement*`, `milestone*`, `routes/si-billing.ts`) | agreements, tiers, milestones (in memory under every adapter) | create, accept, proceed, complete, amend, cancel | Stripe invoices |
| job queue (`services/job-queue.service.ts`) | rows `jobs` | enqueue, process | – (only a development route calls it) |
| accounts, organizations, limits, coupons, leads, support | rows of one organization | CRUD, invitations | e-mail, Supabase auth |
| middleware, alerting, repositories, contracts, UI | request filters, alert channels, adapters, schemas, screens | – | – |

Where it is hard:

* **Concurrency over one row.** A run's row is written by trigger and cancel handlers, the
  worker, a restarted worker and the sweeper; an event's row by every delivery and retry.
  No handler takes a lock; each awaits between reading and writing. The same holds for the
  row of a payment (webhooks and refunds) and for the rows of a Salesforce connection.
* **Failure.** Workers crash, are killed, or lose the database; launching one is a
  fire-and-forget call; a release may be refused by a trigger and is then swallowed;
  a write may be committed and its answer lost.
* **Time.** A lease of 90 s, renewals every 30 s with three tries, a buffer of 30 s and a
  sweeper every two minutes; retries with back-off; a circuit breaker with a reset time.
* **Shared state of callbacks inside one process.** p-limit, a shutdown flag read before an
  await, one refresh promise for all callers, a breaker that does not know when the
  request whose result it receives was sent.

What makes each part correct, and where that is stated:

| part | must hold | property |
|---|---|---|
| run lifecycle | legal moves only; one unfinished run per project; a retry budget; no run in flight for ever | `KeepsPromise`, `OneUnfinishedRunPerProject`, `InFlightIsTransient` |
| lease and attempts | running rows are visible to the sweeper; completed runs are quiet; attempts end; a worker without its lease stops in time | `RunningRowsAreLeased`, `CompletedRunIsQuiet`, `AttemptsAreClosed`, `SelfFencing`, `DetectedInTime` |
| pipeline | phases are barriers; gates decide the status; findings stored once; nothing runs on; shutdown stops new work | `PhasesAreBarriers`, `CompletedKeepsGates`, `FindingsStoredOnce`, `NothingRunsAfterReturn`, `ShutdownStopsExtraction` |
| payment webhooks | no accepted event is forgotten; processed means applied; every event ends | `NoEventIsForgotten`, `ProcessedMeansApplied`, `AcceptedEventsEnd` |
| Salesforce client | the breaker remembers; bounded effort per request; one refresh for all; every request ends | `BreakerRemembers`, `EffortIsBounded`, `RefreshIsShared`, `RequestsEnd` |
| billing | the row of a payment follows the money: it shows only totals Stripe has refunded, with the status that belongs to them | `BooksNeverAhead`, `LedgerKept` |
| Salesforce connection | a refresh never overwrites a newer token; deleted credentials stay deleted; one grant is stored; a live flow is not taken from its user | `TokensKept`, `OneGrantStored`, `LiveFlowKept` |
| segmenter | segments are the classes of items that cannot be separated; prerequisites migrate first, and no later than they must; hints name the cut nodes, those that leave the larger parts first | `SegmentsAreExact`, `OneMergePass`, `ReferencedFirst`, `WavesRespectEdges`, `WavesAreEarliest`, `HintsAreFirstCutNodes` |
| agreements, milestones | an agreement is accepted once; a paid milestone is never voided; the gates open when paid | none: the protocol is not wired (section 6) |

## 2 Modules and the code

```
RunStatus ── RunStateMachine            (abstract: what a poller is promised)
    └─────── AssessmentRun ── MCAssessmentRun        TLC instances
                  └────────── AssessmentRunProofs
LeaseTiming ─ LeaseTimingProofs         (the clock AssessmentRun abstracts from)
ExtractionPipeline ── MCExtractionPipeline
        └──────────── ExtractionPipelineProofs
WebhookEvents ─ WebhookEventsProofs
RefundLedger                            (abstract: what the row of a payment promises)
    └─────── Payments ── PaymentsProofs
SalesforceClient ─ SalesforceClientProofs
TokenStore                              (abstract: what stored credentials promise)
    └─────── SalesforceConnection ── SalesforceConnectionProofs
Items ┬ UnionFind ────────────────────────┬ Segmenter ┬ SegmentHints ┬ MCSegmenter
      ├ DependencyGraph ┬ StrongComponents ┤           │              └ SegmenterProofs
      │                 └ WaveOrder ───────┘           │
      └ CutSearch ─────────────────────────────────────┘
```

**RunStatus** has the nine statuses, the transition table of the database trigger
(`ValidTransitions`, `TriggerAllows`) and the two sets of statuses that different parts of the
code count as "active": the index counts stalled runs, the repositories' counters do not.

**RunStateMachine** is the abstract specification: rows appear one at a time in projects
without an unfinished run, move along the table, and a stalled run is re-queued until its
budget is spent and only then failed. `AssessmentRun` implements it: `Promise` is an
`INSTANCE` with `status` and `retryCount` mapped to themselves, and `KeepsPromise` is
`Promise!Spec`.

**AssessmentRun** composes all the writers of a row. Every `await` separates two actions.

| actions | code |
|---|---|
| `TriggerCheckOrg`, `TriggerCheckCap`, `TriggerCheckRate`, `TriggerInsert`, `TriggerDispatch`, `TriggerLaunch`, `TriggerAborts` | `POST …/assessment/run`: three counts, the INSERT (unique index), `casDispatch`, the launch, which may be lost, and any error in between |
| `CancelRead`, `CancelWrite` | `POST …/cancel`: reads the row, later writes by id |
| `Claim`, `ClaimFails`, `CreateAttempt`, `RenewLease`, `LeaseLost`, `PipelineReturns`, `ReleaseLease`/`Release`, `CloseAttempt` | `main()` of the worker and `LeaseManager` |
| `Sigterm`, `SigtermShutdown`, `Crash`, `ExitWith1`, `Restart` | `lifecycle.ts`, Cloud Run's `max_retries` |
| `SweepLeases` … `SweepNormalization` | the sweeper, one action per statement, in order |
| `LeaseAges`, `DispatchAges`, `AttemptAges`, `CreationAges` | comparisons with `NOW()` |

The clock is abstract here: a lease is `live`, `expired` (a claim may steal it) or `overdue`
(the sweeper may take it) and may age at any moment, which stands for a stalled event loop or
database as well as for time. What is true here is true whatever the durations.

**LeaseTiming** has the durations: the renewal timer, up to two overlapping renewals (`Slot`;
`TwoSlotsSuffice` proves that a third cannot happen), their tries and pauses, the age of the
lease and the sweeper's period, with the database's answer time (`QueryMax`), the event loop's
delay (`Lag`) and the time from claim to first heartbeat (`SetupMax`) as parameters.

**ExtractionPipeline** is `runPipeline()` between claim and release. `Start` is `run()` of a
collector up to its first await (the shutdown flag is read there), `Check` its cancellation
check, `Execute` the extraction with a nondeterministic outcome, `Write`/`WriteFails` the
transactional write with its retries; the gates are actions of their own. What is extracted
is not modelled.

**WebhookEvents** is the row of one Stripe event with its concurrent handlers: deliveries
(`Deliver`, `Lookup`, `Insert`, `LookupFails`, `Apply`, `Mark`, `Catch`, `Record`) and passes of
the retry endpoint (`Select`, `Clear` or `ClearFails`, then the same handler, then `Reread`,
`Reschedule` or `GiveUp`). An error of `scheduleRetry()` itself is taken for the end of the pass.
`accepted` is what Stripe knows: it was answered 2xx and will not deliver again. Any handler
may die at any await; `orphaned` is a history variable that remembers that a pass died while
it held the event, between `Clear` and setting the schedule again. Signature checks and the
effect of each event type are not modelled here; the effect is one flag.

**Payments** opens that flag for the events of one invoice: the row of `payment_history`, what
Stripe knows, and everybody who writes the row.

| actions | code |
|---|---|
| `ChargeFails`, `ChargeSucceeds`, `DashboardRefund` | Stripe, with the events it emits |
| `HandlePaymentFailed`, `HandlePaymentSucceeded` | `INSERT … ON CONFLICT DO NOTHING` of the two invoice handlers |
| `FindPayment`, `WriteTotal`, `HandlerDies` | `handleChargeRefunded`, which reads, awaits and writes the running total of its event |
| `RequestRefund`, `IssueRefund`, `RefundAtStripe`, `Book`, `RefundFails` | an administrator's refund: the route's check, the service's check, Stripe, the books |

An event that exists may be handled at any time and again: that is what `WebhookEvents` shows
of deliveries and retries. `Payments` implements the abstract **RefundLedger**: money moves in
one direction, and the books may be late, may even go back to an older total, but never show
one that was not refunded.

**SalesforceConnection** is the connection of one project in one role.

| actions | code |
|---|---|
| `CheckStatus`, `FindLive`, `FindPending`, `Supersede`, `InsertFlow` | `POST …/connect` |
| `FindFlow`, `ExchangeCode`, `CreateConnection`, `StoreSecrets`, `ConsumeFlow`, `Audit`, `Activate` | the callback of the browser |
| the steps of `Admin` | disconnect: read the secrets, revoke, delete, mark |
| the steps of `Tester` and `Delegate` | the connection test and the refresh for the worker, both with the optimistic lock on `token_version` |
| `FlowExpires`, `Cleanup`, `FlowDies`, `Forget` and the failures | the ten minutes of a flow, the cleanup job, a process that dies, answers that are lost |

There are no transactions; each await separates two actions. Tokens are numbered in the order
in which Salesforce issues them, so that "newer" has a meaning. The abstract **TokenStore**
says what readers of the secrets are promised, and `TokensKept` that it is kept: credentials
are stored once, replaced only by a token issued later, and once deleted never come back.

**Segmenter** is `segment()` up to its waves and **SegmentHints** the whole of it, with each
algorithm in a module of its own. A recursion or a loop of the code is a state machine here, its
call stack or array a set ordered by a number, and no operator is recursive: so all of it can be
proved about.

| module | actions and operators | code |
|---|---|---|
| **UnionFind** | `Root`, `Compress`, `Union` | `find()` with path compression, union by rank; the path that `find()` walks over is the least set closed under `parent` |
| **StrongComponents** | `Visit`, `FollowToNew`, `FollowToSeen`, `Return` | `tarjanSCC()`: a call of `strongConnect()` is a node in `calls`, an iteration of its loop a step; the call stack and the array `stack` are ordered by index, so sets describe them |
| **WaveOrder** | `BeginWaves`, `ProcessNode`, `NextWave`, `FinishWaves` | `assignWaves()`, Kahn's algorithm, one node per step |
| **Segmenter** | `Unite`, `BuildGraph`, `SearchStep`, `MergeCycles`, `NoCycles`, `WaveStep` | the strong edges in any order into the forest; the merge loop, which builds the graph of representatives, searches it and unites the cycles; the waves |
| **CutSearch** | `StartAt`, `AdvanceTo`, `LookAt`, `Retreat`, `LeaveRoot` | `findArticulationHints()`: a frame of its stack is a node in `frames`, a turn of its loop a step; the children a frame counts are the nodes that were reached from it |
| **SegmentHints** | `Analyse`, `CutStep`, `LargestWithout`, `Place`, `TakeHints` | the last phase: the search in each segment above the threshold, the ranking of what it found by the size of the largest part that is left, and the cap `maxArticulationHints`; the list of hints is the place of each item in it |

**DependencyGraph** is the graph `StrongComponents` and `WaveOrder` work on; its edges have an
identity, because the adjacency lists repeat a neighbour. `Init` ranges over all inputs of the
instance. The reference definition is one of the migration and not of graphs: a *stage* is a
set of items that could be migrated while the rest is not (`Stages`), and two items are
inseparable when every stage has both or none. For the hints it is `Splits`: without the
member, others are apart that strong edges held together; and `Part`, what still is together, by
which they are compared. `computeLargestComponentWithout()` measures along the search's adjacency
lists; the definition does not know them.

**SalesforceClient** is one API's client: `Begin` (the breaker admits or refuses),
`BeginLoad`, `LoadTokens`, `WantRefresh`, `UseTokens`, `RefreshEnds`, `Fetch`, and the five kinds of
answer. Retries are recursive calls in the code; the model keeps the innermost call's
`retryCount`. `fetches` and `forced` are history variables.

The proofs of a module are in a module of their own that extends it. Operators preceded by a
comment "Mutant" are plausible wrong versions of the definition they precede; `PROJECT.json`
says which property each of them breaks.

## 3 What the runs show

Runs that must pass (safety, action properties and liveness together; distinct states in
brackets where they help to judge the size):

| run | instance | shows |
|---|---|---|
| `life` | 1 run, 1 trigger, 2 cancels, `MaxRetries` 2, `JobRetries` 1 | type, `RunningRowsAreLeased`, `CompletedRunIsQuiet`, refinement `KeepsPromise`, `InFlightIsTransient`, `AttemptsAreClosed` |
| `pair` | 2 runs of one project, 2 triggers, symmetry | `OneUnfinishedRunPerProject` under racing handlers |
| `lease_timing` | ticks of 5 s: 18, 6, 1, 6, 24, 2, 1, 2 | `DetectedInTime`, `SelfFencing` at the deployed values |
| `pipeline` | discovery, 2+2+1 collectors, 2 at a time, 2 write tries, symmetry | the five pipeline properties; no deadlock: `runPipeline` returns |
| `webhook` | 2 delivery and 2 retry handlers, 3 retries, 3 deliveries, any of them may die [1.3 million, 2 min] | `ProcessedMeansApplied`, `NoEventIsForgotten`, `AcceptedEventsEnd` |
| `sf_client` | 3 callers, `Threshold` 2, `MaxRetry` 2 [133,097] | `BreakerRemembers`, `EffortIsBounded`, `RefreshIsShared`, `RequestsEnd` |
| `payments` | 2 refunds of administrators, 2 refund events in flight, an invoice of 3 cents | `BooksNeverAhead`, refinement `LedgerKept` |
| `sf_connection` | 2 authorizations, 1 disconnect, 1 test, 1 refresh for the worker, 3 access tokens | `OneGrantStored`, `LiveFlowKept`, refinement `TokensKept` |
| `segmenter` | every graph of 5 items with any of 5 strong and 5 ordering edges, at most 2 hints [159,170, 2 min] | `SegmentsAreExact`, `OneMergePass`, `ReferencedFirst`, `HintsAreFirstCutNodes`, `WavesRespectEdges`, `WavesAreEarliest` |

Runs that must find a violation: each checks one sentence of the repository's own text.

| run | sentence | what TLC finds |
|---|---|---|
| `v_cancel_completes` | `docs/MANUAL-TESTING-GUIDE.md:337`: status transitions to `cancel_requested` → `cancelled` | the worker releases with the pipeline's outcome, the trigger refuses `completed` from `cancel_requested`, `release()` swallows the error: the run stays in `cancel_requested` and blocks its project |
| `v_reconnect_works` | `docs/SALESFORCE-INTEGRATION-SPEC.md:851`: "Reconnect when ready"; `salesforce.ts:916`: "Please reconnect." | the row of the first connection is still there after a disconnect, and the callback of the second authorization is a plain INSERT into a table with one row per project and role: it fails |
| `v_all_payments_recorded` | `schema.ts:559`: the table records all payments | an invoice fails, its row says `failed`, the payment succeeds later, and `ON CONFLICT DO NOTHING` drops it |

**Why the bounds are enough.**

* *life*: the row of one run is the whole shared state of its protocol; rows meet only in the
  counts and the index of the trigger handler, which `pair` is for. Two cancels are what it takes for one to act on the other's write; `MaxRetries` 2 is
  the column's default and lets the sweeper re-queue twice and then give up; `JobRetries` 1 is
  the deployed value. Nothing about one run needs a third actor of a kind, and the theorems
  say so for the safety properties.
* *pair*: two handlers and two rows of one project race for the index; retries and cancels are
  off because they only take rows away from the index.
* *lease_timing*: the ratio of the durations matters, not the unit: 90 s, 30 s, 1 s (rounded
  up to a tick), 30 s and 120 s in ticks of 5 s. A query may take 10 s, the event loop be 5 s
  late, the attempt's INSERT take 10 s: generous for a database that answers at all.
* *pipeline*: two collectors per gated tier make "one of two fails" meet both gates, with
  exactly half succeeding at tier 1; three collectors in phase 3 exceed the limit of two.
* *webhook*: with `MaxRetries` 3 a failed retry is counted twice and still scheduled again; three deliveries allow a redelivery during a retry.
* *sf_client*: with a threshold of two and three callers, requests begun before the breaker
  opened end while it is open and half-open; two retries make retries nest and mix.

* *payments*: two refunds and two events race for the row in pairs; 3 cents allow two partial
  refunds in either order and a rest, so that "partial", "full" and "one too many" differ. The
  theorems say so for any number of either and any amount.
* *sf_connection*: two authorizations are what it takes to supersede, to consume each other's
  row and to create twice; a test and a refresh race for `token_version`. With three tokens the
  first grant and one refresh of each exist. The theorems have no such bound.
* *segmenter*: the strong edges are any of a triangle with a tail of two items, the ordering
  edges any of a path of all five items and an edge back. That has chains of five, two cycles in
  one pass, cycles of three, double edges between segments, and cut nodes with and without the
  search starting at them. A path of five has three cut nodes, of
  which one leaves a smaller part than the other two and two leave the same: more than `MaxHints`
  2, with a tie. `LargeSegment` is 2 instead of the code's threshold so that small segments are
  analysed. All of it is proved for any finite graph, threshold and cap.

Deadlock is checked in every run but `webhook`, where an event may be over with nothing left
to do. In `ExtractionPipeline` the step `Terminated`, and in `SegmentHints` the step `HintsEnded`, mark
the states in which stopping is right, so that the absence of deadlock says that the pipeline
and the segmenter return.

## 4 Fairness

* **AssessmentRun.** Weak fairness of each handler (`TriggerStep`, `CancelWrite`), each worker
  (`WorkerStep`), the sweeper and the ageing of leases, dispatches and attempts. A handler or
  worker that lives goes on or aborts (Cloud Run ends a task after 3600 s at the latest),
  pg_cron runs the sweeper every two minutes, time passes. *Not* assumed: that a user cancels,
  that a killed container is restarted, that a launch arrives, that a lease is renewed.
* **WebhookEvents.** Handlers that live go on, back-off ends, and the external scheduler keeps
  calling `/webhooks/retry`. Deliveries and passes may die at any step. `AcceptedEventsEnd`
  assumes only that passes do not die for ever (`<>[][~PassDies]_vars`): a pass that always
  dies before it records the failure would be scheduled again without being counted.
* **SalesforceClient.** Every await ends: the request of a collector carries its abort signal
  and a delegated refresh has a timeout of 5 s per try. The preflight request (`pipeline.ts:131`)
  passes no signal; it ends with the timeouts of Node's `fetch()`, or with the task. No fairness is assumed for new requests or
  for the reset time of the breaker.

The other modules are checked for safety only; `Payments`, `SalesforceConnection` and
`Segmenter` state no fairness. A refund, a user and a browser may stop at any point.

## 5 Proofs

Each theorem is proved for any constants that satisfy the module's `ASSUME`; TLC evaluates
those assumptions in the runs.

**AssessmentRunProofs** – `TypeCorrect`, `OneUnfinished`,
`SweeperSeesEveryWorker`, `CompletedIsFinal`, `Refinement`. None of the properties is inductive
alone. They need that a handler which inserts, dispatches or launches a row is the only one
holding it (`TriggersHoldDistinctRows`), that the row it is about to insert does not exist and
the one it has inserted has no container yet (`HeldRowsAreFresh`, `ContainersAreNumbered`).
`IInv` is their conjunction with the properties;
each action preserves it, one lemma per group of actions. `CancelsNameRows` is kept apart
because only the cancel handlers touch it. The refinement then maps each step: a step of an
API handler or a worker moves one row along an edge of the table (`OneRowMoves`,
`AdvanceIsRowStep`), a sweeper statement several, each along an edge of its own (`SweepEdges`).

**LeaseTimingProofs** – `TypeCorrect`, `Detection`, `GivingUp`, `Exclusive`, `TwoSlotsSuffice`. The age of
the lease is bounded by the time since the last timer callback, unless a renewal is under way
that has not written yet, and then by what its tries have taken so far (`LeaseIsYoung`,
`Elapsed`); callbacks are `Interval` apart (`CallbacksAreSpaced`). `Exclusive` – a run the
sweeper has taken has no live worker – holds under

    SetupMax + Interval + Lag + 3 * QueryMax + 3 * BackOff <= Lease + Buffer

that is, with the deployed 90 + 30 s and 30 s, as long as set-up, delay and three queries take
less than 87 s together. This inequality is the real requirement behind the constants in
`lease.ts` and the sweeper; the heartbeat pool sets no statement timeout, so that `QueryMax`
is an assumption about the database and not a fact of the code.

**ExtractionPipelineProofs** – the type invariant and the five properties, for any finite
sets of collectors, any limit and any number of tries. The invariant says for each phase what
is known of the collectors of the phases before and after it; `LateStarts` bounds the
collectors that read the flag before SIGTERM by those now in flight plus those already
counted, which is where the limit enters.

**WebhookEventsProofs** – `WebhookTypeCorrect`, `WebhookAppliedFirst`, `WebhookNotForgotten`.
`InHands` is the strengthening: an accepted, unprocessed and unscheduled event with retries
left is held by a pass that is past `Clear`, unless such a pass has died; so when all are idle
and none has died there, there is no such event. No assumption is made about who dies.

**PaymentsProofs** – `PaymentsTypeCorrect`, `PaymentsNeverAhead`, `PaymentsRefundedInFull`,
`PaymentsKeepLedger`. All of them come down to one thought: what a writer is about to write was
once true, and Stripe's total only grows. `EventsAreTrue` says it of the events,
`HandlersHoldTruth` of the handlers that have read one, and `AdminsHoldTruth` of the requests
whose refund Stripe has made: the total they read plus what they asked is at most the charge.
`IntentMeansPayment` and `StatusFits` tie the row's fields together.

**SalesforceConnectionProofs** – `ConnectionTypeCorrect`, `ConnectionOneGrant`,
`ConnectionLiveFlowKept`, `ConnectionKeepsTokens`. A row of secrets exists only after the
connection's (`NoRowNoGrant`, `StoredOnce`); what a connect is about to delete has expired
(`OldIsExpired`). For the tokens: a reader saw a version no newer than the row's
(`VersionsSeen`), and as long as the version is the one it saw, the token it got is newer than
the stored one (`TokenIsNewer`); that is what makes the optimistic lock enough.

**SegmenterProofs** – for any finite set of items and any strong and ordering edges:
`SegmentsExact`, `MergesOnce`, `PrerequisitesFirst`, `SegmentsFollowPrerequisites`,
`SegmentsWaitNoLonger`, `HintsExact`, and type correctness with the hints (`HintsTypeCorrect`)
and without (`TypeCorrect`); on the way `FindAlwaysEnds` and `ComponentsExact`; and of
`assignWaves()` alone, where the graph may have cycles, `WavesAfterPrerequisites`,
`WavesNoLater`, `CycleErrorIsTrue`, `WaveTypeCorrect`. The parts, from the bottom:

* *The forest* (`IsForest`): a node is its own parent or its rank is smaller than its parent's.
  So walking up ends, and at one root (`RootFacts`); compression changes no root
  (`CompressKeepsRoots`), and a union changes the roots of two trees only (`UnionJoins`).
* *Tarjan's search* (`SccInv`): an edge of a node that has returned leads to a node with an
  index (`EdgesFollowed`); what has been popped is closed under edges (`DoneIsClosed`); calls
  reach every later node of the stack (`CallsReachStack`) and each node of the stack reaches a
  call that is not later (`StackReachesCalls`); a low link is the index of a node on the stack
  that can be reached (`LinksAreTrue`), and no edge from what a call has finished leads below it
  (`LinksAreLow`, where `Owner` is the call in whose subtree a node is). From these, when `v`
  returns with `low = num`, what is on the stack from `v` on is one component.
* *The waves* (`WaveInv`): a node's counter is the number of its edges from nodes without a wave
  (`DegreesCount`), and a node is free exactly when it is in the current or the next wave or has
  one (`FreeIsReached`); the waves are bounded (`WavesAreBounded`), and a node becomes free only
  by a prerequisite of the present wave (`JustFreed`). When the algorithm throws, a set of nodes
  is left each of which waits for another; in an acyclic graph there is none (`AcyclicIsOrdered`).
* *segment()* (`SegInv`): in the first pass, the forest and the pairs that are left generate the
  same classes as the strong edges; in the second, the classes of inseparable items
  (`UnionsAreTrue`). A closed set of the graph of representatives is a stage and a stage is a
  closed set (`ClosedIsStage`, `StageIsClosed`), so a cycle of representatives is inseparable
  and, after the pass, there is none left (`OnePassIsEnough`). That is the reason for
  `OneMergePass`, and why the loop's circuit breaker is never reached.
* *The search for cut nodes* (`CutInv`): while a node has a frame, what was reached after it hangs
  together (`SubtreesHang`), and so do the frames before it (`PathHangs`); no edge leads from a
  finished node to another branch (`OverIsFenced`). A low is the number of a frame that an edge
  from below leads to (`LowsAreTrue`) and as low as any such edge, but for the one by which a node
  was reached (`LowsAreLow`). So when a child is finished, either nothing but its parent leads out
  of it (`FenceOfChild`), and the parent is a cut node, or it reaches, without its parent, the
  node above (`ChildComesBack`). What is known of finished nodes does not depend on the search
  any more (`ResultInv`): that children of a root are apart without it, that other children
  return above their parent or made it a cut node, and that finished nodes are judged rightly.
* *All of segment()* (`HintInv`): `HintsKeepSegments` says that the last phase implements the
  specification without it, so that what is proved of that one holds; segments are analysed whole
  (`AnalysedAreWhole`), and segments of two items have no cut node (`SmallSegments`).
* *The list of hints*: what is measured along the adjacency lists is what strong edges hold
  together (`MeasuredIsPart`, `LargestIsPart`), so that the code's order is the definition's. That
  members are placed by how many outrank them, and the list ends at the cap, makes it a list of
  the first ones in that order, as many as there are or as fit (`Ranking`).

`CutInv` was checked by TLC on all graphs over eight edges of five nodes, and `SccInv` on graphs
of four, before they were proved.

Seven theorems state what no run checks: `GivingUp` (a worker that cannot renew exits in time),
`TwoSlotsSuffice`, `PaymentsRefundedInFull` (a payment called refunded was given back to the
last cent), `CycleErrorIsTrue`,
`ComponentsExact`, `FindAlwaysEnds` and `HintsKeepSegments`.

**SalesforceClientProofs** – the type invariant, `ClientBreakerRemembers`, `ClientEffortIsBounded`,
`ClientRefreshIsShared`. The effort needs that fetches are at most `retry + 1`, and `retry` as
long as the current try has not been sent, and that a forced refresh happens at `retry = 0` only.

## 6 What is only model-checked, and what is not modelled

Only model-checked:

* the liveness properties (`InFlightIsTransient`, `AttemptsAreClosed`, `AcceptedEventsEnd`,
  `RequestsEnd`), because liveness under fairness is out of the prover's reach;
* the violations.

Everything else that the passing runs check is also proved.

Not modelled, and why:

* **Fee agreements and milestones.** The protocol is written but not wired. Both repositories
  are in-memory even under the Drizzle and PostgREST adapters
  (`repositories/drizzle/index.ts:65–67`); `handleInvoicePaid`, `handleInvoiceVoided`,
  `voidMilestoneInvoice`, the overdue service, `validateInvariants` and the two gates
  `requireAssessmentPaid` and `requireMigrationAccess` have no callers. Nothing ever sets a
  milestone paid, so that an agreement cannot get past its assessment; a model would have to
  invent the calls that are missing. What was seen while reading is in section 7.
* idempotency keys of the trigger route: a duplicate key is an INSERT that fails, which
  `TriggerAborts` covers;
* collectors, Salesforce adapters, normalizer stages, reports, summaries: sequential code over
  data; their outcomes are nondeterministic in `ExtractionPipeline`;
* checkpoints: written, never read back by a caller; progress: display only;
* the adaptive delay of `throttle.ts` and all other delays of the client: time only;
* the segmenter's validation of its input, labels, weights, hashes, samples, virtual segments,
  hazard records and statistics: they decide neither membership nor order;
* checkout, plan changes and subscription updates: not yet (section 8);
* the job queue: `process()` is called from a development route only;
* CRUD parts, middleware, alerting, UI: single statements or functions of one request. The
  user interface, the report's templates and the seed data are most of the repository's lines.

## 7 Observations that are not runs

Met while reading or modelling; no run states them, because no text of the repository promises
the opposite in a checkable way, because the text is only slightly wrong, or because the part is
not modelled. The first needs no run: no action of the model takes a re-queued row on.

*Lost runs are not recovered.* The documents promise that they are:
`docs/CPQ-EXTRACTION-SPEC.md:153` says "If the container crashes, a new one resumes from the last
checkpoint after the lease expires", line 936 speaks of a "sweeper-based retry via `stalled`
state", and the claim's test of an expired lease (`lease.ts:52`), `attempt_no` and `max_retries`
are written for it. The code does something else. The sweeper does re-queue a lost run, but the
job that would trigger it again (`create_assessment_sweeper.sql:77–96`) is a comment, and what it
says it leaves to the application layer has no code there; `casDispatch()` is called in one
place, for the row just inserted (`assessment.ts:267`), and a claim needs `dispatched`. (The
sweeper's own schedule is a comment, too, but its statements are complete: the model assumes that
somebody schedules them, and cannot assume a caller that does not exist.) So a
re-queued run stays `queued`, keeps its project blocked and only moves on by a cancel. The model
follows the code; that a run is claimed at most once in it is a consequence of the missing
recovery, and no property presents it as a guarantee. `InFlightIsTransient` is silent here,
because it counts `queued` as an end of being in flight. Once the job exists, `TriggerDispatch`
gets a second caller, and that no two claims are live at once becomes the property to state.

*Runs.* `updateRunAttempt` always writes exit code 0, `success`, for a failed outcome too. The
sweeper's fourth statement closes attempts of healthy runs after five minutes; its fifth
marks the normalization of every completed run failed after ten. `isCancelRequested` does not
recognize `cancelled`. `lease.ts` exits after one heartbeat's three tries, where the
specification (`docs/CPQ-EXTRACTION-SPEC.md:216`) speaks of two missed heartbeats. Writes of
findings are not fenced by `worker_id`; `SelfFencing` is all there is. The job has
`max_retries` 1, the specification 0. The PostgREST repository drops the idempotency key. "Max 1
active per org" (`assessment.ts:201`) does not hold for two handlers that count before either
inserts, in two projects of one organization. A cancel based on an old read moves
`cancel_requested` to `cancelled` while the worker still extracts, where
`docs/CPQ-EXTRACTION-SPEC.md:204` calls cancelled "acknowledged … and stopped".

*Pipeline.* A collector that times out returns `success` without findings; a write that fails
three times is only logged; `pipeline.ts:14` says cancellation is checked between phases, but
collectors check at their start; the registry's `requires` is not enforced; resuming from a
checkpoint, promised by the specification, has no caller. A partial collector leaves no trace in the
status, where `docs/CPQ-EXTRACTION-SPEC.md:201` has `completed_warnings`.

*Salesforce client.* A late success closes an open breaker directly, a half-open breaker admits
every caller, and a client error in half-open decides nothing. An exhausted daily limit, said
to abort the run, is retried as a network error. A first load of the tokens that was slow may
overwrite fresher ones after its await (`auth.ts:48`).

*Webhooks.* A failed retry is counted by the handler and again by `scheduleRetry`, so five
retries are two, and the message "Exhausted all N retries" overstates them. Concurrent
deliveries both apply. A late failure marks a processed row with an error, so that a redelivery
is processed again. The count can go down. "Our retry service will handle retries"
(`webhooks.ts:100`) has the one exception that `orphaned` records: a pass that dies after
clearing `next_retry_at` (`webhook-retry.service.ts:181`).

*Billing.* `charge.refunded` out of order shows an older total until the next event, and
concurrent refunds lose an update: the books are behind, never ahead. `subscription.updated`
out of order overwrites newer state. A payment without payment intent, which depends on the
API version, can never be refunded or follow a refund.

*Salesforce connection.* A callback that stores its tokens after a concurrent disconnect has
read none leaves working credentials with a disconnected connection; a test or an audit that
ends late writes `active` or `error` over `disconnected`; the refresh for the worker writes the
connection's metadata from a read before its calls (`internal.ts:119`). The grants of callbacks
that lost are never revoked. An abandoned window blocks connecting for ten minutes.

*Segmenter.* A representative without a wave would silently get 0 (`materialize.ts:122`); the
theorems say that there is none.

*Agreements.* The report gate asks for a milestone with `sortOrder === 1`, but the first one is
created with 100. Accepting a migration creates milestones that approving it has created.
Approving leaves the phase `active_assessment` with a declared value, which `validateInvariants`
forbids. Rolling back an acceptance keeps `acceptedAt`, so that the retry is refused as already
accepted. Cancelling invoices completed milestones and then voids them from the list read
before (`admin/fee-agreements.ts:494–502`); amending does it the other way round.

## 8 Plan

Done: 1 `AssessmentRun` with its abstract machine, instances and proofs; 2 `LeaseTiming`;
3 `ExtractionPipeline`; 4 `WebhookEvents`; 5 `SalesforceClient`; 6 `Payments` and its ledger;
7 `SalesforceConnection` and its token store; 8 `Segmenter` and its algorithms; each with
proofs.

Left, in this order:

9. **Agreement and milestones**, once they are kept in the database and the invoice webhooks
   call their handlers: two state machines with their routes; an abstract specification of an
   agreement's life; the gates, the amendment credit, and cancelling against a payment that
   arrives.
10. **Composition**: `ExtractionPipeline` inside `AssessmentRun`, so that the pipeline's outcome,
    now nondeterministic there, is the other module's result; `SalesforceClient` with the
    refresh of `SalesforceConnection`.
11. **Subscription updates** out of order, and idempotency keys in `AssessmentRun`.
12. **Job queue**, if it gets a caller.

## 9 Running it

    tlc -workers 2 -config Life.cfg MCAssessmentRun
    tlc -workers 2 -config Pipeline.cfg MCExtractionPipeline
    tlc -workers 2 -config Segmenter.cfg MCSegmenter
    tlapm SegmenterProofs.tla

`PROJECT.json` lists the module and configuration of every run. Each finishes within minutes.
