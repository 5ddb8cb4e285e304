# Trading discovery engine: verification project

The engine finds YouTube channels about trading, decides what each channel is, and finds the
community (mostly Discord) behind it. It is a TypeScript server on PostgreSQL. All work that
lasts longer than a request is a row of the table `jobs`. Worker loops claim these rows;
sweeps repair what crashes and races leave behind.

This directory holds TLA+ modules of the parts where order, failure and time decide whether
the engine is correct, TLC configurations that check them on small instances, and proofs
(TLAPS) of the main results for every value of the constants. Paths below are relative to
`src/server/` unless they say otherwise.

## 1. Inventory

| Part | State | Operations | What makes it correct |
|---|---|---|---|
| Durable job queue (`dbCore.ts`, `db.ts`, migrations 002 and 165) | `jobs`, `job_attempts`, `job_reopen_events` | `enqueueJob`, `claimNextJob`, `heartbeatJob`, `recoverStaleJobs`, `completeJob`, `failJob`, the reopen trigger | one worker executes a job; attempts are bounded; a claim is on record; reopens stay within their cap; a claim ends |
| Worker loops (`queueManager.ts`) | the local claim of each loop | `processNextSearchJob`: poll, claim, handle, complete or fail | as above, whatever other loops do between two statements |
| Investigation workflow (`investigationWorkflow.ts`) | `investigations`, `investigation_steps`, and the job of each step | schedule, start, heartbeat, complete, fail, recover, adopt, repair | an active investigation has something to wait for; a step and its job agree; a completed step is final; one step per action that anybody may work on |
| Canary completion (`relationshipCanary.ts`) | the canary's job and attempts | one fenced transaction | a late worker finishes no newer claim |
| Review decisions (`reviewStore.ts`) | channel, review, active jobs | approve, reject (cancels the jobs of the channel) | a decision is not undone by a worker |
| Capacity recovery (`communityRecovery.ts`) | `jobs`, channel projection | revive jobs ended by lack of capacity, enqueue retries, close obsolete ones | each job is revived within the reopen cap |
| Maintenance scheduler (`operationalMaintenanceScheduler.ts`) | a timer | runs the sweeps one after another, isolating their failures | every sweep runs again and again |
| YouTube request scheduler and provenance fence (`youtubeRequestScheduler.ts`, `officialYouTubeQuotaFence.ts`) | an in-process queue, one drain loop, the origin of each request | submit, drain, replay, cool down | aged requests are served; each request is settled, under its own origin |
| Query runs and continuation (`dbCore.ts`, `autonomousPageStore.ts`, `queueManager.ts`) | `query_runs`, page observations, one job per page | start, page, defer, continue, complete, fail, resume | a run ends; none loses its continuation |
| YouTube key health (`youtubeKeyHealth.ts`, `youtubeProviderCooldown.ts`, `youtube.ts`) | cooldowns in memory, suspension rows, a chain of writes | dispatch, quarantine, rehabilitate, hydrate | memory and rows agree; an overtaken success rehabilitates no key |
| YouTube key and probe caps (`quotaKeyCapShadow.ts`) | leases, usage per key and day | reserve, send, charge, withdraw, sweep | no key is spent past its cap, nothing is charged twice |
| Daily quota ledger (`dbCore.ts`) | the tracker row, reservations | reserve, top up, charge, finish, expire, roll over | the budget is not admitted twice |
| Canary quota (`relationshipCanary.ts`) | usage rows | claim a share of the day | two cohorts do not spend one allowance |
| Gemini capacity (`providerResilience.ts`) | a session advisory lock, the provider events | acquire, wait, call, record, release | the windows between calls are kept over all processes |
| Vocabulary budget (`dbCore.ts`, `queryIntelligence.ts`) | ledger rows with leases and stored responses | reserve, replay, call, record, finish, sweep | the caps hold; a paid answer is not lost |
| Site inspection (`siteInspectionCache.ts`, `inspector.ts`) | one row per site, pending claims per channel | reuse, crawl and merge, admit, finalize, prune | no discovery is lost; borrowed coverage hides no free invite |
| Persistent research bootstrap (`persistentResearchController.ts`, `persistentResearch.ts`) | control row with a fence, runs, actions | start, arm, cycle, allocate, settle, disarm, configure | a run stays within its bounds; what serves has authority |
| Claim budget guards (`queueManager.ts`, `dbCore.ts`) | counts of recent claims | count, then claim | the daily budget is kept |
| Scheduler lock, channel scan locks, topic pilot | single rows with expiry | acquire, release, expire | one holder |
| Phase B observation outbox (`phaseBObservationOutbox.ts`, `classificationDiagnostics.ts`, `evidenceEngine/dualWrite.ts`) | outbox rows, results, the retirement ledger | capture, claim, record, complete, back off, sweep | what is captured or decided is recorded whole, or retired |
| Candidate admission, Phase B epochs, work ledger | state rows, telemetry | transitions, sealing | replay gives the same state |
| Evidence engine, classifiers, inspectors, country inference, query allocation, dashboard | none that outlives a call | pure computation, I/O, UI | out of scope here |

How they interact. Nearly all parts share the database, not messages: the worker loops, the HTTP
handlers and the maintenance loop read and write the same rows, in any number of processes.
A handler runs inside a worker's tick, between claim and completion. The pipeline inside a
handler enqueues further jobs or schedules workflow steps. Heartbeats run on a timer beside
the handler. Sweeps act on rows of workers they know nothing of. Row locks hold for one
transaction; many operations of the code are several autocommitted statements. A search job takes
its units from the ledger, its pages through the request scheduler, its key by key health and the
caps; the extraction of terms asks the vocabulary budget first and the Gemini capacity next.

What is hard. (a) Statements of two loops interleave between any two commits. (b) A worker
dies, or is only late, and is replaced: its late writes meet its successor's row. (c) Values
read before an `await` are used after it (`failJob`). (d) One of two statements fails.
(e) Sweeps work from a snapshot. (f) Counters are raised, lowered and reset by different
operations. (g) The Pacific day changes, and leases expire, between reading the clock and writing
what was decided from it. (h) Memory of one process and rows of all of them are two copies of one
verdict. `PROJECT.json` lists each place under "hazards".

## 2. The modules

| Module | What it is |
|---|---|
| `JobLease` | abstract: what the queue promises, a lease per job |
| `JobQueue` | the queue, its trigger, the worker loops, its sweeps |
| `JobQueue_proofs` | theorems of `JobQueue` |
| `InvestigationWorkflow` | one investigation: steps, their jobs, worker loops, sweep, adoption, repair |
| `InvestigationWorkflow_proofs` | theorems of `InvestigationWorkflow` |
| `YouTubeRequestScheduler`, `YouTubeRequestScheduler_proofs` | the queue in front of the YouTube API and the provenance that travels through it |
| `QueryRun`, `QueryRun_proofs` | a chain of query runs: page jobs, continuations, the orphan sweep |
| `YouTubeKeyHealth` | the health of the pool of YouTube keys, in memory and in rows |
| `PacificDay` | the quota day that `YouTubeKeyCap` and `QuotaLedger` count by |
| `YouTubeKeyCap` | the enforced caps per key and of probe work, from reservation to charge |
| `QuotaLedger` | the shared daily budget: reservations and the tracker row |
| `CanaryQuota` | the canary's claim on the daily budget, statement by statement |
| `SiteInspection` | the cached inspection of one site that several creators link |
| `ResearchBootstrap` | bootstrap runs, overlapping cycles, the control row and its operators |
| `VocabularyBudget` | the ledger that admits vocabulary extraction to an AI provider |
| `SharedRows_proofs` | theorems of `SiteInspection`, `ResearchBootstrap` and `VocabularyBudget` |
| `GeminiCapacity` | the pacing of Gemini calls over all processes |
| `ObservationOutbox` | the outbox of observations, their processors and the sweep |
| `MCJobQueue`, `MCInvestigationWorkflow`, `MCCanaryQuota`, `MCContinuation` | instances for TLC |
| `MCQueues` | the job queue and the outbox in one instance |
| `MCSearch` | scheduler, query runs and Gemini capacity in one instance |
| `MCServices` | key health, caps, ledger, site, bootstrap and vocabulary in one instance |
| `Queues_proofs` | theorems of `ObservationOutbox` and of `MCQueues` |
| `Search_proofs` | theorems of `GeminiCapacity` and of `MCSearch` |
| `Services_proofs` | lemmas about sums over finite sets, theorems of `YouTubeKeyCap`, `QuotaLedger`, `YouTubeKeyHealth` and of `MCServices` |

One action is one transaction, or one autocommitted statement. What the code does in two
statements is two actions, with everybody else free to act in between. A definition named
`X_Something` is the form a plausible bug would give `X`; the specification never uses it. It
shows that the properties would notice the bug.

`MCSearch`, `MCServices` and `MCQueues` put parts that share no variable into one instance: `subject`
(or `queue`) names the part that moves, and the others rest in their initial state. That is a way to run several
small models at once, not a claim that the parts do not work at the same time. `YouTubeKeyCap`
and `QuotaLedger` share the day of `PacificDay`, which their midnights change.

### JobQueue

`job` is the table `jobs`, one row per idempotency key; `attempt` is `job_attempts` in the order
of insertion; `recent` counts the REOPENED events in the rolling window, per channel and type;
`pc`, `exec` and `fail` are the locals of the worker loops: the point reached, the claim as it
was read, and what `failJob` read at its start.

| Action | Code |
|---|---|
| `Enqueue`, `ResetAnchor` | `enqueueJob` (dbCore.ts:2699), `enqueueOperationalEnrichmentRecoveryJob` (queueManager.ts:3674) |
| `UpdateJob` | the trigger of migration 165 on every UPDATE that can reopen |
| `RecoverStaleJobs`, `ClaimNextJob`, `NothingClaimed` | the start of a tick (dbCore.ts:2981, 2722) |
| `Heartbeat` | `heartbeatJob`, at any time of a busy loop |
| `MarkInspectionStarted` | `markCommunityInspectionStarted` |
| `CompleteJobRow`, `CompleteAttempts` | the two statements of `completeJob` |
| `CompleteCanary` | `completeRelationshipCanaryAttempt` |
| `HandlerFails`, `CaptureOpenAttempt`, `FailTransition`, `FinalizeFailedAttempt` | `failJob`: read, capture the open attempt row, write the disposition, close the attempt |
| `CancelByHumanRejection`, `RepairCapacityFailure` | `decideReview`, `reconcileCommunityAcquisitionRecovery` |
| `Crash`, `LeaseExpires`, `AnchorAges`, `ReopenEventAges` | death of a process; the passing of time |

Abstractions. `run_after`, priority, pauses and budget guards only decide which PENDING row a
poll may take and when: a poll takes any, or none. An error is one of the classes that
`decideJobFailure` tells apart. Time is a few flags (`stale`, `anchor`) that turn at any moment.
The handler's own work is one step that succeeds or fails. The flag-gated clock V2 columns and
the obsolete-retry sweep are left out. `recovered` and `exec.row` are history fields that only
properties read. Disturbances beyond crashes are enabled per instance by `Faults`.

### InvestigationWorkflow

`inv` is the row of `investigations`, `step` the rows of `investigation_steps` by sequence number,
`job` the row of `jobs` of each step (the migration makes `job_id` unique), `pc` and `exec` the
worker loops, `sweep` the rows that `recoverStaleInvestigationSteps` has selected and not yet
failed, `orphan` where the orphan reconciliation is with the channel.

| Action | Code |
|---|---|
| `ScheduleRoot`, `ScheduleSuccessor`, `AddStep` | `scheduleInvestigationStep` and the pipeline that calls it (ingestionPipeline.ts:905-915) |
| `SelectOrphan`, `AdoptOrphan` | `reconcileOrphanInvestigations`: select, then schedule one by one |
| `Claim`, `RecoverStaleJobs`, `NothingClaimed` | the queue, reduced to the columns the workflow depends on |
| `StartStep`, `StepIsOver`, `DeadlineExceeded` | `startInvestigationStep`: started, false, or the deadline error |
| `HeartbeatJob`, `HeartbeatStep` | the timer of the tick |
| `CompleteStep`, `CloseJob` | `completeInvestigationStep`, one transaction, and the `completeJob` that may follow |
| `HandlerFails`, `SuccessorRefused`, `FailJob`, `FailStep` | the catch block: `failJob`, then `failInvestigationStep` |
| `SweepSelect`, `SweepRecover` | `recoverStaleInvestigationSteps`: the locks of its SELECT are gone when rows are failed one by one |
| `HumanReject`, `ReviveJob`, `RepairProjection` | reviewer, capacity sweep, operator |
| `Crash`, `JobLeaseExpires`, `StepLeaseExpires`, `DeadlinePasses` | death of a process; the passing of time |

Abstractions. One investigation of one channel; checksums, snapshots and the event log are left
out because no code reads them back. A resulting status is one of four outcomes. `failJob` is one
write here (its four statements are in `JobQueue`), with the attempts it read at its start. A
worker that scheduled a successor reports the status the pipeline left open. A decision about the
root action is a free choice: the first action of a channel may be any.

### YouTubeRequestScheduler

`status` and `entry` are the queue, `drain` the loop with its locals, `contexts` and `limited`
history: under which origins a request went out, how many rate-limit answers it got.

| Action | Code |
|---|---|
| `Push`, `Age` | `scheduleYouTubeRequest`, and `starvationMs` passing for a queued request |
| `Step` | the loop selects, waits for the interval, starts the call, or starts it again after a pause |
| `Answer` | what the call ends with: result, rate limit, short shared cooling, other error |
| `Pace`, `WaitForPace`, `Drained` | the interval passes; the loop waits for it; the loop ends and may be started again |

Clocks are two flags. The pause of the shared cooling is bounded by `MaxCoolings`, because the code
absorbs such pauses without counting them: with unlimited pauses no request is ever settled.

### QueryRun

`run`, `page` and `job` are the rows of a chain of runs, `failures` the `failQueryRun` calls that
still follow a committed `failJob`, `sweep` the row that each orphan sweep read and how far it has come
with it. Maintenance ticks and forced sweeps of producers overlap, so there may be any number.

| Action | Code |
|---|---|
| `Schedule` | the run and the job of its first page |
| `Claim`, `Withhold`, `StartRun`, `DeferRun`, `RecordPage`, `Extend`, `Deny` | a page job from its claim to the stored observation, with its early returns |
| `Link`, `EnqueueChild`, `Complete`, `Close` | the continuation at the safety ceiling, then the parent, then the job |
| `Recover`, `FailJob`, `FailRun`, `WorkerDies` | a page whose observation is durable; `failJob` and `failQueryRun`; death of a worker |
| `SweepRead`, `SweepRetires`, `SweepSkips`, `SweepFinalizes` | an orphan sweep: it decides from a row it read before |
| `SweepLocks`, `SweepDenied`, `SweepEnqueues`, `SweepResumed` | under the advisory lock of the run: reservation and job in one transaction, then the progress |
| `SweepFails` | an error, or the death of the process, between two of these steps |
| `DeferralPasses` | time |

The two checks before the lock are not steps of their own: when the row was read its next page was
neither durable nor live, so a sweep may take the lock as if it had made them then, or skip the run
when it finds otherwise. Four outcomes stand for the pagination decisions. The exact bounds that choose among them, and
the ranking of queries, are left out.

### YouTubeKeyHealth, YouTubeKeyCap, QuotaLedger, CanaryQuota

`YouTubeKeyHealth`: `Dispatch`, `Failed` and `Succeeded` are a call; `WriteStep` is the head of the
chain of durable writes; `Hydrate` the load of the rows, which may fail; `Restart` empties the
memory; the other actions are time. Verdicts are ordered by `generation`, as in the code.

`YouTubeKeyCap`: `Begin` captures the day, `ReserveCap` is the transaction under the advisory locks,
`Send`, `Answer` and `FailRequest` the HTTP request, `ChargeCap`, `Withdraw` and `Abandon` the
accounting, which may fail, `SweepLeases` the release of expired leases, `CapMidnight` the change of
day between any two steps.

`QuotaLedger`: `Open` is the beginning of a transaction, where the day is read, before the tracker
row is locked; `TryReserve`, `TopUp`, `Charge` and `Reconcile` are what each then does,
`FinishReservation` ends an operation; `Lapse`, `LedgerMidnight` and `WorkerDies` are time and faults.

`CanaryQuota`: `Send` checks a connection out of the pool, the other actions execute one statement
on it, in whatever transaction that connection is.

### SiteInspection, ResearchBootstrap, VocabularyBudget

`SiteInspection`: `Read`, `Crawl`, `Refuse`, `Admit`, `Finalize` and `Fail` are one execution's way; `Expire`
and `Prune` end the row's life. `undecided` is history: what a channel recorded and has not decided.

`ResearchBootstrap`: the transactions of a run (start, arm, settle, abort, disarm) and of a cycle
(sweep, choose, allocate, materialise), and `Configure` of an operator. The lease of a cycle lasts
120 s and is never renewed, so cycles overlap freely.

`VocabularyBudget`: `Reserve`, `Replay` and `Duplicate` are the answers of admission, `Call`, `Record`
and `Finish` the extraction, `Crash` and `LeaseExpires` the faults. A call costs what was set aside.

### GeminiCapacity

`lock` is the session advisory lock, `gemini` the calls, `outcome` their events with their age.
Every other definition of the pacing decision is a window over these events.

| Action | Code |
|---|---|
| `Begin`, `TryLock` | `executeProviderCall`; the poll in `acquireGeminiCapacity` |
| `Defer`, `WaitUnderLock`, `StartCall` | `decideGeminiCapacity` and what follows from it, under the lock |
| `LedgerUnavailable`, `Abort` | the catch block: vocabulary refused, others sent unpaced; deadline or caller |
| `ProviderAnswers`, `Record`, `Release`, `Emit` | the outcome: recorded in the session of the lock, the lock given up, the event emitted |
| `Tick`, `CutSession`, `Crash` | time; PostgreSQL or the process drops the session, and the lock with it |

`kept` marks outcomes that were recorded as the code means them to be. Calls without a key or
account tag are left out.

### ObservationOutbox

`outbox` is the status of the row of each observation, `due` and `overtime` its clocks, `recorded` the
parts of its result that are stored, `reviewed` the committed review decisions, `retired` the ledger
of retirements; `task` is what each processor is doing: a flow that observes once, or a sweep.

| Action | Code |
|---|---|
| `Observe`, `Capture`, `CaptureInvalid` | a flow has observed; `captureObservation`; an older replica's capture, without validation |
| `ClaimObservation`, `NotClaimed` | the transaction at the start of `processObservation`, with `SKIP LOCKED` |
| `RecordResult`, `RecordBundle` | the row of the result, then the evidence bundle that a durable diagnostic requires |
| `CompleteObservation`, `Retry` | the two ends of `processObservation`, both by id and unfenced |
| `StartSweep`, `SweepNext`, `RecoverStale`, `SelectPending`, `EndSweep` | `triggerPhaseBObservationReconciliation`: missing labels first, stale rows next, then what is pending |
| `RecordingFails`, `StatementFails`, `ReplicaDies` | an error before or after a commit; a failed statement around it; death of a process |
| `BackoffOver`, `RunsOvertime` | time |

Payloads are left out: every captured payload but an invalid assignment can be recorded. The limit
of rows a sweep takes at once (25) is left out; an instance has fewer.

## 3. The runs

TLC checks deadlock in the runs of the queue and the workflow: an idle loop can always poll. The
other instances have an end: every request is settled, every run over, every bounded counter used
up. Their configurations say `CHECK_DEADLOCK FALSE`.

| Run | Instance | What it shows |
|---|---|---|
| `queues` | jobs: 1 retry job, 2 workers, 3 claims, limit 2, every failure class, no lease loss | `ExclusiveExecution`; `AttemptsWithinRecoveries`; the queue implements `JobLease` |
| | observations: a classifier, a reviewer, a sweep, an invalid assignment, 1 error or crash, fairness | `CompletedIsWhole`, `ObservationsEnd` |
| `lossy` | 1 canary job, 2 workers, 3 claims, all faults | `LeaseNamesNewestClaim`, `CanaryCompletedByItsClaim` |
| `reopen` | 2 enrichments of one channel, 2 workers, 2 claims, cap 1, guard on, statement faults and rejections | `ReopensWithinCap`, `GenerationPerReopen` |
| `live` | 1 retry job, 2 workers, 3 claims, lease loss and statement faults, ordinary failures, fairness | `ClaimsEnd`, `MarksNoNewerAttempt` |
| `workflow` | 2 workers, 2 actions, 3 steps, 2 claims, no disturbance, fairness | `FinishedTogether`, `OneRunnableStepPerAction`, `WorkerOwnsStep`, `StepsLeaveRunning` |
| `workflow_faults` | the same with every disturbance | `ActiveHasOpenStep`, `CompletedStepFinal` |
| `search` | scheduler: a manual, an autonomous and a probe request, 1 replay, 1 pause | `ProvenanceKept`, `ReplaysBounded`, `AgedNotOvertaken`, `EveryRequestSettled` |
| | query runs: a chain of 2 with 2 and 1 pages, 1 attempt, 1 fault, 1 sweep | `RunsEnd`; in `SearchInvariant`: `PagesInOrder`, `ContinuationsLinked` |
| | Gemini: a semantic and a vocabulary call on one key, five windows of 1 to 3 ticks | `WindowsHeeded`, `CapacityFreed` |
| `services` | health: 2 keys, 2 calls, 2 verdicts per life, 2 waiting writes | `MemoryMatchesRows` |
| | caps: 3 requests of 1, 1 (probe) and 2 units, 2 keys with a cap of 2, a probe cap of 1, 2 days | `SpendWithinCaps` |
| | ledger: 2 operations that ask for 2 and 1 of a budget of 2, one charge each, 2 days | `AdmissionWithinBudget` |
| | site: 2 creators, 2 invites | `DiscoveriesKept`, `BorrowedInvitesOwned` |
| | bootstrap: 2 runs, 2 cycles, 2 actions of cost 1 and 2, bounds 2 and 2 | `RunWithinBounds`, `ServingHasAuthority`, `OperatorConfigKept` |
| | vocabulary: 2 requests, 3 extractions, caps of 2 | `PaidResponseKept` |
| `settled`, `stranded`, `canary_quota`, `continuation` | the smallest instance that shows it | four disagreements, section 6 |

`queues`, `search` and `services` also check the type invariants of their parts (`QueuesTypeOK`,
`SearchInvariant`, `ServicesTypeOK`); the workflow's is proved.

Bounds. `MaxClaims` bounds the claims of a behaviour: two are needed for a worker and its
replacement, three for a replacement that is itself replaced while the first worker is still
late. In `workflow` two claims are a parent and its successor, or a step and its retry. `MaxGen`
bounds the generations that enqueues and sweeps open; `failJob` may open more. `MaxSteps` bounds
the sequence numbers: three are needed for a successor beside an adopted root. `MaxAttempts` of
1 or 2 makes both sides of the limit reachable within the claims. Two workers are enough for each
property, which speaks of one worker or a pair, and a third adds only further late writers of the
same kind.

In `search`, three requests are one of each kind that the order of selection tells apart, one
replay and one pause reach both sides of their limits, and two runs with a page below and a page
at the ceiling are a parent and its continuation. The windows of the Gemini calls all differ in
length from the wait that is allowed, so each of defer, wait and run is reached from each. In
`services`, two of everything meet in every order (two creators, two overlapping cycles, two keys,
two days), and every cap is below what is asked for. The third extraction makes a retry meet both
a late owner and a competing request. `MaxFailures`, `MaxWrites`, `MaxCharges`, `LastDay`, `MaxFaults`
and `MaxCoolings` bound counters that the code leaves open. In
`queues`, one mishap leaves work behind at every point of a processor, and a slow processor meets a
second one on its row without any. Sizes are 665,853 distinct states for `queues` (150,303 of them
the outbox), 252,613 for `search`, 956,893 for `services`, 0.3 to 4.4 million for the others that pass. The workflow
was also checked with five claims and three steps (11 million states) without an error, and
`OneRunnableStepPerAction` with three actions, four steps and four claims up to 19.6 million states (24
levels deep). Three Gemini calls were checked up to 2.3 million states. The invariants of
`QueryRun` and `HistoryKept`, which is proved and in no run, were also checked on a chain of three runs,
on one with runs of three and two pages (the first 10 and 13 million states), and with two sweeps
at once (1.5 million states, no faults; the first 9 million with one), without an error.

Symmetry among workers is used in runs without liveness.

Fairness. `ClaimsEnd` and `StepsLeaveRunning` assume that a worker loop goes on as long as its
process lives (`WF` of `Tick`): `startWorkerPool` polls in an endless loop and the handlers' calls out of
the process have timeouts. They assume that the clock makes an abandoned lease old (`WF` of the lease
expiries) and that the maintenance loop runs its sweep again and again (`WF` of `SweepSelect` and
of `SweepRecover` per row; the scheduler isolates the failure of each sweep and starts the next
round from a timer). Nothing is assumed of enqueues, heartbeats, crashes, reviewers, operators or
revivals. A run with bounded claims still says something: when the bound is reached, workers
find nothing to claim and poll on.

`EveryRequestSettled` assumes that timers fire, that the event loop runs the continuation of the
drain loop, and that every call is answered (each has a deadline). It assumes nothing of callers:
no further request need come. `RunsEnd` assumes that workers go on with a page, that a deferral
runs out, and that the sweeps, whose rotation orders runs by the time of their last visit, come
round to each (strong fairness of `SweepRead`, since a live job hides a run from them for a time). Of
pages, deferrals and sweeps it assumes only that some one goes on when one can, and nothing of
the state a sweep finds a run in. `CapacityFreed` assumes that time passes and that
each call that was begun goes on; crashes and cut sessions are not needed for it. `ObservationsEnd`
assumes that a processor whose process lives goes on, that ticks of the maintenance loop start a
sweep again and again, and that backoffs and the ten minutes pass; errors and crashes are bounded
by `MaxMishaps`, and nothing is assumed of observers. All calls,
requests and runs begin at rest, so that nothing fairness speaks of is enabled in a part that
`subject` leaves alone: the conditions of one part take no behaviour away from another.

## 4. What is proved

The proofs assume the named assumptions on the constants and no bound: they hold for any number
of jobs, workers, actions, steps and claims.

| Theorem | Statement | Assumption |
|---|---|---|
| `JobQueue_proofs!TypeCorrect` | `Spec => []TypeOK` | none |
| `JobQueue_proofs!Exclusion` | `Spec => []ExclusiveExecution` | `Faults = {}` |
| `JobQueue_proofs!AttemptsBounded` | `Spec => []AttemptsWithinRecoveries` | `Faults = {}` |
| `JobQueue_proofs!LeaseImplemented` | `Spec => ImplementsLease` | `Faults = {}` |
| `JobQueue_proofs!Generations` | `Spec => GenerationPerReopen` | none |
| `JobQueue_proofs!LeaseNames` | `Spec => []LeaseNamesNewestClaim` | none |
| `JobQueue_proofs!CanaryClaims` | `Spec => CanaryCompletedByItsClaim` | none |
| `JobQueue_proofs!ReopensCapped` | `Spec => []ReopensWithinCap` | none |
| `JobQueue_proofs!MarksOwnAttempt` | `Spec => []MarksNoNewerAttempt` | `Failures \subseteq {"terminal", "ordinary"}` |
| `InvestigationWorkflow_proofs!TypeCorrect` | `Spec => []TypeOK` | none |
| `InvestigationWorkflow_proofs!ActiveInvestigationHasOpenStep` | `Spec => []ActiveHasOpenStep` | none |
| `InvestigationWorkflow_proofs!CompletedStepsStay` | `Spec => CompletedStepFinal` | none |
| `InvestigationWorkflow_proofs!StepOwnership` | `Spec => []WorkerOwnsStep` | `Undisturbed` |
| `InvestigationWorkflow_proofs!StepAndJobFinishTogether` | `Spec => []FinishedTogether` | `Undisturbed` |
| `InvestigationWorkflow_proofs!OneRunnableStep` | `Spec => []OneRunnableStepPerAction` | `Undisturbed` |
| `YouTubeRequestScheduler_proofs!TypeCorrect` | `SchedulerSpec => []TypeOK` | none |
| `YouTubeRequestScheduler_proofs!Provenance` | `SchedulerSpec => []ProvenanceKept` | none |
| `YouTubeRequestScheduler_proofs!BoundedReplays` | `SchedulerSpec => []ReplaysBounded` | none |
| `YouTubeRequestScheduler_proofs!AgedFirst` | `SchedulerSpec => AgedNotOvertaken` | none |
| `SharedRows_proofs!SiteTypeCorrect` | `SiteSpec => []SiteTypeOK` | none |
| `SharedRows_proofs!Discoveries` | `SiteSpec => []DiscoveriesKept` | none |
| `SharedRows_proofs!Borrowing` | `SiteSpec => []BorrowedInvitesOwned` | none |
| `SharedRows_proofs!BootstrapTypeCorrect` | `BootstrapSpec => []BootstrapTypeOK` | none |
| `SharedRows_proofs!FencedServing` | `BootstrapSpec => []ServingHasAuthority` | none |
| `SharedRows_proofs!OperatorKept` | `BootstrapSpec => OperatorConfigKept` | none |
| `SharedRows_proofs!WithinBounds` | `BootstrapSpec => []RunWithinBounds` | none |
| `SharedRows_proofs!VocabularyTypeCorrect` | `VocabularySpec => []VocabularyTypeOK` | none |
| `SharedRows_proofs!PaidResponses` | `VocabularySpec => PaidResponseKept` | none |
| `Services_proofs!CapTypeCorrect` | `CapSpec => []CapTypeOK` | none |
| `Services_proofs!WithinCaps` | `CapSpec => []SpendWithinCaps` | none |
| `Services_proofs!LedgerTypeCorrect` | `LedgerSpec => []LedgerTypeOK` | none |
| `Services_proofs!WithinBudget` | `LedgerSpec => []AdmissionWithinBudget` | none |
| `Services_proofs!HealthTypeCorrect` | `HealthSpec => []HealthTypeOK` | none |
| `Services_proofs!MemoryAgrees` | `HealthSpec => []MemoryMatchesRows` | none |
| `QueryRun_proofs!RunTypeCorrect` | `RunSpec => []RunTypeOK` | none |
| `QueryRun_proofs!OrderedPages` | `RunSpec => []PagesInOrder` | none |
| `QueryRun_proofs!LinkedContinuations` | `RunSpec => []ContinuationsLinked` | none |
| `QueryRun_proofs!DurableHistory` | `RunSpec => HistoryKept` | none |
| `Search_proofs!GeminiTypeCorrect` | `GeminiSpec => []GeminiTypeOK` | none |
| `Search_proofs!Windows` | `GeminiSpec => WindowsHeeded` | none |
| `Queues_proofs!OutboxTypeCorrect` | `OutboxSpec => []OutboxTypeOK` | none |
| `Queues_proofs!CompletedWhole` | `OutboxSpec => []CompletedIsWhole` | none |
| `Queues_proofs!QueuesImplementsParts` | `QueuesSpec => Spec /\ OutboxInit /\ [][OutboxNext]_outboxVars` | none |
| `Queues_proofs!QueuesTypeCorrect` | `QueuesSpec => []QueuesTypeOK` | none |
| `Search_proofs!SearchImplementsParts` | `SearchSpec => FairSchedulerSpec /\ FairRunSpec /\ GeminiSpec` | none |
| `Search_proofs!SearchInvariantHolds` | `SearchSpec => []SearchInvariant` | none |
| `Services_proofs!ServicesImplementsParts` | `ServicesSpec =>` the specifications of its six parts | none |
| `Services_proofs!ServicesTypeCorrect` | `ServicesSpec => []ServicesTypeOK` | none |

`Faults = {}` leaves crashes, stale recovery and every class of failure; it excludes lost leases, failing
second statements and rejections by a human: with any one of them TLC finds both invariants violated
(`AttemptsWithinRecoveries` under a lost lease needs a limit of one attempt).
`Undisturbed` is `Disturbances \subseteq {"stepLeaseLoss", "operatorRepair"}`: a step's lease may run out
under its worker and an operator may repair the projection, but a job's lease is lost only by a
crash, and nobody revives or rejects the job. "None" means every disturbance and every bound.

The argument for the queue. `TypeOK` alone is not inductive: a busy worker's claim names a job,
which `TypeInv` adds. `ExclusiveExecution` is inductive on top of it: the updates by id in
`completeJob` and `failJob` are not fenced, but each is made by the worker that holds the fresh
lock, and a poll recovers only stale locks, which without lease loss no live worker has.
`AttemptsWithinRecoveries` needs `FreshSnapshot`: the attempts `failJob` read are still those of
the row when it decides, because nobody else touches a job that is being executed (`QueueInv`).
The refinement maps a row to a phase and the executing workers to its holders; each step is a
submission, a taking, a release, an abandonment, a reclaim, or a stutter.

The other theorems of the queue hold although updates by id do strike rows of other workers. They
rest on a sorting of every step by what it does to one job (`JobCases`: the row is kept, claimed,
settled, requeued or reopened), to one worker (`WorkerCases`: a worker that is busy afterwards has the
claim it had, unless it claims) and to the attempts (`AttemptCases`: only a claim adds a row). That the
row of a job never enqueued is still fresh (`AbsentIsFresh`) makes the sorting inductive. `LeaseNames` then
says that a claim is always its job's newest attempt: whatever else requeues a PROCESSING job takes the
lock off it, and nothing but a claim puts one on; `CanaryClaims` follows, because the fence asks for the
lock. `Generations` is the trigger. `ReopensCapped` needs that one scope has jobs of one type, guarded
alike. `MarksOwnAttempt` needs `RecordInv`: in a generation `attempts` never falls when no failure gives
an attempt back, so number and generation name one row, and a claim is on record in the row it
inserted. That is where an attempt given back breaks the marker's fence.

The argument for the workflow. The step lemma `RowSteps` sorts all actions: each either keeps the
rows and makes no investigation active that has no open step, or completes one step, or changes
one step that is not completed. `ActiveHasOpenStep` and `CompletedStepFinal` follow from it, with
every disturbance allowed: they rest on single transactions, not on ownership. Ownership needs
`OwnInv`: besides the property, that a claimed or failing worker still holds its job under a
fresh lock; that a worker about to close its job holds it or finds it completed; and that a
worker past a terminal `failJob` finds its job FAILED. The last part is what keeps its late
`failInvestigationStep` from hurting a successor: nobody can claim a FAILED job.

`OneRunnableStep` replaced a property that proved false. "An action has one open step" holds on the
instance of the run, but not with three actions and four steps: the sweep selects a step whose worker
died; the job is claimed again and fails for good, and its step with it; a completion of another step
schedules the action anew; the sweep then puts the failed step back to RETRYING beside the new one. What
keeps two workers from one action is that such a step's job is over (`FailedIsOver`), and that no step
takes a job back from being over (`OverStays`); a new step of an action is only inserted when no other is
open (`OldAndNewRows`).

The scheduler. `Provenance` needs `OriginInv`: the entry of a pushed request has the origin its caller
declared; an unknown one is never pushed, and the loop's own context plays no part.
`BoundedReplays` needs `ReplayInv`: a request that is not served has had no answer, and the loop's
counter is the count of its answers, which a pause leaves alone. `AgedFirst` follows from the rule
of selection alone, for any order of arrival.

The query runs. `RunInv` joins `PagesInOrder` and `ContinuationsLinked` with what they rest on. A
decision is one that its page can have (`DecisionsAllowed`): below `effective_max_pages` none meets the
ceiling, at it none goes on. A page that is observed has had a job, and a job belongs to a run that is
there (`RowsNested`). A worker about to link a continuation has its page observed at the ceiling, one
past it finds the run linked (`LinksBacked`); since a page at the ceiling has no successor, that page
stays the last one. The row a sweep read only lags behind (`SweepBehind`): counts rise, so a sweep that
takes the lock to resume page n + 1 read a run whose page n was observed, and its decision, which it
reads anew, still goes on and stays so (`TakenUp`). The proof does not use the advisory
lock: any number of sweeps may resume a run at once, and its pages stay in order. A late
`failQueryRun` is about a run that is there (`FailuresOfRuns`). That a page is fetched while it is not
observed rests on one execution per job, which the queue gives without lost leases (`Exclusion`).
`DurableHistory` follows: every statement that writes an end is conditioned on the run's being open, and
the sweep's progress, which is not, changes neither the status nor the count.

The instances. A step of `MCQueues`, `MCSearch` or `MCServices` is a step of each of its parts, or leaves
that part alone, and its initial states are theirs; so the instance is a behaviour of every part, and
what is proved of a part holds of it. Two things are not immediate. Key caps and daily budget share the
day: the midnight of either is the midnight of the other (`CapDay`, `LedgerDay`). And the fairness of the
outbox is stated in `MCQueues` for the time in which the outbox moves, so only its safety carries over.

The site. `SiteInv` joins both properties with what they rest on: what a channel decides on is
what its execution carries, a claim of the row is undecided or carried, and a row with no claims
has owners for all it found. `Finalize` and `Crawl` of other channels keep it because each merges
per channel.

The bootstrap. `ConfigurationInv` says that control which serves without an evaluated policy was
armed by a run and not configured since. An abort therefore meets control that it may take down,
and a disarming never meets an operator's. `WithinBounds` needs that a proposed action belongs to no run:
an allocation gives a run only actions that were free, counts what the run has in the same
transaction, and nothing ever moves an action from one run to another.

Sums. The caps and the budget are about sums over sets that the models fold with
`SumFunctionOnSet`. What a fold computes for every set needs an induction the provers cannot
instantiate; `Services_proofs` counts instead. A sum of natural numbers is the cardinality of the
set of pairs of an index and a number up to its term (`Tokens`, `SumCounts`). In place of induction, a
non-empty family of subsets of a finite set has a smallest member (`SmallestSubset`, from the
library's well-founded ordering of finite sets). Everything else (`SumSplit`, `SumWith`, `SumUnion`, `SumAtMost`)
follows from the library's facts about cardinalities.

The caps. Usage is the sum of what was charged (`KeyInv`, `ProbeInv`). From today on, charged and leased
together fit the cap; of past days only what was spent does, since the sweep frees leases that were
used. A request that goes out holds a lease of today (`RequestInv`), which ties the two: before midnight
what is spent stays within charged and leased, and after it nothing more is spent on that day. A
charge that comes after the sweep finds no lease to take and adds units that no later day counts.

The budget. `LedgerInv` adds one line to the property: the live reservations of all days together hold
no more than the budget. It is what a new day starts from, when used units go to zero and
reservations of the day before are still held.

The health of keys. Durable writes run one after another, so only the head of the chain has begun
(`ChainInv`). A verdict raises its key's generation, hence what is current was begun after it: a call that is
current left its key in no quarantine (`CallInv`), and a clear that is current has no suspension to
take back and no persist behind it. A clear that is overtaken while it deletes makes way for the
persist behind it. `KeyRowInv` says what holds while writes wait: a suspended key has its row, or a
persist on the way, or an unsaved one; and a row or a persist binds every key whose rows were loaded
before its first use.

The vocabulary. `StoredByOwner` says that a row which holds a response is held by the extraction that
stored it, or is free to replay. So a late owner finds its token gone, and the sweep spares it.

The pacing. `LockInv` says who can hold the lock: a call that is past the poll and whose session
was not cut. `KeptInv` says that a kept outcome is in the ledger unless its call still holds the lock
to record it. `WaitInv` is the heart: while a call waits under the lock with w ticks to go, every
kept outcome of another call is stored and will be as old as its window in w ticks. Time keeps
it, since ages and the wait move together, and no other call can record under that lock.

The outbox. A processor that is about to complete a row has stored its whole result, and nothing
stored is ever taken back. Together with `CompletedIsWhole` this is inductive, so it does not matter
that completion is not fenced: whoever completes the row, and however late, completes it rightly.

## 5. What is only model-checked

Liveness (`ClaimsEnd`, `StepsLeaveRunning`, `EveryRequestSettled`, `RunsEnd`, `CapacityFreed`,
`ObservationsEnd`) and everything about ENABLED is out of the reach of the proof system. All other
properties of the passing runs are theorems. The disagreements of section 6 are counterexamples of TLC. No
recursive definition is used.

Three conclusions are proved under a condition that the runs show to be needed or that section 6
explains: `MarksNoNewerAttempt` for failures that give no attempt back, exclusion and its companions
without lost leases, and the ownership of workflow steps without lost job leases.

## 6. Where code and documents disagree

Four disagreements have a run.

- `settled`: a parent step that completes after its successor settled the investigation
  overwrites its state; the reducer and its test keep a settled projection.
- `stranded`: a crash between `failJob` and `failInvestigationStep` leaves an ACTIVE investigation
  whose job is FAILED, which no sweep ever picks up; the workflow's document promises recovery.
- `canary_quota`: the transaction that claims the canary's share is sent statement by statement to a
  pool, so the lock and the sum do not exclude another claim; relationshipCanary.ts:532 says they do.
- `continuation`: the orphan sweep completes a run whose last page met the safety ceiling while the
  job that would have linked its continuation is at work or awaits its retry; dbCore.ts:5411 says
  that such a failure leaves the parent retryable.

The following were met while modelling and have no run of their own.

- Workflow. An action can have two open steps, one of them a step that had failed for good and that the
  sweep, from a snapshot taken before, put back to RETRYING (investigationWorkflow.ts:38, 41). No worker
  will claim its job again; `OneRunnableStepPerAction` says what is left of one open step per action.
- Queue. Neither stale recovery nor the claim looks at `max_attempts`
  (`src/docs/phase-3-recovery-baseline.md:51`). A `failJob` that captured no attempt row may close the row
  of a later claim (db.ts:61 and its comment at 19). A failure that gives its attempt back lets a
  late worker mark the next claim's attempt (dbCore.ts:2781 and its comment at 2769). The second
  statement of `completeJob` can close the row of a newer claim, after a reopen. A FAILED workflow
  job that the capacity sweep revives is closed as completed without any work.
- Query runs. `updateQueryRunProgress` has no condition: it can set a completed run's continuation to
  RUNNING and its cursor back. Between the check for a durable page and the fetch another execution
  of the same page may pay for it as well.
- Key health. A load of the rows that succeeds after an earlier one failed can replace a newer
  verdict in memory; `MemoryMatchesRows` excepts keys that were used before the load.
- Daily ledger. A charge whose transaction began before midnight and gets the tracker row after it
  sets `last_reset` back to the old day; the comment at dbCore.ts:1637 says it must not. The property
  counts such units (`uncovered`).
- Site inspection. A row stays PENDING when the finalization fails for good, and pruning at startup
  drops discoveries nobody decided on; `DiscoveriesKept` excepts the latter.
- Bootstrap. A batch of a run that was disarmed or aborted between its allocation and its settlement
  is left ALLOCATED, and a later cycle without a run materialises it. Starting a run while the
  fence of the one before is unsettled gets the new one aborted.
- Vocabulary. A reservation that is reopened and abandoned twice is charged once, since the spend
  of a row is the greater of the two amounts; dbCore.ts:5043 says every reservation counts.
- Gemini. A deferral is emitted as an event of the provider, so it counts as the last call of its
  operation: vocabulary work that asks more often than its interval keeps deferring itself, and
  deferred semantic calls prolong the quiet time of vocabulary. The comment at
  providerResilience.ts:135 says a rate limit of any route counts; the query matches the account.
- Outbox. candidateAdmission/store.ts:10 calls the persistence of a Stage 1 assignment a hard ordering
  barrier before classification. `processObservation` returns without an error when the row is
  locked by the sweep or waits for its backoff (`NotClaimed`), and the classification goes on.
- Outbox. A review's capture is not awaited. When the sweep captures the label first, or the process
  dies before the capture, the row keeps the sweep's payload, which has no creator type and no
  reason codes; the later capture finds the key taken.
- Outbox. Only invalid assignments are retired. A payload that can never be recorded (a projection
  mismatch, a creator type without reason codes) is tried again for ever, every 15 minutes.

## 7. Not modelled, and what is left

Out of scope: classification, scoring, inspection of pages, country inference, statistical query
allocation, routing of requests and the dashboard, which is most of the code by lines. They keep no
state between calls, or their state is data rather than protocol, and a finite model of them would
show nothing that their unit tests do not. The one-time SQL repairs of the migrations are not
modelled either.

Left out, with the reason:

- Claim budget guards: their counts join six tables with date arithmetic. A model would have to
  contain the data they count; `JobQueue` therefore takes any PENDING row.
- The scheduler's lock: its release is not fenced, but two holders insert rows under the same
  idempotency keys, and no property could tell.
- Channel scan locks: the trigger of migration 153 releases them inside the statement that ends the
  job, and the sweep (dbCore.ts:2991) repairs what is left. What remains are row-lock orders inside
  PostgreSQL.
- `ProviderRequestLedger` (dbCore.ts:1919): counters of one row per provider, day and month under
  one statement; a change of the cycle key begins a new count.
- Phase B epochs, the work ledger and the topic pilot: measurements beside the engine that nothing
  else reads.
- Inside modelled parts: the obsolete-retry sweep of the queue, the clock V2 columns, the shares of the
  quota ledger per origin, the canonical allocation of research, the rotation among eligible keys.
- Worker ids are built from pool, pid and index, and replicas in containers may share them; the
  models give each worker loop an id of its own.

Next, in this order.

1. `HistoryKept` in a run of its own, and the reservations that the advisory lock of a sweep guards.
2. The obsolete-retry sweep in `JobQueue`, and the channel projection of a job.
3. The payloads of the outbox, so that the three observations above become runs.
4. Claims and budget guards composed with `JobQueue`, over an abstract count.
