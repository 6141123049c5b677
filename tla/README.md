# Verification of The Norns

TLA+ models of the coordination core of The Norns, the TLC runs that check
them on small instances, and the TLAPS proofs that hold for every value of
their constants. `src/` is the repository; paths below are relative to
`src/apps/server/src` unless they start with `runner/` (`src/apps/runner/src`)
or `contracts/` (`src/packages/contracts/src`). `PROJECT.json` maps every
definition to the lines it models.

| File | What it is |
|---|---|
| `Lifecycle.tla` | the frozen task and run transition tables |
| `Execution.tla` | scheduling, dispatch, the runner, its events, recovery and completion |
| `DeviceControl.tla` | stopping a run on an enrolled device: cancellation, revocation, evidence |
| `Publication.tla` | how an attempt's commits reach the remote, with and without permits |
| `Steering.tla` | a run that waits for a human or is paused, and how it goes on |
| `Gateway.tla` | model calls of a run and the money behind them |
| `LeasedWork.tla` | the abstract promise of the leased job queues |
| `Debates.tla`, `PlanningRuns.tla`, `PlanReview.tla`, `Kickoff.tla` | debates, planning runs, plan versions with their reviews, from approval to an executing phase |
| `ConversationTurns.tla` | turns of the project manager (PM) and the usage policy that pays for them |
| `MC*.tla`, `MC*_*.cfg` | the instances TLC checks |
| `ExecutionProofs.tla`, `DeviceControlProofs.tla`, `PublicationProofs.tla`, `KickoffProofs.tla`, `PlanReviewProofs.tla` | theorems about the module of that name, checked by TLAPS |
| `WorkerProofs.tla` | theorems about `Debates`, `PlanningRuns` and `ConversationTurns`, and the lemmas on sums over finite sets |
| `WorkflowProofs.tla` | the theorems about the workflow components carried over to `MCWorkflows`, and those about `Gateway` and `Steering` |

## 1. The system

The Norns plans software projects with AI models and has coding agents carry
out the plan. A server keeps everything in one PostgreSQL database and runs
timers over it; a Runner daemon on somebody's machine executes the agents and
talks to the server over one WebSocket; a web UI calls the server over HTTP.

### 1.1 Components

Modelled, wholly or in part:

| Component | State | Operations | Interacts by | What makes it correct |
|---|---|---|---|---|
| Lifecycle tables (`contracts/v2/lifecycle.ts`, `persistence/v2/lifecycleMutation.ts`) | none | the legal edges; an edge outside them throws | rolls back the caller's transaction | terminal runs never change |
| Phase launch and scheduling (`coordinator/phaseLaunchService.ts`, `phase4Coordinator.ts`, `phaseQueueDrainer.ts`) | `phases`, `tasks`, `agent_runs`, `budget_reservations`, `commands`, `dispatch_jobs` | launch, drain, rework, `schedule` | writes a run, its money, its command and its job in one transaction | one live run per task; overlapping tasks exclude each other |
| Dispatcher (`phase4Dispatcher.ts`) | the lease columns of `dispatch_jobs`; one claimed job in memory | claim, deliver, retry, dead-letter, redeliver on reconnect | one per server process; sends on the runner's socket inside the transaction that marks the delivery | a delivery is final; nothing is sent for a stopped run |
| Runner daemon (`runner/daemon.ts`, `state.ts`) | durable command records and event buffer; live executions in memory | handle a command, buffer events, reconcile, emergency stop | the socket | a command is executed at most once; every run gets an outcome |
| Runner executor (`runner/v2Execution.ts`) | the worktree of a run | run the agent, verify, publish | events through the daemon's buffer | the order of its events |
| Event processor (`phase4EventProcessor.ts`) | `runner_events` and the rows above | one transaction per event | called by the socket handler, in order | late events of old attempts do no harm |
| Recovery monitor (`phase4RecoveryMonitor.ts`, `persistence/v2/budget.ts`) | none | expire stale dispatches, release a stalled phase, sweep orphan reservations | a 60 s timer, several transactions per scan | everything it acts on is read again |
| Recovery actions, completion (`phase4RecoveryActions.ts`, `phase4Completion.ts`, `phaseReviewAutoCompleter.ts`) | the rows above | human retry and cancel; automatic completion | HTTP and a timer | a completed task stands on a verified run |
| Device cancellation and revocation (`devices/cancellation.ts`, `revocation.ts`, `onlineControl.ts`, `actionAuthorization.ts`) | `device_run_cancellations`, the publication fence of a run, `devices.lifecycle`; the broker's connections in memory | project stop, watchdog stop, revoke, record evidence, redeliver pending stops | a best-effort hook after the commit, and the socket | a stop is answered; evidence is true and never taken back |
| Device side of it (`runner/deviceControlConnection.ts`, `deviceCancellationJournal.ts`, `liveRuns.ts`) | a journal file; the registry of live runs in memory | acknowledge, abort, prove the exit, report until confirmed | the same socket | exit proof only for a process tree that is gone |

The workflows around an execution:

| Component | State | Operations | Interacts by | What makes it correct |
|---|---|---|---|---|
| Publication (`runner/publication.ts`, `publicationPermit.ts`, `devices/publicationPermits.ts`) | the remote branches, `device_publication_permits`, `published_*` columns, `observed_head` | issue and consume a permit, push, forced retry, advance the base, report | git; HTTP; the event buffer | late attempts do not replace newer work; the recorded head only moves forward |
| Human waits, pause and resume (`coordinator/humanWait*`, `pauseResume*`, `conversations/actionDelivery.ts`) | waits, actions, delivery intents, checkpoints, reservation | question, answer, pause, resume, claim, provision | two timer chains; runner events | an answer reaches the agent; the money outlives the suspension |
| Provider gateway (`gateway/*`, `runners/inferenceProxy.ts`) | credentials, holds in memory, usage events | mint, authorize, hold, forward, settle, meter | HTTP and runner frames | no hold is left behind; bounded overrun |
| Debates (`debates/*`) | runs, turns, attempts, jobs, reservations | tick of a worker; start, pause, resume, cancel, stop after | leased rows; provider calls | hard caps; an unknown charge stops the run |
| Planning (`planning/*`) | planning runs with a lease token and deadline | claim, round, decide, kickoff, retry, recovery at start | leased rows; provider calls | one writer per run |
| Plans and reviews (`conversations/planWorkflow.ts`, `planning/reviewOnlySession.ts`) | plan versions, reviews, their leased runs | save, send to QC, resume, rule, waive, approve, cancel; passes of a worker | both write the same rows | what is approved is what was reviewed |
| Kickoff (`planning/executionKickoff.ts`, `projects/strategyBridgeService.ts`) | intents, phases, strategies | a saga of eight transactions | intents leased by callers | a plan is materialised once |
| PM turns (`conversations/turn*`, `inferenceBudget.ts`) | messages, attempts, reservations | send, stop, retry, propose, archive, restart | HTTP handlers; provider streams | one reply at a time; spend within the policy |

Not modelled:

| Component | State | Why |
|---|---|---|
| Migration (`persistence/migration/*`) | cutover markers | one operator-driven sequence; planned |
| Graph algorithms (`graph/*`), legacy engine (`engine/*`) | none | cycle check and critical path are planned as operators; the legacy scheduler is superseded |
| Device enrolment and grants (`runner/deviceEnrollment.ts`) | pending and active credentials | planned |
| Projects: activation, onboarding (`projects/*`) | project rows | one transaction per request, little concurrency |
| Mockups, visual evidence, deployments (`phase6/*`) | leased jobs | the lease discipline of `LeasedWork` around a renderer |
| GitHub Actions execution (`coordinator/actionsExecution.ts`) | rows mirrored from a third party | seen only through an HTTP API |
| Task context, verification policy (`execution/*`) | prompt content | data, not control |
| Agent host, workspace registry (`runner/agentHost.ts`, `workspaceRegistry.ts`) | processes and worktrees | operating system; the process tree is abstracted in `DeviceControl` |
| Knowledge, integrations, usage intelligence, users | records | little control state, third-party I/O |
| Web UI, contracts' wire schemas | none the server depends on | presentation and parsing |

The web UI, the schema definitions and the tests are most of the repository's
lines; the models cover the server's and runner's coordination code.

### 1.2 What is hard

- The send of a command happens before its delivery mark commits; a lost
  commit sends it again. Leases lapse under slow dispatchers.
- Server and runner crash independently; the runner keeps command records,
  events and the cancellation journal on disk and everything else in memory.
- A dispatch deadline can pass while the runner is already executing.
- Events of superseded attempts arrive late, and events behind a rejected one
  are applied out of order.
- Scans and hooks act on rows read in an earlier transaction.
- A stop is a row, a frame that may be lost, a journal entry and a report that
  may be lost; each of the two ends can restart in between.
- Paid calls happen between two transactions: a lapsed lease, a crash or a
  human's decision under them leaves a charge nobody knows.
- A review pass, a kickoff and a planning run take many transactions each, and
  a human, another worker or a restart may act between any two.
- A suspended run must keep its money while three timers sweep around it.
- A superseded attempt may still push to the branch of the next one.

`PROJECT.json` lists each as a hazard, with its line and the properties that
would catch it going wrong.

## 2. The models

### 2.1 Lifecycle

The two transition tables and their terminal states, as functions from a state
to the set of its successors.

### 2.2 Execution

One approved phase, its tasks and their attempts. A run is a pair of a task and
an attempt number; `designated` is the attempt the task row points at.

| Variables | In the code |
|---|---|
| `phase`, `task`, `designated`, `run`, `verification`, `reservation` | the rows of those names |
| `job`, `lease`, `leaseLapsed`, `attempts`, `command`, `lapsed` | `dispatch_jobs`, `commands` and which of their deadlines have passed |
| `claimed` | what the tick of each server process holds between claim and settlement |
| `scan` | the position of a recovery scan and the rows it selected |
| `connected`, `wire` | the socket and the command frames on it |
| `paused`, `executed`, `stage`, `outbox` | the daemon's fence, its durable command records, the live executions, its durable event buffer |

One action is one transaction or one synchronous block of the daemon:
`startPhase`, `Rework`, `ReworkRefused`, `retryOnce`, `cancelOnce`, `complete`;
`claim`, `deliverClaimed`, `deliveryThrows`, `retry`, `deadLetter`,
`settlementThrows`; `scanStart`, `expireStaleDispatch`, `scanRelease`,
`sweepResolve`; `handleLaunch`, `handleRecorded`, `handleRefused`, `started`,
`verified`, `published`, `emitFailure`, `bootstrapThrows`, `cancelledRun`,
`settled`; `Reconcile`; one `apply…` per kind of event, and
`rejectRunnerEvents`. The environment adds socket loss, crashes of either side,
slow leases, lost commits, deadlines and an emergency stop, each enabled by
`Environment` and, except for deadlines and human operations, charged to
`MaxFaults`.

Time is abstract: a deadline may pass at any moment once it is set. Money is
counted in reservations, not in dollars. Each buffered event takes effect once
(duplicates are recognised by sequence number before anything else), and an
event applied behind a rejected one leaves the buffer at once; in the code it
keeps a place in the send window until the watermark passes it. That second
effect is modelled in `DeviceControl`.

### 2.3 DeviceControl

The protocol that stops a run on an enrolled device. Each run is the only
attempt of its task, so that the socket can be modelled in full: frames to the
device in order (`toRunner`), evidence frames to the server (`wire`), frames
the server had read when the socket went away (`late`), and the five states of
the connection as the broker and the device see it (`link`): `down`, `up`,
`refused` (the server rejected a frame and is closing), `removed` (the broker
dropped a revoked device) and `stale` (the socket closed while the broker was
still delivering, and the broker goes on listing it). `hooks` holds what is
left of the post-commit hooks: send the stop, and, in a later transaction, mark
it unconfirmed if no connection was found. `tree` is the managed process tree,
which may outlive the daemon; `live` is what the registry remembers of it.

Server actions: `requestProjectStop`, `requestWatchdogStop`, `revoke` and their
replays; `requestCancellation`, `markUnconfirmedOffline`, `closeRevokedDevice`;
`Connect`, `deliverPending`, `reconcile`, `evidence`, `lateEvidence`, `event`;
`claim` and `deliverClaimed`. Device actions: `receiveCommand`,
`receiveCancellation`, `receiveEvidenceAck`, `receiveReconcileResponse`,
`Start`, `Finish`, `retryEvidence`. Faults: `Disconnect`, `RunnerCrash`,
`ServerCrash`, and two inside other actions (a lost commit in `deliverClaimed`,
an unproven exit in `Finish`). A duplicate exit acknowledgement for a record
that is not exited throws in a handler nobody awaits; the daemon dies, which
`receiveEvidenceAck` models.

Abstractions: both ends lose a socket in one step; `Finish` is one step
(status, release from the registry, durable record, acknowledgement), and the
events `succeeded`, `failed`, `cancelled` stand for the status and the
acknowledgement behind it; verifying and waiting runs count as running.

### 2.4 Publication

The attempts of one task share a branch. `at[a]` is the place of attempt `a`'s
publisher in `GitPublisher.publish`: the three places that ask for a permit,
the git calls behind them, and the report. `tree` gives the commits reachable
from a commit, so a push is a fast-forward when the old tip is in it; `branch`
and `base` are the remote. The server side is `run`, `stop` (the row of
`device_run_cancellations` and its fence), `permit`, `published` and `head`.
`guarded` chooses between `DeviceBackedGitPublisher` and the plain
`GitPublisher` for a whole behaviour. Actions: `schedule`, `runEnds`,
`requestStop`, `reauthorizePublication`, `issue`, `consume`, `unguarded`,
`permitRefused`, `applyPublished`; `committed`, `push`, `remoteTip`, `force`,
`integrateIntoBase`, `report`, `fenceArrives`, `runnerDies`. A fence that
arrives ends the publication in one step: whatever a killed git process still
achieves is the same as if it had been faster.

### 2.5 Steering

One run bound to a local runner that asks questions (`waits`), and actions of
the task's conversation that pause and resume it (`act`, `point`). `delivering`
and `resuming` are what the action tick and the continuation tick of the server
have in hand, so that a crash can cut them between claim and provision. `money`
is the reservation that must survive the suspension. Verifying counts as
running. `Sweep` gathers the timers (reservation expiry, question expiry,
checkpoint expiry, orphan sweep), `Runner` the steps and events of the agent.

### 2.6 Gateway

The calls of one run over both paths, each a sequence of steps: authorize, read
the settled spend, hold, forward, settle, meter. Each of the two budget
instances of the server has its own `held`. Prices are amounts up to a bound;
an answer may be seen with usage, without, or not at all.

### 2.7 LeasedWork, Debates, PlanningRuns, PlanReview, Kickoff

`LeasedWork` is the abstract queue: an item is absent, queued, held by a worker
and closed once, and never changes afterwards. `Debates` (turn jobs), `Kickoff`
(intents) and `ConversationTurns` (the provider calls of a turn) are shown to
implement it: `JobState`, `IntentState` and `AttemptState` are the refinement
mappings. `workflows` checks `LeasedWork!Spec` of the intents as
`IntentsAreLeasedWork` and of all calls that are paid for, a debate's and a
conversation's, as `PaidCallsAreLeasedWork`. Kickoff intents may be queued again
by a later claim, paid calls may not (`MayRequeue`).

- `Debates`: `debate` is the committed database of one run, `tick[w]` where
  worker `w` stands in its tick. Turn attempt, job and reservation are created
  together and are one row. Money is one integer for cost and tokens.
- `PlanningRuns`: the run row, the worker's calls, and the calls a deadline gave
  up on (`late`), which go on and report rounds.
- `PlanReview`: plan versions, reviews (with their planning runs), the work item
  and the passes of the workers. Contents are members of `Bodies`; what reviewer
  and PM say is whether findings are actionable and contested.
- `Kickoff`: phases keyed by plan and acting user, their strategies, the bound
  phase of each plan, intents with a lease, and calls in progress at one of the
  saga's stages.

### 2.8 ConversationTurns

A turn handler is a sequence of awaits (`Handle`): check, insert, reserve,
dispatch, stream, record usage, resolve, close. Conversations, attempts and
reservations are the durable rows, `reader` the holder of the policy's row
lock, `booting` the reconciliation after a restart.

## 3. What the runs check

TLC, two workers. The state counts are of the complete state graph.

| Run | Instance | States | What holds |
|---|---|---|---|
| `execution_attempts` | 1 task, 2 dispatchers; one attempt with any 2 faults, deadline, emergency stop; or 2 attempts by retry and rework, cancel, any 1 fault | 492 842 | `TypeOK`, `TerminalCommandHoldsNoMoney`, `CompletedTaskIsGreen`, `ExecutedAtMostOnce`, `DeliveryIsFinal` |
| `execution_deadlines` | 1 task, 2 attempts, deadlines, retries, rework | 1 012 860 | `LiveRunIsDesignated`, `ParkedPhaseIsQuiet`, `TerminalRunsFrozen` |
| `execution_liveness` | 1 run, any 2 faults, deadline, cancel, emergency stop, `FairSpec` | 133 153 | `RunSettles`, `MoneyReturns` |
| `device_stop` | 1 run, project and watchdog stop, any 1 fault, one repeated request | 1 610 117 | `ExitProofIsTrue`, `EvidenceEndsRun`, `RecordOutlivesReport` |
| `device_revoke` | 1 run, watchdog stop against revocation, one repeat | 1 414 061 | `TypeOK`, `EvidenceMovesForward`, `NothingSentAfterStop` |
| `device_answers` | 1 run, project stop, any 1 loss, `FairSpec` | 117 430 | `StopIsAnswered`, `ExitIsRecorded` |
| `workflows` | one component at a time, see below | 1 010 731 | debates: `DebateBudgetHeld`, `AmbiguityStopsTheRun`; debates and turns: `PaidCallsAreLeasedWork`; reviews: `ReviewAndRunAgree`, `StaleWorkerHarmless`, `ApprovedForGood`; kickoff: `PlanMaterialisedOnce`, `StaffingApplied`, `ExecutingPhasesBounded`, `IntentsAreLeasedWork`; planning: `RunHasOneWriter`; gateway: `HoldsAreOutstanding`, `SequentialOverrunBounded`; turns: `OneSpeaker`, `SpendWithinPolicy`; steering: `SuspendedRunKeepsBudget`; publication: `StoppedRunWritesOnce`, `NewerWorkStands`, `HeadMovesForward` |
| `workflows_liveness` | one worker, `FairSpec`, the parts `debates`, `review`, `waived`, `kickoff`, `planning`, `restarts`, `steering` | 43 041 | debates, reviews, kickoff, planning: `WorkSettles`; restarts of turns: `TurnsSettle`; steering: `AnswersReachAgent` |

`MCWorkflows` holds one instance of every workflow component; a behaviour picks
a component (`part`) at the start and leaves the variables of the others alone,
so that one run covers them all. `workflows` has two workers, two plan
contents, two conversations or pauses, two rounds and two attempts, and one
fault or crash per component (two for planning runs). Three parts are instances
of `PlanReview` (a lost worker; saves and setting changes during a review; a
waiver), two of `Kickoff` (one plan, two users and a retry; two plans whose
kickoffs overlap, and one caller may be lost), two of `ConversationTurns` (two
conversations under one policy; a restart).

`workflows_liveness` is smaller, with one worker and one round, and leaves
parts out: saves and waivers of `workflows`, kickoffs of two plans, turns under
one policy, the gateway and publication. Nothing is claimed to happen
eventually there. In their place it has `waived`: two reviews one after the
other, of which each may park, be waived or resumed; one worker may be lost.

`MCAttempts` lets a behaviour pick one of two environments in the same way.

Why the bounds are enough to be interesting: two attempts are what supersession,
late events and rework need; two dispatchers what a lapsed lease needs;
`MaxDeliveries = 2` reaches retry and dead letter; a fault may strike between
any two steps, and one is enough for every recovery path to be taken (the
proofs lift the bounds for the properties they cover; `execution_attempts` and
`execution_liveness` take two). `SendWindow = 2` makes
the window matter with the three to five events of a run. In `device_stop` two
frames may be under way when the evidence timer fires, which is what a
duplicate exit acknowledgement needs. Every action and every disjunct of the
next-state relations fires in some passing run. Dependencies between tasks
(`Predecessors`) are in the model and the proofs, and no run gives them a value
other than "none" yet.

`Execution` is checked for deadlock: some timer can always take a step. In
`DeviceControl` and in the workflow components all work may be over, so those
configurations switch the check off. Workers, plan contents, and conversations
or pauses are interchangeable, and the safety run uses that symmetry.

Every property has a mutant in `PROJECT.json`: a plausible mistake in the code
it is about, under which TLC finds the property violated.

### 3.1 Fairness

`Execution!Fairness` assumes what timers and promises of the code keep doing:
the dispatch tick (500 ms) and the recovery scan (60 s) of `server.ts:1211-1262`,
the queue drain and auto-completion (`server.ts:8340-8436`), the runner's
reconnect timer, the queue of received events, a live execution (it has a wall
clock of its own) and the passing of time. No fault and no human operation is
owed; an emergency stop counts as a fault.

`DeviceControl!Fairness` assumes that hooks run, that both ends read their
sockets and that the device reconnects. A rejected event may close the socket
on every connection, so what a connection starts with needs strong fairness:
the evidence a device has due is the first thing it sends, and the two queries
of `deliverPending` start a round trip before the first event of a connection
is sent. Nothing is assumed of people, runs, timers, dispatch or events.

`MCWorkflows!Fairness` collects what the components state (`DebateFairness`,
`PlanReview!ReviewFairness`, `KickoffFairness`, `PlanningFairness` and those of
turns and steering): a worker that is in a pass, tick, saga or handler goes on
(the process runs), leases run out, and the server's timers (recovery of
expired reviews, intents, continuations, deliveries, sweeps) fire. A tick that
another part of the state can switch off again has strong fairness, because the
timer comes back whenever it is enabled. No human acts because of it, except
that `AnswersReachAgent` starts where an answer has been given. The server does
not crash in this run during a continuation: with a crash the property fails
(`steering_crash`).

### 3.2 Where the code does not do what a comment says

Each has a run that TLC ends with a counterexample.

- `execution_overlap`: the late acknowledgement of a superseded attempt blocks
  the task while its retry is on the way to the runner. A blocked task holds no
  conflict key, so an overlapping task is dispatched beside it.
- `device_events`: events of a stopped run are refused for good, stay at the
  head of the durable buffer and fill the send window, so that events of other
  runs are never sent.
- `planreview_park`: a review that is parked, resumed and parked again with the
  same plan loses the version it recorded; the next resume or waiver goes back
  to the seed.
- `steering_crash`: a continuation whose server died between claim and provision
  is leased to nobody: the takeover the tick attempts is refused by a trigger.
  Every 500 ms tick then throws, and with it the continuation of pauses and the
  work behind it in the same tick (`server.ts:1361-1370`).

Other disagreements met while modelling, without a run of their own. Some are
stated as definitions in the modules and do not hold; they are named.

Execution and devices:

- `Execution!SucceededRunIsReviewed`: the runner dies between the `completed`
  status and the terminal acknowledgement. After the restart it fails the
  command, and the acknowledgement moves the task of a succeeded run from
  `in_review` to `blocked`, where neither completion nor retry accepts it
  (`coordinator/phase4EventProcessor.ts:400`, `phaseReviewAutoCompleter.ts:3`,
  `runner/daemon.ts:659`).
- `Execution!ExpiredRunIsRecoverable`: a rework run leaves its task
  `in_progress`; when its dispatch expires, only an `assigned` task is blocked,
  and no recovery operation accepts `in_progress`
  (`phase4RecoveryMonitor.ts:464` against `:316`).
- `DeviceControl!EndedRunLeavesNoTaskAssigned`: a project stop before the
  command was sent cancels the run and leaves the task `assigned`, which retry
  refuses (`devices/cancellation.ts:596` against the comment at `:1258`).
- ADR-004:203 says a superseded run "cannot move Task state"; the event
  processor applies its acknowledgements to the task
  (`phase4EventProcessor.ts:400`), the root of `execution_overlap`.
- ADR-004:212-213 says "no run self-report can directly create a terminal Task
  state"; a `cancelled` status does.
- An acknowledgement that asks for `blocked -> blocked` throws on every replay
  and closes the socket; the comment at `runner/daemon.ts:1095` says replay
  covers the rest.
- The orphan sweep releases the money of a run that started after it was
  selected (`persistence/v2/sqlRepositories.ts:812-814`).
- A stalled phase that has only cancelled runs is never parked and keeps its
  project slot (`phase4RecoveryMonitor.ts:253-258`). Two launches of different
  phases count live runs at the same time and may exceed the project cap
  (`phase4Coordinator.ts:506`); `Execution` has one phase.
- A refused rework still revives a completed phase
  (`phaseLaunchService.ts:234-236`).
- A run that has not reported its start is finalised on the acknowledgement
  alone, "so no managed process tree can exist for it"
  (`devices/cancellation.ts:1224-1225`); the start may be in the buffer.
- A repeated project stop is delivered again after `process_exited`, although
  `runner/deviceCancellationJournal.ts:208` says it will not be; the device
  opens a new record.
- A running run whose daemon restarted and that is then stopped stays running:
  the exit cannot be proven and the failure report is refused (compare
  `runner/daemon.ts:650`). The running runs of a revoked device have no way to
  an outcome either.
- After a lost commit, a never-dispatched stop and a disconnect, the device
  executes a run that is cancelled.
- Journal records of runs the device does not know are never pruned; the
  journal holds 1000.

Publication:

- The daemon is built with the plain publisher (`runner/cli.ts:271`), although
  `runner/publicationPermit.ts:196` calls `DeviceBackedGitPublisher` "the only
  Git publisher intended for device-backed local execution". Without permits a
  superseded attempt may push over a newer one, whose commit it takes for "this
  task's previous attempt" (`runner/publication.ts`, comment on `push`), and a
  fenced run is stopped only when its device hears of the fence.
  `StoppedRunWritesOnce` and `NewerWorkStands` are promised for the guarded
  publisher only; `HeadMovesForward` for both.
- The event of work that was published for a watchdog-stopped run is always
  refused, because the run has a cancellation row; if that publication advanced
  the base, or its answer was lost and the tip could not be read, the recorded
  head stays behind the base and every later attempt reports a conflict.

Steering:

- `conversations/actionDelivery.ts:1131` says "a waiting human question must be
  answered before resume"; a pause that is resumed while a question waits goes
  on without its answer. A queued pause may stay open after its run ended
  (`:61-64`).
- A device stop of a waiting run leaves its wait and its reservation, and the
  continuation is tried every five seconds for ever; `cancelStaleCommand` leaves
  a wait `continuation_queued`; an expired pause checkpoint leaves the run
  waiting for ever.

Gateway:

- The comment at `gateway/providerGateway.ts:1192-1194` says the maximum a run
  can exceed its reservation by is ONE request's excess. That fails
  for overlapping calls: the settled figure is read before
  an await, a charge is in neither figure between settle and meter, a failed
  meter loses it, and proxy and gateway have separate holds (`server.ts:956`,
  `:1027`). `SequentialOverrunBounded` is what holds.
- Nothing calls `revokeRun`; a call whose usage was not seen releases its hold
  without a charge.

Debates:

- ADR-008 says "A run cannot complete without one primary final output"; a run
  stopped at its deadline may (`debates/worker.ts:285-376`). It also says `running -> pausing -> paused`: a
  second pause makes a draining run `paused` with a call under way
  (`debates/service.ts:925`). A resumed finalization asks
  for the illegal `running -> completed`.

Planning, reviews and kickoff:

- "unreachable: review-only loop always returns" (`planning/reviewOnlySession.ts:1778`)
  is reached when a review parked at Gate C in its last round is resumed.
- Rounds may start again at 1 after a crash or drain that follows a resume
  (against `docs/PLANNING-QC-PERFORMANCE-STATUS.md:23`).
- After a waiver of a parked review, `cancelReview` and `failReviewOnly` throw
  on a trigger (`drizzle/0070_qc_skip_qc_accepts_in_qc.sql`). Such a review,
  when it was resumed and its calls keep failing, is tried again each time its
  lease expires, for ever, and nobody can cancel it. `WorkSettles` excuses it
  exactly there (`FailureRefused`: a worker holds it, its call failed, and the
  failure cannot be recorded), and holds for every other review. Without the
  excuse TLC shows the loop. A resumed review may insert a version after
  approval; the comment on `patchReview` (`planWorkflow.ts:1546`) says
  checkpoints read `qc_mode` again, and they do not.
- `Kickoff!OneExecutingPhase` (stated as `OneExecutingPhase` in
  `MCWorkflows`): "if any phase in the project is already `active`, the
  kickoff refuses" (`planning/executionKickoff.ts:43`); two kickoffs whose
  checks overlap both start. What the check does achieve is
  `ExecutingPhasesBounded`. A replayed save sets an active phase back to
  `awaiting_approval`.

Turns:

- A retry checks the prior attempt before
  the transaction that begins the new one (`conversations/turnService.ts:203-215`),
  so one message may be answered twice. `archiveWorkItem` checks without a lock;
  plan proposals bypass the usage policy; a failed settlement leaves its
  reservation active until the next restart.

## 4. What is proved

TLAPS checks the following for every value of the constants: any number of
tasks, runs, attempts, workers, callers, conversations, deliveries and faults.
The names in the last column are properties of section 3; the *inductive
invariant* is what the proof carries from step to step and is defined, with a
comment on each conjunct, at the head of the module.

| Module | Theorem | States |
|---|---|---|
| `ExecutionProofs` | `TypeCorrect` | `TypeOK` |
| | `OneLiveRun` | `LiveRunIsDesignated` |
| | `ParkedIsQuiet` | `ParkedPhaseIsQuiet` |
| | `OutcomesAreFinal` | `TerminalRunsFrozen` |
| | `AtMostOnce` | `ExecutedAtMostOnce` |
| | `DeliveriesStand` | `DeliveryIsFinal` |
| | `TerminalCommandsPaid` | `TerminalCommandHoldsNoMoney` |
| | `CompletedGreen` | `CompletedTaskIsGreen` |
| `DeviceControlProofs` | `TypeCorrect` | `TypeOK` |
| | `EvidenceForward` | `EvidenceMovesForward` |
| | `EvidenceEnds` | `EvidenceEndsRun` |
| | `ExitProof` | `ExitProofIsTrue` |
| | `ForgottenLast` | `RecordOutlivesReport` |
| | `NothingSent` | `NothingSentAfterStop` |
| `PublicationProofs` | `PublicationInvariant` | `PubInv`, the inductive invariant |
| | `StoppedWritesOnce` | `StoppedRunWritesOnce` |
| | `NewerStands` | `NewerWorkStands` |
| | `HeadForwards` | `HeadMovesForward` |
| `KickoffProofs` | `KickoffInvariant` | `KickInv`, the inductive invariant |
| | `MaterialisedOnce` | `PlanMaterialisedOnce` |
| | `OverrideApplied` | `StaffingApplied` |
| | `PhasesBounded` | `ExecutingPhasesBounded` |
| | `IntentsLeased` | `IntentsAreLeasedWork`: the intents implement `LeasedWork` |
| `PlanReviewProofs` | `ReviewInvariant` | `ReviewInv`, the inductive invariant |
| | `ReviewMatchesRun` | `ReviewAndRunAgree` |
| | `StaleHarmless` | `StaleWorkerHarmless` |
| | `ApprovalFinal` | `ApprovedForGood` |
| `WorkerProofs` | `AmbiguityStops` | `AmbiguityStopsTheRun` |
| | `DebateBudgets` | `DebateBudgetHeld` |
| | `DebateJobsLeased` | `DebateJobsAreLeasedWork`: the jobs implement `LeasedWork` |
| | `TurnsLeased` | `TurnsAreLeasedWork`: the calls of a conversation's turns implement `LeasedWork` |
| | `PlanningOneWriter` | `RunHasOneWriter` |
| | `OneSpeaks` | `OneSpeaker` |
| | `SpendKept` | `SpendWithinPolicy` |
| `WorkflowProofs` | the names above for publication, debates, planning, kickoff, reviews and turns | the same properties, of the composition `MCWorkflows` |
| | `PaidCallsLeased` | `PaidCallsAreLeasedWork`: the paid calls of all components implement one `LeasedWork` |
| | `BudgetKept` | `SuspendedRunKeepsBudget` |
| | `SequentialOverrun` | `SequentialOverrunBounded` |
| | `HoldsOutstanding` | `HoldsAreOutstanding` |

### 4.1 From which assumptions

- `Execution` and `DeviceControl`: their `ConstantsAssumption` and
  `DeviceConstants` (finitely many tasks or runs, relations over tasks,
  positive windows, `None` is no owner).
- `Publication`: attempts are numbered (`MaxAttempts \in Nat`).
- `Kickoff`: a plan has a natural number of tasks, and the person who decides is
  a user; `PhasesBounded` needs finitely many callers besides, because it counts
  them. `PlanReview`: no worker has the name of the missing lease, and round
  limits are natural numbers. `PlanningRuns`, `Steering`: none.
- `Debates`: none for `AmbiguityStops` and `DebateJobsLeased`. `DebateBudgets`
  takes natural numbers for the price of a turn and the caps, and an actor whose
  budget pays for one turn.
- `ConversationTurns`: none for `OneSpeaks` and `TurnsLeased`. `SpendKept` is about `Priced`
  policies: finitely many turns, none of them with the name of no turn (`0`), a
  limit and a largest charge that are natural numbers. The composition has turns
  `{1, 2}` and `1 .. Size`, and needs `Size \in Nat` only.
- `HoldsOutstanding`: finitely many calls, and natural numbers for the
  reservation, the charges and their excess. Nothing is assumed of overlap,
  lapsed holds or lost charges.
- `SequentialOverrunBounded`: the reservation, the charges and the excess of a
  call over its hold are natural numbers. The property has a premise of its own,
  `~lapsed`: no two calls overlapped and no charge went unmetered.

### 4.2 Along which argument

**Execution.** The inductive invariant is `RowInv`: `TypeOK`, `Traced`,
`LiveRunIsDesignated` and `ParkedPhaseIsQuiet`. `LiveRunIsDesignated` is not
inductive by itself: a step that handles an event, a frame or a claim could
create a state for a run that has no row. `Traced` rules that out: a run without
a row has no job, no frame, no record or execution on the runner, no dispatcher
and no event. The argument then has three layers:

1. one lemma per process for types (`SchedulingTypes` … `ApplyingTypes`);
2. `RunsKeep`, what every step except a schedule does to run rows (creates
   none, changes no terminal one, occupies no free slot), one lemma per
   process; `TracedStep`, `DesignatedStep` and `ParkedStep` are its consequences
   and the case of `schedule`;
3. the action properties and `TerminalCommandsPaid`, each by cases on the
   actions that touch the variables they mention.

`CompletedGreen` needs `VerdictInv` besides: a run that has not yet been
verified has no result in the runner's buffer, and a buffer holds at most one
result of a run, which only an unverified run still awaits. Otherwise a second,
red result could follow the green one the task was completed on.

`AtMostOnce` is about the durable record: what the runner has taken up, as a
live execution, a buffered event or anything the server's rows have taken over
from its events, is recorded, stays recorded, and is not launched again.
`RecordInv` says so from the other side: of a run without a record neither the
runner nor the server knows anything. It is what a forgotten record would break:
`RecordStays` has no action that takes one away (a restart reads the state file
back), `RunningRecords` has the executor and the reports after a reconnect speak
of recorded runs only, and `ApplyingRecords` and `ServerSilent` let the server's
rows tell only what an event told. The guard of `handleLaunch` then keeps every
recorded command from being launched (`RecordedNotLaunched`).

**Device control.** `TypeCorrect` rests on lemmas about the model's queues: the
contiguous watermark (`First`, the least missing number, exists by
`LeastNatural`, a least-element fact derived from the library's well-founded
order on finite subsets), the pruned send window, and frames cut off by a
disconnect. `EvidenceForward` and `EvidenceEnds` follow from the edges a stop
can take (`StopSteps`). `ExitProof` uses `ProofInv`: every trace of an exit (in
the registry, in the journal, on the wire, in the row) belongs to a run that is
recorded as ended on the device, so that no restart or redelivered command
brings its process tree back. `ForgottenLast` uses `StopInv`: whoever acts on a
stop (hook, frame, handler, journal entry, evidence) has a row at the server
that says so, and an acknowledgement never claims more than the row.
`NothingSent` counts the commands on the socket: every action either keeps the
frames of a stopped run or drops some.

**Publication.** `PubInv` says where a publisher can stand with what authority
(`PlaceInv`, `WriteInv`), that an attempt is scheduled after all earlier ones
ended (`OrderInv`), that a forced push expects nothing newer (`BranchInv`), and
what commits are built on (`TreeInv`, `HeadInv`). The last two carry
`HeadForwards`: an integration that is not recorded yet *is* the base, so that
nothing else can have been built on it.

**Planning runs.** `PlanInv` numbers tokens by claims: no two calls hold the
same one, a loop nobody awaits never holds the row's, and the row has a token
exactly while some call of the right kind works on it.

**Kickoff.** `KickInv` says what a caller knows at each place of its saga: behind
the binding its phase is the bound one, and what it has read of the strategies
still stands, because bindings stay and strategies are only added (`Grows`). The
refinement is proved per step: each action moves an intent along an edge of
`LeasedWork` or leaves it.

`PhasesBounded` needs `PhasesInv`, about sets that only counting relates: while
some phase executes, the executing phases and the callers that are past the
check for one are together no more than the callers. The check lets a caller
past only while nothing executes, and then each caller past it starts one phase
at most (`PhasesMove`); everything else a step does ends phases or takes callers
back. So the check that two kickoffs can both pass (3.2) still bounds what
executes, together with what may yet be started, by the number of callers.

**Plan reviews.** `ReviewInv` relates a review row, its planning run, the passes
of the workers over it and the approved version. A worker's transaction is shown
to be one of a few kinds (`Grow`, `Kept`), each of which keeps the rows in
agreement. A pass that lost its lease can only fail its fence.

**Conversation turns.** `TurnInv` ties the place of a turn's handler to the
status of its attempt (`Fits`) and states `OneSpeaker` for open attempts
(`Apart`). One lemma each for a turn that goes on (`TurnGoesOn`), an attempt
that is finalised (`Finalising`), a thread that changes (`ThreadGoesOn`), an
attempt that begins (`BeginSound`) and a restart (`RestartSound`,
`ReconcileSound`) carries every action of that kind.

`TurnsLeased` needs `SentInv` besides: the place of a turn's handler tells
whether its call has left, so that a call leaves once, and a handler that was
cut off (stop, cancellation, restart) does not send or close it again.
`AllMove` and `OneMoves` say what the steps do to all attempts and to one.

**The usage policy.** `SpendInv` relates rows, places and two sums: what is owed
(settled charges, and the largest charge for every reservation that is open or
retained) stays within the limit, and while a turn reserves, it is the only
reader and what it has read, with what the stored events tell by now, is no less
than what is owed. That is the point of the policy's row lock: between the read
and the reservation an event may be stored and a reservation may be settled or
released, but what is owed never rises and what is told never falls (`Amounts`,
`CountedSum`). The sums rest on a section of their own: `SetsBelow` is induction
over the subsets of a finite set, derived from the library's well-founded order
on them (`WFMin`, which takes a set and no operator), and `SumPicks` and
`SumChanges` say what a sum becomes when one term changes.

**Debates.** `DebateInv` says what a run's rows look like between two
transactions: at most one job is open, at most one turn has stopped for a
person, never both, and a charge nobody knows keeps the run paused with no job
open (`Orderly`). The worker's tick carries an attempt that exists (`Ticks`). A
transaction is a chain of operators over the whole database (a result is stored,
the debate completes or fails, the next turn is scheduled), so each operator has
a lemma saying what it keeps, and each command and tick step combines them.
`JobsMove` rides along: a transaction opens one job at most and moves open jobs
only. It gives the refinement of `LeasedWork`.

`DebateBudgets` carries two more facts through the same chain (`Pays`).
`Solvent`: the bill of the run and that of each actor, the sum over their
attempts of what is settled, retained or reserved, is within the cap. `Backed`:
an attempt whose job is open has its reservation still. A transaction either
makes every attempt cost the same or less (`Fewer`, `SolventLess`), or adds one
attempt whose budgets have room for a turn (`Room`, `SolventMore`). Room comes
from a check of the budgets (`scheduleTurn`, a person's resume), or, where a failed
attempt is tried again without a check, from the reservation that the same
transaction releases (`RoomReleased`); that is where `Backed` is needed, since a
reservation that had been released before would make no room.

**Steering.** `SteeringInv`: a run that waits for a human has a closed job and is
suspended by a wait or a pause that is still open, and its money is settled only
when the pause that holds it has outlived its time. One lemma per process
(actions, ticks, agent, timers, human, device) shows that a step either suspends
by something it has just opened, or leaves what suspends open, or takes the run
out of the wait.

**Gateway.** With `GatewayInv`: as long as calls did not overlap, the one open
call accounts for all money held and all that was spent since the last usage
event (`SequentialOverrun`). `HoldsAddUp` needs no such premise: the figure a
budget keeps in memory is the sum of the charges of the calls between hold and
settlement, so no way a request ends (answered, unreachable, lost, restart)
leaks a hold or drops one twice.

**The composition.** `WorkflowProofs` is about the module TLC explores. A
behaviour picks one component, so each theorem has two bridges: the composition's
step is a step of the component or leaves its variables alone (for instance
`PublicationStep`), and the definitions of the two instances of the component
(with and without the proofs) are the same, operator by operator (for instance
`PublicationNext`). `PaidCallsLeased` puts the queues of three instances into
one (`CallWork`). The component's own lemmas do the rest. `Steering` and
`Gateway` are proved about directly in the composition.

### 4.3 What is only model-checked

- **Liveness** (`RunSettles`, `MoneyReturns`, `StopIsAnswered`, `ExitIsRecorded`,
  `WorkSettles`, `TurnsSettle`, `AnswersReachAgent`): reasoning under fairness
  is out of the prover's reach.
- That `lapsed` stays false, the premise of `SequentialOverrunBounded`: it is a
  statement about how an agent behaves, not about the server.
- The properties that runs refute (3.2).

Every safety invariant and action property that a passing run checks has a
theorem.

## 5. Plan

Done: `Lifecycle`, `Execution`, `DeviceControl`, `Publication`, `Steering`,
`Gateway`, `LeasedWork` with `Debates`, `Kickoff` and `ConversationTurns` as
implementations, `PlanningRuns`, `PlanReview`, and the proofs of section 4.

Modules to come: `RunnerLink` (sequence numbers, watermark and replay as an
event log applied at most once), `Migration` (cutover and rollback with
crashes), `Graph` (cycle check and critical path against reference definitions),
device enrolment.

## 6. Not modelled

Besides the components of the last table of 1.1, and inside modelled ones:
dependencies between tasks have no run of their own (`Predecessors` is in the
model and the proofs); the project cap across phases; workflow scoped pauses,
redirections and GitHub Actions targets in steering; `continueReviewChat`, model
switches and attachments in conversations; pull requests, local-only
repositories and conflicts between branches of different tasks in publication;
reading usage out of a response body; knowledge events and usage receipts of a
run. Each is data, a third party's side, or a variant of a path that is
modelled.

## 7. Running it

    tlc -workers 2 -config MCAttempts.cfg MCAttempts
    tlc -workers 2 -config MCDeviceControl_stop.cfg MCDeviceControl
    tlc -workers 2 -config MCWorkflows_safety.cfg MCWorkflows
    tlapm ExecutionProofs.tla

and `tlapm` on each of the other `*Proofs.tla`.
