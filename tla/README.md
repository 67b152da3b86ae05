# OKAMI Sentinel: TLA+ models and proofs

OKAMI Sentinel runs security scans with language-model agents, compares what they
report, and judges changesets with versioned guardrails ("gates"). Scans and gates
cost money and take long; they are started by webhooks, timers, buttons and retries,
and everything they wait for can fail, be cancelled, or outlive the process. This
directory models the parts where the order of those events matters, checks them with
TLC and proves their central safety properties with TLAPS. Everything refers to the
code of the repository; paths below are relative to `apps/api/src/` unless they say
otherwise.

## 1. Inventory

The API is one Node.js process over one SQLite file (better-sqlite3, synchronous).
Code between two `await`s runs to completion, so concurrency means: requests,
timers and awaited answers interleave at every `await`, and the process can stop at
any instruction. Scans and provider runtimes are child processes.

| Component (and what is modelled of it) | State it keeps | Operations and interactions | What is hard | What makes it correct |
|---|---|---|---|---|
| GitHub automation: store (`github-actions/store.ts`, `schema.ts`) — modelled but for listings and migration | `github_actions`, `github_action_events`, `github_webhook_deliveries` | create, edit, disable, delete an action; record, supersede, reserve, retire an event; claim a delivery | every other part writes these tables | a commit is charged once, a reservation bounds the day, an edit leaves no charge behind |
| Webhook ingestion (`webhook-ingest.ts`, `rerun.ts`) — the routes that change events | none of its own | a verified delivery becomes events and a fire-and-forget dispatch | lost, late, repeated and reordered deliveries | the newest head survives |
| Reconciliation (`reconciler.ts`, `installation-scope.ts`) — modelled | a cycle's reading of actions and listings | finds heads no delivery brought, expires the queue, notices lost access, dispatches what waits | its readings are stale when its transaction runs | nothing is missed, nothing is charged twice |
| Dispatch (`dispatch.ts`, `github-monitor-dispatch.ts`) — modelled | `inFlight`, the reservation in the row | reserve, preview, accept, create the gate, record the outcome | two callers for one event, edits during the awaits, crash after the launch | one gate per event, inside what is followed now |
| Webhook endpoint (`webhook-api.ts`, `webhook-signature.ts`, `webhook-secret-cache.ts`, `work-slots.ts`) — its budgets | read and hash budgets, failure windows, cached secrets | admit, read, verify a delivery | slots handed over, waiters that time out, keyed pools evicted while live | a budget is never exceeded or lost |
| API and migration (`github-actions/api.ts`, `integration-status.ts`, `migrate-monitor-rules.ts`) — no | none | edits and screens over the store; one-off migration | little | parsing, authorisation |
| E-mail outbox (`email/outbox-store.ts`, `worker.ts`, `enqueue.ts`, `transport-config.ts`) — modelled but for retention | `email_outbox`, the worker's flags | enqueue, claim, send, retry, give up, cancel, expire links, recover at boot, test send | crash between send and record, failed writes inside a batch, provider off for days | bounded attempts, every message ends, no token outlives its use |
| E-mail settings and notifications (rest of `email/`) — the operational alerts | settings, subscriptions, `ops_alert_state`, the memo of the scanners' probe | who is told what; sample three conditions, alert, repeat, resolve | conditions that flap, nobody to tell, a probe older than what it is joined with | alerts keep their distance, an announced outage ends in everybody's mind too |
| Gates (`gate-orchestrator.ts`, `gate-store.ts`, `guardrails/`) — life, executors, baseline; not previews and leases | `gate_runs`, events, artifacts, baselines, leases | queued, resolving, scanning, evaluating, publishing, terminal; cancel; two executors; import | cancellation racing completion, publication failing, recovery at boot | terminal stays terminal, one verdict is published |
| Scan runner (`runner.ts`, `ingest.ts`, `process-identity.ts`, `db.ts`) — server mode, portable engine | `runs`, live children, capacity reservations | start, follow, cancel, recover a scan | a child that outlives the parent, PID reuse, capacity races | one status per scan, capacity respected, only its own process signalled |
| Connections (`connections/`) — no | connections, pending OAuth flows | log in, refresh, revoke | flows that overlap or expire | a code is used once |
| Authentication (`auth/`) — no | users, sessions, invites, grants | log in, resolve, revoke, invite, reset | idle and absolute expiry, single use | a used or revoked token is dead |
| Credential vault (`credentials/`) — no | encrypted secrets | put, get, delete | I/O | secret and reference agree |
| GitHub App, checks, statuses (`github-app/`, `github-check.ts`, `github-status.ts`) — no | connections, installation tokens | HTTP | rate limits | the check's external id is the gate's |
| Pull request comment (`github/`) — no | the comment's row per pull request | create once, update after | two gates at once, lost row | one comment |
| Agent sessions (`agent/`) — no | a conversation | tool calls, budget | provider protocol | budget respected |
| Engines and runtimes (`scanners/engine-updates.ts`, `engine-updates-api.ts`, `managed-runtime-store.ts`) — check, update, rollback and their reservation; not the status screen and the adapters | manifest of runtimes, versions on disk, the maintenance row | check, install, verify, activate, roll back | two processes, a command that hangs, a crash between two renames, a manifest read before an await | what is selected is installed, an operation is alone, scans get their turn |
| Boot and shutdown (`index.ts`, `shutdown.ts`) — in each component | `draining` | drain, abort, recover orphans | everything in flight | nothing is lost, nothing is done twice |
| HTTP server (`server-app.ts`, `server-security.ts`, `app.ts`) — no | none | routing, authorisation, wiring | little | |
| Reports (`metrics.ts`, `compare.ts`, ...) — no | none | pure computations | arithmetic | |
| Gate core (`packages/gate-core`) — the decision and the choice of a baseline | none | evaluate a policy over findings and a baseline | precedence of decisions | an error is never an approval |
| Gate CLI (`apps/gate-cli`) — its judgement; web application (`apps/web`) — no | | a sequential command; user interface | | |

How the modelled parts meet: GitHub sends deliveries to the webhook endpoint, which
admits them under its budgets, writes the tables of the automation and starts
dispatches nobody awaits. A timer runs reconciliation cycles, which write the same
tables and await dispatches of the same rows. The operator edits the actions under
both. A dispatch ends in a gate, on GitHub Actions or in this process. A gate of this
process asks the runner for a scan and waits for it; the runner's slots are shared with
every other scan, with the recovery of interrupted ones and with engine updates, which
several API processes may ask for and one row of the database keeps apart. A gate
that ends rewrites the baseline row of its repository, later gates are judged against
the gates it names, and a verdict is a notice in the outbox, which one timer empties.
Another timer samples the scanners, the connections and the gates whose publication
failed, and writes alerts into the same outbox.
A shutdown refuses new work, an exit forgets what was in flight, a boot takes up or ends
what it left.

`PROJECT.json` lists the hazards found in this code, each at its line, with the
properties that watch it. One has no property among the runs: what it describes does go
wrong, and a configuration of its own shows it (`RefusedBootstrap`, section 6).

## 2. Modules

| Module | Models | State |
|---|---|---|
| `GitHubRemote` | GitHub and the clock, as the automation meets them (external) | `now`, `tip`, `sent`, `reachable` |
| `ActionStore` | the automation's tables and the SQL over them, as operators | `actions`, `events`, `claimed`, `sincePrune` |
| `ActionDispatch` | one event from reservation to outcome; drain and exit | `draining`, `turn`, `disp`, `gates` |
| `WebhookIngest` | a delivery's transaction and what it hands to the dispatcher | |
| `ActionReconciler` | the cycle, await by await | `rec` |
| `GitHubAutomation` | the composition, the operator, restarts, fairness, the properties | `restarts`, `backlog` |
| `EventLifecycle` | abstract: what is promised about one event; `GitHubAutomation` implements it | `status`, `charges` |
| `WorkSlots` | the counting semaphore of `work-slots.ts`, as operators on a pool | |
| `WebhookAdmission` | the endpoint's three budgets and the evicting map of pools | `pc`, `addr`, `held`, `pools`, `keys`, `pool`, `reads`, `hashes` |
| `ActionsGate` | a gate run by GitHub Actions: start, poll, import, cancel, boot | the three tables, `posting`, `poll`, `up`, `remote` |
| `ScanRunner` | slots, launch, worker, ledger, close, cancel, recovery, update, drain, boot | `scan`, `phase`, `update`, `ends` |
| `GateOrchestrator` | managed and local gates over `ScanRunner` (extends it) | `gate` |
| `GateEvaluation` | the pure decision of `packages/gate-core` and the compatibility of a baseline | |
| `RepositoryBaseline` | gates of both executors around one repository's baseline row, the policy and the button; uses `GateEvaluation` | `gates`, `started`, `policy`, `head`, `row`, `press` |
| `EmailOutbox` | the outbox, its worker, the test send | `outbox`, `provider`, `worker`, `testing`, `restarts`, `tries` |
| `OpsAlerts` | the alerts of three operational conditions, their sampling loop and the hook of a failed publication | `rows`, `pass`, `memo`, what they sample (`engine`, `connection`, `gate`, `mail`), `last`, `streak` |
| `EngineUpdates` | the managed runtimes: check, update, rollback, the reservation and its renewals, of several processes; what `ScanRunner` calls `update` is its abstraction | `manifest`, `disk`, `lease`, `scanning`, `fetch`, `asked`, `op` |
| `MC...` | instances for TLC | |
| `GitHubAutomationProofs`, `WebhookAdmissionProofs`, `ActionsGateProofs`, `GateOrchestratorProofs` (also `ScanRunner`), `RepositoryBaselineProofs` (also `GateEvaluation`), `EmailOutboxProofs`, `OpsAlertsProofs`, `EngineUpdatesProofs` | theorems (section 4) | |

`EXTENDS` follows the layers: Remote, Store, Dispatch, then Ingest and Reconciler side
by side, then the composition; Runner under Orchestrator; Evaluation under Baseline.
There is no `RECURSIVE` operator. Definitions whose comment begins with "Mutant" are
the plausible bugs that `PROJECT.json` pairs with the properties that catch them; no
specification uses them.

### How state and steps correspond to the code

The automation:

- A SQL statement or transaction is one step. An `UPDATE` whose `WHERE` no longer
  matches is a step that changes nothing (`Patched`, `CanReserve`).
- `turn` holds the rows that the running JavaScript turn has yet to dispatch. While it
  is not empty nothing else of the process runs, because the code between the commit
  and the first `await` of each dispatch is synchronous. Every `await` is a value of
  `disp[r].wait` or of `rec.stage`, where everybody else may act.
- An event is its UNIQUE key (revision, target, commit, check run). A row of the whole
  table is `<<action, key>>`. `row` in an event is its rowid, which breaks clock ties.
- `0` stands for NULL in clocks, ceilings, check runs and gates.
- The sums of ceilings (`ReservedOn`, `SpentOn`) count the units of each ceiling as
  elements of a set, which is what the provers can reason about.
- `disp` is both `inFlight` and what the closure of a dispatch has read: the event and
  the action as they were at the reservation.
- `rec.acts` and `rec.seen` are what a cycle read before its awaits; its transaction
  uses them and not the tables, as the code does.
- `gates` and `backlog` are history: the gates created, and the heads that were there
  when an action began to observe what it observes now.
- Time is a small integer; `DayLength` is both the UTC day of the reservations and the
  24 hours after which a delivery or a queued event is too old.

The endpoint: `pc[r]` is the line of the handler a request is at. A pool is an object;
the map names one for an address, and a request remembers the object it waits in
(`held`), which the map may have forgotten. A waiter whose timer fired stays in the
queue of the pool until a release or a prune passes it, as in the code.

Actions gates: `poll[g].at` is the call `#reconcileGate` awaits, with the attempt and
the error it read before. `remote[g]` is GitHub: how many dispatch requests it got, the
run, its attempts and its artifact. A call may fail at any of them (`RemoteCallFails`),
and the catch of the pass is part of that step.

Scans: a row (`status`), the ledger on disk (`ledger`), the child handle of this process
(`handle`) and the processes that live (`direct`, `resumed`) are separate, because the
code reads them at different times and they disagree after a crash. `answer` is what the
launch told its caller. `pending` and `probing` count recoveries scheduled and waiting
for the connection's probe; `journal` is the number of restarts written to disk.

Gates of this process: `gate[g].task` is the await its task stands at ("none": no task
in this process), `seen` the status of the scan the task has read, `aborted` its signal.

Baseline: a gate is a record in the order of the starts, which is the order of
`listGateRuns`. `outcome` is the gate's row, `artifact` the outcome in the artifact its
executor wrote; they differ where a verdict is refused. `from` is the run the dispatch
names as its baseline. `press[p]` is a request of the button at one of its awaits.

Outbox: a message is its dedupe key; times are relative (`wait`, `age`), which is all the
statements compare. `before` is `created_at < startedAt`.

Alerts: `rows[t]` is the row of a target, with its two times as distances from now; a
closed row reads like no row in every statement, so it is none. A pass is two steps
around its one await, the probe of the scanners: `pass.lag` is how old the `now` read
before it has become. `last` and `streak` are history: the last message about a target,
and since when its samples say that the condition lasts. A message is told when it is in
the outbox; `EmailOutbox` says what becomes of it.

Updates: the unit of time is a minute, in which a holder renews its row twice; so
`lease.age` is zero after every minute of a process that lives and renews. `op[p]` is the
running operation, at the await it stands at: `seen` is the manifest its body read before
the first await and writes after the last, `left` the commands still to run, `lag` the
minutes of the one that runs, which is killed at `CallLimit`. A check reads its time
before it asks the registries (`fetch[p]`) and reads, merges and writes the manifest in
one turn, so its awaits are one. One request at a time waits for a check of its process
(`asked`); others would be refused by the same guard. `disk` is what stands under the
versions' names; every await of an operation may fail, and a process may die at any.

### Abstractions a reader should know

- One repository. Repositories of one installation do not interact except through the
  same statements over another key.
- The signature check is a library call: only deliveries GitHub sent reach
  `WebhookIngest`. `detectedAt` is taken before the signature is awaited; the model uses
  the time of the transaction. In `WebhookAdmission` the verdict is the end of the path.
- For a dispatch, a preview, its acceptance and the executor are three awaits with every
  outcome the dispatcher distinguishes: accepted, refused before the launch, failed, and
  an outcome that could not be written.
- A draft is a closed pull request: the routes and the listing ignore both.
- `ScanRunner` is the server mode with the portable engine, where workers die with the
  container. The local mode, where they outlive the API, and the reconciliation of the
  other engines are not modelled. A worker is a process that may write its ledger and
  end; what it finds is not part of it.
- `RepositoryBaseline` takes each gate as a start and an end; the awaits in between are
  those of `GateOrchestrator` and `ActionsGate`. The repository's executor may be
  changed at any time, so a press picks any plane. On Actions the policy is the
  repository's file or the shipped default, which protects the default branch, and the
  scan's settings are the file's (`FileScan`); for managed gates the policy and an
  action's scanner are one setting (`policy.scan`). Coverage is complete, and an
  artifact that cannot be read is not modelled. The process does not crash here: a gate
  left without a task is `GateOrchestrator`'s subject.
- `GateEvaluation` takes an identity and a severity for a finding. Lists whose order no
  result depends on are sets. In `RepositoryBaseline` a finding has a second identity,
  `recomputed`, the one its published text gives; the two differ when redaction changed
  what the identity is made of. The managed executor hands a baseline over with the
  stored identity, the CLI on Actions without it (`BaselineFindings`). Two findings may
  have one recomputed identity, and it may be that of a third.
- Left out of the automation: the `workflow_run` route (it hands a run to the artifact
  importer), the refresh of the installation listing, a repository row missing or
  disabled in the reconciliation, payloads without a clock, the screens' listings, the
  monitor-rule migration, the disable of a whole installation.
- `ScanRunner!AfterClose` leaves out one arm of the close handler, an exit with code 0
  of a worker whose files say nothing final, which the runner calls completed;
  `CloseEvent` follows it in that.
- `OpsAlerts` has the conditions of the sampling loop. Statements of a pass may throw;
  the read of the e-mail switch, which is one of them in the code, does not. The warning
  about a day's cost is one insert under a unique key and is left out; a gate on Actions
  calls the same hook.
- Accounts and grants belong to others: at each row the outbox's worker may find that
  the recipient no longer qualifies. `markEmailSent`, `markEmailFailed` and
  `markEmailCancelled` are two statements; the model lets the second one fail alone. The
  retention sweep is left out. The vault's await inside a test send's preparation is not
  a step of its own.

## 3. Runs

All runs use small instances; times are with two workers. Symmetry is used for commits,
presses and settings where no instance tells them apart and no liveness property is
checked. Deadlock is checked where the system always has a step; `ActionsRun`,
`GateRuns` and `Baseline` switch the check off, because their bounded systems come to
rest when every gate and scan has ended.

| Run | Properties | Instance, and why it is enough |
|---|---|---|
| `HeadOrder` | `FlightOwnsItsRow`, `CurrentHeadKept` | One pull request, four commits, three pushes: three heads are needed for one to be current, one queued behind it and one late. `Retention = 1` forces a delivery to be processed again after it was pruned. 1.35 M states, 2 min. |
| `EditedScope` | `CreatedWithinScope`, `BacklogNotCharged`, `SpendWithinCap` | Two actions (ceilings 1 and 2, a cap of 2), one of them over a pull request and a fork, edited, switched and deleted while previews are awaited; pull requests that close and reopen. Edits while a cycle runs are excluded: see `EditDuringCycle` below. 2.78 M states, 2 min. |
| `Progress` | `EventsFollowLifecycle`, `LaunchedOnce`, `EventsSettle`, `HeadSeen`, `AccessLossObeyed` | The refinement and liveness, with a drain or an exit anywhere, an outcome that is not written, a lost and regained installation and any delivery lost. `EventsSettle`: no event stays dispatching or queued. The day always has room (`Ample`): a spent day keeps an event queued by design. 37 thousand states, 1 min. |
| `Outbox` | `AttemptsBounded`, `FinishedForGood`, `EveryMessageEnds`, `DeadLinksEnd` | A notice, an invite and a test send, two attempts, batches of two, one restart, every statement may throw. Two attempts distinguish a retry from the last attempt; two messages let one be claimed and left behind while the other is sent. 133 thousand states, 1 min. |
| `Admission` | `BudgetsExact`, `NoOvertaking`, `ShedOnlyWhenFull`, `EveryRequestAnswered` | Three deliveries, two addresses, every budget, queue and map of size one, so each is exceeded, and the map forgets a pool with a holder and a waiter. 22 thousand states. |
| `ActionsRun` | `DispatchedOnce`, `VerdictIsOfItsRun`, `CancellationHeld`, `GateSettles` | One gate, two starts with its key, two attempts on GitHub, one crash, a cancellation and failures at any await. Gates do not meet: each has its row, run and pass. 47 thousand states. |
| `GateRuns` | `OneWorker`, `CapacityHeld`, `DecisionNeedsScan`, `ManagedEndsForGood`, `GateEnds`, `CancelledScanStays`, `ScanSettles` | Two instances in one, told apart by the initial state (`MCInit`): a managed or local gate with its scan, the code's two restarts and two ends of the process; and two scans, one with a restart left and one without, that compete for one slot with launches, cancellations, recoveries, the update of an engine and one end of the process. A gate reads nothing of the scans of others but whether a slot is free, which the first instance may refuse as well. 275 thousand states, 2 min. |
| `OpsRun` | `RowRemembersAlert`, `AlertsSpaced`, `FirstAlertAfterGrace`, `OutageKeepsBeingTold`, `EndIsTold` | Two instances in one as well: the host and a connection that is the only route, which fail and heal; and a gate with two publications in flight, a comment that fails and a deletion, so that the hook and the loop step one row. E-mail is switched, any statement throws, the process restarts. The window is longer than the grace, and a probe outlives a unit of time, so a sample may be older than the row it meets. 326 thousand states, 2.5 min. |
| `Updates` | `OperationIsAlone`, `SelectionIsInstalled`, `ActivationKeepsTheRest`, `ScansGetTheirTurn` | Two processes, one engine, three versions, one of which fails its probes: one to leave, one to go to and one that must not be chosen. A command may hang to its timeout, any await may fail, a process may die between the rename of a version and that of the manifest, and a check races an operation. That an activation leaves other engines alone is left to the theorem. `ScansGetTheirTurn` is that a reservation ends again and again; who is admitted then is `ScanRunner`'s. 227 thousand states, 1 min. |
| `Baseline` | `RowIsTrue`, `BlockedOnProof` | Two gates of any kind on both executors, two branches, two settings, two findings, one press and two commits. Two gates are one to be compared with and one that compares, replaces, fails or is deleted; the theorems cover any number. Of the two findings, redaction changes the identity of one; a scan finds one at most. Two instances in one (`MCNext`): the button, pushes and the protection of another branch, where nothing redacted is found; and the redacted finding, which only a judgement looks at, without them. 2.05 M states, 2 min. |

Two runs end in a violation. Each contradicts a sentence of the repository; the
quotation is in `PROJECT.json`, "findings".

| Run | Property | What the code does |
|---|---|---|
| `LostVerdict` | `VerdictStands` | The verdict of an Actions gate is imported, then its published check is counted; when that call fails, the gate's verdict becomes an error. |
| `ResurrectedGate` | `CancelledGateStays` | A local gate cancelled while its diff or its scan's launch is awaited is set back to scanning, and completes with a decision. |

### Bounds

`MaxTime`, `MaxSent` (deliveries), `MaxReruns`, `MaxRevision` (edits of what is
observed), `MaxRestarts`, `MaxAttempts`, `MaxStarts`, `MaxCrashes`, `MaxEnds` (ends of
the process), `MaxGates`, `MaxHead`, `MaxLag` (how long a probe takes), `MaxCalls`
(publications of a gate in flight), `Probes` and `CallLimit` (the commands of a
verification, and the longest of them), and the sets of commits, targets, actions, messages,
requests, gates and scans. GitHub stops pushing when `MaxSent` is reached; a lost
delivery is one that is never delivered. `Retention`, `PruneEvery`, `Grace`, `Repeat`,
`CheckTtl` and `ProbeTtl` shrink the code's constants to where they bite. `tries` and the automation's `gates` need no bound: events
and attempts bound them. `ScanRunner!MaxRestarts` is no bound but what is left,
at the beginning, of the two restarts the code gives a scan: a smaller value is a scan
that has used some.

### Fairness

`GitHubAutomation!Fairness`: a turn, an awaited answer and the reconciliation's next
step happen (the event loop and the timer; every HTTP client has a timeout, so an await
ends). The three reads of a cycle get strong fairness: GitHub may fail any number of
times but, asked by every cycle, answers some time. A process that drains exits and is
started again. Deliveries get none: the webhook is allowed to lose everything, and the
reconciliation must be enough. The dispatcher's outcomes get none either, so a dispatch
may end in any way.

`EmailOutbox!Fairness`: the timer fires; a send ends (both transports have timeouts);
a claim that is possible again and again succeeds once; time passes; a process that
stopped is started again. Nobody is obliged to switch the provider on, and
`EveryMessageEnds` says so; `DeadLinksEnd` holds without it.

`WebhookAdmission!FairSpec`: a body read has a deadline, a hash is a computation, and a
timer that is set fires. Arrivals get none.

`ActionsGate!FairSpec`: the loop of `index.ts` polls every fifteen seconds and the boot
starts it again; every call ends, and a call made again and again is answered now and
then (strong fairness of the three that a pass repeats); GitHub ends what it runs; the
correlation window passes.

`ScanRunner!RunnerFairness` and `GateOrchestrator!GateFairness`: awaits end, workers end,
the fifteen-second reconciliation goes on, a drain exits, a supervisor starts the server
again. `GateEnds` also needs somebody to look at the gates (`ReadGate`): the projection
of an orphan's scan happens on reading, as in the code.

`OpsAlerts!FairSpec`: the timer fires and time passes; a pass that fails, or is cut off by
a restart, is followed by others, and not all of them are (strong fairness of a pass
that ends). Nothing heals by itself: the liveness properties assume a condition that
stays and somebody who listens.

`EngineUpdates!FairSpec`: the awaits of an operation end, because a command is killed at
its timeout, and time passes, so the row of a process that died grows stale. Checks,
requests and scans get none.

`MCGateOrchestrator!MCSpec` and `MCOpsAlerts!MCSpec` are the same fairness over the joined
initial states.

## 4. Proofs

All theorems hold for every value of the constants that satisfies the named assumptions
of the modules, with no bound on the behaviours.

| Module | Theorem | States |
|---|---|---|
| `GitHubAutomationProofs` | `TypeCorrect` | `Spec => []TypeOK` |
| | `LaunchedAtMostOnce` | `[]LaunchedOnce`: no event gets two gates |
| | `FlightKeepsItsRow` | `[]FlightOwnsItsRow`: nobody moves the row of a dispatch in flight |
| | `LaunchedRowNamesItsGate` | `[]LaunchedNamesItsGate`: a launched row names its own gate |
| | `ImplementsLifecycle` | `Spec => Lifecycle!Spec`: the automation implements `EventLifecycle` |
| | `GatesWithinScope` | `CreatedWithinScope`, an action property |
| | `CurrentHeadNeverCancelled` | `[]CurrentHeadKept`, for pull requests that stay open and never change twice in one tick of the clock |
| | `BacklogIsFree` | `BacklogNotCharged`, an action property, if nobody edits while a cycle runs |
| | `SpendsWithinCap` | `[]SpendWithinCap`, if nobody edits a ceiling |
| `WebhookAdmissionProofs` | `BudgetsStayExact` | `[]BudgetsExact`: the budgets of the process count who holds them |
| | `NewcomersWait` | `NoOvertaking`, an action property: a newcomer gets no slot while somebody waits in the same line |
| | `ShedsWhenFull` | `ShedOnlyWhenFull`, an action property: a request is refused as busy only by a line whose live waiters fill it |
| `ActionsGateProofs` | `TypeCorrect` | `[]Inv`, types and the inductive invariant |
| | `OneDispatchForEachKey` | `[]DispatchedOnce` |
| | `VerdictOfItsAttempt` | `[]VerdictIsOfItsRun` |
| | `CancellationIsHeld` | `CancellationHeld`, an action property |
| | `EndIsFinal` | `EndedForGood`, an action property |
| `GateOrchestratorProofs` | `CapacityIsHeld` | `[]CapacityHeld`: never more scans than slots |
| | `OneWorkerEach` | `[]OneWorker`: a scan never has two workers |
| | `CancelledStays` | `CancelledScanStays`, an action property |
| | `TypeCorrect` | `[]TypeOK` of the runner and the gates |
| | `DecisionNeedsCompletedScan` | `[]DecisionNeedsScan`: the decision of a managed gate rests on a completed scan |
| | `ManagedEndIsFinal` | `ManagedEndsForGood`, an action property |
| `EmailOutboxProofs` | `TypeCorrect` | `Spec => []TypeOK` |
| | `AttemptsAreBounded` | `[]AttemptsBounded` |
| | `FinishedIsFinal` | `FinishedForGood`, an action property |
| `RepositoryBaselineProofs` | `TypeCorrect` | `[]Inv`, types and the inductive invariant |
| | `ReadyNamesTheNewest` | `[]ReadyIsNewest` |
| | `ManagedBuildIsTakenBack` | `[]ManagedBuildHasARun` |
| | `BlockedNeedsProof` | `[]BlockedOnProof`, from `BlocksOnlyNew`: a block needs a comparable baseline without one of the findings, or, on Actions, with that finding under another identity |
| | `RowStaysTrue` | `[]RowIsTrue`, the conjunction of the two |
| | `StaleIsKept` | `StaleIsSticky`, an action property |
| | `HarderIsNotMilder` | the decision is monotone: a finding more, an exception or a triage less never makes it milder |
| | `NothingNewIsNotBlocked` | a change that adds nothing to its baseline is not blocked by rules on what is new |
| `OpsAlertsProofs` | `TypeCorrect` | `Spec => []TypeOK` |
| | `AlertsRemembered` | `[]RowRemembersAlert` |
| | `AlertsAreSpaced` | `AlertsSpaced`, an action property |
| | `OverAfterAlert` | `OverFollowsAlert`, an action property |
| | `FirstAlertWaits` | `FirstAlertAfterGrace`, an action property |
| `EngineUpdatesProofs` | `TypeCorrect` | `Spec => []TypeOK` |
| | `SelectionInstalled` | `[]SelectionIsInstalled`, whatever the leases do |
| | `OperationsAreAlone` | `[]OperationIsAlone`, if `RenewalsFail` is false |
| | `ActivationsKeepTheRest` | `ActivationKeepsTheRest`, an action property, if `RenewalsFail` is false |

Six theorems have hypotheses beyond the modules' assumptions. Without them the code does
otherwise, and where a configuration of section 6 shows it, it is named:

- `BlockedNeedsProof`: `BlocksOnlyNew`, the blocking rules name no persistent finding.
  The shipped presets satisfy it; a policy that blocks what the baseline already has does
  so on purpose. On Actions the theorem says of a finding that redaction changes no more
  than the code keeps: that it is known to the baseline does not save it
  (`RedactedBaseline`).
- `OperationsAreAlone`, `ActivationsKeepTheRest`: the statement that renews a reservation
  does not throw; with it throwing, an installation outlives its lease (`LongInstall`).
- `CurrentHeadNeverCancelled`: every target is a pull request (the recovered head of a
  branch carries the time of the cycle, `BranchRecovery`), none is closed (a close
  cancels the whole queue, also the rows of a pull request reopened since), and no target
  changes twice at one clock (a tie is broken by the order of recording). These are the
  conditions under which the run `HeadOrder` checks it.
- `BacklogIsFree`: no edit while a cycle runs (`EditDuringCycle`).
- `SpendsWithinCap`: `"cost" \notin Edits`, no edit of a ceiling (`RaisedCost`). Every
  other edit, and deletions, are allowed.

**The automation: launches.** None of the first three safety properties is inductive. `LaunchedOnce`
says nothing of where the row of an event with a gate may be, so a step could queue it
again. `IInv` adds what the code relies on:

- `GateKeptByRow`: an event with a gate is `dispatching`, `launched` or `failed`, unless
  its action was deleted; it never returns to the queue;
- `NothingLaunchedYet`: before the executor is called, nothing was created for the
  event of a dispatch in flight, so it may be released;
- `FlightNamesItsGate`: from then on the dispatch carries that event's gate;
- `FlightHasRow` and `DeletedIsEmpty`: a row leaves only with its action, and with it
  all the rows;
- `LaunchedRows`: `LaunchedNamesItsGate`, stated over the tables.

A *quiet* step touches no gate and no dispatch, and moves rows only out of `queued` or,
when nobody is dispatching them, out of `dispatching` into `failed`: deliveries, cycles,
edits and the passing of time are quiet (`QuietKeepsIInv`), which reduces most of the
specification to facts about the tables (`SupersededRows`, `HeadRecordedRows`,
`ReconciledRows`). A dispatch that ends writes a row it still owns (`EndedKeepsIInv`).
The creation of a gate is the one step that can break `LaunchedOnce`, and
`NothingLaunchedYet` says that it does not (`GateKeepsIInv`).

**The automation: lifecycle.** The refinement maps an event to the status of its row, or to
absent and gone, and to the number of gates with its key. `StepKind` says of every step
that it is quiet, or begins, previews, launches or ends one dispatch, deletes an action,
or is a restart; in each case every row makes a move that `EventLifecycle` allows, at most
one of them a charge. That a charge hits a live reservation is `GateKeptByRow` with
`FlightOwnsItsRow`; that a deleted action is not charged rests on `EnabledExist`.

**The automation: scope.** What a cycle or a dispatch has read of an action is a view of it
(`SameView`): its revision is not ahead, and at the same revision it says the same of
targets and forks. Whoever writes a row writes it under a view, so a row of the live
revision names a target that is followed (`RowsInScope`). The re-read before the gate
compares only revisions, and `FlightsInScope` says that this is enough, but for re-runs
asked by a person.

**The automation: the current head.** GitHub stamps a change with a clock, and clocks only
grow: whoever cancels a queue with some clock and head (a delivery, a listing) holds the
current clock only together with the current head (`Behind`), and the statement spares
that head. `HeadInv` says this of deliveries on their way, of the listings of a cycle and
of the rows that were cancelled.

**The automation: backlog.** Until the first cycle ends, an action without a baseline has
nothing queued by the reconciliation; that cycle records every backlog head as observed
(`BacklogListed`, `UnseenIsRecovered`), and a head that has a row is never recovered again
(`BacklogSeen`). `CycleExact` is where the hypothesis is used: a cycle works under the
action as it is.

**The automation: spending.** `CanReserve` compares the cap with what the rows of the day
reserve, and a gate spends what its dispatch carries. `SpendInv` ties the two: a
reservation is given back only before a gate exists, so every gate has a row of its own
(`LaunchedOnce`) that is still booked under the gate's day for the gate's ceiling
(`GateIsPaid`), which is an injection of the units spent into the units reserved
(`SpentIsReserved`); and only a reservation adds to a day, where it was seen to fit
(`DaysReservedKept`).

**The endpoint.** For the budgets, the counts and the sets of holders move together;
cardinalities of a set with an element added or removed come from the library. For the
order, `LineInv` says of every line, also of one whose pool the map has forgotten, that
its queue holds the live waiters in the order in which they came, with those whose timer
fired only in front (timers are set in order, with one length), and that somebody live
waits only while no slot is free. A newcomer to a line with a live waiter therefore
finds no slot, and a line that sheds has its whole queue live after the prune.

**Scans.** Every step either lets each scan move by itself (`Moves`: what a scan may do
without a new slot) or gives one scan a slot where there is room (`Takes`); `Sound` says
which combinations of row, child, lease and worker a scan can be in, and is what forbids a
second worker. A scan that is busy holds a slot, so counting the busy ones bounds them.

**Gates of this process.** `Fits(gate, scan)` relates the await a gate's task stands at, the
status it has read and the scan's row. A completed scan without a child stays completed
(`Settled`), which carries the decision from the moment it is read to every later state.

**The outbox.** `RowFits` relates the attempts in a row to the sends made: one send is not
counted while the row is `sending`. `BatchInv` says that what the worker of this process
is about to send is claimed and counted, `TestingInv` the same of a test send; a
statement touches no finished row (`Touches`).

**A gate on Actions.** `GateInv` ties the row of the gate, the row of the dispatch, the
pass and the remote side: a run exists only after an accepted request, a pass past the
listing knows its run, a verdict comes with a validated artifact of the correlated
attempt. Every action concerns one gate, so the proof takes the actions one by one and
the gates by two cases, the one that moves and the others.

**The baseline.** `IInv` says of every gate that what it was compared with, or named at
its dispatch, is a completed gate of the branch that is kept as it was (`Grown`: no step
takes back what a gate was started with, or a completion); of the row, that ready names
the newest candidate and building has a managed build behind it; of the presses, that
their gate exists. A step that calls the refresh proves `ReadyInv` from `Derived`
itself; one that does not must leave the candidates alone. That a newest gate exists is
the well-foundedness of the naturals (`HasLeast`, `HasGreatest`).

**The alerts.** `Agree` relates the table to the history for every target that was not
deleted: a row carries a stamp exactly while the last message is an alert, the stamp is
that message's age, and a row without one is as old as the streak of samples. The three
action properties then compare the two sides of one sample; what is left is arithmetic
about ages that stop growing at the longest window.

**The updates.** `DiskInv` needs no lease at all: versions are only ever added under
their names, and only after their probes, so a manifest read at any time names versions
that are still there; it says so of `manifest`, of what every operation has seen and of
the version it is about to write. `Alone` says that whoever works holds the row and the
row is fresh, so nobody else reserves anything: two holders would be two values of
`lease.of`. From it `seen` differs from `manifest` in nothing (`Alone` carries that too),
which is what an activation that writes what it read needs.

**Only model-checked**: liveness under fairness (`EventsSettle`, `HeadSeen`,
`AccessLossObeyed`, `EveryMessageEnds`, `DeadLinksEnd`, `EveryRequestAnswered`,
`GateSettles`, `GateEnds`, `ScanSettles`, `OutageKeepsBeingTold`, `EndIsTold`,
`ScansGetTheirTurn`), which is outside the provers' reach: TLAPS has no rule for `WF`,
`SF` and ENABLED here. Every safety property of a passing run is the statement of a
theorem.

Two definitions of the runner and the gates, `FromDisk` and `AfterClose`, were written as
CASE expressions with overlapping guards; a proof could not tell which arm was meant. They
are IF expressions now, in the order in which the code tests. `ShedOnlyWhenFull` was
sharpened when its proof showed which pool it had to speak of, and `CreatedWithinScope`
exempts re-runs asked by a person (section 6).

## 5. Not modelled, and why

- Encryption, HTTP clients, rendering of mail, comments and reports, the web
  application, the parsing of requests: data, not order.
- Connections, sessions and invites: each keeps a small state machine of its own and
  would be the next modules (`Sessions`, `Connections`). They meet the modelled parts only
  through a read.
- Of the engines: the status screen, which reads, the adapters that build command lines,
  and the staging directories, whose names no other operation uses.
- The pull request comment (`github/pr-comment-publisher.ts`): one request, one store
  row. What there is to say about it is in the list below.
- Materialization leases and previews: their files, and the acceptance of a preview,
  matter to the gates only through the outcomes the models have.
- A refinement of a gate's life by both executors would need one abstract gate that
  permits `LostVerdict` and `ResurrectedGate`; the action properties say the same per
  executor.

Next theorems, in order: a bound on the spending of a day that survives an edit of the
ceiling (the ceilings the gates were launched with, not those recorded); an abstract
life of a gate that both executors implement.

## 6. Known disagreements between the code and what the repository says

Besides the two violation runs, these have a configuration that TLC ends with the
counterexample:

| Configuration | Property | What it shows |
|---|---|---|
| `RaisedCost` | `SpendWithinCap` | `github-actions/store.ts:730`: the reservation adds up the ceilings the events were recorded with, the launch gets the ceiling of now; a raise in between lets a day exceed its cap |
| `SharedCommit` | `PaidOncePerCommit` | `store.ts:568`: a launch that failed leaves no gate id, so the same commit on another branch is paid for again |
| `BranchRecovery` | `CurrentHeadKept` | `reconciler.ts:339`: a recovered branch head carries the time of the cycle, so a push between listing and transaction is cancelled by the older head |
| `EditDuringCycle` | `BacklogNotCharged` | `store.ts:229`: a cycle that began before an edit fills the baseline the edit emptied, and the next one charges for the backlog |
| `AbandonedRow` | `SendingIsHeld` | `email/worker.ts:194`: a statement that throws inside a tick leaves claimed rows that no tick of this process looks at |
| `TokenLeft` | `TokenOnlyWhileNeeded` | `email/outbox-store.ts:99`: status and body change in two statements; between them a finished invite keeps its link |
| `CancelledQueue` | `CancelledGateStartsNothing` | `runner.ts:1446`: a scan waiting in the queue of its recovery is not cancelled with its gate and resumes (`src/docs/architecture/portable-graph-recovery.md:176`) |
| `BuildNobodyRuns` | `BuildingHasARun` | an Actions build that fails or is cancelled leaves the row building ("the screen promises a run nobody is doing", `guardrails/baseline-state.ts:218`; `app.ts:1108`) |
| `RefusedBootstrap` | `NoBaselineIsNoError` | `guardrails/actions-artifact-importer.ts:311`: a pull request judged on Actions without a baseline is scanned and paid, its bootstrap verdict is refused by the importer, and the gate ends in error |
| `RedactedBaseline` | `NoKnownFindingBlocks` | `gate-cli/src/run.ts:570`: on Actions the baseline's findings lose their stored identity and `evaluate.ts:181` makes one of the redacted text; a finding the baseline has comes out as new, and blocks ("recomputing it from redacted fields would turn a persistent finding into a new one plus a fixed one", `gate-core/src/evaluate.ts:16`; the test at `evaluate.test.ts:388` keeps the identity). The managed executor does keep it (`guardrails/sentinel-managed-executor.ts:507`) |
| `AllClear` | `OverMeansPublished` | `email/ops-notifications.ts:503`: the loop closes the alert of any gate whose status is not failed at that moment: a retry in flight, or an alert raised by a comment, is announced as a publication that succeeded |
| `LongInstall` | `InstallIsCovered` | `scanners/engine-updates-api.ts:132`: "A bounded install remains covered by the five-minute lease" while renewals throw, but its commands of two minutes run one after the other and may exceed it |
| `Blink` | `AlertAfterGrace` | an announced outage whose end found nobody to tell keeps its row, so the next blink is alerted at once and with the old date ("an engine that blinks is not an outage", `email/ops-notifications.ts:45`) |
| `PressedTwice` | `OneBuildAtATime` | two presses pass the check before either inserts its managed gate ("Pressing twice must not buy two full-repository scans", `app.ts:609`) |

Noticed while reading, and not stated as a property of a run:

- A re-run asked on a check is recorded at the action's live revision (`rerun.ts`), and
  the dispatcher compares revisions and not patterns (`github-actions/dispatch.ts:141`):
  a target the action no longer follows is scanned again.
- Any API failure inside a poll of an Actions gate ends it, although `index.ts:180` says "A persisted
  dispatch remains retryable after transient App/API failures".
- `src/docs/architecture/docker-deployment.md:55` says that interrupted work becomes
  incomplete "without an automatic paid retry"; `index.ts:139` restarts it, as
  `src/README.md:307` says.
- A scan cancelled directly, or by a drain, makes its managed gate complete with outcome
  error instead of cancelled.
- The recovery journal is written before the slot is asked for, so a full server burns
  a restart (`scanners/portable-server-recovery.ts:71`).
- A close event that arrives after the loop claimed the row overwrites queued or running
  with incomplete (`runner.ts:1030`); a worker killed by a signal before its first
  checkpoint becomes cancelled.
- `subscribeGate` relaunches a local gate whose scan is queued, and fails it. A gate
  resolving, evaluating or publishing when the process dies stays so; a managed gate
  after a restart always ends with `gate_finalization_interrupted`, even when its scan
  completed.
- Staleness of the baseline is lost when the button is pressed and the build fails
  (building takes the word's place), and when a deletion makes an older gate the newest;
  the notice of an expired artifact marks whatever gate the row names by then; a
  deletion does not refresh the row, which may name a gate that is gone.
- `ready` is said of a gate whose policy does not protect its branch, or whose scanner
  settings were changed since, although no later gate can be compared with it
  (`app.ts:431`, `app.ts:617`).
- Of two processes that check versions at once, the later write wins, also when its check
  is the older one; the staging directory of a process that dies stays on disk.
- Two concurrent publications may create two comments on one pull request, or write an
  older verdict over a newer one; the design has a missing comment looked for again
  where the code posts a new one
  (`src/docs/architecture/2026-09-30-github-guardrails-design.md:603`).
