# Verification of the hitechcloudOS runtime

hitechcloudOS is a local-first agent workspace: an Electron desktop that starts
a TypeScript runtime (`runtime/api-server`) over SQLite databases
(`runtime/state-store`). The runtime accepts inputs for chat sessions, queues
them, executes them through a runner process, and feeds the results of
background work back into the main conversation; it also runs the issues of a
workspace board and keeps the workspace's apps alive. This directory holds TLA+
models of its concurrent core, the TLC runs that check them, and proofs that
TLAPS checks.

Paths below are relative to `src/runtime/api-server/src/` unless they name
another directory; `store.ts` is `src/runtime/state-store/src/store.ts`.

## 1. Inventory

| component | state it keeps | operations | talks to |
|---|---|---|---|
| session input queue (`store.ts` 4900-5307) | `agent_session_inputs` rows: status, claim, lease, attempt, priority | enqueue, update, renew, claim, list | every worker and route |
| session runtime state (`store.ts` 5616-5709) | status, current input, worker, heartbeat per session | ensure, update | executor, queue worker, routes, event worker |
| queue worker (`queue-worker.ts`) | `#activeRuns`, poll loop, keepalive timers | recover, claim, start run, pause, wake, close | store, executor |
| claimed-input executor (`claimed-input-executor.ts`) | the locals of a run, terminal event, turn result | gate, reserve, run, retry, finalise, fail | runner, store, gate, compaction |
| queue, pause, edit, cancel routes (`app.ts` 10739-11171) | none | the HTTP face of the queue | store, queue worker |
| channel port (`channels/runtime-port.ts`) | conversation bindings | `fireMessage` enqueues a chat message | store, queue worker |
| integration-proposal gate (`integration-proposal-gate.ts`) | open proposals | evaluate, resume | executor |
| runner process (`runner-worker.ts` 577-1206, `runtime-shell.ts`, `ts-runner.ts` 1845-1917) | child process, pipe, hard, sliding and idle deadlines, heartbeat | spawn, read events, kill, defer a SIGTERM while compacting, leave the loop when a handler raises | executor |
| main-session events (`main-session-event-worker.ts`, `store.ts` 4077-4513) | `main_session_event_queue` | materialize, deliver, requeue, supersede, transfer | executor, queue, subagents |
| subagent runs and issues (`runtime-agent-tools.ts` 4049-5740, 7189-7570, `app.ts` 12560-12728, `store.ts` 2558-2656) | `subagent_runs`, issues with status and blockers | create, delegate, edit, dispatch, rerun, reply, resume, continue, read (which synchronises), cancel | queue, executor, events |
| app lifecycle (`app-lifecycle-worker.ts`, `app.ts` 4128-4330, 4629-4786) | child handles, ports, starts in flight, `app_builds` with a restart count | start, stop, ensure, health monitor with bounded restarts | app processes, routes |
| desktop main process (`src/apps/desktop/electron/main.ts` 7740-7820, 12860-12905, 17587-18323) | the runtime's process handle, its status, a lock around start and stop, a deferred restart, a row that survives the application | start, stop, restart when idle, recover once, quit | runtime process, windows |
| cron worker (`cron-worker.ts`, `cronjob-runtime.ts`) | `cronjobs` | fire due jobs, advance schedules | queue |
| evolve worker (`evolve-worker.ts`) | `post_run_jobs` with leases | claim, execute, requeue or fail | store |
| session checkpoint (`session-checkpoint.ts`) | harness session snapshots | compact, merge, retry | executor |
| output stream and relay | `session_output_events`, relay promise chain | append, tail (SSE), relay to the backend | executor, clients |
| terminal sessions, recall backfill, session todo, channel gateway, memory, harness host, database maintenance, SDKs, UI | see `PROJECT.json` | | |

`PROJECT.json` lists each component with its status, and under `hazards` every
hard behaviour we found with the line where it bites.

**How the parts interact.** All coordination goes through the database. A route
inserts a row; a queue worker polls (250 ms, or when woken), first recovers
claims whose worker is gone, then claims rows, at most one per session, and
starts an executor for each. A keepalive timer renews the lease (300 s) about
every second. The executor awaits the gate, the runner and possibly a
compaction; between two awaits its JavaScript runs without interruption. When
the runner has ended it writes terminal event, row, runtime state and turn
result one after the other. Pause and queue requests, chat messages, cron jobs
and the event worker read and write the same rows in between. The desktop
restarts the runtime (`apps/desktop/electron/main.ts` 7779), and a runtime that
is being replaced may overlap with its successor, so two workers can work on
one database.

**What is hard.** Recovery guesses from the lease and a heartbeat column whether
a claim is dead, while other writers touch that column. A worker that was late
acts on what it read earlier. A crash can fall between any two SQL statements.
Requests repeat. The store may refuse a write, and what a handler then raises is caught far away from the process it left behind. Compaction and gate are awaited between a check and the write
it protects.

**What makes the queue correct.** A live run keeps its claim; a session is never
executed twice at the same time; an input that waits for a retry shows nothing
of an earlier attempt; one terminal event per input; row, event stream and turn
result tell the same story; a session shown as busy has a claim; what is
settled stays settled; every accepted input is settled in the end.

**What makes the delivery of events correct.** An event that a subagent leaves
for the conversation is carried by one input at a time; the end of that input
delivers it or puts it back, and recovery does so when the input failed without
settling it; what was delivered or superseded is not told again; a follow-up
turn does not interrupt the user's turn.

**What makes the other parts correct.** A runner ends within its limits, and the
verdict of an execution is what the runner said or what cut it short, and a failure when
its handling broke. A run of
an issue is live exactly while it has something to execute; the board shows what
the run is; an issue is dispatched when what blocks it is done, never before,
and no edit makes it wait for itself. A crashing app is restarted a bounded
number of times, as long as the store takes the count, starts do not compete for its port, a running one can be
stopped and a dead one does not stay "running". The desktop loses no runtime
process: the one that lives is the one it holds or is stopping; a change of the
configuration reaches the runtime; who needs the runtime gets it or an error.

## 2. Modules

| module | role |
|---|---|
| `SessionQueue` | the queue, its workers, executors and routes |
| `InputLifecycle` | abstract: what the queue promises of one input's life |
| `SessionQueueRefinement` | the refinement mapping from the first to the second |
| `MCSessionQueue` | constant values for TLC |
| `SessionQueueProofs` | theorems that need no assumption on timing |
| `SessionQueueTimingProofs` | theorems under punctual event loops |
| `MainSessionEvents` | the events that subagents leave for a coordinator session and the inputs that carry them |
| `EventDelivery` | abstract: in whose hands an event is |
| `MainSessionEventsRefinement` | its events as those of `EventDelivery`, its inputs as those of `InputLifecycle` |
| `MCMainSessionEvents` | its constant values for TLC |
| `MainSessionEventsProofs` | its theorems |
| `RunnerProcess`, `MCRunnerProcess`, `RunnerProcessProofs` | one execution: runner, pipe, timers, abort, verdict |
| `RunOutcome`, `RunnerProcessRefinement` | abstract: one verdict for at most two runners; the mapping |
| `IssueWorkflow`, `MCIssueWorkflow`, `IssueWorkflowProofs`, `IssueSessionProofs` | issues, their runs and the sessions that execute them |
| `IssueWorkflowRefinement` | the inputs of an issue's session as those of `InputLifecycle` |
| `AppLifecycle`, `MCAppLifecycle`, `AppLifecycleProofs` | the processes of a workspace app and who starts, stops and heals them |
| `DesktopRuntime`, `MCDesktopRuntime`, `DesktopRuntimeProofs` | the desktop and the runtime process it embeds |
| `ProcessSlot` | abstract: the one process of a service: launched, given up, dead |
| `AppLifecycleRefinement`, `DesktopRuntimeRefinement` | the children of an app and the runtimes of a desktop as the processes of a `ProcessSlot` |

`SessionQueue` and `MainSessionEvents` share the rows of inputs and the runtime
state. `SessionQueue`
treats an input as opaque and refines who may execute it and when;
`MainSessionEvents` treats a claim as one step of one process and refines what
an input carries. Neither adds to the other: both implement `InputLifecycle`, as do the
inputs of an issue's session in `IssueWorkflow`, which is proved for all three.
The other modules touch them at one step each. `RunnerProcess` refines what
`SessionQueue` has between the spawn and the end of a runner (`RunnerGone`), and
`EveryRunEnds` is the fairness `SessionQueue` assumes there. `IssueWorkflow`
sees an execution of the queue as claim, gate and end, with the verdicts of
`RunnerProcess`. `DesktopRuntime` makes the processes whose start and death are
`Start` and `Crash` in `SessionQueue`, `Restart` in `AppLifecycle` and `Crash` in
`IssueWorkflow`. Both modules that run processes, `DesktopRuntime` and `AppLifecycle`, implement
`ProcessSlot`: a patient one for the desktop, whose stop keeps the lock until the child is
gone, and an impatient one for apps, where a start only looks at the port.

### State of `SessionQueue`

| variable | code |
|---|---|
| `process[w]` | the api-server process with worker identity `w` (`runtimeQueueWorkerClaimedBy` makes a new one at every start; a dead identity never returns) |
| `status, owner, lease, attempt` | columns of `agent_session_inputs`; `lease` is the ticks left to `claimed_until` |
| `progress` | the non-terminal rows of `session_output_events` for the input: none, the gate's waiting event, or events of a runner |
| `terminals` | its `run_completed` and `run_failed` events, in order |
| `turn` | the status of its `turn_results` row |
| `rtStatus, rtInput, rtWorker, beat` | `session_runtime_state`; `beat` is the age of `heartbeat_at` |
| `pc, abort, lost, seen, try` | `#activeRuns` and the locals of `processClaimedInput`: where the run awaits, the abort reason, `claimOwnershipLost`, the deferred terminal event, the runner attempt |

### Actions

One action is one synchronous stretch of JavaScript.

| action | code |
|---|---|
| `QueueRoute`, `QueueRouteAgain` | POST queue, first and repeated with the same idempotency key (`app.ts` 10739-10969) |
| `FireMessage` | a chat message through the channel port (`channels/runtime-port.ts` 226-334) |
| `CancelRoute` | DELETE of a queued input (`app.ts` 11119-11171) |
| `PauseQueued`, `PauseRunning` | `pauseSessionRun` (`queue-worker.ts` 183-224, 669-737) |
| `RenewOwnRun`, `RequeueClaim`, `FailClaim` | the three branches of `#recoverClaimedInputs` (401-563), guarded by `Recoverable`, i.e. `#claimRecovery` (565-624) |
| `ClaimInput` | `claimInputs` (`store.ts` 5139-5235) and `#startClaimedInput` |
| `Keepalive` | `renewActiveRunClaim` (`queue-worker.ts` 291-348) |
| `GatePass`, `GateBlock`, `SetupThrow` | the executor from the gate's answer to the spawn of the runner (`claimed-input-executor.ts` 3829-4076), and the worker's catch |
| `RunnerHeartbeat`, `RunnerEvent`, `RunnerTerminal`, `LoseClaim` | the runner's callbacks (4395-4432, 4481-4825) |
| `RunnerExitLost`, `RunnerExit`, `RunnerExitCompact` | what follows the runner's end (4827-5110) |
| `CompactRetry`, `CompactGiveUp` | what follows the compaction |
| `RunThrow`, `StoreThrow` | an exception and the executor's catch (5481-5602) |
| `Finalize(w, i, v, append, n)` | the finalising block (5215-5388); `n < 4` is the prefix of its writes that a crash (`CrashFinalizing`) leaves behind |
| `Start`, `Crash`, `Tick` | processes and time |

`pc = "unspawned"` is an executor whose signal was aborted before the runner
was spawned: `executeRunner` returns at once and no callback fires.
`QueueWorker.close` needs no action: it is a worker that takes no more
polls, lets its runs end and then goes.

### State of `MainSessionEvents`

| variable | code |
|---|---|
| `evStatus, evInput, ripe, replaced` | `main_session_event_queue`: status, `materialized_input_id`, whether `earliest_deliver_at` has passed, `superseded_at` |
| `status` | `agent_session_inputs.status` |
| `kind` | whether the input is a user's or a batch (`context.source`) |
| `carries` | `context.main_session_event_ids` |
| `key` | the idempotency key; `"batch"` is one that names the versions which the events of the batch have now |
| `begun` | the input has output events besides `run_claimed`, so recovery fails it instead of requeuing it |
| `rtStatus, rtInput` | `session_runtime_state` |
| `run` | where the executor awaits: the gate or the runner |
| `crashes, severed` | history: a `severed` input was cut off from its events by a cut block, by a pause or cancel in the queue, or by a repeated request after it had settled |

| action | code |
|---|---|
| `SubagentTurnEnds`, `SubagentContinues`, `Ripen` | `updateSubagentRunFromTurnResult` (`claimed-input-executor.ts` 3272-3428) with `supersedePendingSubagentEvents`; the coalescing window |
| `UserPost`, `UserPostAgain` | the queue route, which inlines pending background updates (`app.ts` 10855-10969), first and repeated |
| `FireMessage`, `PauseQueued`, `CancelRoute` | as in `SessionQueue` |
| `RecoverEvents`, `MaterializeBatch` | one pass of `processAvailableEventsOnce` (`main-session-event-worker.ts` 512-681) |
| `Claim`, `GatePass`, `SetupThrow`, `RunnerHeartbeat`, `RunnerEvent`, `RequeueClaim`, `FailClaim` | as in `SessionQueue`, for one process |
| `RunnerExit` | the finalising block with `maybeFinalizeMainSessionEvents` (3462-3582, 5215-5425) |
| `Crash` | the process dies and is replaced |

Actions with a parameter `n` are synchronous blocks of several writes;
`n = 3` is the whole block and smaller values are the prefixes that a crash or a
refused write leaves behind.

### `RunnerProcess`

| variable | code |
|---|---|
| `child, grace` | the runner and the SIGTERM it defers until its tail is done (`ts-runner.ts` 1876-1917) |
| `pipe, reader` | what it wrote and the parent has not read; the loop over stdout and the event whose handler it awaits, `"broken"` when an exception has left it |
| `hard, idle, beat` | the timers of `executeRunnerRequest` (`runner-worker.ts` 735-780), in ticks left |
| `started, saw, timedOut, idleOut, aborted` | its locals: `postStartDeadlineApplied`, `sawTerminal`, and what cut the run |
| `phase, attempt, owned, lost, reason, delivered, verdict` | the locals of `processClaimedInput` around `executeRunner` |
| `kind` | the caller: a session's run, a subagent's (sliding deadline), or `NativeRunnerExecutor.stream` |
| `said, emitted, age, cut, raised` | history: what the runner wrote, its age, what killed it after its terminal event was handled, whether an exception has ended the execution |

`ChildStarts`, `ChildSpeaks`, `ChildEnds` and `ChildExits` are the runner's own steps
(external: any harness); `HardDue`, `IdleDue`, `BeatDue`, `GraceDue` the timers; `Receive`
and `Handled` the two halves of an event (parsing it, and the await of `onEvent`),
`Skip` and `Stderr` what is no event; `Pause`, `ClaimTaken` and `ConsumerGone` the abort
signals; `Drained` the end of both pipes; `Settle`, `Finish` and `NoRetry` what the executor does
with an ended runner. `Raises` is an `onEvent` that raises, before or after its awaits: the loop is left and
its stream destroyed, the `finally` (902-911) takes down the timers and the abort listener, and the
runner goes on unwatched. `Caught` is the executor's catch (`claimed-input-executor.ts` 5481-5602), which fails the
input whatever the runner has said, or returns when the claim is lost; `ExecutorRaises` are the exceptions that reach it
from the executor's own code when no runner is there.

### `IssueWorkflow`

| variable | code |
|---|---|
| `task[i]` | the issue (status, blockers, who is active), its `subagent_runs` row, and its child session: runtime state, inputs, turn results |
| `exec[i]` | the executor of the claimed input, and after a crash the claim it leaves |
| `cancelling[i]` | a cancel awaits the run's settlement (`runtime-agent-tools.ts` 7550-7570) |
| `edits, crashes, followed` | the bounds; `followed` are the issues whose run was given an input directly |
| `byHand, withdrawn, torn` | history: the exceptions of section 5 |

| action | code |
|---|---|
| `Create`, `Patch` | POST and PATCH of issues (`app.ts` 12560-12728) with the checks on blockers (`store.ts` 2558-2613). `active_subagent_id` and `latest_subagent_id` in the body (12688-12693) are not among the fields refused while a run is active (12646-12655), so a PATCH may set them to null under a live run |
| `Delegate`, `Redispatch` | `delegateTask`; `rerunTask` and `replyTask` (`runtime-agent-tools.ts` 4488-4710, 5244-5336) |
| `FollowUp` | `resumeSubagent` and `continueSubagent` (5529-5774): an input for a run that waits or is over, which looks neither at the issue nor at its blockers. At this commit only tests call these two methods of the service; they are public and complete, so they are modelled |
| `Read` | every read of a run, which derives run and issue (`syncSubagentRunState`, 7387-7536) and dispatches what became ready (7271-7386) |
| `PauseQueued`, `DeleteQueued`, `Cancel`, `CancelSettles`, `CancelTimeout` | pause, DELETE, and the cancel with its wait (5372-5570) |
| `Claim`, `GatePass`, `SetupThrow`, `RunnerExit` | the executor, reduced to what the derivation reads |
| `DispatchCut(i, k)`, `FollowUpCut(i, k)`, `RunnerExitCut(i, v, k)`, `Crash`, `RecoverClaim` | the process dies after write `k` of a dispatch (`Begun`: run, runtime state without input, input, runtime state, the run's ids; the issue is the last), of a follow-up (`Given`) or of the end of a turn (`Ended`), or anywhere else; recovery |

### `AppLifecycle`

| variable | code |
|---|---|
| `child, termed` | the app's processes and who was sent SIGTERM |
| `proc, ports` | `shellLifecycleProcesses`, `shellLifecyclePorts` |
| `status, attempts, counted` | `app_builds.status`, its `restart_attempts`, and `autoRestartAttempts` in memory |
| `op, ensure, starter` | `appStartOperations`, `appEnsureRunningTasks`, the start route |
| `flow[a]` | a stop and what follows it: a request's or a restart of the monitor |
| `tick` | one cycle of the health monitor |
| `heals, lost, stragglers, clash, loose` | history; `heals` are the restarts in a row, `lost` the counts of them that the row may lack |

`Op...` actions are the stretches of `startShellLifecycleAppTarget` between its awaits,
`Ensure...` those of `ensureAppRunning`, `Stop...` those of `stopShellLifecycleAppTarget`,
`Tick...` and `HealFreed` those of the monitor; `Request` is a route or tool, `Restart` the
death of the runtime with its memory, whose children survive it. `TickUnhealthy` goes on when the store refuses the
count (`app.ts` 4724-4735). Other writes of a cycle are not caught: `CycleRaises` is the cycle that
rejects under `void runHealthMonitorCycle()` (4580), which ends the process (`index.ts` 67-88) and is
one of the ways of `Restart`.

### `DesktopRuntime`

| variable | code (`electron/main.ts`) |
|---|---|
| `life, exit` | the runtime processes; the exit event of a child that is due, and the probe its handler awaits (18219-18258) |
| `handle, intent` | `runtimeProcess`, `intentionallyStoppedRuntimeProcesses` |
| `status, lastError, record` | `runtimeStatus`; the row of `runtime_process_state`: pid, and whether it carries this launch's id |
| `lock, job` | `runtimeLifecycleChain` (7816-7820) as the queue of its jobs, and where the first one awaits |
| `at, told, tried` | where each caller awaits; in `ensureRuntimeReady` the status it was returned and `attemptedRecovery` |
| `deferred, timer` | the reason of a deferred restart and the interval that looks for it |
| `outdated, late` | history: the children that the last change of the configuration found; a start was served behind the quit's stop |

`Start...`, `ProbePort`, `Spawn` and `Boot...` are the stretches of `startEmbeddedRuntime`,
`Stop...` those of `stopEmbeddedRuntime`, `KillRecorded` and `Drained` those of
`terminateDetachedRuntime`; `Asker...` are `ensureRuntimeReady`; `Change`, `Decide` and
`Resume` are `restartEmbeddedRuntimeSafely`, and with the actor `Ticker`, after `TimerFires`,
`maybeRunDeferredRuntimeRestart`; `Quit` is `ensureAppQuitCleanup`.

### Abstractions of `SessionQueue`

* The pass of `processAvailableInputsOnce` is split per row. `ClaimInput`
  requires that nothing is left to recover, as in the code; other processes may
  step in between, which the code allows as well.
* `claimInputs` selects and updates without a transaction around both. One
  process cannot be interrupted there; two processes could meet in this window
  of microseconds. The model makes the claim one step.
* A crash cuts the finalising block anywhere but other synchronous blocks not
  at all. The block is the one whose partial effect recovery has to interpret.
* The writes of the catch block itself succeed. If they did not, the claim
  would expire and be recovered like that of a crashed worker.
* Each input is used for one request. `created_at` order is the order of
  identities; `available_at` is always due (the gate's deferral is overwritten by the
  failure, see finding 1).
* Inputs that the main-session event worker enqueues start with lifecycle events in
  their stream, so recovery never requeues them; `MainSessionEvents` has them
  (`begun`). The inputs of `SessionQueue` start with an empty stream.
* The early branch for a missing workspace and the edit route (text only) are
  left out, and so are outputs, memory writeback, notifications and subagent
  bookkeeping at the end of a run.

### Abstractions of `MainSessionEvents`

* One coordinator session: no rerouting of events to another owner, no transfer
  of a subagent, no rotation of a reset session, no archiving.
* One process at a time. A crash and the restart are one step: nothing that
  matters here happens in between. Claims of a dead process expire at any time
  after it.
* Events of one subagent stand for those of several: `Outdated` is the only
  place that distinguishes them, and `SubagentOf` is a parameter.
* Users' inputs have the default priority, so they go before batches
  (priority of a batch: -100). The route's limit of 200 inlined updates is not reached.
* The loop that finalises event by event is not cut between two events; it is
  cut before the first.
* The gate passes or raises. Its blocked branch raises as well (finding 1).
* `continueSubagent` (`SubagentContinues`) only occurs as the end of a turn whose
  successor is queued.
* A cut is not tied to a crash: `"tear"` lets the block end after any of its writes,
  which a refused write does too, while the process lives on: once the row is
  released, the executor's catch finds the claim gone and returns (5481-5488).
  A run that is under way survives such a cut, which a crash would end as well.
* An exception in a run that still owns its claim (5481-5602) has the effects of
  `RunnerExit` with the verdict `failed`.

### Abstractions of the other modules

`RunnerProcess`: POSIX, where the runner leads a process group; Windows kills the tree
at once. A tick is the resolution of all timers; a timer that is due fires before time
passes, so a blocked event loop of the parent is not modelled (the queue's stalls are),
nor an `onEvent` that never returns; one that raises is. What the catch block itself writes succeeds, as in
`SessionQueue`. The provider's termination text is one of three
terminal events; a stream's consumer has no second attempt.

`IssueWorkflow`: one workspace, one process; priorities, profiles, teammates, archiving and
deletion are left out. A cancel of a claimed input polls; the model's poll may answer at
any time or time out. Crashes cut the dispatch, the follow-up and the end of a turn after each of their
writes; other blocks are whole, so a process that dies between the row of a new or edited issue and its
dispatch is left out. A PATCH sets the ids of an issue's runs to null, not to those of a foreign run. The polish
pass that `ensureWorkspaceAppsRunning` queues into the session of the subagent that called it
(`runtime-agent-tools.ts` 8870-8915), and the branch of `updateSubagentRunFromTurnResult` that finds it queued
(`claimed-input-executor.ts` 3338-3360), are not part of this module (`MainSessionEvents` has the latter,
`SubagentContinues`). A subagent cannot ask the user by a tool. The inputs of a child session are claimed one at a time,
which `SessionQueue` shows.

`AppLifecycle`: one shell-managed app with setup, start and stop commands in one
workspace; compose and subprocess apps, uninstalling, listeners of other programs and
two monitor cycles at a time are left out. Probes and port lookups happen when they
are answered. The handle is dropped when the child exits, which the code finds out by
`exitCode` at each use. A monitor restart is an actor that may overlap with the others.

`DesktopRuntime`: POSIX, a complete bundle, one profile. A probe, and the row read next
to it, are evaluated when the probe is answered. The two refreshes in a row of
`ensureRuntimeReady` are one. Which sessions are busy is a choice at the decision; the
errors that reading them may raise are left out. Ticks of the watcher do not overlap
(5 s apart, a probe takes 1.5 s at most). A child's name is used again when it is gone and
its exit handled. SIGTERM of a stop, or of the listener's removal, lets the process exit
at any time; what SIGKILL hit is gone in the end. After the quit's stop the behaviour may
end at any moment. A start whose row cannot be written is left out.

## 3. Runs

| run | setting | shows |
|---|---|---|
| `queue_punctual` | 2 workers, 2 inputs of one session, crashes anywhere, gate, setup and run may raise, all verdicts | types, claims, coherence of the tables; the refinement |
| `queue_stall` | a worker may stall past its lease; a cron session with one requeue; two runs per worker | a stale worker does not touch what is settled or run a session twice |
| `queue_settles` | punctual, a cron session with one requeue, setup, run and store may raise, fairness | every accepted input is settled |
| `queue_gate_hold` | the gate blocks | finding 1 |
| `queue_lost_claim` | stall during a compaction | finding 2 |
| `queue_crash_message` | crash in the finalising block | finding 3 |
| `events_delivery` | a report and a question of one subagent, 2 inputs, 1 crash, every mishap, all verdicts, fairness | no event is told twice, left behind or undelivered; the refinement of `EventDelivery` |
| `events_pause` | no mishap, 3 inputs | finding 4 |
| `issue_workflow` | 2 issues that may block each other, two of 1 edit, 1 follow-up and 1 crash, verdicts completed and paused | run, session and board agree; ready work is dispatched and nothing starts early |
| `app_lifecycle` | 3 children, 1 restart allowed, 1 request, fault or death of the runtime, refused counts, fairness | bounded restarts, no clash over the port, stoppable and noticed apps |
| `runner_deadlines` | all limits 2, heartbeat and grace 1, 2 events, every caller, raising handlers, fairness | truthful verdicts, bounded runs, every run ends |
| `desktop_runtime` | 2 children and an orphan, one request, one change of configuration, the quit, 1 fault, fairness | no process lost, changes reach the runtime, requests answered |

**Bounds.** Two workers are needed for a handover, and a third would act like
the second: recovery looks at one claim at a time. Two inputs of one session
give the second claim, the overtaking by priority, the queued input behind a
running one and the repeated request. `Stale = 1` and `Lease = Stale + 2` keep the order of the
real thresholds (keepalive 1 s < stale heartbeat 20 s < lease 300 s);
`queue_stall` and the findings take `Lease = 2`, the least that tells fresh,
stale and expired apart. `RecoveryAttempts = 1` (code: 5) has one requeue and
one refusal, in the two runs with a cron session; `queue_punctual` has a conversation, where only an
input of which nothing was done is requeued. `MaxConcurrency = 2` in `queue_stall` lets a worker hold a stale
run next to a new one. `MayDie` keeps the last worker identity alive, because
identities are finite here: after the last crash the real system starts
another process, which the model would call a new identity.

`CHECK_DEADLOCK` stays on for `SessionQueue`: `Tick` is always possible once the
timers have run. It is off for `MainSessionEvents`, which stops when the inputs
and events are used up and nothing is left to deliver.

For `MainSessionEvents`, two events of one subagent give supersession, a batch
of each bucket and the precedence of questions; with two inputs an event that
one input gave back is carried by the next, and the two compete for it when a
request is repeated. One crash suffices: the second finds what the first
leaves, a claim without a run. The theorems of section 6 lift these bounds for
safety. `events_pause` needs a turn before the user's, or a chat message, to leave the
runtime state IDLE, and an input for the batch.

`issue_workflow` has 913,744 distinct states. Two issues give every relation (one
blocks the other, an edit that would close a circle, a dispatch from a cancel). `MaxEvents = 2` (the guard `Room`)
lets every pair of edit, follow-up and crash happen, and not all three; a follow-up that is cut counts
for two. TLC compares states by `MCView`, which forgets what no later step and no property reads: status and turn
result of a closed input that run and runtime state do not name, and `byHand` and `withdrawn` of an issue that is
`torn`, since each property that excepts the former excepts the latter and it stays so. Two states
with one view have the same steps up to the view.
Larger instances were explored once without a violation: edit, follow-up and crash in one behaviour (3.8 million
states), verdicts completed, asks and paused with the user's statuses todo and done (1.3 million), and all five verdicts with
three statuses, an edit and a follow-up (341 thousand) or with a follow-up and a crash (279 thousand).
`app_lifecycle` has 507,409; explored once: `MaxAttempts = 2` (3.3 million) and, safety
only, `MaxEvents = 2` (19.3 million). `MaxAttempts = 1` has a restart, the give-up and a count
over the limit. `runner_deadlines` has 645,082; explored once: `HardLimit = StartLimit = 3`,
`Grace = 2` (992 thousand). The limits are equal so that every order in which they pass
occurs.
`desktop_runtime` has 690,827; explored once, safety only: `MaxEvents = 2` (3.1
million) and two overlapping changes of configuration (10.1 million). Two children
are the one that is stopped and its successor; the lock admits no third, and the
theorems hold for any number.

Deadlock checking is off in `issue_workflow` (the user may have no edit left),
`app_lifecycle` (no request left and the app given up), `runner_deadlines` (the run is done)
and `desktop_runtime` (the application has quit): there the system may really stop.

`queue_stall` checks only what nothing else does: that queued inputs are clean, that there
is one terminal event and that verdicts agree is proved for stalls of any length
(`QueueCoherent`) and checked in `queue_punctual`.

**What the settings exclude, and why.** `OneTerminalEvent`, `VerdictsAgree` and
`BusySessionsHaveAClaim` are checked without refused writes (`"store"`): when
the store refuses the row's update after the terminal event was appended, the catch
appends a second one, and when it refuses the runtime state's, the session
stays BUSY at a settled input. `queue_stall` excludes provider terminations and
a raising setup, since both let a stale worker write without checking its claim
(finding 2, and the catch of `#startClaimedInput`).

## 4. Fairness

`FairSpec` assumes that a process of an identity that has not run yet is
started (the desktop restarts a dead runtime), that time passes, that a worker
polls (recovery and claims), that its keepalive timers fire, that the gate
answers, that a runner ends (hard deadline and idle watchdog kill it,
`runner-worker.ts` 713-766) and that a compaction returns. Each is weak
fairness of one worker, for one input where it concerns a run. Nothing is
assumed of clients, of runner events or heartbeats, of crashes or errors.
Without fairness of the poll loop or of `Tick` the liveness property fails at once.

`MainSessionEvents!FairSpec` assumes likewise that the event worker's pass runs to its end
infinitely often when it has work, that claims are taken, gates answer, runners end
and expired claims are recovered, each per input. It assumes nothing of users, of
subagents, of the coalescing window or of when a pass is cut.

`RunnerProcess`: time passes, due timers fire, and what the parent awaits returns; the runner
owes nothing, it may hang and ignore everything but SIGKILL. `AppLifecycle`: the awaits of
a start, an ensure, the monitor and a stop end (each has a timeout in the code) and the
monitor's timer fires; nothing of children or users. `DesktopRuntime`: the job that holds the lock
goes on (its probes time out after 1.5 s, its waits are counted), exit events and their
handlers run, what SIGKILL hit exits, and a caller resumes when its await is over;
nothing of users, restarts or of a runtime's health. `IssueWorkflow` has safety
properties only and assumes no fairness.

## 5. Properties

| property | says |
|---|---|
| `LiveRunsKeepTheirClaim` | no peer takes a claim from a live run while event loops are punctual, although routes rewrite the columns recovery reads |
| `OneClaimPerSession`, `OneActiveRunPerSession` | mutual exclusion per session, across processes and within one |
| `QueuedInputsAreClean` | a waiting input has an empty stream and no turn result |
| `OneTerminalEvent`, `VerdictsAgree` | one end, told alike by row, events and turn result |
| `BusySessionsHaveAClaim` | BUSY without a claim only after a crash |
| `SettledIsFinal` | no stale worker changes a settled row's status |
| `AcceptedInputsSettle` | queued leads to settled |
| `ImplementsLifecycle` | refinement of `InputLifecycle` |

For `MainSessionEvents`:

| property | says |
|---|---|
| `CarriersAnswerForTheirEvents` | whatever an input took along is with an open input, a failed one, or was stranded by a mishap that is recorded in `severed`: no other path leaves an event behind |
| `OpenInputsOwnTheirEvents` | the finalisation, which settles what the context names without looking at status or `materialized_input_id`, settles the input's own events |
| `ImplementsDelivery` | refinement of `EventDelivery`: what an open input carries is moved by its end only, and what was delivered or superseded is not told again |
| `EveryDeliveryEnds` | what is taken along is delivered, superseded or pending again in the end |
| `FollowUpsWaitForAPause` | the plan's delivery contract (finding 4) |

`severed` is the exception that the code needs: an input that was paused or
cancelled in the queue, or whose finalisation was cut, leaves its events
materialized for good, because recovery looks for FAILED inputs only
(`store.ts` 4448-4470). No document promises otherwise, so this is recorded as
a hazard and not as a finding; the properties show that these are the only ways.

For `RunnerProcess`:

| property | says |
|---|---|
| `VerdictIsTruthful` | a terminal event that was written decides, whatever deadline, pause or late heartbeat comes; only a user's pause is told as paused. An execution that an exception has ended is told as failed, also when the runner had completed |
| `OnlyDeadlinesCutCompaction` | a tail known to the parent is cut by the runner's own grace or the hard deadline only |
| `SilentRunsSurvive` | the heartbeat keeps the idle watchdog off a live, silent runner that is listened to |
| `RunsAreBounded`, `EveryRunEnds` | no runner outlives its limits while the loop over its pipe is intact (`Open`); every execution ends, broken ones included |

For `IssueWorkflow`:

| property | says |
|---|---|
| `OneInputAtATime`, `SettledRunsRunNothing`, `LiveRunsHaveWork` | a run has one open input at most, none when it is over, one when it is live |
| `IssuesShowTheirRuns` | the board shows what the run is |
| `ReadyWorkIsDispatched`, `NothingStartsBeforeItsBlockers` | issues are dispatched when their blockers are done, and not before, but for a follow-up, which does not look |
| `NoIssueWaitsForItself` | no sequence of edits closes a circle of blockers |
| `CompletedWorkStaysDone` | only an edit, a dispatch or a waiting cancel reopens completed work |

The exceptions are history variables, so that each property shows that they are the only ways:
`byHand` (a user set status, blockers or ids after the last dispatch), `torn` (a process died inside a
dispatch, a follow-up or the end of a turn, or a PATCH took both ids of a live run away, so that the issue may be dispatched
again beside it), `followed` (the step is a follow-up), `withdrawn` (the input left the queue by a pause, a DELETE, a
raising setup or a recovery, none of which tells the run). A cut excuses the issue itself
and what it blocks: the turn result that a cut end leaves behind is read again by a later cancel, which
may find the run completed, dispatch what it blocks and then mark it cancelled.

For `AppLifecycle`:

| property | says |
|---|---|
| `RestartsAreBounded` | the monitor restarts at most `MaxAttempts + lost` times in a row, across deaths of the runtime: each count that the store refused and that died with the memory allows one more |
| `StartsDoNotClash` | no child finds the port taken by one that nobody has given up |
| `RunningAppsCanBeStopped` | a running app's ports are known, or it came up in one of the ways `loose` lists |
| `DeadAppsAreNoticed` | "running" and dead leads to healthy or not "running", unless the recorded count is over the limit, the runtime died on the write that says so (`GivenUpUnsaid`), or no child is left in the model (`Crowded`) |

For `DesktopRuntime`:

| property | says |
|---|---|
| `NoRuntimeIsLost` | a living child is the one the desktop holds or the one the stop under way has signalled; after the quit's stop none is left, unless a start was queued behind it (`late`) |
| `ChangesReachTheRuntime` | a child spawned before the last change of configuration is not kept: a restart is under way, or deferred with its timer running |
| `EveryAskerIsAnswered` | `ensureRuntimeReady` returns or throws |

Theorems state the following as well, which no run repeats:

| property | says |
|---|---|
| `SettledIsNeverReopened` (`SessionQueueProofs`) | a settled row is never queued or claimed again, whatever a stale worker does |
| `SessionsRunAlone` (`SessionQueueTimingProofs`) | no two inputs of a session are executed at a time, across all processes |
| `SettledEventsAreFinal` (`MainSessionEvents`) | delivered and superseded events are not told again |
| `RowsImplementLifecycle`, `SessionsImplementLifecycle` | the inputs that carry events, and those of an issue's session, implement `InputLifecycle` |
| `ImplementsOutcome` | refinement of `RunOutcome`: one verdict, the last word of the last runner, or a failure when the execution broke; a second runner once, after a provider termination |
| `LiveRunnersHaveADeadline`, `NothingOutlivesTheRun` (`RunnerProcessProofs`) | what is alive will be ended unless the loop was broken; an execution that is over leaves no runner, output or timer, and if it was broken at most the runner and the idle watchdog that its stderr sets |
| `OneAppInOrder` (`AppLifecycleProofs`) | of an app's children that nobody has given up one lives at most |
| `ImplementsSlot` (`AppLifecycleRefinement`, `DesktopRuntimeRefinement`) | refinement of `ProcessSlot`: a process is launched into an empty slot, leaves it by dying or by being given up, and is never taken back; the desktop also waits until what it gave up is gone |
| `OneRuntimeLives`, `CallersHaveOneJob` (`DesktopRuntimeProofs`) | two runtimes of a desktop never overlap; who waits for the lifecycle lock has one job in it, and nobody else has one |

Each property of a passing run has a mutant (an operator defined just before the one it
replaces): a plausible slip in that function which the run must notice.

## 6. Theorems

For all values of the constants that satisfy `SessionQueueAssumption`:

| theorem | property | assumption |
|---|---|---|
| `TypeCorrect` | `TypeOK` | none |
| `QueueCoherent` | `QueuedInputsAreClean`, `OneTerminalEvent`, `VerdictsAgree` | `Undisturbed` |
| `SettledStaysSettled` | `SettledIsFinal` | `Undisturbed` |
| `QueueImplementsLifecycle` | `ImplementsLifecycle` | `Undisturbed` |
| `ClaimsAreSafe` | `LiveRunsKeepTheirClaim`, `OneClaimPerSession` | `Punctuality` |
| `PunctualQueueCoherent` | the three of `QueueCoherent` | `Punctuality`, no refused writes |
| `PunctualSettledStaysSettled` | `SettledIsFinal` | `Punctuality` |
| `LiveRunsAreSafe` | `LiveRunsKeepTheirClaim` | `Punctuality` |
| `RunsAreExclusive` | `OneActiveRunPerSession` | none |
| `SettledStaysClosed` | `SettledIsNeverReopened` | none |
| `SessionsAreExclusive` | `SessionsRunAlone` | `Punctuality` |
| `PunctualQueueImplementsLifecycle` | `ImplementsLifecycle` | `Punctuality`, no refused writes |
| `RetriesStartClean` | `QueuedInputsAreClean` | `Punctuality`, no refused writes |
| `BusyMeansClaimed` | `BusySessionsHaveAClaim` | `Punctuality`, no refused writes |

and for `MainSessionEvents`, for every set of events and subagents, every number of
inputs and crashes, and any choice of mishaps and verdicts, with no further assumption:

| theorem | property |
|---|---|
| `TypeCorrect` | `TypeOK` |
| `EventsAreAnsweredFor` | `CarriersAnswerForTheirEvents` |
| `FinalisationHitsOwnEvents` | `OpenInputsOwnTheirEvents` |
| `SettledEventsStayFinal` | `SettledEventsAreFinal` |
| `EventsAreDelivered` | `ImplementsDelivery` |
| `CarriersLiveTheirLife` | `RowsImplementLifecycle` |

and for the other modules, for all values that satisfy their assumptions:

| module | theorem | property |
|---|---|---|
| `RunnerProcessProofs` | `TypeCorrect`, `Truthful`, `CompactionIsKept`, `SilenceIsNoDeath`, `Bounded` | `TypeOK`, `VerdictIsTruthful`, `OnlyDeadlinesCutCompaction`, `SilentRunsSurvive`, `RunsAreBounded` |
| | `DeadlinesAreSet`, `NothingIsLeft`, `RunsHaveOneOutcome` | `LiveRunnersHaveADeadline`, `NothingOutlivesTheRun`, `ImplementsOutcome` |
| `IssueWorkflowProofs` | `TypeCorrect`, `NoCircle`, `BoardIsTrue`, `ReadyIsDispatched` | `TypeOK`, `NoIssueWaitsForItself`, `IssuesShowTheirRuns`, `ReadyWorkIsDispatched` |
| `IssueSessionProofs` | `OneInput`, `SettledRunNothing`, `LiveHaveWork`, `CompletedStaysDone`, `BlockersFirst` | `OneInputAtATime`, `SettledRunsRunNothing`, `LiveRunsHaveWork`, `CompletedWorkStaysDone`, `NothingStartsBeforeItsBlockers` |
| | `InputsLiveTheirLife` | `SessionsImplementLifecycle` |
| `AppLifecycleProofs` | `TypeCorrect`, `HealsBounded`, `StartsAgree`, `AppsRunOnce`, `AppsFillOneSlot`, `PortsAreKnown` | `TypeOK`, `RestartsAreBounded`, `StartsDoNotClash`, `OneAppInOrder`, `ImplementsSlot`, `RunningAppsCanBeStopped` |
| `DesktopRuntimeProofs` | `TypeCorrect`, `NoneIsLost`, `RuntimesDoNotOverlap`, `RuntimesFillOneSlot`, `ChangesReach`, `CallersAreQueued` | `TypeOK`, `NoRuntimeIsLost`, `OneRuntimeLives`, `ImplementsSlot`, `ChangesReachTheRuntime`, `CallersHaveOneJob` |

`Undisturbed` excludes the three ways in which a stale worker writes without
looking at its claim: the blocking gate, a raising setup and the compaction after a
provider termination (and refused writes); crashes and stalls of any length
remain. `Punctuality` says `MayStall = {}`, `Stale >= 1` and
`Lease >= Stale + 2`: a tick is longer than a keepalive interval.

**The argument.** `CoherentInv` adds to the types, for every input, what the
rows say in each status: a queued input is clean; a claimed one has no turn
result, and at most one terminal event, which then stems from a crash; a settled one has at
most one terminal event, the one that its status and turn result tell. This is not
implied by the properties, which say nothing of claimed inputs, and it is
inductive only together with the fact that every run that finalises checks its
claim in the same step. `TimingInv` says, beside the mutual
exclusion, that a live run owns its claim and has at least `Lease - 1` ticks of
it left, and that a runtime state which names a worker for a claimed input names
the claim's owner, with a heartbeat at most one tick old if that run is live.
Both branches of `Recoverable` are then false for a live run: its lease has not
expired, and its heartbeat is not stale. This is the step from timing to
`LiveRunsKeepTheirClaim`; mutual exclusion follows from `Claimable`. `Busy` adds that a busy
session names one of its own inputs. By `TimingInv` the worker it names owns that claim, so the
one write that ends a claim and leaves the session busy is cut short by the death of just that
worker (`FinalizeBusy`). A refused write leaves the process alive, hence the assumption.

For the events the inductive invariant is `IInv`: the types, the three facts on
events (an event's carrier exists, answers for it, and open inputs own what
they name), and three facts on rows: a run has a claim, a row that does not
exist is blank, and a batch key that still names current versions belongs to a
severed input. The last one is what the properties lack. The worker may
find its own earlier row again, and only because the pass that made it was cut;
otherwise the marks changed the versions that the key names. Each
property needs the others: an event that leaves `carries[i]` at the end of `i`
could otherwise be one that an open `j` names, which is what
`OpenInputsOwnTheirEvents` excludes. `EventsMoved` and `RowCreated` state
what a step may do to events and carriers; each action is then one instance.

*Refinements.* `SessionQueue` implements `InputLifecycle` from `CoherentInv`: an attempt is given
back only when nothing final was reported, and an answer is the first report of its input. Under
`Punctuality` the same holds with gate, raising setup and compaction, since no worker that lost its
claim is left to write (`TimingInv`). The mapping to `EventDelivery` says which input carries an event and
which inputs are live; `Loose` are the events that an open input names without having them, which
only a cut, a withdrawal or a repeated request makes. `IInv` gives that the end of a run moves what the
input carries, or what is loose. The inputs of `MainSessionEvents` and `IssueWorkflow` move one at a
time along `InputLifecycle`; the first needs that a run has a claim (`RunsAreClaimed`), the second that a place
beyond the last input is blank (`BlankInv`), and none of `SessionInv`: a session torn by a crash does not
execute an input twice either.

*Runner.* `VerdictInv` says in which phases a terminal event may have been written
(`Places`), and for a run that is still owned (`Spoken`) that every terminal event in the
pipe is that one, that it is in the pipe or delivered once it was written, and that
what is delivered agrees with `sawTerminal`; the verdict is made at the drained pipe. `CutInv` adds
that a stream, which handles its events at once, has no hard timer after the terminal
one. The mapping to `RunOutcome` takes what the runner wrote, read or not, for its last word; that the verdict
is this word is again `Places` and `Spoken` (`OutcomeIsTruthful`). A broken pipe is empty and stays so, so that `Spoken`, which is claimed of an open
one only, need not survive `Raises`, and the verdict of an exception is fixed by `raised`; in `RunOutcome` it is a step of
its own (`Break`, `BrokenEnd`). `SilentInv` says that while the parent listens the idle timer has more ticks left
than the heartbeat, which `IdleLimit > BeatEvery` gives. `BoundInv` says that age and hard
timer (or the runner's grace) together never exceed the sum of the limits, and that a
runner that is alive has one of them, while the pipe is open; with `TimersInv` (the timers run while the parent
reads) an execution that is over leaves none. Of a broken one the two say that hard deadline and
heartbeat are off: the idle timer is not, as the listener on stderr (804-820) outlives the loop.

*Issues.* `NoIssueWaitsForItself` speaks of reachability, and induction along a path is out of the
prover's reach; the argument uses that an issue is not upstream of itself if some set
that is closed under "blocked by" holds its blockers and not itself. Nobody waits for a new issue
(`Known`: blockers exist), and an edit is refused unless such a set exists. `FaceInv` generalises the two
properties of the board: an issue without a run is not linked to one (`Lone`), a run that no exception
covers is shown (`Showing`), and an issue that is ready and idle is excused (`Idle`, `Excused`).
`Moved` states what a synchronisation may do to an issue; every action is an instance of it.

The other five properties relate a run to the inputs of its session, and follow from `SessionInv`: an
issue that is not torn is `Sound`. A live run is known to its issue (`Tied`): this refuses a second
dispatch, and it is what a PATCH that nulls both ids destroys. Run and runtime state name the newest input or none (`Pointed`), no other
input is open, and the run is either about that open input (`Underway`) or `Over`, which lists what
run, runtime state and turn result may be so that the derivation of `syncSubagentRunState` gives
the same run again. Without that list a run that a pause has cancelled, or a result that is
read when the runtime state has changed, could come back to life at the next read. `Advances`
says what a step may do to an issue that goes on (it stays sound, and completed work stays so or
gets a new input); it is closed under composition, holds of a read, a dispatch and a
synchronisation, and each action is one or two of these. `DoneStep` and `ReadyStep` are the two
action properties, proved of every action along with the invariant; the second uses that a cancel of a run
that is still live after it was read has dispatched nothing (`SyncedLive`), and that no issue blocks
itself. A follow-up gives its own issue an input unasked (`FollowedSession`); what it finds completed has been
done long enough for the rest of its step to be an ordinary synchronisation.

*Apps.* `CountInv` says that the row never has a higher count than the memory, that a cycle of the
monitor has read the row's, and that every restart is counted in the memory or, when there is none, in the row, or
is among the `lost` ones: what the row lacked when the runtime died. `PortInv` says that one child at most listens, that a start about to spawn finds no
child in order on the port, and that a child that is starting in good order is the one the start
in flight waits for. `KnownInv` says when the ports of a child in order may be unknown (`Lost`): the
runtime has died, so no handle is kept, and the ensure that follows is still to look at an app
it takes for running, or waits for a start; a start that waits for its child knows the ports. A stop loses
no child, as by `PortInv` the only one it does not signal is that of the start in flight.
`OneAppInOrder` is `PortInv` read as a statement about one state. The mapping to `ProcessSlot` puts the
child in order into the slot and the living others among those that were given up. With `PortInv` a spawn finds the
slot empty and a step gives up one child at most; `HeldInv` (every handle, the stops' ones included, is of a child
that lives) keeps a stop that comes late from giving up the child that follows its own.

*Desktop.* `LostInv` adds to the property that a pending exit event belongs to a process that is gone,
that a stop under way and a start before its spawn hold no handle (`Unheld`); then a stop
leaves at most the child it signalled, and a spawn finds no living child.
`ChangeInv` adds that no restart waits for a start and that outdated children are not gone; that a
stop which ends leaves no living child is the lemma both use.
`RuntimesDoNotOverlap` is `LostInv` again: a stop that has signalled a child has taken the handle. The mapping to
`ProcessSlot` takes the living child of the handle for the one in the slot: `StopBegins` gives it up and SIGKILL
is its death, so that `Tracked` and `Unheld` leave a spawn nothing that lives. `CallersHaveOneJob`
is inductive with the types: a job is appended for a caller that has none (`OneMoreJob`), and the one at the
head goes with its caller's wait (`OneJobLess`).

**Model-checked only.** `AcceptedInputsSettle`, `EveryDeliveryEnds`, `EveryRunEnds`,
`DeadAppsAreNoticed`, `EveryAskerIsAnswered`: liveness is out of the prover's reach. Every
safety property and every refinement that a passing run checks is stated by a theorem. With stalls of
any length *and* a gate, a raising setup or a compaction there is no theorem on coherence and
refinement, because they fail (finding 2).

## 7. Findings

1. *The gate fails what it should hold* (`queue_gate_hold`). The blocked branch
   writes the runtime status `WAITING_ON_USER` (`claimed-input-executor.ts`
   3877); the table's CHECK constraint knows `WAITING_USER` (`store.ts`
   546-556, 16037). The write raises and the input becomes FAILED, while the comment at
   3829 says the input is held.
2. *A stale worker overwrites a settled input after a compaction*
   (`queue_lost_claim`). The claim is checked before the await (4827) and not
   after it (5077-5098).
3. *A completed input is failed* (`queue_crash_message`). After a crash between
   terminal event and row, recovery fails the row with the message that the
   lease expired "before the runner emitted a terminal event"
   (`queue-worker.ts` 595), although it found the event.
4. *A follow-up is materialised during the user's turn* (`events_pause`).
   `isMainSessionNaturallyPaused` (`main-session-event-worker.ts` 395-417) looks
   at the runtime state and at QUEUED inputs. A claimed input that awaits the
   gate is not QUEUED, and the runtime state may still be the IDLE of the turn
   before it. The plan
   (`src/docs/plans/2026-04-23-main-session-hidden-subagents-implementation-plan.md`
   579) forbids it strictly. The batch is executed after the turn, since a
   session has one claim, but its contents were frozen before it ended.

Four texts say what the code does not do; the runs above do not show them as counterexamples:

* `ts-runner.ts` 1845-1846 says that the parent does not escalate to SIGKILL after the terminal
  event because it clears its watchdogs first. That is so in `stream`; in
  `executeRunnerRequest` the hard timer runs until both pipes are read
  (`runner-worker.ts` 740, 902), which is why `OnlyDeadlinesCutCompaction` admits the deadline.
* `runner-worker.ts` 761-762 says that the hard timeout caps the wall-clock time of an execution whatever
  else resets the idle watchdog. After a handler has raised (861-863, 891-893) the `finally` clears the hard timer
  and the runner may go on for as long as it likes: `Open` in `RunsAreBounded`.
* `electron/main.ts` 17976 says that the final quit is blocked until the embedded services
  are torn down. A start that a restart queued behind the quit's stop (7800) still brings up
  a runtime: `late` in `NoRuntimeIsLost`.
* The test `electron/runtime-healthy-reuse.test.mjs` 6 says that a healthy runtime is only reused when it matches
  the current launch. `persistRuntimeProcessState` stamps this launch's id on every write (5188), so
  a runtime of an earlier launch that was not healthy at the first probe, and is
  later, matches (17772) and is kept.

**Observations.** What the models make visible, and no document contradicts:

* A cancel that waits finds the run completed: downstream issues are dispatched, then the run is
  marked cancelled and its issue blocked (`runtime-agent-tools.ts` 5471).
* A status that a user set by hand is overwritten by the next read of the run (7329).
* A process that dies between an issue's "done" and the dispatch of what it blocked leaves
  the rest undispatched for good (7380); one that dies inside a dispatch leaves an input
  that the next dispatch does not know (4870, 9127).
* A PATCH may set `active_subagent_id` and `latest_subagent_id` of an issue whose run is alive (`app.ts` 12646-12655,
  12688-12693); a dispatch then puts a second input into the run's session.
* `resumeSubagent` and `continueSubagent` start work on an issue whose blockers are not done (5529, 5641).
* When the handler of a runner event raises after `run_completed` was persisted, the input becomes FAILED with a second
  terminal event (`claimed-input-executor.ts` 5481), and its runner is left to itself.
* A restart count that the store refuses is forgotten with the runtime, so an app may be restarted once
  more for each (`app.ts` 4724-4735). A refused write elsewhere in the monitor's cycle ends the runtime; when it is the
  "failed" of the give-up, the next runtime finds the count over the limit and never says so (`GivenUpUnsaid`).
* Pausing or deleting a queued input of an issue leaves its run "queued", which refuses a
  rerun (`queue-worker.ts` 669, `app.ts` 11154).
* `killTrackedProcess` does not send SIGKILL on POSIX: `child.killed` is already true after
  SIGTERM (`runtime-shell.ts` 79).
* `ensureAppRunning` refuses a healthy listener that it does not track unless the status is running
  (`app.ts` 4207); `startApp` accepts it without remembering its ports. A setup in the start route
  passes no workspace (9790). A stop deletes the handle of a child spawned while it awaited the
  stop command (`app-lifecycle-worker.ts` 1290, 1333). A start that times out leaves its child alive.
* An app that was given up and brought up again by somebody is not watched any more until it is seen
  healthy (`app.ts` 4777).
* A restart of the runtime is decided while no session is busy and then waits for the lock; a session
  that becomes busy meanwhile is cut (`electron/main.ts` 7783-7799).

## 8. Not modelled

* Ownership transfer, rerouting and session rotation of main-session events (`store.ts` 4402): one
  coordinator owns all events here.
* Cron worker: one poller and a timestamp per job; its sessions are `Scheduled` in `SessionQueue`.
* Evolve worker: nothing in the repository enqueues a post-run job.
* Session checkpoints: whether the compaction changed the branch is a choice; the merge is data.
* Output stream and relay to the backend: a sequence number from one synchronous insert, reads, and
  network I/O that nobody awaits.
* Terminal sessions, channel gateway, connectors: I/O of one actor against its own rows.
* Memory, recall, session todo, migrations, harnesses, SDKs, packages, user interface: data, text,
  rendering; the harness appears as the runner's freedom.
* The desktop's windows, updates, authentication, missing bundles; everything on Windows.

These are the larger part of the repository by lines. What would come next: the transfer of
ownership with two coordinators.
