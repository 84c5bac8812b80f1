# Verification of the RalphX task engine

RalphX is a desktop application that drives coding agents through the life of a
task. A user plans work as tasks with dependencies; a scheduler starts those
that are ready; agents execute, test, review and merge them in git worktrees; a
transition service moves each task through 25 statuses; recovery puts things
right after a pause, a crash or an agent that died. All of it lives in one Rust
process (`src/src-tauri`) over one SQLite database, with dozens of asynchronous
tasks that read a row, await something, and write.

This directory models that engine in TLA+, checks it with TLC on small
instances, and proves the main invariants with TLAPS for all instances.
Source paths below are relative to `src/src-tauri/src/` unless they begin with
`crates/` or `docs/`.

## 1. The parts of the system

| Part | State it keeps | What it does | Model |
|---|---|---|---|
| Status machine (`crates/ralphx-domain/src/entities/status.rs`) | none | 25 statuses, legal transitions, terminal and dependency-satisfied sets | `TaskStatus` |
| Transition service (`application/task_transition_service.rs`, `domain/state_machine/transition_handler/`) | the row of each task | validated, corrective and re-entry calls; exit and entry actions; automatic transitions; repair of entry errors | `TransitionService` |
| Task repository (`infrastructure/sqlite/sqlite_task_repo/`) | table `tasks`, status history | blind update, update with an expected status, history record | actions of `TransitionService` and `DependencyGate` |
| Execution slots (`commands/execution_commands/state.rs`, `application/chat_service/`, the running-agent registry, the interactive-process registry) | `running_count`, idle marks, registry rows, open stdin handles | admit, launch, message, kill and tear down agents; recount | `ExecutionSlots` |
| Dependency manager (`RepoBackedDependencyManager`) | none of its own; dependency table | unblocks the dependents of a merged task | `DependencyGate` |
| Scheduler (`application/task_scheduler_service/`) | per-instance lock, set of tasks being started | picks ready tasks, blocks again those with unmet dependencies, starts the others | `DependencyGate` (gate, guard, start) |
| Startup jobs (`application/startup_jobs.rs`) | none | restore the halt, unblock, reconcile dependencies, recover active, merging and failed tasks | `DependencyGate` (both dependency passes), `ExecutionControl` (halt, active tasks), `ExecutionRecovery` (failed tasks), `MergePipeline` (pending merges) |
| Pause, resume, stop (`commands/execution_commands/lifecycle.rs`, provider errors in `chat_service_handlers.rs`) | pause flag, halt mode, reasons in the rows | move every active task, or one, to Paused or Stopped, and back | `ExecutionControl`, `HaltSwitch` |
| Merge pipeline (`transition_handler/merge_*.rs`, `side_effects/`, `application/git_service/`) | marks and metadata of the task, merge worktrees, the target branch | defers, merges, validates, reverts, retries | `MergePipeline` |
| PR mode and pollers (`application/services/pr_merge_poller.rs`) | polling marks of plan branches | follow pull requests | planned |
| Reconciliation (`application/reconciliation/`) | attempt counts and failure records in metadata | finds and retries tasks that are stuck or failed | `ExecutionRecovery`; paused tasks in `ExecutionControl`, merges in `MergePipeline`, the recount in `ExecutionSlots` |
| Message queue and delivery (`message_queue.rs`, `chat_service_queue.rs`, `chat_service_send_background.rs`) | queue per context, stdin handles | messages to busy or paused agents | `MessageDelivery` |
| Review cycle (`http_server/handlers/reviews/`) | reviews, issues | verdicts of review agents and humans | planned |
| Ideation, verification, dependency graph of a plan, teams, webhooks, agent harnesses, frontend | own tables | see `PROJECT.json` | not modelled |

### How they interact

* Everybody who moves a task calls the transition service, except the dependency
  manager, the scheduler's reblocking, startup, pause and the entry actions
  themselves, which write rows directly. All writes meet in one column,
  `internal_status`; there is no lock across a call.
* Entry of an agent-active status launches an agent through the chat service,
  which registers it, checks capacity, counts it and spawns it. Exit of one
  decrements `running_count`. The agent's stream ends in a handler that
  moves the task on, through the transition service.
* Entry of Merged walks the dependents; after that the scheduler runs.
* On a crash only the database survives. Startup cleans the registry, runs the
  two dependency passes, then recovers active tasks.

### What is hard, and what makes each part correct

* **Statuses.** A caller validates one status and writes later. Correct: of
  racing callers one wins, exit actions run once per departure, a validated
  move is legal when it is committed, every call returns.
* **Slots.** Counter, registry, idle marks and processes are four structures
  updated at different times by senders, streams, teardowns, stops and a
  recount. Correct: one agent per context, a run that is alive owns its entry,
  no entry is left behind, the counter comes right again.
* **Dependencies.** Each blocker is its own query and each write is unconditional
  or not depending on who makes it. Correct: nobody goes through the gate while
  held; whoever may go is let through, at the latest at the next start.
* **Halts.** A flag in memory, a mode in the database and the status of every
  active task change one after the other, by a user, by a provider error or by a
  restart. Correct: what the user halted stays halted until the user resumes;
  otherwise work goes on.
* **Messages.** A message is written to a process, launched as one, or queued,
  on what three gates saw one after the other; the ends of runs drain the queue.
  Correct: a message is in one place, and the queue does empty.
* **Recovery.** Counts, records and flags that decide over a retry live in the
  row of the task, which everybody writes whole. Correct: retries are bounded, a
  task somebody gave up is left alone, a dead agent is noticed, a failed task
  is retried or settled.
* **Merges.** Attempts at merges into one branch are kept apart by what they read
  of each other's rows and by marks that expire, and a failed validation resets a
  branch that others may have moved. Correct: what was Merged stays on the target,
  and every task leaves PendingMerge.

The full list of hazards, each at its line, is in `PROJECT.json`; those without
a property say why.

## 2. The modules

`TaskStatus` holds the statuses and the sets derived from them, and is extended
by `TransitionService`, `DependencyGate` and `ExecutionControl`. Each component module declares its
constants with named assumptions, its variables, one action per step between
two awaits of the code, and its properties. `MC*` modules give the instances
for TLC, `*Proofs` modules the proofs. Definitions that begin "Mutant of" are
plausible bugs, defined beside the code they corrupt; no action uses them.

### TransitionService

`call[c]` is the call a caller has in progress, its `pc` the await it is at.

| Action | Code |
|---|---|
| `Request`, `CasUpdate` / `CasLost`, `RecordHistory`, `ExitActions` | `transition_task`: read and validate, compare-and-swap, history, `on_exit` |
| `Reenter` | `execute_entry_actions` called on a task as it is (startup, resume, retries) |
| `PlainEntry`, `PrepareRead`, `PersistWorktree` / `KeepWorktree`, `EntryDone` | `on_enter`: the row read, git work, the row written back, the agent launched |
| `EntryBlocked`, `EntryConflict`, `EntryWorktreeMissing` | the three errors of entry and where each sends the task |
| `ConflictExit`, `RestoreWorktree` | `handle_branch_freshness_conflict`: `on_exit`, and a review's row read and written back with its worktree |
| `AutoWrite`, `AutoRecord`, `Finish` | automatic transitions, chained within the call |
| `CorrectiveRequest`, `FixExit`, `FixRead`, `FixWrite` / `FixLost`, `FixRecord` | corrective transitions, with or without exit actions |

A record of the history also sets the status, without a condition
(`persist_status_change`); so does the rewriting of a row by entry actions. Both
are writes of their own here. `owed`, `departures` and `releases` are history
variables.

### ExecutionSlots

A *run* is one incarnation of an agent process in a chat context. `run[r].pc`
goes from `registered` through `checked`, `counted`, `turn`, `between` to the
four steps of its teardown. `registry`, `ipr` and `idle` are the three maps of
the code; `claims` are senders between their write to stdin and their claim of the
slot; `cleaning` and `recount` hold what a stale cleanup and the recount have
read and not yet used.

Two guards state timing that the code relies on without enforcing it:
`TeardownPending` (a later run does not complete a turn, which takes a model's
answer, within the few queries between the end of a stream and the end of its
teardown) and `TakenClaimed` (a sender claims the slot, its next statement,
before the model has answered its message). They restrict `TurnComplete` only.
Without them the idle mark of one run can be removed by another's teardown;
`CountHeals` is checked under them, and the proofs do not use them.

### DependencyGate

Workers are the walks over dependents (one per merged task), scheduler instances,
and startup. `job[w]` holds the list it works through (`todo`), the task it
is at (`dep`), the blockers still to be read (`left`) and the status it read
(`row`). `Take`, `BlockerSatisfied`, `AllSatisfied` and `BlockerUnsatisfied` are
shared: the three read blockers the same way, and differ in where they go next
(`Cleared`, `Held`) and in what a failed query means (`TakeFails`,
`BlockerUnread`, `FailOpen`).
Then:

| Action | Code |
|---|---|
| `Move`, `UnblockAgain` | a user, agent or the pipeline moves a task; entry of Merged, and the second call after a merge agent, begin a walk |
| `ReadRow`, `Unblock`, `UnblockRecord`; `ReadWaitingRow`, `BlockerUnnamed`, `BlockerNamed`, `NothingNamed`, `WriteReason` | the two branches of `unblock_dependents` |
| `Schedule`, `Reblock`, `ReblockRecord`, `PassOver`, `Mark`, `Claim`, `StartTask`, `StartRecord`, `Entered` | `try_schedule_ready_tasks` |
| `Crash`, `List`, `Repair`, `RepairRecord` | `unblock_ready_tasks`, `reconcile_dependency_violations` |

`reopened` remembers which blockers of a worker's task ceased to be satisfied
since it took the task up: no code can know of those without a lock, and
`NeverUnblockedEarly` excuses nothing else but a query that failed (`unread`),
which all but the first pass of startup take for a satisfied blocker. One project is modelled; a task has
at most one walk of its own at a time; a move of `Move` is one step, as its
races are the subject of `TransitionService`. Reading on after the first
unsatisfied blocker, as the second pass of startup does, changes nothing
but the text of a reason, and is left out.

### ExecutionControl and HaltSwitch

`op[c]` is the command a caller is in the middle of: the user's (pause, stop,
resume, of everything or of one task), the pause by a provider error, or the
startup. `flag` is the flag in memory, `halt` the mode in the database. The
rows keep `pause_reason`; `from` is the status history.

| Action | Code |
|---|---|
| `UserHalts`, `ProviderHalts`, `SetFlag`, `PersistHalt`, `PersistFails`, `KillAgents`, `List`, `Mark`, `MovePaused`, `MoveStopped`, `HaltDone` | `pause_execution`, `stop_execution`, `apply_global_rate_limit_backpressure` |
| `UserResumes`, `PersistRun`, `SkipRestore`, `StopRestoring`, `Restore`, `EnterAgain`, `Unflag`, `Relaunch`, `ResumeDone` | `resume_execution`, the queued prompts included |
| `UserHaltsTask`, `UserResumesTask`, `TaskDone` | `pause_task`, `stop_task`, `resume_task` |
| `SeePaused`, `CountAttempt`, `ResumePaused`, `ClearResumed`; `SeeTired`, `GiveUp`, `FailTask`; `Respawn` | the reconciler |
| `Crash`, `Start`, `StartBlind`, `StartTask`, `StartDone` | a restart at any point |
| `Report`, `GoesOn`, `Merge` | agents and transitions in between |

Entry actions are one step, as far as they launch an agent, queue its prompt or
fail for want of room (`Entered`): what happens between the awaits of an entry
is the subject of `TransitionService` and `ExecutionSlots`. `HaltSwitch` is the
abstract specification, a switch with two contacts, one of which forgets its
position in a restart; the property `HaltIsASwitch` is `ExecutionControl`
implementing it, with the mapping `closed <- flag, stored <- halt`. `held`, a
history variable in both, is true from the end of a user's pause or stop to the
user's next resume. Two commands of the user do not overlap, as the interface
waits for the first; a provider's pause overlaps anything.

### MessageDelivery

One context. `sender[m]` is the await at which the send of message `m` stands,
`run[r]` a launch of the agent from its registration to the end of its drain.

| Action | Code |
|---|---|
| `Send`, `SendToQueue`, `WriteStdin` (gate 1), `Claim` (gate 2), `Enqueue` | `send_message`, `queue_message` |
| `Launch`, `LaunchFails`, `Answer`, `Exit`, `ProviderRefuses` | the process, whose end is a choice |
| `Unregister`, `ClearPipe`, `AfterSuccess`, `AfterError` | the end of a stream |
| `Look`, `LookAgain`, `Pop`, `Hold`, `Serve`, `ServeFails`, `ServeRefused` | `process_queued_messages` |
| `Pause`, `StopClears`, `Resume`, `Leave`, `Age` | what changes around it: a stop is a `Pause` and the clearing of the queue; `Age` is the staleness threshold passing |

`answered` and `gone` are history variables; a message is `gone` where the code
returns an error for it, logs that it dropped it, or its process ended with it.

### ExecutionRecovery

One task, its latest run and agent, the entry of its status (by a user's command,
or by the reconciler or startup), the handler of a failed stream, and the
reconciler, which visits the task while it executes and when it has failed. Row and
metadata are what the code stores: status, respawns counted, the recovery record
(its state, its cause, tries counted, whether retries were stopped), the
timeout flag, and whether `failed_at`, which the first failure sets, is older
than the staleness threshold (`Ages` and `Crash` can make it so; `Stale` is the
check of the reconciler and of startup).

| Action | Code |
|---|---|
| `Begin`, `Prepared`, `Blocked`, `RecordIsolation`, `Spawn` | entry of Executing, with the row written back whole |
| `Complete`, `Die`, `Fail`, `HandlerReads`, `HandlerWrites`, `HandlerFails` | the agent's end, and `handle_stream_error` |
| `LoopReads`, `LoopLeaves`, `LoopReviews`, `LoopHalts`, `LoopFails`, `LoopCounts`, `LoopRespawns` | `reconcile_completed_execution`, `apply_recovery_decision` |
| `LoopChecks`, `LoopCleans`, `LoopRecords`, `LoopRetries` | `reconcile_failed_execution_task` |
| `StartupRecovers`, `StartupStartsOver`, `StartupSkips` | `recover_timeout_failures`, with `auto_recover_task` where the branch is lost |
| `UserStops`, `UserRestarts`, `UserEndsRetries`, `Crash`, `Ages` | commands, a restart at any point, and the passing of the threshold |

### MergePipeline

Several tasks, one target branch. `run[r]` is the attempt that `r` makes: the
caller that approved the task, the retry that the exit of another merge spawns,
or the reconciler. It holds its copy of the row, which it writes whole. `line` is
the target's history: for each commit, the tasks whose changes it contains.
`holder` is the task whose merge worktree has the target checked out.

| Action | Code |
|---|---|
| `Approve`, `Prepare`, `Clear` | entry of PendingMerge, `attempt_programmatic_merge` around the pipeline |
| `GuardDefers`, `Defer`, `GuardPasses` | `run_concurrent_merge_guard`: the read of the other rows, and the write that follows it |
| `MergeSame`, `Merge`, `TimeOut` | `dispatch_merge_strategy`, with the squash strategy |
| `ValidationPasses`, `ValidationFails` | `handle_outcome_success`, `handle_validation_failure` |
| `Complete`, `CommitIsGone` | `complete_merge_internal` and its failure |
| `Retry`, `NothingToRetry` | `retry_deferred_merges` |
| `ReconcileExpired`, `ReconcileDeferred`, `ReconcileStale`, `ReconcileIncomplete` | `reconcile_pending_merge_task`, `reconcile_merge_incomplete_task` |
| `Crash`, `Startup` | a restart at any point, and its merge-first recovery |

Each command, each pass of the scheduler and each start builds a transition
service of its own, and with it a `merge_lock` and a set `merges_in_flight`
(`task_transition_service.rs:1214`), so neither keeps two runners apart; a runner
makes one attempt at a time. The marks of an attempt and of its validation are
times. `MayBeExpired` and `MayBeInvalid` say when a reader may find them expired:
while what their deadline covers is under way, it may not. `overlap` is a history
variable.

## 3. What is checked

A passing run finishes with no error. A violation run checks one sentence that
a document or comment of the repository states, and the code does not keep;
`PROJECT.json` quotes it under `findings`.

| Run | Instance | Shows |
|---|---|---|
| `transition_races` | 1 task, from every status, 2 callers, 2 calls, fairness | exit actions once per departure, validated moves legal, every call returns |
| `slots` | 1 review, 2 runs, 1 message, 1 slot, fairness | a live run owns its entry; no entry left behind; the counter heals |
| `gate_early` | a task with two blockers, 1 scheduler, 3 moves, any query may fail | nobody is let through early |
| `gate_startup` | a pair, from every status, 2 moves, 2 crashes, fairness | nobody is let through early; startup wakes who may go, takes back who may not |
| `control` | 2 tasks, room for 1 agent, 2 commands, 1 restart | a halt holds; the control implements `HaltSwitch` |
| `control_goes_on` | the same with 1 command, failing reads of the settings, fairness | a task without its agent gets one again |
| `messages` | 2 messages, 2 runs, 1 pause, contexts of three kinds, fairness | a message is in one place; no answered prompt of a task comes again; the queue is drained |
| `recovery` | 1 agent's death, 1 act of the user, 1 restart or long pause, 1 try of each kind, fairness | what is given up is left alone; deaths are noticed; failures that are not stale are retried or given up |
| `merges` | 2 tasks, a target that is not checked out, 1 setback (timeout, restart, or a mark that expires while its attempt goes on), 1 automatic retry each, fairness | while attempts do not overlap, what was Merged is on the target; every task leaves PendingMerge |

| Violation run | Statement that fails | Behaviour |
|---|---|---|
| `gate_lost_wakeup` | a merge makes the dependents it was the last blocker of Ready | a slower walk writes its stale row, Blocked, over Ready |
| `recovery_respawns` | an agent is started again at most `executing_max_retries` times | the reconciler stores the count, then writes the task it had listed over it |
| `merges_lost` | resetting after a failed validation restores the target to what it was before that merge | the mark of an attempt expires while it validates, another task merges on top of its commit, and its reset of the checked-out target takes that task's commit away |

Further counterexamples have a configuration beside these, to be run by hand
(`tlc -config <file> <module>`); section "Statements that also fail" has what
they refute:

| File | Module | Refutes |
|---|---|---|
| `ts_history.cfg` | `MCTransitionService` | `HistoryKeepsStatus` |
| `ts_release.cfg` | `MCTransitionService` | `ReleaseOnlyOnDeparture` |
| `slots_burst.cfg` | `MCExecutionSlots` | `SlotHeldUnlessBetweenTurns` |
| `slots_two_agents.cfg` | `MCExecutionSlots` | `OneAgentPerContext` |
| `gate_two_starts.cfg` | `MCDependencyGate` | `StartedStaysStarted` |
| `control_provider.cfg` | `MCExecutionControl` | `ProviderPauseEnds` |
| `control_resume.cfg` | `MCExecutionControl` | `ResumesWherePaused` |
| `messages_stranded.cfg` | `MCMessageDelivery` | `SentIsServed` |
| `recovery_timeout.cfg` | `MCExecutionRecovery` | `TimeoutGivenUpIsLeftAlone` |
| `recovery_stale.cfg` | `MCExecutionRecovery` | `OldFailureIsSettled` |
| `merges_checkout.cfg` | `MCMergePipeline` | `CheckoutIsLeftAlone` |
| `merges_overlap.cfg` | `MCMergePipeline` | `OneMergeAtATime` |
| `merges_alone.cfg` | `MCMergePipeline` | `AloneIsSafe`, for a target that is checked out |

`slots_registry.cfg` (`MCExecutionSlots`) is a second instance that passes: an
execution entered twice beside an ideation session, without messages.

### Bounds, and why they are enough

* `MaxCalls = 2` with two callers: a race needs two calls in flight, and the
  proof of `ExitActionsOnce` covers any number. A corrective or re-entry call counts as one; entry errors and automatic transitions inside
  a call are not bounded. Callers ask for six statuses, one of each kind: agent-active
  with and without preparation, automatic, terminal, neither.
* Slots: two runs give an old and a new run of one context, each launched on an
  entry of its own (a review entered once, and the relaunch of its agent); one
  message, written while a turn runs, gives turns that overlap. Two contexts and a
  task that comes back are in `slots_registry.cfg`, and the proofs cover any number.
* Gate: a task with two blockers is the least graph in which two walks meet at
  one dependent. A pair keeps the instance with crashes small and starts the
  dependent in every status. Three moves finish a blocker, finish the other and
  reopen one of the two. Failing queries and crashes together are left to the
  proof, and liveness is checked without failing queries: a startup that cannot
  read a task skips it.
* Control: two tasks and room for one agent are what makes a launch wait, fail or
  end a loop early; two commands give a pause that meets a resume, a stop or a
  provider's pause, or that comes after it; agents report either to review or to
  the next pass. `control_goes_on` takes one command, as liveness costs more.
* Messages: one message is in the way of the other, one run of the other; the
  same properties hold with two pauses.
* Recovery: each limit is 1, so that the first try counts and the second is
  refused; one death, one act of the user, and one restart or long pause can come
  at any point of each other. A restart may come after a day, too. The properties
  also hold with two deaths where nobody else acts. `recovery_respawns` needs three
  deaths and nobody else.
* Merges: two tasks are what one reset, one deferral and one guard need. They are
  alike, so the order of approvals is fixed (`Arrivals`). One setback and one
  automatic retry of each suffice for each refuted statement; that the mark of an
  attempt that is over expires is no setback. The safety properties of `merges` were also
  checked with two setbacks.
  Its target is not the branch that is checked out: with the other choice
  `AloneIsSafe` fails without an overlap (`merges_alone.cfg`). A restart while t1
  validates leaves its commit on the target, and startup makes t1 MergeIncomplete;
  t2 is Merged on top; the automatic retry of t1 finds both branches the same and
  has the root validated, and its reset takes the commit of t2.
* Bounded actions (`calls < MaxCalls`, `attempt[c] < MaxEntries`, `messages <
  MaxMessages`, `moves < MaxMoves`, `crashes < MaxCrashes`, `begun < MaxCommands`, `restarts <
  MaxRestarts`, `pauses < MaxPauses`, `bounds` of
  `ExecutionRecovery`, `setbacks < MaxSetbacks`) are all made by the environment, or are a
  matter of time, so a bound ends no part of the system's own work. Transitions and
  the gate, the control, messages, recovery and merges stop when bounds are used up and everyone is idle, so deadlock is not
  checked there; in `ExecutionSlots`, where the recount goes on for ever, it is.

### Fairness, and why the code justifies it

A future that has been spawned is polled by the runtime until it is done. So
`TransitionService` assumes weak fairness of the steps of a call once made,
`ExecutionSlots` of the progress of a registered run, of a sender's claim, of a
begun cleanup and of the reconciler's loop, `DependencyGate` of walks and
startup. Nobody is obliged to call, to send, to move a task or to schedule, and
an idle process need not ever be spoken to.

`ExecutionControl` adds that a command goes on, a startup goes on, and agents
report (a turn has a timeout); the reconciler's passes are strongly fair per
task, as it lists all of them every 30 seconds and others may occupy the slots in
between. `MessageDelivery` has senders and ends of runs go on and processes end;
`ExecutionRecovery` the entries, the handler and the reconciler's loop, where
backoff and a lack of slots pass, and nobody keeps the program paused for ever.
`MergePipeline` has attempts go on, and the
reconciler's passes strongly fair per task: it lists all of them again and again, and
what it waits for (a mark that expires) may be interrupted by another attempt's
mark. The retry that an exit spawns is not needed for `Settles`, and not assumed.

### Statements that also fail

The models contain each of these as the code has it; no listed run is spent on
them.

* `task_transition_service.rs:1591`: a caller that lost the optimistic lock
  changes nothing. The history record (`persist_status_change`) of the caller that
  won sets its target once more, without a condition, after a second caller has
  moved the task on (`ts_history.cfg`).
* `task_transition_service.rs:2629`: `running_count` drops when a task leaves an
  agent-active status. Two corrective calls leave one status once and both
  decrement (`ts_release.cfg`).
* `chat_service_streaming.rs:2468`: the slot is held unless idle between turns. A
  message written during a turn is answered in a turn without a slot
  (`slots_burst.cfg`).
* `chat_service/mod.rs:2117`: the registration guard is atomic, one agent per
  context. Stop deletes the entry of a launch in progress, and a second launch
  begins (`slots_two_agents.cfg`).
* `task_scheduler_service/mod.rs:520`: two schedulers do not start the same
  task. The second writes its stale row, Ready, over Executing
  (`gate_two_starts.cfg`).
* `docs/user-guides/execution.md:334`, `:467`, `:566`: a task paused by a rate
  limit resumes by itself. The handler sets the flag of the whole program
  (`chat_service_handlers.rs:509`), the reconciler does nothing under it
  (`handlers/execution.rs:461`), and only the user's resume clears it
  (`control_provider.cfg`).
* `docs/user-guides/execution.md:488`: at most `max_resume_attempts` resumes. Each
  resume and each further pause sets the count back to 0 (`Mark`, `ClearResumed`).
* `lifecycle.rs:145`: resume takes each task where it was. A reason that a later
  pause did not renew sends it where an earlier one was (`control_resume.cfg`).
  A task paused in PendingMerge has no legal way back and stays Paused
  (`SkipRestore`), as do those after the first without room (`StopRestoring`).
* `docs/user-guides/task-state-machine.md:431`: pausing or stopping a task kills its
  agent. The commands for one task do not (`UserHaltsTask`).
* A stop is final until the user restarts the task: the pause of a provider error
  writes the row it listed, status included, over a stop in between (`Mark`).
* A pause that begins while a resume restores tasks is undone at its end
  (`lifecycle.rs:296`, `Unflag`), and a start that cannot read its settings
  forgets the halt (`StartBlind`); `control` is checked without the latter.
* `docs/user-guides/agent-orchestration.md:309`: a message to a busy agent is
  delivered as soon as it is ready. A sender that found the run registered may
  queue after the run's drain has looked for the last time (`chat_service/mod.rs:2185`,
  `messages_stranded.cfg`), and waits for the next message.
* Messages are answered in the order they were queued: a pause puts the one in hand
  back in front of what another drain has taken (`Hold`), and a chat's launch
  message is queued again though it was answered, if the provider refuses a
  later one (`ProviderRefuses`).
* Messages wait out a pause: those older than the threshold of five minutes are
  dropped by the first run that ends well (`AfterSuccess`).
* `handlers/execution.rs:1059`: the budget of git isolation retries. Each such
  failure stores a new record (`task_transition_service.rs:3428`), so it is never
  used up (`RecordIsolation`).
* The reconciler judges a task by the run of its current execution. Between
  re-entry and launch it is the one before, and a task may go to review without
  having run (`reconciliation/events.rs:58`, `LoopReviews`).
* `handlers/execution.rs:645`: the row is read again before an action on it. It
  is compared with itself (`LoopReads`).
* A user's Cancel, Stop or Restart holds against cleanup and entry in progress:
  `handlers/execution.rs:1210` and `on_enter_states/execution.rs:407` write
  back what they read before their git work (`LoopCleans`, `Prepared`), and
  `TimeoutGivenUpIsLeftAlone`'s sibling `GivenUpIsLeftAlone` excuses a row that
  was in somebody's hands.
* A failed task that awaits a retry is retried or given up. The reconciler and
  startup pass over one whose `failed_at` is older than `recovery_staleness_secs`
  (`handlers/execution.rs:947`, `:221`), and set no `stop_retrying`: it stays
  Failed and in retry for ever. The first failure sets `failed_at`
  (`on_enter_states/outcomes.rs:87`), so this meets a task that fails again a day
  after its first failure, as well as one that failed before the program was
  closed or paused for long (`recovery_stale.cfg`). `FailedIsSettled` excuses it.
* `reconciliation/metadata.rs:794`: a task whose retries the user cancelled remains
  Failed. The recovery at startup takes up every failed task marked `is_timeout`
  (`handlers/execution.rs:206`), which the Cancel action leaves
  (`recovery_timeout.cfg`).
* `docs/user-guides/merge.md:624`: only one merge to a branch at a time. The mark
  of an attempt expires while its validation runs; the reconciler takes the task
  out of PendingMerge, and the guard of the next attempt does not see it
  (`merges_overlap.cfg`).
* `merge_orchestrator.rs:889`: no race between the decision to defer and its
  record. The lock is not shared, so the record may come after the retry that
  would have ended the deferral (`Defer`); `Settles` shows that the reconciler
  finds such a task.
* `docs/user-guides/merge.md:136`: the user's checkout is never modified. When
  source and target are the same, the root of the project stands for the
  worktree, and a failed validation resets whatever branch it is on
  (`merges_checkout.cfg`).
* `docs/user-guides/task-state-machine.md:537`: terminal statuses only reopen to
  Ready. Entry actions write back the row they read before their git work
  (`on_enter_states/execution.rs:407`), so a stop in between is undone
  (`PrepareRead`, `PersistWorktree`).
* `docs/user-guides/configuration.md:176`: a hard cap on concurrent agents. The
  check (`chat_service/mod.rs:2436`) and the increment (`:2642`) are awaits apart
  (`CheckCapacity`, `Count`).
* `chat_service_handlers.rs:1084`: a slot is given back a second time only if it
  was taken again. The two conditions are read at different times
  (`TakesAgain`, `NegatesAgain`).
* `sqlite_running_agent_registry.rs:657`: stale cleanup never deletes a live
  agent's row. Lookup and deletion are two queries (`FindStale`,
  `DeleteStale`).
* `docs/user-guides/merge.md:511`, `execution.md:505`, `task-state-machine.md:576`:
  cancelling unblocks dependents. Only entry of Merged does (`Move`), as
  `task-state-machine.md:478` says.
* `task_transition_service.rs:452`: a walk checks each blocked task. Where there
  is no blocker left to name, it returns (`:645`) instead of going on
  (`NothingNamed`).
* `chat_service_merge.rs:218`: Blocked to Ready only applies if the dependent is
  still Blocked. The update (`task_transition_service.rs:577`) is unconditional
  (`Unblock`).
* `task_transition_service.rs:454`: a task becomes Ready if all its blockers are
  complete. A blocker that could not be read counts as complete (`:483`,
  `BlockerUnread`).

## 4. What is proved

TLAPS proves these for every value of the constants that meets the named
assumptions. Each component module has its theorems in a `*Proofs` module beside
it.

* **`TypeCorrect`** in each module: `Spec => []TypeOK`. For the slots this
  includes that `running_count` does not underflow, for the control that no
  attempt is counted beyond the last, for recovery that no stored count exceeds
  its limit, for merges that automatic retries keep to their budget. Where
  `TypeOK` is not inductive, `TypeInv` adds what each point of a command, run
  or attempt has in hand.
* **`ExitActionsOnce`**: `Spec => []ExitActionsOncePerDeparture`. The number of
  exit actions owed for a task equals the number of calls between their
  compare-and-swap and their exit actions that left a slot-holding status. The
  invariant is inductive beside `TypeOK`: a successful compare-and-swap adds one
  call to the set, since the status it replaces is the one the call read; exit
  actions take that call out; every other step leaves the set as it is. The
  lemmas say what one call's step does to the cardinality of the set.
* **`ValidatedMoves`**: `Spec => ValidatedMovesAreLegal`. A call that waits for
  its compare-and-swap carries a legal move (`CasIsLegal`), as nothing but
  `Request` brings a call there; if the swap succeeds, the status it replaces is
  the one the move was checked from. Every other write is at a point that
  bypasses the check.
* **`OwnershipOfEntries`**, **`NoEntryLeftBehind`**: the registry invariants. The
  strengthening adds that a context with a live run is registered to it unless
  one of the context's runs lost its entry (`dropped`), and that a registered
  run has not passed its unregistration; a run registers only where nothing is
  registered, and unregistration removes only the run's own entry.
* **`OneAgentUnlessEntryLost`**: two agents work in one context only after an
  entry was lost; with `slots_two_agents`, which shows that it can be, this says
  exactly what the guard is worth.
* **`NeverEarly`**: `Spec => []NeverUnblockedEarly`, for any graph, any number of
  schedulers, crashes and failing queries. That invariant says nothing of a
  worker still reading, so the inductive one (`Sound`) says what reading has
  established: every blocker no longer in `left` is satisfied, or remembered as
  reopened or as not read. `WriteSteady` shows that a write of any row, by
  anyone, preserves this for every worker; `BlockerSatisfied` and
  `BlockerUnread` extend it by one blocker; with `left` empty it is the
  property. Releasing steps then keep it, as the task they are at stays the
  same.
* **`HaltsHold`**: `Spec => []HaltHolds`. The inductive `HaltInv` adds what leads
  up to a halt and what could end one: a user's pause or stop that is past the
  flag has set it, one past the setting has stored it; only the user resumes;
  and no resume of the user is under way while the halt is in force. Provider
  pauses, the reconciler and restarts then need only be shown to leave the user's
  command alone; a crash ends it, and with it the flag, which startup sets again
  from the stored mode.
* **`ImplementsSwitch`**: `Spec => HaltIsASwitch`, the refinement of
  `HaltSwitch`, step by step: `NextSwitch` maps each action to one of the
  switch's, or to a stutter. It uses `HaltInv` where the guard of the switch is not
  one of the code: a resume writes both contacts without looking whether a halt
  is in force (`PersistRun`, `Unflag`), and the end of a pause does not check that
  they are closed (`HaltDone`).
* Both assume `~ReadFails`. A startup that cannot read its settings
  forgets the halt (`StartBlind`), so without it neither holds: section 3.
* **`OnePlace`**, **`NoSecondAnswer`**: `Spec => []InOnePlace` and
  `Spec => []AnsweredOnce`, from `PlaceInv`. `InOnePlace` is not inductive: a
  chat's message is put back by a provider's refusal although its process has
  taken and answered it, so a run answers for the message of its launch
  (`Mine`) as long as it works, and `Apart` keeps what runs answer for apart.
  `Unsent` says that a message still with its sender is nowhere else,
  `Accounted` that one its sender has left is somewhere, `Settled` that an
  answered one has been sent. The queue's operations are lemmas on sequences
  (`AppendFacts` and those after it). `Fresh`, the queue without what has gone
  stale, is a recursive function on the length of the queue; since induction
  over it is out of reach, its lemmas argue from a least counterexample
  (`Least`, from the well-foundedness of `<`). `NoneAssumption`, that no message
  or run is the model's `None`, is the only assumption on names.
* **`StoppedForGood`**: `Spec => GivenUpIsLeftAlone`. A task that is given up,
  whose row is in nobody's hands and bears no mark of a timeout, either
  stays so in the next step or is taken up by the user: these states are
  closed, so one step suffices for all that follow. Each holder of a row is shown
  unable to get hold of it: the reconciler turns away at a stopped task, startup
  at one without the mark, and the handler of a stream at one that is no longer
  in execution.
* **`AloneHolds`**: `ASSUME ~CheckedOut PROVE Spec => []AloneIsSafe`. In the
  inductive `AloneInv`, unless attempts have overlapped, an attempt before its
  merge has seen the target as it is (`Informed`), one that validates or
  completes has the target's last commit, and the commit below one that may be reset
  contains all that is settled. `Settled` counts a row's copy in an
  attempt's hands, which may be written back. The hypothesis is needed: when
  the target is checked out at the root, a restart moves a task out of the
  pipeline with its commit on the target, and a retry that merges nothing resets
  another's (`merges_alone.cfg`), without overlap. When attempts do overlap nothing is
  claimed, and `merges_overlap.cfg` shows that they can.

Only model-checked: every liveness property (`CallsReturn`, `CountHeals`,
`WakesAtStartup`, `ReblocksAtStartup`, `WorkGoesOn`, `Drains`, `DeathIsNoticed`,
`FailedIsSettled`, `Settles`), which need fairness and `ENABLED` and are
beyond this prover. Refuted statements are counterexamples of TLC.

## 5. Left out of the modules above

Time, other than as "may happen"; the content of messages, prompts, metadata and
reasons; git, other than what it does to the target of a merge; project and session limits on slots; archived tasks and
several projects in the dependency gate; the repair of tasks with an inactive
plan. A database write is atomic, as SQLite's is; where the code logs a failed
write and goes on, the model may skip that write.

Of the merge pipeline: strategies other than squash; conflicts, the agents
that resolve them and the status Merging; AutoFix and Warn; PR mode and WaitingOnPr;
updates of plan branches; merges into main that wait for agents. Preparation
(cleanup, freshness) is one step with the marking of the row, the end of
validation one with the write of its result. An update of the target without a
checkout is atomic. Attempts run out of time before the target changes, not
after. The limits of automatic retries other than their number (circuit
breakers, reverts, cooldowns) are folded into `MaxRetries`.

Steps of the code that are one step, or none, in a module:

* `TransitionService`: where a conflict of branches sends a task is a choice among
  the code's targets, not read from the metadata that the failed entry wrote. The
  entry of Merging that follows some of them (`task_transition_service.rs:3324`) and
  the rows that the entries of PendingMerge and Merging write are left out: they
  are the subject of `MergePipeline`. `PersistWorktree` is one write for up to
  three of one row read once (`on_enter_states/execution.rs:352`, `:407`, `:437`).
* `ExecutionSlots`: the registry's own queries do not fail. The early return of
  `chat_service/mod.rs:2619`, a launch for ideation by a service that was built
  without its lane settings, is left out; it leaves the entry to the next
  cleanup.
* `ExecutionControl`: the reconciler reads the flag before each task, not once per
  pass (`handlers/execution.rs:461`). `Entered` is the check of the flag and the
  launch together, so a launch that passed the check before a halt, and comes after
  it, does not occur; `HaltHolds` and `WorkGoesOn` say nothing of it. `Respawn`
  changes the row as it is, where the code writes the row it listed
  (`handlers/execution.rs:2265`); that loss is in `ExecutionRecovery`.
* `DependencyGate`: a blocker that could not be read is excused by
  `NeverUnblockedEarly`, which is therefore no property of the fail-open itself.
* `MessageDelivery`: a stop clears the queue only while the program is paused, and
  kills what `Pause` kills. A message that a refused process had answered in part
  counts as unanswered.
* `ExecutionRecovery`: the registry entry of an agent and its run begin and end
  together, so a live agent beside a finished run (`reconciliation/events.rs:58`,
  `reconciliation/policy.rs:44`) cannot arise. `GivenUpIsLeftAlone` excuses a row
  that is in somebody's hands, and with it a user's decision while the reconciler
  is between its look at the row and its write.
* `MergePipeline`: `ReconcileIncomplete` and `ReconcileDeferred` change the row as
  it is; the code writes the row as listed (`reconciliation/metadata.rs:281`,
  `handlers/execution.rs:2265`), which may be minutes old if an earlier task of the
  list was merged in between. `Complete` is the verification of the commit, the
  second read and the write (`merge_completion.rs:147`, `:239`, `:262`).

## 6. Plan

In order, the most important behaviour first:

1. **ExecutionControl**, with the check of the flag split from the launch, and
   **MergePipeline** with the rows as the reconciler listed them: the stale reads
   that section 5 names.
2. **MergePipeline**, further: conflicts and merge agents (Merging), AutoFix,
   WaitingOnPr and its poller, merges into main that wait for running agents.
3. **Review cycle**: verdicts of agents and humans, revision limits, the scope
   snapshot written over a halt.
4. **An abstract specification of a task's life** (a status and whether an agent
   holds a slot for it), and `TransitionService` without its known blind writes
   shown to implement it.
5. **PlanGraph**: cycle detection and levels as operators against reference
   definitions over all small graphs.
6. Proofs: with each module extended above, its invariants; for messages, that
   the order of the queue survives what is not a pause; for merges into a
   checked-out target, what one attempt alone still guarantees.
