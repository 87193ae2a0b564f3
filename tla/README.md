# A TLA+ model of manyselves

This directory models and verifies the runtime of *manyselves*: the part of the
repository that executes workflow Runs which may take hours, survive crashes,
wait for people, are resumed by themselves and by people at the same time, and
are watched through an event stream. Paths below are relative to
`src/manyselves/` unless they begin with another directory.

Every module is translated from the code; `PROJECT.json` maps each definition to
the lines it stands for. All runs and proofs pass. Where the code disagrees
with what its comments, documents and tests say, the disagreement is a run of
its own, or a property of a module that no run checks (see *Findings*).

- [1 The system](#1-the-system) · [2 The modules](#2-the-modules) ·
  [3 The runs](#3-the-runs) · [4 Findings](#4-findings) ·
  [5 The proofs](#5-the-proofs) · [6 Not modelled](#6-what-is-not-modelled) ·
  [7 Plan](#7-the-plan)

## 1 The system

### How the parts work together

A person, or the Main agent through its tools, calls the web API. Every call that
changes something goes through **RuntimeFacade**, under one mutation lock, and is
refused without the control lease, during maintenance and after shutdown began.
Calls about Runs go on to **WorkflowProjectionFacade**, and from there to the
capability's **GenericCapabilityRuntimeBinding**, which hands the execution to
**DetachedRunTaskOwner**: a task that outlives the call, which is answered when
the Run's first state is on disk. The task drives **WorkflowRuntimeHost**:

    plan + state + event --StatelessWorkflowKernel--> state + effect
      state  -> _ThrottledSave -> FileWorkflowStateStore (an atomic replace)
      effect -> executor (tool, agent, input, parallel, map, subworkflow)
             -> ActionSucceeded / ActionFailed -> kernel ...

When the task settles, **RunSupervisor** reads the saved status: some failures are
resumed after five seconds, a bounded number of times; every other stop is sent
to Main, which needs the mutation lock again. **MaintenanceService** asks whether
anything is in progress and closes the gate. An agent action goes through
**AgentExecutionService**, which dispatches turns to an **AgentLoop** and waits
for what the loop publishes. All agents speak on the **MessageBus**:
**ConversationService** records what it delivers, under the same mutation lock,
and **EventBroker** numbers it, keeps the last
events for replay and offers them to the bounded buffer of each connected
client; the browser's **EventStream** and its reducer apply them to its store.

Everything on the Python side runs in one asyncio loop. Interleaving therefore
happens at `await`s, and through cancellation, timers, threads for file work and
the death of the process.

### Components

| component | state | operations | hard about it | must hold |
|---|---|---|---|---|
| workflow kernel (`kernel/workflow/transitions.py`, `input.py`) | none: maps `WorkflowState` | StartWorkflow, ActionSucceeded, ActionFailed, scheduling of if, switch, goto, for_each, answering an input | loops re-enter completed actions; a state may be resumed anywhere | one action to resume at; nothing skipped; loops end |
| workflow runtime host (`runtime/workflow_host.py`) | the running `state`, `_ThrottledSave`, branch, item and child states | execute, parallel, join, map, subworkflow, cancel, shutdown | saves held back in memory; views checkpointed by branches; a cancel between any two steps | intent saved before its effect; the last state is never lost; branch progress survives |
| workflow compiler (`kernel/workflow/compiler.py`) | – | compile, validate control flow | – | what the kernel assumes of a plan |
| executors (`kernel/executors/base.py`) | – | one per action kind | may fail, wait, be cancelled | – |
| step memo (`runtime/step_memo.py`, `agent_memo.py`, `retrievals.py`) | keys, blobs, records | invoke, replay | keys read before a lock | a replayed step is the step |
| state store (`runtime/state_store.py`, `file_lock.py`) | one file per Run | save, load | – | a reader sees a whole state |
| generic binding (`runtime/generic_binding.py`) | definitions, versions of a Run's files | start, provide_input, resume, rerun, cancel, delete | files archived one by one before the new execution saves | no saved state lost; the newest within reach; versions whole |
| detached run tasks (`runtime/run_lifecycle.py`) | operation → task | accept after the first save, cancel until done, settle | the caller waits under a lock the task may need | one execution per Run; no deadlock |
| run supervisor (`application/run_supervisor.py`) | scheduled resumes, their counts | on_settled, resume_later, withdraw, reset, close | timers against people | bounded; withdrawn when stopped; every stop told |
| workflow projection (`application/workflow_projection.py`) | – | start, resume, rerun, request_cancel, notify | – | – |
| run failure classification (`runtime/run_failure.py`) | – | retryable or not | – | – |
| runtime facade, control lease (`application/runtime_facade.py`, `control.py`) | lock, lease, command cache, gate | every mutation, quiesce, begin_shutdown | re-entry through a context variable; expiry | mutations exclude each other |
| maintenance (`application/maintenance_service.py`) | maintenance token | busy, backup | what counts as work | quiesced is idle |
| event stream (`webapi/events/`, `webapi/routes/events.py`) | numbers, replay, client buffers, read tasks | publish, register, read, heartbeat, overflow, close | slow clients; absorption; a timer against a read | no gap without a resync |
| event store (`webapi/events/store.py`) | SQLite log | insert, list | – | – |
| message bus (`runtime/loops/bus.py`) | two planes, fences, subscriptions | publish, coalesce, deliver, shutdown | two workers, one lock behind them; bounded planes | recorded once and in order; a workflow reply's stream ends with it |
| browser client (`frontend/src/api/event-stream.ts`, `features/agents/event-reducer.ts`, `app/App.tsx`) | store, cursor | frame, gap, hydrate, reconnect | snapshots race events | no stale store |
| agent loop (`runtime/loops/agent_loop.py`, `manager.py`) | queue, conversation, tool rounds, status | turn, retry, tool round, batch, interrupt, stop | an interrupt at any await; a round cut in its middle | every call has a result before the next request; an interrupted turn starts nothing; the loop comes free |
| agent execution and recovery (`runtime/agent_execution.py`, `agent_recovery.py`, `kernel/recovery/controller.py`) | the dispatched turn, its waiters, attempts, budget | invoke, dispatch, correct, continue, stop | waiters without a timeout; budgets across restarts | every dispatch is answered; one turn at a time; attempts bounded |
| conversations, checkpoints (`application/conversation_service.py`, `kernel/conversations/registry.py`, `runtime/checkpoints.py`) | streams, session of each message, conversations, operation logs | record, switch, edit and resend, checkpoint, rollback | sessions switched between question and answer; a rollback repeated | question and answer in one session; rollback restores |
| runtime host lifecycle (`application/runtime_host.py`, `async_ownership.py`, `webapi/lifespan.py`) | the host's state, the bound manager, owned services, completed stages | start, abort, replace the manager, ordered cleanup | any stage fails, and what undoes it too | what runs stays owned; cleaned in order |
| tenants, sessions, accounts (`webapi/tenant_runtime.py`, ...) | one runtime per account | acquire, expire | – | – |
| projects, settings, files (`application/project_registry.py`, `settings_service.py`, ...) | the active project, the configuration | activate, change the provider, edit, preview | an activation or its undoing fails half-way | one project everywhere; Main's conversation kept |
| definitions, contracts; capabilities; lane leases; desktop, GUI, deployment | – | – | – | – |

`PROJECT.json` lists the same components with their status, and under `hazards`
what is hard to test in them, each at its line.

## 2 The modules

| module | models | extends |
|---|---|---|
| `WorkflowKernel` | the kernel's operators over any compiled plan | |
| `WorkflowHost` | one Run: kernel, throttled save, executors, crash and resume | `WorkflowKernel`, instance of `RunStatus` |
| `RunStatus` | abstract: what a reader of a Run's saved status is promised | |
| `MCWorkflowHost` | a plan of nine actions for TLC | `WorkflowHost` |
| `ParallelBranches` | the parallel action, its branches, join and checkpoints | instance of `RunStatus` |
| `MapItems` | the map action, its items, window, save timer and errors | instance of `RunStatus` |
| `RunVersions` | the files of one Run: start, resume, rerun in place, restore | |
| `RunLifecycle` | everything around an execution: tasks, supervisor, people, maintenance | |
| `AgentLoop` | one agent's processing loop: requests, retries, tool rounds, interrupts | |
| `AgentTurns` | who uses the loop: a chat, or typed turns dispatched and recovered | `AgentLoop` |
| `MCAgentTurns` | the rounds of calls for TLC | `AgentTurns` |
| `MessagePlane` | the bus, its workers, the conversation callback, the lock behind them | |
| `EventStream` | broker, replay, client buffers, bodies, connections | |
| `HostLifecycle` | the life of the runtime host: start, switch of project, change of provider, cleanup | |
| `WorkflowHostProofs`, `ParallelBranchesProofs`, `MapItemsProofs`, `RunLifecycleProofs`, `AgentTurnsProofs`, `MessagePlaneProofs`, `EventStreamProofs` | the theorems | the module each is named after |
| `RecoveryProofs` | the theorems of the two modules about what a failure between two steps leaves behind | `RunVersions`, `HostLifecycle` |

They form four groups.

*A Run.* `RunStatus` is what is promised of one Run; `WorkflowHost` implements it
action by action. `ParallelBranches` and `MapItems` each open one action of
`WorkflowHost` ("task", which there succeeds or fails as a whole) and implement
`RunStatus` too. `RunVersions` is
the directory around the state file: `WorkflowHost`'s `disk` is its file "state".
`RunLifecycle` sits above: an execution there saves "running" once and one final
status later, which is what `RunStatus` promises and `WorkflowHost` is proved to do.

*Agents.* `AgentLoop` is one loop, `AgentTurns` composes it with the bus between
it and its users. A typed invocation there is the inside of one agent action of a
Run; its `CancelRun` is what `WorkflowHost`'s user cancel does to the agent.

*Messages.* `MessagePlane` has the bus with both planes, and of the agents only
when turns begin and end. `AgentTurns` has one queue and the content of turns: the
order it relies on (one worker, first in first out) is what `MessagePlane` opens.
What the bus delivers is also what `EventStream` numbers and publishes.

*The host.* `HostLifecycle` is what makes and ends the parts of all the others. Its
commands hold the mutation lock that `RunLifecycle` and `MessagePlane` share with
them; its cleanup, opened for one message after the other, is `MessagePlane`'s end.

### WorkflowKernel and WorkflowHost

`mem`, `disk` and `unsaved` are the three copies of a `WorkflowState` that matter:
the coroutine's, the file's, and the one `_ThrottledSave` holds back. `pc` says
where the coroutine is: in the kernel ("scheduling"), awaiting an executor, or
gone. An action is its position in the plan; a list is its length, which is all a
`for_each` and the conditions tell apart; conditions are the equality of a
variable with a small value (one that reads a variable that is not set raises:
`BranchRaises`, and ends the execution in `KernelRaises`, like a `for_each` over no
list).

- One pass of the scheduling loop over one control action is one step
  (`PassControl`). In the code the loop runs in one turn; splitting it only adds
  places to crash at, where nothing was saved since the step before.
- `RequestEffect` is the save *before* the executor is awaited; a save is written,
  or held back when a rerun is replaying unchanged steps (`sparing`) and something
  was written before: whether the two second interval has passed is a choice.
- `KeepSparing`: an executed step ends the replay (the memo's miss), nothing begins
  it.
- An execution ends by completing, waiting, failing, `max_iterations`, a labelled
  cancel (a failure past the throttle), an unlabelled cancel (`Shutdown`: flush and
  leave running), the kernel raising outside `execute`'s try (`KernelRaises`), or
  `Crash`.
- `Start`, `Resume`, `ProvideInput` begin one, from nothing or from `disk`.
  `PlanAssumption` is what `_validate_control_flow` guarantees. It asks for a
  successor of every action that continues; the compiler does so for reachable
  actions, the only ones a Run meets.

### ParallelBranches

The parent plan is parallel, join, and a way back to parallel. `local` is the
parent's own state, `states`/`results` the checkpoint copies all branches write
into, `latest` what `_ThrottledSave.latest` would fail from on a cancel. A branch
is queued on the semaphore, executing, or ended in one of the three ways `gather`
tells apart: returned (completed, waiting, or FAILED by `max_iterations`), raised
with a failed nested state, raised anything else. Each step of a branch writes a
view of the parent. A branch's state is how many of its steps are completed and in
which round its variables were copied.

Choices wider than the code: any queued branch may get the semaphore (code: in
order), and the Run waits for any waiting branch (code: the first by id). A branch
that exceeded `max_iterations` may do so at any step. `retry_parallel_branches`
is only called by tests and left out.

### MapItems

The parent plan is the map and a condition after it that goes back to the map or
ends. Each item is one child workflow behind the semaphore. Three copies of an
item's state matter: `current` (the newest), `items` (`item_states`, what the next
save takes) and what `disk` has; `unsaved` names the keys in which the first two
differ. A running step may be held back for the `timer`, an end is saved at once,
and both go through the Run's throttled save (`Save`). `timer` is "never" before the
first save, when nothing is held back. An item may end without the named output
(`Silent`) or ask for input (`Asking`, which a map turns into an error), exceed
`max_iterations`, fail, or raise. `tolerant` is whether the action declares
`errors_variable`. A completed item is reused by the next execution; where it has
no output, the lookup of its result raises (`ResultMissing`).

The wait for the lead item only delays the moment an item asks for its slot, and
whether a second has passed since the last save is a choice.

### RunVersions

`run` and `archive[v]` are directories: which start wrote the plan, the state, the
events and the start input that lie there. A request is carried out file operation
by file operation (`pc`), in the order of the names; `StopsOrFails` cuts it off
before any of them, as the death of the process or an operating system error
does. `RejectInput` is a Capability that rejects the revised input: the only
failure `_archive_version` is restored after. What runs after the first save is
`WorkflowHost`. `disturbed` records that a stop or a failure left a step out;
`VersionsWhole` is about Runs where that never happened, the two other properties
about all of them. `SavePlan` is the host's own save where an interrupted rerun had moved the plan: the
execution goes on under the one its caller compiled.
One process works on a Run (`RunLifecycle`'s `OneExecution`).

### RunLifecycle

A task is `starting` (nothing saved), `executing`, `closing` its agent sessions
after the final save, `notifying`, done. `caller` is the mutation lock: it is
taken and given back within a step by every operation except those that await a
task's acceptance under it. The context variable that lets a task pass inside its
caller's lock (`_LOCK_HOLDER`) is `caller = e`. The five second delay is any delay.
`owed`, `stopped`, `inRow` and `dropped` are history, for the properties.

- `Accepted` releases the lock when the task has saved, or is done without.
- `Reset`, `Reports`, `Schedules` follow `RunSupervisor`; `Busy` is
  `MaintenanceService.busy`.
- Two things people may do stay visible: `Start` again with the same command
  leaves a scheduled resume alone (as the code does), and an answer to a Run whose
  task is not done is accepted without execution.
- Not here: the process's death (in `WorkflowHost`), the lease, which failures are
  worth a resume (a choice), work other than Runs that makes maintenance wait, and
  a cancel swallowed by an executor's own code (only `AgentLoop.stop` is).

### AgentLoop and AgentTurns

`phase` is the await the processing loop is suspended in: its queue, the provider,
a retry's delay, one tool call, or the gather over a batch of parallel reads. Of a
conversation only the tool calls that have no result yet are kept (`retained` for
the stored history, `draft` for the messages of a turn in its tool rounds), because
a provider refuses a request that holds one. What a turn publishes between two
awaits enters the bus at once and in order. `cancel` is `_cancel_event`; an
interrupt is seen where the code looks: while it waits for the provider or the
delay, and after a call has its result.

- `CallEnds` covers a call's value, its error and a rejected submission alike.
  `SubmitEnds` publishes the result before the tool returns, then the empty marker.
- `ReachSlice` publishes two messages, as the code does: the continuation's marker
  and the turn's own.
- `BatchCancelled` is the gather's own cancellation (section 4).
- In `AgentTurns` each waiter (`result`, `error`, `response`) keeps the first
  message its predicate matches; the first of the list that is done decides
  (`Outcome`). `Resumes` is the policy: completed, rejected and error end the
  invocation; text is corrected `MaxCorrections` times, or ends the invocation where
  the context budget is exhausted (any time: `InvocationEnds`); a turn that was cut
  off goes on or, when it makes no progress, fails.
- An interrupt and the end of a retry's delay that fall into the same turn of the
  event loop are ordered here: `Retry` sees the interrupt. In the code the delay may
  win (`agent_loop.py:2992`); the request is then begun and cut before it awaits a
  second time.
- `EditResend` needs `AgentIdle`, as `require_agent_idle` does; `Interrupt` does not.
- `Close` after `CancelRun` is the turn's completion or the 30 seconds of
  `TURN_STOP_GRACE_SECONDS`, whichever comes first.
- Left out: compaction, prompts, what the tools do, a manager's restart of a loop,
  and the cascade of an interrupt to delegated agents. The turn-end guards that
  re-prompt an agent wait for reports and blocks that nothing in the repository
  sends, so they are dead code.

### MessagePlane

`queue` and `plane` are the bus; `hand` is what each worker took and waits to
write; `line` the waiters of the facade's lock, first come first served; `streams`,
`bound` and `records` the conversation service's. A turn is sent, queued, running, ended,
stopped or dropped; the number of a `Chat` turn is its place in the conversation.
Taking a user's message only puts it into its agent's queue; the agent's loop takes
it from there when it wakes (`Wakes`) or, having just ended a turn, at once
(`Finish`). A switch empties the queue (`Cleared`): it can come between the two,
because `require_switch_safe` asks for the agents' statuses and not for their queues. Taking a message and writing it is one step while the lock is free,
because nothing in between suspends. `Refused` writes are those of
`persistence_transaction` under a quiescence. At most one command waits at a time.

Left out: fences (they keep out later pieces of an attempt, and a turn publishes
none after its terminal message), thinking pieces, empty final messages, metrics and
all texts. An error names no `agent_type`, so it ends "main" streams only; errors are
in `AgentTurns`.

### EventStream

`publish_internal`, `register`, `unregister` and `close` await only a lock that is
never contended, as nothing inside it awaits; each is one step. A body's turn is
two steps, because the read task and the body are two: `Take` pops an event,
`Yield` hands it to the connection, and `HeartbeatDrops` is the timeout of
`asyncio.wait_for` (Python 3.12 and later, which `pyproject.toml` requires) firing
between them. A frame carries the range `from..seq` of numbers it stands for.
Clients share nothing but the broker, so one connection shows what each one sees.
`Disconnect` is one step (the body is cancelled and its client unregistered).
Heartbeats that find nothing change nothing. A cursor within the replayed range
always finds its event, because the replay is contiguous: the answer "unknown"
cannot occur. A publication whose mapper raises uses no number and is left out.

### HostLifecycle

`life` is where `application_lifespan` is, `at` where the command is that holds the
mutation lock; the two meet in `BeginShutdown`, which waits for the lock. `manager`
is the `LoopManager` the host has bound: `BindFails` says where a factory or a start
may raise, and a `stop` that raises leaves it running (`LoopManager.stop` clears
`_running` last). The abort of a start, the way back of a switch and the recovery of
a provider change are steps of their own, and may raise as well.

- `Switch`, `SwitchStop`, ... are `switch_workspace`, both on the way there and
  (`back`) when `activate_workspace` undoes it; `Commit`, `CommitFails` and `Settle`
  are its callbacks in `routes/projects.py`, which rebind the `parts` one by one and
  may raise before any of them. Rollback and reconciliation rebind the same parts to
  where the host is, so they are one action.
- `Abort` may leave the host stopping: where the bus's task had failed, awaiting it
  raises the failure (`runtime_host.py:441`), and the next cleanup ends what is left.
- `CommitFails` may raise after the last part as well, where Main's collaborators are
  attached. Of the flag of stopped producers `ReplaceFails` keeps what it was where
  no manager was bound, may clear it where one was bound and not started, and clears it
  where one runs.
- `Replace...` is `replace_loop_manager`, `Recover` its second call in
  `SettingsService.mutate`; whether the configuration's rollback is complete is a
  choice.
- `done`, `tried`, `attempts` and `pending` are the ownership of
  `_cleanup_owned_runtime`; a pass is one call of it. `EndLifespan` exposes the
  ownership's services again, with the first projection (`first`).
- Cancellation needs no step of its own: the cleanup and the provider change run
  under `await_owned`, and a cancelled switch goes the way of one that raised. A
  retry that was cancelled ends without a host.
- Left out: lifespans that own tenants instead of one host, the maintenance gate and
  working agents as reasons to refuse, and when the host still lets messages be
  written (`persistence_ready`).

## 3 The runs

| run | question | bounds | states |
|---|---|---|---|
| `workflow_host` | Can every state saved by every way of stopping be resumed, skipping nothing? Does every execution end? Does the status keep its promise? | the nine-action plan (for_each, goto, input, if, switch, fail, end), values 0..2, 5 control steps, 3 executions | 8 439 |
| `parallel_branches` | Is the branches' saved progress kept and not redone, and does the action end, with one slot for two branches? | 2 branches of 2 steps, one asks; limit 1; 2 rounds; 3 executions | 48 063 |
| `map_items` | Does any save, timed or at once, take an item back? Has every item its result or error? Does the action end? | 2 items of 2 steps, one silent, one asking; limit 1; 2 rounds; 3 executions | 270 798 |
| `run_versions` | Whatever is cut off: is every saved state still there, in order, the newest within reach? | 4 versions, 6 requests | 198 259 |
| `run_lifecycle` | One execution per Run, none in maintenance, bounded resumes, no deadlock, every stop told? | 2 Runs, 3 tasks, 1 automatic resume, 2 executions by people | 65 495 |
| `agent_turns` | Does every call have its result before the next request? Does an interrupt stop the turn, and the loop come free? Is every dispatch answered? | 5 requests, 2 rounds, 1 retry, 2 corrections, 2 invocations; rounds of one call, two reads, submission first or last | 123 211 |
| `message_plane` | Is every message recorded once, in order, in one session, and does a reply's stream end with it? | 2 chat turns and 1 typed, 2 sessions, 2 pieces, plane of 1, 2 commands besides the sends | 2 078 164 |
| `event_stream` | Does a client read without a gap, or is told to start over, and always go on? | 1 connection, 2 messages, 4 events, 2 brokers, replay 3, buffer 2 | 335 170 |
| `host_lifecycle` | Whatever raises: is there one project, one conversation, and nothing running that no cleanup reaches? Does the cleanup keep its order and all of it end? | 2 projects, 3 lifespans, 3 commands | 590 026 |
| `lifecycle_stop`, `event_drops`, `agent_interrupt` | the findings of section 4 | smaller instances of the same modules | |

**Properties.**

- `workflow_host`. `IntentSaved`: an executor runs only behind a save (or a held-back
  save) of its own action. `ResumePoint`: a saved state names one action to resume
  at and no other is half done. `NothingSkipped`: no saved state has an action, or the
  Run, completed that was not. `WaitingIsAnswerable`: a Run saved as waiting names the
  input that answers it. `LastStateSaved`: what the throttle holds back is never the
  last word. `ExecutionEnds`. `StatusPromised`: `RunStatus` is implemented.
- `parallel_branches`. `ProgressKept`, `DoneStepsNotRedone`: a save takes nothing back
  and nothing saved as done runs again. `BranchesRecorded`: a waiting Run names a
  branch that waits, and the join finds every result. `GatherEnds`.
- `map_items`. `SavesMoveForward`: no save is behind an earlier one. `EveryItemAccounted`:
  after the map each item has an error or a result of this very round, and nothing is
  left to be reused in the next. `MapEnds`.
- `run_versions`. `StatesKeptInOrder`, `NewestWithinReach`, `VersionsWhole`.
- `run_lifecycle`. `OneExecution`, `QuiescedIsIdle`, `AutoResumesBounded`, `LockReturned`
  (no deadlock between a caller and its task), `StopsAreReported`.
- `agent_turns`. `CallsAnswered`: no request holds an open call.
  `NothingStartsAfterInterrupt`: an interrupted turn makes no request and starts no
  call. `LoopsComeFree`, `DispatchIsAnswered`.
- `message_plane`. `RecordedInOrder`: the records are a prefix of what was published,
  and all of it when the bus is closed. `OneSession`. `AttemptStreamsEnd`: no piece
  brings a recorded workflow reply's stream back. `EveryMessageRecorded`.
- `event_stream`. `StreamUnbroken`: from where the peer is to the latest event, wire,
  body and buffer leave nothing out but what a heartbeat dropped, and a resync is the
  end. `EveryEventArrives`.
- `host_lifecycle`. `OneWorkspace`: ready means that host and parts work in one
  project. `RuntimeIsOwned`: what runs is in an ownership that will be cleaned up.
  `HistoryKept`: Main's conversation outlives failed changes of provider.
  `CleanupOrdered`, `EverythingEnds`.

**Why the bounds are enough.** The bounds of a run are the smallest at which each
case happens (every action fires) with one more execution, round or event than a
single repetition needs. `workflow_host`: three executions give crash, resume and
resume of the resumed; five control steps let both loops be entered again and be
used up. `parallel_branches`, `map_items`: fewer slots than coroutines, each at each of
its steps while the other waits or fails; a second round is the first that finds old
results. `run_versions`: four versions let a half-made version be followed by whole
ones. `run_lifecycle`: two Runs share the lock and the supervisor; a third
task identity is one more than Runs can use. Its inductive invariant was also
checked with one more automatic resume and one more execution by people (753 010
states). `agent_turns`: five requests are an invocation with two corrections
and a second invocation; a chat's five have interrupts and edits between them.
`message_plane`: the third turn is the first that queues behind another; one
place in the plane makes the second turn's piece push the first's out.
`event_stream`: one more event than the replay keeps, one less place in a
buffer than in the replay, so that eviction, overflow on offer and overflow on seed
all happen. The configured sizes (10 000 and 500) have the same order.
`host_lifecycle`: a third lifespan retries a cleanup whose retry failed; three
commands are a conversation, a switch or change that fails, and another. The safety
properties of the other eight are also proved for every value of the constants. Where
a type invariant is proved, only `MessagePlane`'s and `EventStream`'s are run as well
(they bound the buffers).

**Deadlock** is not checked: with the executions, decisions or events bounded, every
model legitimately stops; what must go on is stated as liveness.

**Fairness.**

- `WorkflowHost`: the event loop runs the task (`WF` on `Scheduling`) and
  executors return, raise or are cancelled (`WF` on `Executing`): `ExecutionEnds` is
  about the kernel's own loops, and an executor that hangs is outside it.
- `ParallelBranches`, `MapItems`: the same for each branch or item, the gather, what
  follows it and the save timer; the semaphore is not assumed fair.
- `RunLifecycle`: `WF` for each task and for a caller whose wait is over; `SF` for a
  notice and for an automatic resume, which need the mutation lock again and again
  taken by others: `asyncio.Lock` serves its waiters in order, and maintenance that
  goes on for ever is not a repetition that enables them.
- `AgentTurns`: `WF` on the loop (a provider's request, a tool and a retry's delay
  end), on the bus's worker, on the driver whose waiter is done, and on `Close` after a
  cancelled Run (the turn settles or the grace period passes).
- `MessagePlane`: `WF` on each worker, on the first in the line for the lock (which
  `asyncio.Lock` serves in order, so nothing stronger is needed), on the end of a
  command, and on the two steps of a shutdown that has begun.
- `EventStream`: `WF` for a body and for a connected client's reads; a client that
  stops reading is the transport's timeout, a `Disconnect`.

- `HostLifecycle`: `WF` on the lifespan's own steps and on those of an accepted
  command: what they call returns or raises.

Nobody is bound to start, answer, send, interrupt, publish, connect, disturb or shut
down. `RunVersions` states no liveness: every request may be cut off.

## 4 Findings

Each is the single property of a violation run; `PROJECT.json` quotes the lines.

| run | what the code does | against |
|---|---|---|
| `lifecycle_stop` | `AgentLoop.stop` swallows the cancel of a Run that failed and closes its sessions (`agent_loop.py:1905`); the resume scheduled afterwards executes the stopped Run. | `workflow_projection.py:349` |
| `agent_interrupt` | An interrupt during a batch of parallel reads cancels the gather that the processing loop itself awaits (`agent_loop.py:3456`); nothing catches it, the loop is gone and its status stays working. | `agent_loop.py:1913` |
| `event_drops` | A heartbeat due in the turn a read takes an event drops the event, without replay or resync (`routes/events.py:95`). | `routes/events.py:287` |

Ten more promises do not hold. Each is defined in its module, next to the property
that makes the exception, so that it can be put in a configuration:

| definition | what the code does | against |
|---|---|---|
| `FailureIsPersisted` (`WorkflowHost`) | A control action that raises inside the kernel (`for_each` over no list, a condition on a variable that is not set) is outside `execute`'s try: the accepted Run stays RUNNING on disk. | `run_lifecycle.py:115` |
| `CompletedStepsKept` (`ParallelBranches`) | The same inside one branch: the Run fails from the parent's own state; completed steps of sibling branches, which were saved, are overwritten and executed again. | `run_supervisor.py:6` |
| `FailedBranchIsRetried` (`ParallelBranches`) | A branch past `max_iterations` counts as a success; the Run fails at the join, and so does every resume. | a test's name, `test_workflow_host.py:695` |
| `LoopExecutesBranches` (`ParallelBranches`) | A loop that comes back to a parallel action finds the first round's results and executes no branch. | a test's name, `test_workflow_host.py:408` |
| `TolerantMapNeverFails` (`MapItems`) | A map that tolerates errors fails when a completed item without the output is reused: the lookup of its result raises (`workflow_host.py:660`). | `models.py:299` |
| `NoAnswerDropped` (`RunLifecycle`) | An answer that arrives before the waiting Run's task is done is accepted and dropped. | `run_lifecycle.py:88` |
| `OneTurnAtATime` (`AgentTurns`) | A turn after tool rounds publishes its text and then an empty marker; the next dispatch answers the first and is ended by the second (`agent_loop.py:2571`), as corrections share a `message_id`. | `agent_execution.py:203`, `typed_recovery.py:155` |
| `NoStreamIsLeft` (`MessagePlane`) | A piece of a chat reply that still waits when the final message is published is delivered after it and brings the stream back (`conversation_service.py:751`): until an interrupt, an error or a change of session, editing and switching are refused although nothing works. | `conversation_service.py:605` |
| `EveryProjectionClosed` (`HostLifecycle`) | The ownership of a lifespan names the first `WorkflowProjectionFacade` (`lifespan.py:389`); the one an activation puts in its place (`lifespan.py:310`) is never closed, so its Runs and scheduled resumes go on when the cleanup is complete. | `lifespan.py:44` |
| `TextKept` (`EventStream`) | Absorbing a delta joins text by prefix and suffix: a repeated piece, and all absorbed thinking, is lost. | `bus.py:128` |

`ProgressKept` excepts `GatherRaises`, `SavesMoveForward` excepts `ResultMissing`,
`JoinFindsResults` a branch that ended as failed, `LoopsComeFree` a loop whose task
ended, `AttemptStreamsEnd` chats, `RuntimeIsOwned` a later projection, and `StreamUnbroken` what a heartbeat dropped, so that
each passing run says everything but these.

## 5 The proofs

TLAPS proves for every value of the constants (any plan the compiler accepts, any
number of Runs, branches, items, turns, connections, any capacity and bound):

| module | theorems |
|---|---|
| `WorkflowHostProofs` | `HostInvariant`; `TypeCorrect`, `IntentIsSaved`, `ResumePointKept`, `NothingIsSkipped`, `WaitingAnswerable`, `LastStateIsSaved`; `StatusIsPromised` (`WorkflowHost` implements `RunStatus`); `ExecutionsComeToAnEnd` |
| `ParallelBranchesProofs` | `ParallelInvariant`; `ParallelTypeCorrect`, `BranchesAreRecorded`, `ProgressIsKept`, `DoneStepsAreNotRedone`; `ParallelStatusIsPromised` (it implements `RunStatus`); `SlotsAlwaysSuffice`, `BranchesComeToAnEnd` |
| `MapItemsProofs` | `MapInvariant`; `MapTypeCorrect`, `EveryItemIsAccounted`, `EverySaveMovesForward`; `MapStatusIsPromised` (it implements `RunStatus`); `SlotsAlwaysSuffice`, `ItemsComeToAnEnd` |
| `RecoveryProofs`, the files | `VersionsInvariant`; `VersionsTypeCorrect`, `StatesAreKept`, `NewestIsWithinReach`, `VersionsAreWhole` |
| `RecoveryProofs`, the host | `LifespanInvariant`; `HostTypeCorrect`, `OneWorkspaceWhenReady`, `WhatRunsIsOwned`, `HistoryIsKept`, `CleanupIsOrdered`; `CommandsComeToAnEnd`, `LifespansComeToAnEnd` |
| `RunLifecycleProofs` | `LifecycleInvariant`; `TypeCorrect`, `OneExecutionAtATime`, `MaintenanceIsIdle`, `AutoResumesAreBounded`; `NoCallerIsForgotten`, `NoStopIsForgotten`, `TasksComeToAnEnd` |
| `AgentTurnsProofs` | `TurnsInvariant`; `TurnsTypeCorrect`, `CallsAreAnswered`, `InterruptedTurnsStartNothing`; `StatusIsAlwaysTrue`, `NoDispatchIsLost`, `TurnsComeToAnEnd` |
| `MessagePlaneProofs` | `PlaneInvariant`; `PlaneTypeCorrect`, `RecordsAreInOrder`, `OneSessionKept`, `AttemptStreamsAreEnded`; `BacklogIsAlwaysServed` |
| `EventStreamProofs` | `StreamInvariant`; `StreamTypeCorrect`, `StreamIsUnbroken`; `NoClientIsForgotten`, `FramesAreOnTheirWay` |

Every invariant and action property a passing run checks is among them.
`RecoveryProofs` holds two components because what is proved of both is the same
kind of thing, and shares neither state nor lemmas between its two parts.

Each module's first theorem is its inductive invariant, checked by TLC before; one
lemma per action shows it preserved, and the others follow from it. The assumptions
are those the modules name (`PlanIsCompiled`, `HostAssumption`, `ParallelAssumption`,
`MapAssumption`, `VersionsAssumption`, `LifecycleAssumption`, `LoopAssumption`,
`TurnsAssumption`, `PlaneAssumption`, `CapacitiesArePositive`, `BoundsAreNatural`, and
that "no state" is not a state).

**HostInv.** None of the promised facts is inductive: after a crash the execution
goes on from `disk`, so all three must hold of `disk` *and* of what the throttle may
still write. `SavedStatesSound` says so; `ExecutionSound` ties the coroutine's state
to the cursor (running; every action but the current one settled; while an executor
runs, the state names it); `HeldBackIsCurrent` says that what is held back at that
moment is exactly the current intent, which is what makes the flush of a shutdown
right; `ReopensOnly` remembers what the running execution may still find on disk,
which the refinement needs (a Run saved as waiting is only overwritten by running or
by waiting again). The refinement maps the status of `disk` and shows each save a
step of `RunStatus` or a stutter. Those of `ParallelBranches` and `MapItems` do the
same from their own invariants: a save by a branch, an item or the timer tells the
reader nothing that the host's own saves would not.

**ParallelInv.** A save takes nothing back because the disk is never ahead of the
newest checkpoint, nor that of the branches (`CheckpointSound`, through `Ahead`);
`GatherSound` ties each branch's coroutine to its checkpointed state, so that a
branch that is reused is completed and one that executes is not; `SavedSound` says
of `disk` what the next execution relies on: a result belongs to a completed branch's
state, and at the join none is missing.

**MapInv.** The same with one copy more: `ItemSound` orders what was saved, what the
next save takes and an item's own state (`Upto`), each of this round; `CheckpointSound`
adds that only a map in progress has a timer, so that no timer writes an older state
once the map is over.

**VersionsInv** is about every history. `LastVersionWorkedOn`: a rerun works on
the last version and moves a state only to where there is none; `AuthorKnown`: an
execution saves over no state but its own; `StatesWereSaved`: every state found was
saved, so a new start's number is greater than all; `NewestKept`: the last state was
left in the Run or in its last version. `WholeInv`, for undisturbed histories,
says of every step where each file is: moved ones are in exactly one of the two
places (`Between`).

**HostInv** of `HostLifecycle` (`LifespanInvariant`) says at every step where the
host, its parts, Main's conversation and the lifespan are, whichever call raised
before. The four properties hold between commands; during one, half of what they say
is false, so each needs what the command would come back to: `PartsFollow` (the parts
wait in the project a switch began in, until the commit rebinds them), `TalkKept`
(the conversation is with the bound manager or carried to the next), `LockHeld` and
`ReadyWorks` (only an accepted command has a host that is not ready). `StoppedIsStill`
and `PassesInOrder` are what a pass of the cleanup has behind it, whichever pass began
it; `CleanupOrdered` follows from them. `SecondTryIsLast`, proved beside it, says that
the undoing of a switch and the recovery of a provider change are never begun from
themselves.

**LifecycleInv** is type correctness with `OneExecution`, `QuiescedIsIdle` and two
strengthenings. `ExecutingIsRunning`: whoever executes has saved "running", so that a
Run is not completed under a schedule. `SchedulesCounted`: a scheduled resume was
counted before it was scheduled, so that executing it cannot pass the bound.
`OneExecution` holds because every way to begin one checks `is_active` in the same
step as it creates the task (the code awaits nothing in between), and because
`is_active` lasts until the task is done.

**TurnsInv** adds to the types where open calls can be (`OpenCallsKnown`): none in a
conversation between turns, and in the one of a turn exactly those of the current
round. Whatever ends a round in its middle must account for the calls it skips.
`DispatchInv` adds the other side of the bus. `DispatchIsOnItsWay`: what the driver
waits for is on the bus, in the inbox, in the loop's turn, or answered. It survives an
interrupt only because none comes while the driver waits (`DriverSound`: whoever
interrupts a typed loop has given the turn up), and a take only because the inbox is
not emptied under a driver. `StatusIsTrue` needs that a chat's calls submit nothing:
the submission that an interrupt races is the one way to a stale status.

**PlaneInv.** `FlowSound` is the order: the records, the main worker's hand and the
queue are together what was published. `ModeSound`: quiescence and the end come only
after the last write. `SessionsSound` holds through a switch because nothing of the
main agent is then between its message and its reply, which `TurnsSound` and
`FlowSound` show, but a message in its queue, which is dropped and has no reply. `StreamsSound` holds because a workflow turn's terminal discards
what waits, and a piece already taken stands before the reply in the line for the
lock (`LineSound`, `StreamFirst`).

**StreamInv.** `ServerSound`: the replay holds the last events, numbered without a
gap. `LinkSound`, of each connection: the frames on the wire, in the body's hand and
in the buffer follow each other, from the peer's number to the latest.

**The safety half of liveness.** That something happens in the end is out of the
prover's reach, but not what the argument for it rests on. For each liveness property
two facts are stated and proved: somebody can always take the next step (nobody is
forgotten), and such steps run out (a number falls that nothing else raises). TLC's
runs add what only fairness can: that a step that can be taken is.

| property | somebody goes on | steps run out |
|---|---|---|
| `ExecutionEnds` | by the guards of `Scheduling` and `Executing` | `ExecutionAdvances`: the next action, or a counted control action |
| `GatherEnds`, `MapEnds` | `SlotsSuffice`: the semaphore is never overdrawn, and until all have ended one executes or has a slot | `BranchesAdvance`, `ItemsAdvance` |
| `LockReturned` | `CallersAreServed`: a caller waits for a task that there is and that nobody can cancel | `TasksAdvance` |
| `StopsAreReported` | `OwedIsPursued`: a resume is scheduled or an uncancelled task is about to tell | `TasksAdvance` |
| `LoopsComeFree` | `StatusIsTrue`: a loop that works is in a turn, has ended or is being closed | `TurnsAdvance`: rounds, calls and attempts |
| `DispatchIsAnswered` | `DispatchIsOnItsWay` | `TurnsAdvance` |
| `EveryMessageRecorded` | `BacklogIsServed`: the worker can take or stands in a line of at most three | not needed: the line is first in, first out |
| `EveryEventArrives` | `ConnectionsAreServed` | `FramesAdvance` |
| `EverythingEnds` | by the guards of `CommandStep` and `LifespanStep` | `CommandsAdvance`, `LifespanAdvances` |

`SlotsSuffice` counts with the theorems on finite sets: a branch that begins is added
to fewer than `Limit`, and only a coroutine's own steps take it out. `CallersAreServed` and
`OwedIsPursued` are inductive together with `OwedTasksTell` (`PursuitInv`): a task of
a Run that is owed its report is the one that will give it, since whoever cancels it
or starts another takes over what was owed. These definitions were checked by TLC on
the instances of section 3 before they were proved; the runs do not repeat them,
because the theorems say more.

**Only model-checked.** The ten liveness properties themselves, and that the mutants
of `PROJECT.json` break what they break.

## 6 What is not modelled

The content of agents' turns, prompts, tools, reports and documents; pure
validation and projection; views, packaging and deployment. The reporting
capability's lane leases and recovery store
(`capabilities/distribution_reporting/runtime/state/parallel.py`) are not instantiated
anywhere. Of the host, `subworkflow` (a single child executed and checkpointed as a
branch is) and `stop_before`. Step memo keys, the browser's store, mutations under
the lease with their command cache, and checkpoints and their rollback are control
worth modelling, and come next (section 7).

Seen while modelling, without a property:

- A switch of Main's session between the moment a message is put into Main's queue
  and the turn of the event loop in which Main takes it drops the message: it is
  recorded and never answered. `require_switch_safe` (`conversation_service.py:634`)
  does not read that queue, and `clear_pending` (`backend_api.py:166`) empties it.
- A `start` sent again with the same command leaves a scheduled resume in place.
- An interrupt between the end of `submit_result` and the loop's own next step leaves
  the status working (`agent_loop.py:2555`) until the next message.
- An interrupt that comes before the loop has taken the message it is meant for is
  cleared by the taking (`agent_loop.py:2347`).
- A request that fails after tool rounds drops those rounds from the history.
- After a death between the archive of a Run's files and the first save of its rerun
  the Run has no state: resume says it does not exist, although its last version
  has one (`NewestWithinReach`). With the plan moved and the state not, the
  execution goes on under the plan its caller compiled, and saves that one.
- From the end of a lifespan to `begin_shutdown` the exposed projection is the first
  one again: after an activation, a request in that window finds the Runs of the
  project the lifespan began with.
- A switch whose replacement fails, and an activation that is undone, restore the
  workspace with a new manager: Main starts without its conversation, which a change
  of provider would have carried.
- A switch that fails on both ways leaves no manager and `_producers_stopped` unset;
  an orderly cleanup then ends in FAILED, not STOPPED.
- A manager subscribes to `RestartRequest` and `FileRollbackRequest` when it is made
  and never unsubscribes (`manager.py:78`): a restart request would start every manager
  a switch or a change of provider had stopped. Nothing in the web service sends one.
- `TenantRuntime.close` stops at the first failure, and `get_or_start` racing the
  tenants' close can register a runtime that nobody closes.
- A failure inside `_archive_version`, in the writes of the plan and the start input
  or before the first save is not restored; only a rejected revision is.

## 7 The plan

In this order; each module with its run, its invariants inductive where it can be
proved, and no recursive operator.

1. `EventBrowser` over `EventStream`: the reducer's gap check, hydration from
   bootstrap snapshots, reconnection. Abstract specification: the store is a prefix of
   the events, or known to be stale.
2. `RuntimeMutations`: command cache, lease expiry, edit and resend, rollback. *A command takes effect once while it is remembered.*
3. `StepMemo`, `Checkpoints`, `RecoveryController`.
4. `Tenants` over `HostLifecycle`: one runtime per account.

Findings that a stronger passing property comes to state would make room for these.
