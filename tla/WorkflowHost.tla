---------------------------- MODULE WorkflowHost ----------------------------
(***************************************************************************)
(* One Run executed by WorkflowRuntimeHost.execute: the kernel's steps,    *)
(* the state saved through _ThrottledSave, executors that succeed, fail or *)
(* are cancelled, and a process that may stop at any point and be resumed  *)
(* from what it saved.                                                     *)
(***************************************************************************)
EXTENDS WorkflowKernel

CONSTANTS
  InitialVars,    \* variables the Run is started with
  NoState,        \* no saved state
  MaxEntries      \* bound on the executions begun: starts, resumes, inputs

ASSUME HostAssumption ==
  /\ InitialVars \in [Vars -> Held]
  /\ NoState \notin WorkflowState
  /\ MaxEntries \in Nat

VARIABLES
  mem,        \* `state` of the executing coroutine (and save.latest)
  disk,       \* the state store's runtime-state, or NoState
  unsaved,    \* _ThrottledSave._pending, or NoState
  wrote,      \* _ThrottledSave has written since this execution began
  sparing,    \* save_sparingly(): the step memo is still replaying
  pc,         \* "idle": no task; "scheduling": in the kernel; "executing"
  index,      \* _schedule's local index
  cancel,     \* whether a labelled cancel of the task is outstanding
  ran,        \* history: executor actions that finished successfully
  entries     \* history: executions begun so far

vars == <<mem, disk, unsaved, wrote, sparing, pc, index, cancel, ran, entries>>

Init ==
  /\ mem = ForPlan(InitialVars)
  /\ disk = NoState
  /\ unsaved = NoState
  /\ wrote = FALSE
  /\ sparing = FALSE
  /\ pc = "idle"
  /\ index = 1
  /\ cancel = FALSE
  /\ ran = {}
  /\ entries = 0

-----------------------------------------------------------------------------
\* _ThrottledSave.__call__: a settled state is always written, a running one
\* is when the run is not skipping steps, when nothing was written yet or
\* when the interval has passed (a choice here).
Write(s) == disk' = s /\ unsaved' = NoState /\ wrote' = TRUE
Hold(s) == sparing /\ wrote /\ unsaved' = s /\ UNCHANGED <<disk, wrote>>
Save_Dropped(s) ==    \* mutant: a save that is held back is forgotten
  Write(s) \/ (/\ s.status = "running" /\ sparing /\ wrote
               /\ UNCHANGED <<disk, unsaved, wrote>>)
Save(s) == Write(s) \/ (s.status = "running" /\ Hold(s))

\* An execution begins from a state: StartWorkflow is scheduled.
Begin(s, replaying) ==
  /\ entries < MaxEntries
  /\ entries' = entries + 1
  /\ mem' = StartWorkflow(s)
  /\ index' = FirstOpen(s, s.next)
  /\ pc' = "scheduling"
  /\ unsaved' = NoState
  /\ wrote' = FALSE
  /\ sparing' = replaying
  /\ cancel' = FALSE
  /\ UNCHANGED <<disk, ran>>

\* The task ends: the coroutine's state is gone with it.
Leave == pc' = "idle" /\ cancel' = FALSE

\* Mutant: starting again does not look for a saved state.
Start_Anew ==
  /\ pc = "idle"
  /\ \E replaying \in BOOLEAN : Begin(ForPlan(InitialVars), replaying)

\* start, or a rerun (which replays its step memo and has moved the saved
\* state into a version): nothing is saved under this run id.
Start ==
  /\ pc = "idle" /\ disk = NoState
  /\ \E replaying \in BOOLEAN : Begin(ForPlan(InitialVars), replaying)

\* resume, or start again with the same command, continues the saved state;
\* a completed one never.  (Only start reaches here from a WAITING state.)
Resume ==
  /\ pc = "idle" /\ disk # NoState /\ disk.status # "completed"
  /\ Begin(disk, FALSE)

\* provide_input.
ProvideInput ==
  /\ pc = "idle" /\ disk # NoState /\ disk.status = "waiting"
  /\ \E value \in Values : Begin(ResumeWaitingInput(disk, value), FALSE)

-----------------------------------------------------------------------------
\* The kernel passes a control action.
PassControl ==
  /\ pc = "scheduling" /\ index \in Positions
  /\ Plan[index].kind \in ControlKinds
  /\ ~ ExceedsIterations(mem)
  /\ ~ ControlRaises(mem, index)
  /\ \E step \in ControlStep(mem, index) :
       mem' = step[1] /\ index' = step[2]
  /\ UNCHANGED <<disk, unsaved, wrote, sparing, pc, cancel, ran, entries>>

\* The kernel meets a control action beyond max_iterations: the run fails.
ExceedIterations ==
  /\ pc = "scheduling" /\ index \in Positions
  /\ Plan[index].kind \in ControlKinds
  /\ ExceedsIterations(mem)
  /\ mem' = ControlExceeded(mem, index)
  /\ Write(mem')
  /\ Leave
  /\ UNCHANGED <<sparing, index, ran, entries>>

\* The kernel raises: the call is outside execute's try, so that the task ends
\* with nothing saved, flushed or recorded.
KernelRaises ==
  /\ pc = "scheduling" /\ index \in Positions
  /\ ~ ExceedsIterations(mem)
  /\ ControlRaises(mem, index)
  /\ unsaved' = NoState
  /\ Leave
  /\ UNCHANGED <<mem, disk, wrote, sparing, index, ran, entries>>

\* The kernel asks for an executor: the state is saved before it runs.
RequestEffect ==
  /\ pc = "scheduling" /\ index \in Positions
  /\ Plan[index].kind \in ExecutorKinds
  /\ mem' = Reach(mem, index)
  /\ Save(mem')
  /\ pc' = "executing"
  /\ UNCHANGED <<sparing, index, cancel, ran, entries>>

\* Executing an action may end the replay of unchanged steps, never begin it.
KeepSparing == sparing' \in {sparing, FALSE}

\* An executor returns a value.
TaskSucceeds ==
  /\ pc = "executing" /\ Plan[index].kind = "task"
  /\ \E value \in Values \cup {NotAList} : mem' = Succeed(mem, index, value)
  /\ index' = index + 1
  /\ pc' = "scheduling"
  /\ ran' = ran \cup {index}
  /\ KeepSparing
  /\ UNCHANGED <<disk, unsaved, wrote, cancel, entries>>

\* request_input finds its value.
InputSatisfied ==
  /\ pc = "executing" /\ Plan[index].kind = "input"
  /\ mem.vars[Plan[index].out] # Unset
  /\ mem' = SucceedInput(mem, index)
  /\ index' = index + 1
  /\ pc' = "scheduling"
  /\ ran' = ran \cup {index}
  /\ UNCHANGED <<disk, unsaved, wrote, sparing, cancel, entries>>

\* request_input does not: the run waits.
InputWaits ==
  /\ pc = "executing" /\ Plan[index].kind = "input"
  /\ mem.vars[Plan[index].out] = Unset
  /\ mem' = Wait(mem, index)
  /\ Write(mem')
  /\ Leave
  /\ UNCHANGED <<sparing, index, ran, entries>>

\* end_workflow.
EndCompletes ==
  /\ pc = "executing" /\ Plan[index].kind = "end"
  /\ mem' = Complete(mem, index)
  /\ Write(mem')
  /\ Leave
  /\ ran' = ran \cup {index}
  /\ UNCHANGED <<sparing, index, entries>>

\* The executor raised: ActionFailed is saved past the throttle.
RecordFailure ==
  /\ mem' = Fail(mem, index)
  /\ disk' = mem'
  /\ unsaved' = NoState
  /\ Leave
  /\ UNCHANGED <<wrote, sparing, index, ran, entries>>

\* A fail action always raises, any other executor may; a step the run was
\* told to stop before raises too.
ActionFails ==
  /\ pc = "executing"
  /\ RecordFailure

\* A user's cancel arrives while an action executes ...
RequestCancel ==
  /\ pc = "executing" /\ ~ cancel
  /\ cancel' = TRUE
  /\ UNCHANGED <<mem, disk, unsaved, wrote, sparing, pc, index, ran, entries>>

\* ... and interrupts the executing action (or a later one: the executor may
\* have finished first).
Cancelled ==
  /\ pc = "executing" /\ cancel
  /\ RecordFailure

\* Mutant: shutting down does not flush the throttle.
Shutdown_Unflushed ==
  /\ pc = "executing"
  /\ unsaved' = NoState
  /\ Leave
  /\ UNCHANGED <<mem, disk, wrote, sparing, index, ran, entries>>

\* An unlabelled cancel (the process shuts down): what the throttle held back
\* is written and the run stays as it is.
Shutdown ==
  /\ pc = "executing"
  /\ disk' = (IF unsaved = NoState THEN disk ELSE unsaved)
  /\ unsaved' = NoState
  /\ Leave
  /\ UNCHANGED <<mem, wrote, sparing, index, ran, entries>>

\* The process dies: only what was saved is left.
Crash ==
  /\ pc # "idle"
  /\ unsaved' = NoState
  /\ Leave
  /\ UNCHANGED <<mem, disk, wrote, sparing, index, ran, entries>>

-----------------------------------------------------------------------------
Scheduling == PassControl \/ ExceedIterations \/ KernelRaises \/ RequestEffect
Executing  == TaskSucceeds \/ InputSatisfied \/ InputWaits \/ EndCompletes
              \/ ActionFails \/ Cancelled
Entering   == Start \/ Resume \/ ProvideInput
Disturbing == RequestCancel \/ Shutdown \/ Crash

Next == Entering \/ Scheduling \/ Executing \/ Disturbing

Spec == Init /\ [][Next]_vars

\* The event loop keeps running the task, and every executor returns, raises
\* or is cancelled; nobody is bound to start, resume or disturb a run.
Fairness == WF_vars(Scheduling) /\ WF_vars(Executing)

FairSpec == Spec /\ Fairness

-----------------------------------------------------------------------------
\* Every variable keeps its type.
TypeOK ==
  /\ mem \in WorkflowState
  /\ disk \in WorkflowState \cup {NoState}
  /\ unsaved \in WorkflowState \cup {NoState}
  /\ wrote \in BOOLEAN
  /\ sparing \in BOOLEAN
  /\ pc \in {"idle", "scheduling", "executing"}
  /\ index \in Positions
  /\ cancel \in BOOLEAN
  /\ ran \in SUBSET Positions
  /\ entries \in Nat

\* While an executor runs, the saved state is the one that names its action,
\* so that a process that dies resumes at that action; only a replaying run
\* may have held the save back (_ThrottledSave).
IntentSaved ==
  pc = "executing" => \/ disk = mem
                      \/ wrote /\ unsaved = mem

\* Whatever was saved before a stop, resuming it starts at one action that is
\* not completed, and no other action is half done.
Resumable(s) ==
  s.status # "completed" =>
    /\ s.next \in Positions
    /\ s.actions[s.next] # "completed"
    /\ \A p \in Positions \ {s.next} : s.actions[p] \in {"pending", "completed"}

ResumePoint == disk # NoState => Resumable(disk)

\* No action is recorded as completed, or the Run as completed, unless its
\* executor really finished: what is resumed skips nothing.
OnlyRanCompleted(s) ==
  /\ \A p \in Positions :
       Plan[p].kind \in ExecutorKinds /\ s.actions[p] = "completed" => p \in ran
  /\ s.status = "completed" => \E p \in ran : Plan[p].kind = "end"

NothingSkipped == disk # NoState => OnlyRanCompleted(disk)

\* A waiting Run names the input action it is stopped at, whose value is not
\* there yet, so that provide_input can answer it.
Answerable(s) ==
  s.status = "waiting" =>
    /\ s.waiting = s.next
    /\ Plan[s.next].kind = "input"
    /\ s.vars[Plan[s.next].out] = Unset
    /\ s.actions[s.next] = "waiting"

WaitingIsAnswerable == disk # NoState => Answerable(disk)

\* The inductive invariant: the three facts above hold of whatever is or may
\* be saved, and while an execution lasts its own state is running with every
\* action before the cursor settled.
SoundState(s) ==
  s.status # "pending" /\ Resumable(s) /\ OnlyRanCompleted(s) /\ Answerable(s)

SavedStatesSound ==
  /\ disk # NoState => SoundState(disk)
  /\ unsaved # NoState => SoundState(unsaved) /\ unsaved.status = "running"

ExecutionSound ==
  pc # "idle" =>
    /\ mem.status = "running"
    /\ OnlyRanCompleted(mem)
    /\ \A p \in Positions \ {index} : mem.actions[p] \in {"pending", "completed"}
    /\ pc = "executing" => /\ Plan[index].kind \in ExecutorKinds
                           /\ mem.next = index
                           /\ mem.actions[index] = "running"

\* What the running execution may still find on disk.
ReopensOnly ==
  pc # "idle" =>
    /\ disk # NoState => disk.status # "completed"
    /\ wrote => disk # NoState /\ disk.status = "running"
    /\ ~ wrote /\ disk # NoState /\ disk.status = "waiting" =>
         Plan[index].kind = "input"

\* What the throttle holds back while an executor runs is that very intent.
HeldBackIsCurrent ==
  pc = "executing" => unsaved \in {mem, NoState}

HostInv ==
  /\ TypeOK
  /\ IntentSaved
  /\ HeldBackIsCurrent
  /\ SavedStatesSound
  /\ ExecutionSound
  /\ ReopensOnly

\* A save held back by the throttle is never the last word: an execution that
\* settles, or that is told to shut down, leaves its own state on disk.
LastStateSaved ==
  [][ pc # "idle" /\ pc' = "idle" /\ (mem'.status # "running" \/ Shutdown)
        => disk' = mem' ]_vars

\* Once the first save has told the caller that the Run is accepted, an
\* execution that ends by itself leaves a settled state: "a later failure is
\* represented by the Host's persisted FAILED state" (run_lifecycle.py).  The
\* code does not keep this where the kernel itself raises.
FailureIsPersisted ==
  [][ (Scheduling \/ Executing) /\ wrote /\ pc' = "idle"
        => disk'.status \in {"waiting", "failed", "completed"} ]_vars

\* Every execution ends: max_iterations ends a loop that does not end itself.
ExecutionEnds == pc # "idle" ~> pc = "idle"

\* The part of ExecutionEnds that no scheduling is needed for.  What does not
\* end the execution goes on: to the next action of the plan, of which there
\* are finitely many, or through a control action, which is counted and which
\* max_iterations limits where the plan declares it.
ControlCounted ==
  /\ mem'.steps = mem.steps + 1
  /\ MaxIterations # 0 => mem'.steps <= MaxIterations

ActionAdvances ==
  /\ mem'.steps = mem.steps
  /\ \/ pc = "scheduling" /\ pc' = "executing" /\ index' = index
     \/ pc = "executing" /\ pc' = "scheduling" /\ index' = index + 1

ExecutionAdvances ==
  [][(Scheduling \/ Executing) /\ pc' # "idle" => ControlCounted \/ ActionAdvances]_vars

\* The saved status behaves as RunStatus promises.
Promise ==
  INSTANCE RunStatus WITH status <- IF disk = NoState THEN "absent"
                                                      ELSE disk.status
StatusPromised == Promise!Spec
=============================================================================
