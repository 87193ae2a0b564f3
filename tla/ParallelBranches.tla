-------------------------- MODULE ParallelBranches --------------------------
(***************************************************************************)
(* A parallel action, its branches and its join, as                        *)
(* WorkflowRuntimeHost._execute_parallel and _execute_nested run them: the *)
(* branches share a semaphore, every step checkpoints a view of the parent *)
(* through the throttled save, and the parent action ends only when every  *)
(* branch has.  The parent plan is the smallest that matters: parallel,    *)
(* join, and a condition that goes back to parallel or ends.               *)
(***************************************************************************)
EXTENDS Integers, FiniteSets

CONSTANTS
  Branches,     \* branch ids of the parallel action
  Asking,       \* branches whose last step is a request_input
  Steps,        \* executor actions of a branch
  Limit,        \* the resolved concurrency of the action
  MaxRounds,    \* bound on the times the parent plan passes the action
  MaxEntries,   \* bound on the executions begun
  NoBranch,     \* no saved state of a branch
  NoState       \* no saved state of the Run

ASSUME ParallelAssumption ==
  /\ Asking \subseteq Branches
  /\ Steps \in Nat \ {0} /\ Limit \in Nat \ {0}
  /\ MaxRounds \in Nat \ {0} /\ MaxEntries \in Nat

Rounds == 1 .. MaxRounds
None   == 0           \* no result; nobody waits

\* A branch's own WorkflowState: how many of its steps are completed, whether
\* its input is answered, and the round whose parent variables it copied.
BranchState ==
  [ status   : {"pending", "running", "waiting", "failed", "completed"},
    done     : 0 .. Steps,
    answered : BOOLEAN,
    round    : Rounds ]

\* What the parent's WorkflowState holds of all this.  A result is named by
\* the round its branch was started in.
ParentState ==
  [ status  : {"running", "waiting", "failed", "completed"},
    at      : {"parallel", "join"},
    round   : Rounds,
    states  : [Branches -> BranchState \cup {NoBranch}],
    results : [Branches -> Rounds \cup {None}],
    waiting : Branches \cup {None} ]

ASSUME NoneAssumption ==
  None \notin Branches /\ NoBranch \notin BranchState /\ NoState \notin ParentState

VARIABLES
  pc,        \* "idle", "gather" (in the parallel action) or "join"
  local,     \* the parent's `state`
  states,    \* checkpoint_states
  results,   \* checkpoint_results
  stage,     \* where each branch's coroutine is
  disk,      \* the saved state
  latest,    \* _ThrottledSave.latest
  sparing,   \* whether the throttle may hold saves back
  entries    \* history: executions begun

vars == <<pc, local, states, results, stage, disk, latest, sparing, entries>>

\* "returned": _execute_nested returned the branch's state, whatever its status;
\* "failed": it raised with the failed state; "raised": anything else escaped.
Stages == {"off", "queued", "executing", "returned", "failed", "raised"}
Ended  == {"returned", "failed", "raised"}
Off    == [b \in Branches |-> "off"]

Fresh(round) ==
  [status |-> "pending", done |-> 0, answered |-> FALSE, round |-> round]

NewRun ==
  [ status |-> "running", at |-> "parallel", round |-> 1,
    states |-> [b \in Branches |-> NoBranch],
    results |-> [b \in Branches |-> None], waiting |-> None ]

Init ==
  /\ pc = "idle" /\ local = NewRun
  /\ states = NewRun.states /\ results = NewRun.results
  /\ stage = Off
  /\ disk = NoState /\ latest = NoState
  /\ sparing = FALSE /\ entries = 0

-----------------------------------------------------------------------------
\* The root's throttled save of a running state, and its first one.
Write(s) == disk' = s /\ latest' = s
Save(s)  == latest' = s /\ (disk' = s \/ (sparing /\ UNCHANGED disk))

\* _checkpoint_view: the parent with the branches' entries replaced.
View(ss, rs) == [local EXCEPT !.states = ss, !.results = rs]

\* checkpoint_branch: a completed branch's result is recorded with its state.
Checkpoint(b, branch) ==
  /\ states' = [states EXCEPT ![b] = branch]
  /\ results' = IF branch.status = "completed"
                THEN [results EXCEPT ![b] = branch.round] ELSE results
  /\ Save(View(states', results'))

\* A branch is reused when both its result and its state were saved.
Reusable(s, b) == s.results[b] # None /\ s.states[b] # NoBranch

\* The parallel action starts to execute: one coroutine per branch.
EnterParallel(s) ==
  /\ pc' = "gather" /\ local' = s
  /\ states' = s.states /\ results' = s.results
  /\ stage' = [b \in Branches |-> IF Reusable(s, b) THEN "returned"
                                                    ELSE "queued"]

EnterJoin(s) ==
  /\ pc' = "join" /\ local' = s /\ stage' = Off
  /\ states' = s.states /\ results' = s.results

\* An execution begins from a state; its first save is never held back.
Begin(s) ==
  /\ pc = "idle" /\ entries < MaxEntries
  /\ entries' = entries + 1
  /\ sparing' \in BOOLEAN
  /\ Write(s)
  /\ IF s.at = "parallel" THEN EnterParallel(s) ELSE EnterJoin(s)

Start == disk = NoState /\ Begin(NewRun)

Resume ==
  /\ disk # NoState /\ disk.status \in {"running", "failed"}
  /\ Begin([disk EXCEPT !.status = "running"])

\* resume_waiting_input follows the waiting path into the branch.
Answer(s) ==
  [s EXCEPT !.states[s.waiting] = [@ EXCEPT !.status = "running",
                                            !.answered = TRUE],
            !.results[s.waiting] = None,
            !.waiting = None,
            !.status = "running"]

ProvideInput ==
  /\ disk # NoState /\ disk.status = "waiting"
  /\ disk.states[disk.waiting].status = "waiting"
  /\ Begin(Answer(disk))

-----------------------------------------------------------------------------
\* Mutant: a branch always starts over.
SavedOrFresh_Fresh(b) == Fresh(local.round)

\* A queued branch gets the semaphore and is started from its saved state, or
\* from a copy of the parent's variables.
SavedOrFresh(b) ==
  IF local.states[b] = NoBranch THEN Fresh(local.round) ELSE local.states[b]

\* Mutant: a branch that raises keeps its slot.
Executing_Unreleased == {b \in Branches : stage[b] \in {"executing", "failed"}}

Executing == {b \in Branches : stage[b] = "executing"}

BeginBranch(b) ==
  /\ pc = "gather" /\ stage[b] = "queued"
  /\ Cardinality(Executing) < Limit
  /\ IF SavedOrFresh(b).status = "completed"
     THEN Checkpoint(b, SavedOrFresh(b)) /\ stage' = [stage EXCEPT ![b] = "returned"]
     ELSE /\ Checkpoint(b, [SavedOrFresh(b) EXCEPT !.status = "running"])
          /\ stage' = [stage EXCEPT ![b] = "executing"]
  /\ UNCHANGED <<pc, local, sparing, entries>>

Runs(b) == pc = "gather" /\ stage[b] = "executing"

MustAsk(b) ==
  b \in Asking /\ states[b].done + 1 = Steps /\ ~ states[b].answered

\* A step of the branch succeeds.
StepSucceeds(b) ==
  /\ Runs(b) /\ states[b].done < Steps /\ ~ MustAsk(b)
  /\ Checkpoint(b, [states[b] EXCEPT !.done = @ + 1])
  /\ UNCHANGED <<pc, local, stage, sparing, entries>>

\* The branch returns: it reached the join, waits for its input, or passed
\* max_iterations (the kernel then leaves a FAILED state and asks for nothing).
Return(b, status) ==
  /\ Checkpoint(b, [states[b] EXCEPT !.status = status])
  /\ stage' = [stage EXCEPT ![b] = "returned"]
  /\ UNCHANGED <<pc, local, sparing, entries>>

BranchCompletes(b) == Runs(b) /\ states[b].done = Steps /\ Return(b, "completed")
BranchWaits(b)     == Runs(b) /\ MustAsk(b) /\ Return(b, "waiting")
BranchExceeds(b)   == Runs(b) /\ states[b].done < Steps /\ Return(b, "failed")

\* A step raises: _execute_nested fails the branch and raises with its state,
\* which is not checkpointed.
StepFails(b) ==
  /\ Runs(b) /\ states[b].done < Steps
  /\ stage' = [stage EXCEPT ![b] = "failed"]
  /\ UNCHANGED <<pc, local, states, results, disk, latest, sparing, entries>>

\* The kernel raises inside the branch (a for_each over no list): nothing on
\* the way turns it into a failed state.
BranchRaises(b) ==
  /\ Runs(b) /\ states[b].done < Steps
  /\ stage' = [stage EXCEPT ![b] = "raised"]
  /\ UNCHANGED <<pc, local, states, results, disk, latest, sparing, entries>>

-----------------------------------------------------------------------------
\* gather returns once every branch has ended.
Gathered == pc = "gather" /\ \A b \in Branches : stage[b] \in Ended

Outcome(b) ==
  IF stage[b] = "failed" THEN [states[b] EXCEPT !.status = "failed"]
                         ELSE states[b]

\* The parent with every branch's final state and the completed ones' results.
WithOutcomes ==
  [local EXCEPT
     !.states  = [b \in Branches |-> Outcome(b)],
     !.results = [b \in Branches |-> IF Outcome(b).status = "completed"
                                     THEN Outcome(b).round ELSE None]]

Leave ==
  /\ pc' = "idle" /\ stage' = Off /\ latest' = NoState
  /\ UNCHANGED <<local, states, results, sparing, entries>>

\* execute saves the failure of the state it holds, past the throttle.
RecordFailure(s) == disk' = [s EXCEPT !.status = "failed"] /\ Leave

GatherRaises ==
  /\ Gathered /\ \E b \in Branches : stage[b] = "raised"
  /\ RecordFailure(local)

NoneRaised == Gathered /\ \A b \in Branches : stage[b] # "raised"

GatherFails ==
  /\ NoneRaised /\ \E b \in Branches : stage[b] = "failed"
  /\ RecordFailure(WithOutcomes)

NoneFailed == NoneRaised /\ \A b \in Branches : stage[b] = "returned"

\* Mutant: the Run waits for the first branch, waiting or not.
GatherWaits_First ==
  /\ NoneFailed /\ \E b \in Branches : states[b].status = "waiting"
  /\ \E b \in Branches : disk' = [WithOutcomes EXCEPT !.status = "waiting",
                                                     !.waiting = b]
  /\ Leave

\* The Run waits for one of its waiting branches (the first by id).
GatherWaits ==
  /\ NoneFailed
  /\ \E b \in Branches :
       /\ states[b].status = "waiting"
       /\ disk' = [WithOutcomes EXCEPT !.status = "waiting", !.waiting = b]
  /\ Leave

\* Otherwise the action succeeds and the join is next.
GatherSucceeds ==
  /\ NoneFailed /\ \A b \in Branches : states[b].status # "waiting"
  /\ EnterJoin([WithOutcomes EXCEPT !.at = "join"])
  /\ Save(local')
  /\ UNCHANGED <<sparing, entries>>

HasAllResults == \A b \in Branches : local.results[b] # None

\* The join reads every result; the plan goes back to the parallel action ...
JoinRepeats ==
  /\ pc = "join" /\ HasAllResults /\ local.round < MaxRounds
  /\ EnterParallel([local EXCEPT !.at = "parallel", !.round = @ + 1])
  /\ Save(local')
  /\ UNCHANGED <<sparing, entries>>

\* ... or ends.
JoinEnds ==
  /\ pc = "join" /\ HasAllResults
  /\ disk' = [local EXCEPT !.status = "completed"]
  /\ Leave

JoinFails ==
  /\ pc = "join" /\ ~ HasAllResults
  /\ RecordFailure(local)

-----------------------------------------------------------------------------
\* A user's cancel fails the Run from the newest checkpoint; an unlabelled one
\* flushes it; a crash leaves what was saved.
UserCancel_Local == pc = "gather" /\ RecordFailure(local)    \* mutant
UserCancel == pc = "gather" /\ RecordFailure(latest)
Shutdown   == pc = "gather" /\ disk' = latest /\ Leave
Crash      == pc # "idle" /\ UNCHANGED disk /\ Leave

Branch(b) ==
  \/ BeginBranch(b) \/ StepSucceeds(b) \/ BranchCompletes(b) \/ BranchWaits(b)
  \/ BranchExceeds(b) \/ StepFails(b) \/ BranchRaises(b)

Gather == GatherRaises \/ GatherFails \/ GatherWaits \/ GatherSucceeds
Join   == JoinRepeats \/ JoinEnds \/ JoinFails

Next ==
  \/ Start \/ Resume \/ ProvideInput
  \/ \E b \in Branches : Branch(b)
  \/ Gather \/ Join
  \/ UserCancel \/ Shutdown \/ Crash

Spec == Init /\ [][Next]_vars

\* The event loop runs every coroutine that can go on, and steps end.
Fairness ==
  /\ \A b \in Branches : WF_vars(Branch(b))
  /\ WF_vars(Gather) /\ WF_vars(Join)

FairSpec == Spec /\ Fairness

-----------------------------------------------------------------------------
\* Every variable keeps its type.
TypeOK ==
  /\ pc \in {"idle", "gather", "join"}
  /\ local \in ParentState
  /\ states \in [Branches -> BranchState \cup {NoBranch}]
  /\ results \in [Branches -> Rounds \cup {None}]
  /\ stage \in [Branches -> Stages]
  /\ disk \in ParentState \cup {NoState}
  /\ latest \in ParentState \cup {NoState}
  /\ sparing \in BOOLEAN
  /\ entries \in 0 .. MaxEntries

\* How far a saved state has a branch.
Progress(s, b) ==
  IF s.states[b] = NoBranch THEN 0
  ELSE s.states[b].done + (IF s.states[b].status = "completed" THEN 1 ELSE 0)

KeepsProgress ==
  disk # NoState
    => \A b \in Branches : Progress(disk', b) >= Progress(disk, b)

\* No save takes back what an earlier one had of a branch, whether a sibling
\* fails, the Run waits, is cancelled, shut down or resumed ...
ProgressKept == [][ KeepsProgress \/ GatherRaises ]_vars

\* ... "completed steps are not redone" (run_supervisor.py), and no way an
\* execution ends is excepted.  The code does not keep this: an exception that
\* is no failed action overwrites the siblings' progress.
CompletedStepsKept == [][ KeepsProgress ]_vars

RedoesNothing ==
  \A b \in Branches :
    StepSucceeds(b) => \/ disk.states[b] = NoBranch
                       \/ disk.states[b].done <= states[b].done

\* A step the saved state has as done is never executed again.
DoneStepsNotRedone == [][ RedoesNothing ]_vars

\* A waiting Run names a branch that itself waits for the input, so that the
\* answer finds its way down the waiting path.
WaitingNamesBranch ==
  disk # NoState /\ disk.status = "waiting" =>
    /\ disk.waiting # None /\ disk.states[disk.waiting] # NoBranch
    /\ disk.states[disk.waiting].status = "waiting"
    /\ disk.results[disk.waiting] = None

\* When the join runs, every branch that did not itself end as failed has its
\* result, and the result is the one of its saved state.
JoinFindsResults ==
  pc = "join" => \A b \in Branches :
    local.states[b].status # "failed"
      => local.results[b] # None /\ local.results[b] = local.states[b].round

\* Whoever reads the parent's state finds the branches in it as they are: the
\* answer its way down, the join every result.
BranchesRecorded == WaitingNamesBranch /\ JoinFindsResults

\* Branches that wait for each other's slot all end: the parallel action does.
GatherEnds == pc = "gather" ~> pc # "gather"

\* The part of GatherEnds that no scheduling is needed for: no more branches
\* execute than the semaphore has slots, and until all have ended one of them
\* executes or has a slot to begin in (_execute_parallel).
SlotsSuffice ==
  pc = "gather" =>
    /\ Cardinality(Executing) <= Limit
    /\ \/ Gathered
       \/ \E b \in Branches : stage[b] = "executing"
       \/ Cardinality(Executing) < Limit /\ \E b \in Branches : stage[b] = "queued"

\* Whatever a branch does brings it nearer to its end and no other one farther
\* from its own.
StepsToEnd(b) ==
  IF stage[b] = "queued" THEN Steps + 2
  ELSE IF stage[b] = "executing" THEN Steps + 1 - states[b].done ELSE 0

BranchesAdvance ==
  [][\A b \in Branches : Branch(b) =>
       /\ StepsToEnd(b)' < StepsToEnd(b)
       /\ \A c \in Branches \ {b} : StepsToEnd(c)' = StepsToEnd(c)]_vars

\* A Run that failed because a branch did is resumed at the parallel action,
\* so that the failed branch is the one retried.  The code does not keep this
\* for a branch past max_iterations, which counts as a success.
FailedBranchIsRetried ==
  disk # NoState /\ disk.status = "failed"
      /\ (\E b \in Branches : /\ disk.states[b] # NoBranch
                             /\ disk.states[b].status = "failed")
    => disk.at = "parallel"

\* A loop that comes back to the parallel action executes its branches again,
\* with the variables of that round.  The code does not keep this: the results
\* of the first round are found again.
LoopExecutesBranches ==
  pc = "join" => \A b \in Branches : local.results[b] \in {None, local.round}

\* The saved status behaves as RunStatus promises, through the action and its
\* branches: what the plan's other actions keep is kept here.
Promise ==
  INSTANCE RunStatus WITH status <- IF disk = NoState THEN "absent"
                                                      ELSE disk.status
StatusPromised == Promise!Spec

-----------------------------------------------------------------------------
\* The inductive invariant behind the properties, in named parts.

\* A result is the one of a completed branch; at the join no other is missing.
ResultsOfStates(ss, rs) ==
  \A b \in Branches : rs[b] # None =>
    ss[b] # NoBranch /\ ss[b].status = "completed" /\ rs[b] = ss[b].round

Joinable(s) ==
  s.at = "join" => \A b \in Branches :
    s.states[b] # NoBranch /\ (s.states[b].status # "failed" => s.results[b] # None)

SavedSound(s) == ResultsOfStates(s.states, s.results) /\ Joinable(s)

\* What a branch has saved is what it has, or less.
Ahead(saved, now) ==
  saved # NoBranch =>
    /\ now # NoBranch /\ saved.done <= now.done
    /\ saved.status = "completed" => now.status = "completed"

\* The newest checkpoint is the parent's state with the branches' own, the disk
\* is never ahead of it, and no checkpoint outlives its execution.
CheckpointSound ==
  IF pc = "idle" THEN latest = NoState
  ELSE /\ disk # NoState /\ local.status = "running" /\ SavedSound(local)
       /\ local.at = IF pc = "join" THEN "join" ELSE "parallel"
       /\ latest = IF pc = "join" THEN local ELSE View(states, results)
       /\ \A b \in Branches : Ahead(disk.states[b], latest.states[b])

\* How a branch's coroutine and its checkpointed state agree.
BranchSound(b) ==
  /\ stage[b] # "off"
  /\ stage[b] = "queued" => states[b] = local.states[b] /\ results[b] = None
  /\ stage[b] \in {"executing", "failed", "raised"} =>
       states[b] # NoBranch /\ states[b].status = "running"
  /\ stage[b] = "returned" =>
       states[b] # NoBranch /\ states[b].status \in {"completed", "waiting", "failed"}

GatherSound ==
  pc = "gather" => /\ ResultsOfStates(states, results)
                   /\ \A b \in Branches : BranchSound(b)

ParallelInv ==
  /\ TypeOK /\ WaitingNamesBranch
  /\ CheckpointSound /\ GatherSound
  /\ disk # NoState => SavedSound(disk)
=============================================================================
