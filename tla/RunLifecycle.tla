---------------------------- MODULE RunLifecycle ----------------------------
(***************************************************************************)
(* What happens around an execution of a Run: the facade admits it under   *)
(* the mutation lock, DetachedRunTaskOwner runs it as a task of its own    *)
(* and answers the caller at the first save, RunSupervisor looks at it     *)
(* when it stops, resumes some failures by itself and tells Main of the    *)
(* rest; people resume, answer, rerun and stop Runs, and maintenance and   *)
(* shutdown come in between.  The execution itself is WorkflowHost: here   *)
(* it saves "running" once and later one final status.                     *)
(***************************************************************************)
EXTENDS Naturals, FiniteSets

CONSTANTS
  Runs,       \* run ids
  Execs,      \* identities of tasks; one more than Runs is enough
  NoExec,     \* no task
  MaxAuto,    \* RunSupervisor.max_auto_resumes
  MaxOps      \* bound on the executions people begin

ASSUME LifecycleAssumption ==
  /\ Runs # {}
  /\ NoExec \notin Execs
  /\ MaxAuto \in Nat
  /\ MaxOps \in Nat

VARIABLES
  saved,      \* run id -> what its saved state says
  exec,       \* tasks of DetachedRunTaskOwner
  caller,     \* the task whose acceptance the holder of the mutation lock
              \* awaits, or NoExec: the lock is free between steps
  pending,    \* RunSupervisor._pending: automatic resumes scheduled
  auto,       \* RunSupervisor._auto_resumes
  quiesced,   \* a maintenance token is set
  open,       \* RuntimeFacade._accepting_mutations
  ops,        \* history: executions begun by people
  inRow,      \* history: automatic resumes executed since a person's last one
  stopped,    \* history: a person stopped the Run, and nobody continued it
  owed,       \* history: a final status was saved and Main was not told of it
  dropped     \* history: an accepted answer was never executed

vars == <<saved, exec, caller, pending, auto, quiesced, open,
          ops, inRow, stopped, owed, dropped>>

\* What RunSupervisor reads in a saved state: describe_failure splits the
\* failures into those worth running again and the others.
Finals == {"waiting", "completed", "retryable", "failed"}
Saved  == {"absent", "running"} \cup Finals

\* The stages of a task: before its first save; executing; closing its agent
\* sessions after the final save; waiting to send its notice; done.
Stages == {"unused", "starting", "executing", "closing", "notifying", "done"}
Task == [run : Runs, stage : Stages, persisted : BOOLEAN, cancel : BOOLEAN]

NewTask(r) ==
  [run |-> r, stage |-> "starting", persisted |-> FALSE, cancel |-> FALSE]
NoTask == [NewTask(CHOOSE r \in Runs : TRUE) EXCEPT !.stage = "unused"]

Init ==
  /\ saved = [r \in Runs |-> "absent"]
  /\ exec = [e \in Execs |-> NoTask]
  /\ caller = NoExec
  /\ pending = {}
  /\ auto = [r \in Runs |-> 0]
  /\ quiesced = FALSE
  /\ open = TRUE
  /\ ops = 0
  /\ inRow = [r \in Runs |-> 0]
  /\ stopped = {}
  /\ owed = {}
  /\ dropped = {}

supervision == <<pending, auto>>
gate        == <<quiesced, open>>
history     == <<ops, inRow, stopped, owed, dropped>>

-----------------------------------------------------------------------------
Live(e) == exec[e].stage \notin {"unused", "done"}

IsActive_Settled(r) ==    \* mutant: a task counts until it settled its Run
  \E e \in Execs : exec[e].run = r /\ exec[e].stage \in {"starting", "executing"}

\* DetachedRunTaskOwner.is_active: until the task is done, not until its Run
\* is settled.
IsActive(r) == \E e \in Execs : Live(e) /\ exec[e].run = r

LockFree == caller = NoExec

\* run_admission and mutation_transaction.
Admits == LockFree /\ open /\ ~ quiesced

\* accept_after_persisted_state creates the task and waits, under the lock.
Unused == {e \in Execs : exec[e].stage = "unused"}
Execute(r) ==
  LET e == CHOOSE unused \in Unused : TRUE IN
  /\ Unused # {}
  /\ exec' = [exec EXCEPT ![e] = NewTask(r)]
  /\ caller' = e

Unexecuted == UNCHANGED <<exec, caller>>

\* A person begins an execution.
ByPerson(r) ==
  /\ ops < MaxOps
  /\ ops' = ops + 1
  /\ stopped' = stopped \ {r}
  /\ owed' = owed \ {r}

\* The caller gets its answer and the lock is released.
Accepted ==
  /\ caller \in Execs
  /\ exec[caller].persisted \/ exec[caller].stage = "done"
  /\ exec' = IF exec[caller].stage = "done"
               THEN [exec EXCEPT ![caller] = NoTask] ELSE exec
  /\ caller' = NoExec
  /\ UNCHANGED <<saved, supervision, gate, history>>

\* start: the first time, or again with the same command.
Start(r) ==
  /\ Admits /\ ~ IsActive(r)
  /\ Execute(r)
  /\ ByPerson(r)
  /\ UNCHANGED <<saved, supervision, gate, inRow, dropped>>

\* provide_input: the value goes into a copy of the saved state; a Run whose
\* task is not done yet is not executed, and the caller is not told.
ProvideInput(r) ==
  /\ Admits /\ saved[r] = "waiting"
  /\ \/ /\ IsActive(r)
        /\ dropped' = dropped \cup {r}
        /\ Unexecuted
        /\ UNCHANGED <<ops, stopped, owed>>
     \/ /\ ~ IsActive(r)
        /\ Execute(r)
        /\ ByPerson(r)
        /\ UNCHANGED dropped
  /\ UNCHANGED <<saved, supervision, gate, inRow>>

\* Executing again in place: the saved state is archived first.
ExecuteAgain(r) ==
  /\ ~ IsActive(r)
  /\ saved' = [saved EXCEPT ![r] = "absent"]
  /\ Execute(r)

\* The binding's resume begins an execution ...
Continues(r) ==
  /\ saved[r] # "completed" /\ ~ IsActive(r)
  /\ \/ ExecuteAgain(r)    \* definitions or code changed
     \/ saved[r] # "waiting" /\ Execute(r) /\ UNCHANGED saved

\* ... or accepts without one, or refuses a waiting Run.
ContinuesNot(r) ==
  /\ saved[r] \in {"completed", "waiting"} \/ IsActive(r)
  /\ Unexecuted /\ UNCHANGED saved

\* RunSupervisor.reset.
Reset(r) ==
  /\ pending' = pending \ {r}
  /\ auto' = [auto EXCEPT ![r] = 0]
  /\ inRow' = [inRow EXCEPT ![r] = 0]

\* A person (or Main, for one) resumes.
Resume(r) ==
  /\ Admits /\ saved[r] # "absent"
  /\ Reset(r)
  /\ \/ Continues(r) /\ ByPerson(r)
     \/ ContinuesNot(r) /\ stopped' = stopped \ {r} /\ UNCHANGED <<ops, owed>>
  /\ UNCHANGED <<gate, dropped>>

\* A person runs a Run again in place, or with recompute.
Rerun(r) ==
  /\ Admits /\ saved[r] # "absent"
  /\ Reset(r)
  /\ \/ ExecuteAgain(r) /\ ByPerson(r)
     \/ /\ IsActive(r)
        /\ Unexecuted
        /\ stopped' = stopped \ {r}
        /\ UNCHANGED <<saved, ops, owed>>
  /\ UNCHANGED <<gate, dropped>>

\* A person stops a Run: a scheduled resume is withdrawn and the task, if any,
\* is cancelled (again and again until it is done).
RequestCancel(r) ==
  /\ Admits /\ saved[r] # "absent"
  /\ pending' = pending \ {r}
  /\ auto' = IF r \in pending THEN [auto EXCEPT ![r] = 0] ELSE auto
  /\ inRow' = IF r \in pending THEN [inRow EXCEPT ![r] = 0] ELSE inRow
  /\ exec' = [e \in Execs |-> IF Live(e) /\ exec[e].run = r
                                THEN [exec[e] EXCEPT !.cancel = TRUE]
                                ELSE exec[e]]
  /\ stopped' = stopped \cup {r}
  /\ owed' = owed \ {r}
  /\ UNCHANGED <<saved, caller, gate, ops, dropped>>

-----------------------------------------------------------------------------
\* The task's stages.
Enter(e, stage) == exec' = [exec EXCEPT ![e].stage = stage]

\* The task is done; its identity is free unless its caller still waits.
End(e) == IF caller = e THEN Enter(e, "done")
                        ELSE exec' = [exec EXCEPT ![e] = NoTask]

\* The first state is saved: the started callback fires.
FirstSave(e) ==
  /\ exec[e].stage = "starting" /\ saved[exec[e].run] # "completed"
  /\ saved' = [saved EXCEPT ![exec[e].run] = "running"]
  /\ exec' = [exec EXCEPT ![e].stage = "executing", ![e].persisted = TRUE]
  /\ UNCHANGED <<caller, supervision, gate, history>>

\* A completed Run is returned as it is.
AlreadyCompleted(e) ==
  /\ exec[e].stage = "starting" /\ saved[exec[e].run] = "completed"
  /\ Enter(e, "closing")
  /\ UNCHANGED <<saved, caller, supervision, gate, history>>

\* Inputs, tools or services are missing: nothing was executed.
Refused(e) ==
  /\ exec[e].stage = "starting"
  /\ End(e)
  /\ UNCHANGED <<saved, caller, supervision, gate, history>>

\* The host raises without saving (WorkflowHost!KernelRaises).
Raises(e) ==
  /\ \/ exec[e].stage = "executing" /\ ~ exec[e].cancel
     \/ exec[e].stage = "starting" /\ saved[exec[e].run] # "completed"
  /\ Enter(e, "closing")
  /\ UNCHANGED <<saved, caller, supervision, gate, history>>

\* The host saves a final status.  Only a plan whose loop is used up fails
\* before anything else was saved.
Settles(e, final) ==
  /\ \/ exec[e].stage = "executing" /\ ~ exec[e].cancel
     \/ exec[e].stage = "starting" /\ saved[exec[e].run] # "completed"
          /\ final = "failed"
  /\ saved' = [saved EXCEPT ![exec[e].run] = final]
  /\ exec' = [exec EXCEPT ![e].stage = "closing", ![e].persisted = TRUE]
  /\ owed' = owed \cup {exec[e].run}
  /\ UNCHANGED <<caller, supervision, gate, ops, inRow, stopped, dropped>>

\* The labelled cancel reaches the host: the Run fails as cancelled.
Cancelled(e) ==
  /\ exec[e].stage = "executing" /\ exec[e].cancel
  /\ saved' = [saved EXCEPT ![exec[e].run] = "failed"]
  /\ Enter(e, "closing")
  /\ UNCHANGED <<caller, supervision, gate, history>>

-----------------------------------------------------------------------------
\* The agent sessions are closed (a cancel that arrives meanwhile ends in
\* AgentLoop.stop) and on_settled looks at the Run.

\* A failure worth running again, while tries are left: schedule a resume.
Schedules(r) == saved[r] = "retryable" /\ auto[r] < MaxAuto
Count_Not(r) == UNCHANGED auto     \* mutant: the try is not counted
Count(r) == auto' = [auto EXCEPT ![r] = @ + 1]

SettleSchedules(e) ==
  LET r == exec[e].run IN
  /\ exec[e].stage = "closing"
  /\ Schedules(r)
  /\ Count(r)
  /\ pending' = pending \cup {r}
  /\ End(e)
  /\ UNCHANGED <<saved, caller, gate, history>>

\* Nothing is said of a Run that has no final status.
SettleSilent(e) ==
  /\ exec[e].stage = "closing"
  /\ saved[exec[e].run] \in {"absent", "running"}
  /\ End(e)
  /\ UNCHANGED <<saved, caller, supervision, gate, history>>

Reports_NotExhausted(r) ==   \* mutant: nothing is said after the last try
  saved[r] \in Finals \ {"retryable"}

\* Any other stop is sent to Main.
Reports(r) == saved[r] \in Finals /\ ~ Schedules(r)

SettleReports(e) ==
  LET r == exec[e].run IN
  /\ exec[e].stage = "closing"
  /\ Reports(r)
  /\ auto' = IF saved[r] = "completed" THEN [auto EXCEPT ![r] = 0] ELSE auto
  /\ inRow' = IF saved[r] = "completed" THEN [inRow EXCEPT ![r] = 0] ELSE inRow
  /\ Enter(e, "notifying")
  /\ UNCHANGED <<saved, caller, pending, gate, ops, stopped, owed, dropped>>

NoticeAdmitted_Always(e) ==     \* mutant: the lock is always taken
  LockFree /\ ~ quiesced

\* The notice needs an admission of its own.  A task that its caller still
\* waits for carries the caller's mark and passes inside its lock.
NoticeAdmitted(e) == caller = e \/ (LockFree /\ ~ quiesced)

Notify(e) ==
  /\ exec[e].stage = "notifying"
  /\ NoticeAdmitted(e)
  /\ owed' = IF caller = e \/ open THEN owed \ {exec[e].run} ELSE owed
  /\ End(e)
  /\ UNCHANGED <<saved, caller, supervision, gate, ops, inRow, stopped, dropped>>

\* A cancel ends the wait.
NoticeCut(e) ==
  /\ exec[e].stage = "notifying" /\ exec[e].cancel
  /\ End(e)
  /\ UNCHANGED <<saved, caller, supervision, gate, history>>

-----------------------------------------------------------------------------
\* The delay is over and the lock was had: the resume leaves the schedule and
\* begins in one admission.
AutoResume(r) ==
  /\ r \in pending
  /\ Admits
  /\ pending' = pending \ {r}
  /\ \/ /\ Continues(r)
        /\ inRow' = [inRow EXCEPT ![r] = @ + 1]
        /\ owed' = owed \ {r}
     \/ /\ ContinuesNot(r)
        /\ owed' = IF IsActive(r) THEN owed ELSE owed \ {r}
        /\ UNCHANGED inRow
  /\ UNCHANGED <<auto, gate, ops, stopped, dropped>>

Busy_Tasks == \E e \in Execs : Live(e)   \* mutant: a schedule is not work

\* Maintenance: nothing may be in progress (MaintenanceService.busy).
Busy == pending # {} \/ \E e \in Execs : Live(e)

Quiesce ==
  /\ Admits /\ ~ Busy
  /\ quiesced' = TRUE
  /\ UNCHANGED <<saved, exec, caller, supervision, open, history>>

ReleaseQuiesce ==
  /\ LockFree /\ quiesced
  /\ quiesced' = FALSE
  /\ UNCHANGED <<saved, exec, caller, supervision, open, history>>

\* Shutdown: no new work, then the supervisor's tasks are cancelled; the
\* tasks of Runs are awaited.
BeginShutdown ==
  /\ LockFree /\ open
  /\ open' = FALSE
  /\ UNCHANGED <<saved, exec, caller, supervision, quiesced, history>>

CloseSupervisor ==
  /\ ~ open /\ pending # {}
  /\ pending' = {}
  /\ UNCHANGED <<saved, exec, caller, auto, gate, history>>

-----------------------------------------------------------------------------
Person(r) ==
  Start(r) \/ ProvideInput(r) \/ Resume(r) \/ Rerun(r) \/ RequestCancel(r)

Runtime(e) ==
  \/ FirstSave(e) \/ AlreadyCompleted(e) \/ Refused(e) \/ Raises(e)
  \/ \E final \in Finals : Settles(e, final)
  \/ Cancelled(e)
  \/ SettleSchedules(e) \/ SettleSilent(e) \/ SettleReports(e)
  \/ NoticeCut(e)

Next ==
  \/ \E r \in Runs : Person(r) \/ AutoResume(r)
  \/ \E e \in Execs : Runtime(e) \/ Notify(e)
  \/ Accepted
  \/ Quiesce \/ ReleaseQuiesce \/ BeginShutdown \/ CloseSupervisor

Spec == Init /\ [][Next]_vars

\* The event loop runs every task and wakes a caller whose wait is over, and
\* executors end; asyncio.Lock serves its waiters in order, so that a notice
\* or a resume due is not passed over for ever.  Nobody has to ask anything.
Fairness ==
  /\ \A e \in Execs : WF_vars(Runtime(e)) /\ SF_vars(Notify(e))
  /\ \A r \in Runs : SF_vars(AutoResume(r))
  /\ WF_vars(Accepted)

FairSpec == Spec /\ Fairness

-----------------------------------------------------------------------------
\* Every variable keeps its type.
TypeOK ==
  /\ saved \in [Runs -> Saved]
  /\ exec \in [Execs -> Task]
  /\ caller \in Execs \cup {NoExec}
  /\ pending \subseteq Runs
  /\ auto \in [Runs -> 0..MaxAuto]
  /\ quiesced \in BOOLEAN
  /\ open \in BOOLEAN
  /\ ops \in 0..MaxOps
  /\ inRow \in [Runs -> Nat]
  /\ stopped \subseteq Runs
  /\ owed \subseteq Runs
  /\ dropped \subseteq Runs

\* Two executions never work on one Run at a time, the one that is still
\* closing and telling Main included.
OneExecution ==
  \A d, e \in Execs : Live(d) /\ Live(e) /\ exec[d].run = exec[e].run => d = e

\* While maintenance is quiesced no Run executes, none is being told of, and
\* none is about to be resumed.
QuiescedIsIdle ==
  quiesced => pending = {} /\ caller = NoExec /\ \A e \in Execs : ~ Live(e)

\* Between two decisions of people a Run is resumed automatically at most
\* max_auto_resumes times (run_supervisor.py: "in a row for one Run").
AutoResumesBounded == \A r \in Runs : inRow[r] <= MaxAuto

\* The inductive invariant behind these three: a task executes a Run saved as
\* running, and every schedule was counted before (but for a Run that has
\* completed since, which the schedule will not touch).
ExecutingIsRunning ==
  \A e \in Execs : exec[e].stage = "executing" => saved[exec[e].run] = "running"

SchedulesCounted ==
  \A r \in Runs :
    /\ inRow[r] <= auto[r]
    /\ r \in pending /\ saved[r] # "completed" => inRow[r] < auto[r]

LifecycleInv ==
  TypeOK /\ OneExecution /\ QuiescedIsIdle /\ ExecutingIsRunning /\ SchedulesCounted

\* The mutation lock always comes back: no caller waits for a task that
\* waits for the caller's lock.
LockReturned == ~ LockFree ~> LockFree

\* The part of LockReturned that no scheduling is needed for.  A caller waits
\* for a task that there is, and what saved nothing yet has its caller: it can
\* be neither cancelled nor forgotten.
CallersAreServed ==
  /\ caller # NoExec => exec[caller].stage # "unused"
  /\ \A e \in Execs :
       /\ exec[e].stage = "starting" =>
            caller = e /\ ~ exec[e].cancel /\ ~ exec[e].persisted
       /\ exec[e].stage = "done" => caller = e

\* Every step of a task brings it nearer to its end, and nobody takes it back;
\* while the lock is held it changes hands in no way but by being released.
StagesLeft(e) ==
  [ unused |-> 0, starting |-> 4, executing |-> 3, closing |-> 2,
    notifying |-> 1, done |-> 0 ][exec[e].stage]

TasksAdvance ==
  [][ /\ \A e \in Execs : Runtime(e) \/ Notify(e) =>
           /\ StagesLeft(e)' < StagesLeft(e)
           /\ \A d \in Execs \ {e} : exec'[d] = exec[d]
      /\ \A e \in Execs : Live(e) => StagesLeft(e)' <= StagesLeft(e)
      /\ ~ LockFree => caller' = caller \/ (caller' = NoExec /\ Accepted) ]_vars

\* A final status is never left unsaid: Main is told or the Run is resumed,
\* unless a person took over or the runtime shuts down.
StopsAreReported == \A r \in Runs : r \in owed ~> (r \notin owed \/ ~ open)

\* The part of StopsAreReported that no scheduling is needed for: while Main was
\* not told of a final status, a resume of the Run is scheduled, or a task that
\* nobody cancelled is on its way to telling Main of it (_on_settled).
Tells(e, r) ==
  /\ exec[e].run = r /\ exec[e].stage \in {"closing", "notifying"}
  /\ ~ exec[e].cancel

OwedIsPursued ==
  \A r \in owed : open =>
    \/ r \in pending /\ saved[r] = "retryable"
    \/ saved[r] \in Finals /\ \E e \in Execs : Tells(e, r)

\* With it: a task of such a Run is that one.  Whoever cancelled it, or works on
\* the Run again, has taken over what was owed.
OwedTasksTell ==
  \A e \in Execs : Live(e) /\ exec[e].run \in owed => Tells(e, exec[e].run)

PursuitInv == CallersAreServed /\ OwedIsPursued /\ OwedTasksTell

\* "A stop also covers an automatic resume scheduled after a failure": what a
\* person stopped is not executed again by the supervisor.
StopIsFinal ==
  [][ \A r \in Runs : AutoResume(r) /\ caller' # caller => r \notin stopped ]_vars

\* An accepted answer is executed (accept_after_persisted_state: "return
\* after the operation's next persisted state transition").  The code does not
\* keep this while the execution that asked is still closing.
NoAnswerDropped == dropped = {}
=============================================================================
