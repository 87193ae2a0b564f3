------------------------- MODULE RunLifecycleProofs -------------------------
(***************************************************************************)
(* Proofs about RunLifecycle for every set of Runs, every pool of tasks    *)
(* and every max_auto_resumes: one execution per Run, none in maintenance, *)
(* and a bounded number of automatic resumes.                              *)
(***************************************************************************)
EXTENDS RunLifecycle, TLAPS

\* A new task, and no task, are tasks (accept_after_persisted_state).
LEMMA Tasks ==
  /\ NoTask \in Task /\ NoTask.stage = "unused"
  /\ \A r \in Runs : NewTask(r) \in Task /\ NewTask(r).stage = "starting"
                       /\ NewTask(r).run = r
<1>1. \A r \in Runs : NewTask(r) \in Task /\ NewTask(r).stage = "starting"
                        /\ NewTask(r).run = r
  BY DEF NewTask, Task, Stages
<1>2. (CHOOSE r \in Runs : TRUE) \in Runs
  BY LifecycleAssumption
<1>3. NoTask \in Task /\ NoTask.stage = "unused"
  BY <1>1, <1>2 DEF NoTask, Task, Stages
<1> QED BY <1>1, <1>3

\* Execute turns one unused task into a starting one of its Run.
LEMMA Executes ==
  ASSUME NEW r \in Runs, Execute(r)
  PROVE \E e \in Execs : /\ exec[e].stage = "unused"
                         /\ exec' = [exec EXCEPT ![e] = NewTask(r)]
                         /\ caller' = e
<1> DEFINE e == CHOOSE unused \in Unused : TRUE
<1>1. e \in Unused
  BY DEF Execute
<1>2. e \in Execs /\ exec[e].stage = "unused"
  BY <1>1 DEF Unused
<1>3. exec' = [exec EXCEPT ![e] = NewTask(r)] /\ caller' = e
  BY DEF Execute
<1> QED BY <1>2, <1>3

\* The stages change only to stages, and End frees or parks the task.
LEMMA EnterType ==
  ASSUME exec \in [Execs -> Task], NEW e \in Execs, NEW stage \in Stages,
         Enter(e, stage)
  PROVE exec' \in [Execs -> Task]
<1>1. [exec[e] EXCEPT !.stage = stage] \in Task
  BY DEF Task
<1> QED BY <1>1 DEF Enter

LEMMA EndType ==
  ASSUME exec \in [Execs -> Task], NEW e \in Execs, End(e)
  PROVE exec' \in [Execs -> Task]
<1>1. CASE caller = e
  BY <1>1, EnterType DEF End, Stages
<1>2. CASE caller # e
  BY <1>2, Tasks DEF End
<1> QED BY <1>1, <1>2

LEMMA ExecuteType ==
  ASSUME exec \in [Execs -> Task], NEW r \in Runs, Execute(r)
  PROVE exec' \in [Execs -> Task] /\ caller' \in Execs \cup {NoExec}
BY Executes, Tasks

-----------------------------------------------------------------------------
\* Every step keeps the types.
LEMMA TypeStep == TypeOK /\ [Next]_vars => TypeOK'
<1> SUFFICES ASSUME TypeOK, [Next]_vars PROVE TypeOK'
  OBVIOUS
<1> USE LifecycleAssumption DEF TypeOK, supervision, gate, history
<1>1. ASSUME NEW r \in Runs, Start(r) PROVE TypeOK'
  BY <1>1, ExecuteType DEF Start, ByPerson
<1>2. ASSUME NEW r \in Runs, ProvideInput(r) PROVE TypeOK'
  <2>1. CASE IsActive(r)
    BY <1>2, <2>1 DEF ProvideInput, Unexecuted
  <2>2. CASE ~ IsActive(r)
    BY <1>2, <2>2, ExecuteType DEF ProvideInput, ByPerson
  <2> QED BY <2>1, <2>2
<1>3. ASSUME NEW r \in Runs, Continues(r)
      PROVE /\ saved' \in [Runs -> Saved]
            /\ exec' \in [Execs -> Task] /\ caller' \in Execs \cup {NoExec}
  BY <1>3, ExecuteType DEF Continues, ExecuteAgain, Saved
<1>4. ASSUME NEW r \in Runs, Reset(r)
      PROVE /\ pending' \subseteq Runs
            /\ auto' \in [Runs -> 0..MaxAuto] /\ inRow' \in [Runs -> Nat]
  BY <1>4 DEF Reset
<1>5. ASSUME NEW r \in Runs, Resume(r) PROVE TypeOK'
  <2>1. CASE Continues(r) /\ ByPerson(r)
    BY <1>5, <2>1, <1>3, <1>4 DEF Resume, ByPerson
  <2>2. CASE ContinuesNot(r) /\ stopped' = stopped \ {r} /\ UNCHANGED <<ops, owed>>
    BY <1>5, <2>2, <1>4 DEF Resume, ContinuesNot, Unexecuted
  <2> QED BY <1>5, <2>1, <2>2 DEF Resume
<1>6. ASSUME NEW r \in Runs, Rerun(r) PROVE TypeOK'
  <2>1. CASE ExecuteAgain(r) /\ ByPerson(r)
    BY <1>6, <2>1, <1>4, ExecuteType DEF Rerun, ByPerson, ExecuteAgain, Saved
  <2>2. CASE IsActive(r)
    BY <1>6, <2>2, <1>4 DEF Rerun, Unexecuted, ExecuteAgain
  <2> QED BY <1>6, <2>1, <2>2 DEF Rerun
<1>7. ASSUME NEW r \in Runs, RequestCancel(r) PROVE TypeOK'
  <2>1. \A e \in Execs : [exec[e] EXCEPT !.cancel = TRUE] \in Task
    BY DEF Task
  <2>2. exec' \in [Execs -> Task]
    BY <1>7, <2>1 DEF RequestCancel
  <2> QED BY <1>7, <2>2 DEF RequestCancel
<1>8. ASSUME NEW r \in Runs, AutoResume(r) PROVE TypeOK'
  <2>1. CASE Continues(r)
    BY <1>8, <2>1, <1>3 DEF AutoResume, ContinuesNot, Unexecuted
  <2>2. CASE ContinuesNot(r)
    BY <1>8, <2>2, <1>3 DEF AutoResume, ContinuesNot, Unexecuted
  <2> QED BY <1>8, <2>1, <2>2 DEF AutoResume
<1>9. ASSUME NEW e \in Execs, Runtime(e) \/ Notify(e) PROVE TypeOK'
  <2>1. exec[e].run \in Runs
    BY DEF Task
  <2>2. CASE FirstSave(e)
    <3>1. [exec[e] EXCEPT !.stage = "executing", !.persisted = TRUE] \in Task
      BY DEF Task, Stages
    <3> QED BY <2>1, <2>2, <3>1 DEF FirstSave, Saved
  <2>3. CASE AlreadyCompleted(e)
    BY <2>3, EnterType DEF AlreadyCompleted, Stages
  <2>4. CASE Refused(e)
    BY <2>4, EndType DEF Refused
  <2>5. CASE Raises(e)
    BY <2>5, EnterType DEF Raises, Stages
  <2>6. ASSUME NEW final \in Finals, Settles(e, final) PROVE TypeOK'
    <3>1. [exec[e] EXCEPT !.stage = "closing", !.persisted = TRUE] \in Task
      BY DEF Task, Stages
    <3> QED BY <2>1, <2>6, <3>1 DEF Settles, Saved
  <2>7. CASE Cancelled(e)
    BY <2>1, <2>7, EnterType DEF Cancelled, Stages, Saved, Finals
  <2>8. CASE SettleSchedules(e)
    BY <2>1, <2>8, EndType DEF SettleSchedules, Schedules, Count
  <2>9. CASE SettleSilent(e)
    BY <2>9, EndType DEF SettleSilent
  <2>10. CASE SettleReports(e)
    BY <2>1, <2>10, EnterType DEF SettleReports, Stages
  <2>11. CASE NoticeCut(e)
    BY <2>11, EndType DEF NoticeCut
  <2>12. CASE Notify(e)
    BY <2>12, EndType DEF Notify
  <2> QED BY <1>9, <2>2, <2>3, <2>4, <2>5, <2>6, <2>7, <2>8, <2>9, <2>10,
             <2>11, <2>12 DEF Runtime
<1>10. CASE Accepted
  BY <1>10, Tasks DEF Accepted
<1>11. CASE Quiesce \/ ReleaseQuiesce \/ BeginShutdown \/ CloseSupervisor
  BY <1>11 DEF Quiesce, ReleaseQuiesce, BeginShutdown, CloseSupervisor
<1>12. CASE UNCHANGED vars
  BY <1>12 DEF vars
<1> QED BY <1>1, <1>2, <1>5, <1>6, <1>7, <1>8, <1>9, <1>10, <1>11, <1>12
        DEF Next, Person

-----------------------------------------------------------------------------
\* Which tasks are live, and whose they are, changes in two ways only: a step
\* that executes adds one to a Run that has none, every other step adds none.
NoneAdded ==
  \A d \in Execs : Live(d)' => Live(d) /\ exec'[d].run = exec[d].run

\* A task moved to another stage adds none.
LEMMA EnterAddsNone ==
  ASSUME TypeOK, NEW e \in Execs, Live(e), NEW stage, Enter(e, stage)
  PROVE NoneAdded
BY DEF TypeOK, Task, Enter, NoneAdded, Live

LEMMA EndAddsNone ==
  ASSUME TypeOK, NEW e \in Execs, Live(e), End(e)
  PROVE NoneAdded
<1>1. CASE caller = e
  BY <1>1, EnterAddsNone DEF End
<1>2. CASE caller # e
  BY <1>2, Tasks DEF End, NoneAdded, Live, TypeOK
<1> QED BY <1>1, <1>2

\* The steps of a task add none.
LEMMA RuntimeAddsNone ==
  ASSUME TypeOK, NEW e \in Execs, Runtime(e) \/ Notify(e)
  PROVE NoneAdded
<1>1. CASE FirstSave(e)
  BY <1>1 DEF FirstSave, TypeOK, Task, NoneAdded, Live
<1>2. CASE AlreadyCompleted(e)
  BY <1>2, EnterAddsNone DEF AlreadyCompleted, Live
<1>3. CASE Refused(e)
  BY <1>3, EndAddsNone DEF Refused, Live
<1>4. CASE Raises(e)
  BY <1>4, EnterAddsNone DEF Raises, Live
<1>5. ASSUME NEW final \in Finals, Settles(e, final) PROVE NoneAdded
  BY <1>5 DEF Settles, TypeOK, Task, NoneAdded, Live
<1>6. CASE Cancelled(e)
  BY <1>6, EnterAddsNone DEF Cancelled, Live
<1>7. CASE SettleSchedules(e)
  BY <1>7, EndAddsNone DEF SettleSchedules, Live
<1>8. CASE SettleSilent(e)
  BY <1>8, EndAddsNone DEF SettleSilent, Live
<1>9. CASE SettleReports(e)
  BY <1>9, EnterAddsNone DEF SettleReports, Live
<1>10. CASE NoticeCut(e)
  BY <1>10, EndAddsNone DEF NoticeCut, Live
<1>11. CASE Notify(e)
  BY <1>11, EndAddsNone DEF Notify, Live
<1> QED BY <1>1, <1>2, <1>3, <1>4, <1>5, <1>6, <1>7, <1>8, <1>9, <1>10, <1>11
        DEF Runtime

\* Accepted frees a task that is done, RequestCancel marks the live ones.
LEMMA AcceptedAddsNone ==
  ASSUME TypeOK, Accepted
  PROVE NoneAdded
BY Tasks DEF Accepted, TypeOK, NoneAdded, Live

LEMMA RequestCancelAddsNone ==
  ASSUME TypeOK, NEW r \in Runs, RequestCancel(r)
  PROVE NoneAdded
BY DEF RequestCancel, TypeOK, Task, NoneAdded, Live

\* A step of a person or of the supervisor executes, or leaves the tasks
\* alone but for a cancel; it executes only a Run that has no task.
LEMMA PersonExecutes ==
  ASSUME TypeOK, NEW r \in Runs, Person(r) \/ AutoResume(r)
  PROVE NoneAdded \/ (Execute(r) /\ ~ IsActive(r) /\ Admits)
<1>1. CASE exec' = exec
  BY <1>1 DEF NoneAdded, Live
<1>2. CASE RequestCancel(r)
  BY <1>2, RequestCancelAddsNone
<1>3. CASE Start(r)
  BY <1>3 DEF Start
<1>4. CASE ProvideInput(r)
  BY <1>1, <1>4 DEF ProvideInput, Unexecuted
<1>5. CASE Resume(r)
  BY <1>1, <1>5 DEF Resume, Continues, ContinuesNot, ExecuteAgain, Unexecuted
<1>6. CASE Rerun(r)
  BY <1>1, <1>6 DEF Rerun, ExecuteAgain, Unexecuted
<1>7. CASE AutoResume(r)
  BY <1>1, <1>7 DEF AutoResume, Continues, ContinuesNot, ExecuteAgain, Unexecuted
<1> QED BY <1>2, <1>3, <1>4, <1>5, <1>6, <1>7 DEF Person

\* One execution per Run is kept: the new task's Run had none.
LEMMA OneExecutionStep ==
  TypeOK /\ OneExecution /\ [Next]_vars => OneExecution'
<1> SUFFICES ASSUME TypeOK, OneExecution, [Next]_vars PROVE OneExecution'
  OBVIOUS
<1>1. ASSUME NoneAdded PROVE OneExecution'
  BY <1>1 DEF NoneAdded, OneExecution
<1>2. ASSUME NEW r \in Runs, Person(r) \/ AutoResume(r) PROVE OneExecution'
  <2>1. CASE Execute(r) /\ ~ IsActive(r)
    <3>1. PICK e \in Execs : /\ exec[e].stage = "unused"
                             /\ exec' = [exec EXCEPT ![e] = NewTask(r)]
      BY <2>1, Executes
    <3>2. exec'[e].run = r
      BY <3>1, Tasks DEF TypeOK
    <3>3. \A d \in Execs \ {e} : exec'[d] = exec[d]
      BY <3>1 DEF TypeOK
    <3>4. \A d \in Execs \ {e} : Live(d)' => exec'[d].run # r
      BY <2>1, <3>3 DEF IsActive, Live
    <3> QED BY <3>2, <3>3, <3>4 DEF OneExecution, Live
  <2> QED BY <1>1, <1>2, <2>1, PersonExecutes
<1>3. ASSUME NEW e \in Execs, Runtime(e) \/ Notify(e) PROVE OneExecution'
  BY <1>1, <1>3, RuntimeAddsNone
<1>4. CASE Accepted
  BY <1>1, <1>4, AcceptedAddsNone
<1>5. CASE Quiesce \/ ReleaseQuiesce \/ BeginShutdown \/ CloseSupervisor
           \/ UNCHANGED vars
  BY <1>5 DEF Quiesce, ReleaseQuiesce, BeginShutdown, CloseSupervisor, vars,
              OneExecution, Live
<1> QED BY <1>2, <1>3, <1>4, <1>5 DEF Next

\* Maintenance stays idle: it admits nothing, and a task that could schedule
\* a resume would have kept it out.
LEMMA QuiescedStep ==
  TypeOK /\ QuiescedIsIdle /\ [Next]_vars => QuiescedIsIdle'
<1> SUFFICES ASSUME TypeOK, QuiescedIsIdle, [Next]_vars PROVE QuiescedIsIdle'
  OBVIOUS
<1>1. ASSUME NEW r \in Runs, Person(r) \/ AutoResume(r) PROVE QuiescedIsIdle'
  <2>1. ~ quiesced /\ quiesced' = quiesced
    BY <1>1 DEF Person, Start, ProvideInput, Resume, Rerun, RequestCancel,
                AutoResume, Admits, gate
  <2> QED BY <2>1 DEF QuiescedIsIdle
<1>2. ASSUME NEW e \in Execs, Runtime(e) \/ Notify(e) PROVE QuiescedIsIdle'
  <2>1. Live(e) /\ quiesced' = quiesced
    BY <1>2 DEF Runtime, FirstSave, AlreadyCompleted, Refused, Raises, Settles,
                Cancelled, SettleSchedules, SettleSilent, SettleReports,
                NoticeCut, Notify, Live, gate
  <2> QED BY <2>1 DEF QuiescedIsIdle
<1>3. CASE Accepted
  BY <1>3, LifecycleAssumption DEF Accepted, QuiescedIsIdle, gate
<1>4. CASE Quiesce
  BY <1>4 DEF Quiesce, Admits, LockFree, Busy, QuiescedIsIdle, supervision, Live
<1>5. CASE ReleaseQuiesce \/ BeginShutdown \/ CloseSupervisor \/ UNCHANGED vars
  BY <1>5 DEF ReleaseQuiesce, BeginShutdown, CloseSupervisor, vars,
              QuiescedIsIdle, supervision, gate, Live
<1> QED BY <1>1, <1>2, <1>3, <1>4, <1>5 DEF Next

-----------------------------------------------------------------------------
\* A task executes a Run that is saved as running: only that task saves.
LEMMA ExecutingStep ==
  TypeOK /\ OneExecution /\ ExecutingIsRunning /\ [Next]_vars
    => ExecutingIsRunning'
<1> SUFFICES ASSUME TypeOK, OneExecution, ExecutingIsRunning, [Next]_vars
             PROVE ExecutingIsRunning'
  OBVIOUS
<1> DEFINE Executing(d) == exec[d].stage = "executing"
           Kept == \A d \in Execs :
                     Executing(d)' => Executing(d) /\ exec'[d].run = exec[d].run
<1>1. ASSUME NEW e \in Execs, NEW stage, stage # "executing", Enter(e, stage)
      PROVE Kept
  BY <1>1 DEF Enter, TypeOK, Task
<1>2. ASSUME NEW e \in Execs, End(e) PROVE Kept
  <2>1. CASE caller = e
    BY <1>1, <1>2, <2>1 DEF End
  <2>2. CASE caller # e
    BY <1>2, <2>2, Tasks DEF End, TypeOK
  <2> QED BY <2>1, <2>2
<1>3. ASSUME NEW r \in Runs, Execute(r) PROVE Kept
  BY <1>3, Executes, Tasks DEF TypeOK
<1>4. ASSUME Kept, saved' = saved PROVE ExecutingIsRunning'
  BY <1>4 DEF ExecutingIsRunning
<1>5. ASSUME NEW r \in Runs, ExecuteAgain(r) PROVE ExecutingIsRunning'
  <2>1. Kept
    BY <1>3, <1>5 DEF ExecuteAgain
  <2>2. \A d \in Execs : Executing(d) => exec[d].run # r
    BY <1>5 DEF ExecuteAgain, IsActive, Live
  <2>3. \A q \in Runs \ {r} : saved'[q] = saved[q]
    BY <1>5 DEF ExecuteAgain, TypeOK
  <2>4. \A d \in Execs : exec[d].run \in Runs
    BY DEF TypeOK, Task
  <2> QED BY <2>1, <2>2, <2>3, <2>4 DEF ExecutingIsRunning
\* A live task that saves a status is the only one of its Run.
<1>6. ASSUME NEW e \in Execs, Live(e), Kept,
             \A q \in Runs \ {exec[e].run} : saved'[q] = saved[q],
             ~ Executing(e)'
      PROVE ExecutingIsRunning'
  <2>1. \A d \in Execs : exec[d].run \in Runs
    BY DEF TypeOK, Task
  <2>2. \A d \in Execs : Executing(d) => Live(d)
    BY DEF Live
  <2>3. \A d \in Execs : Executing(d)' => exec[d].run # exec[e].run
    BY <1>6, <2>2 DEF OneExecution
  <2> QED BY <1>6, <2>1, <2>3 DEF ExecutingIsRunning
<1>7. ASSUME NEW r \in Runs, Person(r) \/ AutoResume(r)
      PROVE ExecutingIsRunning'
  <2>1. CASE saved' = saved /\ exec' = exec
    BY <1>4, <2>1
  <2>2. CASE saved' = saved /\ Execute(r)
    BY <1>3, <1>4, <2>2
  <2>3. CASE RequestCancel(r)
    BY <1>4, <2>3 DEF RequestCancel, TypeOK, Task
  <2>4. CASE Start(r)
    BY <2>2, <2>4 DEF Start
  <2>5. CASE ProvideInput(r)
    BY <2>1, <2>2, <2>5 DEF ProvideInput, Unexecuted
  <2>6. CASE Resume(r)
    BY <1>5, <2>1, <2>2, <2>6 DEF Resume, Continues, ContinuesNot, Unexecuted
  <2>7. CASE Rerun(r)
    BY <1>5, <2>1, <2>7 DEF Rerun, Unexecuted
  <2>8. CASE AutoResume(r)
    BY <1>5, <2>1, <2>2, <2>8 DEF AutoResume, Continues, ContinuesNot, Unexecuted
  <2> QED BY <1>7, <2>3, <2>4, <2>5, <2>6, <2>7, <2>8 DEF Person
<1>8. ASSUME NEW e \in Execs, Runtime(e) \/ Notify(e) PROVE ExecutingIsRunning'
  <2>1. CASE FirstSave(e)
    <3>1. exec[e].run \in Runs
      BY DEF TypeOK, Task
    <3>2. \A d \in Execs \ {e} : exec'[d] = exec[d]
      BY <2>1 DEF FirstSave, TypeOK
    <3>3. \A d \in Execs \ {e} : Executing(d) => exec[d].run # exec[e].run
      BY <2>1 DEF FirstSave, OneExecution, Live
    <3>4. exec'[e].run = exec[e].run /\ saved'[exec[e].run] = "running"
      BY <2>1, <3>1 DEF FirstSave, TypeOK, Task
    <3>5. \A q \in Runs \ {exec[e].run} : saved'[q] = saved[q]
      BY <2>1 DEF FirstSave, TypeOK
    <3>6. \A d \in Execs : exec[d].run \in Runs
      BY DEF TypeOK, Task
    <3> QED BY <3>2, <3>3, <3>4, <3>5, <3>6 DEF ExecutingIsRunning
  <2>2. CASE AlreadyCompleted(e)
    BY <1>1, <1>4, <2>2 DEF AlreadyCompleted
  <2>3. CASE Refused(e)
    BY <1>2, <1>4, <2>3 DEF Refused
  <2>4. CASE Raises(e)
    BY <1>1, <1>4, <2>4 DEF Raises
  <2>5. ASSUME NEW final \in Finals, Settles(e, final) PROVE ExecutingIsRunning'
    <3>1. Live(e)
      BY <2>5 DEF Settles, Live
    <3>2. Kept /\ ~ Executing(e)'
      BY <2>5 DEF Settles, TypeOK, Task
    <3>3. \A q \in Runs \ {exec[e].run} : saved'[q] = saved[q]
      BY <2>5 DEF Settles, TypeOK
    <3> QED BY <1>6, <3>1, <3>2, <3>3
  <2>6. CASE Cancelled(e)
    <3>1. Live(e)
      BY <2>6 DEF Cancelled, Live
    <3>2. Kept
      BY <1>1, <2>6 DEF Cancelled
    <3>3. ~ Executing(e)'
      BY <2>6 DEF Cancelled, Enter, TypeOK, Task
    <3>4. \A q \in Runs \ {exec[e].run} : saved'[q] = saved[q]
      BY <2>6 DEF Cancelled, TypeOK
    <3> QED BY <1>6, <3>1, <3>2, <3>3, <3>4
  <2>7. CASE SettleSchedules(e)
    BY <1>2, <1>4, <2>7 DEF SettleSchedules
  <2>8. CASE SettleSilent(e)
    BY <1>2, <1>4, <2>8 DEF SettleSilent
  <2>9. CASE SettleReports(e)
    BY <1>1, <1>4, <2>9 DEF SettleReports
  <2>10. CASE NoticeCut(e)
    BY <1>2, <1>4, <2>10 DEF NoticeCut
  <2>11. CASE Notify(e)
    BY <1>2, <1>4, <2>11 DEF Notify
  <2> QED BY <1>8, <2>1, <2>2, <2>3, <2>4, <2>5, <2>6, <2>7, <2>8, <2>9,
             <2>10, <2>11 DEF Runtime
<1>9. CASE Accepted
  BY <1>4, <1>9, Tasks DEF Accepted, TypeOK
<1>10. CASE Quiesce \/ ReleaseQuiesce \/ BeginShutdown \/ CloseSupervisor
            \/ UNCHANGED vars
  BY <1>10 DEF Quiesce, ReleaseQuiesce, BeginShutdown, CloseSupervisor, vars,
               ExecutingIsRunning
<1> QED BY <1>7, <1>8, <1>9, <1>10 DEF Next

\* Every schedule stays counted: scheduling counts, resuming uses the count
\* up, and what resets the count withdraws the schedule or leaves it to a Run
\* that has completed, which stays so until a person runs it again.
LEMMA CountedStep ==
  TypeOK /\ ExecutingIsRunning /\ SchedulesCounted /\ [Next]_vars
    => SchedulesCounted'
<1> SUFFICES ASSUME TypeOK, ExecutingIsRunning, SchedulesCounted, [Next]_vars
             PROVE SchedulesCounted'
  OBVIOUS
<1> USE DEF TypeOK, supervision, gate, history
<1> DEFINE Others(r) == \A q \in Runs \ {r} :
             /\ saved'[q] = saved[q] /\ inRow'[q] = inRow[q] /\ auto'[q] = auto[q]
             /\ q \in pending' => q \in pending
           This(r) ==
             /\ inRow'[r] <= auto'[r]
             /\ r \in pending' /\ saved'[r] # "completed" => inRow'[r] < auto'[r]
<1>1. ASSUME NEW r \in Runs, Others(r), This(r) PROVE SchedulesCounted'
  BY <1>1 DEF SchedulesCounted
<1>2. ASSUME UNCHANGED <<saved, inRow, auto>>, pending' \subseteq pending
      PROVE SchedulesCounted'
  BY <1>2 DEF SchedulesCounted
<1>3. ASSUME NEW r \in Runs, Reset(r), saved' = saved \/ ExecuteAgain(r)
      PROVE SchedulesCounted'
  <2>1. Others(r)
    BY <1>3 DEF Reset, ExecuteAgain
  <2>2. This(r)
    BY <1>3 DEF Reset
  <2> QED BY <1>1, <2>1, <2>2
<1>4. ASSUME NEW r \in Runs, Person(r) PROVE SchedulesCounted'
  <2>1. CASE Start(r)
    BY <1>2, <2>1 DEF Start, ByPerson
  <2>2. CASE ProvideInput(r)
    BY <1>2, <2>2 DEF ProvideInput, ByPerson
  <2>3. CASE Resume(r)
    BY <1>3, <2>3 DEF Resume, Continues, ContinuesNot
  <2>4. CASE Rerun(r)
    BY <1>3, <2>4 DEF Rerun
  <2>5. CASE RequestCancel(r)
    BY <2>5 DEF RequestCancel, SchedulesCounted
  <2> QED BY <1>4, <2>1, <2>2, <2>3, <2>4, <2>5 DEF Person
<1>5. ASSUME NEW r \in Runs, AutoResume(r) PROVE SchedulesCounted'
  <2>1. r \notin pending' /\ auto' = auto
    BY <1>5 DEF AutoResume
  <2>2. CASE Continues(r) /\ inRow' = [inRow EXCEPT ![r] = @ + 1]
    <3>1. inRow[r] < auto[r]
      BY <1>5, <2>2 DEF AutoResume, Continues, SchedulesCounted
    <3>2. Others(r)
      BY <1>5, <2>2 DEF AutoResume, Continues, ExecuteAgain
    <3>3. This(r)
      BY <2>1, <2>2, <3>1
    <3> QED BY <1>1, <3>2, <3>3
  <2>3. CASE ContinuesNot(r) /\ inRow' = inRow
    BY <1>2, <1>5, <2>3 DEF AutoResume, ContinuesNot
  <2> QED BY <1>5, <2>2, <2>3 DEF AutoResume
<1>6. ASSUME NEW e \in Execs, Runtime(e) \/ Notify(e) PROVE SchedulesCounted'
  <2> DEFINE r == exec[e].run
  <2>1. r \in Runs
    BY DEF Task
  \* A save: the Run was not completed before.
  <2>2. ASSUME saved[r] # "completed", UNCHANGED <<inRow, auto, pending>>,
               \E s \in Saved : saved' = [saved EXCEPT ![r] = s]
        PROVE SchedulesCounted'
    <3>1. Others(r)
      BY <2>2
    <3>2. This(r)
      BY <2>1, <2>2 DEF SchedulesCounted
    <3> QED BY <1>1, <2>1, <3>1, <3>2
  <2>3. CASE FirstSave(e)
    BY <2>2, <2>3 DEF FirstSave, Saved
  <2>4. ASSUME NEW final \in Finals, Settles(e, final) PROVE SchedulesCounted'
    <3>1. saved[r] # "completed"
      BY <2>4 DEF Settles, ExecutingIsRunning
    <3> QED BY <2>2, <2>4, <3>1 DEF Settles, Saved
  <2>5. CASE Cancelled(e)
    <3>1. saved[r] # "completed"
      BY <2>5 DEF Cancelled, ExecutingIsRunning
    <3> QED BY <2>2, <2>5, <3>1 DEF Cancelled, Saved, Finals
  <2>6. CASE SettleSchedules(e)
    <3>1. /\ auto' = [auto EXCEPT ![r] = @ + 1] /\ pending' = pending \cup {r}
          /\ UNCHANGED <<saved, inRow>>
      BY <2>6 DEF SettleSchedules, Count
    <3>2. Others(r)
      BY <3>1
    <3>3. inRow[r] <= auto[r] /\ auto'[r] = auto[r] + 1
      BY <2>1, <3>1 DEF SchedulesCounted
    <3>4. This(r)
      BY <2>1, <3>1, <3>3
    <3> QED BY <1>1, <2>1, <3>2, <3>4
  <2>7. CASE SettleReports(e)
    <3>1. CASE saved[r] = "completed"
      <4>1. /\ auto' = [auto EXCEPT ![r] = 0] /\ inRow' = [inRow EXCEPT ![r] = 0]
            /\ UNCHANGED <<saved, pending>>
        BY <2>7, <3>1 DEF SettleReports
      <4>2. Others(r)
        BY <4>1
      <4>3. This(r)
        BY <2>1, <3>1, <4>1
      <4> QED BY <1>1, <2>1, <4>2, <4>3
    <3>2. CASE saved[r] # "completed"
      BY <1>2, <2>7, <3>2 DEF SettleReports
    <3> QED BY <3>1, <3>2
  <2>8. CASE AlreadyCompleted(e) \/ Refused(e) \/ Raises(e) \/ SettleSilent(e)
             \/ NoticeCut(e) \/ Notify(e)
    BY <1>2, <2>8 DEF AlreadyCompleted, Refused, Raises, SettleSilent,
                      NoticeCut, Notify
  <2> QED BY <1>6, <2>3, <2>4, <2>5, <2>6, <2>7, <2>8 DEF Runtime
<1>7. CASE Accepted \/ Quiesce \/ ReleaseQuiesce \/ BeginShutdown
           \/ CloseSupervisor \/ UNCHANGED vars
  BY <1>2, <1>7 DEF Accepted, Quiesce, ReleaseQuiesce, BeginShutdown,
                    CloseSupervisor, vars
<1> QED BY <1>4, <1>5, <1>6, <1>7 DEF Next

-----------------------------------------------------------------------------
\* Nothing is executing, scheduled or counted at first.
LEMMA InitLifecycle == Init => LifecycleInv
<1> SUFFICES ASSUME Init PROVE LifecycleInv
  OBVIOUS
<1>1. TypeOK
  <2>1. exec \in [Execs -> Task]
    BY Tasks DEF Init
  <2>2. 0 \in 0..MaxAuto /\ 0 \in 0..MaxOps
    BY LifecycleAssumption
  <2> QED BY <2>1, <2>2 DEF Init, TypeOK, Saved
<1>2. \A e \in Execs : exec[e].stage = "unused"
  BY Tasks DEF Init
<1>3. OneExecution /\ ExecutingIsRunning
  BY <1>2 DEF OneExecution, ExecutingIsRunning, Live
<1>4. QuiescedIsIdle /\ SchedulesCounted
  BY DEF Init, QuiescedIsIdle, SchedulesCounted
<1> QED BY <1>1, <1>3, <1>4 DEF LifecycleInv

\* The inductive invariant of the life cycle, for any number of Runs.
THEOREM LifecycleInvariant == Spec => []LifecycleInv
<1>1. LifecycleInv /\ [Next]_vars => LifecycleInv'
  BY TypeStep, OneExecutionStep, QuiescedStep, ExecutingStep, CountedStep
     DEF LifecycleInv
<1> QED BY InitLifecycle, <1>1, PTL DEF Spec

\* Type correctness of the life cycle's state.
THEOREM TypeCorrect == Spec => []TypeOK
<1>1. LifecycleInv => TypeOK
  BY DEF LifecycleInv
<1> QED BY <1>1, LifecycleInvariant, PTL

\* One Run has one execution at a time (DetachedRunTaskOwner.is_active), its
\* closing and its notice included.
THEOREM OneExecutionAtATime == Spec => []OneExecution
<1>1. LifecycleInv => OneExecution
  BY DEF LifecycleInv
<1> QED BY <1>1, LifecycleInvariant, PTL

\* Maintenance excludes every execution and every scheduled resume
\* (RuntimeFacade.quiesce and run_admission).
THEOREM MaintenanceIsIdle == Spec => []QuiescedIsIdle
<1>1. LifecycleInv => QuiescedIsIdle
  BY DEF LifecycleInv
<1> QED BY <1>1, LifecycleInvariant, PTL

\* RunSupervisor resumes a Run at most max_auto_resumes times in a row.
THEOREM AutoResumesAreBounded == Spec => []AutoResumesBounded
<1>1. LifecycleInv => AutoResumesBounded
  BY LifecycleAssumption
     DEF LifecycleInv, AutoResumesBounded, SchedulesCounted, TypeOK
<1> QED BY <1>1, LifecycleInvariant, PTL

-----------------------------------------------------------------------------
\* How a task moves: one step, towards its end, and alone.
LEMMA EnterMoves ==
  ASSUME TypeOK, NEW e \in Execs, NEW stage, Enter(e, stage)
  PROVE  /\ exec'[e].stage = stage /\ exec'[e].run = exec[e].run
         /\ exec'[e].cancel = exec[e].cancel
         /\ \A d \in Execs \ {e} : exec'[d] = exec[d]
BY DEF TypeOK, Task, Enter

LEMMA EndMoves ==
  ASSUME TypeOK, NEW e \in Execs, End(e)
  PROVE  /\ caller = e => /\ exec'[e].stage = "done" /\ exec'[e].run = exec[e].run
                          /\ exec'[e].cancel = exec[e].cancel
         /\ caller # e => exec'[e].stage = "unused"
         /\ \A d \in Execs \ {e} : exec'[d] = exec[d]
<1>1. CASE caller = e
  BY <1>1, EnterMoves DEF End
<1>2. CASE caller # e
  BY <1>2, Tasks DEF End, TypeOK
<1> QED BY <1>1, <1>2

LEMMA TaskMoves ==
  ASSUME TypeOK, NEW e \in Execs, Runtime(e) \/ Notify(e)
  PROVE  /\ Live(e) /\ caller' = caller
         /\ \A d \in Execs \ {e} : exec'[d] = exec[d]
         /\ StagesLeft(e)' < StagesLeft(e)
         /\ exec'[e].stage # "starting"
         /\ exec'[e].stage = "done" => caller = e
         /\ exec'[e].stage = "unused" => caller # e
<1> USE DEF Live, StagesLeft
<1>1. ASSUME exec[e].stage \in {"starting", "executing", "closing"},
             NEW stage, Enter(e, stage),
             \/ exec[e].stage = "starting" /\ stage \in {"executing", "closing"}
             \/ exec[e].stage = "executing" /\ stage = "closing"
             \/ exec[e].stage = "closing" /\ stage = "notifying"
      PROVE  /\ \A d \in Execs \ {e} : exec'[d] = exec[d]
             /\ StagesLeft(e)' < StagesLeft(e)
             /\ exec'[e].stage = stage
  BY <1>1, EnterMoves
<1>2. ASSUME Live(e), End(e)
      PROVE  /\ \A d \in Execs \ {e} : exec'[d] = exec[d]
             /\ StagesLeft(e)' < StagesLeft(e)
             /\ exec'[e].stage \in {"done", "unused"}
             /\ exec'[e].stage = "done" => caller = e
             /\ exec'[e].stage = "unused" => caller # e
  <2>1. exec[e].stage \in {"starting", "executing", "closing", "notifying"}
    BY <1>2 DEF TypeOK, Task, Stages
  <2>2. exec'[e].stage \in {"done", "unused"}
    BY <1>2, EndMoves
  <2> QED BY <1>2, <2>1, <2>2, EndMoves
<1>3. CASE FirstSave(e)
  BY <1>3 DEF FirstSave, TypeOK, Task
<1>4. CASE AlreadyCompleted(e)
  BY <1>1, <1>4 DEF AlreadyCompleted
<1>5. CASE Refused(e)
  BY <1>2, <1>5 DEF Refused
<1>6. CASE Raises(e)
  BY <1>1, <1>6 DEF Raises
<1>7. ASSUME NEW final \in Finals, Settles(e, final)
      PROVE  /\ Live(e) /\ caller' = caller
             /\ \A d \in Execs \ {e} : exec'[d] = exec[d]
             /\ StagesLeft(e)' < StagesLeft(e)
             /\ exec'[e].stage = "closing"
  BY <1>7 DEF Settles, TypeOK, Task
<1>8. CASE Cancelled(e)
  BY <1>1, <1>8 DEF Cancelled
<1>9. CASE SettleSchedules(e)
  BY <1>2, <1>9 DEF SettleSchedules
<1>10. CASE SettleSilent(e)
  BY <1>2, <1>10 DEF SettleSilent
<1>11. CASE SettleReports(e)
  BY <1>1, <1>11 DEF SettleReports
<1>12. CASE NoticeCut(e)
  BY <1>2, <1>12 DEF NoticeCut
<1>13. CASE Notify(e)
  BY <1>2, <1>13 DEF Notify
<1> QED BY <1>3, <1>4, <1>5, <1>6, <1>7, <1>8, <1>9, <1>10, <1>11, <1>12, <1>13
        DEF Runtime

\* What people and the supervisor do leaves the tasks alone, cancels some, or
\* begins one for a Run that has none, under the lock that they take.
LEMMA PersonMoves ==
  ASSUME NEW r \in Runs, Person(r) \/ AutoResume(r)
  PROVE  /\ Admits /\ UNCHANGED gate
         /\ \/ UNCHANGED <<exec, caller>>
            \/ RequestCancel(r)
            \/ Execute(r) /\ ~ IsActive(r)
<1>1. ASSUME Continues(r) \/ ContinuesNot(r)
      PROVE  UNCHANGED <<exec, caller>> \/ (Execute(r) /\ ~ IsActive(r))
  BY <1>1 DEF Continues, ContinuesNot, ExecuteAgain, Unexecuted
<1>2. CASE Start(r)
  BY <1>2 DEF Start
<1>3. CASE ProvideInput(r)
  BY <1>3 DEF ProvideInput, Unexecuted
<1>4. CASE Resume(r)
  BY <1>1, <1>4 DEF Resume
<1>5. CASE Rerun(r)
  BY <1>5 DEF Rerun, ExecuteAgain, Unexecuted
<1>6. CASE RequestCancel(r)
  BY <1>6 DEF RequestCancel
<1>7. CASE AutoResume(r)
  BY <1>1, <1>7 DEF AutoResume
<1> QED BY <1>2, <1>3, <1>4, <1>5, <1>6, <1>7 DEF Person

\* A task that begins is found where there was none.
LEMMA ExecuteMoves ==
  ASSUME TypeOK, NEW r \in Runs, Execute(r)
  PROVE  \E e \in Execs :
           /\ exec[e].stage = "unused" /\ caller' = e
           /\ exec'[e].stage = "starting" /\ exec'[e].run = r
           /\ ~ exec'[e].cancel /\ ~ exec'[e].persisted
           /\ \A d \in Execs \ {e} : exec'[d] = exec[d]
<1>1. PICK e \in Execs : /\ exec[e].stage = "unused"
                         /\ exec' = [exec EXCEPT ![e] = NewTask(r)]
                         /\ caller' = e
  BY Executes
<1>2. exec'[e] = NewTask(r) /\ \A d \in Execs \ {e} : exec'[d] = exec[d]
  BY <1>1 DEF TypeOK
<1> QED BY <1>1, <1>2 DEF NewTask

LEMMA CancelMoves ==
  ASSUME TypeOK, NEW r \in Runs, RequestCancel(r)
  PROVE  \A e \in Execs :
           /\ exec'[e].stage = exec[e].stage /\ exec'[e].run = exec[e].run
           /\ exec[e].run # r \/ ~ Live(e) => exec'[e] = exec[e]
BY DEF RequestCancel, TypeOK, Task

\* Whoever waits for a task has one, until it is accepted or done.
LEMMA CallersStep ==
  ASSUME TypeOK, CallersAreServed, [Next]_vars
  PROVE  CallersAreServed'
<1> USE LifecycleAssumption DEF CallersAreServed
<1>1. ASSUME UNCHANGED <<exec, caller>>
      PROVE  CallersAreServed'
  BY <1>1
<1>2. ASSUME NEW r \in Runs, Person(r) \/ AutoResume(r)
      PROVE  CallersAreServed'
  <2>1. caller = NoExec
    BY <1>2, PersonMoves DEF Admits, LockFree
  <2>2. \A d \in Execs : exec[d].stage \notin {"starting", "done"}
    BY <2>1
  <2>3. CASE RequestCancel(r)
    <3>1. caller' = caller
      BY <2>3 DEF RequestCancel
    <3> QED BY <2>1, <2>2, <2>3, <3>1, CancelMoves
  <2>4. CASE Execute(r)
    BY <2>2, <2>4, ExecuteMoves
  <2> QED BY <1>1, <1>2, <2>3, <2>4, PersonMoves
<1>3. ASSUME NEW e \in Execs, Runtime(e) \/ Notify(e)
      PROVE  CallersAreServed'
  <2>1. caller' = caller /\ \A d \in Execs \ {e} : exec'[d] = exec[d]
    BY <1>3, TaskMoves
  <2>2. /\ exec'[e].stage # "starting"
        /\ exec'[e].stage = "done" => caller = e
        /\ caller = e => exec'[e].stage # "unused"
    BY <1>3, TaskMoves
  <2>3. caller' # NoExec => exec'[caller'].stage # "unused"
    <3>1. CASE caller = e
      BY <2>1, <2>2, <3>1
    <3>2. CASE caller # e /\ caller # NoExec
      BY <2>1, <3>2 DEF TypeOK
    <3> QED BY <2>1, <3>1, <3>2
  <2>4. ASSUME NEW d \in Execs
        PROVE  /\ exec'[d].stage = "starting" =>
                    caller' = d /\ ~ exec'[d].cancel /\ ~ exec'[d].persisted
               /\ exec'[d].stage = "done" => caller' = d
    <3>1. CASE d = e
      BY <2>1, <2>2, <3>1
    <3>2. CASE d # e
      BY <2>1, <3>2
    <3> QED BY <3>1, <3>2
  <2> QED BY <2>3, <2>4
<1>4. CASE Accepted
  <2>1. caller' = NoExec /\ caller \in Execs /\ exec[caller].stage # "starting"
    BY <1>4 DEF Accepted
  <2>2. /\ exec[caller].stage = "done" => exec'[caller].stage = "unused"
        /\ exec[caller].stage # "done" => exec' = exec
        /\ \A d \in Execs \ {caller} : exec'[d] = exec[d]
    BY <1>4, Tasks DEF Accepted, TypeOK
  <2> QED BY <2>1, <2>2
<1>5. CASE Quiesce \/ ReleaseQuiesce \/ BeginShutdown \/ CloseSupervisor \/ UNCHANGED vars
  BY <1>1, <1>5 DEF Quiesce, ReleaseQuiesce, BeginShutdown, CloseSupervisor, vars
<1> QED BY <1>2, <1>3, <1>4, <1>5 DEF Next

-----------------------------------------------------------------------------
\* What a step does to one Run leaves what is owed of the others pursued.
LEMMA OthersPursued ==
  ASSUME TypeOK, OwedIsPursued, OwedTasksTell, NEW r \in Runs, open' => open,
         \A q \in Runs \ {r} : /\ q \in owed' => q \in owed
                               /\ saved'[q] = saved[q]
                               /\ q \in pending => q \in pending',
         \A d \in Execs : Live(d) /\ exec[d].run # r => exec'[d] = exec[d],
         \A d \in Execs : Live(d)' => exec'[d].run = r \/ exec'[d] = exec[d],
         r \in owed' =>
           /\ \A d \in Execs : Live(d)' /\ exec'[d].run = r => Tells(d, r)'
           /\ open' => \/ r \in pending' /\ saved'[r] = "retryable"
                       \/ saved'[r] \in Finals /\ \E d \in Execs : Tells(d, r)',
         owed' \subseteq Runs
  PROVE  OwedIsPursued' /\ OwedTasksTell'
<1>1. ASSUME NEW q \in owed', open', q # r
      PROVE  \/ q \in pending' /\ saved'[q] = "retryable"
             \/ saved'[q] \in Finals /\ \E d \in Execs : Tells(d, q)'
  <2>1. /\ q \in Runs /\ q \in owed /\ open
        /\ saved'[q] = saved[q]
        /\ q \in pending => q \in pending'
    BY <1>1
  <2>2. CASE \E d \in Execs : Tells(d, q)
    <3>1. PICK d \in Execs : Tells(d, q)
      BY <2>2
    <3>2. exec'[d] = exec[d]
      BY <1>1, <3>1 DEF Tells, Live
    <3>3. Tells(d, q)'
      BY <3>1, <3>2 DEF Tells
    <3> QED BY <2>1, <3>3 DEF OwedIsPursued, Finals
  <2> QED BY <2>1, <2>2 DEF OwedIsPursued
<1>2. ASSUME NEW d \in Execs, Live(d)', exec'[d].run \in owed', exec'[d].run # r
      PROVE  Tells(d, exec[d].run)'
  <2>1. exec'[d] = exec[d] /\ exec[d].run \in owed /\ Live(d)
    BY <1>2 DEF Live
  <2> QED BY <2>1 DEF OwedTasksTell, Tells
<1>3. OwedIsPursued'
  BY <1>1 DEF OwedIsPursued
<1>4. OwedTasksTell'
  BY <1>2 DEF OwedTasksTell, Tells
<1> QED BY <1>3, <1>4

LEMMA PersonPursues ==
  ASSUME TypeOK, CallersAreServed, OwedIsPursued, OwedTasksTell,
         NEW r \in Runs, Person(r) \/ AutoResume(r)
  PROVE  OwedIsPursued' /\ OwedTasksTell'
<1>1. /\ open' = open /\ open
      /\ UNCHANGED <<exec, caller>> \/ RequestCancel(r) \/ (Execute(r) /\ ~ IsActive(r))
  BY PersonMoves DEF Admits, gate
<1>2. /\ owed' \subseteq owed /\ \A q \in Runs \ {r} : q \in pending => q \in pending'
      /\ \A q \in Runs \ {r} : saved'[q] = saved[q]
  BY DEF Person, Start, ProvideInput, Resume, Rerun, RequestCancel, AutoResume, ByPerson, Reset,
         Continues, ContinuesNot, ExecuteAgain, supervision, TypeOK
\* The Run itself is pursued by its task, or its resume stays scheduled.
<1>3. ASSUME r \in owed', UNCHANGED exec, saved'[r] = saved[r],
             r \in pending => r \in pending' \/ IsActive(r) \/ saved[r] \in {"completed", "waiting"}
      PROVE  OwedIsPursued' /\ OwedTasksTell'
  <2>1. r \in owed
    BY <1>2, <1>3
  <2>2. \A d \in Execs : Live(d)' /\ exec'[d].run = r => Tells(d, r)'
    BY <1>3, <2>1 DEF OwedTasksTell, Tells, Live
  <2>3. \/ r \in pending' /\ saved'[r] = "retryable"
        \/ saved'[r] \in Finals /\ \E d \in Execs : Tells(d, r)'
    <3>1. CASE \E d \in Execs : Tells(d, r) /\ saved[r] \in Finals
      BY <1>3, <3>1 DEF Tells
    <3>2. CASE r \in pending /\ saved[r] = "retryable"
      <4>1. CASE IsActive(r)
        <5>1. PICK d \in Execs : Live(d) /\ exec[d].run = r
          BY <4>1 DEF IsActive
        <5>2. Tells(d, r)'
          BY <1>3, <2>2, <5>1 DEF Live
        <5> QED BY <1>3, <3>2, <5>2 DEF Finals
      <4>2. CASE ~ IsActive(r)
        BY <1>3, <3>2, <4>2
      <4> QED BY <4>1, <4>2
    <3> QED BY <1>1, <2>1, <3>1, <3>2 DEF OwedIsPursued
  <2>4. owed' \subseteq Runs
    BY <1>2 DEF TypeOK
  <2> QED BY <1>1, <1>2, <1>3, <2>2, <2>3, <2>4, OthersPursued DEF Live
<1>4. CASE r \notin owed'
  <2>1. owed' \subseteq Runs
    BY <1>2 DEF TypeOK
  <2>2. CASE UNCHANGED <<exec, caller>>
    BY <1>1, <1>2, <1>4, <2>1, <2>2, OthersPursued DEF Live
  <2>3. CASE RequestCancel(r)
    <3>1. \A d \in Execs : /\ Live(d) /\ exec[d].run # r => exec'[d] = exec[d]
                           /\ Live(d)' => exec'[d].run = r \/ exec'[d] = exec[d]
      BY <2>3, CancelMoves DEF Live
    <3> QED BY <1>1, <1>2, <1>4, <2>1, <3>1, OthersPursued
  <2>4. CASE Execute(r)
    <3>1. \A d \in Execs : /\ Live(d) /\ exec[d].run # r => exec'[d] = exec[d]
                           /\ Live(d)' => exec'[d].run = r \/ exec'[d] = exec[d]
      BY <2>4, ExecuteMoves DEF Live
    <3> QED BY <1>1, <1>2, <1>4, <2>1, <3>1, OthersPursued
  <2> QED BY <1>1, <2>2, <2>3, <2>4
<1>5. CASE Start(r)
  BY <1>4, <1>5 DEF Start, ByPerson
<1>6. CASE ProvideInput(r)
  BY <1>3, <1>4, <1>6 DEF ProvideInput, Unexecuted, ByPerson, supervision
<1>7. CASE Resume(r)
  BY <1>3, <1>4, <1>7 DEF Resume, ByPerson, ContinuesNot, Unexecuted
<1>8. CASE Rerun(r)
  BY <1>3, <1>4, <1>8 DEF Rerun, ByPerson, Unexecuted
<1>9. CASE RequestCancel(r)
  BY <1>4, <1>9 DEF RequestCancel
<1>10. CASE AutoResume(r)
  BY <1>3, <1>4, <1>10 DEF AutoResume, ContinuesNot, Unexecuted
<1> QED BY <1>5, <1>6, <1>7, <1>8, <1>9, <1>10 DEF Person

LEMMA TaskPursues ==
  ASSUME TypeOK, OneExecution, CallersAreServed, OwedIsPursued, OwedTasksTell,
         NEW e \in Execs, Runtime(e) \/ Notify(e)
  PROVE  OwedIsPursued' /\ OwedTasksTell'
<1>0. exec[e].run \in Runs
  BY DEF TypeOK, Task
<1> SUFFICES ASSUME NEW r \in Runs, exec[e].run = r
             PROVE  OwedIsPursued' /\ OwedTasksTell'
  BY <1>0
<1>1. Live(e) /\ \A d \in Execs \ {e} : exec'[d] = exec[d]
  BY TaskMoves
<1>2. \A d \in Execs \ {e} : Live(d) => exec[d].run # r
  BY <1>1 DEF OneExecution
<1>3. open' = open /\ pending \subseteq pending' /\ owed' \subseteq owed \cup {r}
        /\ \A q \in Runs \ {r} : saved'[q] = saved[q]
  BY <1>1 DEF Runtime, FirstSave, AlreadyCompleted, Refused, Raises, Settles, Cancelled,
         SettleSchedules, SettleSilent, SettleReports, NoticeCut, Notify, supervision, gate,
         history, TypeOK
<1>4. \A d \in Execs : Live(d) /\ exec[d].run # r => exec'[d] = exec[d]
  BY <1>1
<1>5. owed' \subseteq Runs
  BY <1>1, <1>3 DEF TypeOK
<1>6. ASSUME ~ Live(e)' \/ exec'[e].run = r,
             r \in owed' =>
               /\ Live(e)' => Tells(e, r)'
               /\ open' => \/ r \in pending' /\ saved'[r] = "retryable"
                           \/ saved'[r] \in Finals /\ Tells(e, r)'
      PROVE  OwedIsPursued' /\ OwedTasksTell'
  <2>1. \A d \in Execs : Live(d)' => exec'[d].run = r \/ exec'[d] = exec[d]
    BY <1>1, <1>6
  <2>2. \A d \in Execs : Live(d)' /\ exec'[d].run = r => d = e
    BY <1>1, <1>2 DEF Live
  <2>3. \A d \in Execs : Live(d)' /\ exec'[d].run = r => (r \in owed' => Tells(d, r)')
    BY <1>6, <2>2
  <2>4. \A q \in Runs \ {r} : /\ q \in owed' => q \in owed
                              /\ saved'[q] = saved[q]
                              /\ q \in pending => q \in pending'
    BY <1>3
  <2>5. r \in owed' =>
           /\ \A d \in Execs : Live(d)' /\ exec'[d].run = r => Tells(d, r)'
           /\ open' => \/ r \in pending' /\ saved'[r] = "retryable"
                       \/ saved'[r] \in Finals /\ \E d \in Execs : Tells(d, r)'
    BY <1>6, <2>3
  <2>6. open' => open
    BY <1>3
  <2> QED BY <1>1, <1>4, <1>5, <2>1, <2>4, <2>5, <2>6, OthersPursued
<1>7. r \in owed => exec[e].stage \in {"closing", "notifying"} /\ ~ exec[e].cancel
  BY <1>1 DEF OwedTasksTell, Tells
\* A task before its end owes nothing of its Run, and a step of it no more.
<1>8. ASSUME r \notin owed', ~ Live(e)' \/ exec'[e].run = r
      PROVE  OwedIsPursued' /\ OwedTasksTell'
  BY <1>6, <1>8
<1>9. ASSUME NEW stage, Enter(e, stage)
      PROVE  exec'[e].stage = stage /\ exec'[e].run = r /\ exec'[e].cancel = exec[e].cancel
  BY <1>9, EnterMoves
<1>10. ASSUME End(e)
       PROVE  ~ Live(e)'
  BY <1>10, EndMoves DEF Live
<1>11. CASE FirstSave(e)
  <2>1. r \notin owed' /\ exec'[e].run = r
    BY <1>7, <1>11 DEF FirstSave, history, TypeOK, Task
  <2> QED BY <1>8, <2>1
<1>12. CASE AlreadyCompleted(e) \/ Raises(e) \/ Cancelled(e)
  <2>1. r \notin owed' /\ exec'[e].run = r
    BY <1>7, <1>9, <1>12 DEF AlreadyCompleted, Raises, Cancelled, history
  <2> QED BY <1>8, <2>1
<1>13. CASE Refused(e) \/ NoticeCut(e)
  <2>1. r \notin owed' /\ ~ Live(e)'
    BY <1>7, <1>10, <1>13 DEF Refused, NoticeCut, history
  <2> QED BY <1>8, <2>1
<1>14. ASSUME NEW final \in Finals, Settles(e, final)
       PROVE  OwedIsPursued' /\ OwedTasksTell'
  <2>1. exec'[e].run = r /\ exec'[e].stage = "closing" /\ exec'[e].cancel = exec[e].cancel
    BY <1>14 DEF Settles, TypeOK, Task
  <2>2. ~ exec[e].cancel
    BY <1>14 DEF Settles, CallersAreServed
  <2>3. saved'[r] = final
    BY <1>1, <1>14 DEF Settles, TypeOK
  <2>4. Tells(e, r)'
    BY <2>1, <2>2 DEF Tells
  <2> QED BY <1>6, <2>1, <2>3, <2>4
<1>15. CASE SettleSchedules(e)
  <2>1. saved'[r] = "retryable" /\ r \in pending' /\ ~ Live(e)'
    BY <1>10, <1>15 DEF SettleSchedules, Schedules
  <2> QED BY <1>6, <2>1
<1>16. CASE SettleSilent(e)
  <2>1. ~ Live(e)' /\ owed' = owed /\ saved[r] \notin Finals
    BY <1>10, <1>16 DEF SettleSilent, history, Finals
  <2>2. ~ (r \in owed /\ open)
    BY <2>1 DEF OwedIsPursued, Finals
  <2> QED BY <1>3, <1>6, <2>1, <2>2
<1>17. CASE SettleReports(e)
  <2>1. /\ exec'[e].stage = "notifying" /\ exec'[e].run = r
        /\ exec'[e].cancel = exec[e].cancel
        /\ saved' = saved /\ saved[r] \in Finals /\ owed' = owed
    BY <1>9, <1>17 DEF SettleReports, Reports
  <2>2. r \in owed => Tells(e, r)'
    BY <1>7, <2>1 DEF Tells
  <2> QED BY <1>6, <2>1, <2>2
<1>18. CASE Notify(e)
  <2>1. ~ Live(e)' /\ (r \in owed' => ~ open')
    BY <1>3, <1>10, <1>18 DEF Notify
  <2> QED BY <1>6, <2>1
<1> QED BY <1>11, <1>12, <1>13, <1>14, <1>15, <1>16, <1>17, <1>18 DEF Runtime

LEMMA PursuitStep ==
  LifecycleInv /\ PursuitInv /\ [Next]_vars => PursuitInv'
<1> SUFFICES ASSUME LifecycleInv, PursuitInv, [Next]_vars
             PROVE  OwedIsPursued' /\ OwedTasksTell'
  BY CallersStep DEF LifecycleInv, PursuitInv
<1> USE DEF LifecycleInv, PursuitInv
<1>1. ASSUME NEW r \in Runs, Person(r) \/ AutoResume(r)
      PROVE  OwedIsPursued' /\ OwedTasksTell'
  BY <1>1, PersonPursues
<1>2. ASSUME NEW e \in Execs, Runtime(e) \/ Notify(e)
      PROVE  OwedIsPursued' /\ OwedTasksTell'
  BY <1>2, TaskPursues
<1>3. ASSUME UNCHANGED <<saved, exec, owed>>, open' => open /\ pending' = pending
      PROVE  OwedIsPursued' /\ OwedTasksTell'
  BY <1>3 DEF OwedIsPursued, OwedTasksTell, Tells, Live
<1>4. CASE Accepted
  <2>1. /\ \A d \in Execs : exec'[d] = exec[d] \/ (~ Live(d) /\ exec'[d].stage = "unused")
        /\ UNCHANGED <<saved, owed, pending, open>>
    BY <1>4, Tasks DEF Accepted, TypeOK, Live, supervision, gate, history
  <2> QED BY <2>1 DEF OwedIsPursued, OwedTasksTell, Tells, Live
<1>5. CASE Quiesce \/ ReleaseQuiesce \/ BeginShutdown \/ CloseSupervisor \/ UNCHANGED vars
  BY <1>3, <1>5 DEF Quiesce, ReleaseQuiesce, BeginShutdown, CloseSupervisor, vars, supervision,
                    gate, history
<1> QED BY <1>1, <1>2, <1>4, <1>5 DEF Next

LEMMA AlwaysPursued == Spec => []PursuitInv
<1>1. Init => PursuitInv
  BY Tasks DEF Init, PursuitInv, CallersAreServed, OwedIsPursued, OwedTasksTell
<1> QED BY <1>1, PursuitStep, LifecycleInvariant, PTL DEF Spec

\* A caller that holds the mutation lock waits for a task that there is; what
\* has not saved anything yet can be neither cancelled nor forgotten
\* (accept_after_persisted_state).
THEOREM NoCallerIsForgotten == Spec => []CallersAreServed
<1>1. PursuitInv => CallersAreServed
  BY DEF PursuitInv
<1> QED BY <1>1, AlwaysPursued, PTL

\* While Main was not told of a final status somebody is about to: a task that
\* was not cancelled, or a resume that is scheduled (_on_settled).
THEOREM NoStopIsForgotten == Spec => []OwedIsPursued
<1>1. PursuitInv => OwedIsPursued
  BY DEF PursuitInv
<1> QED BY <1>1, AlwaysPursued, PTL

\* A task has at most four steps to make, whoever cancels it or looks at it
\* meanwhile, and the lock is held by one caller until it has its answer.
THEOREM TasksComeToAnEnd == Spec => TasksAdvance
<1> DEFINE Forward ==
             /\ \A e \in Execs : Runtime(e) \/ Notify(e) =>
                  /\ StagesLeft(e)' < StagesLeft(e)
                  /\ \A d \in Execs \ {e} : exec'[d] = exec[d]
             /\ \A e \in Execs : Live(e) => StagesLeft(e)' <= StagesLeft(e)
             /\ ~ LockFree => caller' = caller \/ (caller' = NoExec /\ Accepted)
<1>1. ASSUME LifecycleInv, Next
      PROVE  Forward
  <2>1. TypeOK /\ \A e \in Execs : StagesLeft(e) \in Nat
    BY <1>1 DEF LifecycleInv, TypeOK, Task, Stages, StagesLeft
  <2>2. ASSUME NEW e \in Execs, Runtime(e) \/ Notify(e)
        PROVE  /\ StagesLeft(e)' < StagesLeft(e) /\ caller' = caller
               /\ \A d \in Execs \ {e} : exec'[d] = exec[d]
    BY <2>1, <2>2, TaskMoves
  <2>3. ASSUME NEW d \in Execs, Live(d)
        PROVE  StagesLeft(d)' <= StagesLeft(d)
    <3>1. CASE exec'[d].stage = exec[d].stage
      BY <2>1, <3>1 DEF StagesLeft
    <3>2. ASSUME NEW e \in Execs, Runtime(e) \/ Notify(e)
          PROVE  StagesLeft(d)' <= StagesLeft(d)
      <4>1. CASE d = e
        <5>1. exec'[d] \in Task
          BY <1>1, TypeStep DEF LifecycleInv, TypeOK
        <5>2. StagesLeft(d)' \in Nat
          BY <5>1 DEF Task, Stages, StagesLeft
        <5>3. StagesLeft(d)' < StagesLeft(d) /\ StagesLeft(d) \in Nat
          BY <2>1, <2>2, <3>2, <4>1
        <5> QED BY <5>2, <5>3
      <4>2. CASE d # e
        BY <2>2, <3>1, <3>2, <4>2
      <4> QED BY <4>1, <4>2
    <3>3. ASSUME NEW r \in Runs, Person(r) \/ AutoResume(r)
          PROVE  exec'[d].stage = exec[d].stage
      BY <2>1, <2>3, <3>3, PersonMoves, CancelMoves, ExecuteMoves DEF Live
    <3>4. ASSUME Accepted
          PROVE  exec'[d].stage = exec[d].stage
      BY <2>1, <2>3, <3>4, Tasks DEF Accepted, TypeOK, Live
    <3>5. ASSUME Quiesce \/ ReleaseQuiesce \/ BeginShutdown \/ CloseSupervisor
          PROVE  exec'[d].stage = exec[d].stage
      BY <3>5 DEF Quiesce, ReleaseQuiesce, BeginShutdown, CloseSupervisor
    <3> QED BY <1>1, <3>1, <3>2, <3>3, <3>4, <3>5 DEF Next
  <2>4. ~ LockFree => caller' = caller \/ (caller' = NoExec /\ Accepted)
    <3>1. ASSUME NEW r \in Runs, Person(r) \/ AutoResume(r)
          PROVE  LockFree
      BY <3>1, PersonMoves DEF Admits
    <3>2. CASE Quiesce \/ ReleaseQuiesce \/ BeginShutdown \/ CloseSupervisor
      BY <3>2 DEF Quiesce, ReleaseQuiesce, BeginShutdown, CloseSupervisor
    <3>3. CASE Accepted
      BY <3>3 DEF Accepted
    <3> QED BY <1>1, <2>2, <3>1, <3>2, <3>3 DEF Next
  <2> QED BY <2>2, <2>3, <2>4
<1>2. LifecycleInv /\ [Next]_vars => [Forward]_vars
  BY <1>1
<1> QED BY <1>2, LifecycleInvariant, PTL DEF Spec, TasksAdvance
=============================================================================
