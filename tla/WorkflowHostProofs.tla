------------------------- MODULE WorkflowHostProofs -------------------------
(***************************************************************************)
(* Proofs about WorkflowHost: its inductive invariant for every compiled   *)
(* plan, and that the saved status implements RunStatus.                   *)
(***************************************************************************)
EXTENDS WorkflowHost, TLAPS

-----------------------------------------------------------------------------
\* The kernel's operators keep a state a state.

\* A position is a number, so it may stand in next.
LEMMA PositionNat ==
  ASSUME NEW p \in Positions
  PROVE  p \in Nat /\ p + 1 \in Nat
BY PlanIsCompiled DEF PlanAssumption, Positions

LEMMA ReachType ==
  ASSUME NEW s \in WorkflowState, NEW p \in Positions
  PROVE  Reach(s, p) \in WorkflowState
<1>1. [s.actions EXCEPT ![p] = "running"] \in [Positions -> ActionStatus]
  BY DEF WorkflowState, ActionStatus
<1>2. QED
  BY <1>1, PositionNat DEF Reach, WorkflowState

LEMMA ExceededType ==
  ASSUME NEW s \in WorkflowState, NEW p \in Positions
  PROVE  ControlExceeded(s, p) \in WorkflowState
<1>1. Reach(s, p) \in WorkflowState
  BY ReachType
<1>2. [Reach(s, p).actions EXCEPT ![p] = "failed"] \in [Positions -> ActionStatus]
  BY <1>1 DEF WorkflowState, ActionStatus
<1>3. Reach(s, p).steps + 1 \in Nat
  BY <1>1 DEF WorkflowState
<1>4. "failed" \in WorkflowStatus
  BY DEF WorkflowStatus
<1>5. QED
  BY <1>1, <1>2, <1>3, <1>4 DEF ControlExceeded, WorkflowState

LEMMA SucceedType ==
  ASSUME NEW s \in WorkflowState, NEW p \in Positions,
         Plan[p].kind \in {"task", "input"}, NEW v \in Held
  PROVE  Succeed(s, p, v) \in WorkflowState
<1>1. [s.actions EXCEPT ![p] = "completed"] \in [Positions -> ActionStatus]
  BY DEF WorkflowState, ActionStatus
<1>2. Plan[p].out \in Vars
  BY PlanIsCompiled DEF PlanAssumption
<1>3. [s.vars EXCEPT ![Plan[p].out] = v] \in [Vars -> Held]
  BY <1>2 DEF WorkflowState
<1>4. p + 1 \in Nat
  BY PositionNat
<1>5. "running" \in WorkflowStatus
  BY DEF WorkflowStatus
<1>6. QED
  BY <1>1, <1>3, <1>4, <1>5 DEF Succeed, WorkflowState

LEMMA SucceedInputType ==
  ASSUME NEW s \in WorkflowState, NEW p \in Positions, Plan[p].kind = "input"
  PROVE  SucceedInput(s, p) \in WorkflowState
<1>1. s.vars[Plan[p].out] \in Held
  BY PlanIsCompiled DEF PlanAssumption, WorkflowState
<1>2. Succeed(s, p, s.vars[Plan[p].out]) \in WorkflowState
  BY <1>1, SucceedType
<1>3. QED
  BY <1>2 DEF SucceedInput, WorkflowState

LEMMA WaitType ==
  ASSUME NEW s \in WorkflowState, NEW p \in Positions
  PROVE  Wait(s, p) \in WorkflowState
<1>1. [s.actions EXCEPT ![p] = "waiting"] \in [Positions -> ActionStatus]
  BY DEF WorkflowState, ActionStatus
<1>2. "waiting" \in WorkflowStatus
  BY DEF WorkflowStatus
<1>3. QED
  BY <1>1, <1>2 DEF Wait, WorkflowState

LEMMA CompleteType ==
  ASSUME NEW s \in WorkflowState, NEW p \in Positions
  PROVE  Complete(s, p) \in WorkflowState
<1>1. [s.actions EXCEPT ![p] = "completed"] \in [Positions -> ActionStatus]
  BY DEF WorkflowState, ActionStatus
<1>2. p + 1 \in Nat
  BY PositionNat
<1>3. "completed" \in WorkflowStatus
  BY DEF WorkflowStatus
<1>4. QED
  BY <1>1, <1>2, <1>3 DEF Complete, WorkflowState

LEMMA FailType ==
  ASSUME NEW s \in WorkflowState, NEW p \in Positions
  PROVE  Fail(s, p) \in WorkflowState
<1>1. [s.actions EXCEPT ![p] = "failed"] \in [Positions -> ActionStatus]
  BY DEF WorkflowState, ActionStatus
<1>2. "failed" \in WorkflowStatus
  BY DEF WorkflowStatus
<1>3. QED
  BY <1>1, <1>2 DEF Fail, WorkflowState

LEMMA ResumeInputType ==
  ASSUME NEW s \in WorkflowState, s.waiting \in Positions,
         Plan[s.waiting].kind = "input", NEW v \in Values
  PROVE  ResumeWaitingInput(s, v) \in WorkflowState
<1> DEFINE p == s.waiting
<1>1. [s.actions EXCEPT ![p] = "pending"] \in [Positions -> ActionStatus]
  BY DEF WorkflowState, ActionStatus
<1>2. Plan[p].out \in Vars
  BY PlanIsCompiled DEF PlanAssumption
<1>3. [s.vars EXCEPT ![Plan[p].out] = v] \in [Vars -> Held]
  BY <1>2 DEF WorkflowState, Held
<1>4. p \in Nat
  BY PositionNat
<1>5. "running" \in WorkflowStatus
  BY DEF WorkflowStatus
<1>6. QED
  BY <1>1, <1>3, <1>4, <1>5 DEF ResumeWaitingInput, WorkflowState

LEMMA StartType ==
  ASSUME NEW s \in WorkflowState
  PROVE  StartWorkflow(s) \in WorkflowState
<1>1. "running" \in WorkflowStatus
  BY DEF WorkflowStatus
<1>2. QED
  BY <1>1 DEF StartWorkflow, WorkflowState

LEMMA ForPlanType == ForPlan(InitialVars) \in WorkflowState
<1>1. 1 \in Positions
  BY PlanIsCompiled DEF PlanAssumption, Positions
<1>2. NoFrame \in Frames
  BY PlanIsCompiled DEF PlanAssumption, NoFrame, Frames, Values
<1>3. QED
  BY <1>1, <1>2, HostAssumption
     DEF ForPlan, WorkflowState, WorkflowStatus, ActionStatus

\* A state whose cursor is on an action that is not completed is scheduled
\* from that very action.
LEMMA FirstOpenHere ==
  ASSUME NEW s \in WorkflowState, s.next \in Positions,
         s.actions[s.next] # "completed"
  PROVE  FirstOpen(s, s.next) = s.next
<1> DEFINE Open(i) == /\ i = Len(Plan) + 1 \/ s.actions[i] # "completed"
                      /\ \A j \in s.next .. i - 1 : s.actions[j] = "completed"
<1>1. s.next \in s.next .. Len(Plan) + 1 /\ Open(s.next)
  BY PlanIsCompiled DEF PlanAssumption, Positions
<1>2. ASSUME NEW i \in s.next .. Len(Plan) + 1, Open(i)
      PROVE  i = s.next
  BY <1>2, PlanIsCompiled DEF PlanAssumption, Positions
<1>3. QED
  BY <1>1, <1>2 DEF FirstOpen

\* One control step leaves a state with the action completed, its own status
\* and every other action as they were, and a position of the plan.
LEMMA ControlStepType ==
  ASSUME NEW s \in WorkflowState, NEW p \in Positions,
         Plan[p].kind \in ControlKinds, NEW step \in ControlStep(s, p)
  PROVE  /\ step[1] \in WorkflowState
         /\ step[2] \in Positions
         /\ step[1].status = s.status
         /\ step[1].actions = [s.actions EXCEPT ![p] = "completed"]
<1> DEFINE counted == [Reach(s, p) EXCEPT !.steps = @ + 1,
                                          !.actions[p] = "completed"]
<1>1. /\ counted \in WorkflowState
      /\ counted.status = s.status
      /\ counted.actions = [s.actions EXCEPT ![p] = "completed"]
      /\ counted.frames = s.frames /\ counted.vars = s.vars
  <2>1. Reach(s, p) \in WorkflowState
    BY ReachType
  <2>2. Reach(s, p).steps + 1 \in Nat
    BY <2>1 DEF WorkflowState
  <2>3. [Reach(s, p).actions EXCEPT ![p] = "completed"] \in [Positions -> ActionStatus]
    BY <2>1 DEF WorkflowState, ActionStatus
  <2>4. counted \in WorkflowState
    BY <2>1, <2>2, <2>3 DEF WorkflowState
  <2>5. Reach(s, p).actions = [s.actions EXCEPT ![p] = "running"]
    BY DEF Reach, WorkflowState
  <2>6. [Reach(s, p).actions EXCEPT ![p] = "completed"]
          = [s.actions EXCEPT ![p] = "completed"]
    BY <2>5 DEF WorkflowState
  <2>7. counted.actions = [Reach(s, p).actions EXCEPT ![p] = "completed"]
    BY <2>1 DEF WorkflowState
  <2>8. /\ counted.status = s.status
        /\ counted.frames = s.frames /\ counted.vars = s.vars
    BY DEF Reach, WorkflowState
  <2>9. QED
    BY <2>4, <2>6, <2>7, <2>8
<1>2. CASE Plan[p].kind = "for_each"
  <2> DEFINE f == ForEachFrame(s, p)
  <2>1. /\ Plan[p].items \in Vars /\ Plan[p].item \in Vars
        /\ Plan[p].body \in Positions /\ Plan[p].after \in Positions
    BY <1>2, PlanIsCompiled DEF PlanAssumption
  <2>2. NoFrame \in Frames
    BY PlanIsCompiled DEF PlanAssumption, NoFrame, Frames, Values
  <2>3. f \in Frames
    <3>1. s.frames[p] \in Frames /\ s.vars[Plan[p].items] \in Held
      BY <2>1 DEF WorkflowState
    <3>2. CASE ForEachOpens(s, p)
      BY <3>1, <3>2, PlanIsCompiled
         DEF PlanAssumption, ForEachFrame, ForEachOpens, Frames, Values, Held,
             Unset, NotAList
    <3>3. CASE ~ ForEachOpens(s, p) /\ (ForEachEnds(s, p) \/ ForEachPasses(s, p))
      BY <3>3, <2>2 DEF ForEachFrame
    <3>4. CASE ~ (ForEachOpens(s, p) \/ ForEachEnds(s, p) \/ ForEachPasses(s, p))
      <4>1. f = [s.frames[p] EXCEPT !.index = @ + 1]
        BY <3>4 DEF ForEachFrame
      <4>2. s.frames[p].index + 1 < s.frames[p].items
        BY <3>1, <3>4 DEF ForEachEnds, ForEachPasses, Frames, Values
      <4>3. QED
        BY <4>1, <4>2, <3>1, PlanIsCompiled
           DEF PlanAssumption, Frames, Values
    <3>5. QED
      BY <3>2, <3>3, <3>4
  <2>4. ForEachVars(s, p) \in [Vars -> Held]
    BY <2>1, <2>3 DEF ForEachVars, WorkflowState, Frames, Held
  <2>5. ForEachTarget(s, p) \in Positions
    BY <2>1 DEF ForEachTarget
  <2>6. step = << [counted EXCEPT !.frames[p] = f, !.vars = ForEachVars(s, p)],
                  ForEachTarget(s, p) >>
    BY <1>2 DEF ControlStep
  <2>7. QED
    BY <1>1, <2>3, <2>4, <2>5, <2>6 DEF WorkflowState
<1>3. CASE Plan[p].kind \in BranchKinds
  <2>1. /\ Plan[p].default \in Positions
        /\ \A b \in DOMAIN Plan[p].branches :
             Plan[p].branches[b].target \in Positions
    BY <1>3, PlanIsCompiled DEF PlanAssumption
  <2>2. BranchTargets(s, p) \subseteq Positions
    BY <2>1 DEF BranchTargets
  <2>3. PICK t \in BranchTargets(s, p) : step = <<counted, t>>
    BY <1>3 DEF ControlStep, BranchKinds
  <2>4. step[1] = counted /\ step[2] = t
    BY <2>3
  <2> HIDE DEF counted
  <2>5. QED
    BY <1>1, <2>2, <2>4
<1>4. QED
  BY <1>2, <1>3 DEF ControlKinds

-----------------------------------------------------------------------------
\* The invariant is kept by every way an execution begins.
LEMMA BeginKeeps ==
  ASSUME HostInv, pc = "idle", NEW s \in WorkflowState, NEW r \in BOOLEAN,
         Begin(s, r),
         s.next \in Positions, s.actions[s.next] # "completed",
         \A p \in Positions \ {s.next} : s.actions[p] \in {"pending", "completed"},
         s.status # "completed", OnlyRanCompleted(s),
         disk # NoState => disk.status # "completed",
         disk # NoState /\ disk.status = "waiting" => Plan[s.next].kind = "input"
  PROVE  HostInv'
<1>1. /\ mem' = StartWorkflow(s) /\ index' = s.next /\ pc' = "scheduling"
      /\ unsaved' = NoState /\ wrote' = FALSE /\ sparing' = r /\ cancel' = FALSE
      /\ disk' = disk /\ ran' = ran /\ entries' = entries + 1
  BY FirstOpenHere DEF Begin
<1>2. mem' \in WorkflowState
  BY <1>1, StartType
<1>3. mem'.status = "running" /\ mem'.actions = s.actions
  BY <1>1 DEF StartWorkflow, WorkflowState
<1>4. TypeOK'
  <2>1. /\ disk' \in WorkflowState \cup {NoState} /\ unsaved' = NoState
        /\ ran' \in SUBSET Positions /\ entries' \in Nat
    BY <1>1 DEF HostInv, TypeOK
  <2>2. QED
    BY <1>1, <1>2, <2>1 DEF TypeOK
<1>5. IntentSaved' /\ HeldBackIsCurrent' /\ SavedStatesSound'
  BY <1>1 DEF HostInv, IntentSaved, HeldBackIsCurrent, SavedStatesSound, SoundState, Resumable,
              OnlyRanCompleted, Answerable
<1>6. OnlyRanCompleted(mem)'
  BY <1>1, <1>3 DEF OnlyRanCompleted
<1>7. ExecutionSound'
  BY <1>1, <1>3, <1>6 DEF ExecutionSound
<1>8. ReopensOnly'
  BY <1>1 DEF ReopensOnly
<1>9. QED
  BY <1>4, <1>5, <1>7, <1>8 DEF HostInv

\* A state an execution may save is sound.
LEMMA RunningSound ==
  ASSUME NEW s \in WorkflowState, NEW p \in Positions, s.next = p,
         s.status \in {"running", "failed"}, s.actions[p] # "completed",
         \A q \in Positions \ {p} : s.actions[q] \in {"pending", "completed"},
         OnlyRanCompleted(s)
  PROVE  SoundState(s)
BY DEF SoundState, Resumable, Answerable

LEMMA StartKeeps == HostInv /\ Start => HostInv'
<1> SUFFICES ASSUME HostInv, Start PROVE HostInv'
  OBVIOUS
<1> DEFINE s == ForPlan(InitialVars)
<1>1. PICK r \in BOOLEAN : Begin(s, r)
  BY DEF Start
<1>2. /\ s.next = 1 /\ s.status = "pending"
      /\ s.actions = [p \in Positions |-> "pending"]
  BY DEF ForPlan
<1>3. 1 \in Positions
  BY PlanIsCompiled DEF PlanAssumption, Positions
<1>4. s \in WorkflowState
  BY ForPlanType
<1> HIDE DEF s
<1>5. OnlyRanCompleted(s)
  BY <1>2 DEF OnlyRanCompleted
<1>6. QED
  BY <1>1, <1>2, <1>3, <1>4, <1>5, BeginKeeps DEF Start

LEMMA ResumeKeeps == HostInv /\ Resume => HostInv'
<1> SUFFICES ASSUME HostInv, Resume PROVE HostInv'
  OBVIOUS
<1>1. /\ disk \in WorkflowState /\ disk # NoState /\ pc = "idle"
      /\ Begin(disk, FALSE) /\ disk.status # "completed"
      /\ SoundState(disk)
  BY DEF Resume, HostInv, TypeOK, SavedStatesSound
<1>2. /\ disk.next \in Positions /\ disk.actions[disk.next] # "completed"
      /\ \A p \in Positions \ {disk.next} :
           disk.actions[p] \in {"pending", "completed"}
      /\ OnlyRanCompleted(disk)
      /\ disk.status = "waiting" => Plan[disk.next].kind = "input"
  BY <1>1 DEF SoundState, Resumable, Answerable
<1>3. QED
  BY <1>1, <1>2, BeginKeeps

LEMMA ProvideInputKeeps == HostInv /\ ProvideInput => HostInv'
<1> SUFFICES ASSUME HostInv, ProvideInput PROVE HostInv'
  OBVIOUS
<1>1. /\ disk \in WorkflowState /\ disk # NoState /\ pc = "idle"
      /\ disk.status = "waiting" /\ SoundState(disk)
  BY DEF ProvideInput, HostInv, TypeOK, SavedStatesSound
<1>2. PICK v \in Values : Begin(ResumeWaitingInput(disk, v), FALSE)
  BY DEF ProvideInput
<1> DEFINE s == ResumeWaitingInput(disk, v)
           p == disk.waiting
<1>3. /\ p = disk.next /\ p \in Positions /\ Plan[p].kind = "input"
      /\ \A q \in Positions \ {p} : disk.actions[q] \in {"pending", "completed"}
      /\ OnlyRanCompleted(disk)
  BY <1>1 DEF SoundState, Resumable, Answerable
<1>4. s \in WorkflowState
  BY <1>1, <1>3, ResumeInputType
<1>5. /\ s.next = p /\ s.status = "running"
      /\ s.actions = [disk.actions EXCEPT ![p] = "pending"]
  BY <1>1 DEF ResumeWaitingInput, WorkflowState
<1> HIDE DEF s
<1>6. /\ s.actions[p] = "pending"
      /\ \A q \in Positions \ {p} : s.actions[q] = disk.actions[q]
  BY <1>1, <1>3, <1>5 DEF WorkflowState
<1>7. OnlyRanCompleted(s)
  BY <1>3, <1>5, <1>6 DEF OnlyRanCompleted
<1>8. QED
  BY <1>1, <1>2, <1>3, <1>4, <1>5, <1>6, <1>7, BeginKeeps DEF s

-----------------------------------------------------------------------------
\* ... by the kernel's steps ...
LEMMA PassControlKeeps == HostInv /\ PassControl => HostInv'
<1> SUFFICES ASSUME HostInv, PassControl PROVE HostInv'
  OBVIOUS
<1>1. /\ pc = "scheduling" /\ index \in Positions
      /\ Plan[index].kind \in ControlKinds /\ mem \in WorkflowState
      /\ UNCHANGED <<disk, unsaved, wrote, sparing, pc, cancel, ran, entries>>
  BY DEF PassControl, HostInv, TypeOK
<1>2. PICK step \in ControlStep(mem, index) :
        mem' = step[1] /\ index' = step[2]
  BY DEF PassControl
<1>3. /\ mem' \in WorkflowState /\ index' \in Positions
      /\ mem'.status = mem.status
      /\ mem'.actions = [mem.actions EXCEPT ![index] = "completed"]
  BY <1>1, <1>2, ControlStepType
<1>4. TypeOK'
  BY <1>1, <1>3 DEF HostInv, TypeOK
<1>5. IntentSaved' /\ HeldBackIsCurrent' /\ SavedStatesSound'
  BY <1>1 DEF HostInv, IntentSaved, HeldBackIsCurrent, SavedStatesSound, SoundState, Resumable,
              OnlyRanCompleted, Answerable
<1>6. ExecutionSound'
  <2>1. /\ mem.status = "running" /\ OnlyRanCompleted(mem)
        /\ \A p \in Positions \ {index} :
             mem.actions[p] \in {"pending", "completed"}
    BY <1>1 DEF HostInv, ExecutionSound
  <2>2. Plan[index].kind \notin ExecutorKinds
    BY <1>1 DEF ControlKinds, BranchKinds, ExecutorKinds
  <2>3. \A p \in Positions : mem'.actions[p]
          = IF p = index THEN "completed" ELSE mem.actions[p]
    BY <1>1, <1>3 DEF WorkflowState
  <2>4. OnlyRanCompleted(mem)'
    BY <1>1, <1>3, <2>1, <2>2, <2>3 DEF OnlyRanCompleted
  <2>5. QED
    BY <1>1, <1>3, <2>1, <2>3, <2>4 DEF ExecutionSound
<1>7. ReopensOnly'
  BY <1>1 DEF HostInv, ReopensOnly, ControlKinds, BranchKinds
<1>8. QED
  BY <1>4, <1>5, <1>6, <1>7 DEF HostInv

\* Leaving with the state just written, when that state is sound.
LEMMA LeaveKeeps ==
  ASSUME HostInv, mem' \in WorkflowState, SoundState(mem)', disk' = mem',
         unsaved' = NoState, wrote' \in BOOLEAN, pc' = "idle", cancel' = FALSE,
         sparing' = sparing, index' = index, ran' \in SUBSET Positions,
         entries' = entries
  PROVE  HostInv'
<1>1. TypeOK'
  BY DEF HostInv, TypeOK
<1>2. SavedStatesSound'
  BY DEF SavedStatesSound, SoundState, Resumable, OnlyRanCompleted, Answerable
<1>3. QED
  BY <1>1, <1>2 DEF HostInv, IntentSaved, HeldBackIsCurrent, ExecutionSound, ReopensOnly

LEMMA ExceedIterationsKeeps == HostInv /\ ExceedIterations => HostInv'
<1> SUFFICES ASSUME HostInv, ExceedIterations PROVE HostInv'
  OBVIOUS
<1>1. /\ index \in Positions /\ Plan[index].kind \in ControlKinds
      /\ mem \in WorkflowState /\ pc = "scheduling"
      /\ mem' = ControlExceeded(mem, index)
      /\ disk' = mem' /\ unsaved' = NoState /\ wrote' = TRUE
      /\ pc' = "idle" /\ cancel' = FALSE
      /\ sparing' = sparing /\ index' = index /\ ran' = ran
      /\ entries' = entries
  BY DEF ExceedIterations, Write, Leave, HostInv, TypeOK
<1>2. mem' \in WorkflowState
  BY <1>1, ExceededType
<1>3. /\ mem'.status = "failed" /\ mem'.next = index
      /\ mem'.actions = [[mem.actions EXCEPT ![index] = "running"]
                           EXCEPT ![index] = "failed"]
  BY <1>1 DEF ControlExceeded, Reach, WorkflowState
<1>4. \A p \in Positions : mem'.actions[p]
        = IF p = index THEN "failed" ELSE mem.actions[p]
  BY <1>1, <1>3 DEF WorkflowState
<1>5. SoundState(mem)'
  BY <1>1, <1>2, <1>3, <1>4
     DEF HostInv, ExecutionSound, OnlyRanCompleted, SoundState, Resumable,
         Answerable
<1>6. QED
  BY <1>1, <1>2, <1>5, LeaveKeeps DEF HostInv, TypeOK

LEMMA RequestEffectKeeps == HostInv /\ RequestEffect => HostInv'
<1> SUFFICES ASSUME HostInv, RequestEffect PROVE HostInv'
  OBVIOUS
<1>1. /\ pc = "scheduling" /\ index \in Positions
      /\ Plan[index].kind \in ExecutorKinds /\ mem \in WorkflowState
      /\ mem' = Reach(mem, index) /\ pc' = "executing"
      /\ sparing' = sparing /\ index' = index /\ cancel' = cancel
      /\ ran' = ran /\ entries' = entries
  BY DEF RequestEffect, HostInv, TypeOK
<1>2. mem' \in WorkflowState
  BY <1>1, ReachType
<1>3. /\ mem'.status = "running" /\ mem'.next = index
      /\ mem'.actions = [mem.actions EXCEPT ![index] = "running"]
  BY <1>1 DEF Reach, WorkflowState, HostInv, ExecutionSound
<1>4. \A p \in Positions : mem'.actions[p]
        = IF p = index THEN "running" ELSE mem.actions[p]
  BY <1>1, <1>3 DEF WorkflowState
<1>5. SoundState(mem)' /\ OnlyRanCompleted(mem)'
  BY <1>1, <1>2, <1>3, <1>4
     DEF HostInv, ExecutionSound, OnlyRanCompleted, SoundState, Resumable,
         Answerable
<1>6. ExecutionSound'
  BY <1>1, <1>3, <1>4, <1>5 DEF HostInv, ExecutionSound
<1>7. CASE Write(mem')
  <2>1. disk' = mem' /\ unsaved' = NoState /\ wrote' = TRUE
    BY <1>7 DEF Write
  <2>2. TypeOK'
    BY <1>1, <1>2, <2>1 DEF HostInv, TypeOK
  <2>3. SavedStatesSound'
    BY <1>5, <2>1 DEF SavedStatesSound, SoundState, Resumable,
                      OnlyRanCompleted, Answerable
  <2>4. disk' # NoState
    BY <1>2, <2>1, HostAssumption
  <2>5. IntentSaved' /\ HeldBackIsCurrent' /\ ReopensOnly'
    BY <1>3, <2>1, <2>4 DEF IntentSaved, HeldBackIsCurrent, ReopensOnly
  <2>6. QED
    BY <1>6, <2>2, <2>3, <2>5 DEF HostInv
<1>8. CASE Hold(mem')
  <2>1. /\ wrote /\ unsaved' = mem' /\ disk' = disk /\ wrote' = wrote
    BY <1>8 DEF Hold
  <2>2. TypeOK'
    BY <1>1, <1>2, <2>1 DEF HostInv, TypeOK
  <2>3. SavedStatesSound'
    BY <1>1, <1>3, <1>5, <2>1
       DEF HostInv, SavedStatesSound, SoundState, Resumable,
           OnlyRanCompleted, Answerable
  <2>4. IntentSaved' /\ HeldBackIsCurrent' /\ ReopensOnly'
    BY <1>1, <2>1 DEF HostInv, IntentSaved, HeldBackIsCurrent, ReopensOnly
  <2>5. QED
    BY <1>6, <2>2, <2>3, <2>4 DEF HostInv
<1>9. QED
  BY <1>7, <1>8 DEF RequestEffect, Save

-----------------------------------------------------------------------------
\* ... by the executors' outcomes ...

\* An executor action that finished leaves a running state whose other
\* actions and record of completed ones are as the invariant wants them.
LEMMA FinishedKeeps ==
  ASSUME HostInv, pc = "executing", index + 1 \in Positions,
         mem' \in WorkflowState, mem'.status = "running",
         mem'.actions = [mem.actions EXCEPT ![index] = "completed"],
         index' = index + 1, pc' = "scheduling", ran' = ran \cup {index},
         sparing' \in BOOLEAN,
         UNCHANGED <<disk, unsaved, wrote, cancel, entries>>
  PROVE  HostInv'
<1>1. index \in Positions /\ mem \in WorkflowState
  BY DEF HostInv, TypeOK
<1>2. TypeOK'
  BY <1>1 DEF HostInv, TypeOK
<1>3. \A p \in Positions : mem'.actions[p]
        = IF p = index THEN "completed" ELSE mem.actions[p]
  BY <1>1 DEF WorkflowState
<1>4. IntentSaved' /\ HeldBackIsCurrent' /\ SavedStatesSound'
  BY DEF HostInv, IntentSaved, HeldBackIsCurrent, SavedStatesSound, SoundState, Resumable,
         OnlyRanCompleted, Answerable
<1>5. ExecutionSound'
  BY <1>3 DEF HostInv, ExecutionSound, OnlyRanCompleted
<1>6. disk # NoState /\ disk.status = "waiting" => wrote /\ FALSE
  <2>1. disk = mem \/ (wrote /\ unsaved = mem)
    BY DEF HostInv, IntentSaved
  <2>2. mem.status = "running" /\ (wrote /\ disk # NoState => disk.status = "running")
    BY DEF HostInv, ExecutionSound, ReopensOnly
  <2>3. QED
    BY <2>1, <2>2
<1>7. ReopensOnly'
  BY <1>6 DEF HostInv, ReopensOnly
<1>8. QED
  BY <1>2, <1>4, <1>5, <1>7 DEF HostInv

LEMMA TaskSucceedsKeeps == HostInv /\ TaskSucceeds => HostInv'
<1> SUFFICES ASSUME HostInv, TaskSucceeds PROVE HostInv'
  OBVIOUS
<1>1. PICK v \in Values \cup {NotAList} : mem' = Succeed(mem, index, v)
  BY DEF TaskSucceeds
<1>2. /\ index \in Positions /\ mem \in WorkflowState
      /\ pc = "executing" /\ Plan[index].kind = "task" /\ sparing \in BOOLEAN
  BY DEF TaskSucceeds, HostInv, TypeOK
<1>3. v \in Held /\ index + 1 \in Positions
  BY <1>2, PlanIsCompiled DEF PlanAssumption, Held
<1>4. mem' \in WorkflowState
  BY <1>1, <1>2, <1>3, SucceedType
<1>5. /\ mem'.status = "running"
      /\ mem'.actions = [mem.actions EXCEPT ![index] = "completed"]
  BY <1>1, <1>2 DEF Succeed, WorkflowState
<1>6. QED
  BY <1>2, <1>3, <1>4, <1>5, FinishedKeeps DEF TaskSucceeds, KeepSparing

LEMMA InputSatisfiedKeeps == HostInv /\ InputSatisfied => HostInv'
<1> SUFFICES ASSUME HostInv, InputSatisfied PROVE HostInv'
  OBVIOUS
<1>1. /\ index \in Positions /\ mem \in WorkflowState
      /\ pc = "executing" /\ Plan[index].kind = "input" /\ sparing \in BOOLEAN
      /\ mem' = SucceedInput(mem, index)
  BY DEF InputSatisfied, HostInv, TypeOK
<1>2. index + 1 \in Positions
  BY <1>1, PlanIsCompiled DEF PlanAssumption
<1>3. mem' \in WorkflowState
  BY <1>1, SucceedInputType
<1>4. /\ mem'.status = "running"
      /\ mem'.actions = [mem.actions EXCEPT ![index] = "completed"]
  BY <1>1 DEF SucceedInput, Succeed, WorkflowState
<1>5. QED
  BY <1>1, <1>2, <1>3, <1>4, FinishedKeeps DEF InputSatisfied

LEMMA InputWaitsKeeps == HostInv /\ InputWaits => HostInv'
<1> SUFFICES ASSUME HostInv, InputWaits PROVE HostInv'
  OBVIOUS
<1>1. /\ index \in Positions /\ mem \in WorkflowState
      /\ pc = "executing" /\ Plan[index].kind = "input"
      /\ mem.vars[Plan[index].out] = Unset
      /\ mem' = Wait(mem, index)
      /\ disk' = mem' /\ unsaved' = NoState /\ wrote' = TRUE
      /\ pc' = "idle" /\ cancel' = FALSE
      /\ sparing' = sparing /\ index' = index /\ ran' = ran
      /\ entries' = entries
  BY DEF InputWaits, Write, Leave, HostInv, TypeOK
<1>2. mem' \in WorkflowState
  BY <1>1, WaitType
<1>3. /\ mem'.status = "waiting" /\ mem'.next = mem.next /\ mem.next = index
      /\ mem'.waiting = index /\ mem'.vars = mem.vars
      /\ mem'.actions = [mem.actions EXCEPT ![index] = "waiting"]
  BY <1>1 DEF Wait, WorkflowState, HostInv, ExecutionSound
<1>4. \A p \in Positions : mem'.actions[p]
        = IF p = index THEN "waiting" ELSE mem.actions[p]
  BY <1>1, <1>3 DEF WorkflowState
<1>5. SoundState(mem)'
  BY <1>1, <1>2, <1>3, <1>4
     DEF HostInv, ExecutionSound, OnlyRanCompleted, SoundState, Resumable,
         Answerable
<1>6. QED
  BY <1>1, <1>2, <1>5, LeaveKeeps DEF HostInv, TypeOK

LEMMA EndCompletesKeeps == HostInv /\ EndCompletes => HostInv'
<1> SUFFICES ASSUME HostInv, EndCompletes PROVE HostInv'
  OBVIOUS
<1>1. /\ index \in Positions /\ mem \in WorkflowState
      /\ pc = "executing" /\ Plan[index].kind = "end"
      /\ mem' = Complete(mem, index)
      /\ disk' = mem' /\ unsaved' = NoState /\ wrote' = TRUE
      /\ pc' = "idle" /\ cancel' = FALSE
      /\ sparing' = sparing /\ index' = index /\ ran' = ran \cup {index}
      /\ entries' = entries /\ ran \in SUBSET Positions
  BY DEF EndCompletes, Write, Leave, HostInv, TypeOK
<1>2. mem' \in WorkflowState
  BY <1>1, CompleteType
<1>3. /\ mem'.status = "completed"
      /\ mem'.actions = [mem.actions EXCEPT ![index] = "completed"]
  BY <1>1 DEF Complete, WorkflowState
<1>4. \A p \in Positions : mem'.actions[p]
        = IF p = index THEN "completed" ELSE mem.actions[p]
  BY <1>1, <1>3 DEF WorkflowState
<1>5. SoundState(mem)'
  BY <1>1, <1>2, <1>3, <1>4
     DEF HostInv, ExecutionSound, OnlyRanCompleted, SoundState, Resumable,
         Answerable
<1>6. QED
  BY <1>1, <1>2, <1>5, LeaveKeeps DEF HostInv, TypeOK

LEMMA RecordFailureKeeps ==
  ASSUME HostInv, pc = "executing", RecordFailure
  PROVE  HostInv'
<1>1. /\ index \in Positions /\ mem \in WorkflowState
      /\ mem' = Fail(mem, index) /\ disk' = mem' /\ unsaved' = NoState
      /\ pc' = "idle" /\ cancel' = FALSE /\ wrote' = wrote
      /\ sparing' = sparing /\ index' = index /\ ran' = ran
      /\ entries' = entries
  BY DEF RecordFailure, Leave, HostInv, TypeOK
<1>2. mem' \in WorkflowState
  BY <1>1, FailType
<1>3. /\ mem'.status = "failed" /\ mem'.next = mem.next /\ mem.next = index
      /\ mem'.actions = [mem.actions EXCEPT ![index] = "failed"]
  BY <1>1 DEF Fail, WorkflowState, HostInv, ExecutionSound
<1>4. \A p \in Positions : mem'.actions[p]
        = IF p = index THEN "failed" ELSE mem.actions[p]
  BY <1>1, <1>3 DEF WorkflowState
<1>5. SoundState(mem)'
  BY <1>1, <1>2, <1>3, <1>4
     DEF HostInv, ExecutionSound, OnlyRanCompleted, SoundState, Resumable,
         Answerable
<1>6. QED
  BY <1>1, <1>2, <1>5, LeaveKeeps DEF HostInv, TypeOK

-----------------------------------------------------------------------------
\* ... and by every way an execution is disturbed.

LEMMA RequestCancelKeeps == HostInv /\ RequestCancel => HostInv'
BY DEF RequestCancel, HostInv, TypeOK, IntentSaved, HeldBackIsCurrent, SavedStatesSound,
       SoundState, Resumable, OnlyRanCompleted, Answerable, ExecutionSound,
       ReopensOnly

\* An execution that is gone leaves a state that was saved or held back.
LEMMA GoneKeeps ==
  ASSUME HostInv, mem' = mem, unsaved' = NoState, pc' = "idle",
         disk' = disk \/ (disk' = unsaved /\ unsaved # NoState),
         cancel' = FALSE, UNCHANGED <<wrote, sparing, index, ran, entries>>
  PROVE  HostInv'
<1>1. TypeOK'
  BY DEF HostInv, TypeOK
<1>2. SavedStatesSound'
  BY DEF HostInv, SavedStatesSound, SoundState, Resumable, OnlyRanCompleted,
         Answerable
<1>3. QED
  BY <1>1, <1>2 DEF HostInv, IntentSaved, HeldBackIsCurrent, ExecutionSound, ReopensOnly

LEMMA KernelRaisesKeeps == HostInv /\ KernelRaises => HostInv'
BY GoneKeeps DEF KernelRaises, Leave

LEMMA ShutdownKeeps == HostInv /\ Shutdown => HostInv'
BY GoneKeeps DEF Shutdown, Leave

LEMMA CrashKeeps == HostInv /\ Crash => HostInv'
BY GoneKeeps DEF Crash, Leave

LEMMA StutterKeeps == HostInv /\ UNCHANGED vars => HostInv'
BY DEF vars, HostInv, TypeOK, IntentSaved, HeldBackIsCurrent, SavedStatesSound, SoundState,
       Resumable, OnlyRanCompleted, Answerable, ExecutionSound, ReopensOnly

-----------------------------------------------------------------------------
LEMMA InitSound == Init => HostInv
<1> SUFFICES ASSUME Init PROVE HostInv
  OBVIOUS
<1>1. 1 \in Positions
  BY PlanIsCompiled DEF PlanAssumption, Positions
<1>2. mem \in WorkflowState
  BY ForPlanType DEF Init
<1>3. TypeOK
  BY <1>1, <1>2 DEF Init, TypeOK
<1>4. QED
  BY <1>3 DEF Init, HostInv, IntentSaved, HeldBackIsCurrent, SavedStatesSound, ExecutionSound,
              ReopensOnly

LEMMA NextKeeps == HostInv /\ [Next]_vars => HostInv'
<1> SUFFICES ASSUME HostInv, [Next]_vars PROVE HostInv'
  OBVIOUS
<1>1. CASE Entering
  BY <1>1, StartKeeps, ResumeKeeps, ProvideInputKeeps DEF Entering
<1>2. CASE Scheduling
  BY <1>2, PassControlKeeps, ExceedIterationsKeeps, KernelRaisesKeeps,
     RequestEffectKeeps DEF Scheduling
<1>3. CASE Executing
  <2>1. CASE ActionFails \/ Cancelled
    BY <2>1, RecordFailureKeeps DEF ActionFails, Cancelled
  <2>2. QED
    BY <1>3, <2>1, TaskSucceedsKeeps, InputSatisfiedKeeps, InputWaitsKeeps,
       EndCompletesKeeps DEF Executing
<1>4. CASE Disturbing
  BY <1>4, RequestCancelKeeps, ShutdownKeeps, CrashKeeps DEF Disturbing
<1>5. CASE UNCHANGED vars
  BY <1>5, StutterKeeps
<1>6. QED
  BY <1>1, <1>2, <1>3, <1>4, <1>5 DEF Next

\* The inductive invariant holds of every compiled plan: whatever is saved or
\* held back is resumable, and an execution always agrees with it.
THEOREM HostInvariant == Spec => []HostInv
<1>1. Init => HostInv
  BY InitSound
<1>2. HostInv /\ [Next]_vars => HostInv'
  BY NextKeeps
<1>3. QED
  BY <1>1, <1>2, PTL DEF Spec

\* Every variable keeps its type, for every plan the compiler accepts.
THEOREM TypeCorrect == Spec => []TypeOK
<1>1. HostInv => TypeOK
  BY DEF HostInv
<1>2. QED
  BY <1>1, HostInvariant, PTL

\* An executor runs only behind a save (or a held-back save) of its intent.
THEOREM IntentIsSaved == Spec => []IntentSaved
<1>1. HostInv => IntentSaved
  BY DEF HostInv
<1>2. QED
  BY <1>1, HostInvariant, PTL

\* Whenever the process dies, the saved state names one action to resume at.
THEOREM ResumePointKept == Spec => []ResumePoint
<1>1. HostInv => ResumePoint
  BY DEF HostInv, SavedStatesSound, SoundState, ResumePoint
<1>2. QED
  BY <1>1, HostInvariant, PTL

\* No saved state records an executor's action that did not finish.
THEOREM NothingIsSkipped == Spec => []NothingSkipped
<1>1. HostInv => NothingSkipped
  BY DEF HostInv, SavedStatesSound, SoundState, NothingSkipped
<1>2. QED
  BY <1>1, HostInvariant, PTL

\* A Run that is saved as waiting can be answered.
THEOREM WaitingAnswerable == Spec => []WaitingIsAnswerable
<1>1. HostInv => WaitingIsAnswerable
  BY DEF HostInv, SavedStatesSound, SoundState, WaitingIsAnswerable
<1>2. QED
  BY <1>1, HostInvariant, PTL

-----------------------------------------------------------------------------
\* The save that settles an execution, or its shutdown, is the state itself.
LEMMA LastStateStep ==
  ASSUME HostInv, [Next]_vars
  PROVE  [ pc # "idle" /\ pc' = "idle" /\ (mem'.status # "running" \/ Shutdown)
             => disk' = mem' ]_vars
<1> SUFFICES ASSUME pc # "idle", pc' = "idle",
                    mem'.status # "running" \/ Shutdown
             PROVE  disk' = mem'
  OBVIOUS
<1>1. mem.status = "running"
  BY DEF HostInv, ExecutionSound
<1>2. CASE Shutdown
  <2>1. CASE unsaved = NoState
    <3>1. disk = mem \/ (wrote /\ unsaved = mem)
      BY <1>2 DEF Shutdown, HostInv, IntentSaved
    <3>2. mem # NoState
      BY HostAssumption DEF HostInv, TypeOK
    <3>3. QED
      BY <1>2, <2>1, <3>1, <3>2 DEF Shutdown
  <2>2. CASE unsaved # NoState
    BY <1>2, <2>2 DEF Shutdown, HostInv, IntentSaved, HeldBackIsCurrent
  <2>3. QED
    BY <2>1, <2>2
<1>3. QED
  BY <1>1, <1>2
     DEF Next, Entering, Scheduling, Executing, Disturbing, Start, Resume,
         ProvideInput, Begin, PassControl, ExceedIterations, KernelRaises,
         RequestEffect, TaskSucceeds, InputSatisfied, InputWaits, EndCompletes,
         ActionFails, Cancelled, RecordFailure, RequestCancel, Crash, Write,
         Leave, vars

\* A save the throttle holds back is never the last word.
THEOREM LastStateIsSaved == Spec => LastStateSaved
<1>1. HostInv /\ [Next]_vars =>
        [ pc # "idle" /\ pc' = "idle" /\ (mem'.status # "running" \/ Shutdown)
            => disk' = mem' ]_vars
  BY LastStateStep
<1>2. QED
  BY <1>1, HostInvariant, PTL DEF Spec, LastStateSaved

-----------------------------------------------------------------------------
\* The status a reader sees, which RunStatus is about.
SavedStatus == IF disk = NoState THEN "absent" ELSE disk.status

\* What the invariant says of it during an execution.
LEMMA StatusDuring ==
  ASSUME HostInv, pc # "idle"
  PROVE  /\ SavedStatus \in {"absent", "running", "failed", "waiting"}
         /\ pc = "executing" \/ wrote => SavedStatus = "running"
         /\ SavedStatus = "waiting" => Plan[index].kind = "input"
<1>1. /\ mem \in WorkflowState /\ mem # NoState /\ mem.status = "running"
      /\ disk \in WorkflowState \cup {NoState}
  BY HostAssumption DEF HostInv, TypeOK, ExecutionSound
<1>2. disk # NoState => disk.status \in {"running", "failed", "waiting"}
  BY <1>1 DEF HostInv, ReopensOnly, SavedStatesSound, SoundState,
              WorkflowState, WorkflowStatus
<1>3. pc = "executing" \/ wrote => disk # NoState /\ disk.status = "running"
  BY <1>1 DEF HostInv, IntentSaved, ReopensOnly
<1>4. QED
  BY <1>2, <1>3 DEF HostInv, ReopensOnly, SavedStatus

LEMMA NextRefines ==
  ASSUME HostInv, HostInv', [Next]_vars
  PROVE  [Promise!Next]_SavedStatus
<1>1. CASE disk' = disk
  BY <1>1 DEF SavedStatus
<1>2. CASE Entering
  <2>1. disk' = disk
    BY <1>2 DEF Entering, Start, Resume, ProvideInput, Begin
  <2>2. QED
    BY <1>1, <2>1
<1>3. CASE disk' = mem' /\ disk' # NoState /\ ExceedIterations
  <2>1. /\ pc # "idle" /\ mem'.status = "failed"
        /\ Plan[index].kind # "input"
    BY <1>3 DEF ExceedIterations, ControlExceeded, Reach, HostInv, TypeOK,
                WorkflowState, ControlKinds, BranchKinds
  <2>2. SavedStatus \in {"absent", "running", "failed"}
    BY <2>1, StatusDuring
  <2>3. SavedStatus' = "failed"
    BY <1>3, <2>1 DEF SavedStatus
  <2>4. QED
    BY <2>2, <2>3 DEF Promise!Next, Promise!Accept, Promise!Settle,
                      Promise!Settled, SavedStatus
<1>4. CASE disk' = mem' /\ disk' # NoState /\ RequestEffect
  <2>1. pc # "idle" /\ mem'.status = "running"
    BY <1>4 DEF RequestEffect, Reach, HostInv, TypeOK, ExecutionSound,
                WorkflowState
  <2>2. SavedStatus \in {"absent", "running", "failed", "waiting"}
    BY <2>1, StatusDuring
  <2>3. SavedStatus' = "running"
    BY <1>4, <2>1 DEF SavedStatus
  <2>4. QED
    BY <2>2, <2>3 DEF Promise!Next, Promise!Accept, Promise!Reopen, SavedStatus
<1>5. CASE disk' = mem' /\ disk' # NoState /\ Executing
  <2>1. pc = "executing"
    BY <1>5 DEF Executing, TaskSucceeds, InputSatisfied, InputWaits,
                EndCompletes, ActionFails, Cancelled
  <2>2. SavedStatus = "running"
    BY <2>1, StatusDuring
  <2>3. CASE TaskSucceeds \/ InputSatisfied
    <3>1. disk' = disk
      BY <2>3 DEF TaskSucceeds, InputSatisfied
    <3>2. QED
      BY <1>1, <3>1
  <2>4. CASE InputWaits \/ EndCompletes \/ ActionFails \/ Cancelled
    <3>1. mem'.status \in {"waiting", "failed", "completed"}
      BY <2>4 DEF InputWaits, EndCompletes, ActionFails, Cancelled,
                  RecordFailure, Wait, Complete, Fail, HostInv, TypeOK,
                  WorkflowState
    <3>2. SavedStatus' \in {"waiting", "failed", "completed"}
      BY <1>5, <3>1 DEF SavedStatus
    <3>3. QED
      BY <2>2, <3>2 DEF Promise!Next, Promise!Settle, Promise!Settled,
                        SavedStatus
  <2>5. QED
    BY <1>5, <2>3, <2>4 DEF Executing
<1>6. CASE Shutdown /\ disk' # disk
  <2>1. pc # "idle" /\ disk' = unsaved /\ unsaved # NoState /\ wrote' = wrote
    BY <1>6 DEF Shutdown
  <2>2. pc = "executing" /\ unsaved.status = "running"
    BY <1>6, <2>1 DEF Shutdown, HostInv, SavedStatesSound
  <2>3. SavedStatus = "running" /\ SavedStatus' = "running"
    BY <2>1, <2>2, StatusDuring DEF SavedStatus
  <2>4. QED
    BY <2>3
<1>7. disk' = disk \/ (disk' = mem' /\ disk' # NoState) \/ Shutdown
  <2>1. mem' # NoState
    BY HostAssumption DEF HostInv, TypeOK
  <2>2. QED
    BY <2>1
       DEF Next, Entering, Scheduling, Executing, Disturbing, Start, Resume,
           ProvideInput, Begin, PassControl, ExceedIterations, KernelRaises,
           RequestEffect, TaskSucceeds, InputSatisfied, InputWaits,
           EndCompletes, ActionFails, Cancelled, RecordFailure, RequestCancel,
           Crash, Write, Save, Hold, vars
<1>8. disk' # disk => Entering \/ ExceedIterations \/ RequestEffect
                        \/ Executing \/ Shutdown
  BY DEF Next, Scheduling, Disturbing, PassControl, KernelRaises,
         RequestCancel, Crash, vars
<1>9. QED
  <2>1. CASE Shutdown
    BY <1>1, <1>6, <2>1
  <2>2. CASE ~ Shutdown /\ disk' # disk
    BY <1>2, <1>3, <1>4, <1>5, <1>7, <1>8, <2>2
  <2>3. QED
    BY <1>1, <2>1, <2>2

\* The saved status of every compiled plan implements RunStatus: a Run that is
\* completed never changes, and no status is reached but in its order.
THEOREM StatusIsPromised == Spec => StatusPromised
<1>1. Init => Promise!Init
  BY DEF Init, Promise!Init
<1>2. HostInv /\ HostInv' /\ [Next]_vars => [Promise!Next]_SavedStatus
  BY NextRefines
<1>3. QED
  BY <1>1, <1>2, HostInvariant, PTL
     DEF Spec, StatusPromised, Promise!Spec, SavedStatus

-----------------------------------------------------------------------------
\* A control action is counted, whatever it decides.
LEMMA ControlIsCounted ==
  ASSUME NEW s \in WorkflowState, NEW p \in Positions,
         Plan[p].kind \in ControlKinds, NEW step \in ControlStep(s, p)
  PROVE  step[1].steps = s.steps + 1
<1> DEFINE counted == [Reach(s, p) EXCEPT !.steps = @ + 1,
                                          !.actions[p] = "completed"]
<1>1. counted.steps = s.steps + 1
  BY DEF Reach, WorkflowState
<1>2. CASE Plan[p].kind = "for_each"
  <2>1. step[1] = [counted EXCEPT !.frames[p] = ForEachFrame(s, p),
                                  !.vars = ForEachVars(s, p)]
    BY <1>2 DEF ControlStep
  <2> QED BY <2>1 DEF Reach, WorkflowState
<1>3. CASE Plan[p].kind # "for_each"
  <2>1. PICK t \in BranchTargets(s, p) : step = <<counted, t>>
    BY <1>3 DEF ControlStep
  <2>2. step[1] = counted
    BY <2>1
  <2> QED BY <1>1, <2>2
<1> QED BY <1>2, <1>3

\* Every step of an execution that does not end it goes on in the plan.
LEMMA StepAdvances ==
  ASSUME HostInv, Scheduling \/ Executing, pc' # "idle"
  PROVE  ControlCounted \/ ActionAdvances
<1>1. mem \in WorkflowState /\ mem.steps \in Nat /\ index \in Positions
  BY DEF HostInv, TypeOK, WorkflowState
<1>2. CASE PassControl
  <2>1. PICK step \in ControlStep(mem, index) : mem' = step[1]
    BY <1>2 DEF PassControl
  <2>2. mem'.steps = mem.steps + 1
    BY <1>1, <1>2, <2>1, ControlIsCounted DEF PassControl
  <2>3. MaxIterations # 0 => ~ (mem.steps + 1 > MaxIterations)
    BY <1>2 DEF PassControl, ExceedsIterations
  <2>4. MaxIterations # 0 => mem.steps + 1 <= MaxIterations
    BY <1>1, <2>3, PlanIsCompiled DEF PlanAssumption
  <2> QED BY <2>2, <2>4 DEF ControlCounted
<1>3. CASE RequestEffect
  <2>1. mem' = Reach(mem, index) /\ pc = "scheduling" /\ pc' = "executing" /\ index' = index
    BY <1>3 DEF RequestEffect
  <2>2. mem'.steps = mem.steps
    BY <1>1, <2>1 DEF Reach, WorkflowState
  <2> QED BY <2>1, <2>2 DEF ActionAdvances
<1>4. CASE TaskSucceeds \/ InputSatisfied
  <2>1. /\ pc = "executing" /\ pc' = "scheduling" /\ index' = index + 1
        /\ \E value \in Held : \/ mem' = Succeed(mem, index, value)
                               \/ mem' = SucceedInput(mem, index)
    BY <1>4 DEF TaskSucceeds, InputSatisfied, Held
  <2>2. mem'.steps = mem.steps
    BY <1>1, <2>1 DEF Succeed, SucceedInput, WorkflowState
  <2> QED BY <2>1, <2>2 DEF ActionAdvances
<1>5. CASE ExceedIterations \/ KernelRaises \/ InputWaits \/ EndCompletes
             \/ ActionFails \/ Cancelled
  BY <1>5 DEF ExceedIterations, KernelRaises, InputWaits, EndCompletes, ActionFails,
              Cancelled, RecordFailure, Leave
<1>6. QED
  BY <1>2, <1>3, <1>4, <1>5 DEF Scheduling, Executing

\* Whatever the plan, an execution goes on through it, and through no more
\* control actions than max_iterations, until it ends.
THEOREM ExecutionsComeToAnEnd == Spec => ExecutionAdvances
<1>1. HostInv /\ [Next]_vars =>
        [(Scheduling \/ Executing) /\ pc' # "idle" => ControlCounted \/ ActionAdvances]_vars
  BY StepAdvances
<1>2. QED
  BY <1>1, HostInvariant, PTL DEF Spec, ExecutionAdvances
=============================================================================
