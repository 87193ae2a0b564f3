--------------------------- MODULE WorkflowKernel ---------------------------
(***************************************************************************)
(* The stateless kernel of kernel/workflow/transitions.py: Plan + State +  *)
(* Event -> State + Effect, without persistence or calls.                  *)
(*                                                                         *)
(* An action is named by its position in Plan (the compiler makes ids      *)
(* unique).  A variable holds a small number, or a value that is no list; a *)
(* list is represented by its length and its item number i by i itself,    *)
(* which is all that for_each and the conditions tell apart.               *)
(*                                                                         *)
(* The scheduling loop is not folded into one operator: each control       *)
(* action it passes is one ControlStep, taken by the host module, so that  *)
(* no recursive definition is needed.                                      *)
(***************************************************************************)
EXTENDS Integers, Sequences

CONSTANTS
  Plan,           \* sequence of compiled actions, each a record with a kind
  Vars,           \* workflow variables
  MaxValue,       \* largest value a variable takes
  MaxIterations   \* the plan's max_iterations; 0 when it declares none

Positions == 1 .. Len(Plan)

\* Actions the kernel decides itself (ControlKinds) and actions it hands to
\* the host as an ExecuteAction effect (the others).  "task" stands for every
\* executor that returns a value in an output variable.
BranchKinds   == {"if", "condition_group", "goto"}
ControlKinds  == BranchKinds \cup {"for_each"}
ExecutorKinds == {"task", "input", "fail", "end"}

Values   == 0 .. MaxValue
Unset    == -1            \* not in variables at all
NotAList == -2            \* a value for_each cannot walk
Held     == Values \cup {Unset, NotAList}

WorkflowStatus == {"pending", "running", "waiting", "completed", "failed"}
ActionStatus   == {"pending", "running", "waiting", "completed", "failed"}

NoFrame == [items |-> 0, index |-> 0]
Frames  == [items : Values, index : Values]

NoAction == 0

WorkflowState ==
  [ status  : WorkflowStatus,
    actions : [Positions -> ActionStatus],
    vars    : [Vars -> Held],
    next    : Nat,                         \* next_action_index
    nextId  : Positions \cup {NoAction},   \* next_action_id
    waiting : Positions \cup {NoAction},   \* waiting_input's action
    steps   : Nat,                         \* control_steps
    frames  : [Positions -> Frames] ]      \* control_frames

\* What the compiler guarantees of a plan: targets exist, and no action but a
\* terminal one is the last.
PlanAssumption ==
  /\ Len(Plan) \in Nat \ {0}
  /\ MaxValue \in Nat
  /\ MaxIterations \in Nat
  /\ \A p \in Positions :
       /\ Plan[p].kind \in ControlKinds \cup ExecutorKinds
       /\ Plan[p].kind \in {"task", "input"} =>
            Plan[p].out \in Vars /\ p + 1 \in Positions
       /\ Plan[p].kind \in BranchKinds =>
            /\ Plan[p].default \in Positions
            /\ \A b \in DOMAIN Plan[p].branches :
                 Plan[p].branches[b].target \in Positions
       /\ Plan[p].kind = "for_each" =>
            /\ Plan[p].items \in Vars /\ Plan[p].item \in Vars
            /\ Plan[p].body \in Positions /\ Plan[p].after \in Positions

ASSUME PlanIsCompiled == PlanAssumption

-----------------------------------------------------------------------------
\* WorkflowState.for_plan with the variables the run starts from.
ForPlan(vars) ==
  [ status  |-> "pending",
    actions |-> [p \in Positions |-> "pending"],
    vars    |-> vars,
    next    |-> 1,
    nextId  |-> 1,
    waiting |-> NoAction,
    steps   |-> 0,
    frames  |-> [p \in Positions |-> NoFrame] ]

\* The action a StartWorkflow event schedules from: completed actions are
\* reused until the first one that is not.
FirstOpen(s, from) ==
  CHOOSE i \in from .. Len(Plan) + 1 :
    /\ i = Len(Plan) + 1 \/ s.actions[i] # "completed"
    /\ \A j \in from .. i - 1 : s.actions[j] = "completed"

StartWorkflow(s) == [s EXCEPT !.status = "running"]

\* Mutant: the cursor stays on the action before a jump.
Reach_OldCursor(s, p) == [s EXCEPT !.actions[p] = "running", !.nextId = p]

\* The scheduler's mark on the action it reached.
Reach(s, p) ==
  [s EXCEPT !.actions[p] = "running", !.next = p, !.nextId = p]

ExceedsIterations(s) == MaxIterations # 0 /\ s.steps + 1 > MaxIterations

\* A control action met after max_iterations fails the run.
ControlExceeded(s, p) ==
  [Reach(s, p) EXCEPT !.actions[p] = "failed", !.status = "failed",
                      !.steps = @ + 1]

-----------------------------------------------------------------------------
Matches(condition, vars) == vars[condition.var] = condition.value

\* Conditions are read up to the first that matches; a variable that is not
\* there raises out of the kernel.
BranchRaises(s, p) ==
  /\ Plan[p].kind \in BranchKinds
  /\ \E b \in DOMAIN Plan[p].branches :
       /\ s.vars[Plan[p].branches[b].var] = Unset
       /\ \A c \in 1 .. b - 1 : ~ Matches(Plan[p].branches[c], s.vars)

\* The target of an if, condition_group or goto: the first branch whose
\* condition matches, else the default (a goto has no branches).
BranchTargets(s, p) ==
  LET branches == Plan[p].branches
      hits     == {b \in DOMAIN branches : Matches(branches[b], s.vars)}
  IN  IF hits = {}
      THEN {Plan[p].default}
      ELSE {branches[b].target : b \in {h \in hits : \A c \in hits : h <= c}}

\* A for_each: the frame is opened on a copy of the list, advanced on every
\* later visit, and dropped when it ends; an empty list is passed over, and
\* anything but a list raises out of the kernel.
ForEachOpens(s, p)  == s.frames[p] = NoFrame /\ s.vars[Plan[p].items] > 0
ForEachPasses(s, p) == s.frames[p] = NoFrame /\ ~ ForEachOpens(s, p)
ForEachRaises(s, p) ==
  Plan[p].kind = "for_each" /\ s.frames[p] = NoFrame
    /\ s.vars[Plan[p].items] \notin Values
ControlRaises(s, p) == BranchRaises(s, p) \/ ForEachRaises(s, p)
ForEachEnds(s, p)   ==
  s.frames[p] # NoFrame /\ s.frames[p].index + 1 >= s.frames[p].items

ForEachFrame(s, p) ==
  IF ForEachOpens(s, p)
  THEN [items |-> s.vars[Plan[p].items], index |-> 0]
  ELSE IF ForEachEnds(s, p) \/ ForEachPasses(s, p)
       THEN NoFrame
       ELSE [s.frames[p] EXCEPT !.index = @ + 1]

ForEachTarget(s, p) ==
  IF ForEachPasses(s, p) \/ ForEachEnds(s, p) THEN Plan[p].after
                                              ELSE Plan[p].body

ForEachVars(s, p) ==
  IF ForEachFrame(s, p) = NoFrame
  THEN s.vars
  ELSE [s.vars EXCEPT ![Plan[p].item] = ForEachFrame(s, p).index]

\* Mutant: a control step is not counted.
ControlStep_Uncounted(s, p) ==
  LET marked == [Reach(s, p) EXCEPT !.actions[p] = "completed"]
  IN  IF Plan[p].kind = "for_each"
      THEN { << [marked EXCEPT !.frames[p] = ForEachFrame(s, p),
                               !.vars = ForEachVars(s, p)],
                ForEachTarget(s, p) >> }
      ELSE { << marked, t >> : t \in BranchTargets(s, p) }

\* One pass of the scheduling loop over control action p: the pairs of the
\* state it leaves and the position it continues from.
ControlStep(s, p) ==
  LET counted == [Reach(s, p) EXCEPT !.steps = @ + 1,
                                     !.actions[p] = "completed"]
  IN  IF Plan[p].kind = "for_each"
      THEN { << [counted EXCEPT !.frames[p] = ForEachFrame(s, p),
                                !.vars = ForEachVars(s, p)],
                ForEachTarget(s, p) >> }
      ELSE { << counted, t >> : t \in BranchTargets(s, p) }

-----------------------------------------------------------------------------
\* ActionSucceeded, for the results the executors return.

\* A value for the action's output variable; scheduling goes on behind it.
Succeed(s, p, value) ==
  [s EXCEPT !.actions[p] = "completed",
            !.vars[Plan[p].out] = value,
            !.next = p + 1,
            !.status = "running"]

\* request_input whose value is there clears the waiting input.
SucceedInput(s, p) ==
  [Succeed(s, p, s.vars[Plan[p].out]) EXCEPT !.waiting = NoAction]

\* Mutants: the early return for a waiting result is missing; the input that
\* is waited for is not recorded.
Wait_Completed(s, p) ==
  [s EXCEPT !.actions[p] = "completed", !.waiting = p, !.status = "waiting"]
Wait_Unnamed(s, p) ==
  [s EXCEPT !.actions[p] = "waiting", !.status = "waiting"]

\* request_input without its value: the run waits.
Wait(s, p) ==
  [s EXCEPT !.actions[p] = "waiting", !.waiting = p, !.status = "waiting"]

\* end_workflow.
Complete(s, p) ==
  [s EXCEPT !.actions[p] = "completed", !.next = p + 1, !.nextId = NoAction,
            !.status = "completed"]

\* ActionFailed.
Fail(s, p) == [s EXCEPT !.actions[p] = "failed", !.status = "failed"]

\* resume_waiting_input on a run that waits at its root.
ResumeWaitingInput(s, value) ==
  LET p == s.waiting
  IN  [s EXCEPT !.vars[Plan[p].out] = value,
                !.waiting = NoAction,
                !.status = "running",
                !.actions[p] = "pending",
                !.next = p,
                !.nextId = p]
=============================================================================
