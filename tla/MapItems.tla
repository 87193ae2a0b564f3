------------------------------ MODULE MapItems ------------------------------
(***************************************************************************)
(* A map action and its items, as WorkflowRuntimeHost._execute_map runs    *)
(* them: one child workflow per item behind a semaphore, whose running     *)
(* steps are saved at most once a second by a timer and whose end is saved *)
(* at once, through the Run's own throttled save.  The parent plan is the  *)
(* smallest that matters: the map, and a condition after it that goes back *)
(* to the map or ends.  The wait for the lead item only delays the moment  *)
(* an item asks for the semaphore, so it is not told apart.                *)
(***************************************************************************)
EXTENDS Integers, FiniteSets

CONSTANTS
  Items,        \* keys of the selected items
  Silent,       \* items whose workflow ends without the named output
  Asking,       \* items whose last step requests input
  Steps,        \* executor actions of an item's workflow
  Limit,        \* max_concurrency, or the number of items
  MaxRounds,    \* bound on the times the parent plan passes the map
  MaxEntries,   \* bound on the executions begun
  NoItem,       \* no saved state of an item
  NoState       \* no saved state of the Run

ASSUME MapAssumption ==
  /\ Silent \subseteq Items /\ Asking \subseteq Items
  /\ Steps \in Nat \ {0} /\ Limit \in Nat \ {0}
  /\ MaxRounds \in Nat \ {0} /\ MaxEntries \in Nat

Rounds == 1 .. MaxRounds
None   == 0           \* no result

\* An item's own WorkflowState: the round whose variables it copied and how
\* many of its steps are completed.  The first step publishes the output.
ItemState ==
  [ status : {"running", "waiting", "failed", "completed"},
    done   : 0 .. Steps,
    round  : Rounds ]

HasOutput(k, item) == k \notin Silent /\ item.done >= 1

\* What the parent's WorkflowState holds: map_states of the action and, once
\* it has ended, its results (named by the round they are of) and errors.
ParentState ==
  [ status  : {"running", "failed", "completed"},
    at      : {"map", "after"},
    round   : Rounds,
    states  : [Items -> ItemState \cup {NoItem}],
    results : [Items -> Rounds \cup {None}],
    errors  : SUBSET Items ]

ASSUME NoneAssumption == NoItem \notin ItemState /\ NoState \notin ParentState

VARIABLES
  tolerant,  \* whether the action declares errors_variable
  pc,        \* "idle", "map" (in the action) or "after" it
  local,     \* the parent's `state` in execute
  parent,    \* the `state` the map's own checkpoints are views of
  items,     \* item_states
  unsaved,   \* keys whose state item_states does not hold yet
  current,   \* the newest state of each item, saved or not
  stage,     \* where each item's coroutine is
  timer,     \* save_timer: "never" before the first save, else "off" or "on"
  disk,      \* the saved state
  latest,    \* _ThrottledSave.latest
  sparing,   \* whether the throttle may hold saves back
  entries    \* history: executions begun

vars == <<pc, local, parent, items, unsaved, current, stage, timer,
          disk, latest, sparing, entries>>

\* "failed": _execute_nested raised with the failed state; "raised": any other
\* exception ended the coroutine.
Stages == {"off", "queued", "executing", "returned", "failed", "raised"}
Ended  == {"returned", "failed", "raised"}
Off    == [k \in Items |-> "off"]

NoStates == [k \in Items |-> NoItem]

NewRun ==
  [ status |-> "running", at |-> "map", round |-> 1, states |-> NoStates,
    results |-> [k \in Items |-> None], errors |-> {} ]

Init ==
  /\ tolerant \in BOOLEAN
  /\ pc = "idle" /\ local = NewRun /\ parent = NewRun
  /\ items = NoStates /\ unsaved = {} /\ current = NoStates
  /\ stage = Off /\ timer = "never"
  /\ disk = NoState /\ latest = NoState
  /\ sparing = FALSE /\ entries = 0

-----------------------------------------------------------------------------
\* The Run's throttled save of a running state, and its first one.
Write(s) == disk' = s /\ latest' = s
Save(s)  == latest' = s /\ (disk' = s \/ (sparing /\ UNCHANGED disk))

\* _checkpoint_view: the parent with the map's entry replaced.
View(states) == [parent EXCEPT !.states = states]

\* save_items: every newer state goes into item_states, and they are saved.
SaveItems(keys) ==
  /\ items' = [k \in Items |-> IF k \in keys THEN current'[k] ELSE items[k]]
  /\ unsaved' = {} /\ timer' = "off"
  /\ Save(View(items'))

\* Less than a second since the last save: the timer will save them.
HoldItems(keys) ==
  /\ timer # "never"
  /\ unsaved' = keys /\ timer' = "on"
  /\ UNCHANGED <<items, disk, latest>>

\* checkpoint_item
Checkpoint(k, item) ==
  /\ current' = [current EXCEPT ![k] = item]
  /\ \/ SaveItems(unsaved \cup {k})
     \/ item.status = "running" /\ HoldItems(unsaved \cup {k})

\* The map starts to execute: one coroutine per item; completed ones return.
EnterMap(s) ==
  /\ pc' = "map" /\ local' = s /\ parent' = s
  /\ items' = s.states /\ current' = s.states
  /\ unsaved' = {} /\ timer' = "never"
  /\ stage' = [k \in Items |->
       IF s.states[k] # NoItem /\ s.states[k].status = "completed"
       THEN "returned" ELSE "queued"]

\* The map is over; what it kept beside the state is gone.
LeaveMap ==
  /\ items' = NoStates /\ unsaved' = {} /\ current' = NoStates
  /\ stage' = Off /\ timer' = "never"

EnterAfter(s) == pc' = "after" /\ local' = s /\ parent' = s /\ LeaveMap

\* Mutant: the timer is left running when the map ends.
LeaveMap_TimerKept ==
  /\ UNCHANGED <<items, unsaved, timer>> /\ current' = NoStates /\ stage' = Off

\* An execution begins from a state; its first save is never held back.
Begin(s) ==
  /\ pc = "idle" /\ entries < MaxEntries
  /\ entries' = entries + 1
  /\ sparing' \in BOOLEAN
  /\ Write(s)
  /\ IF s.at = "map" THEN EnterMap(s) ELSE EnterAfter(s)

Start == disk = NoState /\ Begin(NewRun)

Resume ==
  /\ disk # NoState /\ disk.status \in {"running", "failed"}
  /\ Begin([disk EXCEPT !.status = "running"])

-----------------------------------------------------------------------------
Fresh == [status |-> "running", done |-> 0, round |-> local.round]

\* An item continues its saved state, or starts with the item's variables.
SavedOrFresh(k) ==
  IF local.states[k] = NoItem THEN Fresh
  ELSE [local.states[k] EXCEPT !.status = "running"]

\* Mutant: an item that failed keeps its slot.
Executing_Unreleased == {k \in Items : stage[k] \in {"executing", "failed"}}

Executing == {k \in Items : stage[k] = "executing"}

BeginItem(k) ==
  /\ pc = "map" /\ stage[k] = "queued"
  /\ Cardinality(Executing) < Limit
  /\ Checkpoint(k, SavedOrFresh(k))
  /\ stage' = [stage EXCEPT ![k] = "executing"]
  /\ UNCHANGED <<pc, local, parent, sparing, entries>>

Runs(k) == pc = "map" /\ stage[k] = "executing"

Asks(k) == k \in Asking /\ current[k].done + 1 = Steps

StepSucceeds(k) ==
  /\ Runs(k) /\ current[k].done < Steps /\ ~ Asks(k)
  /\ Checkpoint(k, [current[k] EXCEPT !.done = @ + 1])
  /\ UNCHANGED <<pc, local, parent, stage, sparing, entries>>

\* The item's coroutine ends after a last checkpoint of its state.
EndItem(k, status, ending) ==
  /\ Checkpoint(k, [current[k] EXCEPT !.status = status])
  /\ stage' = [stage EXCEPT ![k] = ending]
  /\ UNCHANGED <<pc, local, parent, sparing, entries>>

\* A returned item without the named output raises, its state saved or not.
ReturnOrRaise(k) == IF HasOutput(k, current[k]) THEN "returned" ELSE "raised"

ItemCompletes(k) ==
  /\ Runs(k) /\ current[k].done = Steps
  /\ EndItem(k, "completed", ReturnOrRaise(k))

\* Past max_iterations the kernel leaves a FAILED state and asks for nothing:
\* it is saved, and the snapshot that replaces it in memory says completed.
ItemExceeds(k) ==
  /\ Runs(k) /\ current[k].done < Steps
  /\ LET exceeded == [current[k] EXCEPT !.status = "failed"]
         saved    == [j \in Items |-> IF j = k THEN exceeded
                                      ELSE IF j \in unsaved THEN current[j]
                                      ELSE items[j]]
         snapshot == IF HasOutput(k, current[k])
                     THEN [exceeded EXCEPT !.status = "completed"]
                     ELSE exceeded
     IN  /\ items' = [saved EXCEPT ![k] = snapshot]
         /\ current' = [current EXCEPT ![k] = snapshot]
         /\ unsaved' = {} /\ timer' = "off"
         /\ Save(View(saved))
  /\ stage' = [stage EXCEPT ![k] = ReturnOrRaise(k)]
  /\ UNCHANGED <<pc, local, parent, sparing, entries>>

ItemWaits(k) == Runs(k) /\ Asks(k) /\ EndItem(k, "waiting", "raised")

StepFails(k) ==
  /\ Runs(k) /\ current[k].done < Steps
  /\ EndItem(k, "failed", "failed")

\* The kernel raises inside the item: its last running steps stay unsaved.
ItemRaises(k) ==
  /\ Runs(k) /\ current[k].done < Steps
  /\ stage' = [stage EXCEPT ![k] = "raised"]
  /\ UNCHANGED <<pc, local, parent, items, unsaved, current, timer, disk,
                 latest, sparing, entries>>

\* The timed save.
TimerFires ==
  /\ timer = "on"
  /\ UNCHANGED current /\ SaveItems(unsaved)
  /\ UNCHANGED <<pc, local, parent, stage, sparing, entries>>

-----------------------------------------------------------------------------
\* gather returns once every item has ended.
Gathered == pc = "map" /\ \A k \in Items : stage[k] \in Ended

Errors == {k \in Items : stage[k] # "returned"}

Leave ==
  /\ pc' = "idle" /\ latest' = NoState /\ LeaveMap
  /\ UNCHANGED <<local, parent, sparing, entries>>

\* execute saves the failure of a state, past the throttle.
RecordFailure(s) == disk' = [s EXCEPT !.status = "failed"] /\ Leave

\* A reused item has no such output: the lookup of its result raises.
Missing == \E k \in Items : stage[k] = "returned" /\ ~ HasOutput(k, items[k])

ResultMissing == Gathered /\ Missing /\ RecordFailure(local)

MapFails ==
  /\ Gathered /\ ~ Missing /\ ~ tolerant /\ Errors # {}
  /\ RecordFailure([local EXCEPT !.states = items])

Succeeds == Gathered /\ ~ Missing /\ (tolerant \/ Errors = {})

Results == [k \in Items |-> IF k \in Errors THEN None ELSE items[k].round]

\* Mutant: the items' states stay in the Run.
Collected_StatesKept ==
  [local EXCEPT !.at = "after", !.results = Results, !.errors = Errors]

\* The successful action clears its map_states.
Collected ==
  [local EXCEPT !.at = "after", !.results = Results, !.errors = Errors,
                !.states = NoStates]

\* Mutant: the timer stays set.
MapSucceeds_TimerKept ==
  /\ Succeeds
  /\ pc' = "after" /\ local' = Collected /\ LeaveMap_TimerKept
  /\ Save(local')
  /\ UNCHANGED <<parent, sparing, entries>>

MapSucceeds ==
  /\ Succeeds
  /\ EnterAfter(Collected)
  /\ Save(local')
  /\ UNCHANGED <<sparing, entries>>

\* The plan goes back to the map, or ends.
MapAgain ==
  /\ pc = "after" /\ local.round < MaxRounds
  /\ EnterMap([local EXCEPT !.at = "map", !.round = @ + 1])
  /\ Save(local')
  /\ UNCHANGED <<sparing, entries>>

End == pc = "after" /\ disk' = [local EXCEPT !.status = "completed"] /\ Leave

\* A user's cancel fails the Run from the newest checkpoint; an unlabelled one
\* flushes it; a crash leaves what was saved.
UserCancel == pc = "map" /\ RecordFailure(latest)
Shutdown   == pc = "map" /\ disk' = latest /\ Leave
Crash      == pc # "idle" /\ UNCHANGED disk /\ Leave

Item(k) ==
  \/ BeginItem(k) \/ StepSucceeds(k) \/ ItemCompletes(k) \/ ItemExceeds(k)
  \/ ItemWaits(k) \/ StepFails(k) \/ ItemRaises(k)

Gather == ResultMissing \/ MapFails \/ MapSucceeds
After  == MapAgain \/ End

Next ==
  /\ \/ Start \/ Resume
     \/ \E k \in Items : Item(k)
     \/ TimerFires \/ Gather \/ After
     \/ UserCancel \/ Shutdown \/ Crash
  /\ UNCHANGED tolerant

Spec == Init /\ [][Next]_<<tolerant, vars>>

\* The event loop runs every coroutine and timer that can go on, and steps end.
Fairness ==
  /\ \A k \in Items : WF_vars(Item(k))
  /\ WF_vars(TimerFires) /\ WF_vars(Gather) /\ WF_vars(After)

FairSpec == Spec /\ Fairness

-----------------------------------------------------------------------------
\* Every variable keeps its type.
TypeOK ==
  /\ tolerant \in BOOLEAN
  /\ pc \in {"idle", "map", "after"}
  /\ local \in ParentState /\ parent \in ParentState
  /\ items \in [Items -> ItemState \cup {NoItem}]
  /\ unsaved \subseteq Items
  /\ current \in [Items -> ItemState \cup {NoItem}]
  /\ stage \in [Items -> Stages]
  /\ timer \in {"never", "off", "on"}
  /\ disk \in ParentState \cup {NoState}
  /\ latest \in ParentState \cup {NoState}
  /\ sparing \in BOOLEAN /\ entries \in 0 .. MaxEntries

\* How far a saved state has the Run, and within the map an item.
Position(s) == 2 * s.round + (IF s.at = "after" THEN 1 ELSE 0)
Progress(s, k) ==
  IF s.states[k] = NoItem THEN 0
  ELSE s.states[k].done + (IF s.states[k].status = "completed" THEN 1 ELSE 0)

MovesForward(s, t) ==
  \/ Position(s) < Position(t)
  \/ Position(s) = Position(t)
     /\ \A k \in Items : Progress(s, k) <= Progress(t, k)

\* No save takes the Run, or an item, back behind an earlier one: neither a
\* timed save, nor a sibling's failure, nor a cancel, shutdown or resume.  The
\* one exception is a result that is missing from a reused item.
SavesMoveForward ==
  [][ \/ disk = NoState \/ MovesForward(disk, disk') \/ ResultMissing ]_vars

\* After the map every item has either an error or a result of this very
\* round, and no item is left to be taken for one of the next round.
EveryItemAccounted ==
  pc = "after" =>
    /\ \A k \in Items : local.results[k] = IF k \in local.errors THEN None
                                           ELSE local.round
    /\ local.states = NoStates

\* Items that wait for each other's slot all end, and so does the action.
MapEnds == pc = "map" ~> pc # "map"

\* The part of MapEnds that no scheduling is needed for: no more items execute
\* than the semaphore has slots, and until all have ended one of them executes
\* or has a slot to begin in (_execute_map).
SlotsSuffice ==
  pc = "map" =>
    /\ Cardinality(Executing) <= Limit
    /\ \/ Gathered
       \/ \E k \in Items : stage[k] = "executing"
       \/ Cardinality(Executing) < Limit /\ \E k \in Items : stage[k] = "queued"

\* Whatever an item does brings it nearer to its end, and neither another item
\* nor a timed save takes one farther from its own.
StepsToEnd(k) ==
  IF stage[k] = "queued" THEN Steps + 2
  ELSE IF stage[k] = "executing" THEN Steps + 1 - current[k].done ELSE 0

ItemsAdvance ==
  [][ /\ \A k \in Items : Item(k) =>
           /\ StepsToEnd(k)' < StepsToEnd(k)
           /\ \A j \in Items \ {k} : StepsToEnd(j)' = StepsToEnd(j)
      /\ TimerFires => \A k \in Items : StepsToEnd(k)' = StepsToEnd(k) ]_vars

\* "When errors_variable is declared, item failures are recorded there and the
\* remaining items still complete" (models.py): only a cancel fails the Run.
\* The code does not keep this: a reused item without its output fails it.
TolerantMapNeverFails ==
  [][ tolerant /\ disk' # disk /\ disk'.status = "failed" => UserCancel ]_vars

\* The saved status behaves as RunStatus promises, through the action and its
\* items: what the plan's other actions keep is kept here.
Promise ==
  INSTANCE RunStatus WITH status <- IF disk = NoState THEN "absent"
                                                      ELSE disk.status
StatusPromised == Promise!Spec

-----------------------------------------------------------------------------
\* The inductive invariant behind the properties, in named parts.

\* One state of an item is the other, or one it comes to later.
Upto(x, y) ==
  x # NoItem => /\ y # NoItem /\ x.done <= y.done
                /\ x.status = "completed" => y.status = "completed"

OfRound(item, round) == item # NoItem => item.round = round

\* The items of a state are of its round; after the map there are none.
SavedSound(s) ==
  /\ \A k \in Items : OfRound(s.states[k], s.round)
  /\ s.at = "after" =>
       /\ s.states = NoStates
       /\ \A k \in Items : s.results[k] = IF k \in s.errors THEN None ELSE s.round

\* MovesForward without the arithmetic of a sum.
AtMost(s, t) ==
  \/ Position(s) < Position(t)
  \/ s.round = t.round /\ s.at = t.at /\ \A k \in Items : Upto(s.states[k], t.states[k])

\* The newest checkpoint is sound, and the disk is never ahead of it; only a
\* map in progress has a timer.
CheckpointSound ==
  IF pc = "idle" THEN timer = "never"
  ELSE /\ disk # NoState /\ latest \in ParentState
       /\ local.status = "running" /\ SavedSound(local)
       /\ latest.status = "running" /\ SavedSound(latest)
       /\ local.at = IF pc = "map" THEN "map" ELSE "after"
       /\ latest.at = local.at /\ latest.round = local.round
       /\ AtMost(disk, latest)
       /\ pc = "after" => latest = local /\ timer = "never"

\* What was saved of an item, what the next save has of it and its own state
\* follow each other, and agree with its coroutine.
ItemSound(k) ==
  /\ Upto(latest.states[k], items[k]) /\ Upto(items[k], current[k])
  /\ OfRound(items[k], local.round) /\ OfRound(current[k], local.round)
  /\ stage[k] # "off"
  /\ stage[k] = "queued" =>
       /\ current[k] = local.states[k]
       /\ current[k] # NoItem => current[k].status # "completed"
  /\ stage[k] = "executing" => current[k] # NoItem /\ current[k].status = "running"
  /\ stage[k] = "returned" => items[k] # NoItem

MapInv ==
  /\ TypeOK /\ CheckpointSound
  /\ disk # NoState => SavedSound(disk)
  /\ pc = "map" => parent = local /\ \A k \in Items : ItemSound(k)
=============================================================================
