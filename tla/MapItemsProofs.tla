---------------------------- MODULE MapItemsProofs ----------------------------
(***************************************************************************)
(* Proofs about MapItems for any set of items, any number of steps and     *)
(* slots, and any number of rounds and executions: no save, by the timer,  *)
(* at once, or by whoever ends the execution, takes the Run or one of its  *)
(* items back, and after the map every item has its result or its error.   *)
(***************************************************************************)
EXTENDS MapItems, FiniteSetTheorems, TLAPS

USE MapAssumption, NoneAssumption DEF None

Maybe == ItemState \cup {NoItem}

\* What follows on the disk is not behind what was there.
DiskForward == disk # NoState => disk' # NoState /\ AtMost(disk, disk')

LEMMA UptoItself ==
  ASSUME NEW x \in Maybe
  PROVE  Upto(x, x)
BY DEF Upto, Maybe, ItemState

LEMMA UptoBoth ==
  ASSUME NEW x \in Maybe, NEW y \in Maybe, NEW z \in Maybe, Upto(x, y), Upto(y, z)
  PROVE  Upto(x, z)
BY DEF Upto, Maybe, ItemState

LEMMA ParentFields ==
  ASSUME NEW s \in ParentState
  PROVE  /\ s.states \in [Items -> Maybe] /\ \A k \in Items : s.states[k] \in Maybe
         /\ s.round \in Nat /\ s.at \in {"map", "after"} /\ Position(s) \in Nat
         /\ s # NoState
BY DEF ParentState, Maybe, Rounds, Position

LEMMA AtMostItself ==
  ASSUME NEW s \in ParentState
  PROVE  AtMost(s, s)
BY ParentFields, UptoItself DEF AtMost

LEMMA AtMostBoth ==
  ASSUME NEW s \in ParentState, NEW t \in ParentState, NEW u \in ParentState,
         AtMost(s, t), AtMost(t, u)
  PROVE  AtMost(s, u)
<1>1. Position(s) \in Nat /\ Position(t) \in Nat /\ Position(u) \in Nat
  BY ParentFields
<1>2. s.round = t.round /\ s.at = t.at => Position(s) = Position(t)
  BY DEF Position
<1>3. t.round = u.round /\ t.at = u.at => Position(t) = Position(u)
  BY DEF Position
<1>4. CASE Position(s) < Position(t) \/ Position(t) < Position(u)
  <2>1. Position(s) < Position(u)
    BY <1>1, <1>2, <1>3, <1>4 DEF AtMost
  <2> QED BY <2>1 DEF AtMost
<1>5. CASE ~ (Position(s) < Position(t)) /\ ~ (Position(t) < Position(u))
  <2>1. /\ s.round = u.round /\ s.at = u.at
        /\ \A k \in Items : Upto(s.states[k], t.states[k]) /\ Upto(t.states[k], u.states[k])
    BY <1>5 DEF AtMost
  <2>2. \A k \in Items : Upto(s.states[k], u.states[k])
    BY <2>1, ParentFields, UptoBoth
  <2> QED BY <2>1, <2>2 DEF AtMost
<1> QED BY <1>4, <1>5

\* A final status changes nothing of a state's soundness and position.
LEMMA StatusKeeps ==
  ASSUME NEW s \in ParentState, NEW status \in {"running", "failed", "completed"}
  PROVE  LET t == [s EXCEPT !.status = status]
         IN  /\ t \in ParentState /\ t.status = status
             /\ t.states = s.states /\ t.round = s.round /\ t.at = s.at
             /\ SavedSound(s) => SavedSound(t)
             /\ AtMost(s, t)
<1> DEFINE t == [s EXCEPT !.status = status]
<1>1. /\ t \in ParentState /\ t.status = status
      /\ t.states = s.states /\ t.round = s.round /\ t.at = s.at
      /\ t.results = s.results /\ t.errors = s.errors
  BY DEF ParentState
<1>2. \A k \in Items : Upto(s.states[k], t.states[k])
  BY <1>1, ParentFields, UptoItself
<1>3. AtMost(s, t)
  BY <1>1, <1>2 DEF AtMost
<1>4. SavedSound(s) => SavedSound(t)
  BY <1>1 DEF SavedSound
<1> QED BY <1>1, <1>3, <1>4

-----------------------------------------------------------------------------
\* The map, or what is after it, is entered with state s saved, or held back
\* behind a disk that is not ahead of it (workflow_host.py).
LEMMA EnterKeeps ==
  ASSUME MapInv, UNCHANGED tolerant, NEW s \in ParentState, s.status = "running", SavedSound(s),
         IF s.at = "map" THEN EnterMap(s) ELSE EnterAfter(s),
         latest' = s, disk' \in ParentState, sparing' \in BOOLEAN,
         entries' \in 0 .. MaxEntries, SavedSound(disk'), AtMost(disk', s)
  PROVE  MapInv'
<1>1. s.at \in {"map", "after"} /\ s.states \in [Items -> Maybe] /\ s # NoState /\ disk' # NoState
  BY ParentFields
<1>2. local' = s /\ parent' = s /\ pc' = (IF s.at = "map" THEN "map" ELSE "after")
        /\ timer' = "never" /\ unsaved' = {}
  BY <1>1 DEF EnterMap, EnterAfter, LeaveMap
<1>3. CASE s.at = "map"
  <2>1. /\ items' = s.states /\ current' = s.states
        /\ stage' = [k \in Items |-> IF s.states[k] # NoItem /\ s.states[k].status = "completed"
                                     THEN "returned" ELSE "queued"]
    BY <1>3 DEF EnterMap
  <2>2. stage' \in [Items -> Stages]
    BY <2>1 DEF Stages
  <2>3. TypeOK'
    BY <1>1, <1>2, <2>1, <2>2 DEF MapInv, TypeOK, Maybe
  <2>4. CheckpointSound'
    BY <1>1, <1>2, <1>3 DEF CheckpointSound, SavedSound, AtMost, OfRound, Position
  <2>5. ASSUME NEW k \in Items PROVE ItemSound(k)'
    <3>1. s.states[k] \in Maybe /\ Upto(s.states[k], s.states[k])
      BY <1>1, UptoItself
    <3>2. latest'.states[k] = s.states[k] /\ items'[k] = s.states[k] /\ current'[k] = s.states[k]
            /\ OfRound(s.states[k], s.round)
      BY <2>1 DEF SavedSound
    <3>3. stage'[k] = IF s.states[k] # NoItem /\ s.states[k].status = "completed"
                      THEN "returned" ELSE "queued"
      BY <2>1
    <3> QED BY <1>2, <3>1, <3>2, <3>3 DEF ItemSound
  <2>6. (disk # NoState => SavedSound(disk))'
    BY DEF SavedSound, OfRound
  <2> QED BY <1>2, <2>3, <2>4, <2>5, <2>6 DEF MapInv
<1>4. CASE s.at = "after"
  <2>1. items' = NoStates /\ current' = NoStates /\ stage' = Off /\ pc' = "after"
    BY <1>4 DEF EnterAfter, LeaveMap
  <2>2. TypeOK'
    BY <1>1, <1>2, <2>1 DEF MapInv, TypeOK, NoStates, Off, Stages
  <2>3. CheckpointSound'
    BY <1>1, <1>2, <1>4, <2>1 DEF CheckpointSound, SavedSound, AtMost, OfRound, Position
  <2>4. (disk # NoState => SavedSound(disk))'
    BY DEF SavedSound, OfRound
  <2> QED BY <2>1, <2>2, <2>3, <2>4 DEF MapInv
<1> QED BY <1>1, <1>3, <1>4

\* An execution that ends leaves a sound state, whoever wrote it.
LEMMA LeaveKeeps ==
  ASSUME MapInv, UNCHANGED tolerant, Leave, disk' \in ParentState, SavedSound(disk')
  PROVE  MapInv'
<1>1. TypeOK'
  BY DEF MapInv, TypeOK, Leave, LeaveMap, NoStates, Off, Stages
<1>2. CheckpointSound'
  BY DEF Leave, LeaveMap, CheckpointSound
<1>3. (disk # NoState => SavedSound(disk))'
  BY DEF SavedSound, OfRound
<1> QED BY <1>1, <1>2, <1>3 DEF MapInv, Leave

\* What a save of the map's items writes: the parent with them in it.
LEMMA ViewSound ==
  ASSUME MapInv, pc = "map", NEW saved \in [Items -> Maybe],
         \A k \in Items : Upto(items[k], saved[k]) /\ OfRound(saved[k], local.round)
  PROVE  /\ View(saved) \in ParentState /\ View(saved).states = saved
         /\ View(saved).status = "running" /\ View(saved).at = "map"
         /\ View(saved).round = local.round /\ SavedSound(View(saved))
         /\ AtMost(latest, View(saved)) /\ AtMost(disk, View(saved))
<1>1. /\ local \in ParentState /\ parent = local /\ local.status = "running" /\ local.at = "map"
      /\ latest \in ParentState /\ latest.at = "map" /\ latest.round = local.round
      /\ disk \in ParentState /\ AtMost(disk, latest)
      /\ items \in [Items -> Maybe]
      /\ \A k \in Items : Upto(latest.states[k], items[k])
  BY DEF MapInv, TypeOK, CheckpointSound, ItemSound, Maybe
<1>2. /\ View(saved) \in ParentState /\ View(saved).states = saved
      /\ View(saved).status = "running" /\ View(saved).at = "map"
      /\ View(saved).round = local.round
  BY <1>1 DEF View, ParentState, Maybe
<1>3. SavedSound(View(saved))
  BY <1>2 DEF SavedSound
<1>4. \A k \in Items : Upto(latest.states[k], saved[k])
  BY <1>1, ParentFields, UptoBoth
<1>5. AtMost(latest, View(saved))
  BY <1>1, <1>2, <1>4 DEF AtMost
<1> QED BY <1>1, <1>2, <1>3, <1>5, AtMostBoth

\* A save of the items, at once, by the timer, or of a state that its own
\* snapshot in memory is ahead of.
LEMMA SaveKeeps ==
  ASSUME MapInv, pc = "map", UNCHANGED <<tolerant, pc, local, parent, sparing, entries>>,
         NEW saved \in [Items -> Maybe], Save(View(saved)),
         \A k \in Items : Upto(items[k], saved[k]) /\ OfRound(saved[k], local.round),
         items' \in [Items -> Maybe], current' \in [Items -> Maybe], unsaved' \subseteq Items,
         timer' \in {"off", "on"}, stage' \in [Items -> Stages],
         latest'.states = saved => \A k \in Items : ItemSound(k)'
  PROVE  MapInv' /\ DiskForward
<1> DEFINE view == View(saved)
<1>1. /\ view \in ParentState /\ view.states = saved
      /\ view.status = "running" /\ view.at = "map"
      /\ view.round = local.round /\ SavedSound(view)
      /\ AtMost(latest, view) /\ AtMost(disk, view)
  BY ViewSound
<1>2. latest' = view /\ disk' \in {disk, view}
  BY DEF Save
<1>3. disk \in ParentState /\ SavedSound(disk) /\ local \in ParentState
        /\ local.status = "running" /\ local.at = "map" /\ SavedSound(local) /\ parent = local
  BY DEF MapInv, TypeOK, CheckpointSound
<1> HIDE DEF view
<1>4. disk' \in ParentState /\ disk' # NoState /\ SavedSound(disk') /\ AtMost(disk', view)
        /\ AtMost(disk, disk')
  <2>1. CASE disk' = disk
    BY <1>1, <1>3, <2>1, ParentFields, AtMostItself
  <2>2. CASE disk' = view
    BY <1>1, <2>2, ParentFields, AtMostItself
  <2> QED BY <1>2, <2>1, <2>2
<1>5. TypeOK'
  BY <1>1, <1>2, <1>4 DEF MapInv, TypeOK, Maybe
<1>6. CheckpointSound'
  <2>1. SavedSound(local)' /\ SavedSound(latest)' /\ AtMost(disk, latest)'
    BY <1>1, <1>2, <1>3, <1>4 DEF SavedSound, AtMost, OfRound, Position
  <2> QED BY <1>1, <1>2, <1>3, <1>4, <2>1 DEF CheckpointSound
<1>7. (disk # NoState => SavedSound(disk))'
  BY <1>4 DEF SavedSound, OfRound
<1> QED BY <1>1, <1>2, <1>3, <1>4, <1>5, <1>6, <1>7 DEF MapInv, DiskForward

\* Steps within the map that save nothing.
LEMMA HoldKeeps ==
  ASSUME MapInv, pc = "map",
         UNCHANGED <<tolerant, pc, local, parent, sparing, entries, items, disk, latest>>,
         current' \in [Items -> Maybe], unsaved' \subseteq Items,
         timer' \in {"never", "off", "on"}, stage' \in [Items -> Stages],
         \A k \in Items : ItemSound(k)'
  PROVE  MapInv' /\ DiskForward
<1>1. TypeOK'
  BY DEF MapInv, TypeOK, Maybe
<1>2. CheckpointSound'
  BY DEF MapInv, CheckpointSound, SavedSound, AtMost, OfRound, Position, Upto
<1>3. (disk # NoState => SavedSound(disk))'
  BY DEF MapInv, SavedSound, OfRound
<1>4. DiskForward
  BY ParentFields, AtMostItself DEF DiskForward, MapInv, TypeOK
<1> QED BY <1>1, <1>2, <1>3, <1>4 DEF MapInv

-----------------------------------------------------------------------------
\* save_items: what is newer of the keys' states replaces what was saved.
LEMMA SaveItemsKeeps ==
  ASSUME MapInv, pc = "map", UNCHANGED <<tolerant, pc, local, parent, sparing, entries>>,
         NEW keys \in SUBSET Items, SaveItems(keys),
         current' \in [Items -> Maybe], stage' \in [Items -> Stages],
         \A k \in Items :
           /\ Upto(current[k], current'[k]) /\ OfRound(current'[k], local.round)
           /\ stage'[k] # "off"
           /\ stage'[k] = "queued" =>
                current'[k] = local.states[k]
                  /\ (current'[k] # NoItem => current'[k].status # "completed")
           /\ stage'[k] = "executing" => current'[k] # NoItem /\ current'[k].status = "running"
           /\ stage'[k] = "returned" => items[k] # NoItem \/ (k \in keys /\ current'[k] # NoItem)
  PROVE  MapInv' /\ DiskForward
<1>1. /\ items \in [Items -> Maybe] /\ current \in [Items -> Maybe]
      /\ \A k \in Items : Upto(items[k], current[k]) /\ OfRound(items[k], local.round)
  BY DEF MapInv, TypeOK, ItemSound, Maybe
<1>2. /\ items' \in [Items -> Maybe] /\ unsaved' = {} /\ timer' = "off"
      /\ Save(View(items'))
      /\ \A k \in Items : items'[k] = IF k \in keys THEN current'[k] ELSE items[k]
  BY <1>1 DEF SaveItems
<1>3. \A k \in Items : /\ Upto(items[k], current'[k]) /\ Upto(current'[k], current'[k])
                       /\ Upto(items[k], items[k])
  BY <1>1, UptoItself, UptoBoth
<1>4. \A k \in Items : /\ Upto(items[k], items'[k]) /\ OfRound(items'[k], local.round)
                       /\ Upto(items'[k], current'[k]) /\ Upto(items'[k], items'[k])
  BY <1>1, <1>2, <1>3, UptoItself
<1>5. ASSUME latest'.states = items', NEW k \in Items PROVE ItemSound(k)'
  <2>1. stage'[k] = "returned" => items'[k] # NoItem
    BY <1>2, <1>3 DEF Upto
  <2> QED BY <1>4, <1>5, <2>1 DEF ItemSound
<1> QED BY <1>2, <1>4, <1>5, SaveKeeps

\* checkpoint_item: an item goes on, and is saved at once or by the timer.
LEMMA CheckpointKeeps ==
  ASSUME MapInv, pc = "map", UNCHANGED <<tolerant, pc, local, parent, sparing, entries>>,
         NEW k \in Items, NEW item \in ItemState, Checkpoint(k, item),
         Upto(current[k], item), item.round = local.round,
         NEW at \in {"executing", "returned", "failed", "raised"},
         stage' = [stage EXCEPT ![k] = at],
         at = "executing" => item.status = "running",
         at = "returned" => item.status = "completed"
  PROVE  MapInv' /\ DiskForward
<1>1. /\ current \in [Items -> Maybe] /\ stage \in [Items -> Stages]
      /\ unsaved \subseteq Items /\ items \in [Items -> Maybe]
      /\ \A j \in Items : ItemSound(j)
  BY DEF MapInv, TypeOK, Maybe
<1>2. /\ current' = [current EXCEPT ![k] = item]
      /\ \/ SaveItems(unsaved \cup {k})
         \/ item.status = "running" /\ HoldItems(unsaved \cup {k})
  BY DEF Checkpoint
<1>3. /\ current' \in [Items -> Maybe] /\ current'[k] = item /\ item # NoItem
      /\ stage' \in [Items -> Stages] /\ stage'[k] = at
      /\ \A j \in Items : j # k => current'[j] = current[j] /\ stage'[j] = stage[j]
  BY <1>1, <1>2 DEF Maybe, Stages
<1>4. \A j \in Items : Upto(current[j], current'[j]) /\ OfRound(current'[j], local.round)
  BY <1>1, <1>3, UptoItself DEF ItemSound, OfRound
<1>5. CASE SaveItems(unsaved \cup {k})
  <2>1. ASSUME NEW j \in Items
        PROVE  /\ stage'[j] # "off"
               /\ stage'[j] = "queued" =>
                    current'[j] = local.states[j]
                      /\ (current'[j] # NoItem => current'[j].status # "completed")
               /\ stage'[j] = "executing" => current'[j] # NoItem /\ current'[j].status = "running"
               /\ stage'[j] = "returned" =>
                    items[j] # NoItem \/ (j \in unsaved \cup {k} /\ current'[j] # NoItem)
    <3>1. ItemSound(j)
      BY <1>1
    <3>2. CASE j = k
      BY <1>3, <3>2
    <3>3. CASE j # k
      BY <1>3, <3>1, <3>3 DEF ItemSound
    <3> QED BY <3>2, <3>3
  <2>2. unsaved \cup {k} \in SUBSET Items
    BY <1>1
  <2> QED BY <1>3, <1>4, <1>5, <2>1, <2>2, SaveItemsKeeps
<1>6. CASE item.status = "running" /\ HoldItems(unsaved \cup {k})
  <2>1. unsaved' \subseteq Items /\ timer' = "on" /\ UNCHANGED <<items, disk, latest>>
    BY <1>1, <1>6 DEF HoldItems
  <2>2. ASSUME NEW j \in Items PROVE ItemSound(j)'
    <3>1. ItemSound(j)
      BY <1>1
    <3>2. Upto(items[j], current'[j])
      BY <1>1, <1>3, <1>4, <3>1, UptoBoth DEF ItemSound
    <3>3. CASE j = k
      BY <1>3, <1>4, <1>6, <2>1, <3>1, <3>2, <3>3 DEF ItemSound
    <3>4. CASE j # k
      BY <1>3, <1>4, <2>1, <3>1, <3>2, <3>4 DEF ItemSound
    <3> QED BY <3>3, <3>4
  <2> QED BY <1>3, <2>1, <2>2, HoldKeeps
<1> QED BY <1>2, <1>5, <1>6

LEMMA BeginItemKeeps ==
  ASSUME MapInv, UNCHANGED tolerant, NEW k \in Items, BeginItem(k)
  PROVE  MapInv' /\ DiskForward
<1> DEFINE from == SavedOrFresh(k)
<1>1. /\ pc = "map" /\ stage[k] = "queued" /\ Checkpoint(k, from)
      /\ stage' = [stage EXCEPT ![k] = "executing"]
      /\ UNCHANGED <<pc, local, parent, sparing, entries>>
      /\ local \in ParentState /\ ItemSound(k)
  BY DEF BeginItem, MapInv, TypeOK
<1>2. /\ local.states[k] \in Maybe /\ local.round \in Rounds
      /\ current[k] = local.states[k] /\ OfRound(current[k], local.round)
      /\ current[k] # NoItem => current[k].status # "completed"
  BY <1>1, ParentFields DEF ItemSound, ParentState
<1>3. /\ from \in ItemState /\ from.status = "running" /\ from.round = local.round
      /\ current[k] # NoItem => from.done = current[k].done
  BY <1>2 DEF SavedOrFresh, Fresh, Maybe, ItemState, OfRound
<1> HIDE DEF from
<1>4. Upto(current[k], from)
  BY <1>2, <1>3 DEF Upto, ItemState
<1> QED BY <1>1, <1>3, <1>4, CheckpointKeeps

\* What an executing item is.
LEMMA ExecutingItem ==
  ASSUME MapInv, NEW k \in Items, Runs(k)
  PROVE  /\ pc = "map" /\ current[k] \in ItemState /\ current[k].status = "running"
         /\ current[k].round = local.round /\ stage \in [Items -> Stages]
BY DEF Runs, MapInv, TypeOK, ItemSound, OfRound, Maybe

LEMMA ItemGoesOn ==
  ASSUME MapInv, UNCHANGED tolerant, NEW k \in Items,
         StepSucceeds(k) \/ ItemCompletes(k) \/ ItemWaits(k) \/ StepFails(k)
  PROVE  MapInv' /\ DiskForward
<1>1. /\ pc = "map" /\ current[k] \in ItemState /\ current[k].status = "running"
      /\ current[k].round = local.round /\ stage \in [Items -> Stages] /\ stage[k] = "executing"
      /\ UNCHANGED <<pc, local, parent, sparing, entries>>
  BY ExecutingItem DEF StepSucceeds, ItemCompletes, ItemWaits, StepFails, EndItem, Runs
<1>2. CASE StepSucceeds(k)
  <2> DEFINE next == [current[k] EXCEPT !.done = @ + 1]
  <2>1. Checkpoint(k, next) /\ stage' = [stage EXCEPT ![k] = "executing"]
          /\ current[k].done < Steps
    BY <1>1, <1>2 DEF StepSucceeds
  <2>2. next \in ItemState /\ next.status = "running" /\ next.round = local.round
          /\ Upto(current[k], next)
    BY <1>1, <2>1 DEF ItemState, Upto
  <2> HIDE DEF next
  <2> QED BY <1>1, <2>1, <2>2, CheckpointKeeps
<1>3. ASSUME NEW status \in {"completed", "waiting", "failed"},
             NEW ending \in {"returned", "raised", "failed"}, EndItem(k, status, ending),
             ending = "returned" => status = "completed"
      PROVE  MapInv' /\ DiskForward
  <2> DEFINE next == [current[k] EXCEPT !.status = status]
  <2>1. Checkpoint(k, next) /\ stage' = [stage EXCEPT ![k] = ending]
    BY <1>3 DEF EndItem
  <2>2. next \in ItemState /\ next.status = status /\ next.round = local.round
          /\ Upto(current[k], next)
    BY <1>1 DEF ItemState, Upto
  <2> HIDE DEF next
  <2> QED BY <1>1, <1>3, <2>1, <2>2, CheckpointKeeps
<1>4. CASE ItemCompletes(k)
  <2>1. ReturnOrRaise(k) \in {"returned", "raised"}
    BY DEF ReturnOrRaise
  <2> QED BY <1>3, <1>4, <2>1 DEF ItemCompletes
<1>5. CASE ItemWaits(k)
  BY <1>3, <1>5 DEF ItemWaits
<1>6. CASE StepFails(k)
  BY <1>3, <1>6 DEF StepFails
<1> QED BY <1>2, <1>4, <1>5, <1>6

\* The saved state of an item past max_iterations has it failed, the snapshot
\* that follows has not: what was saved is still behind what is kept.
LEMMA ItemExceedsKeeps ==
  ASSUME MapInv, UNCHANGED tolerant, NEW k \in Items, ItemExceeds(k)
  PROVE  MapInv' /\ DiskForward
<1> DEFINE exceeded == [current[k] EXCEPT !.status = "failed"]
           saved    == [j \in Items |-> IF j = k THEN exceeded
                                        ELSE IF j \in unsaved THEN current[j]
                                        ELSE items[j]]
           snapshot == IF HasOutput(k, current[k])
                       THEN [exceeded EXCEPT !.status = "completed"]
                       ELSE exceeded
<1>1. /\ pc = "map" /\ current[k] \in ItemState /\ current[k].status = "running"
      /\ current[k].round = local.round /\ stage \in [Items -> Stages]
      /\ items \in [Items -> Maybe] /\ current \in [Items -> Maybe]
      /\ \A j \in Items : ItemSound(j)
      /\ UNCHANGED <<pc, local, parent, sparing, entries>>
  BY ExecutingItem DEF ItemExceeds, MapInv, TypeOK, Maybe
<1>2. /\ exceeded \in ItemState /\ exceeded.round = local.round /\ exceeded.status = "failed"
      /\ Upto(current[k], exceeded)
  BY <1>1 DEF ItemState, Upto
<1>3. /\ snapshot \in ItemState /\ snapshot.round = local.round /\ snapshot # NoItem
      /\ Upto(exceeded, snapshot)
  BY <1>1, <1>2 DEF ItemState, Upto
<1>4. /\ saved \in [Items -> Maybe] /\ saved[k] = exceeded
      /\ \A j \in Items : j # k => saved[j] = IF j \in unsaved THEN current[j] ELSE items[j]
  BY <1>1, <1>2 DEF Maybe
<1>5. /\ items' = [saved EXCEPT ![k] = snapshot]
      /\ current' = [current EXCEPT ![k] = snapshot]
      /\ unsaved' = {} /\ timer' = "off" /\ Save(View(saved))
      /\ stage' = [stage EXCEPT ![k] = ReturnOrRaise(k)]
  BY DEF ItemExceeds
<1> HIDE DEF exceeded, saved, snapshot
<1>6. /\ items' \in [Items -> Maybe] /\ items'[k] = snapshot
      /\ current' \in [Items -> Maybe] /\ current'[k] = snapshot
      /\ stage' \in [Items -> Stages] /\ stage'[k] \in {"returned", "raised"}
      /\ \A j \in Items : j # k => /\ items'[j] = saved[j] /\ current'[j] = current[j]
                                   /\ stage'[j] = stage[j]
  BY <1>1, <1>3, <1>4, <1>5 DEF Maybe, Stages, ReturnOrRaise
<1>7. \A j \in Items : /\ items[j] \in Maybe /\ current[j] \in Maybe
                       /\ Upto(items[j], items[j]) /\ Upto(current[j], current[j])
  BY <1>1, UptoItself
<1>8. \A j \in Items : Upto(items[j], saved[j]) /\ OfRound(saved[j], local.round)
  <2> SUFFICES ASSUME NEW j \in Items PROVE Upto(items[j], saved[j]) /\ OfRound(saved[j], local.round)
    OBVIOUS
  <2>1. Upto(items[j], current[j]) /\ OfRound(items[j], local.round) /\ OfRound(current[j], local.round)
    BY <1>1 DEF ItemSound
  <2>2. CASE j = k
    <3>1. exceeded \in Maybe
      BY <1>2 DEF Maybe
    <3>2. Upto(items[k], exceeded)
      BY <1>2, <1>7, <2>1, <2>2, <3>1, UptoBoth
    <3> QED BY <1>2, <1>4, <2>2, <3>2 DEF OfRound
  <2>3. CASE j # k
    BY <1>4, <1>7, <2>1, <2>3
  <2> QED BY <2>2, <2>3
<1>9. ASSUME latest'.states = saved, NEW j \in Items PROVE ItemSound(j)'
  <2>1. ItemSound(j)
    BY <1>1
  <2>2. CASE j = k
    <3>1. Upto(snapshot, snapshot)
      BY <1>3, UptoItself DEF Maybe
    <3> QED BY <1>1, <1>3, <1>4, <1>6, <1>9, <2>2, <3>1 DEF ItemSound, OfRound
  <2>3. CASE j # k
    <3>1. saved[j] \in Maybe /\ Upto(saved[j], saved[j])
      BY <1>4, UptoItself
    <3>2. Upto(saved[j], current[j])
      BY <1>4, <1>7, <2>1, <2>3 DEF ItemSound
    <3>3. stage[j] = "returned" => saved[j] # NoItem
      BY <1>4, <1>7, <2>1, <2>3 DEF ItemSound, Upto
    <3> QED BY <1>1, <1>6, <1>8, <1>9, <2>1, <2>3, <3>1, <3>2, <3>3 DEF ItemSound
  <2> QED BY <2>2, <2>3
<1> QED BY <1>1, <1>4, <1>5, <1>6, <1>8, <1>9, SaveKeeps

LEMMA ItemRaisesKeeps ==
  ASSUME MapInv, UNCHANGED tolerant, NEW k \in Items, ItemRaises(k)
  PROVE  MapInv' /\ DiskForward
<1>1. /\ pc = "map" /\ stage \in [Items -> Stages] /\ stage' = [stage EXCEPT ![k] = "raised"]
      /\ UNCHANGED <<pc, local, parent, items, unsaved, current, timer, disk, latest, sparing, entries>>
  BY DEF ItemRaises, Runs, MapInv, TypeOK
<1>2. stage' \in [Items -> Stages] /\ stage'[k] = "raised"
        /\ \A j \in Items : j # k => stage'[j] = stage[j]
  BY <1>1 DEF Stages
<1>3. ASSUME NEW j \in Items PROVE ItemSound(j)'
  BY <1>1, <1>2 DEF MapInv, ItemSound
<1> QED BY <1>1, <1>2, <1>3, HoldKeeps DEF MapInv, TypeOK, Maybe

LEMMA TimerKeeps ==
  ASSUME MapInv, UNCHANGED tolerant, TimerFires
  PROVE  MapInv' /\ DiskForward
<1>1. /\ pc = "map" /\ unsaved \in SUBSET Items /\ SaveItems(unsaved)
      /\ current' = current /\ stage' = stage
      /\ UNCHANGED <<pc, local, parent, sparing, entries>>
      /\ current \in [Items -> Maybe] /\ stage \in [Items -> Stages]
      /\ \A k \in Items : ItemSound(k)
  BY DEF TimerFires, MapInv, TypeOK, CheckpointSound, Maybe
<1>2. \A k \in Items : Upto(current[k], current[k])
  BY <1>1, UptoItself
<1> QED BY <1>1, <1>2, SaveItemsKeeps DEF ItemSound

-----------------------------------------------------------------------------
\* What execute writes last, past the throttle, from a sound state.
LEMMA FinalSaveKeeps ==
  ASSUME MapInv, UNCHANGED tolerant, Leave, NEW s \in ParentState, SavedSound(s),
         NEW status \in {"failed", "completed"}, disk' = [s EXCEPT !.status = status]
  PROVE  MapInv' /\ disk' \in ParentState /\ AtMost(s, disk')
<1>1. disk' \in ParentState /\ SavedSound(disk') /\ AtMost(s, disk')
  BY StatusKeeps
<1> QED BY <1>1, LeaveKeeps

\* A state is saved, or held back, and execution goes on from it.
LEMMA SaveAndEnterKeeps ==
  ASSUME MapInv, UNCHANGED <<tolerant, sparing, entries>>, pc # "idle",
         NEW s \in ParentState, s.status = "running", SavedSound(s),
         IF s.at = "map" THEN EnterMap(s) ELSE EnterAfter(s), Save(s), AtMost(latest, s)
  PROVE  MapInv' /\ DiskForward
<1>1. /\ disk \in ParentState /\ latest \in ParentState /\ AtMost(disk, latest)
      /\ SavedSound(disk)
  BY DEF MapInv, TypeOK, CheckpointSound
<1>2. AtMost(disk, s) /\ AtMost(disk, disk) /\ AtMost(s, s)
  BY <1>1, AtMostItself, AtMostBoth
<1>3. latest' = s /\ disk' \in {disk, s}
  BY DEF Save
<1>4. disk' \in ParentState /\ SavedSound(disk') /\ AtMost(disk', s) /\ AtMost(disk, disk')
        /\ disk' # NoState
  <2>1. CASE disk' = disk
    BY <1>1, <1>2, <2>1, ParentFields
  <2>2. CASE disk' = s
    BY <1>2, <2>2, ParentFields
  <2> QED BY <1>3, <2>1, <2>2
<1>5. sparing' \in BOOLEAN /\ entries' \in 0 .. MaxEntries
  BY DEF MapInv, TypeOK
<1>6. MapInv'
  BY <1>3, <1>4, <1>5, EnterKeeps
<1> QED BY <1>4, <1>6 DEF DiskForward

LEMMA MapSucceedsKeeps ==
  ASSUME MapInv, UNCHANGED tolerant, MapSucceeds
  PROVE  MapInv' /\ DiskForward
<1>1. /\ pc = "map" /\ EnterAfter(Collected) /\ local' = Collected /\ Save(Collected)
      /\ UNCHANGED <<sparing, entries>>
      /\ \A k \in Items : stage[k] \in Ended
  BY DEF MapSucceeds, Succeeds, Gathered, EnterAfter
<1>2. /\ local \in ParentState /\ local.status = "running" /\ local.at = "map"
      /\ items \in [Items -> Maybe] /\ local.round \in Rounds
      /\ latest \in ParentState /\ latest.at = "map" /\ latest.round = local.round
      /\ \A k \in Items : ItemSound(k)
  BY <1>1 DEF MapInv, TypeOK, CheckpointSound, Maybe, ParentState
<1>3. \A k \in Items : k \notin Errors =>
        items[k] # NoItem /\ items[k] \in ItemState /\ items[k].round = local.round
  BY <1>1, <1>2 DEF Errors, ItemSound, OfRound, Maybe
<1>4. /\ Results \in [Items -> Rounds \cup {None}]
      /\ \A k \in Items : Results[k] = IF k \in Errors THEN None ELSE local.round
  BY <1>2, <1>3 DEF Results
<1>5. Errors \in SUBSET Items /\ NoStates \in [Items -> ItemState \cup {NoItem}]
  BY DEF Errors, NoStates
<1>6. /\ Collected \in ParentState /\ Collected.status = "running" /\ Collected.at = "after"
      /\ Collected.round = local.round /\ Collected.states = NoStates
      /\ Collected.results = Results /\ Collected.errors = Errors
  BY <1>2, <1>4, <1>5 DEF Collected, ParentState
<1>7. SavedSound(Collected)
  BY <1>4, <1>6 DEF SavedSound, OfRound, NoStates
<1>8. AtMost(latest, Collected)
  <2>1. Position(latest) < Position(Collected)
    BY <1>2, <1>6 DEF Position, Rounds
  <2> QED BY <2>1 DEF AtMost
<1> QED BY <1>1, <1>6, <1>7, <1>8, SaveAndEnterKeeps

LEMMA MapAgainKeeps ==
  ASSUME MapInv, UNCHANGED tolerant, MapAgain
  PROVE  MapInv' /\ DiskForward
<1> DEFINE s == [local EXCEPT !.at = "map", !.round = @ + 1]
<1>1. /\ pc = "after" /\ local.round < MaxRounds /\ EnterMap(s) /\ local' = s /\ Save(s)
      /\ UNCHANGED <<sparing, entries>>
  BY DEF MapAgain, EnterMap
<1>2. /\ local \in ParentState /\ local.status = "running" /\ local.at = "after"
      /\ latest = local /\ SavedSound(local) /\ local.round \in Rounds
  BY <1>1 DEF MapInv, TypeOK, CheckpointSound, ParentState
<1>3. local.round + 1 \in Rounds
  BY <1>1, <1>2 DEF Rounds
<1>4. /\ s \in ParentState /\ s.status = "running" /\ s.at = "map"
      /\ s.round = local.round + 1 /\ s.states = local.states
  BY <1>2, <1>3 DEF ParentState
<1> HIDE DEF s
<1>5. SavedSound(s)
  BY <1>2, <1>4 DEF SavedSound, OfRound, NoStates
<1>6. AtMost(latest, s)
  <2>1. Position(latest) < Position(s)
    BY <1>2, <1>4 DEF Position, Rounds
  <2> QED BY <2>1 DEF AtMost
<1> QED BY <1>1, <1>4, <1>5, <1>6, SaveAndEnterKeeps

\* The execution ends: failed by its items, completed, cancelled, shut down or
\* with the process.
LEMMA EndsKeep ==
  ASSUME MapInv, UNCHANGED tolerant, MapFails \/ End \/ UserCancel \/ Shutdown \/ Crash
  PROVE  MapInv' /\ DiskForward
<1>1. pc # "idle" /\ Leave
  BY DEF MapFails, End, UserCancel, Shutdown, Crash, RecordFailure, Gathered
<1>2. /\ disk \in ParentState /\ disk # NoState /\ SavedSound(disk)
      /\ latest \in ParentState /\ SavedSound(latest) /\ AtMost(disk, latest)
      /\ local \in ParentState /\ SavedSound(local)
  BY <1>1 DEF MapInv, TypeOK, CheckpointSound
<1>3. ASSUME NEW s \in ParentState, SavedSound(s), NEW status \in {"failed", "completed"},
             disk' = [s EXCEPT !.status = status], AtMost(disk, s)
      PROVE  MapInv' /\ DiskForward
  <2>1. MapInv' /\ disk' \in ParentState /\ AtMost(s, disk')
    BY <1>1, <1>3, FinalSaveKeeps
  <2>2. AtMost(disk, disk') /\ disk' # NoState
    BY <1>2, <1>3, <2>1, AtMostBoth, ParentFields
  <2> QED BY <2>1, <2>2 DEF DiskForward
<1>4. CASE MapFails
  <2> DEFINE s == [local EXCEPT !.states = items]
  <2>1. pc = "map" /\ disk' = [s EXCEPT !.status = "failed"] /\ parent = local
    BY <1>4 DEF MapFails, Gathered, RecordFailure, MapInv
  <2>2. items \in [Items -> Maybe] /\ \A k \in Items : ItemSound(k)
    BY <2>1 DEF MapInv, TypeOK, Maybe
  <2>3. \A k \in Items : Upto(items[k], items[k]) /\ OfRound(items[k], local.round)
    BY <2>2, UptoItself DEF ItemSound
  <2>4. s = View(items)
    BY <2>1 DEF View
  <2>5. s \in ParentState /\ SavedSound(s) /\ AtMost(disk, s)
    BY <2>1, <2>2, <2>3, <2>4, ViewSound
  <2> HIDE DEF s
  <2> QED BY <1>3, <2>1, <2>5
<1>5. CASE End
  <2>1. disk' = [latest EXCEPT !.status = "completed"]
    BY <1>5 DEF End, MapInv, CheckpointSound
  <2> QED BY <1>2, <1>3, <2>1
<1>6. CASE UserCancel
  BY <1>2, <1>3, <1>6 DEF UserCancel, RecordFailure
<1>7. CASE Shutdown
  <2>1. disk' = latest
    BY <1>7 DEF Shutdown
  <2> QED BY <1>1, <1>2, <2>1, LeaveKeeps, ParentFields DEF DiskForward
<1>8. CASE Crash
  <2>1. disk' = disk
    BY <1>8 DEF Crash
  <2> QED BY <1>1, <1>2, <2>1, LeaveKeeps, AtMostItself DEF DiskForward
<1> QED BY <1>4, <1>5, <1>6, <1>7, <1>8

LEMMA ResultMissingKeeps ==
  ASSUME MapInv, UNCHANGED tolerant, ResultMissing
  PROVE  MapInv'
<1>1. Leave /\ disk' = [local EXCEPT !.status = "failed"]
        /\ local \in ParentState /\ SavedSound(local)
  BY DEF ResultMissing, Gathered, RecordFailure, MapInv, TypeOK, CheckpointSound
<1> QED BY <1>1, FinalSaveKeeps

\* An execution begins, from nothing or from what was saved.
LEMMA BeginKeeps ==
  ASSUME MapInv, UNCHANGED tolerant, NEW s \in ParentState, Begin(s), s.status = "running",
         SavedSound(s), disk # NoState => AtMost(disk, s)
  PROVE  MapInv' /\ DiskForward
<1>1. disk' = s /\ latest' = s /\ sparing' \in BOOLEAN
        /\ (IF s.at = "map" THEN EnterMap(s) ELSE EnterAfter(s))
  BY DEF Begin, Write
<1>2. entries' \in 0 .. MaxEntries
  BY DEF Begin, MapInv, TypeOK
<1>3. AtMost(disk', s) /\ disk' # NoState
  BY <1>1, AtMostItself, ParentFields
<1>4. MapInv'
  BY <1>1, <1>2, <1>3, EnterKeeps
<1> QED BY <1>1, <1>3, <1>4 DEF DiskForward

LEMMA NewRunSound == NewRun \in ParentState /\ NewRun.status = "running" /\ SavedSound(NewRun)
<1>1. NewRun \in ParentState /\ NewRun.status = "running" /\ NewRun.at = "map"
        /\ NewRun.states = NoStates
  BY DEF NewRun, ParentState, NoStates, Rounds
<1> QED BY <1>1 DEF SavedSound, OfRound, NoStates

LEMMA ExecutionsBegin ==
  ASSUME MapInv, UNCHANGED tolerant, Start \/ Resume
  PROVE  MapInv' /\ DiskForward
<1>1. CASE Start
  BY <1>1, NewRunSound, BeginKeeps DEF Start
<1>2. CASE Resume
  <2> DEFINE s == [disk EXCEPT !.status = "running"]
  <2>1. Begin(s) /\ disk \in ParentState /\ SavedSound(disk)
    BY <1>2 DEF Resume, MapInv, TypeOK
  <2>2. s \in ParentState /\ s.status = "running" /\ SavedSound(s) /\ AtMost(disk, s)
    BY <2>1, StatusKeeps
  <2> HIDE DEF s
  <2> QED BY <2>1, <2>2, BeginKeeps
<1> QED BY <1>1, <1>2

-----------------------------------------------------------------------------
LEMMA StepKeeps ==
  ASSUME MapInv, Next
  PROVE  MapInv' /\ (DiskForward \/ ResultMissing)
<1>1. UNCHANGED tolerant
  BY DEF Next
<1>2. CASE Start \/ Resume
  BY <1>1, <1>2, ExecutionsBegin
<1>3. CASE \E k \in Items : Item(k)
  <2>1. PICK k \in Items : Item(k)
    BY <1>3
  <2>2. CASE BeginItem(k)
    BY <1>1, <2>2, BeginItemKeeps
  <2>3. CASE StepSucceeds(k) \/ ItemCompletes(k) \/ ItemWaits(k) \/ StepFails(k)
    BY <1>1, <2>3, ItemGoesOn
  <2>4. CASE ItemExceeds(k)
    BY <1>1, <2>4, ItemExceedsKeeps
  <2>5. CASE ItemRaises(k)
    BY <1>1, <2>5, ItemRaisesKeeps
  <2> QED BY <2>1, <2>2, <2>3, <2>4, <2>5 DEF Item
<1>4. CASE TimerFires
  BY <1>1, <1>4, TimerKeeps
<1>5. CASE Gather
  BY <1>1, <1>5, ResultMissingKeeps, EndsKeep, MapSucceedsKeeps DEF Gather
<1>6. CASE After \/ UserCancel \/ Shutdown \/ Crash
  BY <1>1, <1>6, MapAgainKeeps, EndsKeep DEF After
<1> QED BY <1>2, <1>3, <1>4, <1>5, <1>6 DEF Next

\* The inductive invariant of a map: the items' own states, what the next save
\* has of them and what was saved follow each other, round by round.
THEOREM MapInvariant == Spec => []MapInv
<1>1. Init => MapInv
  <2> SUFFICES ASSUME Init PROVE MapInv
    OBVIOUS
  <2>1. NoStates \in [Items -> ItemState \cup {NoItem}] /\ 0 \in 0 .. MaxEntries
    BY DEF NoStates
  <2>2. TypeOK
    BY <2>1, NewRunSound DEF Init, TypeOK, Off, Stages
  <2> QED BY <2>2 DEF Init, MapInv, CheckpointSound
<1>2. MapInv /\ [Next]_<<tolerant, vars>> => MapInv'
  <2> SUFFICES ASSUME MapInv, [Next]_<<tolerant, vars>> PROVE MapInv'
    OBVIOUS
  <2>1. CASE Next
    BY <2>1, StepKeeps
  <2>2. CASE UNCHANGED <<tolerant, vars>>
    BY <2>2 DEF vars, MapInv, TypeOK, CheckpointSound, ItemSound, SavedSound, AtMost, OfRound,
                Position, Upto
  <2> QED BY <2>1, <2>2
<1> QED BY <1>1, <1>2, PTL DEF Spec

\* Every variable of the map keeps its type.
THEOREM MapTypeCorrect == Spec => []TypeOK
<1>1. MapInv => TypeOK
  BY DEF MapInv
<1> QED BY <1>1, MapInvariant, PTL

\* After the map each item has its error or its result of this very round.
THEOREM EveryItemIsAccounted == Spec => []EveryItemAccounted
<1>1. MapInv => EveryItemAccounted
  BY DEF MapInv, CheckpointSound, SavedSound, EveryItemAccounted
<1> QED BY <1>1, MapInvariant, PTL

\* Neither the timer nor any end of an execution takes a saved item back.
THEOREM EverySaveMovesForward == Spec => SavesMoveForward
<1>1. MapInv /\ MapInv' /\ DiskForward => disk = NoState \/ MovesForward(disk, disk')
  <2> SUFFICES ASSUME MapInv, MapInv', DiskForward, disk # NoState
      PROVE  MovesForward(disk, disk')
    OBVIOUS
  <2>1. disk \in ParentState /\ disk' \in ParentState /\ AtMost(disk, disk')
    BY DEF MapInv, TypeOK, DiskForward
  <2>2. CASE Position(disk) < Position(disk')
    BY <2>2 DEF MovesForward
  <2>3. CASE /\ disk.round = disk'.round /\ disk.at = disk'.at
             /\ \A k \in Items : Upto(disk.states[k], disk'.states[k])
    <3>1. Position(disk) = Position(disk')
      BY <2>3 DEF Position
    <3>2. ASSUME NEW k \in Items PROVE Progress(disk, k) <= Progress(disk', k)
      <4> DEFINE x == disk.states[k]
                 y == disk'.states[k]
      <4>1. x \in Maybe /\ y \in Maybe /\ Upto(x, y)
        BY <2>1, <2>3, ParentFields
      <4>2. Progress(disk, k) = IF x = NoItem THEN 0
                                ELSE x.done + (IF x.status = "completed" THEN 1 ELSE 0)
        BY DEF Progress
      <4>3. Progress(disk', k) = IF y = NoItem THEN 0
                                 ELSE y.done + (IF y.status = "completed" THEN 1 ELSE 0)
        BY DEF Progress
      <4> HIDE DEF x, y
      <4> QED BY <4>1, <4>2, <4>3 DEF Upto, Maybe, ItemState
    <3> QED BY <3>1, <3>2 DEF MovesForward
  <2> QED BY <2>1, <2>2, <2>3 DEF AtMost
<1>2. MapInv /\ MapInv' /\ [Next]_<<tolerant, vars>>
        => [ \/ disk = NoState \/ MovesForward(disk, disk') \/ ResultMissing ]_vars
  BY <1>1, StepKeeps
<1> QED BY <1>2, MapInvariant, PTL DEF Spec, SavesMoveForward

-----------------------------------------------------------------------------
\* The status a reader sees, which RunStatus is about.
SavedStatus == IF disk = NoState THEN "absent" ELSE disk.status

\* While an execution is under way the saved state says so.
SavedAsRunning == pc # "idle" => SavedStatus = "running"

\* Who is executing after a step has just saved the newest checkpoint, or
\* executed before and left the disk alone.
LEMMA ExecutingSaves ==
  ASSUME MapInv, Next, pc' # "idle"
  PROVE  disk' = latest' \/ (disk' = disk /\ pc # "idle")
<1>1. CASE Start \/ Resume
  BY <1>1 DEF Start, Resume, Begin, Write
<1>2. CASE \E k \in Items : Item(k)
  <2>1. PICK k \in Items : Item(k)
    BY <1>2
  <2>2. pc = "map"
    BY <2>1 DEF Item, BeginItem, StepSucceeds, ItemCompletes, ItemExceeds, ItemWaits, StepFails,
                ItemRaises, Runs
  <2>3. CASE ItemExceeds(k) \/ ItemRaises(k)
    BY <2>2, <2>3 DEF ItemExceeds, ItemRaises, Save
  <2>4. CASE BeginItem(k) \/ StepSucceeds(k) \/ ItemCompletes(k) \/ ItemWaits(k) \/ StepFails(k)
    BY <2>2, <2>4 DEF BeginItem, StepSucceeds, ItemCompletes, ItemWaits, StepFails, EndItem,
                      Checkpoint, SaveItems, HoldItems, Save
  <2> QED BY <2>1, <2>3, <2>4 DEF Item
<1>3. CASE TimerFires
  <2>1. pc # "idle"
    BY <1>3 DEF TimerFires, MapInv, CheckpointSound
  <2> QED BY <1>3, <2>1 DEF TimerFires, SaveItems, Save
<1>4. CASE Gather
  <2>1. CASE ResultMissing \/ MapFails
    BY <2>1 DEF ResultMissing, MapFails, RecordFailure, Leave
  <2>2. CASE MapSucceeds
    <3>1. pc = "map"
      BY <2>2 DEF MapSucceeds, Succeeds, Gathered
    <3> QED BY <2>2, <3>1 DEF MapSucceeds, Save
  <2> QED BY <1>4, <2>1, <2>2 DEF Gather
<1>5. CASE After \/ UserCancel \/ Shutdown \/ Crash
  BY <1>5 DEF After, MapAgain, End, UserCancel, Shutdown, Crash, RecordFailure, Leave, Save
<1> QED BY <1>1, <1>2, <1>3, <1>4, <1>5 DEF Next

\* Once there is a saved state there always is.
LEMMA SavedStateStays ==
  ASSUME MapInv, Next, disk # NoState
  PROVE  disk' # NoState
<1>1. CASE ResultMissing
  <2>1. local \in ParentState /\ disk' = [local EXCEPT !.status = "failed"]
    BY <1>1 DEF ResultMissing, RecordFailure, MapInv, TypeOK
  <2> QED BY <2>1 DEF ParentState
<1> QED BY <1>1, StepKeeps DEF DiskForward

LEMMA SavedAsRunningKept ==
  ASSUME MapInv, MapInv', SavedAsRunning, [Next]_<<tolerant, vars>>
  PROVE  SavedAsRunning'
<1>1. CASE UNCHANGED <<tolerant, vars>>
  BY <1>1 DEF vars, SavedAsRunning, SavedStatus
<1>2. CASE Next /\ pc' # "idle" /\ disk' = latest'
  <2>1. latest' \in ParentState /\ latest'.status = "running"
    BY <1>2 DEF MapInv, CheckpointSound
  <2> QED BY <1>2, <2>1 DEF SavedAsRunning, SavedStatus
<1>3. CASE Next /\ pc' # "idle" /\ disk' = disk /\ pc # "idle"
  BY <1>3 DEF SavedAsRunning, SavedStatus
<1> QED BY <1>1, <1>2, <1>3, ExecutingSaves DEF SavedAsRunning

LEMMA NextRefines ==
  ASSUME MapInv, MapInv', SavedAsRunning, SavedAsRunning', [Next]_<<tolerant, vars>>
  PROVE  [Promise!Next]_SavedStatus
<1> USE DEF SavedAsRunning, SavedStatus
<1>1. disk' # NoState => SavedStatus' \in {"running", "waiting", "failed", "completed"}
  BY DEF MapInv, TypeOK, ParentState
<1>2. CASE UNCHANGED <<tolerant, vars>>
  BY <1>2 DEF vars
<1>3. CASE Next /\ pc = "idle"
  <2>1. Start \/ Resume
    BY <1>3 DEF Next, Item, BeginItem, StepSucceeds, ItemCompletes, ItemExceeds, ItemWaits,
                StepFails, ItemRaises, Runs, TimerFires, MapInv, CheckpointSound, Gather,
                ResultMissing, MapFails, MapSucceeds, Succeeds, Gathered, After, MapAgain, End,
                UserCancel, Shutdown, Crash
  <2>2. pc' # "idle" /\ SavedStatus \in {"absent", "running", "failed"}
    BY <2>1 DEF Start, Resume, Begin, EnterMap, EnterAfter
  <2> QED BY <2>2 DEF Promise!Next, Promise!Accept, Promise!Reopen
<1>4. CASE Next /\ pc # "idle"
  <2>1. SavedStatus = "running" /\ disk # NoState
    BY <1>4
  <2>2. disk' # NoState
    BY <1>4, <2>1, SavedStateStays
  <2> QED BY <1>1, <2>1, <2>2 DEF Promise!Next, Promise!Settle, Promise!Settled
<1> QED BY <1>2, <1>3, <1>4

\* A Run inside a map keeps the promise of its saved status too: timed saves,
\* items that fail or exceed, a cancel and a shutdown show no status but in
\* RunStatus' order.
THEOREM MapStatusIsPromised == Spec => StatusPromised
<1>1. Init => Promise!Init /\ SavedAsRunning
  BY DEF Init, Promise!Init, SavedAsRunning
<1>2. MapInv /\ MapInv' /\ SavedAsRunning /\ [Next]_<<tolerant, vars>> => SavedAsRunning'
  BY SavedAsRunningKept
<1>3. MapInv /\ MapInv' /\ SavedAsRunning /\ SavedAsRunning' /\ [Next]_<<tolerant, vars>>
        => [Promise!Next]_SavedStatus
  BY NextRefines
<1> QED BY <1>1, <1>2, <1>3, MapInvariant, PTL
        DEF Spec, StatusPromised, Promise!Spec, SavedStatus
-----------------------------------------------------------------------------
\* A slot is taken by one item more, given back, or left as it is.
SlotsChange ==
  \/ Executing' = {} \/ Executing' = Executing
  \/ \E k \in Items : \/ Executing' = Executing \ {k}
                      \/ /\ Cardinality(Executing) < Limit
                         /\ Executing' = Executing \cup {k}

LEMMA SlotsOfStep ==
  ASSUME TypeOK, [Next]_<<tolerant, vars>>
  PROVE  SlotsChange
<1> USE DEF Executing, SlotsChange
<1>1. CASE UNCHANGED <<tolerant, vars>>
  BY <1>1 DEF vars
<1>2. ASSUME stage' = Off \/ \A k \in Items : stage'[k] \in {"queued", "returned"}
      PROVE  Executing' = {}
  BY <1>2 DEF Off
<1>3. CASE Start \/ Resume \/ Gather \/ After \/ UserCancel \/ Shutdown \/ Crash
  <2>1. stage' = Off \/ \A k \in Items : stage'[k] \in {"queued", "returned"}
    BY <1>3 DEF Start, Resume, Begin, EnterMap, EnterAfter, LeaveMap, Gather,
                ResultMissing, MapFails, MapSucceeds, After, MapAgain, End,
                UserCancel, Shutdown, Crash, RecordFailure, Leave
  <2> QED BY <1>2, <2>1
<1>4. ASSUME NEW k \in Items, Item(k)
      PROVE  SlotsChange
  <2>1. stage \in [Items -> Stages]
    BY DEF TypeOK
  <2>2. CASE BeginItem(k)
    <3>1. /\ stage' = [stage EXCEPT ![k] = "executing"]
          /\ Cardinality(Executing) < Limit
      BY <2>2 DEF BeginItem
    <3>2. Executing' = Executing \cup {k}
      BY <2>1, <3>1
    <3> QED BY <3>1, <3>2
  <2>3. CASE StepSucceeds(k)
    BY <2>3 DEF StepSucceeds
  <2>4. CASE ItemCompletes(k) \/ ItemExceeds(k) \/ ItemWaits(k)
             \/ StepFails(k) \/ ItemRaises(k)
    <3>1. stage' \in {[stage EXCEPT ![k] = "returned"], [stage EXCEPT ![k] = "failed"],
                      [stage EXCEPT ![k] = "raised"]}
      BY <2>4 DEF ItemCompletes, ItemExceeds, ItemWaits, StepFails, ItemRaises,
                  EndItem, ReturnOrRaise
    <3>2. Executing' = Executing \ {k}
      BY <2>1, <3>1
    <3> QED BY <3>2
  <2> QED BY <1>4, <2>2, <2>3, <2>4 DEF Item
<1>5. CASE TimerFires
  BY <1>5 DEF TimerFires
<1> QED BY <1>1, <1>3, <1>4, <1>5 DEF Next

\* The semaphore of _execute_map is never over its limit.
SlotsKept == IsFiniteSet(Executing) /\ Cardinality(Executing) <= Limit

LEMMA SlotsStayKept ==
  ASSUME SlotsKept, SlotsChange
  PROVE  SlotsKept'
<1>1. Cardinality(Executing) \in Nat /\ Limit \in Nat
  BY FS_CardinalityType DEF SlotsKept
<1>2. CASE Executing' = {}
  BY <1>1, <1>2, FS_EmptySet DEF SlotsKept
<1>3. CASE Executing' = Executing
  BY <1>3 DEF SlotsKept
<1>4. ASSUME NEW k \in Items, Executing' = Executing \ {k}
      PROVE  SlotsKept'
  <2>1. /\ IsFiniteSet(Executing \ {k})
        /\ Cardinality(Executing \ {k}) \in {Cardinality(Executing), Cardinality(Executing) - 1}
    BY FS_RemoveElement DEF SlotsKept
  <2> QED BY <1>1, <1>4, <2>1 DEF SlotsKept
<1>5. ASSUME NEW k \in Items, Cardinality(Executing) < Limit,
             Executing' = Executing \cup {k}
      PROVE  SlotsKept'
  <2>1. /\ IsFiniteSet(Executing \cup {k})
        /\ Cardinality(Executing \cup {k}) \in {Cardinality(Executing), Cardinality(Executing) + 1}
    BY FS_AddElement DEF SlotsKept
  <2> QED BY <1>1, <1>5, <2>1 DEF SlotsKept
<1> QED BY <1>2, <1>3, <1>4, <1>5 DEF SlotsChange

\* Items never wait for a slot that nobody will give back: for any limit, any
\* number of items, and whichever of them raise (_execute_map).
THEOREM SlotsAlwaysSuffice == Spec => []SlotsSuffice
<1>1. Init => SlotsKept
  <2>1. Init => Executing = {}
    BY DEF Init, Executing, Off
  <2> QED BY <2>1, FS_EmptySet DEF SlotsKept
<1>2. MapInv /\ SlotsKept /\ [Next]_<<tolerant, vars>> => SlotsKept'
  BY SlotsOfStep, SlotsStayKept DEF MapInv
<1>3. MapInv /\ SlotsKept => SlotsSuffice
  <2> SUFFICES ASSUME MapInv, SlotsKept, pc = "map", ~ Gathered
               PROVE  SlotsSuffice
    BY DEF SlotsSuffice, SlotsKept
  <2>1. PICK k \in Items : stage[k] \notin Ended
    BY DEF Gathered
  <2>2. stage[k] \in {"queued", "executing"}
    BY <2>1 DEF MapInv, TypeOK, ItemSound, Stages, Ended
  <2>3. CASE Executing = {}
    BY <2>2, <2>3, FS_EmptySet DEF SlotsSuffice, SlotsKept, Executing
  <2>4. CASE Executing # {}
    BY <2>4 DEF SlotsSuffice, SlotsKept, Executing
  <2> QED BY <2>3, <2>4
<1> QED BY <1>1, <1>2, <1>3, MapInvariant, PTL DEF Spec

\* An item's own step is one towards its end.
LEMMA ItemAdvances ==
  ASSUME MapInv, NEW k \in Items, Item(k)
  PROVE  StepsToEnd(k)' < StepsToEnd(k)
<1>1. /\ pc = "map" /\ stage \in [Items -> Stages]
      /\ current \in [Items -> Maybe] /\ local \in ParentState
  BY DEF Item, BeginItem, StepSucceeds, ItemCompletes, ItemExceeds, ItemWaits,
         StepFails, ItemRaises, Runs, MapInv, TypeOK, Maybe
<1>2. CASE BeginItem(k)
  <2> DEFINE from == SavedOrFresh(k)
  <2>1. StepsToEnd(k) = Steps + 2
    BY <1>2 DEF BeginItem, StepsToEnd
  <2>2. local.states[k] \in Maybe /\ local.round \in Rounds
    BY <1>1, ParentFields DEF ParentState
  <2>3. from \in ItemState
    BY <2>2 DEF SavedOrFresh, Fresh, Maybe, ItemState
  <2>4. from.done \in 0 .. Steps
    BY <2>3 DEF ItemState
  <2>5. /\ current' = [current EXCEPT ![k] = from]
        /\ stage' = [stage EXCEPT ![k] = "executing"]
    BY <1>2 DEF BeginItem, Checkpoint
  <2> HIDE DEF from
  <2>6. StepsToEnd(k)' = Steps + 1 - from.done
    BY <1>1, <2>5 DEF StepsToEnd
  <2> QED BY <2>1, <2>4, <2>6
<1>3. ASSUME Runs(k)
      PROVE  current[k] \in ItemState /\ StepsToEnd(k) = Steps + 1 - current[k].done
             /\ StepsToEnd(k) > 0
  <2>1. current[k] \in ItemState /\ stage[k] = "executing"
    BY <1>3, ExecutingItem DEF Runs
  <2>2. current[k].done \in 0 .. Steps
    BY <2>1 DEF ItemState
  <2>3. StepsToEnd(k) = Steps + 1 - current[k].done
    BY <2>1 DEF StepsToEnd
  <2> QED BY <2>1, <2>2, <2>3
<1>4. CASE StepSucceeds(k)
  <2>1. /\ Runs(k) /\ UNCHANGED stage
        /\ current' = [current EXCEPT ![k] = [current[k] EXCEPT !.done = @ + 1]]
    BY <1>4 DEF StepSucceeds, Checkpoint
  <2>2. current[k].done \in 0 .. Steps /\ current'[k].done = current[k].done + 1
    BY <1>1, <1>3, <2>1 DEF ItemState
  <2>3. StepsToEnd(k)' = Steps + 1 - current'[k].done
    BY <2>1 DEF StepsToEnd, Runs
  <2> QED BY <1>3, <2>1, <2>2, <2>3
<1>5. CASE ItemCompletes(k) \/ ItemExceeds(k) \/ ItemWaits(k)
           \/ StepFails(k) \/ ItemRaises(k)
  <2>1. /\ Runs(k)
        /\ stage' \in {[stage EXCEPT ![k] = "returned"],
                       [stage EXCEPT ![k] = "failed"],
                       [stage EXCEPT ![k] = "raised"]}
    BY <1>5 DEF ItemCompletes, ItemExceeds, ItemWaits, StepFails, ItemRaises,
                EndItem, ReturnOrRaise
  <2>2. StepsToEnd(k)' = 0
    BY <1>1, <2>1 DEF StepsToEnd
  <2> QED BY <1>3, <2>1, <2>2
<1> QED BY <1>2, <1>4, <1>5 DEF Item

\* It leaves the other items where they are.
LEMMA OthersStay ==
  ASSUME TypeOK, NEW k \in Items, Item(k), NEW j \in Items \ {k}
  PROVE  StepsToEnd(j)' = StepsToEnd(j)
<1>1. UNCHANGED stage \/ \E s \in Stages : stage' = [stage EXCEPT ![k] = s]
  BY DEF Item, BeginItem, StepSucceeds, ItemCompletes, ItemExceeds, ItemWaits,
         StepFails, ItemRaises, EndItem, ReturnOrRaise, Stages
<1>2. UNCHANGED current \/ \E item : current' = [current EXCEPT ![k] = item]
  BY DEF Item, BeginItem, StepSucceeds, ItemCompletes, ItemExceeds, ItemWaits,
         StepFails, ItemRaises, EndItem, Checkpoint
<1>3. stage'[j] = stage[j] /\ current'[j] = current[j]
  BY <1>1, <1>2 DEF TypeOK
<1> QED BY <1>3 DEF StepsToEnd

\* An item takes no more than Steps + 2 steps, and nothing that it does is
\* undone by another one, or by the timer that saves it.
THEOREM ItemsComeToAnEnd == Spec => ItemsAdvance
<1>1. TimerFires => \A k \in Items : StepsToEnd(k)' = StepsToEnd(k)
  BY DEF TimerFires, StepsToEnd
<1>2. MapInv /\ [Next]_<<tolerant, vars>> =>
        [ /\ \A k \in Items : Item(k) =>
               /\ StepsToEnd(k)' < StepsToEnd(k)
               /\ \A j \in Items \ {k} : StepsToEnd(j)' = StepsToEnd(j)
          /\ TimerFires => \A k \in Items : StepsToEnd(k)' = StepsToEnd(k) ]_vars
  BY <1>1, ItemAdvances, OthersStay DEF MapInv
<1> QED BY <1>2, MapInvariant, PTL DEF Spec, ItemsAdvance
=============================================================================
