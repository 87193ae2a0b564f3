------------------------ MODULE ParallelBranchesProofs ------------------------
(***************************************************************************)
(* Proofs about ParallelBranches for any set of branches, any number of    *)
(* steps and slots, and any number of rounds and executions: whoever reads *)
(* the parent's state finds the branches in it as they are, and no save    *)
(* takes back what an earlier one had of a branch.                         *)
(***************************************************************************)
EXTENDS ParallelBranches, FiniteSetTheorems, TLAPS

USE ParallelAssumption, NoneAssumption DEF None

Maybe == BranchState \cup {NoBranch}

\* What the disk has of every branch it keeps, or has more of.
DiskAdvances ==
  disk # NoState =>
    disk' # NoState /\ \A b \in Branches : Ahead(disk.states[b], disk'.states[b])

LEMMA AheadOfItself ==
  ASSUME NEW x \in Maybe
  PROVE  Ahead(x, x)
BY DEF Ahead, Maybe, BranchState

LEMMA AheadOfBoth ==
  ASSUME NEW x \in Maybe, NEW y \in Maybe, NEW z \in Maybe, Ahead(x, y), Ahead(y, z)
  PROVE  Ahead(x, z)
BY DEF Ahead, Maybe, BranchState

\* What is known of the fields of a state of the Run.
LEMMA ParentFields ==
  ASSUME NEW s \in ParentState, NEW b \in Branches
  PROVE  /\ s.states[b] \in Maybe /\ s.results[b] \in Rounds \cup {None}
         /\ s.states \in [Branches -> Maybe] /\ s.results \in [Branches -> Rounds \cup {None}]
         /\ s # NoState
BY DEF ParentState, Maybe

-----------------------------------------------------------------------------
\* An execution enters the parallel action or the join with state s saved, or
\* held back behind a disk that is not ahead of it (workflow_host.py).
LEMMA EnterKeeps ==
  ASSUME ParallelInv, NEW s \in ParentState, s.status = "running", SavedSound(s),
         IF s.at = "parallel" THEN EnterParallel(s) ELSE EnterJoin(s),
         latest' = s, disk' \in ParentState, sparing' \in BOOLEAN,
         entries' \in 0 .. MaxEntries,
         SavedSound(disk'), WaitingNamesBranch',
         \A b \in Branches : Ahead(disk'.states[b], s.states[b])
  PROVE  ParallelInv'
<1>1. s.at \in {"parallel", "join"} /\ s.states \in [Branches -> Maybe]
        /\ s.results \in [Branches -> Rounds \cup {None}]
  BY DEF ParentState, Maybe
<1>2. /\ pc' = IF s.at = "parallel" THEN "gather" ELSE "join"
      /\ local' = s /\ states' = s.states /\ results' = s.results
      /\ stage' = IF s.at = "parallel"
                  THEN [b \in Branches |-> IF Reusable(s, b) THEN "returned" ELSE "queued"]
                  ELSE Off
  BY <1>1 DEF EnterParallel, EnterJoin
<1>3. stage' \in [Branches -> Stages]
  BY <1>2 DEF Off, Stages
<1>4. TypeOK'
  BY <1>1, <1>2, <1>3 DEF TypeOK, Maybe
<1>5. [s EXCEPT !.states = s.states, !.results = s.results] = s
  BY DEF ParentState
<1>6. CheckpointSound'
  BY <1>1, <1>2, <1>5 DEF CheckpointSound, View
<1>7. GatherSound'
  <2> SUFFICES ASSUME pc' = "gather" PROVE GatherSound'
    BY DEF GatherSound
  <2>1. ResultsOfStates(states', results')
    BY <1>2 DEF SavedSound
  <2>2. ASSUME NEW b \in Branches PROVE BranchSound(b)'
    <3>1. stage'[b] = IF Reusable(s, b) THEN "returned" ELSE "queued"
      BY <1>1, <1>2
    <3>2. CASE Reusable(s, b)
      <4>1. states'[b] # NoBranch /\ states'[b].status = "completed"
        BY <1>2, <2>1, <3>2 DEF Reusable, ResultsOfStates
      <4> QED BY <3>1, <3>2, <4>1 DEF BranchSound
    <3>3. CASE ~ Reusable(s, b)
      <4>1. states'[b] = local'.states[b] /\ results'[b] = None
        BY <1>2, <2>1, <3>3 DEF Reusable, ResultsOfStates
      <4> QED BY <3>1, <3>3, <4>1 DEF BranchSound
    <3> QED BY <3>2, <3>3
  <2> QED BY <2>1, <2>2 DEF GatherSound, ResultsOfStates
<1>8. (disk # NoState => SavedSound(disk))'
  BY DEF SavedSound, ResultsOfStates, Joinable
<1> QED BY <1>4, <1>6, <1>7, <1>8 DEF ParallelInv

\* An execution that ends leaves a sound state, whoever wrote it.
LEMMA LeaveKeeps ==
  ASSUME ParallelInv, Leave, disk' \in ParentState, SavedSound(disk'), WaitingNamesBranch'
  PROVE  ParallelInv'
<1>1. TypeOK'
  BY DEF ParallelInv, TypeOK, Leave, Off, Stages
<1>2. CheckpointSound' /\ GatherSound'
  BY DEF Leave, CheckpointSound, GatherSound
<1>3. (disk # NoState => SavedSound(disk))'
  BY DEF SavedSound, ResultsOfStates, Joinable
<1> QED BY <1>1, <1>2, <1>3 DEF ParallelInv

\* What the disk has is in the newest checkpoint, and what that has is in any
\* state written after it.
LEMMA WrittenAhead ==
  ASSUME ParallelInv, pc # "idle", NEW s \in ParentState,
         \A b \in Branches : Ahead(latest.states[b], s.states[b])
  PROVE  \A b \in Branches : Ahead(disk.states[b], s.states[b])
<1>1. disk \in ParentState /\ latest \in ParentState
  <2>1. local \in ParentState /\ states \in [Branches -> Maybe]
          /\ results \in [Branches -> Rounds \cup {None}]
    BY DEF ParallelInv, TypeOK, Maybe
  <2>2. View(states, results) \in ParentState
    BY <2>1 DEF View, ParentState, Maybe
  <2> QED BY <2>1, <2>2 DEF ParallelInv, TypeOK, CheckpointSound
<1>2. \A b \in Branches : Ahead(disk.states[b], latest.states[b])
  BY DEF ParallelInv, CheckpointSound
<1> SUFFICES ASSUME NEW b \in Branches PROVE Ahead(disk.states[b], s.states[b])
  OBVIOUS
<1>3. disk.states[b] \in Maybe /\ latest.states[b] \in Maybe /\ s.states[b] \in Maybe
  BY <1>1, ParentFields
<1> QED BY <1>2, <1>3, AheadOfBoth

-----------------------------------------------------------------------------
\* checkpoint_branch: one branch goes on, and the view of the parent with it is
\* saved or held back.
LEMMA CheckpointKeeps ==
  ASSUME ParallelInv, pc = "gather", UNCHANGED <<pc, local, sparing, entries>>,
         NEW b \in Branches, NEW branch \in BranchState, NEW at \in {"executing", "returned"},
         Checkpoint(b, branch), Ahead(states[b], branch), results[b] = None,
         stage' = [stage EXCEPT ![b] = at],
         at = "executing" => branch.status = "running",
         at = "returned" => branch.status \in {"completed", "waiting", "failed"}
  PROVE  ParallelInv' /\ DiskAdvances
<1>1. /\ states' = [states EXCEPT ![b] = branch] /\ latest' = View(states', results')
      /\ results' = IF branch.status = "completed"
                    THEN [results EXCEPT ![b] = branch.round] ELSE results
      /\ disk' \in {disk, View(states', results')}
  BY DEF Checkpoint, Save
<1>2. /\ local \in ParentState /\ states \in [Branches -> Maybe]
      /\ results \in [Branches -> Rounds \cup {None}] /\ stage \in [Branches -> Stages]
      /\ local.status = "running" /\ local.at = "parallel" /\ SavedSound(local)
      /\ disk # NoState /\ disk \in ParentState
      /\ latest = View(states, results)
      /\ ResultsOfStates(states, results) /\ SavedSound(disk)
      /\ \A c \in Branches : BranchSound(c)
  BY DEF ParallelInv, TypeOK, CheckpointSound, GatherSound, Maybe
<1>3. /\ states' \in [Branches -> Maybe] /\ states'[b] = branch
      /\ results' \in [Branches -> Rounds \cup {None}]
      /\ stage' \in [Branches -> Stages] /\ stage'[b] = at
      /\ branch.status = "completed" => results'[b] = branch.round
      /\ branch.status # "completed" => results'[b] = None
      /\ branch # NoBranch
      /\ \A c \in Branches : c # b => /\ states'[c] = states[c] /\ results'[c] = results[c]
                                      /\ stage'[c] = stage[c]
  BY <1>1, <1>2 DEF Maybe, BranchState, Stages
<1>4. ResultsOfStates(states', results')
  BY <1>2, <1>3 DEF ResultsOfStates
<1> DEFINE view == View(states', results')
<1>5. /\ view \in ParentState /\ view.states = states' /\ view.results = results'
      /\ view.at = "parallel" /\ view.status = "running"
  BY <1>2, <1>3 DEF View, ParentState, Maybe
<1>6. SavedSound(view)
  BY <1>4, <1>5 DEF SavedSound, Joinable
<1>7. latest.states = states
  BY <1>2 DEF View, ParentState
<1>8. \A c \in Branches : Ahead(latest.states[c], view.states[c])
  <2> SUFFICES ASSUME NEW c \in Branches PROVE Ahead(states[c], states'[c])
    BY <1>5, <1>7
  <2>1. states[c] \in Maybe
    BY <1>2
  <2> QED BY <1>3, <2>1, AheadOfItself
<1>9. \A c \in Branches : Ahead(disk.states[c], view.states[c])
  BY <1>5, <1>8, WrittenAhead
<1>10. \A c \in Branches : Ahead(view.states[c], view.states[c])
                             /\ Ahead(disk.states[c], disk.states[c])
  BY <1>2, <1>5, ParentFields, AheadOfItself
<1> HIDE DEF view
<1>11. /\ disk' \in ParentState /\ disk' # NoState /\ SavedSound(disk')
       /\ \A c \in Branches : Ahead(disk'.states[c], view.states[c])
       /\ \A c \in Branches : Ahead(disk.states[c], disk'.states[c])
  <2>1. CASE disk' = disk
    BY <1>2, <1>9, <1>10, <2>1, ParentFields
  <2>2. CASE disk' = view
    BY <1>5, <1>6, <1>9, <1>10, <2>2
  <2> QED BY <1>1, <2>1, <2>2 DEF view
<1>12. latest' = view /\ local' = local /\ pc' = "gather"
  BY <1>1 DEF view
<1>13. TypeOK'
  BY <1>2, <1>3, <1>5, <1>11, <1>12 DEF ParallelInv, TypeOK, Maybe
<1>14. WaitingNamesBranch'
  <2>1. CASE disk' = disk
    BY <2>1 DEF ParallelInv, WaitingNamesBranch
  <2>2. CASE disk' = view
    BY <1>5, <2>2 DEF WaitingNamesBranch
  <2> QED BY <1>1, <2>1, <2>2 DEF view
<1>15. CheckpointSound'
  <2>1. SavedSound(local)'
    BY <1>2, <1>12 DEF SavedSound, ResultsOfStates, Joinable
  <2>2. latest' = [local' EXCEPT !.states = states', !.results = results']
    BY <1>12 DEF view, View
  <2>3. \A c \in Branches : Ahead(disk.states[c], latest.states[c])'
    BY <1>11, <1>12 DEF Ahead
  <2> QED BY <1>2, <1>11, <1>12, <2>1, <2>2, <2>3 DEF CheckpointSound, View
<1>16. GatherSound'
  <2>1. ASSUME NEW c \in Branches PROVE BranchSound(c)'
    <3>1. BranchSound(c)
      BY <1>2
    <3>2. CASE c = b
      BY <1>3, <3>2 DEF BranchSound
    <3>3. CASE c # b
      BY <1>3, <1>12, <3>1, <3>3 DEF BranchSound
    <3> QED BY <3>2, <3>3
  <2> QED BY <1>4, <2>1 DEF GatherSound, ResultsOfStates
<1>17. (disk # NoState => SavedSound(disk))'
  BY <1>11 DEF SavedSound, ResultsOfStates, Joinable
<1> QED BY <1>11, <1>13, <1>14, <1>15, <1>16, <1>17 DEF ParallelInv, DiskAdvances

LEMMA BeginBranchKeeps ==
  ASSUME ParallelInv, NEW b \in Branches, BeginBranch(b)
  PROVE  ParallelInv' /\ DiskAdvances
<1> DEFINE from == SavedOrFresh(b)
<1>1. /\ pc = "gather" /\ stage[b] = "queued" /\ stage \in [Branches -> Stages]
      /\ local \in ParentState /\ states[b] = local.states[b] /\ results[b] = None
      /\ UNCHANGED <<pc, local, sparing, entries>>
  BY DEF BeginBranch, ParallelInv, TypeOK, GatherSound, BranchSound
<1>2. local.states[b] \in Maybe /\ local.round \in Rounds
  BY <1>1, ParentFields DEF ParentState
<1>3. from \in BranchState /\ (states[b] # NoBranch => from = states[b])
        /\ (states[b] = NoBranch => from.status = "pending" /\ from.done = 0)
  BY <1>1, <1>2 DEF SavedOrFresh, Fresh, Maybe, BranchState
<1> HIDE DEF from
<1>4. CASE from.status = "completed"
  <2>1. Checkpoint(b, from) /\ stage' = [stage EXCEPT ![b] = "returned"]
    BY <1>4 DEF BeginBranch, from
  <2>2. Ahead(states[b], from)
    BY <1>3 DEF Ahead, BranchState
  <2> QED BY <1>1, <1>3, <1>4, <2>1, <2>2, CheckpointKeeps
<1>5. CASE from.status # "completed"
  <2> DEFINE running == [from EXCEPT !.status = "running"]
  <2>1. Checkpoint(b, running) /\ stage' = [stage EXCEPT ![b] = "executing"]
    BY <1>5 DEF BeginBranch, from
  <2>2. running \in BranchState /\ running.status = "running" /\ running.done = from.done
    BY <1>3 DEF BranchState
  <2> HIDE DEF running
  <2>3. Ahead(states[b], running)
    BY <1>3, <1>5, <2>2 DEF Ahead, BranchState
  <2> QED BY <1>1, <2>1, <2>2, <2>3, CheckpointKeeps
<1> QED BY <1>4, <1>5

\* A step of a branch, and the three ways it returns.
LEMMA BranchRunsKeeps ==
  ASSUME ParallelInv, NEW b \in Branches,
         StepSucceeds(b) \/ BranchCompletes(b) \/ BranchWaits(b) \/ BranchExceeds(b)
  PROVE  ParallelInv' /\ DiskAdvances
<1>1. pc = "gather" /\ stage[b] = "executing" /\ UNCHANGED <<pc, local, sparing, entries>>
  BY DEF StepSucceeds, BranchCompletes, BranchWaits, BranchExceeds, Runs, Return
<1>2. /\ stage \in [Branches -> Stages] /\ states[b] \in BranchState
      /\ states[b].status = "running" /\ results[b] = None
  BY <1>1 DEF ParallelInv, TypeOK, GatherSound, BranchSound, ResultsOfStates
<1>3. CASE StepSucceeds(b)
  <2> DEFINE next == [states[b] EXCEPT !.done = @ + 1]
  <2>1. Checkpoint(b, next) /\ stage' = stage /\ states[b].done < Steps
    BY <1>3 DEF StepSucceeds
  <2>2. next \in BranchState /\ next.status = "running" /\ Ahead(states[b], next)
    BY <1>2, <2>1 DEF BranchState, Ahead
  <2>3. stage' = [stage EXCEPT ![b] = "executing"]
    BY <1>1, <1>2, <2>1
  <2> HIDE DEF next
  <2> QED BY <1>1, <1>2, <2>1, <2>2, <2>3, CheckpointKeeps
<1>4. ASSUME NEW status \in {"completed", "waiting", "failed"}, Return(b, status)
      PROVE  ParallelInv' /\ DiskAdvances
  <2> DEFINE next == [states[b] EXCEPT !.status = status]
  <2>1. Checkpoint(b, next) /\ stage' = [stage EXCEPT ![b] = "returned"]
    BY <1>4 DEF Return
  <2>2. next \in BranchState /\ next.status = status /\ Ahead(states[b], next)
    BY <1>2 DEF BranchState, Ahead
  <2> HIDE DEF next
  <2> QED BY <1>1, <1>2, <2>1, <2>2, CheckpointKeeps
<1> QED BY <1>3, <1>4 DEF BranchCompletes, BranchWaits, BranchExceeds

\* A branch that raises changes nothing but its coroutine.
LEMMA BranchStopsKeeps ==
  ASSUME ParallelInv, NEW b \in Branches, StepFails(b) \/ BranchRaises(b)
  PROVE  ParallelInv' /\ DiskAdvances
<1>1. /\ pc = "gather" /\ stage[b] = "executing"
      /\ stage' \in {[stage EXCEPT ![b] = "failed"], [stage EXCEPT ![b] = "raised"]}
      /\ UNCHANGED <<pc, local, states, results, disk, latest, sparing, entries>>
  BY DEF StepFails, BranchRaises, Runs
<1>2. stage' \in [Branches -> Stages] /\ stage'[b] \in {"failed", "raised"}
        /\ \A c \in Branches : c # b => stage'[c] = stage[c]
  BY <1>1 DEF ParallelInv, TypeOK, Stages
<1>3. TypeOK' /\ WaitingNamesBranch'
  BY <1>1, <1>2 DEF ParallelInv, TypeOK, WaitingNamesBranch
<1>4. CheckpointSound'
  BY <1>1 DEF ParallelInv, CheckpointSound, SavedSound, ResultsOfStates, Joinable, View, Ahead
<1>5. GatherSound'
  <2>1. ASSUME NEW c \in Branches PROVE BranchSound(c)'
    BY <1>1, <1>2 DEF ParallelInv, GatherSound, BranchSound
  <2> QED BY <1>1, <2>1 DEF ParallelInv, GatherSound, ResultsOfStates
<1>6. (disk # NoState => SavedSound(disk))'
  BY <1>1 DEF ParallelInv, SavedSound, ResultsOfStates, Joinable
<1>7. DiskAdvances
  <2> SUFFICES ASSUME disk # NoState, NEW c \in Branches PROVE Ahead(disk.states[c], disk.states[c])
    BY <1>1 DEF DiskAdvances
  <2> QED BY ParentFields, AheadOfItself DEF ParallelInv, TypeOK
<1> QED BY <1>3, <1>4, <1>5, <1>6, <1>7 DEF ParallelInv

-----------------------------------------------------------------------------
\* gather has every branch's end: the parent with the outcomes in it has all
\* that was saved of them.
LEMMA OutcomesSound ==
  ASSUME ParallelInv, Gathered
  PROVE  /\ WithOutcomes \in ParentState
         /\ WithOutcomes.at = "parallel" /\ WithOutcomes.status = "running"
         /\ ResultsOfStates(WithOutcomes.states, WithOutcomes.results)
         /\ \A b \in Branches : /\ Ahead(latest.states[b], WithOutcomes.states[b])
                               /\ WithOutcomes.states[b] = Outcome(b)
                               /\ WithOutcomes.results[b] = IF Outcome(b).status = "completed"
                                                            THEN Outcome(b).round ELSE None
<1>1. /\ local \in ParentState /\ states \in [Branches -> Maybe]
      /\ local.status = "running" /\ local.at = "parallel"
      /\ latest = View(states, results) /\ pc = "gather"
      /\ \A b \in Branches : BranchSound(b) /\ stage[b] \in Ended
  BY DEF Gathered, ParallelInv, TypeOK, CheckpointSound, GatherSound, Maybe
<1>2. latest.states = states
  BY <1>1 DEF View, ParentState
<1>3. \A b \in Branches : Outcome(b) \in BranchState /\ Ahead(states[b], Outcome(b))
                            /\ Outcome(b).round \in Rounds
  <2> SUFFICES ASSUME NEW b \in Branches
      PROVE Outcome(b) \in BranchState /\ Ahead(states[b], Outcome(b))
              /\ Outcome(b).round \in Rounds
    OBVIOUS
  <2>1. states[b] \in BranchState /\ (stage[b] = "failed" => states[b].status = "running")
    BY <1>1 DEF BranchSound, Ended, Maybe
  <2> QED BY <2>1 DEF Outcome, Ahead, BranchState
<1> DEFINE ss == [b \in Branches |-> Outcome(b)]
           rs == [b \in Branches |-> IF Outcome(b).status = "completed"
                                     THEN Outcome(b).round ELSE None]
<1>4. ss \in [Branches -> BranchState \cup {NoBranch}] /\ rs \in [Branches -> Rounds \cup {None}]
        /\ \A b \in Branches : ss[b] = Outcome(b)
                 /\ rs[b] = IF Outcome(b).status = "completed" THEN Outcome(b).round ELSE None
  BY <1>3
<1>5. WithOutcomes = [local EXCEPT !.states = ss, !.results = rs]
  BY DEF WithOutcomes
<1> HIDE DEF ss, rs
<1>6. /\ WithOutcomes \in ParentState /\ WithOutcomes.states = ss /\ WithOutcomes.results = rs
      /\ WithOutcomes.at = "parallel" /\ WithOutcomes.status = "running"
  BY <1>1, <1>4, <1>5 DEF ParentState
<1>7. ResultsOfStates(ss, rs)
  BY <1>3, <1>4 DEF ResultsOfStates
<1> QED BY <1>2, <1>3, <1>4, <1>6, <1>7

\* What execute writes last, past the throttle.
LEMMA FinalStateSound ==
  ASSUME NEW s \in ParentState, SavedSound(s), NEW status \in {"failed", "completed"}
  PROVE  LET t == [s EXCEPT !.status = status]
         IN  t \in ParentState /\ SavedSound(t) /\ t.states = s.states /\ t.status = status
BY DEF ParentState, SavedSound, ResultsOfStates, Joinable

LEMMA FinalSaveKeeps ==
  ASSUME ParallelInv, Leave, NEW s \in ParentState, SavedSound(s),
         NEW status \in {"failed", "completed"}, disk' = [s EXCEPT !.status = status]
  PROVE  ParallelInv' /\ disk'.states = s.states /\ disk' # NoState
<1>1. disk' \in ParentState /\ SavedSound(disk') /\ disk'.states = s.states
        /\ disk'.status = status
  BY FinalStateSound
<1>2. WaitingNamesBranch'
  BY <1>1 DEF WaitingNamesBranch
<1> QED BY <1>1, <1>2, LeaveKeeps, ParentFields

\* The newest checkpoint is a sound state, ahead of the disk.
LEMMA LatestSound ==
  ASSUME ParallelInv, pc # "idle"
  PROVE  /\ latest \in ParentState /\ SavedSound(latest) /\ latest.status = "running"
         /\ \A b \in Branches : Ahead(disk.states[b], latest.states[b])
         /\ \A b \in Branches : Ahead(latest.states[b], latest.states[b])
<1>1. CASE pc = "join"
  BY <1>1, ParentFields, AheadOfItself DEF ParallelInv, TypeOK, CheckpointSound
<1>2. CASE pc = "gather"
  <2>1. /\ local \in ParentState /\ states \in [Branches -> Maybe]
        /\ results \in [Branches -> Rounds \cup {None}]
        /\ local.at = "parallel" /\ local.status = "running" /\ latest = View(states, results)
        /\ ResultsOfStates(states, results)
    BY <1>2 DEF ParallelInv, TypeOK, CheckpointSound, GatherSound, Maybe
  <2>2. /\ latest \in ParentState /\ latest.states = states /\ latest.results = results
        /\ latest.at = "parallel" /\ latest.status = "running"
    BY <2>1 DEF View, ParentState, Maybe
  <2>3. SavedSound(latest)
    BY <2>1, <2>2 DEF SavedSound, Joinable
  <2>4. \A b \in Branches : Ahead(latest.states[b], latest.states[b])
    BY <2>2, ParentFields, AheadOfItself
  <2> QED BY <1>2, <2>2, <2>3, <2>4 DEF ParallelInv, CheckpointSound
<1> QED BY <1>1, <1>2 DEF ParallelInv, TypeOK

LEMMA GatherEndsKeep ==
  ASSUME ParallelInv, GatherFails \/ GatherWaits
  PROVE  ParallelInv' /\ DiskAdvances
<1>1. Gathered /\ pc = "gather" /\ Leave
  BY DEF GatherFails, GatherWaits, NoneFailed, NoneRaised, Gathered, RecordFailure
<1> DEFINE s == WithOutcomes
<1>2. /\ s \in ParentState /\ s.at = "parallel" /\ s.status = "running"
      /\ ResultsOfStates(s.states, s.results)
      /\ \A b \in Branches : /\ Ahead(latest.states[b], s.states[b])
                            /\ s.states[b] = Outcome(b)
                            /\ s.results[b] = IF Outcome(b).status = "completed"
                                              THEN Outcome(b).round ELSE None
  BY <1>1, OutcomesSound
<1>3. SavedSound(s)
  BY <1>2 DEF SavedSound, Joinable
<1> HIDE DEF s
<1>4. \A b \in Branches : Ahead(disk.states[b], s.states[b])
  BY <1>1, <1>2, WrittenAhead
<1>5. CASE GatherFails
  <2>1. disk' = [s EXCEPT !.status = "failed"]
    BY <1>5 DEF GatherFails, RecordFailure, s
  <2>2. ParallelInv' /\ disk'.states = s.states /\ disk' # NoState
    BY <1>1, <1>2, <1>3, <2>1, FinalSaveKeeps
  <2> QED BY <1>4, <2>2 DEF DiskAdvances
<1>6. CASE GatherWaits
  <2>1. PICK b \in Branches : /\ states[b].status = "waiting" /\ NoneFailed
                              /\ disk' = [s EXCEPT !.status = "waiting", !.waiting = b]
    BY <1>6 DEF GatherWaits, s
  <2>2. Outcome(b) = states[b] /\ states[b] # NoBranch
    BY <1>1, <2>1 DEF NoneFailed, Outcome, ParallelInv, GatherSound, BranchSound
  <2>3. /\ disk' \in ParentState /\ disk'.states = s.states /\ disk'.results = s.results
        /\ disk'.at = "parallel" /\ disk'.waiting = b
    BY <1>2, <2>1 DEF ParentState
  <2>4. SavedSound(disk')
    BY <1>2, <2>3 DEF SavedSound, Joinable
  <2>5. WaitingNamesBranch'
    BY <1>2, <2>1, <2>2, <2>3 DEF WaitingNamesBranch
  <2>6. ParallelInv'
    BY <1>1, <2>3, <2>4, <2>5, LeaveKeeps
  <2> QED BY <1>4, <2>3, <2>6 DEF DiskAdvances
<1> QED BY <1>5, <1>6

\* The parallel action succeeds, or the plan goes back to it: the state that is
\* next is saved, or held back.
LEMMA SaveAndEnterKeeps ==
  ASSUME ParallelInv, pc # "idle", NEW s \in ParentState, s.status = "running", SavedSound(s),
         IF s.at = "parallel" THEN EnterParallel(s) ELSE EnterJoin(s), Save(s),
         UNCHANGED <<sparing, entries>>,
         \A b \in Branches : Ahead(latest.states[b], s.states[b])
  PROVE  ParallelInv' /\ DiskAdvances
<1>1. \A b \in Branches : Ahead(disk.states[b], s.states[b])
  BY WrittenAhead
<1>2. latest' = s /\ disk' \in {disk, s}
  BY DEF Save
<1>3. disk \in ParentState /\ SavedSound(disk) /\ s # NoState
  BY ParentFields DEF ParallelInv, TypeOK, CheckpointSound
<1>4. \A b \in Branches : Ahead(s.states[b], s.states[b]) /\ Ahead(disk.states[b], disk.states[b])
  BY <1>3, ParentFields, AheadOfItself
<1>5. CASE disk' = disk
  <2>1. WaitingNamesBranch'
    BY <1>5 DEF ParallelInv, WaitingNamesBranch
  <2>2. disk' \in ParentState /\ SavedSound(disk')
          /\ \A b \in Branches : Ahead(disk'.states[b], s.states[b])
    BY <1>1, <1>3, <1>5
  <2>3. ParallelInv'
    BY <1>2, <2>1, <2>2, EnterKeeps DEF ParallelInv, TypeOK
  <2> QED BY <1>3, <1>4, <1>5, <2>3, ParentFields DEF DiskAdvances
<1>6. CASE disk' = s
  <2>1. WaitingNamesBranch'
    BY <1>6 DEF WaitingNamesBranch
  <2>2. disk' \in ParentState /\ SavedSound(disk')
          /\ \A b \in Branches : Ahead(disk'.states[b], s.states[b])
    BY <1>4, <1>6
  <2>3. ParallelInv'
    BY <1>2, <2>1, <2>2, EnterKeeps DEF ParallelInv, TypeOK
  <2> QED BY <1>1, <1>3, <1>6, <2>3 DEF DiskAdvances
<1> QED BY <1>2, <1>5, <1>6

LEMMA GatherSucceedsKeeps ==
  ASSUME ParallelInv, GatherSucceeds
  PROVE  ParallelInv' /\ DiskAdvances
<1>1. Gathered /\ pc = "gather" /\ (\A b \in Branches : stage[b] = "returned" /\ states[b].status # "waiting")
  BY DEF GatherSucceeds, NoneFailed, NoneRaised, Gathered
<1> DEFINE o == WithOutcomes
           s == [o EXCEPT !.at = "join"]
<1>2. /\ o \in ParentState /\ o.status = "running"
      /\ ResultsOfStates(o.states, o.results)
      /\ \A b \in Branches : /\ Ahead(latest.states[b], o.states[b])
                            /\ o.states[b] = Outcome(b)
                            /\ o.results[b] = IF Outcome(b).status = "completed"
                                              THEN Outcome(b).round ELSE None
  BY <1>1, OutcomesSound
<1> HIDE DEF o
<1>3. /\ s \in ParentState /\ s.states = o.states /\ s.results = o.results
      /\ s.status = "running" /\ s.at = "join"
  BY <1>2 DEF ParentState
<1>4. \A b \in Branches : /\ Outcome(b) = states[b] /\ states[b] # NoBranch
                          /\ states[b] \in BranchState
                          /\ states[b].status \in {"completed", "failed"}
  BY <1>1 DEF Outcome, ParallelInv, TypeOK, GatherSound, BranchSound
<1>5. Joinable(s)
  BY <1>2, <1>3, <1>4 DEF Joinable, BranchState, Rounds
<1>6. SavedSound(s)
  BY <1>2, <1>3, <1>5 DEF SavedSound
<1>7. EnterJoin(s) /\ Save(s) /\ UNCHANGED <<sparing, entries>>
  BY DEF GatherSucceeds, EnterJoin, s, o
<1> HIDE DEF s
<1> QED BY <1>1, <1>2, <1>3, <1>6, <1>7, SaveAndEnterKeeps

LEMMA JoinRepeatsKeeps ==
  ASSUME ParallelInv, JoinRepeats
  PROVE  ParallelInv' /\ DiskAdvances
<1>1. /\ pc = "join" /\ local \in ParentState /\ local.status = "running" /\ latest = local
      /\ SavedSound(local) /\ local.round < MaxRounds
  BY DEF JoinRepeats, ParallelInv, TypeOK, CheckpointSound
<1> DEFINE s == [local EXCEPT !.at = "parallel", !.round = @ + 1]
<1>2. local.round + 1 \in Rounds
  BY <1>1 DEF ParentState, Rounds
<1>3. /\ s \in ParentState /\ s.states = local.states /\ s.results = local.results
      /\ s.status = "running" /\ s.at = "parallel"
  BY <1>1, <1>2 DEF ParentState
<1>4. SavedSound(s)
  BY <1>1, <1>3 DEF SavedSound, Joinable
<1>5. EnterParallel(s) /\ Save(s) /\ UNCHANGED <<sparing, entries>>
  BY DEF JoinRepeats, EnterParallel, s
<1>6. \A b \in Branches : Ahead(latest.states[b], s.states[b])
  BY <1>1, <1>3, LatestSound
<1> HIDE DEF s
<1> QED BY <1>1, <1>3, <1>4, <1>5, <1>6, SaveAndEnterKeeps

\* The Run ends at the join, is cancelled, shut down, or the process dies.
LEMMA EndsKeep ==
  ASSUME ParallelInv, JoinEnds \/ JoinFails \/ UserCancel \/ Shutdown \/ Crash
  PROVE  ParallelInv' /\ DiskAdvances
<1>1. pc # "idle" /\ Leave
  BY DEF JoinEnds, JoinFails, UserCancel, Shutdown, Crash, RecordFailure
<1>2. /\ latest \in ParentState /\ SavedSound(latest) /\ latest.status = "running"
      /\ \A b \in Branches : Ahead(disk.states[b], latest.states[b])
  BY <1>1, LatestSound
<1>3. disk \in ParentState /\ disk # NoState /\ SavedSound(disk)
  BY <1>1 DEF ParallelInv, TypeOK, CheckpointSound
<1>4. CASE JoinEnds \/ JoinFails \/ UserCancel
  <2>1. PICK status \in {"failed", "completed"} : disk' = [latest EXCEPT !.status = status]
    BY <1>4 DEF JoinEnds, JoinFails, UserCancel, RecordFailure, ParallelInv, CheckpointSound
  <2>2. ParallelInv' /\ disk'.states = latest.states /\ disk' # NoState
    BY <1>1, <1>2, <2>1, FinalSaveKeeps
  <2> QED BY <1>2, <2>2 DEF DiskAdvances
<1>5. CASE Shutdown
  <2>1. disk' = latest
    BY <1>5 DEF Shutdown
  <2>2. WaitingNamesBranch'
    BY <1>2, <2>1 DEF WaitingNamesBranch
  <2>3. ParallelInv'
    BY <1>1, <1>2, <2>1, <2>2, LeaveKeeps
  <2> QED BY <1>2, <2>1, <2>3, ParentFields DEF DiskAdvances
<1>6. CASE Crash
  <2>1. disk' = disk
    BY <1>6 DEF Crash
  <2>2. WaitingNamesBranch'
    BY <2>1 DEF ParallelInv, WaitingNamesBranch
  <2>3. ParallelInv'
    BY <1>1, <1>3, <2>1, <2>2, LeaveKeeps
  <2> QED BY <1>3, <2>1, <2>3, ParentFields, AheadOfItself DEF DiskAdvances
<1> QED BY <1>4, <1>5, <1>6

\* Only an exception that is no failed action takes progress back.
LEMMA GatherRaisesKeeps ==
  ASSUME ParallelInv, GatherRaises
  PROVE  ParallelInv'
<1>1. Leave /\ disk' = [local EXCEPT !.status = "failed"]
        /\ local \in ParentState /\ SavedSound(local)
  BY DEF GatherRaises, Gathered, RecordFailure, ParallelInv, TypeOK, CheckpointSound
<1> QED BY <1>1, FinalSaveKeeps

-----------------------------------------------------------------------------
\* An execution begins: the Run is new, failed, was cut off, or is answered.
LEMMA BeginKeeps ==
  ASSUME ParallelInv, NEW s \in ParentState, Begin(s), s.status = "running", SavedSound(s),
         disk # NoState => \A b \in Branches : Ahead(disk.states[b], s.states[b])
  PROVE  ParallelInv' /\ DiskAdvances
<1>1. disk' = s /\ latest' = s /\ sparing' \in BOOLEAN /\ s # NoState
        /\ (IF s.at = "parallel" THEN EnterParallel(s) ELSE EnterJoin(s))
  BY DEF Begin, Write, ParentState
<1>2. entries' \in 0 .. MaxEntries
  BY DEF Begin, ParallelInv, TypeOK
<1>3. \A b \in Branches : Ahead(disk'.states[b], s.states[b])
  BY <1>1, ParentFields, AheadOfItself
<1>4. WaitingNamesBranch'
  BY <1>1 DEF WaitingNamesBranch
<1>5. ParallelInv'
  BY <1>1, <1>2, <1>3, <1>4, EnterKeeps
<1> QED BY <1>1, <1>5 DEF DiskAdvances

LEMMA ExecutionsBegin ==
  ASSUME ParallelInv, Start \/ Resume \/ ProvideInput
  PROVE  ParallelInv' /\ DiskAdvances
<1>1. CASE Start
  <2>1. NewRun \in ParentState /\ NewRun.status = "running" /\ NewRun.at = "parallel"
          /\ \A b \in Branches : NewRun.results[b] = None
    BY DEF NewRun, ParentState, Rounds
  <2>2. SavedSound(NewRun)
    BY <2>1 DEF SavedSound, ResultsOfStates, Joinable
  <2> QED BY <1>1, <2>1, <2>2, BeginKeeps DEF Start
<1>2. CASE Resume
  <2> DEFINE s == [disk EXCEPT !.status = "running"]
  <2>1. Begin(s) /\ disk \in ParentState /\ SavedSound(disk)
    BY <1>2 DEF Resume, ParallelInv, TypeOK
  <2>2. /\ s \in ParentState /\ s.status = "running" /\ s.at = disk.at
        /\ s.states = disk.states /\ s.results = disk.results
    BY <2>1 DEF ParentState
  <2>3. SavedSound(s)
    BY <2>1, <2>2 DEF SavedSound, Joinable
  <2>4. \A b \in Branches : Ahead(disk.states[b], s.states[b])
    BY <2>1, <2>2, ParentFields, AheadOfItself
  <2> HIDE DEF s
  <2> QED BY <2>1, <2>2, <2>3, <2>4, BeginKeeps
<1>3. CASE ProvideInput
  <2> DEFINE w == disk.waiting
             s == Answer(disk)
  <2>1. /\ Begin(s) /\ disk \in ParentState /\ SavedSound(disk) /\ w \in Branches
        /\ disk.states[w].status = "waiting" /\ disk.results[w] = None
        /\ disk.states[w] \in BranchState
    BY <1>3 DEF ProvideInput, ParallelInv, TypeOK, WaitingNamesBranch, ParentState, Maybe
  <2> DEFINE asked == [disk.states[w] EXCEPT !.status = "running", !.answered = TRUE]
  <2>2. asked \in BranchState /\ asked.done = disk.states[w].done /\ asked.status = "running"
    BY <2>1 DEF BranchState
  <2>3. /\ s \in ParentState /\ s.status = "running" /\ s.at = disk.at
        /\ s.states[w] = asked /\ s.results[w] = None
        /\ \A b \in Branches : b # w => s.states[b] = disk.states[b]
                                          /\ s.results[b] = disk.results[b]
    BY <2>1, <2>2 DEF Answer, ParentState
  <2>4. asked # NoBranch
    BY <2>2
  <2> HIDE DEF asked, s
  <2>5. disk.at # "join"
    BY <2>1 DEF SavedSound, Joinable
  <2>6. SavedSound(s)
    BY <2>1, <2>3, <2>5 DEF SavedSound, Joinable, ResultsOfStates
  <2>7. ASSUME NEW b \in Branches PROVE Ahead(disk.states[b], s.states[b])
    <3>1. CASE b = w
      BY <2>1, <2>2, <2>3, <2>4, <3>1 DEF Ahead, BranchState
    <3>2. CASE b # w
      BY <2>1, <2>3, <3>2, ParentFields, AheadOfItself
    <3> QED BY <3>1, <3>2
  <2> QED BY <2>1, <2>3, <2>6, <2>7, BeginKeeps
<1> QED BY <1>1, <1>2, <1>3

-----------------------------------------------------------------------------
LEMMA StepKeeps ==
  ASSUME ParallelInv, Next
  PROVE  ParallelInv' /\ (DiskAdvances \/ GatherRaises)
<1>1. CASE Start \/ Resume \/ ProvideInput
  BY <1>1, ExecutionsBegin
<1>2. CASE \E b \in Branches : Branch(b)
  <2>1. PICK b \in Branches : Branch(b)
    BY <1>2
  <2>2. CASE BeginBranch(b)
    BY <2>2, BeginBranchKeeps
  <2>3. CASE StepSucceeds(b) \/ BranchCompletes(b) \/ BranchWaits(b) \/ BranchExceeds(b)
    BY <2>3, BranchRunsKeeps
  <2>4. CASE StepFails(b) \/ BranchRaises(b)
    BY <2>4, BranchStopsKeeps
  <2> QED BY <2>1, <2>2, <2>3, <2>4 DEF Branch
<1>3. CASE Gather
  BY <1>3, GatherRaisesKeeps, GatherEndsKeep, GatherSucceedsKeeps DEF Gather
<1>4. CASE Join \/ UserCancel \/ Shutdown \/ Crash
  BY <1>4, JoinRepeatsKeeps, EndsKeep DEF Join
<1> QED BY <1>1, <1>2, <1>3, <1>4 DEF Next

\* The inductive invariant of a parallel action: checkpoints, results and the
\* coroutines of the branches agree, and the disk is never ahead of them.
THEOREM ParallelInvariant == Spec => []ParallelInv
<1>1. Init => ParallelInv
  <2> SUFFICES ASSUME Init PROVE ParallelInv
    OBVIOUS
  <2>1. NewRun \in ParentState
    BY DEF NewRun, ParentState, Rounds
  <2>2. NewRun.states \in [Branches -> BranchState \cup {NoBranch}]
          /\ NewRun.results \in [Branches -> Rounds \cup {None}]
    BY DEF NewRun
  <2>3. 0 \in 0 .. MaxEntries
    OBVIOUS
  <2>4. TypeOK
    BY <2>1, <2>2, <2>3 DEF Init, TypeOK, Off, Stages
  <2> QED BY <2>4 DEF Init, ParallelInv, WaitingNamesBranch, CheckpointSound, GatherSound
<1>2. ParallelInv /\ [Next]_vars => ParallelInv'
  <2> SUFFICES ASSUME ParallelInv, [Next]_vars PROVE ParallelInv'
    OBVIOUS
  <2>1. CASE Next
    BY <2>1, StepKeeps
  <2>2. CASE UNCHANGED vars
    BY <2>2 DEF vars, ParallelInv, TypeOK, WaitingNamesBranch, CheckpointSound, GatherSound,
                BranchSound, SavedSound, ResultsOfStates, Joinable, Ahead, View
  <2> QED BY <2>1, <2>2
<1> QED BY <1>1, <1>2, PTL DEF Spec

\* Every variable keeps its type.
THEOREM ParallelTypeCorrect == Spec => []TypeOK
<1>1. ParallelInv => TypeOK
  BY DEF ParallelInv
<1> QED BY <1>1, ParallelInvariant, PTL

\* The answer finds the branch that waits for it, the join every result.
THEOREM BranchesAreRecorded == Spec => []BranchesRecorded
<1>1. ParallelInv => BranchesRecorded
  <2> SUFFICES ASSUME ParallelInv PROVE JoinFindsResults
    BY DEF ParallelInv, BranchesRecorded
  <2> SUFFICES ASSUME pc = "join", NEW b \in Branches, local.states[b].status # "failed"
      PROVE local.results[b] # None /\ local.results[b] = local.states[b].round
    BY DEF JoinFindsResults
  <2> QED BY DEF ParallelInv, CheckpointSound, SavedSound, Joinable, ResultsOfStates
<1> QED BY <1>1, ParallelInvariant, PTL

\* No save takes progress back, whichever way the execution ends.
THEOREM ProgressIsKept == Spec => ProgressKept
<1>1. ParallelInv /\ ParallelInv' /\ DiskAdvances => KeepsProgress
  <2> SUFFICES ASSUME ParallelInv, ParallelInv', DiskAdvances, disk # NoState,
                      NEW b \in Branches
      PROVE  Progress(disk', b) >= Progress(disk, b)
    BY DEF KeepsProgress
  <2> DEFINE x == disk.states[b]
             y == disk'.states[b]
  <2>1. x \in Maybe /\ y \in Maybe /\ Ahead(x, y)
    BY ParentFields DEF DiskAdvances, ParallelInv, TypeOK
  <2>2. Progress(disk, b) = IF x = NoBranch THEN 0
                            ELSE x.done + (IF x.status = "completed" THEN 1 ELSE 0)
    BY DEF Progress
  <2>3. Progress(disk', b) = IF y = NoBranch THEN 0
                             ELSE y.done + (IF y.status = "completed" THEN 1 ELSE 0)
    BY DEF Progress
  <2> HIDE DEF x, y
  <2> QED BY <2>1, <2>2, <2>3 DEF Ahead, Maybe, BranchState
<1>2. ParallelInv /\ ParallelInv' /\ [Next]_vars => [KeepsProgress \/ GatherRaises]_vars
  BY <1>1, StepKeeps
<1> QED BY <1>2, ParallelInvariant, PTL DEF Spec, ProgressKept

\* A step the saved state has as done is not executed again, after any resume.
THEOREM DoneStepsAreNotRedone == Spec => DoneStepsNotRedone
<1>1. ParallelInv => RedoesNothing
  <2> SUFFICES ASSUME ParallelInv, NEW b \in Branches, StepSucceeds(b),
                      disk.states[b] # NoBranch
      PROVE  disk.states[b].done <= states[b].done
    BY DEF RedoesNothing
  <2>1. pc = "gather" /\ local \in ParentState /\ latest = View(states, results)
          /\ Ahead(disk.states[b], latest.states[b])
    BY DEF StepSucceeds, Runs, ParallelInv, TypeOK, CheckpointSound
  <2>2. latest.states = states
    BY <2>1 DEF View, ParentState
  <2> QED BY <2>1, <2>2 DEF Ahead
<1>2. ParallelInv /\ [Next]_vars => [RedoesNothing]_vars
  BY <1>1
<1> QED BY <1>2, ParallelInvariant, PTL DEF Spec, DoneStepsNotRedone

-----------------------------------------------------------------------------
\* The status a reader sees, which RunStatus is about.
SavedStatus == IF disk = NoState THEN "absent" ELSE disk.status

\* While an execution is under way the saved state says so.
SavedAsRunning == pc # "idle" => SavedStatus = "running"

\* Who is executing after a step has just saved the newest checkpoint, or
\* executed before and left the disk alone.
LEMMA ExecutingSaves ==
  ASSUME Next, pc' # "idle"
  PROVE  disk' = latest' \/ (disk' = disk /\ pc # "idle")
<1>1. CASE Start \/ Resume \/ ProvideInput
  BY <1>1 DEF Start, Resume, ProvideInput, Begin, Write
<1>2. CASE \E b \in Branches : Branch(b)
  BY <1>2 DEF Branch, BeginBranch, StepSucceeds, BranchCompletes, BranchWaits, BranchExceeds,
              Return, StepFails, BranchRaises, Runs, Checkpoint, Save
<1>3. CASE Gather
  <2>1. CASE GatherRaises \/ GatherFails \/ GatherWaits
    BY <2>1 DEF GatherRaises, GatherFails, GatherWaits, RecordFailure, Leave
  <2>2. CASE GatherSucceeds
    <3>1. pc = "gather"
      BY <2>2 DEF GatherSucceeds, NoneFailed, NoneRaised, Gathered
    <3> QED BY <2>2, <3>1 DEF GatherSucceeds, Save
  <2> QED BY <1>3, <2>1, <2>2 DEF Gather
<1>4. CASE Join \/ UserCancel \/ Shutdown \/ Crash
  BY <1>4 DEF Join, JoinRepeats, JoinEnds, JoinFails, UserCancel, Shutdown, Crash,
              RecordFailure, Leave, Save
<1> QED BY <1>1, <1>2, <1>3, <1>4 DEF Next

\* Once there is a saved state there always is.
LEMMA SavedStateStays ==
  ASSUME ParallelInv, Next, disk # NoState
  PROVE  disk' # NoState
<1>1. CASE GatherRaises
  <2>1. local \in ParentState /\ disk' = [local EXCEPT !.status = "failed"]
    BY <1>1 DEF GatherRaises, RecordFailure, ParallelInv, TypeOK
  <2> QED BY <2>1 DEF ParentState
<1> QED BY <1>1, StepKeeps DEF DiskAdvances

LEMMA SavedAsRunningKept ==
  ASSUME SavedAsRunning, ParallelInv', [Next]_vars
  PROVE  SavedAsRunning'
<1>1. CASE UNCHANGED vars
  BY <1>1 DEF vars, SavedAsRunning, SavedStatus
<1>2. CASE Next /\ pc' # "idle" /\ disk' = latest'
  <2>1. latest' \in ParentState /\ latest'.status = "running"
    BY <1>2, ParentFields DEF ParallelInv, TypeOK, CheckpointSound, View, ParentState
  <2> QED BY <1>2, <2>1 DEF SavedAsRunning, SavedStatus
<1>3. CASE Next /\ pc' # "idle" /\ disk' = disk /\ pc # "idle"
  BY <1>3 DEF SavedAsRunning, SavedStatus
<1> QED BY <1>1, <1>2, <1>3, ExecutingSaves DEF SavedAsRunning

LEMMA NextRefines ==
  ASSUME ParallelInv, ParallelInv', SavedAsRunning, SavedAsRunning', [Next]_vars
  PROVE  [Promise!Next]_SavedStatus
<1> USE DEF SavedAsRunning, SavedStatus
<1>1. disk' # NoState => SavedStatus' \in {"running", "waiting", "failed", "completed"}
  BY DEF ParallelInv, TypeOK, ParentState
<1>2. CASE UNCHANGED vars
  BY <1>2 DEF vars
<1>3. CASE Next /\ pc = "idle"
  <2>1. pc' # "idle" /\ SavedStatus \in {"absent", "running", "failed", "waiting"}
    BY <1>3 DEF Next, Start, Resume, ProvideInput, Begin, EnterParallel, EnterJoin, Branch,
                BeginBranch, StepSucceeds, BranchCompletes, BranchWaits, BranchExceeds,
                StepFails, BranchRaises, Runs, Gather, GatherRaises, GatherFails,
                GatherWaits, GatherSucceeds, NoneFailed, NoneRaised, Gathered, Join,
                JoinRepeats, JoinEnds, JoinFails, UserCancel, Shutdown, Crash
  <2> QED BY <2>1 DEF Promise!Next, Promise!Accept, Promise!Reopen
<1>4. CASE Next /\ pc # "idle"
  <2>1. SavedStatus = "running" /\ disk # NoState
    BY <1>4
  <2>2. disk' # NoState
    BY <1>4, <2>1, SavedStateStays
  <2> QED BY <1>1, <2>1, <2>2 DEF Promise!Next, Promise!Settle, Promise!Settled
<1> QED BY <1>2, <1>3, <1>4

\* A Run inside a parallel action keeps the promise of its saved status too:
\* the branches' checkpoints, the join, a cancel, a shutdown and an answer
\* show no status but in RunStatus' order.
THEOREM ParallelStatusIsPromised == Spec => StatusPromised
<1>1. Init => Promise!Init /\ SavedAsRunning
  BY DEF Init, Promise!Init, SavedAsRunning
<1>2. ParallelInv' /\ SavedAsRunning /\ [Next]_vars => SavedAsRunning'
  BY SavedAsRunningKept
<1>3. ParallelInv /\ ParallelInv' /\ SavedAsRunning /\ SavedAsRunning' /\ [Next]_vars
        => [Promise!Next]_SavedStatus
  BY NextRefines
<1> QED BY <1>1, <1>2, <1>3, ParallelInvariant, PTL
        DEF Spec, StatusPromised, Promise!Spec, SavedStatus
-----------------------------------------------------------------------------
\* A slot is taken by one branch more, given back, or left as it is.
SlotsChange ==
  \/ Executing' = {} \/ Executing' = Executing
  \/ \E b \in Branches : \/ Executing' = Executing \ {b}
                         \/ /\ Cardinality(Executing) < Limit
                            /\ Executing' = Executing \cup {b}

LEMMA SlotsOfStep ==
  ASSUME TypeOK, [Next]_vars
  PROVE  SlotsChange
<1> USE DEF Executing, SlotsChange
<1>1. CASE UNCHANGED vars
  BY <1>1 DEF vars
<1>2. ASSUME stage' = Off \/ \A b \in Branches : stage'[b] \in {"queued", "returned"}
      PROVE  Executing' = {}
  BY <1>2 DEF Off
<1>3. CASE Start \/ Resume \/ ProvideInput \/ Gather \/ Join \/ UserCancel
           \/ Shutdown \/ Crash
  <2>1. stage' = Off \/ \A b \in Branches : stage'[b] \in {"queued", "returned"}
    BY <1>3 DEF Start, Resume, ProvideInput, Begin, EnterParallel, EnterJoin,
                Gather, GatherRaises, GatherFails, GatherWaits, GatherSucceeds,
                Join, JoinRepeats, JoinEnds, JoinFails, UserCancel, Shutdown,
                Crash, RecordFailure, Leave
  <2> QED BY <1>2, <2>1
<1>4. ASSUME NEW b \in Branches, Branch(b)
      PROVE  SlotsChange
  <2>1. stage \in [Branches -> Stages]
    BY DEF TypeOK
  <2>2. CASE BeginBranch(b)
    <3>1. \/ stage' = [stage EXCEPT ![b] = "returned"]
          \/ stage' = [stage EXCEPT ![b] = "executing"]
      BY <2>2 DEF BeginBranch
    <3>2. stage[b] = "queued" /\ Cardinality(Executing) < Limit
      BY <2>2 DEF BeginBranch
    <3>3. Executing' = Executing \/ Executing' = Executing \cup {b}
      BY <2>1, <3>1, <3>2
    <3> QED BY <3>2, <3>3
  <2>3. CASE StepSucceeds(b)
    BY <2>3 DEF StepSucceeds
  <2>4. CASE BranchCompletes(b) \/ BranchWaits(b) \/ BranchExceeds(b)
             \/ StepFails(b) \/ BranchRaises(b)
    <3>1. stage' \in {[stage EXCEPT ![b] = "returned"], [stage EXCEPT ![b] = "failed"],
                      [stage EXCEPT ![b] = "raised"]}
      BY <2>4 DEF BranchCompletes, BranchWaits, BranchExceeds, StepFails,
                  BranchRaises, Return
    <3>2. Executing' = Executing \ {b}
      BY <2>1, <3>1
    <3> QED BY <3>2
  <2> QED BY <1>4, <2>2, <2>3, <2>4 DEF Branch
<1> QED BY <1>1, <1>3, <1>4 DEF Next

\* The semaphore of _execute_parallel is never over its limit.
SlotsKept == IsFiniteSet(Executing) /\ Cardinality(Executing) <= Limit

LEMMA SlotsStayKept ==
  ASSUME SlotsKept, SlotsChange
  PROVE  SlotsKept'
<1>1. Cardinality(Executing) \in Nat /\ Limit \in Nat
  BY FS_CardinalityType DEF SlotsKept
<1>2. CASE Executing' = {}
  BY <1>1, <1>2, FS_EmptySet DEF SlotsKept
<1>3. CASE Executing' = Executing
  BY <1>3 DEF SlotsKept
<1>4. ASSUME NEW b \in Branches, Executing' = Executing \ {b}
      PROVE  SlotsKept'
  <2>1. /\ IsFiniteSet(Executing \ {b})
        /\ Cardinality(Executing \ {b}) \in {Cardinality(Executing), Cardinality(Executing) - 1}
    BY FS_RemoveElement DEF SlotsKept
  <2> QED BY <1>1, <1>4, <2>1 DEF SlotsKept
<1>5. ASSUME NEW b \in Branches, Cardinality(Executing) < Limit,
             Executing' = Executing \cup {b}
      PROVE  SlotsKept'
  <2>1. /\ IsFiniteSet(Executing \cup {b})
        /\ Cardinality(Executing \cup {b}) \in {Cardinality(Executing), Cardinality(Executing) + 1}
    BY FS_AddElement DEF SlotsKept
  <2> QED BY <1>1, <1>5, <2>1 DEF SlotsKept
<1> QED BY <1>2, <1>3, <1>4, <1>5 DEF SlotsChange

\* Branches never wait for a slot that nobody will give back: for any limit
\* and any number of branches (_execute_parallel).
THEOREM SlotsAlwaysSuffice == Spec => []SlotsSuffice
<1>1. Init => SlotsKept
  <2>1. Init => Executing = {}
    BY DEF Init, Executing, Off
  <2> QED BY <2>1, FS_EmptySet DEF SlotsKept
<1>2. ParallelInv /\ SlotsKept /\ [Next]_vars => SlotsKept'
  BY SlotsOfStep, SlotsStayKept DEF ParallelInv
<1>3. ParallelInv /\ SlotsKept => SlotsSuffice
  <2> SUFFICES ASSUME ParallelInv, SlotsKept, pc = "gather", ~ Gathered
               PROVE  SlotsSuffice
    BY DEF SlotsSuffice, SlotsKept
  <2>1. PICK b \in Branches : stage[b] \notin Ended
    BY DEF Gathered
  <2>2. stage[b] \in {"queued", "executing"}
    BY <2>1 DEF ParallelInv, TypeOK, GatherSound, BranchSound, Stages, Ended
  <2>3. CASE Executing = {}
    BY <2>2, <2>3, FS_EmptySet DEF SlotsSuffice, SlotsKept, Executing
  <2>4. CASE Executing # {}
    BY <2>4 DEF SlotsSuffice, SlotsKept, Executing
  <2> QED BY <2>3, <2>4
<1> QED BY <1>1, <1>2, <1>3, ParallelInvariant, PTL DEF Spec

\* A branch's own step is one towards its end.
LEMMA BranchAdvances ==
  ASSUME ParallelInv, NEW b \in Branches, Branch(b)
  PROVE  StepsToEnd(b)' < StepsToEnd(b)
<1>1. /\ pc = "gather" /\ stage \in [Branches -> Stages]
      /\ states \in [Branches -> Maybe]
      /\ local \in ParentState
  BY DEF Branch, BeginBranch, StepSucceeds, BranchCompletes, BranchWaits,
         BranchExceeds, StepFails, BranchRaises, Runs, ParallelInv, TypeOK, Maybe
<1>2. CASE BeginBranch(b)
  <2>1. StepsToEnd(b) = Steps + 2
    BY <1>2 DEF BeginBranch, StepsToEnd
  <2>2. local.states[b] \in Maybe /\ local.round \in Rounds
    BY <1>1, ParentFields DEF ParentState
  <2>3. SavedOrFresh(b) \in BranchState
    BY <2>2 DEF SavedOrFresh, Fresh, Maybe, BranchState
  <2>4. CASE stage' = [stage EXCEPT ![b] = "returned"]
    <3>1. StepsToEnd(b)' = 0
      BY <1>1, <2>4 DEF StepsToEnd
    <3> QED BY <2>1, <3>1
  <2>5. CASE SavedOrFresh(b).status # "completed"
    <3> DEFINE running == [SavedOrFresh(b) EXCEPT !.status = "running"]
    <3>1. states' = [states EXCEPT ![b] = running]
          /\ stage' = [stage EXCEPT ![b] = "executing"]
      BY <1>2, <2>5 DEF BeginBranch, Checkpoint
    <3>2. running.done \in 0 .. Steps
      BY <2>3 DEF BranchState
    <3>3. StepsToEnd(b)' = Steps + 1 - running.done
      BY <1>1, <3>1 DEF StepsToEnd
    <3> HIDE DEF running
    <3> QED BY <2>1, <3>2, <3>3
  <2> QED BY <1>2, <2>4, <2>5 DEF BeginBranch
<1>3. ASSUME stage[b] = "executing"
      PROVE  states[b] \in BranchState /\ StepsToEnd(b) = Steps + 1 - states[b].done
             /\ StepsToEnd(b) > 0
  <2>1. states[b] \in BranchState
    BY <1>1, <1>3 DEF ParallelInv, GatherSound, BranchSound, Maybe
  <2>2. states[b].done \in 0 .. Steps
    BY <2>1 DEF BranchState
  <2>3. StepsToEnd(b) = Steps + 1 - states[b].done
    BY <1>3 DEF StepsToEnd
  <2> QED BY <2>1, <2>2, <2>3
<1>4. CASE StepSucceeds(b)
  <2>1. /\ stage[b] = "executing" /\ UNCHANGED stage
        /\ states' = [states EXCEPT ![b] = [states[b] EXCEPT !.done = @ + 1]]
    BY <1>4 DEF StepSucceeds, Runs, Checkpoint
  <2>2. states[b].done \in 0 .. Steps /\ states'[b].done = states[b].done + 1
    BY <1>1, <1>3, <2>1 DEF BranchState
  <2>3. StepsToEnd(b)' = Steps + 1 - states'[b].done
    BY <2>1 DEF StepsToEnd
  <2> QED BY <1>3, <2>1, <2>2, <2>3
<1>5. CASE BranchCompletes(b) \/ BranchWaits(b) \/ BranchExceeds(b)
           \/ StepFails(b) \/ BranchRaises(b)
  <2>1. /\ stage[b] = "executing"
        /\ stage' \in {[stage EXCEPT ![b] = "returned"],
                       [stage EXCEPT ![b] = "failed"],
                       [stage EXCEPT ![b] = "raised"]}
    BY <1>5 DEF BranchCompletes, BranchWaits, BranchExceeds, StepFails,
                BranchRaises, Runs, Return
  <2>2. StepsToEnd(b)' = 0
    BY <1>1, <2>1 DEF StepsToEnd
  <2> QED BY <1>3, <2>1, <2>2
<1> QED BY <1>2, <1>4, <1>5 DEF Branch

\* It leaves the other branches where they are.
LEMMA OthersStay ==
  ASSUME TypeOK, NEW b \in Branches, Branch(b), NEW c \in Branches \ {b}
  PROVE  StepsToEnd(c)' = StepsToEnd(c)
<1>1. \E s \in Stages : stage' = [stage EXCEPT ![b] = s] \/ UNCHANGED stage
  BY DEF Branch, BeginBranch, StepSucceeds, BranchCompletes, BranchWaits,
         BranchExceeds, StepFails, BranchRaises, Return, Stages
<1>2. UNCHANGED states \/ \E branch : states' = [states EXCEPT ![b] = branch]
  BY DEF Branch, BeginBranch, StepSucceeds, BranchCompletes, BranchWaits,
         BranchExceeds, StepFails, BranchRaises, Return, Checkpoint
<1>3. stage'[c] = stage[c] /\ states'[c] = states[c]
  BY <1>1, <1>2 DEF TypeOK
<1> QED BY <1>3 DEF StepsToEnd

\* A branch takes no more than Steps + 2 steps, and nothing that it does is
\* undone by another one.
THEOREM BranchesComeToAnEnd == Spec => BranchesAdvance
<1>1. ParallelInv /\ [Next]_vars =>
        [\A b \in Branches : Branch(b) =>
           /\ StepsToEnd(b)' < StepsToEnd(b)
           /\ \A c \in Branches \ {b} : StepsToEnd(c)' = StepsToEnd(c)]_vars
  BY BranchAdvances, OthersStay DEF ParallelInv
<1> QED BY <1>1, ParallelInvariant, PTL DEF Spec, BranchesAdvance
=============================================================================
