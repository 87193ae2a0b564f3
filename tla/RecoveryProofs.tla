---------------------------- MODULE RecoveryProofs ----------------------------
(***************************************************************************)
(* Proofs about what a failure between two steps leaves behind, for any    *)
(* number of steps and failures.                                           *)
(*   RunVersions: no stop and no failure between two file operations of a  *)
(* rerun loses a saved state or puts it out of reach, and versions that    *)
(* were not disturbed are whole.                                           *)
(*   HostLifecycle: whichever calls raise in a start, a switch of the      *)
(* workspace, its undoing, a change of provider or a cleanup, a host that  *)
(* is ready works in one project with its conversation, what runs is in an *)
(* ownership, the cleanup keeps its order, and all of it comes to its end. *)
(***************************************************************************)
EXTENDS RunVersions, HostLifecycle, SequenceTheorems, WellFoundedInduction,
        TLAPS

-----------------------------------------------------------------------------
\* Part 1. The files of a Run (RunVersions).

USE VersionsAssumption DEF Absent, Versions, Starts, Moved, Entries

\* current_version and "newest" take the greatest of a set: there is one in
\* every bounded set of numbers.
LEMMA GreatestExists ==
  ASSUME NEW S \in SUBSET Nat, S # {}, NEW n \in Nat, \A x \in S : x <= n
  PROVE  Max(S) \in S /\ \A x \in S : x <= Max(S)
<1> DEFINE Above == {m \in Nat : \A x \in S : x <= m}
<1>1. Above \subseteq Nat /\ Above # {}
  OBVIOUS
<1>2. PICK m \in Above : \A y \in Above : ~ (<<y, m>> \in OpToRel(<, Nat))
  BY <1>1, NatLessThanWellFounded, WFMin
<1>3. \A y \in Above : ~ (y < m)
  <2> SUFFICES ASSUME NEW y \in Above, y < m PROVE FALSE
    OBVIOUS
  <2>1. <<y, m>> \in OpToRel(<, Nat)
    BY <1>1 DEF OpToRel
  <2> QED BY <1>2, <2>1
<1>4. m \in S
  <2> SUFFICES ASSUME m \notin S PROVE FALSE
    OBVIOUS
  <2>1. m \in Nat /\ \A x \in S : x < m
    OBVIOUS
  <2>2. m # 0
    <3>1. PICK x : x \in S
      OBVIOUS
    <3>2. x \in Nat /\ x < m
      BY <2>1, <3>1
    <3> QED BY <3>2
  <2>3. m - 1 \in Above
    BY <2>1, <2>2
  <2> QED BY <1>3, <2>1, <2>3
<1>5. \E x \in S : \A y \in S : x >= y
  BY <1>4
<1>6. Max(S) \in S /\ \A y \in S : Max(S) >= y
  BY <1>5 DEF Max
<1> QED BY <1>6

\* current_version is a version not there yet, beyond those that are.
LEMMA CurrentVersionIsNew ==
  ASSUME VersionsInv, CurrentVersion \in Versions
  PROVE  CurrentVersion \notin dirs /\ \A v \in dirs : v <= CurrentVersion
<1>1. {0} \cup dirs \in SUBSET Nat /\ \A x \in {0} \cup dirs : x <= MaxVersions
  BY DEF VersionsInv, TypeOK
<1>2. Max({0} \cup dirs) \in {0} \cup dirs /\ \A x \in dirs : x <= Max({0} \cup dirs)
  BY <1>1, GreatestExists
<1>3. Max({0} \cup dirs) \in Nat /\ dirs \subseteq Nat
  BY <1>1, <1>2
<1> HIDE DEF Versions
<1>4. PICK top \in Nat : top = Max({0} \cup dirs)
  BY <1>3
<1>5. \A v \in dirs : v \in Nat /\ v <= top
  BY <1>2, <1>3, <1>4
<1>6. CurrentVersion = top + 1
  BY <1>4 DEF CurrentVersion
<1> QED BY <1>5, <1>6

-----------------------------------------------------------------------------
\* start and resume of generic_binding.py.
LEMMA BeginKeeps ==
  ASSUME VersionsInv, StartAnew \/ StartAgain \/ Resume
  PROVE  VersionsInv'
<1> USE DEF Request, PrepareStart, Continue
<1>1. UNCHANGED <<run, archive, dirs, listed, target, saved, before, disturbed>>
  BY DEF StartAnew, StartAgain, Resume
<1>2. CASE StartAnew
  <2>1. /\ pc' = "plan" /\ starts' = starts + 1 /\ author' = starts + 1
        /\ requests < MaxRequests /\ requests' = requests + 1 /\ run["state"] = Absent
        /\ starts \in Nat /\ starts <= requests /\ requests \in Nat
    BY <1>2 DEF StartAnew, VersionsInv, TypeOK, StatesWereSaved
  <2>2. author' \in Starts /\ starts' \in 0 .. MaxRequests /\ requests' \in 0 .. MaxRequests
    BY <2>1
  <2>3. TypeOK'
    BY <1>1, <2>1, <2>2 DEF VersionsInv, TypeOK, Steps
  <2>4. StatesKeptInOrder' /\ LastVersionWorkedOn' /\ NewestKept'
    BY <1>1, <2>1 DEF VersionsInv, StatesKeptInOrder, LastVersionWorkedOn, NewestKept
  <2>5. \A s \in saved : s \in Nat /\ s <= starts
    BY DEF VersionsInv, TypeOK, StatesWereSaved
  <2>6. StatesWereSaved'
    BY <1>1, <2>1, <2>5 DEF VersionsInv, StatesWereSaved
  <2>7. author' \notin saved
    BY <2>1, <2>5
  <2>8. AuthorKnown'
    BY <1>1, <2>1, <2>2, <2>7 DEF AuthorKnown
  <2> QED BY <2>3, <2>4, <2>6, <2>8 DEF VersionsInv
<1>3. CASE StartAgain \/ Resume
  <2>1. /\ pc' = "save" /\ author' = run["state"] /\ starts' = starts
        /\ requests < MaxRequests /\ requests' = requests + 1 /\ run["state"] # Absent
        /\ starts \in Nat /\ starts <= requests /\ requests \in Nat
    BY <1>3 DEF StartAgain, Resume, VersionsInv, TypeOK, StatesWereSaved
  <2>2. author' \in saved /\ saved \subseteq Starts
    BY <2>1 DEF VersionsInv, TypeOK, StatesWereSaved
  <2>3. TypeOK'
    BY <1>1, <2>1, <2>2 DEF VersionsInv, TypeOK, Steps
  <2>4. StatesKeptInOrder' /\ LastVersionWorkedOn' /\ NewestKept'
    BY <1>1, <2>1 DEF VersionsInv, StatesKeptInOrder, LastVersionWorkedOn, NewestKept
  <2>5. StatesWereSaved' /\ AuthorKnown'
    BY <1>1, <2>1, <2>2 DEF VersionsInv, StatesWereSaved, AuthorKnown
  <2> QED BY <2>3, <2>4, <2>5 DEF VersionsInv
<1> QED BY <1>2, <1>3

LEMMA RerunKeeps ==
  ASSUME VersionsInv, Rerun
  PROVE  VersionsInv'
<1>1. CurrentVersion \in Versions /\ CurrentVersion \notin dirs
        /\ \A v \in dirs : v <= CurrentVersion
  BY CurrentVersionIsNew DEF Rerun
<1>2. target' = CurrentVersion /\ dirs' = dirs \cup {CurrentVersion} /\ pc' = "move"
        /\ run["state"] # Absent /\ UNCHANGED <<run, archive, saved, author, starts>>
  BY DEF Rerun
<1>3. TypeOK'
  BY <1>1, <1>2 DEF VersionsInv, TypeOK, Rerun, Request, Steps
<1>4. StatesKeptInOrder' /\ NewestKept' /\ AuthorKnown'
  BY <1>2 DEF VersionsInv, StatesKeptInOrder, NewestKept, AuthorKnown
<1>5. StatesWereSaved'
  BY <1>2 DEF VersionsInv, TypeOK, StatesWereSaved, Rerun, Request
<1>6. archive[CurrentVersion]["state"] = Absent
  BY <1>1 DEF VersionsInv, LastVersionWorkedOn, Empty
<1>7. LastVersionWorkedOn'
  BY <1>1, <1>2, <1>6 DEF VersionsInv, TypeOK, LastVersionWorkedOn
<1> QED BY <1>3, <1>4, <1>5, <1>7 DEF VersionsInv

\* The loops of _archive_version and _restore_version move an entry to where
\* there is none; what is in neither place stays.
LEMMA FirstIsMoved ==
  ASSUME NEW files \in Files, HasMoved(files)
  PROVE  First(files) \in Moved /\ files[First(files)] # Absent
BY DEF First, HasMoved, Files

LEMMA MoveKeeps ==
  ASSUME VersionsInv, MoveEntry
  PROVE  VersionsInv'
<1>1. CASE ~ HasMoved(run)
  <2>1. pc' = "copy" /\ run["state"] = Absent
    BY <1>1 DEF MoveEntry, HasMoved
  <2>2. UNCHANGED <<run, archive, dirs, listed, target, author, starts, saved, before, disturbed, requests>>
    BY <1>1 DEF MoveEntry
  <2>3. pc = "move"
    BY DEF MoveEntry
  <2> QED BY <2>1, <2>2, <2>3 DEF VersionsInv, TypeOK, StatesKeptInOrder, StatesWereSaved,
                LastVersionWorkedOn, AuthorKnown, NewestKept, Steps
<1>2. CASE HasMoved(run)
  <2> DEFINE f == First(run)
  <2>1. f \in Moved /\ run[f] # Absent
    BY <1>2, FirstIsMoved DEF VersionsInv, TypeOK
  <2> HIDE DEF f
  <2>2. /\ archive' = [archive EXCEPT ![target][f] = run[f]]
        /\ run' = [run EXCEPT ![f] = Absent]
        /\ UNCHANGED <<pc, dirs, listed, target, author, starts, saved, before, disturbed, requests>>
        /\ pc = "move"
    BY <1>2 DEF MoveEntry, f
  <2>3. target \in dirs /\ target \in Versions /\ \A v \in dirs : v <= target
    BY <2>2 DEF VersionsInv, TypeOK, LastVersionWorkedOn
  <2>4. archive' \in [Versions -> Files] /\ run' \in Files
    BY <2>1, <2>2, <2>3 DEF VersionsInv, TypeOK, Files
  <2>5. TypeOK'
    BY <2>2, <2>4 DEF VersionsInv, TypeOK
  <2>6. \A v \in Versions : v # target => archive'[v] = archive[v]
    BY <2>2 DEF VersionsInv, TypeOK
  <2>7. \A v \in Versions \ dirs : archive[v]["state"] = Absent
    BY DEF VersionsInv, LastVersionWorkedOn, Empty
  <2>8. CASE f = "state"
    <3>1. archive'[target]["state"] = run["state"] /\ run'["state"] = Absent
      BY <2>1, <2>2, <2>3, <2>8 DEF VersionsInv, TypeOK, Files
    <3>2. archive[target]["state"] = Absent /\ run["state"] # Absent
      BY <2>1, <2>2, <2>8 DEF VersionsInv, LastVersionWorkedOn
    <3>3. StatesKeptInOrder'
      BY <2>2, <2>3, <2>4, <2>6, <2>7, <3>1, <3>2 DEF VersionsInv, TypeOK, Files, StatesKeptInOrder
    <3>4. StatesWereSaved'
      BY <2>2, <2>3, <2>6, <3>1 DEF VersionsInv, StatesWereSaved
    <3>5. LastVersionWorkedOn' /\ AuthorKnown'
      BY <2>2, <2>3, <2>6, <3>1 DEF VersionsInv, LastVersionWorkedOn, AuthorKnown
    <3>6. NewestKept'
      BY <2>2, <2>3, <3>1, <3>2 DEF VersionsInv, NewestKept
    <3> QED BY <2>5, <3>3, <3>4, <3>5, <3>6 DEF VersionsInv
  <2>9. CASE f # "state"
    <3>1. run'["state"] = run["state"]
      BY <2>1, <2>2, <2>9 DEF VersionsInv, TypeOK, Files
    <3>2. \A v \in Versions : archive'[v]["state"] = archive[v]["state"]
      BY <2>1, <2>2, <2>9 DEF VersionsInv, TypeOK, Files
    <3>3. StatesKeptInOrder' /\ StatesWereSaved'
      BY <2>2, <3>1, <3>2 DEF VersionsInv, StatesKeptInOrder, StatesWereSaved
    <3>4. LastVersionWorkedOn' /\ AuthorKnown'
      BY <2>2, <2>3, <2>6, <3>1, <3>2 DEF VersionsInv, LastVersionWorkedOn, AuthorKnown
    <3>5. NewestKept'
      BY <2>2, <3>1, <3>2 DEF VersionsInv, TypeOK, NewestKept
    <3> QED BY <2>5, <3>3, <3>4, <3>5 DEF VersionsInv
  <2> QED BY <2>8, <2>9
<1> QED BY <1>1, <1>2

LEMMA RestoreKeeps ==
  ASSUME VersionsInv, RestoreEntry
  PROVE  VersionsInv'
<1> DEFINE files == archive[target]
<1>1. target \in dirs /\ target \in Versions /\ files \in Files
        /\ \A v \in dirs : v <= target
  BY DEF RestoreEntry, VersionsInv, TypeOK, LastVersionWorkedOn
<1>2. CASE ~ HasMoved(files)
  <2>1. /\ pc' = "remove" /\ files["state"] = Absent /\ pc = "restore"
        /\ UNCHANGED <<run, archive, dirs, listed, target, author, starts, saved, before,
                       disturbed, requests>>
    BY <1>2 DEF RestoreEntry, HasMoved
  <2> QED BY <2>1 DEF VersionsInv, TypeOK, StatesKeptInOrder, StatesWereSaved,
                LastVersionWorkedOn, AuthorKnown, NewestKept, Steps
<1>3. CASE HasMoved(files)
  <2> DEFINE f == First(files)
  <2>1. f \in Moved /\ files[f] # Absent
    BY <1>1, <1>3, FirstIsMoved
  <2> HIDE DEF f
  <2>2. /\ archive' = [archive EXCEPT ![target][f] = Absent]
        /\ run' = [run EXCEPT ![f] = files[f]]
        /\ UNCHANGED <<pc, dirs, listed, target, author, starts, saved, before, disturbed, requests>>
        /\ pc = "restore"
    BY <1>3 DEF RestoreEntry, f
  <2>3. archive' \in [Versions -> Files] /\ run' \in Files
    BY <1>1, <2>1, <2>2 DEF VersionsInv, TypeOK, Files
  <2>4. TypeOK'
    BY <2>2, <2>3 DEF VersionsInv, TypeOK
  <2>5. \A v \in Versions : v # target => archive'[v] = archive[v]
    BY <2>2 DEF VersionsInv, TypeOK
  <2>6. \A v \in Versions \ dirs : archive[v]["state"] = Absent
    BY DEF VersionsInv, LastVersionWorkedOn, Empty
  <2>7. CASE f = "state"
    <3>1. run'["state"] = archive[target]["state"] /\ archive'[target]["state"] = Absent
      BY <1>1, <2>1, <2>2, <2>7 DEF VersionsInv, TypeOK, Files
    <3>2. run["state"] = Absent /\ archive[target]["state"] # Absent
      BY <2>1, <2>2, <2>7 DEF VersionsInv, LastVersionWorkedOn
    <3>3. archive[target]["state"] \in Starts
      BY <1>1, <3>2 DEF Files
    <3>4. \A v \in Versions : v # target /\ archive[v]["state"] # Absent
            => archive[v]["state"] < archive[target]["state"]
      BY <1>1, <2>6, <3>2 DEF VersionsInv, TypeOK, StatesKeptInOrder
    <3>5. StatesKeptInOrder'
      BY <1>1, <2>2, <2>5, <3>1, <3>2, <3>3, <3>4 DEF VersionsInv, TypeOK, StatesKeptInOrder
    <3>6. StatesWereSaved'
      BY <1>1, <2>2, <2>5, <3>1 DEF VersionsInv, StatesWereSaved
    <3>7. LastVersionWorkedOn' /\ AuthorKnown'
      BY <1>1, <2>2, <2>5, <3>1 DEF VersionsInv, LastVersionWorkedOn, AuthorKnown
    <3>8. NewestKept'
      BY <3>1, <3>2 DEF NewestKept
    <3> QED BY <2>4, <3>5, <3>6, <3>7, <3>8 DEF VersionsInv
  <2>8. CASE f # "state"
    <3>1. run'["state"] = run["state"]
      BY <2>1, <2>2, <2>8 DEF VersionsInv, TypeOK, Files
    <3>2. \A v \in Versions : archive'[v]["state"] = archive[v]["state"]
      BY <2>1, <2>2, <2>8 DEF VersionsInv, TypeOK, Files
    <3>3. StatesKeptInOrder' /\ StatesWereSaved'
      BY <2>2, <3>1, <3>2 DEF VersionsInv, StatesKeptInOrder, StatesWereSaved
    <3>4. LastVersionWorkedOn' /\ AuthorKnown'
      BY <1>1, <2>2, <2>5, <3>1, <3>2 DEF VersionsInv, LastVersionWorkedOn, AuthorKnown
    <3>5. NewestKept'
      BY <2>2, <3>1, <3>2 DEF VersionsInv, TypeOK, NewestKept
    <3> QED BY <2>4, <3>3, <3>4, <3>5 DEF VersionsInv
  <2> QED BY <2>7, <2>8
<1> QED BY <1>2, <1>3

\* The steps between the two loops, and the archive's removal after the second.
LEMMA ArchiveStepsKeep ==
  ASSUME VersionsInv, CopyInput \/ WriteListing \/ ProjectInput \/ RejectInput
  PROVE  VersionsInv'
<1>1. target \in dirs /\ target \in Versions /\ \A v \in dirs : v <= target
  BY DEF CopyInput, WriteListing, ProjectInput, RejectInput, VersionsInv, TypeOK,
         LastVersionWorkedOn
<1>2. CASE CopyInput
  <2>1. run["input"] \in Starts \cup {Absent}
    BY DEF VersionsInv, TypeOK, Files
  <2>2. archive' \in [Versions -> Files]
        /\ (\A v \in Versions : archive'[v]["state"] = archive[v]["state"])
        /\ \A v \in Versions : v # target => archive'[v] = archive[v]
    BY <1>1, <1>2, <2>1 DEF CopyInput, VersionsInv, TypeOK, Files
  <2>3. /\ pc = "copy" /\ pc' = "list"
        /\ UNCHANGED <<run, dirs, listed, target, author, starts, saved, before, disturbed, requests>>
    BY <1>2 DEF CopyInput
  <2>4. TypeOK'
    BY <2>2, <2>3 DEF VersionsInv, TypeOK, Steps
  <2>5. StatesKeptInOrder' /\ StatesWereSaved' /\ NewestKept'
    BY <2>2, <2>3 DEF VersionsInv, TypeOK, StatesKeptInOrder, StatesWereSaved, NewestKept
  <2>6. LastVersionWorkedOn' /\ AuthorKnown'
    BY <1>1, <2>2, <2>3 DEF VersionsInv, LastVersionWorkedOn, AuthorKnown
  <2> QED BY <2>4, <2>5, <2>6 DEF VersionsInv
<1>3. CASE WriteListing \/ RejectInput
  <2>1. /\ listed' \subseteq dirs
        /\ pc \in {"list", "project"} /\ pc' \in {"project", "restore"}
        /\ pc' = "project" => pc = "list"
        /\ UNCHANGED <<run, archive, dirs, target, author, starts, saved, before, disturbed, requests>>
    BY <1>1, <1>3 DEF WriteListing, RejectInput, VersionsInv, TypeOK
  <2>2. TypeOK'
    BY <2>1 DEF VersionsInv, TypeOK, Steps
  <2> QED BY <2>1, <2>2 DEF VersionsInv, StatesKeptInOrder, StatesWereSaved,
                LastVersionWorkedOn, AuthorKnown, NewestKept
<1>4. CASE ProjectInput
  <2>1. /\ pc' = "plan" /\ starts' = starts + 1 /\ author' = starts + 1
        /\ run["state"] = Absent /\ starts \in Nat /\ starts < requests /\ requests \in 0 .. MaxRequests
        /\ UNCHANGED <<run, archive, dirs, listed, target, saved, before, disturbed, requests>>
    BY <1>4 DEF ProjectInput, PrepareStart, VersionsInv, TypeOK, StatesWereSaved,
                LastVersionWorkedOn
  <2>2. author' \in Starts /\ starts' \in 0 .. MaxRequests
    BY <2>1
  <2>3. TypeOK'
    BY <2>1, <2>2 DEF VersionsInv, TypeOK, Steps
  <2>4. StatesKeptInOrder' /\ LastVersionWorkedOn' /\ NewestKept'
    BY <2>1 DEF VersionsInv, StatesKeptInOrder, LastVersionWorkedOn, NewestKept
  <2>5. \A s \in saved : s \in Nat /\ s <= starts
    BY DEF VersionsInv, TypeOK, StatesWereSaved
  <2>6. StatesWereSaved'
    BY <2>1, <2>5 DEF VersionsInv, StatesWereSaved
  <2>7. AuthorKnown'
    BY <2>1, <2>2, <2>5 DEF AuthorKnown
  <2> QED BY <2>3, <2>4, <2>6, <2>7 DEF VersionsInv
<1> QED BY <1>2, <1>3, <1>4

LEMMA RemoveKeeps ==
  ASSUME VersionsInv, RemoveArchive
  PROVE  VersionsInv'
<1>1. /\ pc = "remove" /\ pc' = "idle"
      /\ archive' = [archive EXCEPT ![target] = Empty]
      /\ dirs' = dirs \ {target} /\ listed' = listed \ {target}
      /\ UNCHANGED <<run, target, author, starts, saved, before, disturbed, requests>>
  BY DEF RemoveArchive
<1>2. target \in dirs /\ target \in Versions /\ archive[target]["state"] = Absent
        /\ \A v \in dirs : v <= target
  BY <1>1 DEF VersionsInv, TypeOK, LastVersionWorkedOn
<1>3. Empty \in Files /\ Empty["state"] = Absent
  BY DEF Empty, Files
<1>4. archive' \in [Versions -> Files] /\ archive'[target] = Empty
        /\ \A v \in Versions : v # target => archive'[v] = archive[v]
  BY <1>1, <1>2, <1>3 DEF VersionsInv, TypeOK
<1>5. \A v \in Versions : archive'[v]["state"] = archive[v]["state"]
  BY <1>2, <1>3, <1>4
<1>6. TypeOK'
  BY <1>1, <1>4 DEF VersionsInv, TypeOK, Steps
<1>7. StatesKeptInOrder' /\ StatesWereSaved'
  BY <1>1, <1>5 DEF VersionsInv, StatesKeptInOrder, StatesWereSaved
<1>8. LastVersionWorkedOn' /\ AuthorKnown'
  BY <1>1, <1>4 DEF VersionsInv, LastVersionWorkedOn, AuthorKnown
<1>9. saved # {} => run["state"] # Absent
  <2> SUFFICES ASSUME saved # {}, run["state"] = Absent PROVE FALSE
    OBVIOUS
  <2>1. PICK d \in dirs : (\A v \in dirs : v <= d) /\ archive[d]["state"] # Absent
    BY DEF VersionsInv, NewestKept
  <2>2. d = target
    BY <1>2, <2>1 DEF VersionsInv, TypeOK
  <2> QED BY <1>2, <2>1, <2>2
<1>10. NewestKept'
  BY <1>1, <1>9 DEF NewestKept
<1> QED BY <1>6, <1>7, <1>8, <1>10 DEF VersionsInv

-----------------------------------------------------------------------------
\* save_plan, _save_start_input, the first save and what the execution writes.
LEMMA WritesKeep ==
  ASSUME VersionsInv, WritePlan \/ WriteInput \/ Execute
  PROVE  VersionsInv'
<1>1. author \in Starts \cup {Absent} /\ run \in Files
  BY DEF VersionsInv, TypeOK
<1>2. run' \in Files /\ run'["state"] = run["state"]
  BY <1>1 DEF WritePlan, WriteInput, Execute, Files
<1>3. /\ pc \in {"plan", "input", "execute"} /\ pc' \in {"input", "save", "execute"}
      /\ pc' = "input" => pc = "plan"
      /\ pc' = "save" => pc = "input"
      /\ UNCHANGED <<archive, dirs, listed, target, author, starts, saved, before, disturbed, requests>>
  BY DEF WritePlan, WriteInput, Execute
<1>4. TypeOK'
  BY <1>2, <1>3 DEF VersionsInv, TypeOK, Steps
<1> QED BY <1>2, <1>3, <1>4 DEF VersionsInv, StatesKeptInOrder, StatesWereSaved,
              LastVersionWorkedOn, AuthorKnown, NewestKept

LEMMA SavePlanKeeps ==
  ASSUME VersionsInv, SavePlan
  PROVE  VersionsInv'
<1>1. author \in Starts \cup {Absent} /\ run \in Files
  BY DEF VersionsInv, TypeOK
<1>2. run' \in Files /\ run'["state"] = run["state"]
  BY <1>1 DEF SavePlan, Files
<1>3. UNCHANGED <<archive, dirs, listed, pc, target, author, starts, saved,
                  before, disturbed, requests>> /\ pc = "save"
  BY DEF SavePlan
<1>4. TypeOK'
  BY <1>2, <1>3 DEF VersionsInv, TypeOK
<1> QED BY <1>2, <1>3, <1>4 DEF VersionsInv, StatesKeptInOrder, StatesWereSaved,
              LastVersionWorkedOn, AuthorKnown, NewestKept

LEMMA FirstSaveKeeps ==
  ASSUME VersionsInv, FirstSave
  PROVE  VersionsInv'
<1>1. /\ pc = "save" /\ pc' = "execute"
      /\ run' = [run EXCEPT !["state"] = author] /\ saved' = saved \cup {author}
      /\ UNCHANGED <<archive, dirs, listed, target, author, starts, before, disturbed, requests>>
  BY DEF FirstSave
<1>2. author \in Starts /\ author \in Nat /\ author # Absent /\ author <= starts
  BY <1>1 DEF VersionsInv, TypeOK, AuthorKnown, StatesWereSaved
<1>3. run' \in Files /\ run'["state"] = author
  BY <1>1, <1>2 DEF VersionsInv, TypeOK, Files
<1>4. TypeOK'
  BY <1>1, <1>2, <1>3 DEF VersionsInv, TypeOK, Steps
<1>5. \A v \in Versions : archive[v]["state"] < author
  <2>1. CASE author \in saved /\ run["state"] = author
    BY <1>2, <2>1 DEF VersionsInv, StatesKeptInOrder
  <2>2. CASE author = starts /\ author \notin saved
    <3> SUFFICES ASSUME NEW v \in Versions PROVE archive[v]["state"] < author
      OBVIOUS
    <3>1. archive[v]["state"] \in saved \cup {Absent}
      BY DEF VersionsInv, StatesWereSaved
    <3>2. \A s \in saved : s \in Nat /\ s <= author /\ s # author
      BY <2>2 DEF VersionsInv, StatesWereSaved, TypeOK
    <3> QED BY <1>2, <3>1, <3>2
  <2> QED BY <1>1, <2>1, <2>2 DEF VersionsInv, AuthorKnown
<1>6. run["state"] \in {Absent, author}
  BY <1>1 DEF VersionsInv, AuthorKnown
<1>7. \A s \in saved : s # Absent
  BY DEF VersionsInv, TypeOK
<1>8. StatesKeptInOrder'
  BY <1>1, <1>3, <1>5, <1>6, <1>7 DEF VersionsInv, StatesKeptInOrder
<1>9. StatesWereSaved'
  BY <1>1, <1>2, <1>3 DEF VersionsInv, StatesWereSaved
<1>10. LastVersionWorkedOn' /\ AuthorKnown'
  BY <1>1 DEF VersionsInv, LastVersionWorkedOn, AuthorKnown
<1>11. NewestKept'
  BY <1>2, <1>3 DEF NewestKept
<1> QED BY <1>4, <1>8, <1>9, <1>10, <1>11 DEF VersionsInv

\* The process stops, an operation fails, or the execution is over.
LEMMA StopsKeep ==
  ASSUME VersionsInv, StopsOrFails \/ ExecutionEnds
  PROVE  VersionsInv'
<1>1. /\ pc' = "idle" /\ disturbed' \in BOOLEAN
      /\ UNCHANGED <<run, archive, dirs, listed, target, author, starts, saved, before, requests>>
  BY DEF StopsOrFails, ExecutionEnds, VersionsInv, TypeOK
<1>2. TypeOK'
  BY <1>1 DEF VersionsInv, TypeOK, Steps
<1> QED BY <1>1, <1>2 DEF VersionsInv, StatesKeptInOrder, StatesWereSaved,
              LastVersionWorkedOn, AuthorKnown, NewestKept

-----------------------------------------------------------------------------
\* The inductive invariant of a Run's files: whatever of start, resume, rerun
\* and restore was cut off, the states are kept, in order and within reach.
THEOREM VersionsInvariant == Spec => []VersionsInv
<1>1. Init => VersionsInv
  <2> SUFFICES ASSUME Init PROVE VersionsInv
    OBVIOUS
  <2>1. Empty \in Files /\ Empty["state"] = Absent
    BY DEF Empty, Files
  <2>2. 1 \in Versions /\ 0 \in 0 .. MaxRequests
    OBVIOUS
  <2>3. TypeOK
    BY <2>1, <2>2 DEF Init, TypeOK, Steps
  <2>4. StatesKeptInOrder /\ StatesWereSaved /\ LastVersionWorkedOn /\ AuthorKnown /\ NewestKept
    BY <2>1 DEF Init, StatesKeptInOrder, StatesWereSaved, LastVersionWorkedOn, AuthorKnown,
                NewestKept
  <2> QED BY <2>3, <2>4 DEF VersionsInv
<1>2. VersionsInv /\ [Next]_vars => VersionsInv'
  <2> SUFFICES ASSUME VersionsInv, [Next]_vars PROVE VersionsInv'
    OBVIOUS
  <2>1. CASE UNCHANGED vars
    BY <2>1 DEF vars, VersionsInv, TypeOK, StatesKeptInOrder, StatesWereSaved,
                LastVersionWorkedOn, AuthorKnown, NewestKept
  <2>2. CASE StartAnew \/ StartAgain \/ Resume
    BY <2>2, BeginKeeps
  <2>3. CASE Rerun
    BY <2>3, RerunKeeps
  <2>4. CASE MoveEntry
    BY <2>4, MoveKeeps
  <2>5. CASE CopyInput \/ WriteListing \/ ProjectInput \/ RejectInput
    BY <2>5, ArchiveStepsKeep
  <2>6. CASE RestoreEntry
    BY <2>6, RestoreKeeps
  <2>7. CASE RemoveArchive
    BY <2>7, RemoveKeeps
  <2>8. CASE WritePlan \/ WriteInput \/ Execute
    BY <2>8, WritesKeep
  <2>9. CASE FirstSave
    BY <2>9, FirstSaveKeeps
  <2>10. CASE StopsOrFails \/ ExecutionEnds
    BY <2>10, StopsKeep
  <2>11. CASE SavePlan
    BY <2>11, SavePlanKeeps
  <2> QED BY <2>1, <2>2, <2>3, <2>4, <2>5, <2>6, <2>7, <2>8, <2>9, <2>10,
             <2>11 DEF Next
<1> QED BY <1>1, <1>2, PTL DEF Spec

\* Every variable of a Run's files keeps its type.
THEOREM VersionsTypeCorrect == Spec => []TypeOK
<1>1. VersionsInv => TypeOK
  BY DEF VersionsInv
<1> QED BY <1>1, VersionsInvariant, PTL

\* No stop and no failure of a file operation loses a state that was saved,
\* and the versions keep them in the order of their starts.
THEOREM StatesAreKept == Spec => []StatesKeptInOrder
<1>1. VersionsInv => StatesKeptInOrder
  BY DEF VersionsInv
<1> QED BY <1>1, VersionsInvariant, PTL

\* The newest state is the Run's own or in its last version, at every moment.
THEOREM NewestIsWithinReach == Spec => []NewestWithinReach
<1>1. VersionsInv => NewestWithinReach
  <2> SUFFICES ASSUME VersionsInv, saved # {} PROVE NewestWithinReach
    BY DEF NewestWithinReach
  <2>1. saved \in SUBSET Nat /\ \A s \in saved : s # Absent /\ s <= MaxRequests
    BY DEF VersionsInv, TypeOK
  <2>2. PICK last \in saved : last = Max(saved) /\ \A s \in saved : s <= last
    BY <2>1, GreatestExists
  <2> DEFINE own == run["state"]
  <2>3. CASE own # Absent
    <3>1. own \in saved /\ own \in Nat /\ last \in Nat /\ own <= last
      BY <2>1, <2>2, <2>3 DEF VersionsInv, StatesWereSaved
    <3>2. last <= own
      <4>1. own = last \/ \E v \in Versions : archive[v]["state"] = last
        BY DEF VersionsInv, StatesKeptInOrder
      <4>2. \A v \in Versions : archive[v]["state"] < own
        BY <2>3 DEF VersionsInv, StatesKeptInOrder
      <4> HIDE DEF own
      <4> QED BY <2>1, <3>1, <4>1, <4>2
    <3> HIDE DEF own
    <3>3. own = last
      BY <3>1, <3>2
    <3> QED BY <2>2, <3>3 DEF NewestWithinReach, own
  <2>4. CASE own = Absent
    <3>1. PICK d \in dirs : (\A v \in dirs : v <= d) /\ archive[d]["state"] # Absent
      BY <2>4 DEF VersionsInv, NewestKept
    <3>2. dirs \in SUBSET Nat /\ \A v \in dirs : v <= MaxVersions
      BY DEF VersionsInv, TypeOK
    <3>3. PICK top \in dirs : top = Max(dirs) /\ \A v \in dirs : v <= top
      BY <3>1, <3>2, GreatestExists
    <3>4. top = d
      BY <3>1, <3>2, <3>3
    <3> DEFINE kept == archive[d]["state"]
    <3>5. kept \in saved /\ kept \in Nat /\ last \in Nat /\ kept <= last
      BY <2>1, <2>2, <3>1 DEF VersionsInv, TypeOK, StatesWereSaved
    <3>6. PICK v \in Versions : archive[v]["state"] = last
      BY <2>1, <2>2, <2>4 DEF VersionsInv, StatesKeptInOrder
    <3>7. v \in dirs
      BY <2>1, <2>2, <3>6 DEF VersionsInv, LastVersionWorkedOn, Empty
    <3>8. v = d \/ archive[v]["state"] < kept
      BY <2>1, <2>2, <3>1, <3>2, <3>6, <3>7 DEF VersionsInv, TypeOK, StatesKeptInOrder
    <3>9. last <= kept
      BY <3>5, <3>6, <3>8
    <3> HIDE DEF kept
    <3>10. kept = last
      BY <3>5, <3>9
    <3> QED BY <2>2, <3>1, <3>3, <3>4, <3>10 DEF NewestWithinReach, kept
  <2> QED BY <2>3, <2>4
<1> QED BY <1>1, VersionsInvariant, PTL

-----------------------------------------------------------------------------
\* Requests find whole files: the versions stay as they are.
LEMMA BeginWhole ==
  ASSUME VersionsInv, WholeInv, StartAnew \/ StartAgain \/ Resume
  PROVE  WholeInv'
<1> SUFFICES ASSUME ~ disturbed' PROVE WholeInv'
  BY DEF WholeInv
<1>1. /\ pc = "idle" /\ pc' \in {"plan", "save"} /\ ~ disturbed
      /\ UNCHANGED <<run, archive, dirs, listed, target, saved, before, disturbed>>
  BY DEF StartAnew, StartAgain, Resume, Request, PrepareStart, Continue
<1>2. run = Empty \/ (OfOne(run, run["state"]) /\ run["state"] \in saved)
  BY <1>1 DEF WholeInv
<1>3. pc' = "plan" => \A e \in Moved : run[e] = Absent
  <2>1. pc' = "plan" => run["state"] = Absent
    BY DEF StartAnew, StartAgain, Resume, Continue
  <2>2. \A x \in saved : x # Absent
    BY DEF VersionsInv, TypeOK
  <2> QED BY <1>2, <2>1, <2>2 DEF Empty
<1>4. pc' = "save" => author' = run["state"] /\ run["state"] # Absent
  BY DEF StartAnew, StartAgain, Resume, PrepareStart, Continue
<1>5. pc' = "save" => OfOne(run, author')
  BY <1>2, <1>4 DEF Empty
<1> QED BY <1>1, <1>3, <1>5 DEF WholeInv, OfOne, Settled

LEMMA RerunWhole ==
  ASSUME VersionsInv, WholeInv, Rerun
  PROVE  WholeInv'
<1> SUFFICES ASSUME ~ disturbed' PROVE WholeInv'
  BY DEF WholeInv
<1>1. /\ pc = "idle" /\ pc' = "move" /\ ~ disturbed /\ before' = run
      /\ target' = CurrentVersion /\ dirs' = dirs \cup {CurrentVersion}
      /\ run["state"] # Absent
      /\ UNCHANGED <<run, archive, listed, saved, disturbed>>
  BY DEF Rerun, Request
<1>2. CurrentVersion \in Versions \ dirs
  BY CurrentVersionIsNew DEF Rerun
<1>3. OfOne(run, run["state"]) /\ run["state"] \in saved
  BY <1>1 DEF WholeInv, Empty
<1>4. archive[target'] = Empty
  BY <1>1, <1>2 DEF VersionsInv, LastVersionWorkedOn
<1>5. archive'[target'] = Empty /\ run' = before'
  BY <1>1, <1>4
<1>6. Between(run, archive[target])'
  BY <1>5 DEF Between, Empty
<1>7. OfOne(before, before["state"])' /\ (before["state"] \in saved)'
        /\ (run["input"] = before["input"])'
  BY <1>1, <1>3 DEF OfOne
<1>8. \A v \in dirs' : v # target'
        => v \in listed' /\ \E s \in saved' : OfOne(archive'[v], s)
  BY <1>1 DEF WholeInv, Settled
<1> QED BY <1>1, <1>6, <1>7, <1>8 DEF WholeInv, Settled

\* Moving one entry, here to there or back, leaves the two together whole.
LEMMA MoveWhole ==
  ASSUME VersionsInv, WholeInv, MoveEntry
  PROVE  WholeInv'
<1> SUFFICES ASSUME ~ disturbed' PROVE WholeInv'
  BY DEF WholeInv
<1>1. /\ pc = "move" /\ ~ disturbed /\ target \in Versions /\ run \in Files
      /\ archive \in [Versions -> Files]
      /\ UNCHANGED <<dirs, listed, target, author, saved, before, disturbed>>
  BY DEF MoveEntry, VersionsInv, TypeOK
<1>2. Between(run, archive[target]) /\ OfOne(before, before["state"])
        /\ before["state"] \in saved /\ run["input"] = before["input"]
        /\ \A v \in dirs : v # target
             => v \in listed /\ \E s \in saved : OfOne(archive[v], s)
  BY <1>1 DEF WholeInv, Settled
<1>3. CASE ~ HasMoved(run)
  <2>1. pc' = "copy" /\ UNCHANGED <<run, archive>>
    BY <1>3 DEF MoveEntry
  <2>2. \A e \in Moved : run[e] = Absent /\ archive[target][e] = before[e]
    BY <1>2, <1>3 DEF Between, HasMoved
  <2> QED BY <1>1, <1>2, <2>1, <2>2 DEF WholeInv, Settled
<1>4. CASE HasMoved(run)
  <2> DEFINE f == First(run)
  <2>1. f \in Moved /\ run[f] # Absent
    BY <1>1, <1>4, FirstIsMoved
  <2> HIDE DEF f
  <2>2. /\ archive' = [archive EXCEPT ![target][f] = run[f]]
        /\ run' = [run EXCEPT ![f] = Absent] /\ pc' = pc
    BY <1>4 DEF MoveEntry, f
  <2>3. \A e \in Entries : /\ run'[e] = IF e = f THEN Absent ELSE run[e]
                           /\ archive'[target][e] = IF e = f THEN run[f] ELSE archive[target][e]
    BY <1>1, <2>1, <2>2 DEF Files
  <2>4. \A v \in Versions : v # target => archive'[v] = archive[v]
    BY <1>1, <2>2
  <2>5. Between(run', archive'[target])
    BY <1>2, <2>1, <2>3 DEF Between
  <2>6. Between(run, archive[target])'
    BY <1>1, <2>5 DEF Between
  <2>7. run'["input"] = before["input"]
    BY <1>2, <2>1, <2>3
  <2>8. \A v \in dirs : v # target => v \in listed /\ \E s \in saved : OfOne(archive'[v], s)
    BY <1>2, <2>4 DEF VersionsInv, TypeOK
  <2> QED BY <1>1, <1>2, <2>2, <2>6, <2>7, <2>8 DEF WholeInv, Settled
<1> QED BY <1>3, <1>4

LEMMA RestoreWhole ==
  ASSUME VersionsInv, WholeInv, RestoreEntry
  PROVE  WholeInv'
<1> SUFFICES ASSUME ~ disturbed' PROVE WholeInv'
  BY DEF WholeInv
<1>1. /\ pc = "restore" /\ ~ disturbed /\ target \in Versions /\ run \in Files
      /\ before \in Files /\ archive \in [Versions -> Files] /\ archive[target] \in Files
      /\ UNCHANGED <<dirs, listed, target, author, saved, before, disturbed>>
  BY DEF RestoreEntry, VersionsInv, TypeOK
<1>2. Between(run, archive[target]) /\ OfOne(before, before["state"])
        /\ before["state"] \in saved /\ run["input"] = before["input"]
        /\ archive[target]["input"] = before["input"]
        /\ \A v \in dirs : v # target
             => v \in listed /\ \E s \in saved : OfOne(archive[v], s)
  BY <1>1 DEF WholeInv, Settled
<1>3. CASE ~ HasMoved(archive[target])
  <2>1. pc' = "remove" /\ UNCHANGED <<run, archive>>
    BY <1>3 DEF RestoreEntry
  <2>2. \A e \in Moved : run[e] = before[e]
    BY <1>2, <1>3 DEF Between, HasMoved
  <2>3. run = before
    BY <1>1, <1>2, <2>2 DEF Files
  <2> QED BY <1>1, <1>2, <2>1, <2>3 DEF WholeInv, Settled
<1>4. CASE HasMoved(archive[target])
  <2> DEFINE f == First(archive[target])
  <2>1. f \in Moved /\ archive[target][f] # Absent
    BY <1>1, <1>4, FirstIsMoved
  <2> HIDE DEF f
  <2>2. /\ archive' = [archive EXCEPT ![target][f] = Absent]
        /\ run' = [run EXCEPT ![f] = archive[target][f]] /\ pc' = pc
    BY <1>4 DEF RestoreEntry, f
  <2>3. \A e \in Entries : /\ run'[e] = IF e = f THEN archive[target][f] ELSE run[e]
                           /\ archive'[target][e] = IF e = f THEN Absent ELSE archive[target][e]
    BY <1>1, <2>1, <2>2 DEF Files
  <2>4. \A v \in Versions : v # target => archive'[v] = archive[v]
    BY <1>1, <2>2
  <2>5. Between(run', archive'[target])
    BY <1>2, <2>1, <2>3 DEF Between
  <2>6. Between(run, archive[target])'
    BY <1>1, <2>5 DEF Between
  <2>7. run'["input"] = before["input"] /\ archive'[target]["input"] = before["input"]
    BY <1>2, <2>1, <2>3
  <2>8. \A v \in dirs : v # target => v \in listed /\ \E s \in saved : OfOne(archive'[v], s)
    BY <1>2, <2>4 DEF VersionsInv, TypeOK
  <2> QED BY <1>1, <1>2, <2>2, <2>6, <2>7, <2>8 DEF WholeInv, Settled
<1> QED BY <1>3, <1>4

LEMMA ArchiveStepsWhole ==
  ASSUME VersionsInv, WholeInv, CopyInput \/ WriteListing \/ RejectInput
  PROVE  WholeInv'
<1> SUFFICES ASSUME ~ disturbed' PROVE WholeInv'
  BY DEF WholeInv
<1>1. /\ pc \in {"copy", "list", "project"} /\ ~ disturbed /\ target \in Versions
      /\ archive \in [Versions -> Files] /\ run \in Files
      /\ UNCHANGED <<run, dirs, target, author, saved, before, disturbed>>
  BY DEF CopyInput, WriteListing, RejectInput, VersionsInv, TypeOK
<1>2. OfOne(before, before["state"])
        /\ before["state"] \in saved /\ run["input"] = before["input"]
        /\ (\A e \in Moved : run[e] = Absent /\ archive[target][e] = before[e])
        /\ \A v \in dirs : v # target
             => v \in listed /\ \E s \in saved : OfOne(archive[v], s)
  BY <1>1 DEF WholeInv, Settled
<1>3. CASE CopyInput
  <2>1. pc' = "list" /\ UNCHANGED listed
        /\ archive' = [archive EXCEPT ![target]["input"] = run["input"]]
    BY <1>3 DEF CopyInput
  <2>2. archive'[target]["input"] = before["input"]
        /\ \A e \in Moved : archive'[target][e] = before[e]
    BY <1>1, <1>2, <2>1 DEF Files
  <2>3. \A v \in Versions : v # target => archive'[v] = archive[v]
    BY <1>1, <2>1
  <2>4. \A v \in dirs : v # target => v \in listed /\ \E s \in saved : OfOne(archive'[v], s)
    BY <1>2, <2>3 DEF VersionsInv, TypeOK
  <2> QED BY <1>1, <1>2, <2>1, <2>2, <2>4 DEF WholeInv, Settled
<1>4. CASE WriteListing
  <2>1. pc = "list" /\ pc' = "project" /\ UNCHANGED archive /\ listed' = listed \cup {target}
    BY <1>4 DEF WriteListing
  <2>2. archive[target]["input"] = before["input"]
    BY <1>1, <2>1 DEF WholeInv
  <2> QED BY <1>1, <1>2, <2>1, <2>2 DEF WholeInv, Settled
<1>5. CASE RejectInput
  <2>1. pc = "project" /\ pc' = "restore" /\ UNCHANGED <<archive, listed>>
    BY <1>5 DEF RejectInput
  <2>2. archive[target]["input"] = before["input"]
    BY <1>1, <2>1 DEF WholeInv
  <2>3. Between(run, archive[target])'
    BY <1>1, <1>2, <2>1 DEF Between
  <2> QED BY <1>1, <1>2, <2>1, <2>2, <2>3 DEF WholeInv, Settled
<1> QED BY <1>3, <1>4, <1>5

\* The new start is projected: the version it replaces is whole and listed.
LEMMA ProjectWhole ==
  ASSUME VersionsInv, WholeInv, ProjectInput
  PROVE  WholeInv'
<1> SUFFICES ASSUME ~ disturbed' PROVE WholeInv'
  BY DEF WholeInv
<1>1. /\ pc = "project" /\ pc' = "plan" /\ ~ disturbed
      /\ UNCHANGED <<run, archive, dirs, listed, target, saved, before, disturbed>>
  BY DEF ProjectInput, PrepareStart
<1>2. OfOne(before, before["state"]) /\ before["state"] \in saved
        /\ archive[target]["input"] = before["input"] /\ target \in listed
        /\ (\A e \in Moved : run[e] = Absent /\ archive[target][e] = before[e])
        /\ \A v \in dirs : v # target
             => v \in listed /\ \E s \in saved : OfOne(archive[v], s)
  BY <1>1 DEF WholeInv, Settled
<1>3. OfOne(archive[target], before["state"])
  BY <1>2 DEF OfOne
<1>4. \A v \in dirs : v \in listed /\ \E s \in saved : OfOne(archive[v], s)
  BY <1>2, <1>3
<1> QED BY <1>1, <1>2, <1>4 DEF WholeInv, Settled

LEMMA RemoveWhole ==
  ASSUME VersionsInv, WholeInv, RemoveArchive
  PROVE  WholeInv'
<1> SUFFICES ASSUME ~ disturbed' PROVE WholeInv'
  BY DEF WholeInv
<1>1. /\ pc = "remove" /\ pc' = "idle" /\ ~ disturbed
      /\ archive' = [archive EXCEPT ![target] = Empty]
      /\ dirs' = dirs \ {target} /\ listed' = listed \ {target}
      /\ UNCHANGED <<run, saved, disturbed>>
  BY DEF RemoveArchive
<1>2. run = before /\ OfOne(before, before["state"]) /\ before["state"] \in saved
        /\ \A v \in dirs : v # target
             => v \in listed /\ \E s \in saved : OfOne(archive[v], s)
  BY <1>1 DEF WholeInv, Settled
<1>3. \A v \in dirs : v # target => archive'[v] = archive[v]
  BY <1>1 DEF VersionsInv, TypeOK
<1> QED BY <1>1, <1>2, <1>3 DEF WholeInv, Settled

\* An execution that was not disturbed before finds its plan.
LEMMA SavePlanWhole ==
  ASSUME VersionsInv, WholeInv, SavePlan
  PROVE  WholeInv'
<1>1. author # Absent
  BY DEF SavePlan, VersionsInv, AuthorKnown, TypeOK, Starts, Absent
<1>2. disturbed /\ disturbed' = disturbed
  BY <1>1 DEF SavePlan, WholeInv
<1> QED BY <1>2 DEF WholeInv

\* What the new execution writes is its own.
LEMMA WritesWhole ==
  ASSUME VersionsInv, WholeInv, WritePlan \/ WriteInput \/ FirstSave \/ Execute
  PROVE  WholeInv'
<1> SUFFICES ASSUME ~ disturbed' PROVE WholeInv'
  BY DEF WholeInv
<1>1. /\ pc \in {"plan", "input", "save", "execute"}
      /\ pc' \in {"input", "save", "execute"} /\ ~ disturbed /\ run \in Files
      /\ saved \subseteq saved'
      /\ UNCHANGED <<archive, dirs, listed, target, author, before, disturbed>>
  BY DEF WritePlan, WriteInput, FirstSave, Execute, VersionsInv, TypeOK
<1>2. \A v \in dirs : v \in listed /\ \E s \in saved' : OfOne(archive[v], s)
  BY <1>1 DEF WholeInv, Settled
<1>3. CASE WritePlan
  <2>1. pc' = "input" /\ run'["plan"] = author /\ run'["events"] = Absent
    BY <1>1, <1>3 DEF WritePlan, WholeInv, Files
  <2> QED BY <1>1, <1>2, <2>1 DEF WholeInv, Settled
<1>4. CASE WriteInput
  <2>1. pc' = "save" /\ run'["plan"] = author /\ run'["input"] = author
          /\ run'["events"] = Absent
    BY <1>1, <1>4 DEF WriteInput, WholeInv, Files
  <2> QED BY <1>1, <1>2, <2>1 DEF WholeInv, Settled
<1>5. CASE FirstSave
  <2>1. pc' = "execute" /\ OfOne(run', author) /\ author \in saved'
    BY <1>1, <1>5 DEF FirstSave, WholeInv, Files, OfOne
  <2> QED BY <1>1, <1>2, <2>1 DEF WholeInv, Settled, OfOne
<1>6. CASE Execute
  <2>1. pc' = "execute" /\ OfOne(run', author) /\ author \in saved /\ saved' = saved
    BY <1>1, <1>6 DEF Execute, WholeInv, Files, OfOne
  <2> QED BY <1>1, <1>2, <2>1 DEF WholeInv, Settled, OfOne
<1> QED BY <1>3, <1>4, <1>5, <1>6

LEMMA StopsWhole ==
  ASSUME VersionsInv, WholeInv, StopsOrFails \/ ExecutionEnds
  PROVE  WholeInv'
<1> SUFFICES ASSUME ~ disturbed' PROVE WholeInv'
  BY DEF WholeInv
<1>1. /\ pc = "execute" /\ pc' = "idle" /\ ~ disturbed
      /\ UNCHANGED <<run, archive, dirs, listed, target, saved, before>>
  <2>1. CASE StopsOrFails
    BY <2>1, Zenon DEF StopsOrFails
  <2>2. CASE ExecutionEnds
    BY <2>2 DEF ExecutionEnds
  <2> QED BY <2>1, <2>2
<1>2. OfOne(run, author) /\ author \in saved /\ run["state"] = author
        /\ \A v \in dirs : v \in listed /\ \E s \in saved : OfOne(archive[v], s)
  BY <1>1 DEF WholeInv, Settled, OfOne
<1> QED BY <1>1, <1>2 DEF WholeInv, Settled

\* Undisturbed starts, reruns and rejected revisions leave every version whole
\* and listed, and a rejected one the Run as it was.
THEOREM VersionsAreWhole == Spec => []VersionsWhole
<1>1. Init => WholeInv
  BY DEF Init, WholeInv, Settled
<1>2. VersionsInv /\ WholeInv /\ [Next]_vars => WholeInv'
  <2> SUFFICES ASSUME VersionsInv, WholeInv, [Next]_vars PROVE WholeInv'
    OBVIOUS
  <2>1. CASE UNCHANGED vars
    BY <2>1 DEF vars, WholeInv, OfOne, Between
  <2>2. CASE StartAnew \/ StartAgain \/ Resume
    BY <2>2, BeginWhole
  <2>3. CASE Rerun
    BY <2>3, RerunWhole
  <2>4. CASE MoveEntry
    BY <2>4, MoveWhole
  <2>5. CASE CopyInput \/ WriteListing \/ RejectInput
    BY <2>5, ArchiveStepsWhole
  <2>6. CASE RestoreEntry
    BY <2>6, RestoreWhole
  <2>7. CASE RemoveArchive
    BY <2>7, RemoveWhole
  <2>8. CASE WritePlan \/ WriteInput \/ FirstSave \/ Execute
    BY <2>8, WritesWhole
  <2>9. CASE StopsOrFails \/ ExecutionEnds
    BY <2>9, StopsWhole
  <2>10. CASE ProjectInput
    BY <2>10, ProjectWhole
  <2>11. CASE SavePlan
    BY <2>11, SavePlanWhole
  <2> QED BY <2>1, <2>2, <2>3, <2>4, <2>5, <2>6, <2>7, <2>8, <2>9, <2>10,
             <2>11 DEF Next
<1>3. WholeInv => VersionsWhole
  <2> SUFFICES ASSUME WholeInv, ~ disturbed PROVE VersionsWhole
    BY DEF VersionsWhole
  <2>1. \A v \in dirs : pc \in Settled
          => v \in listed /\ \E s \in saved : OfOne(archive[v], s)
    BY DEF WholeInv
  <2>2. pc = "remove" => run = before
    BY DEF WholeInv
  <2>3. pc = "execute" => OfOne(run, author)
    BY DEF WholeInv
  <2> QED BY <2>1, <2>2, <2>3 DEF VersionsWhole, OfOne, Settled
<1> QED BY <1>1, <1>2, <1>3, VersionsInvariant, PTL DEF Spec

-----------------------------------------------------------------------------
\* Part 2. The life of the host (HostLifecycle).

\* The sequences of the model, and the sets of what is in them.
LEMMA ServicesAre ==
  /\ Len(Made) = 4 /\ Len(Closed) = 4 /\ Len(Parts) = 4
  /\ Services = {"conversations", "projection", "python", "broker"}
  /\ Range(Parts) = {"registry", "conversations", "python", "projection"}
<1>1. DOMAIN Made = 1 .. 4 /\ DOMAIN Parts = 1 .. 4 /\ DOMAIN Closed = 1 .. 4
  BY DEF Made, Parts, Closed
<1>2. 1 .. 4 = {1, 2, 3, 4}
  OBVIOUS
<1>3. Services = {"conversations", "projection", "python", "broker"}
  BY <1>1, <1>2 DEF Services, Range, Made
<1>4. Range(Parts) = {"registry", "conversations", "python", "projection"}
  BY <1>1, <1>2 DEF Range, Parts
<1> QED BY <1>3, <1>4 DEF Made, Closed, Parts

\* A rebinding of all parts leaves none out.
LEMMA AllPartsRebound == Range(SubSeq(Parts, 1, Len(Parts))) = Range(Parts)
<1>1. Parts \in Seq(Range(Parts))
  BY DEF Range, Parts
<1> QED BY <1>1, SubSeqFull

\* The first of four that is still to do: what SelectInSeq finds.
LEMMA LeastOfFour ==
  ASSUME NEW I \in SUBSET (1 .. 4), I # {}
  PROVE  Min(I) \in I /\ \A i \in I : Min(I) <= i
<1>1. \E x \in I : \A y \in I : x <= y
  <2> \A y \in I : y \in {1, 2, 3, 4}
    OBVIOUS
  <2>1. CASE 1 \in I
    BY <2>1
  <2>2. CASE 1 \notin I /\ 2 \in I
    BY <2>2
  <2>3. CASE 1 \notin I /\ 2 \notin I /\ 3 \in I
    BY <2>3
  <2>4. CASE 1 \notin I /\ 2 \notin I /\ 3 \notin I
    <3>1. 4 \in I
      BY <2>4
    <3> QED BY <3>1, <2>4
  <2> QED BY <2>1, <2>2, <2>3, <2>4
<1> QED BY <1>1 DEF Min

\* The service made next is not there yet, and the fourth is the last one.
LEMMA NextMadeIs ==
  ASSUME "broker" \notin open
  PROVE  /\ NextMade \in 1 .. 4 /\ Made[NextMade] \in Services \ open
         /\ NextMade = 4 => Services \subseteq open \cup {Made[4]}
         /\ (NextMade = 4) <=> (Made[NextMade] = "broker")
<1> DEFINE I == {i \in 1 .. Len(Made) : Made[i] \notin open}
<1>1. I \in SUBSET (1 .. 4) /\ 4 \in I
  BY ServicesAre DEF Made
<1>2. NextMade = Min(I)
  BY <1>1 DEF NextMade, SelectInSeq
<1>3. NextMade \in I /\ \A i \in I : NextMade <= i
  BY <1>1, <1>2, LeastOfFour
<1>4. NextMade \in 1 .. 4 /\ Made[NextMade] \notin open
  BY <1>1, <1>3
<1>5. Made[NextMade] \in Services
  BY <1>4, ServicesAre DEF Made
<1>6. ASSUME NextMade = 4 PROVE 1 \notin I /\ 2 \notin I /\ 3 \notin I
  BY <1>6, <1>3
<1>7. NextMade = 4 => Services \subseteq open \cup {Made[4]}
  BY <1>6, ServicesAre DEF Made
<1>8. (NextMade = 4) <=> (Made[NextMade] = "broker")
  BY <1>4 DEF Made
<1> QED BY <1>4, <1>5, <1>7, <1>8

\* The service closed next is not done with.
LEMMA NextClosedIs ==
  ASSUME NextClosed # 0
  PROVE  Closed[NextClosed] \in Services \ (done \cup tried)
<1> DEFINE I == {i \in 1 .. Len(Closed) : Closed[i] \notin done \cup tried}
<1>1. I \in SUBSET (1 .. 4)
  BY ServicesAre
<1>2. I # {} /\ NextClosed = Min(I)
  BY DEF NextClosed, SelectInSeq
<1>3. NextClosed \in I
  BY <1>1, <1>2, LeastOfFour
<1>4. NextClosed \in 1 .. 4 /\ Closed[NextClosed] \notin done \cup tried
  BY <1>1, <1>3
<1> QED BY <1>4, ServicesAre DEF Closed

\* Every part points at a project.
LEMMA PartsTyped ==
  ASSUME HostTypeOK
  PROVE  /\ parts["registry"] \in Workspaces
         /\ DOMAIN parts =
              {"registry", "conversations", "python", "projection"}
         /\ \A p \in DOMAIN parts : parts[p] \in Workspaces
BY ServicesAre DEF HostTypeOK

USE HostAssumption DEF host, cleanup, switch, counters, Switching, Replacing,
                       Passing, Served, Stages, Rebound

\* A command that is accepted finds a host at work that all parts follow.
LEMMA AcceptedIsReady ==
  ASSUME HostInv, Accepts
  PROVE  /\ commands' \in 0 .. MaxCommands /\ workspace \in Workspaces
         /\ manager = "running" /\ bus = "running" /\ ~stopped
         /\ PartsIn(workspace)
<1>1. commands' \in 0 .. MaxCommands
  BY DEF Accepts, HostInv, HostTypeOK
<1> QED BY <1>1
   DEF Accepts, HostInv, HostTypeOK, ControlInv, ReadyWorks, PartsFollow

\* Rebinding some of the parts gives them a project.
LEMMA RebindTyped ==
  ASSUME HostTypeOK, NEW w \in Workspaces, NEW n \in 0 .. Len(Parts),
         Rebind(w, n)
  PROVE  /\ parts' \in [Range(Parts) -> Workspaces]
         /\ open' \subseteq Services \cup {Rebound}
<1>1. parts' \in [Range(Parts) -> Workspaces]
  BY DEF Rebind, HostTypeOK
<1>2. open' \subseteq Services \cup {Rebound}
  BY DEF Rebind, HostTypeOK
<1> QED BY <1>1, <1>2

-----------------------------------------------------------------------------
\* Every step keeps the inductive invariant HostInv: first the lifespan's,
\* then those of the commands.

\* A lifespan is entered; the cleanup that is retried has its ownership.
LEMMA BeginLifespanKeeps ==
  ASSUME HostInv, BeginLifespan
  PROVE  HostInv'
<1>1. HostTypeOK'
  <2>1. lives' \in 0 .. MaxLives
    <3>1. lives \in 0 .. MaxLives /\ lives < MaxLives /\ lives' = lives + 1
      BY DEF BeginLifespan, HostInv, HostTypeOK
    <3> QED BY <3>1
  <2> QED BY ZenonT(60), <2>1 DEF BeginLifespan, HostInv, HostTypeOK
<1>2. ControlInv'
  BY DEF BeginLifespan, HostInv, ControlInv, LockHeld, ReadyWorks, TalkKept,
     StoppedIsStill, PassesInOrder, RuntimeIsOwned
<1>3. PartsFollow'
  BY DEF BeginLifespan, HostInv, PartsFollow, PartsIn
<1> QED BY <1>1, <1>2, <1>3 DEF HostInv

\* The host of a new lifespan holds nothing yet.
LEMMA CreateHostKeeps ==
  ASSUME HostInv, CreateHost
  PROVE  HostInv'
<1>1. HostTypeOK'
  BY ZenonT(60) DEF CreateHost, HostInv, HostTypeOK, ControlInv, LockHeld
<1>2. ControlInv'
  BY DEF CreateHost, HostInv, ControlInv, LockHeld, ReadyWorks, TalkKept,
     StoppedIsStill, PassesInOrder, RuntimeIsOwned
<1>3. PartsFollow'
  BY DEF CreateHost, HostInv, ControlInv, LockHeld, PartsFollow, PartsIn
<1> QED BY <1>1, <1>2, <1>3 DEF HostInv

\* A host that started is ready in the workspace the settings name.
LEMMA StartHostKeeps ==
  ASSUME HostInv, StartHost
  PROVE  HostInv'
<1>1. HostTypeOK'
  BY ServicesAre DEF StartHost, Bind, HostInv, HostTypeOK
<1>2. ControlInv'
  BY PartsTyped
     DEF StartHost, Bind, HostInv, ControlInv, LockHeld, ReadyWorks, TalkKept,
         StoppedIsStill, PassesInOrder, RuntimeIsOwned
<1>3. PartsFollow'
  BY DEF StartHost, Bind, HostInv, ControlInv, LockHeld, PassesInOrder,
     PartsFollow, PartsIn
<1> QED BY <1>1, <1>2, <1>3 DEF HostInv

\* A start that was not reached leaves nothing that runs.
LEMMA StartNotKeeps ==
  ASSUME HostInv, StartNot
  PROVE  HostInv'
<1>1. HostTypeOK'
  BY ZenonT(60) DEF StartNot, Cleanup, HostInv, HostTypeOK
<1>2. ControlInv'
  BY DEF StartNot, Cleanup, HostInv, ControlInv, LockHeld, ReadyWorks,
     TalkKept, StoppedIsStill, PassesInOrder, RuntimeIsOwned
<1>3. PartsFollow'
  BY DEF StartNot, Cleanup, HostInv, ControlInv, PassesInOrder, PartsFollow,
     PartsIn
<1> QED BY <1>1, <1>2, <1>3 DEF HostInv

\* What a start had begun when it raised is left to the abort.
LEMMA StartFailsKeeps ==
  ASSUME HostInv, StartFails
  PROVE  HostInv'
<1>1. HostTypeOK'
  BY PartsTyped DEF StartFails, BindFails, HostInv, HostTypeOK
<1>2. ControlInv'
  BY DEF StartFails, HostInv, ControlInv, LockHeld, ReadyWorks, TalkKept,
     StoppedIsStill, PassesInOrder, RuntimeIsOwned
<1>3. PartsFollow'
  BY DEF StartFails, HostInv, ControlInv, LockHeld, PartsFollow, PartsIn
<1> QED BY <1>1, <1>2, <1>3 DEF HostInv

\* The bus goes; agents that do not stop are left to the ownership.
LEMMA AbortKeeps ==
  ASSUME HostInv, Abort
  PROVE  HostInv'
<1>1. HostTypeOK'
  BY DEF Abort, Cleanup, StopOk, StopFails, HostInv, HostTypeOK
<1>2. ControlInv'
  <2>1. manager' # "running" \/ ~stopped'
    BY DEF Abort, StopOk, StopFails, HostInv, ControlInv, PassesInOrder
  <2>2. StoppedIsStill'
    <3>1. done' = {} /\ bus' = "shut"
      BY DEF Abort, HostInv, ControlInv, PassesInOrder
    <3>2. stopped' \/ "producers" \in done' => manager' # "running"
      BY <2>1, <3>1
    <3>3. (state' = "stopped" /\ stopped') \/ state' \in {"failed", "stopping"}
      BY DEF Abort
    <3> QED BY <2>1, <3>1, <3>2, <3>3 DEF StoppedIsStill
  <2> QED BY <2>2
     DEF Abort, Cleanup, HostInv, HostTypeOK, ControlInv, LockHeld, ReadyWorks,
         TalkKept, PassesInOrder, RuntimeIsOwned
<1>3. PartsFollow'
  BY DEF Abort, Cleanup, HostInv, PartsFollow, PartsIn
<1> QED BY <1>1, <1>2, <1>3 DEF HostInv

\* A service is made on the host's workspace, the last one with all others.
LEMMA MakeServiceKeeps ==
  ASSUME HostInv, MakeService
  PROVE  HostInv'
<1>1. HostTypeOK'
  BY NextMadeIs
     DEF MakeService, HostInv, HostTypeOK, ControlInv, ReadyWorks, PartsFollow
<1>2. ControlInv'
  BY NextMadeIs, ServicesAre
     DEF MakeService, HostInv, ControlInv, LockHeld, ReadyWorks, TalkKept,
         StoppedIsStill, PassesInOrder, RuntimeIsOwned
<1>3. PartsFollow'
  BY NextMadeIs, ServicesAre
     DEF MakeService, HostInv, HostTypeOK, ControlInv, LockHeld, PartsFollow,
         PartsIn
<1> QED BY <1>1, <1>2, <1>3 DEF HostInv

\* The services made so far go into the ownership.
LEMMA MakeFailsKeeps ==
  ASSUME HostInv, MakeFails
  PROVE  HostInv'
<1>1. HostTypeOK'
  BY ZenonT(60) DEF MakeFails, Cleanup, HostInv, HostTypeOK
<1>2. ControlInv'
  BY DEF MakeFails, Cleanup, HostInv, ControlInv, LockHeld, ReadyWorks,
     TalkKept, StoppedIsStill, PassesInOrder, RuntimeIsOwned
<1>3. PartsFollow'
  BY DEF MakeFails, Cleanup, HostInv, PartsFollow, PartsIn
<1> QED BY <1>1, <1>2, <1>3 DEF HostInv

\* The ownership exposes the first projection again; commands may still come.
LEMMA EndLifespanKeeps ==
  ASSUME HostInv, EndLifespan
  PROVE  HostInv'
<1>1. HostTypeOK'
  BY ZenonT(60) DEF EndLifespan, Cleanup, HostInv, HostTypeOK
<1>2. ControlInv'
  BY DEF EndLifespan, Cleanup, HostInv, ControlInv, LockHeld, ReadyWorks,
     TalkKept, StoppedIsStill, PassesInOrder, RuntimeIsOwned
<1>3. PartsFollow'
  BY DEF EndLifespan, Cleanup, HostInv, PartsFollow, PartsIn
<1> QED BY <1>1, <1>2, <1>3 DEF HostInv

\* Shutdown begins once no command holds the lock.
LEMMA BeginShutdownKeeps ==
  ASSUME HostInv, BeginShutdown
  PROVE  HostInv'
<1>1. HostTypeOK'
  BY DEF BeginShutdown, HostInv, HostTypeOK
<1>2. ControlInv'
  BY ServicesAre
     DEF BeginShutdown, HostInv, HostTypeOK, ControlInv, LockHeld, ReadyWorks,
         TalkKept, StoppedIsStill, PassesInOrder, RuntimeIsOwned
<1>3. PartsFollow'
  BY DEF BeginShutdown, HostInv, PartsFollow, PartsIn
<1> QED BY <1>1, <1>2, <1>3 DEF HostInv

\* The agents are stopped before any service is closed.
LEMMA StopProducersKeeps ==
  ASSUME HostInv, StopProducers
  PROVE  HostInv'
<1>1. HostTypeOK'
  BY ZenonT(60) DEF StopProducers, Stopping, StopOk, HostInv, HostTypeOK
<1>2. ControlInv'
  BY ServicesAre
     DEF StopProducers, Stopping, StopOk, HostInv, HostTypeOK, ControlInv,
         LockHeld, ReadyWorks, TalkKept, StoppedIsStill, PassesInOrder,
         RuntimeIsOwned
<1>3. PartsFollow'
  BY DEF StopProducers, HostInv, PartsFollow, PartsIn
<1> QED BY <1>1, <1>2, <1>3 DEF HostInv

\* Agents that did not stop are tried once more, then kept in the ownership.
LEMMA StopProducersFailsKeeps ==
  ASSUME HostInv, StopProducersFails
  PROVE  HostInv'
<1>1. HostTypeOK'
  BY DEF StopProducersFails, Stopping, StopFails, PassFails, HostInv,
     HostTypeOK
<1>2. ControlInv'
  BY DEF StopProducersFails, Stopping, PassFails, HostInv, ControlInv,
     LockHeld, ReadyWorks, TalkKept, StoppedIsStill, PassesInOrder,
     RuntimeIsOwned
<1>3. PartsFollow'
  BY DEF StopProducersFails, PassFails, HostInv, PartsFollow, PartsIn
<1> QED BY <1>1, <1>2, <1>3 DEF HostInv

\* What an earlier pass stopped is not stopped again.
LEMMA ProducersDoneKeeps ==
  ASSUME HostInv, ProducersDone
  PROVE  HostInv'
<1>1. HostTypeOK'
  BY DEF ProducersDone, HostInv, HostTypeOK, ControlInv, LockHeld
<1>2. ControlInv'
  BY DEF ProducersDone, HostInv, ControlInv, LockHeld, ReadyWorks, TalkKept,
     StoppedIsStill, PassesInOrder, RuntimeIsOwned
<1>3. PartsFollow'
  BY DEF ProducersDone, HostInv, PartsFollow, PartsIn
<1> QED BY <1>1, <1>2, <1>3 DEF HostInv

\* A service that is closed is done with; one that is not is left open.
LEMMA CloseServiceKeeps ==
  ASSUME HostInv, CloseService
  PROVE  HostInv'
<1>1. HostTypeOK'
  BY ZenonT(60), NextClosedIs
     DEF CloseService, HostInv, HostTypeOK, ControlInv, LockHeld
<1>2. ControlInv'
  BY DEF CloseService, HostInv, ControlInv, LockHeld, ReadyWorks, TalkKept,
     StoppedIsStill, PassesInOrder, RuntimeIsOwned
<1>3. PartsFollow'
  BY DEF CloseService, HostInv, PartsFollow, PartsIn
<1> QED BY <1>1, <1>2, <1>3 DEF HostInv

\* The bus has its stage only when every service is closed.
LEMMA ServicesClosedKeeps ==
  ASSUME HostInv, ServicesClosed
  PROVE  HostInv'
<1>1. HostTypeOK'
  BY DEF ServicesClosed, PassFails, HostInv, HostTypeOK, ControlInv, LockHeld
<1>2. ControlInv'
  BY DEF ServicesClosed, PassFails, HostInv, ControlInv, LockHeld, ReadyWorks,
     TalkKept, StoppedIsStill, PassesInOrder, RuntimeIsOwned
<1>3. PartsFollow'
  BY DEF ServicesClosed, PassFails, HostInv, PartsFollow, PartsIn
<1> QED BY <1>1, <1>2, <1>3 DEF HostInv

\* The ownership is given up when the bus is shut.
LEMMA StopBusKeeps ==
  ASSUME HostInv, StopBus
  PROVE  HostInv'
<1>1. HostTypeOK'
  BY ZenonT(60) DEF StopBus, Stopping, PassEnds, PassFails, HostInv, HostTypeOK
<1>2. ControlInv'
  BY DEF StopBus, Stopping, PassEnds, PassFails, HostInv, HostTypeOK,
     ControlInv, LockHeld, ReadyWorks, TalkKept, StoppedIsStill, PassesInOrder,
     RuntimeIsOwned
<1>3. PartsFollow'
  BY DEF StopBus, PassEnds, PassFails, HostInv, PartsFollow, PartsIn
<1> QED BY <1>1, <1>2, <1>3 DEF HostInv

\* A turn of Main gives the manager a conversation to keep.
LEMMA TalkKeeps ==
  ASSUME HostInv, Talk
  PROVE  HostInv'
<1>1. HostTypeOK'
  BY DEF Talk, Accepts, HostInv, HostTypeOK
<1>2. ControlInv'
  BY DEF Talk, Accepts, HostInv, ControlInv, LockHeld, ReadyWorks, TalkKept,
     StoppedIsStill, PassesInOrder, RuntimeIsOwned
<1>3. PartsFollow'
  BY DEF Talk, HostInv, PartsFollow, PartsIn
<1> QED BY <1>1, <1>2, <1>3 DEF HostInv

\* A switch begins in a ready host that all parts follow.
LEMMA ActivateKeeps ==
  ASSUME HostInv, Activate
  PROVE  HostInv'
<1>1. HostTypeOK'
  BY ZenonT(60), AcceptedIsReady DEF Activate, Switch, HostInv, HostTypeOK
<1>2. ControlInv'
  BY DEF Activate, Accepts, Switch, HostInv, ControlInv, LockHeld, ReadyWorks,
     TalkKept, StoppedIsStill, PassesInOrder, RuntimeIsOwned
<1>3. PartsFollow'
  BY DEF Activate, Accepts, Switch, HostInv, PartsFollow, PartsIn
<1> QED BY <1>1, <1>2, <1>3 DEF HostInv

\* The former manager goes, with its conversation, or keeps the host failed.
LEMMA SwitchStopKeeps ==
  ASSUME HostInv, SwitchStop
  PROVE  HostInv'
<1>1. HostTypeOK'
  BY ZenonT(60)
     DEF SwitchStop, Switches, StopFails, Raised, HostInv, HostTypeOK
<1>2. ControlInv'
  BY DEF SwitchStop, Switches, Raised, HostInv, ControlInv, LockHeld,
     ReadyWorks, TalkKept, StoppedIsStill, PassesInOrder, RuntimeIsOwned
<1>3. PartsFollow'
  BY DEF SwitchStop, Switches, Raised, HostInv, ControlInv, LockHeld,
     PartsFollow, PartsIn
<1> QED BY <1>1, <1>2, <1>3 DEF HostInv

\* The goal is entered, or there is a replacement to discard.
LEMMA SwitchEnterKeeps ==
  ASSUME HostInv, SwitchEnter
  PROVE  HostInv'
<1>1. HostTypeOK'
  BY DEF SwitchEnter, Switches, Bind, BindFails, Switched, HostInv, HostTypeOK
<1>2. ControlInv'
  BY DEF SwitchEnter, Switches, Bind, Switched, HostInv, HostTypeOK,
     ControlInv, LockHeld, ReadyWorks, TalkKept, StoppedIsStill, PassesInOrder,
     RuntimeIsOwned
<1>3. PartsFollow'
  BY DEF SwitchEnter, Switches, Bind, Switched, HostInv, ControlInv, LockHeld,
     PartsFollow, PartsIn
<1> QED BY <1>1, <1>2, <1>3 DEF HostInv

\* No replacement runs beside the former workspace's manager.
LEMMA SwitchDiscardKeeps ==
  ASSUME HostInv, SwitchDiscard
  PROVE  HostInv'
<1>1. HostTypeOK'
  BY DEF SwitchDiscard, Switches, StopFails, Raised, HostInv, HostTypeOK
<1>2. ControlInv'
  BY DEF SwitchDiscard, Switches, Raised, HostInv, ControlInv, LockHeld,
     ReadyWorks, TalkKept, StoppedIsStill, PassesInOrder, RuntimeIsOwned
<1>3. PartsFollow'
  BY DEF SwitchDiscard, Switches, Raised, HostInv, ControlInv, LockHeld,
     PartsFollow, PartsIn
<1> QED BY <1>1, <1>2, <1>3 DEF HostInv

\* The former workspace is ready again, or its manager is to be dropped.
LEMMA SwitchRestoreKeeps ==
  ASSUME HostInv, SwitchRestore
  PROVE  HostInv'
<1>1. HostTypeOK'
  BY DEF SwitchRestore, Switches, Bind, BindFails, Raised, HostInv, HostTypeOK
<1>2. ControlInv'
  BY DEF SwitchRestore, Switches, Bind, Raised, HostInv, HostTypeOK,
     ControlInv, LockHeld, ReadyWorks, TalkKept, StoppedIsStill, PassesInOrder,
     RuntimeIsOwned
<1>3. PartsFollow'
  BY DEF SwitchRestore, Switches, Bind, Raised, HostInv, ControlInv, LockHeld,
     PartsFollow, PartsIn
<1> QED BY <1>1, <1>2, <1>3 DEF HostInv

\* Neither workspace was kept: the host has failed.
LEMMA SwitchDropKeeps ==
  ASSUME HostInv, SwitchDrop
  PROVE  HostInv'
<1>1. HostTypeOK'
  BY DEF SwitchDrop, Switches, StopFails, Raised, HostInv, HostTypeOK
<1>2. ControlInv'
  BY DEF SwitchDrop, Switches, Raised, HostInv, ControlInv, LockHeld,
     ReadyWorks, TalkKept, StoppedIsStill, PassesInOrder, RuntimeIsOwned
<1>3. PartsFollow'
  BY DEF SwitchDrop, Switches, Raised, HostInv, ControlInv, LockHeld,
     PartsFollow, PartsIn
<1> QED BY <1>1, <1>2, <1>3 DEF HostInv

\* All parts are pointed at the workspace the host switched to.
LEMMA CommitKeeps ==
  ASSUME HostInv, Commit
  PROVE  HostInv'
<1>1. HostTypeOK'
  BY DEF Commit, CommitUnchanged, Rebind, HostInv, HostTypeOK
<1>2. ControlInv'
  BY DEF Commit, CommitUnchanged, Rebind, HostInv, ControlInv, LockHeld,
     ReadyWorks, TalkKept, StoppedIsStill, PassesInOrder, RuntimeIsOwned
<1>3. PartsFollow'
  BY AllPartsRebound
     DEF Commit, CommitUnchanged, Rebind, HostInv, HostTypeOK, PartsFollow,
         PartsIn
<1> QED BY <1>1, <1>2, <1>3 DEF HostInv

\* The parts a failed commit had pointed elsewhere wait for the settling.
LEMMA CommitFailsKeeps ==
  ASSUME HostInv, CommitFails
  PROVE  HostInv'
<1>1. HostTypeOK'
  <2>1. goal \in Workspaces /\ origin \in Workspaces
    BY DEF HostInv, HostTypeOK
  <2>2. parts' \in [Range(Parts) -> Workspaces]
          /\ open' \subseteq Services \cup {Rebound}
    BY <2>1, RebindTyped, ServicesAre DEF CommitFails, HostInv
  <2> QED BY <2>1, <2>2
     DEF CommitFails, CommitUnchanged, Switch, HostInv, HostTypeOK
<1>2. ControlInv'
  BY DEF CommitFails, CommitUnchanged, Rebind, Switch, HostInv, ControlInv,
     LockHeld, ReadyWorks, TalkKept, StoppedIsStill, PassesInOrder,
     RuntimeIsOwned
<1>3. PartsFollow'
  BY DEF CommitFails, CommitUnchanged, Switch, HostInv, ControlInv, LockHeld,
     PartsFollow, PartsIn
<1> QED BY <1>1, <1>2, <1>3 DEF HostInv

\* The parts come to where the host is, or the host has failed.
LEMMA SettleKeeps ==
  ASSUME HostInv, Settle
  PROVE  HostInv'
<1>1. HostTypeOK'
  <2>1. CASE state = "ready"
    <3>1. workspace \in Workspaces
      BY <2>1 DEF Settle, HostInv, HostTypeOK, ControlInv, LockHeld, ReadyWorks
    <3>2. parts' \in [Range(Parts) -> Workspaces]
            /\ open' \subseteq Services \cup {Rebound}
      BY <2>1, <3>1, RebindTyped, ServicesAre DEF Settle, HostInv
    <3> QED BY <3>2 DEF Settle, CommitUnchanged, HostInv, HostTypeOK
  <2>2. CASE state # "ready"
    BY <2>2 DEF Settle, CommitUnchanged, HostInv, HostTypeOK
  <2> QED BY <2>1, <2>2
<1>2. ControlInv'
  BY DEF Settle, CommitUnchanged, Rebind, HostInv, ControlInv, LockHeld,
     ReadyWorks, TalkKept, StoppedIsStill, PassesInOrder, RuntimeIsOwned
<1>3. PartsFollow'
  BY AllPartsRebound
     DEF Settle, CommitUnchanged, Rebind, HostInv, HostTypeOK, PartsFollow,
         PartsIn
<1> QED BY <1>1, <1>2, <1>3 DEF HostInv

\* A change of provider begins in a ready host.
LEMMA ChangeProviderKeeps ==
  ASSUME HostInv, ChangeProvider
  PROVE  HostInv'
<1>1. HostTypeOK'
  BY AcceptedIsReady DEF ChangeProvider, Replace, Replaces, HostInv, HostTypeOK
<1>2. ControlInv'
  BY DEF ChangeProvider, Accepts, Replace, Replaces, HostInv, ControlInv,
     LockHeld, ReadyWorks, TalkKept, StoppedIsStill, PassesInOrder,
     RuntimeIsOwned
<1>3. PartsFollow'
  BY DEF ChangeProvider, Accepts, Replace, Replaces, HostInv, PartsFollow,
     PartsIn
<1> QED BY <1>1, <1>2, <1>3 DEF HostInv

\* Main's conversation is carried once the former manager stopped.
LEMMA ReplaceStopKeeps ==
  ASSUME HostInv, ReplaceStop
  PROVE  HostInv'
<1>1. HostTypeOK'
  BY ZenonT(60)
     DEF ReplaceStop, Replaces, Export, StopFails, GivenUp, HostInv, HostTypeOK
<1>2. ControlInv'
  BY DEF ReplaceStop, Replaces, Export, StopFails, GivenUp, HostInv,
     ControlInv, LockHeld, ReadyWorks, TalkKept, StoppedIsStill, PassesInOrder,
     RuntimeIsOwned
<1>3. PartsFollow'
  BY DEF ReplaceStop, Replaces, GivenUp, HostInv, PartsFollow, PartsIn
<1> QED BY <1>1, <1>2, <1>3 DEF HostInv

\* The replacement has the conversation and the host is ready.
LEMMA ReplaceStartKeeps ==
  ASSUME HostInv, ReplaceStart
  PROVE  HostInv'
<1>1. HostTypeOK'
  BY DEF ReplaceStart, Replaces, Bind, HostInv, HostTypeOK
<1>2. ControlInv'
  BY DEF ReplaceStart, Replaces, Bind, HostInv, ControlInv, LockHeld,
     ReadyWorks, TalkKept, StoppedIsStill, PassesInOrder, RuntimeIsOwned
<1>3. PartsFollow'
  BY DEF ReplaceStart, Replaces, Bind, HostInv, PartsFollow, PartsIn
<1> QED BY <1>1, <1>2, <1>3 DEF HostInv

\* A candidate that failed leaves the conversation carried.
LEMMA ReplaceFailsKeeps ==
  ASSUME HostInv, ReplaceFails
  PROVE  HostInv'
<1>1. HostTypeOK'
  BY ZenonT(60)
     DEF ReplaceFails, Replaces, BindFails, HostInv, HostTypeOK
<1>2. ControlInv'
  BY DEF ReplaceFails, Replaces, BindFails, HostInv, ControlInv, LockHeld,
     ReadyWorks, TalkKept, StoppedIsStill, PassesInOrder, RuntimeIsOwned
<1>3. PartsFollow'
  BY DEF ReplaceFails, Replaces, BindFails, HostInv, PartsFollow, PartsIn
<1> QED BY <1>1, <1>2, <1>3 DEF HostInv

\* So does its discard, and a candidate that does not stop holds it itself.
LEMMA ReplaceDiscardKeeps ==
  ASSUME HostInv, ReplaceDiscard
  PROVE  HostInv'
<1>1. HostTypeOK'
  BY DEF ReplaceDiscard, Replaces, GivenUp, StopFails, HostInv, HostTypeOK
<1>2. ControlInv'
  <2>1. CASE manager' = "none" /\ history' = FALSE /\ stopped' = TRUE
    BY <2>1
       DEF ReplaceDiscard, Replaces, GivenUp, HostInv, HostTypeOK, ControlInv,
           LockHeld, ReadyWorks, TalkKept, StoppedIsStill, PassesInOrder,
           RuntimeIsOwned
  <2>2. CASE StopFails /\ UNCHANGED <<history, stopped>>
    BY <2>2
       DEF ReplaceDiscard, StopFails, Replaces, GivenUp, HostInv, HostTypeOK,
           ControlInv, LockHeld, ReadyWorks, TalkKept, StoppedIsStill,
           PassesInOrder, RuntimeIsOwned
  <2> QED BY <2>1, <2>2 DEF ReplaceDiscard
<1>3. PartsFollow'
  BY DEF ReplaceDiscard, Replaces, GivenUp, HostInv, PartsFollow, PartsIn
<1> QED BY <1>1, <1>2, <1>3 DEF HostInv

\* The recovery finds the conversation carried or still with the manager.
LEMMA RecoverKeeps ==
  ASSUME HostInv, Recover
  PROVE  HostInv'
<1>1. HostTypeOK'
  BY DEF Recover, Replace, Replaces, HostInv, HostTypeOK
<1>2. ControlInv'
  BY DEF Recover, Replace, Replaces, HostInv, ControlInv, LockHeld, ReadyWorks,
     TalkKept, StoppedIsStill, PassesInOrder, RuntimeIsOwned
<1>3. PartsFollow'
  BY DEF Recover, Replace, Replaces, HostInv, PartsFollow, PartsIn
<1> QED BY <1>1, <1>2, <1>3 DEF HostInv

\* A host that failed closed keeps what it could not stop.
LEMMA FailConsistencyKeeps ==
  ASSUME HostInv, FailConsistency
  PROVE  HostInv'
<1>1. HostTypeOK'
  BY ZenonT(60), AcceptedIsReady
     DEF FailConsistency, Replaces, StopOk, StopFails, HostInv, HostTypeOK
<1>2. ControlInv'
  BY DEF FailConsistency, Accepts, Replaces, StopOk, HostInv, ControlInv,
     LockHeld, ReadyWorks, TalkKept, StoppedIsStill, PassesInOrder,
     RuntimeIsOwned
<1>3. PartsFollow'
  BY DEF FailConsistency, Replaces, HostInv, PartsFollow, PartsIn
<1> QED BY <1>1, <1>2, <1>3 DEF HostInv

-----------------------------------------------------------------------------
\* What follows from it.

\* A step that changes nothing keeps the types.
LEMMA TypeStays ==
  ASSUME HostTypeOK, UNCHANGED hostVars
  PROVE  HostTypeOK'
<1> USE DEF hostVars
<1>1. /\ (life \in {"down", "create", "start", "abort", "services", "serving"}
                  \cup Passing)'
      /\ (at \in {"idle", "stop", "enter", "discard", "restore", "drop",
                 "commit", "settle", "replaceStop", "replaceStart",
                 "replaceDiscard", "recover"})'
  BY DEF HostTypeOK
<1>2. /\ (state \in {"new", "starting", "ready", "stopping", "stopped",
                    "failed"})'
      /\ (manager \in {"none", "idle", "running", "stopped"})'
      /\ (workspace \in Workspaces \cup {NoWorkspace})'
      /\ (bus \in {"off", "running", "shut"})'
  BY DEF HostTypeOK
<1>3. ({stopped, history, carried, pending, retrying, back, recovering, talked}
         \subseteq BOOLEAN)'
  BY DEF HostTypeOK
<1>4. /\ (parts \in [Range(Parts) -> Workspaces])' /\ (first \in Workspaces)'
      /\ (open \subseteq Services \cup {Rebound})'
      /\ (done \subseteq Stages)' /\ (tried \subseteq Services)'
  BY DEF HostTypeOK
<1>5. /\ (attempts \in {0, 1})' /\ (goal \in Workspaces)'
      /\ (origin \in Workspaces)'
      /\ (lives \in 0 .. MaxLives)' /\ (commands \in 0 .. MaxCommands)'
  BY DEF HostTypeOK
<1> HIDE DEF hostVars
<1> QED BY <1>1, <1>2, <1>3, <1>4, <1>5 DEF HostTypeOK

\* The inductive invariant holds: whatever failed so far, the command with the
\* lock, the host, its parts and the stage of the lifespan fit together
\* (RuntimeHost, RuntimeFacade, application_lifespan).
THEOREM LifespanInvariant == HostSpec => []HostInv
<1>1. HostInit => HostInv
  <2> SUFFICES ASSUME HostInit PROVE HostInv
    OBVIOUS
  <2>1. HostTypeOK
    <3>1. parts \in [Range(Parts) -> Workspaces]
            /\ {first, goal, origin} \subseteq Workspaces
      BY DEF HostInit
    <3>2. lives \in 0 .. MaxLives /\ commands \in 0 .. MaxCommands
      BY DEF HostInit
    <3> QED BY <3>1, <3>2 DEF HostInit, HostTypeOK
  <2>2. ControlInv
    BY DEF HostInit, ControlInv, LockHeld, ReadyWorks, TalkKept,
       StoppedIsStill, PassesInOrder, RuntimeIsOwned
  <2>3. PartsFollow
    BY DEF HostInit, PartsFollow
  <2> QED BY <2>1, <2>2, <2>3 DEF HostInv
<1>2. HostInv /\ [HostNext]_hostVars => HostInv'
  <2> SUFFICES ASSUME HostInv, [HostNext]_hostVars PROVE HostInv'
    OBVIOUS
  <2>1. CASE UNCHANGED hostVars
    <3>1. HostTypeOK'
      BY <2>1, TypeStays DEF HostInv
    <3>2. LockHeld' /\ ReadyWorks' /\ TalkKept'
      BY <2>1 DEF hostVars, HostInv, ControlInv, LockHeld, ReadyWorks, TalkKept
    <3>3. StoppedIsStill' /\ PassesInOrder' /\ RuntimeIsOwned'
      BY <2>1
         DEF hostVars, HostInv, ControlInv, StoppedIsStill, PassesInOrder,
             RuntimeIsOwned
    <3>4. PartsFollow'
      BY <2>1 DEF hostVars, HostInv, PartsFollow, PartsIn
    <3> QED BY <3>1, <3>2, <3>3, <3>4 DEF HostInv, ControlInv
  <2>2. CASE CreateHost \/ StartHost \/ StartNot \/ StartFails \/ Abort
    BY <2>2, CreateHostKeeps, StartHostKeeps, StartNotKeeps, StartFailsKeeps,
       AbortKeeps
  <2>3. CASE MakeService \/ MakeFails \/ BeginShutdown
    BY <2>3, MakeServiceKeeps, MakeFailsKeeps, BeginShutdownKeeps
  <2>4. CASE StopProducers \/ StopProducersFails \/ ProducersDone
    BY <2>4, StopProducersKeeps, StopProducersFailsKeeps, ProducersDoneKeeps
  <2>5. CASE CloseService \/ ServicesClosed \/ StopBus
    BY <2>5, CloseServiceKeeps, ServicesClosedKeeps, StopBusKeeps
  <2>6. CASE SwitchStop \/ SwitchEnter \/ SwitchDiscard \/ SwitchRestore
             \/ SwitchDrop
    BY <2>6, SwitchStopKeeps, SwitchEnterKeeps, SwitchDiscardKeeps,
       SwitchRestoreKeeps, SwitchDropKeeps
  <2>7. CASE Commit \/ CommitFails \/ Settle
    BY <2>7, CommitKeeps, CommitFailsKeeps, SettleKeeps
  <2>8. CASE ReplaceStop \/ ReplaceStart \/ ReplaceFails \/ ReplaceDiscard
             \/ Recover
    BY <2>8, ReplaceStopKeeps, ReplaceStartKeeps, ReplaceFailsKeeps,
       ReplaceDiscardKeeps, RecoverKeeps
  <2>9. CASE BeginLifespan \/ EndLifespan \/ Talk \/ Activate \/ ChangeProvider
             \/ FailConsistency
    BY <2>9, BeginLifespanKeeps, EndLifespanKeeps, TalkKeeps, ActivateKeeps,
       ChangeProviderKeeps, FailConsistencyKeeps
  <2> QED BY <2>1, <2>2, <2>3, <2>4, <2>5, <2>6, <2>7, <2>8, <2>9
     DEF HostNext, LifespanStep, CommandStep
<1> QED BY <1>1, <1>2, PTL DEF HostSpec

\* Every variable of the host, of its lifespans and of its commands keeps its
\* type.
THEOREM HostTypeCorrect == HostSpec => []HostTypeOK
<1>1. HostInv => HostTypeOK
  BY DEF HostInv
<1> QED BY <1>1, LifespanInvariant, PTL

\* A ready host, its agents and every part of the application work in one
\* project, whatever failed in an activation, its undoing or a change of
\* provider (RuntimeFacade.activate_workspace).
THEOREM OneWorkspaceWhenReady == HostSpec => []OneWorkspace
<1>1. HostInv => OneWorkspace
  BY DEF HostInv, ControlInv, ReadyWorks, PartsFollow, OneWorkspace
<1> QED BY <1>1, LifespanInvariant, PTL

\* Between two lifespans nothing runs that no ownership holds
\* (LifespanCleanupOwnership).
THEOREM WhatRunsIsOwned == HostSpec => []RuntimeIsOwned
<1>1. HostInv => RuntimeIsOwned
  BY DEF HostInv, ControlInv
<1> QED BY <1>1, LifespanInvariant, PTL

\* Main remembers what was said, through every change of provider and every
\* failure of one (RuntimeHost.replace_loop_manager).
THEOREM HistoryIsKept == HostSpec => []HistoryKept
<1>1. HostInv => HistoryKept
  BY DEF HostInv, ControlInv, TalkKept, HistoryKept
<1> QED BY <1>1, LifespanInvariant, PTL

\* No agents run once the services are being closed ...
LEMMA ServicesOutliveAgents ==
  ASSUME HostInv, life \in {"closing", "bus"}
  PROVE  manager # "running"
BY DEF HostInv, ControlInv, PassesInOrder, StoppedIsStill

\* ... no service is open once the bus is being ended ...
LEMMA BusOutlivesServices ==
  ASSUME HostInv, life = "bus"
  PROVE  open \subseteq {Rebound}
BY DEF HostInv, HostTypeOK, ControlInv, PassesInOrder

\* ... and but for a start that failed nothing else ends the bus.
LEMMA OnlyStopBusEndsBus ==
  ASSUME HostInv, HostNext, life # "abort", bus = "running", bus' # "running"
  PROVE  life = "bus"
<1>1. CASE LifespanStep
  <2>1. CASE CreateHost
    BY <2>1 DEF CreateHost, HostInv, ControlInv, PassesInOrder, RuntimeIsOwned
  <2>2. CASE StartHost \/ StartNot \/ StartFails
    BY <2>2
       DEF StartHost, StartNot, StartFails, HostInv, ControlInv, PassesInOrder,
           StoppedIsStill
  <2>3. CASE Abort \/ MakeService \/ MakeFails \/ BeginShutdown
    BY <2>3 DEF Abort, MakeService, MakeFails, BeginShutdown
  <2>4. CASE StopProducers \/ StopProducersFails \/ ProducersDone
             \/ CloseService
             \/ ServicesClosed \/ StopBus
    BY <2>4
       DEF StopProducers, StopProducersFails, ProducersDone, CloseService,
           ServicesClosed, StopBus
  <2> QED BY <1>1, <2>1, <2>2, <2>3, <2>4 DEF LifespanStep
<1>2. CASE CommandStep
  BY <1>2
     DEF CommandStep, SwitchStop, SwitchEnter, SwitchDiscard, SwitchRestore,
         SwitchDrop, Switches, Commit, CommitFails, Settle, CommitUnchanged,
         ReplaceStop, ReplaceStart, ReplaceFails, ReplaceDiscard, Recover,
         Replaces
<1>3. CASE BeginLifespan \/ EndLifespan \/ Talk \/ Activate \/ ChangeProvider
           \/ FailConsistency
  BY <1>3
     DEF BeginLifespan, EndLifespan, Talk, Activate, ChangeProvider,
         FailConsistency, Replaces
<1> QED BY <1>1, <1>2, <1>3 DEF HostNext

\* Every pass of every cleanup goes in the order of the dependencies
\* (_cleanup_owned_runtime).
THEOREM CleanupIsOrdered == HostSpec => CleanupOrdered
<1> DEFINE Ordered ==
      /\ life = "closing" /\ open' # open => manager # "running"
      /\ bus = "running" /\ bus' # "running" /\ life # "abort" =>
           manager # "running" /\ open \subseteq {Rebound}
<1>1. HostInv /\ [HostNext]_hostVars => [Ordered]_hostVars
  <2> SUFFICES ASSUME HostInv, HostNext PROVE Ordered
    OBVIOUS
  <2> QED BY ServicesOutliveAgents, BusOutlivesServices, OnlyStopBusEndsBus
<1> QED BY <1>1, LifespanInvariant, PTL DEF HostSpec, CleanupOrdered

-----------------------------------------------------------------------------
\* What a command or a lifespan can do at all comes to an end.

\* How many steps a command is from its end, at most, where it is.
LEMMA StepsFromIs ==
  /\ StepsFrom("idle") = 0 /\ StepsFrom("settle") = 1
  /\ StepsFrom("commit") = 1 /\ StepsFrom("recover") = 1
  /\ StepsFrom("drop") = 2
  /\ StepsFrom("replaceDiscard") = 2 /\ StepsFrom("restore") = 3
  /\ StepsFrom("replaceStart") = 3 /\ StepsFrom("discard") = 4
  /\ StepsFrom("replaceStop") = 4 /\ StepsFrom("enter") = 5
  /\ StepsFrom("stop") = 6
BY DEF StepsFrom
\* Nowhere more than six, and none only where there is no command.
LEMMA StepsFromTyped ==
  ASSUME NEW a
  PROVE  StepsFrom(a) \in 0 .. 6 /\ (a # "idle" => StepsFrom(a) \in 1 .. 6)
BY DEF StepsFrom

\* A step nearer to the end within one try, or into the second try, lowers
\* the rank of the command.
LEMMA NearerTheEnd ==
  ASSUME at # "idle",
         \/ /\ StepsFrom(at') < StepsFrom(at)
            /\ SecondTry => SecondTry' \/ at' = "idle"
         \/ ~SecondTry /\ SecondTry'
  PROVE  CommandRank' < CommandRank
<1> StepsFrom(at) \in 1 .. 6 /\ StepsFrom(at') \in 0 .. 6
  BY StepsFromTyped
<1>1. CASE SecondTry
  <2>1. CommandRank = StepsFrom(at) /\ CommandRank' = StepsFrom(at')
    BY <1>1 DEF CommandRank
  <2> QED BY <1>1, <2>1
<1>2. CASE ~SecondTry
  <2>1. CommandRank = 6 + StepsFrom(at)
    BY <1>2 DEF CommandRank
  <2>2. CASE at' = "idle" \/ SecondTry'
    <3>1. CommandRank' = StepsFrom(at')
      BY <2>2 DEF CommandRank
    <3> QED BY <2>1, <3>1
  <2>3. CASE at' # "idle" /\ ~SecondTry'
    <3>1. CommandRank' = 6 + StepsFrom(at')
      BY <2>3 DEF CommandRank
    <3> QED BY <1>2, <2>1, <2>3, <3>1
  <2> QED BY <2>2, <2>3
<1> QED BY <1>1, <1>2

\* No command goes back to where its second try begins.
LEMMA NoThirdTry == HostSpec => []SecondTryIsLast
<1>1. HostInit => SecondTryIsLast
  BY DEF HostInit, SecondTryIsLast
<1>2. SecondTryIsLast /\ [HostNext]_hostVars => SecondTryIsLast'
  <2> SUFFICES ASSUME SecondTryIsLast, [HostNext]_hostVars
                  PROVE  SecondTryIsLast'
    OBVIOUS
  <2>1. CASE UNCHANGED hostVars
    BY <2>1 DEF hostVars, SecondTryIsLast
  <2>2. CASE LifespanStep \/ BeginLifespan \/ EndLifespan
    BY <2>2
       DEF LifespanStep, CreateHost, StartHost, StartNot, StartFails, Abort,
           MakeService, MakeFails, BeginShutdown, StopProducers,
           StopProducersFails, ProducersDone, CloseService, ServicesClosed,
           StopBus, BeginLifespan, EndLifespan, SecondTryIsLast
  <2>3. CASE SwitchStop \/ SwitchEnter \/ SwitchDiscard \/ SwitchRestore
             \/ SwitchDrop
    BY <2>3
       DEF SwitchStop, SwitchEnter, SwitchDiscard, SwitchRestore, SwitchDrop,
           Switches, Switched, Raised, SecondTryIsLast
  <2>4. CASE Commit \/ CommitFails \/ Settle
    BY <2>4
       DEF Commit, CommitFails, Settle, CommitUnchanged, Switch,
           SecondTryIsLast
  <2>5. CASE ReplaceStop
    BY <2>5 DEF ReplaceStop, Replaces, GivenUp, SecondTryIsLast
  <2>6. CASE ReplaceStart \/ ReplaceFails
    BY <2>6 DEF ReplaceStart, ReplaceFails, Replaces, SecondTryIsLast
  <2>7. CASE ReplaceDiscard
    BY <2>7 DEF ReplaceDiscard, Replaces, GivenUp, SecondTryIsLast
  <2>8. CASE Recover
    BY <2>8 DEF Recover, Replace, Replaces, SecondTryIsLast
  <2>9. CASE Talk \/ Activate \/ ChangeProvider \/ FailConsistency
    BY <2>9
       DEF Talk, Activate, Switch, ChangeProvider, Replace, Replaces,
           FailConsistency, Accepts, SecondTryIsLast
  <2> QED BY <2>1, <2>2, <2>3, <2>4, <2>5, <2>6, <2>7, <2>8, <2>9
     DEF HostNext, CommandStep
<1> QED BY <1>1, <1>2, PTL DEF HostSpec

\* Every step of a command lowers its rank: within a try the steps have an
\* order, and only what has not been tried twice begins again.
LEMMA CommandStepAdvances ==
  ASSUME SecondTryIsLast, CommandStep
  PROVE  CommandRank' < CommandRank
<1>1. CASE SwitchStop \/ SwitchEnter \/ SwitchDiscard
  <2>1. /\ \/ at = "stop"    /\ at' \in {"enter", "settle", "idle"}
           \/ at = "enter"   /\ at' \in {"discard", "settle", "commit"}
           \/ at = "discard" /\ at' \in {"restore", "settle", "idle"}
        /\ UNCHANGED back
    BY <1>1
       DEF SwitchStop, SwitchEnter, SwitchDiscard, Switches, Switched, Raised
  <2>2. \/ StepsFrom(at) = 6 /\ StepsFrom(at') \in {5, 1, 0}
        \/ StepsFrom(at) = 5 /\ StepsFrom(at') \in {4, 1}
        \/ StepsFrom(at) = 4 /\ StepsFrom(at') \in {3, 1, 0}
    BY <2>1, StepsFromIs
  <2>3. StepsFrom(at') < StepsFrom(at)
    BY <2>2
  <2>4. at # "idle" /\ (SecondTry => SecondTry' \/ at' = "idle")
    BY <2>1 DEF SecondTry
  <2> QED BY <2>3, <2>4, NearerTheEnd
<1>2. CASE SwitchRestore \/ SwitchDrop
  <2>1. /\ \/ at = "restore" /\ at' \in {"drop", "settle", "idle"}
           \/ at = "drop"    /\ at' \in {"settle", "idle"}
        /\ UNCHANGED back
    BY <1>2 DEF SwitchRestore, SwitchDrop, Switches, Raised
  <2>2. \/ StepsFrom(at) = 3 /\ StepsFrom(at') \in {2, 1, 0}
        \/ StepsFrom(at) = 2 /\ StepsFrom(at') \in {1, 0}
    BY <2>1, StepsFromIs
  <2>3. StepsFrom(at') < StepsFrom(at)
    BY <2>2
  <2>4. at # "idle" /\ (SecondTry => SecondTry' \/ at' = "idle")
    BY <2>1 DEF SecondTry
  <2> QED BY <2>3, <2>4, NearerTheEnd
<1>3. CASE Commit \/ Settle
  <2>1. at \in {"commit", "settle"} /\ at' = "idle"
    BY <1>3 DEF Commit, Settle
  <2>2. StepsFrom(at) = 1 /\ StepsFrom(at') = 0
    BY <2>1, StepsFromIs
  <2>3. StepsFrom(at') < StepsFrom(at)
    BY <2>2
  <2> QED BY <2>1, <2>3, NearerTheEnd
<1>4. CASE CommitFails \/ Recover
  BY <1>4, NearerTheEnd
     DEF CommitFails, Switch, Recover, Replace, SecondTryIsLast, SecondTry
<1>5. CASE ReplaceStop \/ ReplaceStart
  <2>1. /\ \/ /\ at = "replaceStop"
              /\ at' \in {"replaceStart", "recover", "idle"}
           \/ at = "replaceStart" /\ at' = "idle"
        /\ UNCHANGED recovering
    BY <1>5 DEF ReplaceStop, ReplaceStart, GivenUp
  <2>2. \/ StepsFrom(at) = 4 /\ StepsFrom(at') \in {3, 1, 0}
        \/ StepsFrom(at) = 3 /\ StepsFrom(at') = 0
    BY <2>1, StepsFromIs
  <2>3. StepsFrom(at') < StepsFrom(at)
    BY <2>2
  <2>4. at # "idle" /\ (SecondTry => SecondTry' \/ at' = "idle")
    BY <2>1 DEF SecondTry
  <2> QED BY <2>3, <2>4, NearerTheEnd
<1>6. CASE ReplaceFails \/ ReplaceDiscard
  <2>1. /\ \/ at = "replaceStart"   /\ at' = "replaceDiscard"
           \/ at = "replaceDiscard" /\ at' \in {"recover", "idle"}
        /\ UNCHANGED recovering
    BY <1>6 DEF ReplaceFails, ReplaceDiscard, GivenUp
  <2>2. \/ StepsFrom(at) = 3 /\ StepsFrom(at') = 2
        \/ StepsFrom(at) = 2 /\ StepsFrom(at') \in {1, 0}
    BY <2>1, StepsFromIs
  <2>3. StepsFrom(at') < StepsFrom(at)
    BY <2>2
  <2>4. at # "idle" /\ (SecondTry => SecondTry' \/ at' = "idle")
    BY <2>1 DEF SecondTry
  <2> QED BY <2>3, <2>4, NearerTheEnd
<1> QED BY <1>1, <1>2, <1>3, <1>4, <1>5, <1>6 DEF CommandStep

\* No failure is retried for ever: a command that holds the mutation lock can
\* take no more than twelve steps of its own (RuntimeFacade.activate_workspace,
\* SettingsService.mutate).
THEOREM CommandsComeToAnEnd == HostSpec => CommandsAdvance
<1>1. SecondTryIsLast /\ [HostNext]_hostVars =>
        [CommandStep => CommandRank' < CommandRank]_hostVars
  BY CommandStepAdvances
<1> QED BY <1>1, NoThirdTry, PTL DEF HostSpec, CommandsAdvance

\* Every step of a start or a cleanup goes to a later stage, has one service
\* more made or done with, or begins the one repetition of stop_producers.
LEMMA LifespanStepAdvances ==
  ASSUME HostInv, LifespanStep
  PROVE  \/ LifespanRank' < LifespanRank
         \/ /\ UNCHANGED <<life, retrying>>
            /\ Grows(open) \/ Grows(done \cup tried) \/ attempts' > attempts
<1> USE DEF LifespanRank, StagesLeft
<1>1. CASE CreateHost \/ StartHost \/ StartNot \/ StartFails \/ Abort
           \/ MakeFails
  BY <1>1
     DEF CreateHost, StartHost, StartNot, StartFails, Abort, MakeFails, Cleanup
<1>2. CASE MakeService
  <2>1. "broker" \notin open /\ Made[NextMade] \notin open
    BY <1>2, NextMadeIs DEF MakeService, HostInv, PartsFollow
  <2>2. CASE life' = "serving"
    BY <1>2, <2>2 DEF MakeService
  <2>3. CASE life' # "serving"
    BY <1>2, <2>1, <2>3 DEF MakeService, Grows
  <2> QED BY <2>2, <2>3
<1>3. CASE BeginShutdown
  BY <1>3 DEF BeginShutdown, HostInv, ControlInv, PassesInOrder
<1>4. CASE StopProducers \/ ProducersDone \/ ServicesClosed
  BY <1>4 DEF StopProducers, ProducersDone, ServicesClosed, PassFails
<1>5. CASE StopProducersFails
  BY <1>5 DEF StopProducersFails, PassFails
<1>6. CASE CloseService
  <2>1. Closed[NextClosed] \notin done \cup tried
    BY <1>6, NextClosedIs DEF CloseService
  <2> QED BY <1>6, <2>1 DEF CloseService, Grows
<1>7. CASE StopBus
  BY <1>7 DEF StopBus, PassEnds, PassFails
<1> QED BY <1>1, <1>2, <1>3, <1>4, <1>5, <1>6, <1>7 DEF LifespanStep

\* A start or a cleanup takes finitely many steps, whatever fails in it, the
\* retry by a new lifespan included (application_lifespan).
THEOREM LifespansComeToAnEnd == HostSpec => LifespanAdvances
<1>1. HostInv /\ [HostNext]_hostVars =>
        [LifespanStep =>
           \/ LifespanRank' < LifespanRank
           \/ /\ UNCHANGED <<life, retrying>>
              /\ Grows(open) \/ Grows(done \cup tried) \/ attempts' > attempts
        ]_hostVars
  BY LifespanStepAdvances
<1> QED BY <1>1, LifespanInvariant, PTL DEF HostSpec, LifespanAdvances

=============================================================================
