---------------------------- MODULE RunVersions -----------------------------
(***************************************************************************)
(* The files of one Run, as GenericCapabilityRuntimeBinding starts it,     *)
(* resumes it and executes it again in place: a rerun moves the files of   *)
(* the current version one by one into versions/v<n>, moves them back when *)
(* the revision is rejected, and otherwise writes the plan and the start   *)
(* input before the new execution saves its first state.  The process may  *)
(* stop, and a file operation may fail, between any two of these steps.    *)
(* Everything else in the binding runs without a suspension in between.    *)
(***************************************************************************)
EXTENDS Integers, FiniteSets, FiniteSetsExt

CONSTANTS
  MaxVersions,   \* bound on the versions archived
  MaxRequests    \* bound on the requests (start, resume, rerun) carried out

ASSUME VersionsAssumption ==
  MaxVersions \in Nat \ {0} /\ MaxRequests \in Nat

\* What lies in a Run's directory: resolved-plan.json, runtime-state.json,
\* the files an execution writes (workflow-events.jsonl and its results), and
\* start-input.json, which a rerun never moves.
Moved   == {"plan", "state", "events"}
Entries == Moved \cup {"input"}

\* A file is named by the execution from the start that wrote it.
Starts  == 1 .. MaxRequests
Absent  == 0
Files   == [Entries -> Starts \cup {Absent}]
Empty   == [e \in Entries |-> Absent]

Versions == 1 .. MaxVersions

VARIABLES
  run,       \* the files in the Run's directory
  archive,   \* the files in each versions/v<n>
  dirs,      \* the versions whose directory exists
  listed,    \* the versions whose version.json exists
  pc,        \* the file operation that is next
  target,    \* the version a rerun archives
  author,    \* the start whose execution is under way
  starts,    \* history: executions from the start
  saved,     \* history: starts whose state was saved
  before,    \* history: the files before the rerun
  disturbed, \* history: whether a stop or a failed file operation left a step out
  requests   \* history: requests carried out

vars == <<run, archive, dirs, listed, pc, target, author, starts, saved,
          before, disturbed, requests>>

Steps == {"idle", "move", "copy", "list", "project", "restore", "remove",
          "plan", "input", "save", "execute"}

Init ==
  /\ run = Empty /\ archive = [v \in Versions |-> Empty]
  /\ dirs = {} /\ listed = {}
  /\ pc = "idle" /\ target = 1 /\ author = Absent
  /\ starts = 0 /\ saved = {} /\ before = Empty
  /\ disturbed = FALSE /\ requests = 0

-----------------------------------------------------------------------------
Request == pc = "idle" /\ requests < MaxRequests /\ requests' = requests + 1

\* A plan and a start input are about to be written for a new start.
PrepareStart ==
  /\ pc' = "plan" /\ starts' = starts + 1 /\ author' = starts + 1

\* start: the Run of this command has no state yet (or not any more) ...
StartAnew ==
  /\ Request /\ run["state"] = Absent
  /\ PrepareStart
  /\ UNCHANGED <<run, archive, dirs, listed, target, saved, before, disturbed>>

Continue ==
  /\ pc' = "save" /\ author' = run["state"]
  /\ UNCHANGED <<run, archive, dirs, listed, target, starts, saved, before, disturbed>>

\* ... or it has: the execution goes on from it.
StartAgain == Request /\ run["state"] # Absent /\ Continue

Resume ==
  Request /\ run["state"] # Absent /\ run["plan"] # Absent /\ Continue

\* Mutant: a version that was not finished is numbered again.
CurrentVersion_Listed == 1 + Max({0} \cup listed)

\* current_version counts directories, listed or not.
CurrentVersion == 1 + Max({0} \cup dirs)

\* rerun, or a resume whose definitions or code changed.
Rerun ==
  /\ Request /\ run["state"] # Absent
  /\ CurrentVersion \in Versions
  /\ target' = CurrentVersion /\ dirs' = dirs \cup {CurrentVersion}
  /\ before' = run /\ pc' = "move"
  /\ UNCHANGED <<run, archive, listed, author, starts, saved, disturbed>>

-----------------------------------------------------------------------------
\* The entries are moved in the order of their names.
First(files) ==
  IF files["plan"] # Absent THEN "plan"
  ELSE IF files["state"] # Absent THEN "state" ELSE "events"

HasMoved(files) == \E e \in Moved : files[e] # Absent

\* Mutant: what the execution wrote stays where it is.
MoveEntry_Events ==
  /\ pc = "move"
  /\ IF First(run) # "events"
     THEN /\ archive' = [archive EXCEPT ![target][First(run)] = run[First(run)]]
          /\ run' = [run EXCEPT ![First(run)] = Absent]
          /\ UNCHANGED pc
     ELSE pc' = "copy" /\ UNCHANGED <<run, archive>>
  /\ UNCHANGED <<dirs, listed, target, author, starts, saved, before,
                 disturbed, requests>>

MoveEntry ==
  /\ pc = "move"
  /\ IF HasMoved(run)
     THEN /\ archive' = [archive EXCEPT ![target][First(run)] = run[First(run)]]
          /\ run' = [run EXCEPT ![First(run)] = Absent]
          /\ UNCHANGED pc
     ELSE pc' = "copy" /\ UNCHANGED <<run, archive>>
  /\ UNCHANGED <<dirs, listed, target, author, starts, saved, before,
                 disturbed, requests>>

CopyInput ==
  /\ pc = "copy" /\ pc' = "list"
  /\ archive' = [archive EXCEPT ![target]["input"] = run["input"]]
  /\ UNCHANGED <<run, dirs, listed, target, author, starts, saved, before,
                 disturbed, requests>>

WriteListing ==
  /\ pc = "list" /\ pc' = "project"
  /\ listed' = listed \cup {target}
  /\ UNCHANGED <<run, archive, dirs, target, author, starts, saved, before,
                 disturbed, requests>>

\* The Capability makes the initial variables, or rejects the revision.
ProjectInput ==
  /\ pc = "project"
  /\ PrepareStart
  /\ UNCHANGED <<run, archive, dirs, listed, target, saved, before, disturbed,
                 requests>>

\* Mutant: a rejected revision drops the archive at once.
RejectInput_NoRestore ==
  /\ pc = "project" /\ pc' = "remove"
  /\ UNCHANGED <<run, archive, dirs, listed, target, author, starts, saved,
                 before, disturbed, requests>>

RejectInput ==
  /\ pc = "project" /\ pc' = "restore"
  /\ UNCHANGED <<run, archive, dirs, listed, target, author, starts, saved,
                 before, disturbed, requests>>

RestoreEntry ==
  /\ pc = "restore"
  /\ LET files == archive[target]
     IN  IF HasMoved(files)
         THEN /\ run' = [run EXCEPT ![First(files)] = files[First(files)]]
              /\ archive' = [archive EXCEPT ![target][First(files)] = Absent]
              /\ UNCHANGED pc
         ELSE pc' = "remove" /\ UNCHANGED <<run, archive>>
  /\ UNCHANGED <<dirs, listed, target, author, starts, saved, before,
                 disturbed, requests>>

RemoveArchive ==
  /\ pc = "remove" /\ pc' = "idle"
  /\ archive' = [archive EXCEPT ![target] = Empty]
  /\ dirs' = dirs \ {target} /\ listed' = listed \ {target}
  /\ UNCHANGED <<run, target, author, starts, saved, before, disturbed, requests>>

-----------------------------------------------------------------------------
WritePlan ==
  /\ pc = "plan" /\ pc' = "input"
  /\ run' = [run EXCEPT !["plan"] = author]
  /\ UNCHANGED <<archive, dirs, listed, target, author, starts, saved, before,
                 disturbed, requests>>

WriteInput ==
  /\ pc = "input" /\ pc' = "save"
  /\ run' = [run EXCEPT !["input"] = author]
  /\ UNCHANGED <<archive, dirs, listed, target, author, starts, saved, before,
                 disturbed, requests>>

\* The execution finds no plan, which an interrupted rerun had moved: it saves
\* the one it was given.
SavePlan ==
  /\ pc = "save" /\ run["plan"] = Absent
  /\ run' = [run EXCEPT !["plan"] = author]
  /\ UNCHANGED <<archive, dirs, listed, pc, target, author, starts, saved,
                 before, disturbed, requests>>

\* The execution saves its first state; from then on it writes its results.
FirstSave ==
  /\ pc = "save" /\ run["plan"] # Absent /\ pc' = "execute"
  /\ run' = [run EXCEPT !["state"] = author]
  /\ saved' = saved \cup {author}
  /\ UNCHANGED <<archive, dirs, listed, target, author, starts, before,
                 disturbed, requests>>

Execute ==
  /\ pc = "execute"
  /\ run' = [run EXCEPT !["events"] = author]
  /\ UNCHANGED <<archive, dirs, listed, pc, target, author, starts, saved,
                 before, disturbed, requests>>

ExecutionEnds ==
  /\ pc = "execute" /\ pc' = "idle"
  /\ UNCHANGED <<run, archive, dirs, listed, target, author, starts, saved,
                 before, disturbed, requests>>

\* The process stops, or the operation that is next raises: what was done stays.
\* A failure of the restore itself, or of the plan's or the input's write,
\* is not undone either.
StopsOrFails ==
  /\ pc # "idle" /\ pc' = "idle"
  /\ disturbed' = (disturbed \/ pc # "execute")
  /\ UNCHANGED <<run, archive, dirs, listed, target, author, starts, saved,
                 before, requests>>

Next ==
  \/ StartAnew \/ StartAgain \/ Resume \/ Rerun
  \/ MoveEntry \/ CopyInput \/ WriteListing
  \/ ProjectInput \/ RejectInput \/ RestoreEntry \/ RemoveArchive
  \/ WritePlan \/ WriteInput \/ SavePlan \/ FirstSave \/ Execute \/ ExecutionEnds
  \/ StopsOrFails

Spec == Init /\ [][Next]_vars

-----------------------------------------------------------------------------
\* Every variable keeps its type.
TypeOK ==
  /\ run \in Files /\ before \in Files
  /\ archive \in [Versions -> Files]
  /\ dirs \subseteq Versions /\ listed \subseteq dirs
  /\ pc \in Steps /\ target \in Versions
  /\ author \in Starts \cup {Absent} /\ starts \in 0 .. MaxRequests
  /\ saved \subseteq Starts
  /\ disturbed \in BOOLEAN /\ requests \in 0 .. MaxRequests

\* No stop and no failure loses a saved state: each is in the Run or in a
\* version, and the states are in the order of their starts, the Run's own last.
StatesKeptInOrder ==
  /\ \A s \in saved : run["state"] = s \/ \E v \in Versions : archive[v]["state"] = s
  /\ \A v, w \in Versions :
       v < w /\ archive[v]["state"] # Absent /\ archive[w]["state"] # Absent
         => archive[v]["state"] < archive[w]["state"]
  /\ \A v \in Versions :
       run["state"] # Absent => archive[v]["state"] < run["state"]

\* Whenever the process stops, the newest saved state is the Run's, or the one
\* of its last version: a Run without a state can be put together from that.
NewestWithinReach ==
  saved # {} =>
    \/ run["state"] = Max(saved)
    \/ dirs # {} /\ archive[Max(dirs)]["state"] = Max(saved)

\* As long as nothing was left out half-way, a version holds the files of one
\* start and no others, start input included, it is listed, and a rejected
\* revision leaves the Run as it was.
VersionsWhole ==
  ~ disturbed =>
    /\ \A v \in dirs : pc \in {"idle", "plan", "input", "save", "execute"}
         => /\ v \in listed
            /\ \E s \in saved : \A e \in Entries :
                 archive[v][e] = s \/ (e = "events" /\ archive[v][e] = Absent)
    /\ pc = "remove" => run = before
    /\ pc = "execute" => \A e \in Moved : run[e] \in {author, Absent}

-----------------------------------------------------------------------------
\* The inductive invariant behind the properties, in named parts.

\* Every state found was saved; a start is requested before it is made.
StatesWereSaved ==
  /\ \A s \in saved : s <= starts
  /\ run["state"] \in saved \cup {Absent}
  /\ \A v \in Versions : archive[v]["state"] \in saved \cup {Absent}
  /\ starts <= requests
  /\ pc \in {"move", "copy", "list", "project"} => starts < requests

\* What is not there is empty, and a rerun works on the last version, moving
\* a state only to where there is none.
LastVersionWorkedOn ==
  /\ \A v \in Versions \ dirs : archive[v] = Empty
  /\ pc \in {"move", "copy", "list", "project", "restore", "remove"}
       => target \in dirs /\ \A v \in dirs : v <= target
  /\ pc \in {"move", "restore"}
       => run["state"] = Absent \/ archive[target]["state"] = Absent
  /\ pc \in {"copy", "list", "project"} => run["state"] = Absent
  /\ pc = "remove" => archive[target]["state"] = Absent

\* An execution saves over no state but its own.
AuthorKnown ==
  /\ pc \in {"plan", "input"}
       => author = starts /\ author \in Starts \ saved /\ run["state"] = Absent
  /\ pc = "save" =>
       \/ author \in saved /\ run["state"] = author
       \/ author = starts /\ author \in Starts \ saved /\ run["state"] = Absent

\* The last state was left in the Run or in its last version.
NewestKept ==
  saved # {} =>
    \/ run["state"] # Absent
    \/ \E d \in dirs : (\A v \in dirs : v <= d) /\ archive[d]["state"] # Absent

VersionsInv ==
  TypeOK /\ StatesKeptInOrder /\ StatesWereSaved /\ LastVersionWorkedOn
    /\ AuthorKnown /\ NewestKept

\* The files of one start: what an execution has not written yet may be missing.
OfOne(files, s) ==
  /\ \A e \in Entries \ {"events"} : files[e] = s
  /\ files["events"] \in {s, Absent}

\* Between here and there each moved entry is in one of the two places.
Between(here, there) ==
  \A e \in Moved : \/ here[e] = before[e] /\ there[e] = Absent
                   \/ here[e] = Absent /\ there[e] = before[e]

Settled == {"idle", "plan", "input", "save", "execute"}

\* What was never disturbed is whole: the versions, the Run between requests,
\* and the two together while files are moved.
WholeInv ==
  ~ disturbed =>
    /\ \A v \in dirs : pc \in Settled \/ v # target
         => v \in listed /\ \E s \in saved : OfOne(archive[v], s)
    /\ pc = "idle" => run = Empty \/ (OfOne(run, run["state"]) /\ run["state"] \in saved)
    /\ pc \notin Settled =>
         OfOne(before, before["state"]) /\ before["state"] \in saved
           /\ run["input"] = before["input"]
    /\ pc \in {"move", "restore"} => Between(run, archive[target])
    /\ pc \in {"copy", "list", "project"} =>
         \A e \in Moved : run[e] = Absent /\ archive[target][e] = before[e]
    /\ pc \in {"list", "project", "restore"} => archive[target]["input"] = before["input"]
    /\ pc = "project" => target \in listed
    /\ pc = "remove" => run = before
    /\ pc = "plan" => \A e \in Moved : run[e] = Absent
    /\ pc = "input" => run["plan"] = author /\ run["events"] = Absent
    /\ pc = "save" => /\ run["plan"] = author /\ run["input"] = author
                      /\ run["events"] \in {author, Absent}
    /\ pc = "execute" => OfOne(run, author) /\ author \in saved
=============================================================================
