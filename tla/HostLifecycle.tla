---------------------------- MODULE HostLifecycle ----------------------------
(***************************************************************************)
(* The life of the runtime host: application_lifespan starts it, makes the *)
(* services around it and takes all down in an order that is retried by    *)
(* the next lifespan; in between, commands under the facade's mutation     *)
(* lock switch the workspace (RuntimeHost.switch_workspace inside          *)
(* RuntimeFacade.activate_workspace), change the provider                  *)
(* (replace_loop_manager inside SettingsService.mutate) or fail closed.    *)
(* Every call that the code guards may raise.                              *)
(***************************************************************************)
EXTENDS Integers, Sequences, SequencesExt

CONSTANTS
  Workspaces,    \* roots of the projects
  NoWorkspace,   \* the host is bound to none
  MaxLives,      \* bound on the lifespans entered
  MaxCommands    \* bound on the commands accepted in all

ASSUME HostAssumption ==
  /\ Workspaces # {} /\ NoWorkspace \notin Workspaces
  /\ MaxLives \in Nat /\ MaxCommands \in Nat

\* What a project's activation points at its workspace, in commit's order.
Parts == <<"registry", "conversations", "python", "projection">>

\* The services of one lifespan, in the order they are made and closed in.
Made   == <<"conversations", "projection", "python", "broker">>
Closed == <<"projection", "python", "conversations", "broker">>
Services == Range(Made)

\* The projection that an activation put in the first one's place.
Rebound == "rebound"

Stages == {"begin", "producers", "bus"} \cup Services

VARIABLES
  life,       \* where application_lifespan is
  at,         \* where the command that holds the mutation lock is, or "idle"
  state,      \* _LifecycleState
  manager,    \* the bound loop manager: none, idle, running or stopped
  workspace,  \* RuntimeHost._workspace
  stopped,    \* _producers_stopped
  bus,        \* the task of process_queue: off, running or shut
  history,    \* whether the bound manager holds Main's conversation
  carried,    \* whether _carried_conversations does
  parts,      \* the workspace each part points at
  first,      \* that of the projection the ownership names
  open,       \* services that are not closed
  pending,    \* whether _lifecycle_cleanup_pending holds an ownership
  done,       \* LifespanCleanupOwnership.completed
  tried,      \* services this pass failed to close
  attempts,   \* failed calls of stop_producers in this pass
  retrying,   \* whether this pass is a new lifespan's
  goal,       \* the workspace being switched to
  origin,     \* the one switched from
  back,       \* whether the switch undoes an activation
  recovering, \* whether the replacement is the recovery
  talked,     \* history: Main was talked to since the workspace was entered
  lives, commands

host     == <<state, manager, workspace, stopped, bus, history, carried>>
cleanup  == <<pending, done, tried, attempts, retrying>>
switch   == <<goal, origin, back>>
counters == <<lives, commands>>
hostVars == <<life, at, host, parts, first, open, cleanup, switch, recovering,
              talked, counters>>

Passing == {"begin", "producers", "closing", "bus"}

HostTypeOK ==
  /\ life \in {"down", "create", "start", "abort", "services", "serving"}
              \cup Passing
  /\ at \in {"idle", "stop", "enter", "discard", "restore", "drop", "commit",
             "settle", "replaceStop", "replaceStart", "replaceDiscard",
             "recover"}
  /\ state \in {"new", "starting", "ready", "stopping", "stopped", "failed"}
  /\ manager \in {"none", "idle", "running", "stopped"}
  /\ workspace \in Workspaces \cup {NoWorkspace}
  /\ bus \in {"off", "running", "shut"}
  /\ {stopped, history, carried, pending, retrying, back, recovering, talked}
       \subseteq BOOLEAN
  /\ parts \in [Range(Parts) -> Workspaces] /\ first \in Workspaces
  /\ open \subseteq Services \cup {Rebound}
  /\ done \subseteq Stages /\ tried \subseteq Services
  /\ attempts \in {0, 1}
  /\ goal \in Workspaces /\ origin \in Workspaces
  /\ lives \in 0 .. MaxLives /\ commands \in 0 .. MaxCommands

HostInit ==
  /\ life = "down" /\ at = "idle" /\ state = "new" /\ manager = "none"
  /\ workspace = NoWorkspace /\ bus = "off"
  /\ stopped = FALSE /\ history = FALSE /\ carried = FALSE /\ pending = FALSE
  /\ retrying = FALSE /\ back = FALSE /\ recovering = FALSE /\ talked = FALSE
  /\ \E w \in Workspaces :
       /\ parts = [p \in Range(Parts) |-> w]
       /\ first = w /\ goal = w /\ origin = w
  /\ open = {} /\ done = {} /\ tried = {} /\ attempts = 0
  /\ lives = 0 /\ commands = 0

-----------------------------------------------------------------------------
\* The calls of a loop manager that may raise.

\* LoopManager.stop: one that does not run has nothing to stop; one whose
\* stop raised runs on.
StopOk   == manager' = IF manager = "running" THEN "stopped" ELSE manager
StopFails == manager = "running" /\ UNCHANGED manager

\* _bind_manager of a new manager, started.
Bind(w) == manager' = "running" /\ workspace' = w

\* The same, raising before the manager is bound (`unbound` is then what the
\* host says of itself) or after: start has then begun to run it, or was not
\* reached.
BindFails(w, unbound) ==
  \/ manager' = "none" /\ workspace' = unbound
  \/ manager' \in {"idle", "running"} /\ workspace' = w

-----------------------------------------------------------------------------
\* application_lifespan up to its yield.

\* A lifespan is entered; an unfinished cleanup is retried first.
BeginLifespan ==
  /\ life = "down" /\ lives < MaxLives
  /\ lives' = lives + 1
  /\ IF pending
     THEN life' = "producers" /\ retrying' = TRUE
     ELSE life' = "create" /\ UNCHANGED retrying
  /\ tried' = {} /\ attempts' = 0
  /\ UNCHANGED <<at, host, parts, first, open, pending, done, switch,
                 recovering, talked, commands>>

\* resolve_runtime_host, or something before it raises and there is no host.
CreateHost ==
  /\ life = "create"
  /\ \/ /\ life' = "start" /\ state' = "new" /\ manager' = "none"
        /\ workspace' = NoWorkspace /\ stopped' = FALSE /\ bus' = "off"
        /\ history' = FALSE /\ carried' = FALSE
        /\ open' = {} /\ done' = {}
     \/ life' = "down" /\ UNCHANGED <<host, open, done>>
  /\ UNCHANGED <<at, parts, first, pending, tried, attempts, retrying, switch,
                 recovering, talked, counters>>

\* The lifespan gives what it has to a cleanup.
Cleanup ==
  /\ life' = "begin" /\ pending' = TRUE /\ retrying' = FALSE
  /\ tried' = {} /\ attempts' = 0

\* RuntimeHost.start, in the workspace the settings name.
StartHost ==
  /\ life = "start" /\ life' = "services"
  /\ state' = "ready" /\ Bind(parts["registry"]) /\ bus' = "running"
  /\ first' = parts["registry"] /\ talked' = FALSE
  /\ UNCHANGED <<at, stopped, history, carried, parts, open, cleanup, switch,
                 recovering, counters>>

\* The registry raises before host.start does anything.
StartNot ==
  /\ life = "start" /\ Cleanup
  /\ UNCHANGED <<at, host, parts, first, open, done, switch, recovering,
                 talked, counters>>

\* start raises in its try: with no manager, or with one and the bus's task.
StartFails ==
  /\ life = "start" /\ life' = "abort" /\ state' = "starting"
  /\ BindFails(parts["registry"], NoWorkspace)
  /\ bus' = IF manager' = "none" THEN "off" ELSE "running"
  /\ UNCHANGED <<at, stopped, history, carried, parts, first, open, cleanup,
                 switch, recovering, talked, counters>>

\* _stop_locked of a start that failed: the bus goes even if the producers
\* do not; a task of its that had failed raises before the state is settled.
Abort ==
  /\ life = "abort" /\ Cleanup
  /\ \/ StopOk /\ stopped' = (manager # "none")
     \/ StopFails /\ UNCHANGED stopped
  /\ bus' = "shut"
  /\ \/ state' = IF stopped' THEN "stopped" ELSE "failed"
     \/ bus = "running" /\ state' = "stopping"
  /\ UNCHANGED <<at, workspace, history, carried, parts, first, open, done,
                 switch, recovering, talked, counters>>

\* The next service is made, on the host's workspace.
NextMade == SelectInSeq(Made, LAMBDA s : s \notin open)
MakeService ==
  /\ life = "services"
  /\ open' = open \cup {Made[NextMade]}
  /\ life' = IF NextMade = Len(Made) THEN "serving" ELSE life
  /\ parts' = [p \in DOMAIN parts |->
                 IF p = Made[NextMade] THEN workspace ELSE parts[p]]
  /\ UNCHANGED <<at, host, first, cleanup, switch, recovering, talked,
                 counters>>

MakeFails ==
  /\ life = "services" /\ Cleanup
  /\ UNCHANGED <<at, host, parts, first, open, done, switch, recovering,
                 talked, counters>>

-----------------------------------------------------------------------------
\* _cleanup_owned_runtime, one stage after the other.

\* The ownership's services are exposed again, with the first projection.
EndLifespan ==
  /\ life = "serving" /\ Cleanup
  /\ parts' = [parts EXCEPT !["projection"] = first]
  /\ UNCHANGED <<at, host, first, open, done, switch, recovering, talked,
                 counters>>

\* facade.begin_shutdown waits for the command that has the mutation lock.
BeginShutdown ==
  /\ life = "begin" /\ at = "idle"
  /\ life' = "producers" /\ done' = done \cup {"begin"}
  /\ UNCHANGED <<at, host, parts, first, open, pending, tried, attempts,
                 retrying, switch, recovering, talked, counters>>

\* A pass that failed keeps the ownership; one that did not gives it up, and
\* a new lifespan goes on to its host unless it was cancelled meanwhile.
PassFails == life' = "down" /\ UNCHANGED pending
PassEnds ==
  /\ pending' = FALSE
  /\ life' = "down" \/ (retrying /\ life' = "create")

Stopping(s) == IF s \in {"new", "stopped", "failed"} THEN s ELSE "stopping"

\* host.stop_producers
StopProducers ==
  /\ life = "producers" /\ "producers" \notin done
  /\ state' = Stopping(state)
  /\ IF state \in {"new", "stopped"} \/ manager = "none" \/ stopped
     THEN UNCHANGED <<manager, stopped>>
     ELSE StopOk /\ stopped' = TRUE
  /\ done' = done \cup {"producers"} /\ life' = "closing"
  /\ UNCHANGED <<at, workspace, bus, history, carried, parts, first, open,
                 pending, tried, attempts, retrying, switch, recovering,
                 talked, counters>>

\* Mutant: a third attempt.
StopProducersFails_Again ==
  /\ life = "producers" /\ "producers" \notin done
  /\ state \notin {"new", "stopped"} /\ ~stopped /\ StopFails
  /\ state' = Stopping(state)
  /\ IF attempts <= 1
     THEN attempts' = attempts + 1 /\ UNCHANGED <<life, pending>>
     ELSE PassFails /\ UNCHANGED attempts
  /\ UNCHANGED <<at, workspace, stopped, bus, history, carried, parts, first,
                 open, done, tried, retrying, switch, recovering, talked,
                 counters>>

\* It is called twice before the pass is given up.
StopProducersFails ==
  /\ life = "producers" /\ "producers" \notin done
  /\ state \notin {"new", "stopped"} /\ ~stopped /\ StopFails
  /\ state' = Stopping(state)
  /\ IF attempts = 0
     THEN attempts' = 1 /\ UNCHANGED <<life, pending>>
     ELSE PassFails /\ UNCHANGED attempts
  /\ UNCHANGED <<at, workspace, stopped, bus, history, carried, parts, first,
                 open, done, tried, retrying, switch, recovering, talked,
                 counters>>

ProducersDone ==
  /\ life = "producers" /\ "producers" \in done /\ life' = "closing"
  /\ UNCHANGED <<at, host, parts, first, open, cleanup, switch, recovering,
                 talked, counters>>

\* The next service the ownership names; a failure does not keep the others.
NextClosed == SelectInSeq(Closed, LAMBDA s : s \notin done \cup tried)
CloseService ==
  /\ life = "closing" /\ NextClosed # 0
  /\ \/ /\ open' = open \ {Closed[NextClosed]}
        /\ done' = done \cup {Closed[NextClosed]} /\ UNCHANGED tried
     \/ /\ Closed[NextClosed] \in open
        /\ tried' = tried \cup {Closed[NextClosed]}
        /\ UNCHANGED <<open, done>>
  /\ UNCHANGED <<life, at, host, parts, first, pending, attempts, retrying,
                 switch, recovering, talked, counters>>

\* Mutant: a failed close does not keep the bus from its stage.
ServicesClosed_Anyway ==
  /\ life = "closing" /\ Services \subseteq done \cup tried
  /\ life' = "bus" /\ UNCHANGED pending
  /\ UNCHANGED <<at, host, parts, first, open, done, tried, attempts,
                 retrying, switch, recovering, talked, counters>>

ServicesClosed ==
  /\ life = "closing" /\ Services \subseteq done \cup tried
  /\ IF tried = {} THEN life' = "bus" /\ UNCHANGED pending ELSE PassFails
  /\ UNCHANGED <<at, host, parts, first, open, done, tried, attempts,
                 retrying, switch, recovering, talked, counters>>

\* host.stop_bus; a bus task that had failed raises once.
StopBus ==
  /\ life = "bus"
  /\ bus' = IF state \in {"new", "stopped"} THEN bus ELSE "shut"
  /\ \/ /\ state' = IF stopped \/ state \in {"new", "stopped"}
                    THEN "stopped" ELSE "failed"
        /\ done' = done \cup {"bus"} /\ PassEnds
     \/ /\ bus = "running" /\ state' = Stopping(state)
        /\ PassFails /\ UNCHANGED done
  /\ UNCHANGED <<at, manager, workspace, stopped, history, carried, parts,
                 first, open, tried, attempts, retrying, switch, recovering,
                 talked, counters>>

-----------------------------------------------------------------------------
\* Commands, one at a time under the mutation lock, while the host is ready;
\* one that came before the end of the lifespan may still take the lock
\* before begin_shutdown does.

Served == life = "serving" \/ (life = "begin" /\ "broker" \in open)

Accepts ==
  /\ at = "idle" /\ state = "ready" /\ Served /\ commands < MaxCommands
  /\ commands' = commands + 1

\* A turn of Main.
Talk ==
  /\ Accepts /\ ~talked /\ talked' = TRUE /\ history' = TRUE
  /\ UNCHANGED <<life, at, state, manager, workspace, stopped, bus, carried,
                 parts, first, open, cleanup, switch, recovering, lives>>

\* switch_workspace(w): nothing to do for the same one.
Switch(from, w, undo) ==
  /\ goal' = w /\ origin' = from /\ back' = undo
  /\ IF w = from
     THEN at' = (IF undo THEN "settle" ELSE "commit") /\ UNCHANGED state
     ELSE at' = "stop" /\ state' = "starting"

Activate ==
  /\ Accepts /\ \E w \in Workspaces : Switch(workspace, w, FALSE)
  /\ UNCHANGED <<life, manager, workspace, stopped, bus, history, carried,
                 parts, first, open, cleanup, recovering, talked, lives>>

\* What activate_workspace does once the switch returned or raised.
Switched == at' = IF back THEN "settle" ELSE "commit"
Raised   == at' = IF back THEN "settle" ELSE "idle"

Switches ==
  UNCHANGED <<life, stopped, bus, carried, parts, first, open, cleanup,
              switch, recovering, counters>>

SwitchStop ==
  /\ at = "stop" /\ Switches
  /\ \/ /\ at' = "enter" /\ manager' = "none" /\ workspace' = NoWorkspace
        /\ history' = FALSE /\ talked' = FALSE /\ UNCHANGED state
     \/ /\ StopFails /\ Raised /\ state' = "failed"
        /\ UNCHANGED <<workspace, history, talked>>

SwitchEnter ==
  /\ at = "enter" /\ Switches /\ UNCHANGED <<history, talked>>
  /\ \/ Bind(goal) /\ state' = "ready" /\ Switched
     \/ BindFails(goal, NoWorkspace) /\ UNCHANGED state /\ at' = "discard"

\* The replacement is stopped before the former workspace is restored.
SwitchDiscard ==
  /\ at = "discard" /\ Switches /\ UNCHANGED <<history, talked>>
  /\ \/ /\ at' = "restore" /\ manager' = "none" /\ workspace' = NoWorkspace
        /\ UNCHANGED state
     \/ StopFails /\ UNCHANGED workspace /\ state' = "failed" /\ Raised

SwitchRestore ==
  /\ at = "restore" /\ Switches /\ UNCHANGED <<history, talked>>
  /\ \/ Bind(origin) /\ state' = "ready" /\ Raised
     \/ BindFails(origin, NoWorkspace) /\ UNCHANGED state /\ at' = "drop"

SwitchDrop ==
  /\ at = "drop" /\ Switches /\ UNCHANGED <<history, talked>>
  /\ \/ manager' = "none" /\ workspace' = NoWorkspace
     \/ StopFails /\ UNCHANGED workspace
  /\ state' = "failed" /\ Raised

\* The first n parts are pointed at w; the last of them is
\* rebind_workflow_projection, which closes the projection it replaces.
Rebind(w, n) ==
  /\ parts' = [p \in DOMAIN parts |->
                 IF p \in Range(SubSeq(Parts, 1, n)) THEN w ELSE parts[p]]
  /\ open' = IF n = Len(Parts) THEN (open \ {"projection"}) \cup {Rebound}
             ELSE open

CommitUnchanged ==
  UNCHANGED <<first, life, manager, workspace, stopped, bus, history, carried,
              cleanup, recovering, talked, counters>>

Commit ==
  /\ at = "commit" /\ CommitUnchanged
  /\ Rebind(goal, Len(Parts)) /\ at' = "idle"
  /\ UNCHANGED <<state, switch>>

\* commit raises after n of the parts (after the last one, where the tools of
\* Main are attached to it), and the runtime is switched back.
CommitFails ==
  /\ at = "commit" /\ CommitUnchanged
  /\ \E n \in 0 .. Len(Parts) : Rebind(goal, n)
  /\ Switch(goal, origin, TRUE)

\* Mutant: only a runtime that is back where it was is settled.
Settle_BackOnly ==
  /\ at = "settle" /\ CommitUnchanged /\ at' = "idle"
  /\ IF state = "ready" /\ workspace = goal
     THEN \/ Rebind(workspace, Len(Parts)) /\ UNCHANGED state
          \/ /\ \E n \in 0 .. Len(Parts) : Rebind(workspace, n)
             /\ state' = "failed"
     ELSE UNCHANGED <<state, parts, open>>
  /\ UNCHANGED switch

\* rollback and reconcile both point the parts at where the host now is.
Settle ==
  /\ at = "settle" /\ CommitUnchanged /\ at' = "idle"
  /\ IF state = "ready"
     THEN \/ Rebind(workspace, Len(Parts)) /\ UNCHANGED state
          \/ /\ \E n \in 0 .. Len(Parts) : Rebind(workspace, n)
             /\ state' = "failed"
     ELSE UNCHANGED <<state, parts, open>>
  /\ UNCHANGED switch

-----------------------------------------------------------------------------
\* SettingsService.mutate of a setting the provider depends on.

Replaces ==
  UNCHANGED <<life, bus, parts, first, open, cleanup, switch, talked, lives>>

\* replace_loop_manager: a manager that is bound is stopped first.
Replace(recovery) ==
  /\ state' = "starting" /\ recovering' = recovery
  /\ at' = IF manager = "none" THEN "replaceStart" ELSE "replaceStop"

ChangeProvider ==
  /\ Accepts /\ Replace(FALSE) /\ Replaces
  /\ UNCHANGED <<manager, workspace, stopped, history, carried>>

\* The configuration is rolled back and the replacement tried once more;
\* mutate raises at once if the rollback is incomplete.
GivenUp == state' = "failed" /\ at' \in IF recovering THEN {"idle"}
                                        ELSE {"recover", "idle"}

\* Main's conversation is taken from the manager once it stopped.
Export == carried' = history /\ history' = FALSE

ReplaceStop ==
  /\ at = "replaceStop" /\ Replaces
  /\ \/ /\ manager' = "none" /\ Export
        /\ at' = "replaceStart" /\ UNCHANGED state
     \/ StopFails /\ GivenUp /\ UNCHANGED <<carried, history>>
  /\ UNCHANGED <<workspace, stopped, recovering, commands>>

\* Mutant: a recovered runtime still counts as stopped.
ReplaceStart_StillStopped ==
  /\ at = "replaceStart" /\ Replaces
  /\ Bind(workspace) /\ UNCHANGED stopped
  /\ history' = carried /\ carried' = FALSE
  /\ state' = "ready" /\ at' = "idle"
  /\ UNCHANGED <<recovering, commands>>

\* The replacement adopts it before it starts.
ReplaceStart ==
  /\ at = "replaceStart" /\ Replaces
  /\ Bind(workspace) /\ stopped' = FALSE
  /\ history' = carried /\ carried' = FALSE
  /\ state' = "ready" /\ at' = "idle"
  /\ UNCHANGED <<recovering, commands>>

ReplaceFails ==
  /\ at = "replaceStart" /\ Replaces
  /\ BindFails(workspace, workspace)
  /\ history' = (manager' # "none" /\ carried)
  /\ stopped' \in IF manager' = "none" THEN {stopped}
                  ELSE IF manager' = "idle" THEN {stopped, FALSE} ELSE {FALSE}
  /\ at' = "replaceDiscard"
  /\ UNCHANGED <<carried, state, recovering, commands>>

\* Mutant: the candidate's discard takes the carried conversation with it.
ReplaceDiscard_Forgets ==
  /\ at = "replaceDiscard" /\ Replaces /\ GivenUp
  /\ \/ manager' = "none" /\ history' = FALSE /\ stopped' = TRUE
     \/ StopFails /\ UNCHANGED <<history, stopped>>
  /\ carried' = FALSE
  /\ UNCHANGED <<workspace, recovering, commands>>

\* _discard_provider_candidate
ReplaceDiscard ==
  /\ at = "replaceDiscard" /\ Replaces /\ GivenUp
  /\ \/ manager' = "none" /\ history' = FALSE /\ stopped' = TRUE
     \/ StopFails /\ UNCHANGED <<history, stopped>>
  /\ UNCHANGED <<carried, workspace, recovering, commands>>

\* Mutant: a recovery that failed is tried again.
Recover_Again ==
  /\ at = "recover" /\ Replace(FALSE) /\ Replaces
  /\ UNCHANGED <<manager, workspace, stopped, history, carried, commands>>

Recover ==
  /\ at = "recover" /\ Replace(TRUE) /\ Replaces
  /\ UNCHANGED <<manager, workspace, stopped, history, carried, commands>>

\* fail_consistency of an edit or a rollback that could not be undone.
FailConsistency ==
  /\ Accepts /\ state' = "failed" /\ Replaces
  /\ \/ StopOk /\ stopped' = TRUE
     \/ StopFails /\ UNCHANGED stopped
  /\ UNCHANGED <<at, workspace, history, carried, recovering>>

-----------------------------------------------------------------------------
\* The lifespan's own steps, and those of a command that was accepted.
LifespanStep ==
  \/ CreateHost \/ StartHost \/ StartNot \/ StartFails \/ Abort
  \/ MakeService \/ MakeFails \/ BeginShutdown
  \/ StopProducers \/ StopProducersFails \/ ProducersDone
  \/ CloseService \/ ServicesClosed \/ StopBus

CommandStep ==
  \/ SwitchStop \/ SwitchEnter \/ SwitchDiscard \/ SwitchRestore \/ SwitchDrop
  \/ Commit \/ CommitFails \/ Settle
  \/ ReplaceStop \/ ReplaceStart \/ ReplaceFails \/ ReplaceDiscard \/ Recover

HostNext ==
  \/ LifespanStep \/ CommandStep \/ BeginLifespan \/ EndLifespan
  \/ Talk \/ Activate \/ ChangeProvider \/ FailConsistency

HostSpec == HostInit /\ [][HostNext]_hostVars

FairHostSpec ==
  HostSpec /\ WF_hostVars(LifespanStep) /\ WF_hostVars(CommandStep)

-----------------------------------------------------------------------------
\* Whenever the host is ready and no command is under way, it, its agents and
\* every part of the application work in the same project, whatever failed in
\* an activation, in undoing it or in a change of provider
\* (RuntimeFacade.activate_workspace and routes/projects.py).
PartsIn(w) ==
  \A p \in DOMAIN parts : parts[p] = w \/ (life = "begin" /\ p = "projection")

OneWorkspace ==
  state = "ready" /\ at = "idle" /\ Served =>
    manager = "running" /\ bus = "running" /\ PartsIn(workspace)

\* What still runs can be stopped: without a lifespan that serves or cleans
\* up, agents that run, the bus's task and open services are in an ownership
\* the next lifespan takes up (LifespanCleanupOwnership).  A projection that
\* replaced the first one is excepted (EveryProjectionClosed).
RuntimeIsOwned ==
  life \in {"down", "create"} /\ ~pending =>
    manager # "running" /\ bus # "running" /\ open \subseteq {Rebound}

\* The cleanup goes in the order of the dependencies, in every pass: no
\* service is closed under agents that run, and the bus that drains them ends
\* after all (_cleanup_owned_runtime).
CleanupOrdered ==
  [][/\ life = "closing" /\ open' # open => manager # "running"
     /\ bus = "running" /\ bus' # "running" /\ life # "abort" =>
          manager # "running" /\ open \subseteq {Rebound}]_hostVars

\* Main remembers what was said in the workspace through every change of
\* provider, the failed ones included (replace_loop_manager: "across a failed
\* replacement until recovery succeeds").
HistoryKept == state = "ready" /\ at = "idle" /\ talked => history

\* A command comes to its end and so do a start and a cleanup: no failure is
\* retried for ever and none keeps the mutation lock.
EverythingEnds ==
  /\ at # "idle" ~> at = "idle"
  /\ life \notin {"down", "serving"} ~> life \in {"down", "serving"}

\* The part of EverythingEnds that no scheduling is needed for.  A command
\* comes nearer to its end with every step: what was a second try is not tried
\* again (RuntimeFacade.activate_workspace, SettingsService.mutate).
StepsFrom(a) ==
  IF a = "idle" THEN 0
  ELSE IF a \in {"settle", "commit", "recover"} THEN 1
  ELSE IF a \in {"drop", "replaceDiscard"} THEN 2
  ELSE IF a \in {"restore", "replaceStart"} THEN 3
  ELSE IF a \in {"discard", "replaceStop"} THEN 4
  ELSE IF a = "enter" THEN 5 ELSE 6

SecondTry ==
  IF at \in {"recover", "replaceStop", "replaceStart", "replaceDiscard"}
  THEN recovering ELSE back

CommandRank ==
  IF at = "idle" \/ SecondTry THEN StepsFrom(at) ELSE 6 + StepsFrom(at)

CommandsAdvance == [][CommandStep => CommandRank' < CommandRank]_hostVars

\* So does a start and a cleanup: the lifespan goes on to a later stage, or in
\* the same one a service more is made or done with, or the one repetition of
\* stop_producers begins (application_lifespan).
StagesLeft ==
  [down |-> 0, serving |-> 0, bus |-> 1, closing |-> 2, producers |-> 3,
   begin |-> 4, services |-> 5, abort |-> 6, start |-> 7, create |-> 8][life]

LifespanRank ==
  IF retrying /\ life \in {"producers", "closing", "bus"} THEN 8 + StagesLeft
                                                          ELSE StagesLeft

Grows(S) == S \subseteq S' /\ S # S'

LifespanAdvances ==
  [][LifespanStep =>
       \/ LifespanRank' < LifespanRank
       \/ /\ UNCHANGED <<life, retrying>>
          /\ Grows(open) \/ Grows(done \cup tried) \/ attempts' > attempts
    ]_hostVars

\* Not kept: "Resources retained until every ordered lifecycle cleanup stage
\* completes" (lifespan.py:44).  The ownership names the first projection; the
\* one an activation made is never closed, and its Runs go on.
EveryProjectionClosed == life = "down" /\ ~pending => open = {}

-----------------------------------------------------------------------------
\* The inductive invariant behind these: how the command that holds the lock,
\* the host and the lifespan depend on each other at every step.

Switching == {"stop", "enter", "discard", "restore", "drop"}
Replacing == {"replaceStop", "replaceStart", "replaceDiscard", "recover"}

\* Only what was accepted holds the lock, and the host is not ready while it
\* changes its manager.
LockHeld ==
  /\ at # "idle" => Served /\ bus = "running"
  /\ at \in Switching => state = "starting" /\ ~stopped
  /\ at = "commit" => state = "ready"
  /\ at \in Replacing =>
       state \in {"starting", "failed"} /\ workspace # NoWorkspace

\* A host that is ready before its shutdown is at work.
ReadyWorks ==
  /\ state = "ready" /\ life \in {"services", "serving", "begin"} =>
       /\ manager = "running" /\ bus = "running" /\ ~stopped
       /\ workspace # NoWorkspace
  /\ life = "services" => state = "ready"
  /\ life = "serving" => "broker" \in open /\ bus = "running"

\* The parts wait in the workspace that a command would come back to.
PartsFollow ==
  /\ state = "ready" /\ at = "idle" /\ Served => PartsIn(workspace)
  /\ at \in Replacing => PartsIn(workspace)
  /\ at \in Switching /\ ~back => PartsIn(origin)
  /\ at = "commit" => workspace = goal
  /\ life = "services" =>
       /\ "broker" \notin open
       /\ \A p \in DOMAIN parts :
            p = "registry" \/ p \in open => parts[p] = workspace

\* Main's conversation is with the bound manager or carried to the next one.
TalkKept ==
  talked =>
    /\ state = "ready" => history
    /\ at \notin Switching \ {"stop"}
    /\ at = "replaceStop" => history
    /\ at = "replaceStart" => carried
    /\ at = "replaceDiscard" => carried /\ (manager = "none" \/ history)
    /\ at = "recover" => IF manager = "none" THEN carried ELSE history

\* Whatever says that the producers are stopped is right.
StoppedIsStill ==
  /\ stopped \/ "producers" \in done => manager # "running"
  /\ state \in {"new", "stopped"} => manager # "running" /\ bus # "running"

\* A pass has behind it what its stage depends on.
PassesInOrder ==
  /\ life \in {"start", "abort", "services", "serving", "begin"} => done = {}
  /\ life = "start" => ~stopped /\ state = "new" /\ open = {}
  /\ life = "abort" => ~stopped
  /\ life = "begin" => ~retrying
  /\ life \in Passing => pending
  /\ life = "create" => ~pending
  /\ life \in {"closing", "bus"} => "producers" \in done
  /\ life = "bus" => Services \subseteq done
  /\ done \cap open = {}

\* Where a second try begins, the first one is what ended: of a switch in its
\* undoing, of a change of provider in its recovery.
SecondTryIsLast ==
  (at = "commit" => ~back) /\ (at = "recover" => ~recovering)

ControlInv ==
  /\ LockHeld /\ ReadyWorks /\ TalkKept
  /\ StoppedIsStill /\ PassesInOrder /\ RuntimeIsOwned

HostInv == HostTypeOK /\ ControlInv /\ PartsFollow

=============================================================================
