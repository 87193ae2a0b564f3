---------------------------- MODULE MessagePlane ----------------------------
(***************************************************************************)
(* MessageBus and the conversation service's callback behind it.  Control  *)
(* messages wait in a queue, the pieces of a reply in a second, bounded    *)
(* plane where those of one turn are joined; each has a worker.  Whatever  *)
(* a worker takes is written under the facade's lock, which is first come, *)
(* first served and which every command holds too: sending a message,      *)
(* switching the session, quiescence, the shutdown.  A write after         *)
(* quiescence is refused and lost.  A step runs from one await that really *)
(* suspends to the next: taking a message and writing it is one step while *)
(* the lock is free.  Of a text only its turn is kept: a piece, and the    *)
(* whole reply in a final message, are not empty.  (An empty final message *)
(* ends the stream and records nothing.)                                   *)
(***************************************************************************)
EXTENDS Naturals, Sequences, SequencesExt, FiniteSets

CONSTANTS
  Chat,       \* turns of the main agent, numbers: it runs them one by one
  Typed,      \* turns of workflow agents: they carry a task_attempt_id
  Sessions,   \* sessions of the main agent
  MaxPieces,  \* bound on the pieces of all replies
  Capacity,   \* stream_capacity
  MaxCommands \* bound on the commands that are not a send

Turns == Chat \cup Typed

ASSUME PlaneAssumption ==
  /\ Turns \subseteq Nat /\ Chat \cap Typed = {} /\ Capacity \in Nat \ {0}
  /\ Sessions # {} /\ Sessions \cap {"own", "none"} = {}
  /\ MaxPieces \in Nat /\ MaxCommands \in Nat

VARIABLES
  queue,     \* _queue: control messages
  plane,     \* _stream_pending: the turns a piece of which waits, oldest first
  hand,      \* what each worker has taken and not written yet
  held,      \* whether a command holds the facade's lock
  line,      \* who waits for it, in order
  streams,   \* the keys of ConversationService._streams
  bound,     \* _message_sessions
  current,   \* the main agent's current session
  records,   \* what the conversation store holds
  stage,     \* of each turn
  made,      \* pieces of replies so far
  published, \* history: control messages published
  quiesced,  \* a maintenance token is out
  mode,      \* of the shutdown
  commands   \* commands so far that were not a send

agentVars == <<stage, made>>
storeVars == <<streams, bound, records>>
vars == <<queue, plane, hand, held, line, storeVars, current, agentVars,
          published, quiesced, mode, commands>>

Workers == {"main", "stream"}
Idle    == [kind |-> "nothing"]

\* Requests for the lock: a worker's, or a command's.
Request(kind) == [kind |-> kind, turn |-> 0]
Commands == {Request(k) : k \in {"switch", "quiesce", "release", "shutdown"}}
              \cup [kind : {"send"}, turn : Turns]

SessionOf(t) == IF t \in Chat THEN current ELSE "own"
Keys == {<<s, t>> : s \in Sessions \cup {"own"}, t \in Turns}

Init ==
  /\ queue = <<>> /\ plane = <<>> /\ hand = [w \in Workers |-> Idle]
  /\ held = FALSE /\ line = <<>>
  /\ streams = {} /\ bound = [t \in Turns |-> "none"]
  /\ current = (CHOOSE s \in Sessions : TRUE) /\ records = <<>>
  /\ stage = [t \in Turns |-> "new"] /\ made = 0
  /\ published = <<>> /\ quiesced = FALSE /\ mode = "open" /\ commands = 0

Message(kind, t) == [kind |-> kind, turn |-> t]
Publish(m) == queue' = Append(queue, m) /\ published' = Append(published, m)

-----------------------------------------------------------------------------
\* The agents.  A turn of the main agent starts when the one before it ends.
Running(t) == stage[t] = "running"
MainBusy == \E t \in Chat : Running(t)

\* The piece of t that waits is taken out.
Waits(t) == \E i \in 1 .. Len(plane) : plane[i] = t
Position(t) == CHOOSE i \in 1 .. Len(plane) : plane[i] = t
Without(t) == IF Waits(t) THEN RemoveAt(plane, Position(t)) ELSE plane

\* Mutant: the plane is not bounded.
Joined_Unbounded(t) == Append(Without(t), t)

\* A piece joins the one of its turn that still waits, at the end of the
\* plane; a new one may push the oldest out.
Joined(t) ==
  IF ~Waits(t) /\ Len(plane) >= Capacity THEN Append(Tail(plane), t)
  ELSE Append(Without(t), t)

Stream(t) ==
  /\ Running(t) /\ made < MaxPieces
  /\ made' = made + 1 /\ plane' = Joined(t)
  /\ UNCHANGED <<queue, hand, held, line, storeVars, current, stage, published,
                 quiesced, mode, commands>>

\* Mutant: a terminal leaves the plane alone.
Discarded_Nothing(t) == plane

\* Only a terminal with a task_attempt_id discards what still waits.
Discarded(t) == IF t \in Typed THEN Without(t) ELSE plane

\* The message the main agent's loop takes when turn t is over.
Queued == {u \in Chat : stage[u] = "queued"}
NextOf(t) == {u \in Queued : t \in Chat /\ \A v \in Queued : u <= v}

\* The loop of an agent that waited for a message wakes and takes the first.
Wakes(t) ==
  /\ stage[t] = "queued"
  /\ t \in Chat => ~MainBusy /\ \A u \in Queued : t <= u
  /\ stage' = [stage EXCEPT ![t] = "running"]
  /\ UNCHANGED <<queue, plane, hand, held, line, storeVars, current, made,
                 published, quiesced, mode, commands>>

Finish(t) ==
  /\ Running(t)
  /\ Publish(Message("final", t)) /\ plane' = Discarded(t)
  /\ stage' = [u \in Turns |-> IF u = t THEN "ended"
                               ELSE IF u \in NextOf(t) THEN "running" ELSE stage[u]]
  /\ UNCHANGED <<hand, held, line, storeVars, current, made, quiesced, mode, commands>>

-----------------------------------------------------------------------------
\* What the callback writes, under the lock.
KeyOf(t) == <<IF bound[t] = "none" THEN SessionOf(t) ELSE bound[t], t>>

Refused == quiesced
Record(m, session) ==
  records' = Append(records, [kind |-> m.kind, turn |-> m.turn, session |-> session])

Write(m) ==
  \/ Refused /\ UNCHANGED storeVars
  \/ /\ ~Refused /\ m.kind = "user"
     /\ bound' = [bound EXCEPT ![m.turn] = SessionOf(m.turn)]
     /\ Record(m, SessionOf(m.turn)) /\ UNCHANGED streams
  \/ /\ ~Refused /\ m.kind = "final"
     /\ streams' = streams \ {KeyOf(m.turn)}
     /\ bound' = [bound EXCEPT ![m.turn] = "none"]
     /\ Record(m, KeyOf(m.turn)[1])
  \/ /\ ~Refused /\ m.kind = "pieces"
     /\ streams' = streams \cup {KeyOf(m.turn)} /\ UNCHANGED <<bound, records>>

\* A worker writes at once if nobody holds the lock or waits for it.
LockFree == ~held /\ line = <<>>
WriteOrWait(w, m) ==
  IF LockFree THEN Write(m) /\ UNCHANGED <<hand, line>>
  ELSE /\ hand' = [hand EXCEPT ![w] = m] /\ line' = Append(line, Request(w))
       /\ UNCHANGED storeVars

\* A user's message is put into its agent's queue before it reaches the
\* callback; the agent's loop wakes later.
MainTakes ==
  /\ queue # <<>> /\ hand["main"] = Idle /\ mode # "closed"
  /\ queue' = Tail(queue)
  /\ LET m == Head(queue)
     IN /\ WriteOrWait("main", m)
        /\ stage' = IF m.kind # "user" \/ stage[m.turn] # "sent" THEN stage
                    ELSE [stage EXCEPT ![m.turn] = "queued"]
  /\ UNCHANGED <<plane, held, current, made, published, quiesced, mode, commands>>

StreamTakes ==
  /\ plane # <<>> /\ hand["stream"] = Idle /\ mode # "closed"
  /\ plane' = Tail(plane)
  /\ WriteOrWait("stream", Message("pieces", Head(plane)))
  /\ UNCHANGED <<queue, held, current, agentVars, published, quiesced, mode, commands>>

-----------------------------------------------------------------------------
\* A worker's turn in the line: it writes and lets go.
WorkerWrites ==
  /\ ~held /\ line # <<>> /\ Head(line).kind \in Workers
  /\ line' = Tail(line)
  /\ Write(hand[Head(line).kind])
  /\ hand' = [hand EXCEPT ![Head(line).kind] = Idle]
  /\ UNCHANGED <<queue, plane, held, current, agentVars, published, quiesced, mode, commands>>

\* The checks of the commands.
PendingWrites == \E w \in Workers : hand[w] # Idle
PendingPersistence == PendingWrites \/ queue # <<>>
AgentsWork == \E t \in Turns : Running(t)
\* Mutant: the agents' statuses are not asked.
SwitchSafe_AnyAgent == ~PendingPersistence /\ streams = {}

SwitchSafe == ~AgentsWork /\ ~PendingPersistence /\ streams = {}
\* Mutant: the queue alone is asked for writes that are pending.
MaintenanceBusy_QueueOnly ==
  AgentsWork \/ queue # <<>> \/ \E t \in Turns : stage[t] \in {"queued", "sent"}

MaintenanceBusy ==
  AgentsWork \/ PendingPersistence \/ \E t \in Turns : stage[t] \in {"queued", "sent"}

Accepting == mode = "open" /\ ~quiesced

\* A switch empties the main agent's queue, which SwitchSafe does not ask for.
Cleared == [t \in Turns |-> IF t \in Queued THEN "dropped" ELSE stage[t]]

\* A refused command raises and changes nothing.
Effect(c) ==
  \/ /\ c.kind = "send" /\ Accepting /\ Publish(Message("user", c.turn))
     /\ stage' = [stage EXCEPT ![c.turn] = "sent"]
     /\ UNCHANGED <<streams, bound, current, quiesced, mode>>
  \/ /\ c.kind = "switch" /\ Accepting /\ SwitchSafe
     /\ current' \in Sessions \ {current}
     /\ streams' = {k \in streams : k[2] \notin Chat}
     /\ bound' = [t \in Turns |-> IF t \in Chat THEN "none" ELSE bound[t]]
     /\ stage' = Cleared
     /\ UNCHANGED <<queue, published, quiesced, mode>>
  \/ /\ c.kind = "quiesce" /\ Accepting /\ ~MaintenanceBusy /\ quiesced' = TRUE
     /\ UNCHANGED <<queue, published, stage, streams, bound, current, mode>>
  \/ /\ c.kind = "release" /\ quiesced' = FALSE
     /\ UNCHANGED <<queue, published, stage, streams, bound, current, mode>>
  \/ /\ c.kind = "shutdown" /\ mode' = (IF mode = "open" THEN "draining" ELSE mode)
     /\ UNCHANGED <<queue, published, stage, streams, bound, current, quiesced>>
  \/ /\ \/ c.kind \in {"send", "switch"} /\ ~Accepting
        \/ c.kind = "switch" /\ ~SwitchSafe
        \/ c.kind = "quiesce" /\ (~Accepting \/ MaintenanceBusy)
     /\ UNCHANGED <<queue, published, stage, streams, bound, current, quiesced, mode>>

\* The turns are sent once, the main agent's in order; at most one command
\* waits behind another.
Unsent(t) == stage[t] = "new" /\ (t \in Chat => \A u \in Chat : u < t => stage[u] # "new")

CommandArrives(c) ==
  /\ IF c.kind = "send" THEN Unsent(c.turn) /\ UNCHANGED commands
     ELSE commands < MaxCommands /\ commands' = commands + 1
  /\ \A i \in 1 .. Len(line) : line[i].kind \in Workers
  /\ mode # "closed"
  /\ IF LockFree
     THEN held' = TRUE /\ UNCHANGED line /\ Effect(c)
     ELSE /\ line' = Append(line, c)
          /\ UNCHANGED <<held, queue, published, stage, streams, bound, current, quiesced, mode>>
  /\ UNCHANGED <<plane, hand, records, made>>

CommandGranted ==
  /\ ~held /\ line # <<>> /\ Head(line).kind \notin Workers
  /\ line' = Tail(line) /\ held' = TRUE /\ Effect(Head(line))
  /\ UNCHANGED <<plane, hand, records, made, commands>>

CommandEnds ==
  /\ held /\ held' = FALSE
  /\ UNCHANGED <<queue, plane, hand, line, storeVars, current, agentVars, published,
                 quiesced, mode, commands>>

-----------------------------------------------------------------------------
\* The shutdown: agents stop in the middle of their turns, the conversation
\* service drains and unsubscribes, then the bus's task is cancelled.
StopProducers ==
  /\ mode = "draining" /\ mode' = "stopped"
  /\ stage' = [t \in Turns |-> IF stage[t] \in {"queued", "running", "sent"}
                               THEN "stopped" ELSE stage[t]]
  /\ UNCHANGED <<queue, plane, hand, held, line, storeVars, current, made, published,
                 quiesced, commands>>

\* Mutant: the queue is drained, what its worker holds is not waited for.
Close_HandsFull ==
  /\ mode = "stopped" /\ queue = <<>> /\ mode' = "closed"
  /\ hand' = [w \in Workers |-> Idle] /\ line' = <<>>
  /\ UNCHANGED <<queue, plane, held, storeVars, current, agentVars,
                 published, quiesced, commands>>

Close ==
  /\ mode = "stopped" /\ ~PendingPersistence /\ mode' = "closed"
  /\ UNCHANGED <<queue, plane, hand, held, line, storeVars, current, agentVars,
                 published, quiesced, commands>>

Next ==
  \/ \E t \in Turns : Wakes(t) \/ Stream(t) \/ Finish(t)
  \/ MainTakes \/ StreamTakes \/ WorkerWrites
  \/ \E c \in Commands : CommandArrives(c)
  \/ CommandGranted \/ CommandEnds
  \/ StopProducers \/ Close

\* The two workers, whoever is next for the lock, and the shutdown go on.
Fairness ==
  /\ WF_vars(MainTakes) /\ WF_vars(StreamTakes) /\ WF_vars(WorkerWrites)
  /\ WF_vars(CommandGranted) /\ WF_vars(CommandEnds)
  /\ WF_vars(StopProducers) /\ WF_vars(Close)

Spec == Init /\ [][Next]_vars /\ Fairness

-----------------------------------------------------------------------------
(***************************************************************************)
(* Properties                                                              *)
(***************************************************************************)
Messages == [kind : {"user", "final", "pieces"}, turn : Turns]
Requests == {Request(w) : w \in Workers} \cup Commands

\* The type invariant, with the capacity of the plane.
TypeOK ==
  /\ queue \in Seq(Messages) /\ published \in Seq(Messages)
  /\ plane \in Seq(Turns) /\ Len(plane) <= Capacity
  /\ hand \in [Workers -> Messages \cup {Idle}]
  /\ held \in BOOLEAN /\ line \in Seq(Requests)
  /\ streams \subseteq Keys /\ bound \in [Turns -> Sessions \cup {"own", "none"}]
  /\ current \in Sessions /\ made \in 0 .. MaxPieces
  /\ records \in Seq([kind : {"user", "final"}, turn : Turns, session : Sessions \cup {"own"}])
  /\ stage \in [Turns -> {"new", "sent", "queued", "running", "ended", "stopped",
                           "dropped"}]
  /\ quiesced \in BOOLEAN /\ mode \in {"open", "draining", "stopped", "closed"}
  /\ commands \in 0 .. MaxCommands

\* What is recorded of a conversation is what was published, in the order it
\* was published, each message once: nothing is refused by a quiescence,
\* overtaken in the line for the lock or left behind by the shutdown.
RecordedInOrder ==
  /\ Len(records) <= Len(published)
  /\ \A i \in 1 .. Len(records) :
       records[i].kind = published[i].kind /\ records[i].turn = published[i].turn
  /\ mode = "closed" => Len(records) = Len(published)

\* A user's message and its reply are recorded in one session, whatever the
\* user switches to in between.
OneSession ==
  \A i, j \in 1 .. Len(records) :
    records[i].turn = records[j].turn => records[i].session = records[j].session

Recorded(t) == \E i \in 1 .. Len(records) : records[i].kind = "final" /\ records[i].turn = t
StreamsEnd(t) == Recorded(t) => \A k \in streams : k[2] # t

\* The text of a workflow agent's reply does not come back after its turn has
\* been recorded: what still waits is discarded when the terminal is
\* published, and what a worker has already taken is before it in the line.
AttemptStreamsEnd == \A t \in Typed : StreamsEnd(t)

\* require_agent_idle and require_switch_safe refuse only while there is
\* "active, queued, streaming, or persistence work": no text of a reply
\* remains once its turn has been recorded.
NoStreamIsLeft == \A t \in Turns : StreamsEnd(t)

\* The backlog is cleared again and again: every control message is recorded
\* in the end, whatever is commanded, and the shutdown waits for it.
EveryMessageRecorded == []<>(Len(records) = Len(published))

Stands(w, i) == line[i].kind = w

\* The part of EveryMessageRecorded that no scheduling is needed for: while a
\* control message is not recorded, its worker can take the next one or stands
\* in the line for the lock, and at most three ever stand there, so that
\* nobody waits for more than the other worker and one command.
BacklogIsServed ==
  /\ Len(records) < Len(published) =>
       /\ mode # "closed"
       /\ IF hand["main"] = Idle THEN queue # <<>>
          ELSE \E i \in 1 .. Len(line) : Stands("main", i)
  /\ Len(line) <= 3

-----------------------------------------------------------------------------
\* The inductive invariant behind the properties, in named parts.
InHand == IF hand["main"] = Idle THEN 0 ELSE 1
Same(r, m) == r.kind = m.kind /\ r.turn = m.turn

\* What was published is recorded, in the worker's hand, or queued.
FlowSound ==
  /\ Len(published) = Len(records) + InHand + Len(queue)
  /\ \A i \in 1 .. Len(records) : Same(records[i], published[i])
  /\ InHand = 1 => hand["main"] = published[Len(records) + 1]
  /\ \A i \in 1 .. Len(queue) : queue[i] = published[Len(records) + InHand + i]

IsPublished(m) == \E i \in 1 .. Len(published) : published[i] = m

\* A turn's message and then its reply are published, once.
TurnsSound ==
  /\ \A i \in 1 .. Len(published) : published[i].kind \in {"user", "final"}
  /\ \A i, j \in 1 .. Len(published) : published[i] = published[j] => i = j
  /\ \A t \in Turns : IsPublished(Message("user", t)) <=> stage[t] # "new"
  /\ \A t \in Turns : IsPublished(Message("final", t)) <=> stage[t] = "ended"
  /\ \A i, j \in 1 .. Len(published), t \in Turns :
       published[i] = Message("user", t) /\ published[j] = Message("final", t) => i < j

Active == {"sent", "queued", "running"}
NothingActive == \A t \in Turns : stage[t] \notin Active

InQueue(t) == \E i \in 1 .. Len(queue) : queue[i] = Message("user", t)

\* Nothing is written once the server is quiesced, or closed, and what was
\* sent is on its way to its agent.
ModeSound ==
  /\ quiesced \/ mode = "closed" => queue = <<>> /\ InHand = 0
  /\ quiesced \/ mode \in {"stopped", "closed"} => NothingActive
  /\ \A t \in Turns :
       /\ stage[t] = "sent" => InQueue(t)
       /\ stage[t] = "stopped" => mode \in {"stopped", "closed"}

\* A turn keeps its session from its message to its reply.
SessionsSound ==
  /\ \A t \in Typed : bound[t] \in {"own", "none"}
  /\ \A t \in Chat : bound[t] \in Sessions \cup {"none"}
  /\ \A k \in streams : k[2] \in Typed => k[1] = "own"
  /\ \A i \in 1 .. Len(records), t \in Turns :
       records[i].kind = "user" /\ records[i].turn = t /\ ~Recorded(t)
         /\ stage[t] # "dropped" => bound[t] = records[i].session
  /\ OneSession

\* A worker stands once in the line while its hands are full.
LineSound ==
  /\ hand["stream"] # Idle => hand["stream"].kind = "pieces"
  /\ \A w \in Workers :
       /\ hand[w] # Idle <=> \E i \in 1 .. Len(line) : Stands(w, i)
       /\ \A i, j \in 1 .. Len(line) : Stands(w, i) /\ Stands(w, j) => i = j

\* At most one command waits; a message that is to be sent was not sent yet.
CommandsSound ==
  /\ \A i, j \in 1 .. Len(line) :
       line[i].kind \notin Workers /\ line[j].kind \notin Workers => i = j
  /\ \A i \in 1 .. Len(line) : line[i].kind = "send" => stage[line[i].turn] = "new"

StreamFirst ==
  \A i, j \in 1 .. Len(line) : Stands("stream", i) /\ Stands("main", j) => i < j

\* A piece of an ended turn was taken before its reply was.
StreamsSound ==
  /\ \A i, j \in 1 .. Len(plane) : plane[i] = plane[j] => i = j
  /\ \A t \in Typed :
       /\ Waits(t) => stage[t] # "ended"
       /\ hand["stream"] = Message("pieces", t)
            => /\ ~Recorded(t)
               /\ hand["main"] = Message("final", t) => StreamFirst
       /\ StreamsEnd(t)

PlaneInv ==
  /\ TypeOK /\ FlowSound /\ TurnsSound /\ ModeSound
  /\ SessionsSound /\ LineSound /\ CommandsSound /\ StreamsSound
=============================================================================
