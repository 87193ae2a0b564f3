----------------------------- MODULE EventStream -----------------------------
(***************************************************************************)
(* The public event stream: EventBroker numbers every message the bus      *)
(* delivers, keeps the last of them for replay and offers each one to a    *)
(* bounded buffer per connected client; _EventStreamBody reads that buffer *)
(* and writes one frame per event to the connection.  A client that cannot *)
(* be served without a gap is closed with one stream.resync_required.      *)
(*                                                                         *)
(* publish_internal, register, unregister and close await nothing but the  *)
(* broker's lock, so each is one step.  A body's turn is two: the read     *)
(* task takes an event out of the buffer, and the body resumes with it,    *)
(* unless its heartbeat timer got in between.                              *)
(***************************************************************************)
EXTENDS Naturals, Sequences, SequencesExt

CONSTANTS
  Connections,      \* connections clients may have open at a time
  Messages,         \* ids of streamed agent messages
  Channels,         \* what a delta may carry: "content", "thinking"
  Tokens,           \* the pieces of text a delta brings
  ReplayCapacity,   \* sse_replay_capacity
  ClientCapacity,   \* sse_client_queue_capacity
  MaxEvents,        \* bound: events one broker numbers
  MaxEpochs         \* bound: brokers, each with its own stream id

ASSUME CapacitiesArePositive ==
  /\ ReplayCapacity \in Nat \ {0}
  /\ ClientCapacity \in Nat \ {0}

ASSUME BoundsAreNatural ==
  /\ MaxEvents \in Nat
  /\ MaxEpochs \in Nat \ {0}

VARIABLES
  epoch,      \* the broker's stream_id
  up,         \* the broker is not closed
  sequence,   \* the number of the last event
  replay,     \* ReplayBuffer._events
  link        \* per connection: its EventClient, its body, what is on the wire

vars == <<epoch, up, sequence, replay, link>>

NoMessage == "no message"

Numbers == 0..MaxEvents

\* Texts are told apart in deltas only; a delta brings one piece of one channel.
NoText == [ch \in Channels |-> <<>>]
Piece(ch, t) == [NoText EXCEPT ![ch] = <<t>>]

Kinds ==
  [type : {"delta"}, message : Messages,
   text : {Piece(ch, t) : ch \in Channels, t \in Tokens}]
    \union [type : {"completed"}, message : Messages, text : {NoText}]
    \union [type : {"other"}, message : {NoMessage}, text : {NoText}]

\* One frame: the events numbered from .. seq; all but the last were absorbed.
Frame(kind, from, seq) ==
  [type |-> kind.type, message |-> kind.message, text |-> kind.text,
   from |-> from, seq |-> seq]

IsFrame(f) ==
  /\ DOMAIN f = {"type", "message", "text", "from", "seq"}
  /\ f.type \in {"delta", "completed", "other", "resync"}
  /\ f.message \in Messages \union {NoMessage}
  /\ {f.from, f.seq} \subseteq Numbers

\* A Last-Event-ID: of this or another broker; epoch 0 stands for a malformed one.
Cursors == [epoch : 0..MaxEpochs, seq : Numbers]

\* A connection: buffer and closed are its EventClient's; taken is the event its
\* read task has and its body has not; wire is sent and not yet received.  Two
\* parts are history: got is the last number the peer has, lost the numbers a
\* heartbeat dropped.
Free ==
  [phase |-> "free", buffer |-> <<>>, closed |-> FALSE, taken |-> <<>>,
   wire |-> <<>>, got |-> 0, lost |-> {}]

Init ==
  /\ epoch = 1
  /\ up = TRUE
  /\ sequence = 0
  /\ replay = <<>>
  /\ link = [c \in Connections |-> Free]

-----------------------------------------------------------------------------
(* The buffers.                                                            *)

\* _resync_event: it carries the number of the latest event.
Resync(n) ==
  Frame([type |-> "resync", message |-> NoMessage, text |-> NoText], n, n)

\* EventClient._fail_closed
FailClosed(l, n) ==
  IF l.closed THEN l ELSE [l EXCEPT !.buffer = <<Resync(n)>>, !.closed = TRUE]

\* EventClient._matching_tail_delta, and the types that may replace the tail.
Absorbs(tail, e) ==
  /\ e.message # NoMessage
  /\ e.type \in {"delta", "completed"}
  /\ tail.type = "delta"
  /\ tail.message = e.message

\* _absorb_delta on the content of two deltas: a later one that starts with the
\* earlier replaces it, one the earlier ends with adds nothing.
JoinContent(earlier, later) ==
  IF earlier = <<>> \/ IsPrefix(earlier, later) THEN later
  ELSE IF IsSuffix(later, earlier) THEN earlier
  ELSE earlier \o later

\* Everything else is the later event's, its thinking too.
JoinText(earlier, later) ==
  [ch \in Channels |->
     IF ch = "content" THEN JoinContent(earlier[ch], later[ch]) ELSE later[ch]]

\* The range stays explicit.
Absorbed(tail, e) ==
  [e EXCEPT !.from = tail.from,
            !.text = IF e.type = "delta" THEN JoinText(tail.text, @) ELSE @]

\* Mutant: a full buffer ignores what it cannot take.
Offer_Ignored(l, e) ==
  IF l.closed THEN l
  ELSE IF Len(l.buffer) < ClientCapacity THEN [l EXCEPT !.buffer = Append(@, e)]
  ELSE l

Offer(l, e) ==
  IF l.closed THEN l
  ELSE IF Len(l.buffer) < ClientCapacity THEN [l EXCEPT !.buffer = Append(@, e)]
  ELSE IF Absorbs(Last(l.buffer), e)
    THEN [l EXCEPT !.buffer = Append(Front(@), Absorbed(Last(@), e))]
  ELSE FailClosed(l, e.seq)

\* Mutant: a replay that evicts nothing.
Retain_Unbounded(e) == Append(replay, e)

\* ReplayBuffer.append: a deque of bounded length.
Retain(e) ==
  LET all == Append(replay, e)
  IN IF Len(all) > ReplayCapacity THEN Tail(all) ELSE all

\* ReplayBuffer.after answers with events; else with a reason to start over.
Resumable(cursor) ==
  /\ cursor.epoch = epoch
  /\ \/ cursor.seq = 0 /\ (replay = <<>> \/ replay[1].seq = 1)
     \/ \E i \in DOMAIN replay : replay[i].seq = cursor.seq

After(cursor) ==
  IF cursor.seq = 0 THEN replay
  ELSE SubSeq(replay, 1 + CHOOSE i \in DOMAIN replay : replay[i].seq = cursor.seq, Len(replay))

\* Mutant: of a replay that is too long, the latest events.
Seed_Latest(cursor) ==
  IF Resumable(cursor)
    THEN [Free EXCEPT !.phase = "open", !.got = cursor.seq,
                      !.buffer = IF Len(After(cursor)) <= ClientCapacity
                                   THEN After(cursor)
                                   ELSE Tail(After(cursor))]
  ELSE FailClosed([Free EXCEPT !.phase = "open"], sequence)

\* EventClient.seed
Seed(cursor) ==
  IF Resumable(cursor) /\ Len(After(cursor)) <= ClientCapacity
    THEN [Free EXCEPT !.phase = "open", !.got = cursor.seq, !.buffer = After(cursor)]
  ELSE FailClosed([Free EXCEPT !.phase = "open"], sequence)

-----------------------------------------------------------------------------
(* The broker.                                                             *)

Publish ==
  /\ up
  /\ sequence < MaxEvents
  /\ \E kind \in Kinds :
       LET e == Frame(kind, sequence + 1, sequence + 1)
       IN /\ sequence' = e.seq
          /\ replay' = Retain(e)
          /\ link' = [c \in Connections |->
                        IF link[c].phase = "open" THEN Offer(link[c], e) ELSE link[c]]
  /\ UNCHANGED <<epoch, up>>

\* A request without Last-Event-ID is served from here on.
RegisterAnew(c) ==
  /\ up
  /\ link[c].phase = "free"
  /\ link' = [link EXCEPT ![c] = [Free EXCEPT !.phase = "open", !.got = sequence]]
  /\ UNCHANGED <<epoch, up, sequence, replay>>

\* One with it is served from there on, or told to start over.
RegisterAfter(c, cursor) ==
  /\ up
  /\ link[c].phase = "free"
  /\ link' = [link EXCEPT ![c] = Seed(cursor)]
  /\ UNCHANGED <<epoch, up, sequence, replay>>

Close ==
  /\ up
  /\ up' = FALSE
  /\ link' = [c \in Connections |->
                IF link[c].phase = "open" THEN FailClosed(link[c], sequence) ELSE link[c]]
  /\ UNCHANGED <<epoch, sequence, replay>>

\* The process ends, closed first or not; the next one numbers from 1 again.
Restart ==
  /\ epoch < MaxEpochs
  /\ epoch' = epoch + 1
  /\ up' = TRUE
  /\ sequence' = 0
  /\ replay' = <<>>
  /\ link' = [c \in Connections |-> Free]

-----------------------------------------------------------------------------
(* One body and its connection.                                            *)

Server == <<epoch, up, sequence, replay>>

\* EventClient.get in the read task.
Take(c) ==
  /\ link[c].phase = "open"
  /\ link[c].taken = <<>>
  /\ link[c].buffer # <<>>
  /\ link' = [link EXCEPT ![c].taken = <<Head(link[c].buffer)>>,
                          ![c].buffer = Tail(@)]
  /\ UNCHANGED Server

\* The body resumes and yields the frame; a resync is its last.
Yield(c) ==
  /\ link[c].taken # <<>>
  /\ LET frame == link[c].taken[1]
     IN link' = [link EXCEPT
          ![c].taken = <<>>,
          ![c].wire = Append(@, frame),
          ![c].phase = IF frame.type = "resync" THEN "ended" ELSE @]
  /\ UNCHANGED Server

\* asyncio.wait_for runs out after the read task took an event and before the
\* body resumed: the body is cancelled, the event is dropped with the task's
\* result and a heartbeat is sent instead.
HeartbeatDrops(c) ==
  /\ link[c].taken # <<>>
  /\ LET frame == link[c].taken[1]
     IN link' = [link EXCEPT
          ![c].taken = <<>>,
          ![c].lost = IF frame.type = "resync" THEN @ ELSE @ \union (frame.from..frame.seq)]
  /\ UNCHANGED Server

\* EventClient.get on a closed and empty client ends the body.
Exhausted(l) == l.closed /\ l.buffer = <<>>

EndOfStream(c) ==
  /\ link[c].phase = "open"
  /\ link[c].taken = <<>>
  /\ Exhausted(link[c])
  /\ link' = [link EXCEPT ![c].phase = "ended"]
  /\ UNCHANGED Server

\* The client reads a frame; it leaves at a resync, to start over.
Receive(c) ==
  /\ link[c].wire # <<>>
  /\ LET frame == Head(link[c].wire)
     IN link' = [link EXCEPT
          ![c] = IF frame.type = "resync" THEN Free
                 ELSE [link[c] EXCEPT !.wire = Tail(link[c].wire), !.got = frame.seq]]
  /\ UNCHANGED Server

\* The connection ends: at its end, or at any time by the client or the network.
\* The body is cancelled and unregisters its client.
Disconnect(c) ==
  /\ link[c].phase # "free"
  /\ link' = [link EXCEPT ![c] = Free]
  /\ UNCHANGED Server

-----------------------------------------------------------------------------
Body(c) == Take(c) \/ Yield(c) \/ EndOfStream(c)

Next ==
  \/ Publish
  \/ Close
  \/ Restart
  \/ \E c \in Connections :
       \/ RegisterAnew(c)
       \/ \E cursor \in Cursors : RegisterAfter(c, cursor)
       \/ Take(c)
       \/ Yield(c)
       \/ HeartbeatDrops(c)
       \/ EndOfStream(c)
       \/ Receive(c)
       \/ Disconnect(c)

Spec == Init /\ [][Next]_vars

\* The server runs its bodies and a connected client reads; nobody must publish,
\* connect, disconnect or stop.
FairSpec ==
  Spec /\ \A c \in Connections : WF_vars(Body(c)) /\ WF_vars(Receive(c))

-----------------------------------------------------------------------------
(* Properties.                                                             *)

\* Buffers stay within their capacity and every part has its type (the wire is
\* no longer than the events there are, and a resync).
TypeOK ==
  /\ epoch \in 1..MaxEpochs
  /\ up \in BOOLEAN
  /\ sequence \in Numbers
  /\ Len(replay) <= ReplayCapacity
  /\ \A i \in DOMAIN replay : IsFrame(replay[i])
  /\ \A c \in Connections :
       /\ DOMAIN link[c] = DOMAIN Free
       /\ link[c].phase \in {"free", "open", "ended"}
       /\ link[c].closed \in BOOLEAN
       /\ link[c].got \in Numbers
       /\ link[c].lost \subseteq Numbers
       /\ Len(link[c].buffer) <= ClientCapacity
       /\ Len(link[c].taken) <= 1
       /\ \A i \in DOMAIN link[c].buffer : IsFrame(link[c].buffer[i])
       /\ \A i \in DOMAIN link[c].taken : IsFrame(link[c].taken[i])
       /\ \A i \in DOMAIN link[c].wire : IsFrame(link[c].wire[i])

\* What is under way to the peer, oldest first.
UnderWay(l) == l.wire \o l.taken \o l.buffer

\* The number the peer has reached when it has read the first i frames.
Reached(l, i) == IF i = 0 THEN l.got ELSE UnderWay(l)[i].seq

\* From where the peer is, through every buffer, up to the latest event: the
\* frames of a connection follow each other in order and leave no event out but
\* those a heartbeat dropped.  Where the stream cannot go on it says so, and
\* nothing follows.  (Replay, absorption and overflow each keep this.)
StreamUnbroken ==
  \A c \in Connections :
    LET l == link[c]
        frames == UnderWay(l)
    IN /\ \A i \in DOMAIN frames :
            IF frames[i].type = "resync"
              THEN i = Len(frames)
              ELSE /\ frames[i].from > Reached(l, i - 1)
                   /\ (Reached(l, i - 1) + 1)..(frames[i].from - 1) \subseteq l.lost
       /\ l.phase = "open" /\ ~l.closed =>
            (Reached(l, Len(frames)) + 1)..sequence \subseteq l.lost

\* A full buffer never stalls a connection, and a closed one does not linger:
\* once nothing more is published (which MaxEvents brings about) a client that
\* is not closed has every event since it connected, or the body has ended.
HasAll(l) == (l.got + 1)..sequence \subseteq l.lost

EveryEventArrives ==
  \A c \in Connections :
    link[c].phase = "open"
      ~> (~link[c].closed /\ HasAll(link[c])) \/ link[c].phase # "open"

\* The part of EveryEventArrives that no scheduling is needed for.  A client
\* that lacks an event has a frame under way or a body about to end: there is
\* always a step of its own to take ...
ConnectionsAreServed ==
  \A c \in Connections :
    link[c].phase = "open" =>
      \/ ~link[c].closed /\ HasAll(link[c])
      \/ UnderWay(link[c]) # <<>>
      \/ Exhausted(link[c])

\* ... and each of them brings a frame nearer to the client or ends the stream,
\* and MaxEvents bounds how often Publish adds to the way that is left.
Distance(l) == 3 * Len(l.buffer) + 2 * Len(l.taken) + Len(l.wire)

FramesAdvance ==
  [][\A c \in Connections :
       Body(c) \/ Receive(c) =>
         link'[c].phase # "open" \/ Distance(link'[c]) < Distance(link[c])]_vars

\* What deltas bring is added up: bus.py says "Delta messages are additive", and so
\* the client shows them.  A frame that absorbed some should bring all their
\* text.  The code does not keep this: it joins by prefix and suffix.
Sent(frame, ch) ==
  LET events == SelectSeq(replay, LAMBDA e : e.seq \in frame.from..frame.seq)
  IN FlattenSeq([i \in DOMAIN events |-> events[i].text[ch]])

TextKept ==
  \A c \in Connections :
    \A i \in DOMAIN UnderWay(link[c]) :
      LET frame == UnderWay(link[c])[i]
      IN frame.type = "delta" /\ frame.from >= replay[1].seq =>
           \A ch \in Channels : frame.text[ch] = Sent(frame, ch)

\* routes/events.py promises "notifications with replay or an explicit bootstrap
\* requirement": no event of a connection is dropped without either.
NothingDropped ==
  \A c \in Connections : link[c].lost = {}
=============================================================================
