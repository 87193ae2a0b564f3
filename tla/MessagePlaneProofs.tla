------------------------- MODULE MessagePlaneProofs -------------------------
(***************************************************************************)
(* MessagePlane keeps its order, its sessions and its streams, whatever    *)
(* turns, sessions and commands there are.                                 *)
(***************************************************************************)
EXTENDS MessagePlane, SequenceTheorems, TLAPS

Stages  == {"new", "sent", "queued", "running", "ended", "stopped", "dropped"}
RecordSet == [kind : {"user", "final"}, turn : Turns, session : Sessions \cup {"own"}]

-----------------------------------------------------------------------------
\* Sequences.
LEMMA AppendFields ==
  ASSUME NEW S, NEW s \in Seq(S), NEW e \in S
  PROVE  /\ Append(s, e) \in Seq(S) /\ Len(Append(s, e)) = Len(s) + 1
         /\ \A i \in 1 .. Len(s) : Append(s, e)[i] = s[i]
         /\ Append(s, e)[Len(s) + 1] = e
OBVIOUS

LEMMA TailFields ==
  ASSUME NEW S, NEW s \in Seq(S), s # <<>>
  PROVE  /\ Tail(s) \in Seq(S) /\ Len(s) > 0 /\ Len(Tail(s)) = Len(s) - 1
         /\ \A i \in 1 .. Len(s) - 1 : Tail(s)[i] = s[i + 1]
         /\ Head(s) = s[1] /\ Head(s) \in S
OBVIOUS

\* The elements of t are different from each other, and all from s or e.
Distinct(s) == \A i, j \in 1 .. Len(s) : s[i] = s[j] => i = j
From(t, s, e) == \A i \in 1 .. Len(t) : t[i] = e \/ \E j \in 1 .. Len(s) : s[j] = t[i]

LEMMA RemovedAt ==
  ASSUME NEW S, NEW s \in Seq(S), NEW k \in 1 .. Len(s)
  PROVE  /\ RemoveAt(s, k) \in Seq(S) /\ Len(RemoveAt(s, k)) = Len(s) - 1
         /\ \A i \in 1 .. Len(s) - 1 :
              RemoveAt(s, k)[i] = IF i < k THEN s[i] ELSE s[i + 1]
<1> DEFINE a == SubSeq(s, 1, k - 1)
           b == SubSeq(s, k + 1, Len(s))
<1>1. a \in Seq(S) /\ Len(a) = k - 1 /\ \A i \in 1 .. k - 1 : a[i] = s[i]
  OBVIOUS
<1>2. b \in Seq(S) /\ Len(b) = Len(s) - k /\ \A i \in 1 .. Len(s) - k : b[i] = s[i + k]
  OBVIOUS
<1> HIDE DEF a, b
<1>3. /\ a \o b \in Seq(S) /\ Len(a \o b) = Len(a) + Len(b)
      /\ \A i \in 1 .. Len(a) + Len(b) :
           (a \o b)[i] = IF i <= Len(a) THEN a[i] ELSE b[i - Len(a)]
  BY <1>1, <1>2, ConcatProperties
<1> DEFINE c == a \o b
<1> HIDE DEF c
<1>4. /\ c \in Seq(S) /\ Len(c) = Len(s) - 1
      /\ \A i \in 1 .. Len(s) - 1 : c[i] = IF i < k THEN s[i] ELSE s[i + 1]
  <2>1. /\ c \in Seq(S) /\ Len(c) = Len(a) + Len(b)
        /\ \A i \in 1 .. Len(a) + Len(b) : c[i] = IF i <= Len(a) THEN a[i] ELSE b[i - Len(a)]
    BY <1>3 DEF c
  <2>2. ASSUME NEW i \in 1 .. Len(s) - 1 PROVE c[i] = IF i < k THEN s[i] ELSE s[i + 1]
    <3>0. i \in 1 .. Len(a) + Len(b) /\ k \in Nat /\ i \in Nat  BY <1>1, <1>2
    <3>a. c[i] = IF i <= Len(a) THEN a[i] ELSE b[i - Len(a)]  BY <2>1, <3>0
    <3>1. CASE i < k
      <4>1. i \in 1 .. k - 1 /\ i <= Len(a)  BY <1>1, <3>0, <3>1
      <4>2. a[i] = s[i]  BY <1>1, <4>1
      <4> QED BY <3>1, <3>a, <4>1, <4>2
    <3>2. CASE ~(i < k)
      <4>1. i - (k - 1) \in 1 .. Len(s) - k /\ i - (k - 1) + k = i + 1 /\ ~(i <= k - 1)
        BY <3>0, <3>2
      <4>2. b[i - (k - 1)] = s[i + 1]  BY <1>2, <4>1
      <4>3. c[i] = b[i - (k - 1)]  BY <1>1, <3>a, <4>1
      <4> QED BY <3>2, <4>2, <4>3
    <3> QED BY <3>1, <3>2
  <2> QED BY <1>1, <1>2, <2>1, <2>2
<1> QED BY <1>4 DEF RemoveAt, a, b, c

LEMMA WithoutSound ==
  ASSUME plane \in Seq(Turns), Distinct(plane), NEW t \in Turns
  PROVE  /\ Without(t) \in Seq(Turns) /\ Distinct(Without(t))
         /\ Len(Without(t)) = IF Waits(t) THEN Len(plane) - 1 ELSE Len(plane)
         /\ \A i \in 1 .. Len(Without(t)) :
              Without(t)[i] # t /\ \E j \in 1 .. Len(plane) : plane[j] = Without(t)[i]
<1>1. CASE ~Waits(t)
  BY <1>1 DEF Without, Waits
<1>2. CASE Waits(t)
  <2> DEFINE k == Position(t)
             s == RemoveAt(plane, k)
  <2>1. k \in 1 .. Len(plane) /\ plane[k] = t
    BY <1>2 DEF Waits, Position
  <2> HIDE DEF k
  <2>2. /\ s \in Seq(Turns) /\ Len(s) = Len(plane) - 1
        /\ \A i \in 1 .. Len(plane) - 1 : s[i] = IF i < k THEN plane[i] ELSE plane[i + 1]
    BY <2>1, RemovedAt
  <2> HIDE DEF s
  <2>3. Distinct(s)
    BY <2>1, <2>2 DEF Distinct
  <2>4. \A i \in 1 .. Len(s) : s[i] # t /\ \E j \in 1 .. Len(plane) : plane[j] = s[i]
    BY <2>1, <2>2 DEF Distinct
  <2>5. Without(t) = s
    BY <1>2 DEF Without, s, k
  <2> QED BY <1>2, <2>2, <2>3, <2>4, <2>5
<1> QED BY <1>1, <1>2

LEMMA JoinedSound ==
  ASSUME plane \in Seq(Turns), Distinct(plane), Len(plane) <= Capacity, NEW t \in Turns
  PROVE  /\ Joined(t) \in Seq(Turns) /\ Distinct(Joined(t)) /\ Len(Joined(t)) <= Capacity
         /\ From(Joined(t), plane, t)
<1>0. Capacity \in Nat \ {0}  BY PlaneAssumption
<1>1. CASE ~Waits(t) /\ Len(plane) >= Capacity
  <2> DEFINE r == Tail(plane)
  <2>1. plane # <<>>  BY <1>0, <1>1
  <2>2. /\ r \in Seq(Turns) /\ Len(r) = Len(plane) - 1
        /\ \A i \in 1 .. Len(plane) - 1 : r[i] = plane[i + 1]
    BY <2>1, TailFields
  <2> HIDE DEF r
  <2>3. \A i \in 1 .. Len(r) : r[i] # t
    BY <1>1, <2>2 DEF Waits
  <2> DEFINE s == Append(r, t)
  <2>4. /\ s \in Seq(Turns) /\ Len(s) = Len(r) + 1 /\ s[Len(r) + 1] = t
        /\ \A i \in 1 .. Len(r) : s[i] = r[i]
    BY <2>2, AppendFields
  <2>5. Joined(t) = s  BY <1>1 DEF Joined, r
  <2> HIDE DEF s
  <2>6. Distinct(s)  BY <2>2, <2>3, <2>4 DEF Distinct
  <2>7. From(s, plane, t)  BY <2>2, <2>4 DEF From
  <2> QED BY <1>0, <1>1, <2>2, <2>4, <2>5, <2>6, <2>7
<1>2. CASE Waits(t) \/ ~(Len(plane) >= Capacity)
  <2> DEFINE r == Without(t)
             s == Append(r, t)
  <2>1. /\ r \in Seq(Turns) /\ Distinct(r)
        /\ Len(r) = IF Waits(t) THEN Len(plane) - 1 ELSE Len(plane)
        /\ \A i \in 1 .. Len(r) : r[i] # t /\ \E j \in 1 .. Len(plane) : plane[j] = r[i]
    BY WithoutSound
  <2>2. Joined(t) = s  BY <1>2 DEF Joined
  <2> HIDE DEF r
  <2>3. /\ s \in Seq(Turns) /\ Len(s) = Len(r) + 1 /\ s[Len(r) + 1] = t
        /\ \A i \in 1 .. Len(r) : s[i] = r[i]
    BY <2>1, AppendFields
  <2> HIDE DEF s
  <2>a. /\ Len(r) \in Nat /\ \A i \in 1 .. Len(r) : r[i] # t
        /\ \A i \in 1 .. Len(r) : \E j \in 1 .. Len(plane) : plane[j] = r[i]
    BY <2>1
  <2>4. Distinct(s)
    <3> SUFFICES ASSUME NEW i \in 1 .. Len(s), NEW j \in 1 .. Len(s), s[i] = s[j]
                 PROVE  i = j
      BY DEF Distinct
    <3>1. CASE i \in 1 .. Len(r) /\ j \in 1 .. Len(r)
      BY <2>1, <2>3, <3>1 DEF Distinct
    <3>2. CASE i = Len(r) + 1 \/ j = Len(r) + 1
      BY <2>a, <2>3, <3>2
    <3> QED BY <2>a, <2>3, <3>1, <3>2
  <2>5. From(s, plane, t)
    <3> SUFFICES ASSUME NEW i \in 1 .. Len(s), s[i] # t
                 PROVE  \E j \in 1 .. Len(plane) : plane[j] = s[i]
      BY DEF From
    <3>1. i \in 1 .. Len(r)  BY <2>a, <2>3
    <3> QED BY <2>a, <2>3, <3>1
  <2>6. Len(s) <= Capacity  BY <1>0, <1>2, <2>1, <2>3
  <2> QED BY <2>2, <2>3, <2>4, <2>5, <2>6
<1> QED BY <1>1, <1>2

-----------------------------------------------------------------------------
\* Messages and requests.
LEMMA MessageFields ==
  /\ \A m \in Messages : m.kind \in {"user", "final", "pieces"} /\ m.turn \in Turns
                         /\ m = Message(m.kind, m.turn) /\ m # Idle
  /\ \A t \in Turns, k \in {"user", "final", "pieces"} :
       Message(k, t) \in Messages /\ Message(k, t).kind = k /\ Message(k, t).turn = t
BY DEF Messages, Message, Idle

LEMMA RequestFields ==
  /\ \A w \in Workers : Request(w) \in Requests /\ Request(w).kind = w
  /\ \A c \in Commands : c \in Requests /\ c.kind \notin Workers
  /\ \A r \in Requests : r.kind \in Workers => r = Request(r.kind)
  /\ \A r \in Requests : r.kind \notin Workers => r \in Commands
  /\ \A c \in Commands : c.kind \in {"send", "switch", "quiesce", "release", "shutdown"}
                         /\ (c.kind = "send" => c.turn \in Turns)
BY DEF Requests, Commands, Request, Workers

LEMMA TurnFields ==
  /\ Turns \subseteq Nat /\ Chat \subseteq Turns /\ Typed \subseteq Turns
  /\ \A t \in Turns : (t \in Chat) # (t \in Typed)
  /\ "own" \notin Sessions /\ "none" \notin Sessions
BY PlaneAssumption DEF Turns

LEMMA InitSound == Init => PlaneInv
<1> SUFFICES ASSUME Init PROVE PlaneInv
  OBVIOUS
<1>1. TypeOK
  <2>1. (CHOOSE s \in Sessions : TRUE) \in Sessions  BY PlaneAssumption
  <2>2. Capacity \in Nat /\ MaxPieces \in Nat /\ MaxCommands \in Nat  BY PlaneAssumption
  <2>3. /\ queue \in Seq(Messages) /\ published \in Seq(Messages) /\ plane \in Seq(Turns)
        /\ Len(plane) <= Capacity /\ line \in Seq(Requests) /\ records \in Seq(RecordSet)
    BY <2>2 DEF Init
  <2>4. hand \in [Workers -> Messages \cup {Idle}] /\ streams \subseteq Keys
        /\ bound \in [Turns -> Sessions \cup {"own", "none"}]
        /\ stage \in [Turns -> Stages]
    BY DEF Init, Stages
  <2>5. /\ held \in BOOLEAN /\ current \in Sessions /\ made \in 0 .. MaxPieces
        /\ quiesced \in BOOLEAN /\ mode \in {"open", "draining", "stopped", "closed"}
        /\ commands \in 0 .. MaxCommands
    <3>1. current \in Sessions
      BY <2>1, Zenon DEF Init
    <3>2. /\ held = FALSE /\ made = 0 /\ quiesced = FALSE /\ mode = "open" /\ commands = 0
      BY Zenon DEF Init
    <3>3. made \in 0 .. MaxPieces /\ commands \in 0 .. MaxCommands
      BY <2>2, <3>2
    <3>4. held \in BOOLEAN /\ quiesced \in BOOLEAN
          /\ mode \in {"open", "draining", "stopped", "closed"}
      BY <3>2, Zenon
    <3> QED BY <3>1, <3>3, <3>4
  <2> QED BY <2>3, <2>4, <2>5 DEF TypeOK, RecordSet, Stages
<1>2. InHand = 0  BY DEF Init, InHand, Workers
<1>3. FlowSound /\ TurnsSound /\ ModeSound
  BY <1>2 DEF Init, FlowSound, TurnsSound, ModeSound, NothingActive, Active, IsPublished
<1>3a. /\ Len(records) = 0 /\ Len(line) = 0 /\ Len(plane) = 0 /\ streams = {}
       /\ \A w \in Workers : hand[w] = Idle
       /\ \A t \in Turns : bound[t] = "none"
  BY DEF Init
<1>4. SessionsSound
  BY <1>3a, TurnFields DEF SessionsSound, OneSession
<1>5. LineSound
  BY <1>3a DEF LineSound, Workers
<1>5a. CommandsSound
  BY <1>3a DEF CommandsSound
<1>6. StreamsSound
  BY <1>3a DEF StreamsSound, StreamsEnd, Waits, Workers, Idle, Message
<1> QED BY <1>1, <1>3, <1>4, <1>5, <1>5a, <1>6 DEF PlaneInv

-----------------------------------------------------------------------------
\* A message that a switch dropped does not come back.
StillDropped == \A u \in Turns : stage[u] = "dropped" => stage'[u] = "dropped"

\* What a write does: it records message m, the next one to be recorded.
Next1(m) == Len(records) < Len(published) /\ m = published[Len(records) + 1]

Recording(m) ==
  /\ records' \in Seq(RecordSet) /\ Len(records') = Len(records) + 1
  /\ Same(records'[Len(records) + 1], m)
  /\ \A i \in 1 .. Len(records) : records'[i] = records[i]
  /\ \A t \in Turns : Recorded(t)' <=> Recorded(t) \/ m = Message("final", t)
  /\ streams' \subseteq Keys /\ bound' \in [Turns -> Sessions \cup {"own", "none"}]
  /\ SessionsSound' /\ \A t \in Typed : StreamsEnd(t) => StreamsEnd(t)'

LEMMA SessionOfTyped ==
  ASSUME TypeOK, NEW t \in Turns
  PROVE  /\ SessionOf(t) \in Sessions \cup {"own"}
         /\ t \in Chat => SessionOf(t) \in Sessions
         /\ t \in Typed => SessionOf(t) = "own"
BY TurnFields DEF SessionOf, TypeOK

\* Adding a record e of message m.
LEMMA RecordAdded ==
  ASSUME TypeOK, NEW e \in RecordSet, NEW m \in Messages, Same(e, m),
         records' = Append(records, e)
  PROVE  /\ records' \in Seq(RecordSet) /\ Len(records') = Len(records) + 1
         /\ Len(records) \in Nat /\ records'[Len(records) + 1] = e
         /\ \A i \in 1 .. Len(records) : records'[i] = records[i] /\ records[i] \in RecordSet
         /\ \A t \in Turns : Recorded(t)' <=> Recorded(t) \/ m = Message("final", t)
<1>1. records \in Seq(RecordSet)  BY DEF TypeOK, RecordSet
<1>2. /\ records' \in Seq(RecordSet) /\ Len(records') = Len(records) + 1
      /\ Len(records) \in Nat /\ records'[Len(records) + 1] = e
      /\ \A i \in 1 .. Len(records) : records'[i] = records[i] /\ records[i] \in RecordSet
  BY <1>1, AppendFields
<1>3. ASSUME NEW t \in Turns
      PROVE  Recorded(t)' <=> Recorded(t) \/ m = Message("final", t)
  <2>1. (e.kind = "final" /\ e.turn = t) <=> m = Message("final", t)
    BY MessageFields DEF Same
  <2> QED BY <1>2, <2>1 DEF Recorded
<1> QED BY <1>2, <1>3

\* No record of a turn comes before its message, and its reply comes after it.
LEMMA TurnOrder ==
  ASSUME PlaneInv, NEW m \in Messages, Next1(m)
  PROVE  /\ m.kind \in {"user", "final"}
         /\ m.kind = "user" => \A i \in 1 .. Len(records) : records[i].turn # m.turn
         /\ m.kind = "final" =>
              /\ ~Recorded(m.turn)
              /\ \E i \in 1 .. Len(records) : records[i].kind = "user" /\ records[i].turn = m.turn
<1> DEFINE n == Len(records)
           t == m.turn
<1>1. /\ records \in Seq(RecordSet) /\ n \in Nat /\ published \in Seq(Messages)
      /\ Len(published) \in Nat /\ n + 1 \in 1 .. Len(published) /\ t \in Turns
  BY MessageFields DEF PlaneInv, TypeOK, RecordSet, Next1
<1>2. \A i \in 1 .. n : /\ i \in 1 .. Len(published) /\ Same(records[i], published[i])
                        /\ records[i] \in RecordSet
  BY <1>1 DEF PlaneInv, FlowSound
<1>3. m.kind \in {"user", "final"}
  BY <1>1 DEF PlaneInv, TurnsSound, Next1
<1>4. m = Message(m.kind, t) /\ m = published[n + 1]
  BY MessageFields DEF Next1
<1>5. \A i \in 1 .. n : published[i] = Message(records[i].kind, records[i].turn)
                        /\ records[i].kind \in {"user", "final"}
  <2> TAKE i \in 1 .. n
  <2>1. published[i] \in Messages  BY <1>1, <1>2
  <2> QED BY <1>2, <2>1, MessageFields DEF Same, RecordSet
<1> HIDE DEF n, t
<1>6. ASSUME m.kind = "user", NEW i \in 1 .. n, records[i].turn = t PROVE FALSE
  <2>1. i \in 1 .. Len(published) /\ i # n + 1 /\ ~(n + 1 < i)  BY <1>1, <1>2, <1>6
  <2>2. published[n + 1] = Message("user", t)  BY <1>4, <1>6
  <2>3. published[i] = Message("user", t) \/ published[i] = Message("final", t)
    BY <1>5, <1>6
  <2> QED BY <1>1, <2>1, <2>2, <2>3 DEF PlaneInv, TurnsSound
<1>7. ASSUME m.kind = "final" PROVE ~Recorded(t)
  <2> SUFFICES ASSUME Recorded(t) PROVE FALSE
    OBVIOUS
  <2>1. PICK i \in 1 .. n : records[i].kind = "final" /\ records[i].turn = t
    BY DEF Recorded, n
  <2>2. published[i] = published[n + 1]  BY <1>4, <1>5, <1>7, <2>1
  <2>3. i \in 1 .. Len(published) /\ i # n + 1  BY <1>1, <1>2
  <2> QED BY <1>1, <2>2, <2>3 DEF PlaneInv, TurnsSound
<1>8. ASSUME m.kind = "final"
      PROVE  \E i \in 1 .. n : records[i].kind = "user" /\ records[i].turn = t
  <2>1. IsPublished(Message("final", t))  BY <1>1, <1>4, <1>8 DEF IsPublished
  <2>2. IsPublished(Message("user", t))
    BY <1>1, <2>1 DEF PlaneInv, TurnsSound
  <2>3. PICK i \in 1 .. Len(published) : published[i] = Message("user", t)
    BY <2>2 DEF IsPublished
  <2>4. i < n + 1
    BY <1>1, <1>4, <1>8, <2>3 DEF PlaneInv, TurnsSound
  <2>5. i \in 1 .. n  BY <1>1, <2>4
  <2>6. records[i].kind = "user" /\ records[i].turn = t
    BY <1>1, <1>2, <2>3, <2>5, MessageFields DEF Same
  <2> QED BY <2>5, <2>6
<1> QED BY <1>3, <1>6, <1>7, <1>8 DEF n, t

LEMMA WriteUser ==
  ASSUME PlaneInv, NEW m \in Messages, Next1(m), ~quiesced, m.kind = "user", Write(m),
         StillDropped
  PROVE  Recording(m)
<1> DEFINE n == Len(records)
           t == m.turn
           e == [kind |-> m.kind, turn |-> m.turn, session |-> SessionOf(t)]
<1>1. /\ bound' = [bound EXCEPT ![t] = SessionOf(t)] /\ records' = Append(records, e)
      /\ streams' = streams
  BY DEF Write, Refused, Record
<1>2. t \in Turns /\ SessionOf(t) \in Sessions \cup {"own"} /\ TypeOK
      /\ (t \in Chat => SessionOf(t) \in Sessions) /\ (t \in Typed => SessionOf(t) = "own")
  BY MessageFields, SessionOfTyped DEF PlaneInv
<1>3. e \in RecordSet /\ Same(e, m) /\ e.session = SessionOf(t) /\ e.turn = t
  BY <1>2 DEF RecordSet, Same
<1>4. /\ records' \in Seq(RecordSet) /\ Len(records') = n + 1
      /\ n \in Nat /\ records'[n + 1] = e
      /\ \A i \in 1 .. n : records'[i] = records[i] /\ records[i] \in RecordSet
      /\ \A u \in Turns : Recorded(u)' <=> Recorded(u) \/ m = Message("final", u)
  BY <1>1, <1>2, <1>3, RecordAdded
<1>5. \A u \in Turns : Recorded(u)' <=> Recorded(u)
  BY <1>4, MessageFields
<1>6. \A i \in 1 .. n : records[i].turn # t /\ records[i].turn \in Turns
  BY <1>4, TurnOrder DEF RecordSet
<1>7. bound' \in [Turns -> Sessions \cup {"own", "none"}]
      /\ bound'[t] = SessionOf(t) /\ \A u \in Turns \ {t} : bound'[u] = bound[u]
  BY <1>1, <1>2 DEF TypeOK
<1> HIDE DEF e, n, t
<1>8. OneSession'
  <2> SUFFICES ASSUME NEW i \in 1 .. n + 1, NEW j \in 1 .. n + 1,
                      records'[i].turn = records'[j].turn
               PROVE  records'[i].session = records'[j].session
    BY <1>4 DEF OneSession
  <2>1. CASE i \in 1 .. n /\ j \in 1 .. n
    BY <1>4, <2>1 DEF PlaneInv, SessionsSound, OneSession, n
  <2>2. CASE i = n + 1 \/ j = n + 1
    BY <1>3, <1>4, <1>6, <2>2
  <2> QED BY <1>4, <2>1, <2>2
<1>9. SessionsSound'
  <2>1. \A i \in 1 .. n + 1, u \in Turns :
          records'[i].kind = "user" /\ records'[i].turn = u /\ ~Recorded(u)'
            /\ stage'[u] # "dropped" => bound'[u] = records'[i].session
    <3> TAKE i \in 1 .. n + 1, u \in Turns
    <3>1. CASE i = n + 1  BY <1>3, <1>4, <1>7, <3>1
    <3>2. CASE i \in 1 .. n
      <4>1. records'[i] = records[i] /\ records[i].turn \in Turns \ {t}  BY <1>4, <1>6, <3>2
      <4>2. records[i].kind = "user" /\ records[i].turn = u /\ ~Recorded(u)
              /\ stage[u] # "dropped" => bound[u] = records[i].session
        BY <3>2 DEF PlaneInv, SessionsSound, n
      <4> QED BY <1>5, <1>7, <4>1, <4>2 DEF StillDropped
    <3> QED BY <1>4, <3>1, <3>2
  <2>2. /\ \A u \in Typed : bound'[u] \in {"own", "none"}
        /\ \A u \in Chat : bound'[u] \in Sessions \cup {"none"}
    BY <1>2, <1>7, TurnFields DEF PlaneInv, SessionsSound
  <2>3. \A k \in streams' : k[2] \in Typed => k[1] = "own"
    BY <1>1 DEF PlaneInv, SessionsSound
  <2> QED BY <1>4, <1>8, <2>1, <2>2, <2>3 DEF SessionsSound
<1>10. \A u \in Typed : StreamsEnd(u) => StreamsEnd(u)'
  BY <1>1, <1>5, TurnFields DEF StreamsEnd
<1>11. streams' \subseteq Keys  BY <1>1, <1>2 DEF TypeOK
<1>12. Same(records'[n + 1], m)  BY <1>3, <1>4
<1> QED BY <1>4, <1>7, <1>9, <1>10, <1>11, <1>12 DEF Recording, n

LEMMA WriteFinal ==
  ASSUME PlaneInv, NEW m \in Messages, Next1(m), ~quiesced, m.kind = "final", Write(m),
         StillDropped
  PROVE  Recording(m)
<1> DEFINE n == Len(records)
           t == m.turn
           e == [kind |-> m.kind, turn |-> m.turn, session |-> KeyOf(t)[1]]
<1>1. /\ bound' = [bound EXCEPT ![t] = "none"] /\ records' = Append(records, e)
      /\ streams' = streams \ {KeyOf(t)}
  BY DEF Write, Refused, Record
<1>2. t \in Turns /\ TypeOK /\ m = Message("final", t)
  BY MessageFields DEF PlaneInv
<1>3. records \in Seq(RecordSet) /\ n \in Nat
  BY <1>2 DEF TypeOK, RecordSet
<1>4. PICK p \in 1 .. n : records[p].kind = "user" /\ records[p].turn = t
  BY TurnOrder
<1>5. records[p].session \in Sessions \cup {"own"} /\ ~Recorded(t)
  <2>1. records[p] \in RecordSet  BY <1>3, <1>4
  <2>2. ~Recorded(t)  BY TurnOrder
  <2> QED BY <2>1, <2>2 DEF RecordSet
<1>6. bound[t] = records[p].session
  <2>1. IsPublished(Message("final", t))
    BY <1>2, <1>3 DEF Next1, IsPublished, PlaneInv, TypeOK
  <2>2. stage[t] = "ended"  BY <1>2, <2>1 DEF PlaneInv, TurnsSound
  <2> QED BY <1>2, <1>4, <1>5, <2>2 DEF PlaneInv, SessionsSound
<1>7. KeyOf(t) = <<bound[t], t>> /\ bound[t] # "none"
  BY <1>5, <1>6, TurnFields DEF KeyOf
<1>8. e \in RecordSet /\ Same(e, m) /\ e.session = records[p].session /\ e.turn = t
      /\ e.kind = "final"
  BY <1>2, <1>5, <1>6, <1>7 DEF RecordSet, Same
<1>9. /\ records' \in Seq(RecordSet) /\ Len(records') = n + 1 /\ records'[n + 1] = e
      /\ \A i \in 1 .. n : records'[i] = records[i] /\ records[i] \in RecordSet
      /\ \A u \in Turns : Recorded(u)' <=> Recorded(u) \/ m = Message("final", u)
  BY <1>1, <1>2, <1>8, RecordAdded
<1>10. \A u \in Turns : Recorded(u)' <=> Recorded(u) \/ u = t
  BY <1>2, <1>9, MessageFields
<1>11. bound' \in [Turns -> Sessions \cup {"own", "none"}]
       /\ bound'[t] = "none" /\ \A u \in Turns \ {t} : bound'[u] = bound[u]
  BY <1>1, <1>2 DEF TypeOK
<1> HIDE DEF e, n, t
<1>12. OneSession'
  <2> SUFFICES ASSUME NEW i \in 1 .. n + 1, NEW j \in 1 .. n + 1,
                      records'[i].turn = records'[j].turn
               PROVE  records'[i].session = records'[j].session
    BY <1>9 DEF OneSession
  <2> DEFINE q(x) == IF x = n + 1 THEN p ELSE x
  <2>1. \A x \in 1 .. n + 1 : /\ q(x) \in 1 .. n /\ records'[x].turn = records[q(x)].turn
                              /\ records'[x].session = records[q(x)].session
    BY <1>3, <1>4, <1>8, <1>9
  <2>2. \A x, y \in 1 .. n : records[x].turn = records[y].turn
                               => records[x].session = records[y].session
    BY DEF PlaneInv, SessionsSound, OneSession, n
  <2> HIDE DEF q
  <2> QED BY <2>1, <2>2
<1>13. SessionsSound'
  <2>1. \A i \in 1 .. n + 1, u \in Turns :
          records'[i].kind = "user" /\ records'[i].turn = u /\ ~Recorded(u)'
            /\ stage'[u] # "dropped" => bound'[u] = records'[i].session
    <3> TAKE i \in 1 .. n + 1, u \in Turns
    <3>1. CASE i = n + 1  BY <1>8, <1>9, <3>1
    <3>2. CASE i \in 1 .. n
      <4>1. records'[i] = records[i]
        BY <1>9, <3>2
      <4>2. records[i].kind = "user" /\ records[i].turn = u /\ ~Recorded(u)
              /\ stage[u] # "dropped" => bound[u] = records[i].session
        BY <3>2 DEF PlaneInv, SessionsSound, n
      <4> QED BY <1>10, <1>11, <4>1, <4>2 DEF StillDropped
    <3> QED BY <1>3, <3>1, <3>2
  <2>2. /\ \A u \in Typed : bound'[u] \in {"own", "none"}
        /\ \A u \in Chat : bound'[u] \in Sessions \cup {"none"}
    BY <1>2, <1>11, TurnFields DEF PlaneInv, SessionsSound
  <2>3. \A k \in streams' : k[2] \in Typed => k[1] = "own"
    BY <1>1 DEF PlaneInv, SessionsSound
  <2> QED BY <1>9, <1>12, <2>1, <2>2, <2>3 DEF SessionsSound
<1>14. ASSUME NEW u \in Typed, StreamsEnd(u) PROVE StreamsEnd(u)'
  <2>1. CASE u # t
    <3>1. u \in Turns /\ (Recorded(u)' <=> Recorded(u))  BY <1>10, <2>1, TurnFields
    <3>2. \A k \in streams' : k \in streams  BY <1>1
    <3> QED BY <1>14, <3>1, <3>2 DEF StreamsEnd
  <2>2. CASE u = t
    <3>0. t \in Typed  BY <2>2
    <3>1. bound[t] = "own" /\ KeyOf(t) = <<"own", t>>
      BY <1>7, <3>0 DEF PlaneInv, SessionsSound
    <3>2. \A k \in streams : k[2] = t => k = <<"own", t>>
      BY <1>2, <3>0 DEF PlaneInv, SessionsSound, TypeOK, Keys
    <3> QED BY <1>1, <2>2, <3>1, <3>2 DEF StreamsEnd
  <2> QED BY <2>1, <2>2
<1>15. streams' \subseteq Keys  BY <1>1, <1>2 DEF TypeOK
<1>16. Same(records'[n + 1], m)  BY <1>8, <1>9
<1> QED BY <1>9, <1>11, <1>13, <1>14, <1>15, <1>16 DEF Recording, n

LEMMA WriteMain ==
  ASSUME PlaneInv, NEW m \in Messages, Next1(m), ~quiesced, Write(m), StillDropped
  PROVE  Recording(m)
BY TurnOrder, WriteUser, WriteFinal

\* A piece of turn t is written.
LEMMA WritePieces ==
  ASSUME PlaneInv, NEW t \in Turns, Write(Message("pieces", t)), t \in Typed => ~Recorded(t),
         StillDropped
  PROVE  /\ UNCHANGED <<bound, records>> /\ streams' \subseteq Keys /\ SessionsSound'
         /\ \A u \in Typed : StreamsEnd(u) => StreamsEnd(u)'
<1>1. Message("pieces", t).kind = "pieces" /\ Message("pieces", t).turn = t /\ TypeOK
  BY MessageFields DEF PlaneInv
<1>2. UNCHANGED <<bound, records>> /\ (streams' = streams \/ streams' = streams \cup {KeyOf(t)})
  BY <1>1 DEF Write, storeVars
<1>3. KeyOf(t)[2] = t /\ KeyOf(t) \in Keys /\ (t \in Typed => KeyOf(t)[1] = "own")
  <2>1. bound[t] \in Sessions \cup {"own", "none"} /\ (t \in Typed => bound[t] \in {"own", "none"})
        /\ (t \in Typed => SessionOf(t) = "own") /\ SessionOf(t) \in Sessions \cup {"own"}
    BY <1>1, SessionOfTyped DEF TypeOK, PlaneInv, SessionsSound
  <2> QED BY <2>1 DEF KeyOf, Keys
<1>4. streams' \subseteq Keys  BY <1>1, <1>2, <1>3 DEF TypeOK
<1>5. SessionsSound'
  <2>1. \A i \in 1 .. Len(records'), u \in Turns :
          records'[i].kind = "user" /\ records'[i].turn = u /\ ~Recorded(u)'
            /\ stage'[u] # "dropped" => bound'[u] = records'[i].session
    BY <1>2 DEF PlaneInv, SessionsSound, Recorded, StillDropped
  <2> QED BY <1>2, <1>3, <2>1 DEF PlaneInv, SessionsSound, OneSession
<1>6. \A u \in Typed : StreamsEnd(u) => StreamsEnd(u)'
  BY <1>2, <1>3 DEF StreamsEnd, Recorded
<1> QED BY <1>2, <1>4, <1>5, <1>6

-----------------------------------------------------------------------------
\* The line for the lock.
LEMMA LineTyped ==
  ASSUME TypeOK
  PROVE  /\ line \in Seq(Requests) /\ Len(line) \in Nat
         /\ \A i \in 1 .. Len(line) : line[i] \in Requests
         /\ hand \in [Workers -> Messages \cup {Idle}]
BY DEF TypeOK

\* A worker whose hands were empty takes message m and waits.
LEMMA WorkerWaits ==
  ASSUME PlaneInv, NEW w \in Workers, NEW m \in Messages, hand[w] = Idle,
         w = "stream" => m.kind = "pieces",
         hand' = [hand EXCEPT ![w] = m], line' = Append(line, Request(w)),
         \A t \in Turns : stage[t] = "new" => stage'[t] = "new"
  PROVE  /\ line' \in Seq(Requests) /\ hand' \in [Workers -> Messages \cup {Idle}]
         /\ LineSound' /\ CommandsSound' /\ (w = "main" => StreamFirst')
<1>1. /\ line \in Seq(Requests) /\ Request(w) \in Requests /\ Request(w).kind = w
      /\ hand \in [Workers -> Messages \cup {Idle}] /\ m # Idle /\ w \in {"main", "stream"}
  BY LineTyped, RequestFields, MessageFields DEF PlaneInv, Workers
<1> DEFINE n == Len(line)
<1>2. /\ line' \in Seq(Requests) /\ Len(line') = n + 1 /\ n \in Nat /\ line'[n + 1].kind = w
      /\ \A i \in 1 .. n : line'[i] = line[i] /\ line[i] \in Requests
  BY <1>1, AppendFields
<1>3. /\ hand' \in [Workers -> Messages \cup {Idle}] /\ hand'[w] = m
      /\ \A v \in Workers \ {w} : hand'[v] = hand[v]
  BY <1>1
<1>4. \A i \in 1 .. n : ~Stands(w, i)
  BY DEF PlaneInv, LineSound
<1> HIDE DEF n
<1>5. \A v \in Workers, i \in 1 .. n + 1 :
        Stands(v, i)' <=> (i \in 1 .. n /\ Stands(v, i)) \/ (i = n + 1 /\ v = w)
  BY <1>2 DEF Stands
<1>6. \A v \in Workers : /\ hand[v] # Idle <=> \E i \in 1 .. n : Stands(v, i)
                         /\ \A i, j \in 1 .. n : Stands(v, i) /\ Stands(v, j) => i = j
  BY DEF PlaneInv, LineSound, n
<1>7. LineSound'
  <2>1. hand'["stream"] # Idle => hand'["stream"].kind = "pieces"
    BY <1>1, <1>3 DEF PlaneInv, LineSound, Workers
  <2>2. ASSUME NEW v \in Workers
        PROVE  /\ hand'[v] # Idle <=> \E i \in 1 .. n + 1 : Stands(v, i)'
               /\ \A i, j \in 1 .. n + 1 : Stands(v, i)' /\ Stands(v, j)' => i = j
    <3>1. CASE v = w  BY <1>1, <1>2, <1>3, <1>4, <1>5, <3>1
    <3>2. CASE v # w
      <4>1. hand'[v] = hand[v] /\ n \in Nat  BY <1>2, <1>3, <3>2
      <4>2. \A i \in 1 .. n + 1 : Stands(v, i)' <=> i \in 1 .. n /\ Stands(v, i)
        BY <1>5, <3>2
      <4> QED BY <1>6, <4>1, <4>2
    <3> QED BY <3>1, <3>2
  <2> QED BY <1>2, <2>1, <2>2 DEF LineSound
<1>8. CommandsSound'
  <2>1. \A i \in 1 .. n : i \in 1 .. Len(line)  BY DEF n
  <2>2. \A i \in 1 .. n + 1 : line'[i].kind \notin Workers \/ line'[i].kind = "send"
          => i \in 1 .. n /\ line'[i] = line[i]
    BY <1>1, <1>2
  <2>3. \A i \in 1 .. n : line[i].kind = "send" => line[i].turn \in Turns
    BY <1>2, RequestFields DEF Workers
  <2> QED BY <1>2, <2>1, <2>2, <2>3 DEF PlaneInv, CommandsSound
<1>9. w = "main" => StreamFirst'
  <2> SUFFICES ASSUME w = "main", NEW i \in 1 .. n + 1, NEW j \in 1 .. n + 1,
                      Stands("stream", i)', Stands("main", j)'
               PROVE  i < j
    BY <1>2 DEF StreamFirst
  <2>1. j = n + 1 /\ i \in 1 .. n
    BY <1>4, <1>5 DEF Workers
  <2> QED BY <1>2, <2>1
<1> QED BY <1>2, <1>3, <1>7, <1>8, <1>9

\* A command waits behind workers only.
LEMMA CommandWaits ==
  ASSUME PlaneInv, NEW c \in Commands, line' = Append(line, c), UNCHANGED <<hand, stage>>,
         \A i \in 1 .. Len(line) : line[i].kind \in Workers,
         c.kind = "send" => stage[c.turn] = "new"
  PROVE  /\ line' \in Seq(Requests) /\ LineSound' /\ CommandsSound'
         /\ StreamFirst => StreamFirst'
<1>1. line \in Seq(Requests) /\ c \in Requests /\ c.kind \notin Workers
  BY LineTyped, RequestFields DEF PlaneInv
<1> DEFINE n == Len(line)
<1>2. /\ line' \in Seq(Requests) /\ Len(line') = n + 1 /\ n \in Nat /\ line'[n + 1] = c
      /\ \A i \in 1 .. n : line'[i] = line[i] /\ line[i] \in Requests
  BY <1>1, AppendFields
<1>3. \A i \in 1 .. n : line[i].kind \in Workers /\ line[i].kind # "send"
  BY DEF Workers
<1>4. \A w \in Workers : /\ hand[w] # Idle <=> \E i \in 1 .. n : Stands(w, i)
                         /\ \A i, j \in 1 .. n : Stands(w, i) /\ Stands(w, j) => i = j
  BY DEF PlaneInv, LineSound
<1>5. StreamFirst <=> \A i, j \in 1 .. n : Stands("stream", i) /\ Stands("main", j) => i < j
  BY DEF StreamFirst
<1> HIDE DEF n
<1>6. \A w \in Workers, i \in 1 .. n + 1 : Stands(w, i)' <=> i \in 1 .. n /\ Stands(w, i)
  BY <1>1, <1>2 DEF Stands
<1>7. LineSound'
  <2>1. ASSUME NEW w \in Workers
        PROVE  /\ hand'[w] # Idle <=> \E i \in 1 .. n + 1 : Stands(w, i)'
               /\ \A i, j \in 1 .. n + 1 : Stands(w, i)' /\ Stands(w, j)' => i = j
    BY <1>2, <1>4, <1>6
  <2> QED BY <1>2, <2>1 DEF LineSound, PlaneInv
<1>8. CommandsSound'
  BY <1>2, <1>3 DEF CommandsSound
<1>9. StreamFirst => StreamFirst'
  BY <1>2, <1>5, <1>6 DEF StreamFirst, Workers
<1> QED BY <1>2, <1>7, <1>8, <1>9

\* The first of the line leaves it; a worker's hands are empty then.
LEMMA FirstLeaves ==
  ASSUME PlaneInv, line # <<>>, line' = Tail(line),
         \A t \in Turns : stage[t] = "new" => stage'[t] = "new" \/ line[1].kind = "send",
         hand' = [w \in Workers |-> IF w = line[1].kind THEN Idle ELSE hand[w]]
  PROVE  /\ line' \in Seq(Requests) /\ hand' \in [Workers -> Messages \cup {Idle}]
         /\ line[1] \in Requests /\ Head(line) = line[1]
         /\ LineSound' /\ CommandsSound'
         /\ StreamFirst => StreamFirst'
         /\ line[1].kind \in Workers => hand[line[1].kind] # Idle
         /\ line[1].kind = "main" /\ StreamFirst => hand["stream"] = Idle
<1>1. line \in Seq(Requests) /\ hand \in [Workers -> Messages \cup {Idle}]
  BY LineTyped DEF PlaneInv
<1> DEFINE n == Len(line) - 1
<1>2. /\ line' \in Seq(Requests) /\ n \in Nat /\ Len(line') = n /\ Len(line) = n + 1
      /\ \A i \in 1 .. n : line'[i] = line[i + 1]
      /\ \A i \in 1 .. n + 1 : line[i] \in Requests
      /\ Head(line) = line[1]
  BY <1>1, TailFields
<1> HIDE DEF n
<1>3. \A w \in Workers : /\ hand[w] # Idle <=> \E i \in 1 .. n + 1 : Stands(w, i)
                         /\ \A i, j \in 1 .. n + 1 : Stands(w, i) /\ Stands(w, j) => i = j
  BY <1>2 DEF PlaneInv, LineSound
<1>4. \A w \in Workers, i \in 1 .. n : Stands(w, i)' <=> Stands(w, i + 1)
  BY <1>2 DEF Stands
<1>5. \A w \in Workers : Stands(w, 1) <=> line[1].kind = w
  BY DEF Stands
<1>6. LineSound'
  <2>1. ASSUME NEW w \in Workers
        PROVE  /\ hand'[w] # Idle <=> \E i \in 1 .. n : Stands(w, i)'
               /\ \A i, j \in 1 .. n : Stands(w, i)' /\ Stands(w, j)' => i = j
    <3>1. \A i, j \in 1 .. n : Stands(w, i)' /\ Stands(w, j)' => i = j
      <4> SUFFICES ASSUME NEW i \in 1 .. n, NEW j \in 1 .. n, Stands(w, i)', Stands(w, j)'
                   PROVE  i = j
        OBVIOUS
      <4>1. Stands(w, i + 1) /\ Stands(w, j + 1)  BY <1>4
      <4>2. i + 1 \in 1 .. n + 1 /\ j + 1 \in 1 .. n + 1  BY <1>2
      <4>3. i + 1 = j + 1  BY <1>3, <4>1, <4>2
      <4> QED BY <4>3
    <3>2. CASE line[1].kind = w
      <4>1. \A i \in 1 .. n : ~Stands(w, i + 1)
        <5> SUFFICES ASSUME NEW i \in 1 .. n, Stands(w, i + 1) PROVE FALSE
          OBVIOUS
        <5>1. i + 1 \in 1 .. n + 1 /\ 1 \in 1 .. n + 1 /\ i + 1 # 1  BY <1>2
        <5> QED BY <1>3, <1>5, <3>2, <5>1
      <4>2. hand'[w] = Idle  BY <3>2
      <4> QED BY <1>4, <3>1, <4>1, <4>2
    <3>3. CASE line[1].kind # w
      <4>1. hand'[w] = hand[w]  BY <3>3
      <4>2. (\E i \in 1 .. n + 1 : Stands(w, i)) => \E i \in 1 .. n : Stands(w, i + 1)
        <5> SUFFICES ASSUME NEW i \in 1 .. n + 1, Stands(w, i)
                     PROVE  \E j \in 1 .. n : Stands(w, j + 1)
          OBVIOUS
        <5>1. i # 1  BY <1>5, <3>3
        <5>2. i - 1 \in 1 .. n /\ (i - 1) + 1 = i  BY <1>2, <5>1
        <5> QED BY <5>2
      <4>3. (\E i \in 1 .. n : Stands(w, i + 1)) => \E i \in 1 .. n + 1 : Stands(w, i)
        <5> SUFFICES ASSUME NEW i \in 1 .. n, Stands(w, i + 1)
                     PROVE  \E j \in 1 .. n + 1 : Stands(w, j)
          OBVIOUS
        <5>1. i + 1 \in 1 .. n + 1  BY <1>2
        <5> QED BY <5>1
      <4> QED BY <1>3, <1>4, <3>1, <4>1, <4>2, <4>3
    <3> QED BY <3>2, <3>3
  <2>2. hand'["stream"] # Idle => hand'["stream"].kind = "pieces"
    BY DEF PlaneInv, LineSound, Workers
  <2> QED BY <1>2, <2>1, <2>2 DEF LineSound
<1>7. CommandsSound'
  <2>1. \A i, j \in 1 .. n + 1 :
          line[i].kind \notin Workers /\ line[j].kind \notin Workers => i = j
    BY <1>2 DEF PlaneInv, CommandsSound
  <2>2. \A i \in 1 .. n + 1 : line[i].kind = "send" => stage[line[i].turn] = "new"
    BY <1>2 DEF PlaneInv, CommandsSound
  <2>3. \A i \in 1 .. n : /\ i + 1 \in 1 .. n + 1 /\ line'[i] = line[i + 1] /\ i + 1 # 1
                          /\ 1 \in 1 .. n + 1
    BY <1>2
  <2>4. \A i, j \in 1 .. n :
          line'[i].kind \notin Workers /\ line'[j].kind \notin Workers => i = j
    <3> SUFFICES ASSUME NEW i \in 1 .. n, NEW j \in 1 .. n,
                        line'[i].kind \notin Workers, line'[j].kind \notin Workers
                 PROVE  i = j
      OBVIOUS
    <3>1. i + 1 = j + 1  BY <2>1, <2>3
    <3> QED BY <3>1
  <2>5. ASSUME NEW i \in 1 .. n, line'[i].kind = "send" PROVE stage'[line'[i].turn] = "new"
    <3>1. line[i + 1].kind = "send" /\ line[i + 1] \in Requests /\ line'[i] = line[i + 1]
      BY <1>2, <2>3, <2>5
    <3>2. line[i + 1].turn \in Turns /\ stage[line[i + 1].turn] = "new"
      BY <2>2, <2>3, <3>1, RequestFields DEF Workers
    <3>3. line[1].kind # "send"
      BY <2>1, <2>3, <3>1 DEF Workers
    <3> QED BY <3>1, <3>2, <3>3
  <2> QED BY <1>2, <2>4, <2>5 DEF CommandsSound
<1>8. StreamFirst => StreamFirst'
  <2> SUFFICES ASSUME StreamFirst, NEW i \in 1 .. n, NEW j \in 1 .. n,
                      Stands("stream", i)', Stands("main", j)'
               PROVE  i < j
    BY <1>2 DEF StreamFirst
  <2>1. Stands("stream", i + 1) /\ Stands("main", j + 1)
    BY <1>4 DEF Workers
  <2>2. i + 1 \in 1 .. n + 1 /\ j + 1 \in 1 .. n + 1  BY <1>2
  <2>3. i + 1 < j + 1  BY <1>2, <2>1, <2>2 DEF StreamFirst
  <2> QED BY <2>3
<1>9. 1 \in 1 .. n + 1 /\ (line[1].kind \in Workers => hand[line[1].kind] # Idle)
  BY <1>2, <1>3, <1>5
<1>10. ASSUME line[1].kind = "main", StreamFirst, hand["stream"] # Idle PROVE FALSE
  <2>1. PICK i \in 1 .. n + 1 : Stands("stream", i)
    BY <1>3, <1>10 DEF Workers
  <2>2. Stands("main", 1)  BY <1>10 DEF Stands
  <2>3. i < 1  BY <1>2, <1>9, <1>10, <2>1, <2>2 DEF StreamFirst
  <2> QED BY <1>2, <2>3
<1>11. hand' \in [Workers -> Messages \cup {Idle}]  BY <1>1
<1> QED BY <1>2, <1>6, <1>7, <1>8, <1>9, <1>10, <1>11

-----------------------------------------------------------------------------
\* What was published.
LEMMA TurnsKept ==
  ASSUME TurnsSound, UNCHANGED published,
         \A t \in Turns : /\ stage'[t] = "new" <=> stage[t] = "new"
                          /\ stage'[t] = "ended" <=> stage[t] = "ended"
  PROVE  TurnsSound'
<1>1. \A m : IsPublished(m)' <=> IsPublished(m)  BY DEF IsPublished
<1> QED BY <1>1 DEF TurnsSound

\* A turn's message, or its reply, is published.
LEMMA PublishSound ==
  ASSUME PlaneInv, NEW t \in Turns, NEW kind \in {"user", "final"},
         Publish(Message(kind, t)), UNCHANGED <<hand, records>>,
         kind = "user" => stage[t] = "new",
         kind = "final" => stage[t] \notin {"new", "ended"},
         \A u \in Turns :
           /\ stage'[u] = "new" <=> stage[u] = "new" /\ ~(u = t /\ kind = "user")
           /\ stage'[u] = "ended" <=> stage[u] = "ended" \/ (u = t /\ kind = "final")
  PROVE  TurnsSound' /\ FlowSound' /\ queue' \in Seq(Messages) /\ published' \in Seq(Messages)
<1> DEFINE m == Message(kind, t)
           n == Len(published)
           q == Len(queue)
<1>1. /\ queue \in Seq(Messages) /\ published \in Seq(Messages) /\ m \in Messages
      /\ m.kind = kind /\ m.turn = t
  BY MessageFields DEF PlaneInv, TypeOK
<1>2. /\ published' \in Seq(Messages) /\ Len(published') = n + 1 /\ published'[n + 1] = m
      /\ \A i \in 1 .. n : published'[i] = published[i] /\ published[i] \in Messages
      /\ n \in Nat
  BY <1>1, AppendFields DEF Publish
<1>3. /\ queue' \in Seq(Messages) /\ Len(queue') = q + 1 /\ queue'[q + 1] = m
      /\ \A i \in 1 .. q : queue'[i] = queue[i]
      /\ q \in Nat
  BY <1>1, AppendFields DEF Publish
<1>4. /\ \A i \in 1 .. n : published[i].kind \in {"user", "final"}
      /\ \A i, j \in 1 .. n : published[i] = published[j] => i = j
      /\ \A u \in Turns : IsPublished(Message("user", u)) <=> stage[u] # "new"
      /\ \A u \in Turns : IsPublished(Message("final", u)) <=> stage[u] = "ended"
      /\ \A i, j \in 1 .. n, u \in Turns :
           published[i] = Message("user", u) /\ published[j] = Message("final", u) => i < j
  BY DEF PlaneInv, TurnsSound
<1> HIDE DEF m
<1>5. ~IsPublished(m)
  BY <1>4 DEF m
<1>6. \A i \in 1 .. n : published[i] # m
  BY <1>5 DEF IsPublished
<1>7. ASSUME NEW x PROVE IsPublished(x)' <=> IsPublished(x) \/ x = m
  BY <1>2 DEF IsPublished
<1>8. \A u \in Turns : /\ Message("user", u) = m <=> u = t /\ kind = "user"
                       /\ Message("final", u) = m <=> u = t /\ kind = "final"
  BY MessageFields DEF m
<1>9. TurnsSound'
  <2>1. \A i \in 1 .. n + 1 : published'[i].kind \in {"user", "final"}
    BY <1>1, <1>2, <1>4
  <2>2. \A i, j \in 1 .. n + 1 : published'[i] = published'[j] => i = j
    <3> SUFFICES ASSUME NEW i \in 1 .. n + 1, NEW j \in 1 .. n + 1,
                        published'[i] = published'[j]
                 PROVE  i = j
      OBVIOUS
    <3>1. CASE i \in 1 .. n /\ j \in 1 .. n  BY <1>2, <1>4, <3>1
    <3>2. CASE i = n + 1 \/ j = n + 1  BY <1>2, <1>6, <3>2
    <3> QED BY <1>2, <3>1, <3>2
  <2>3. \A u \in Turns : /\ IsPublished(Message("user", u))' <=> stage'[u] # "new"
                         /\ IsPublished(Message("final", u))' <=> stage'[u] = "ended"
    BY <1>4, <1>7, <1>8
  <2>4. ASSUME NEW i \in 1 .. n + 1, NEW j \in 1 .. n + 1, NEW u \in Turns,
               published'[i] = Message("user", u), published'[j] = Message("final", u)
        PROVE  i < j
    <3>1. CASE i \in 1 .. n /\ j \in 1 .. n  BY <1>2, <1>4, <2>4, <3>1
    <3>2. CASE i \in 1 .. n /\ j = n + 1  BY <1>2, <3>2
    <3>3. CASE i = n + 1
      <4>1. u = t /\ kind = "user"  BY <1>2, <1>8, <2>4, <3>3
      <4>2. ~IsPublished(Message("final", t))  BY <1>4, <4>1
      <4>3. j # n + 1  BY <1>2, <1>8, <2>4, <4>1
      <4>4. j \in 1 .. n /\ published[j] = Message("final", t)  BY <1>2, <2>4, <4>1, <4>3
      <4> QED BY <4>2, <4>4 DEF IsPublished
    <3> QED BY <1>2, <3>1, <3>2, <3>3
  <2> QED BY <1>2, <2>1, <2>2, <2>3, <2>4 DEF TurnsSound
<1>10. FlowSound'
  <2>1. InHand' = InHand /\ InHand \in {0, 1}  BY DEF InHand
  <2>2. Len(records) \in Nat  BY DEF PlaneInv, TypeOK
  <2> DEFINE r == Len(records)
  <2>3. /\ n = r + InHand + q
        /\ \A i \in 1 .. r : Same(records[i], published[i])
        /\ InHand = 1 => hand["main"] = published[r + 1]
        /\ \A i \in 1 .. q : queue[i] = published[r + InHand + i]
    BY DEF PlaneInv, FlowSound
  <2> HIDE DEF n, q, r
  <2>4. n + 1 = r + InHand + (q + 1)  BY <1>2, <1>3, <2>1, <2>2, <2>3 DEF r
  <2>5. \A i \in 1 .. r : Same(records'[i], published'[i])
    <3> TAKE i \in 1 .. r
    <3>1. i \in 1 .. n /\ records' = records  BY <1>2, <1>3, <2>1, <2>2, <2>3 DEF r
    <3>2. published'[i] = published[i]  BY <1>2, <3>1
    <3> QED BY <2>3, <3>1, <3>2
  <2>6. ASSUME InHand = 1 PROVE hand'["main"] = published'[r + 1]
    <3>1. r + 1 \in 1 .. n  BY <1>2, <1>3, <2>2, <2>3, <2>6 DEF r
    <3>2. published'[r + 1] = published[r + 1]  BY <1>2, <3>1
    <3>3. hand'["main"] = published[r + 1]  BY <2>3, <2>6
    <3> QED BY <3>2, <3>3
  <2>7. ASSUME NEW i \in 1 .. q + 1 PROVE queue'[i] = published'[r + InHand + i]
    <3>1. CASE i = q + 1  BY <1>2, <1>3, <2>3, <3>1, <2>1, <2>2 DEF r
    <3>2. CASE i \in 1 .. q
      <4>1. r + InHand + i \in 1 .. n  BY <1>2, <1>3, <2>1, <2>2, <2>3, <3>2 DEF r
      <4> QED BY <1>2, <1>3, <2>3, <3>2, <4>1
    <3> QED BY <1>3, <3>1, <3>2
  <2> QED BY <1>2, <1>3, <2>1, <2>4, <2>5, <2>6, <2>7 DEF FlowSound, r
<1> QED BY <1>2, <1>3, <1>9, <1>10

\* The worker takes the next message, and keeps it or has it recorded.
LEMMA QueueHead ==
  ASSUME PlaneInv, queue # <<>>
  PROVE  /\ queue[1] \in Messages /\ Head(queue) = queue[1] /\ Tail(queue) \in Seq(Messages)
         /\ hand["main"] = Idle => Next1(queue[1]) /\ InHand = 0
         /\ Len(records) \in Nat /\ Len(published) \in Nat
         /\ Len(queue) \in Nat \ {0} /\ Len(Tail(queue)) = Len(queue) - 1
         /\ \A i \in 1 .. Len(queue) - 1 : Tail(queue)[i] = queue[i + 1]
<1>1. queue \in Seq(Messages) /\ Len(records) \in Nat /\ Len(published) \in Nat
  BY DEF PlaneInv, TypeOK
<1>2. /\ queue[1] \in Messages /\ Head(queue) = queue[1] /\ Tail(queue) \in Seq(Messages)
      /\ Len(queue) \in Nat \ {0} /\ Len(Tail(queue)) = Len(queue) - 1
      /\ \A i \in 1 .. Len(queue) - 1 : Tail(queue)[i] = queue[i + 1]
  BY <1>1, TailFields
<1>3. ASSUME hand["main"] = Idle PROVE Next1(queue[1]) /\ InHand = 0
  <2>1. InHand = 0  BY <1>3 DEF InHand
  <2>2. Len(published) = Len(records) + 0 + Len(queue) /\ queue[1] = published[Len(records) + 0 + 1]
    BY <1>2, <2>1 DEF PlaneInv, FlowSound
  <2> QED BY <1>1, <1>2, <2>1, <2>2 DEF Next1
<1> QED BY <1>1, <1>2, <1>3

LEMMA FlowTaken ==
  ASSUME PlaneInv, queue # <<>>, hand["main"] = Idle, queue' = Tail(queue),
         UNCHANGED <<published, records>>, hand'["main"] = queue[1]
  PROVE  FlowSound'
<1> DEFINE r == Len(records)
           q == Len(queue)
<1>1. /\ queue[1] # Idle /\ InHand = 0 /\ queue[1] = published[r + 1]
      /\ r \in Nat /\ q \in Nat \ {0} /\ Len(queue') = q - 1
      /\ \A i \in 1 .. q - 1 : queue'[i] = queue[i + 1]
  BY QueueHead, MessageFields DEF Next1
<1>2. InHand' = 1  BY <1>1 DEF InHand
<1>3. /\ Len(published) = r + 0 + q
      /\ \A i \in 1 .. r : Same(records[i], published[i])
      /\ \A i \in 1 .. q : queue[i] = published[r + 0 + i]
  BY <1>1 DEF PlaneInv, FlowSound
<1> HIDE DEF r, q
<1>4. ASSUME NEW i \in 1 .. q - 1 PROVE queue'[i] = published'[r + 1 + i]
  <2>1. i + 1 \in 1 .. q /\ r + 0 + (i + 1) = r + 1 + i  BY <1>1
  <2> QED BY <1>1, <1>3, <2>1
<1>5. Len(published') = r + 1 + (q - 1)  BY <1>1, <1>3
<1> QED BY <1>1, <1>2, <1>3, <1>4, <1>5 DEF FlowSound, r

\* A message straight from the queue, or from the hand, is recorded.
LEMMA FlowRecorded ==
  ASSUME PlaneInv, NEW m \in Messages, Next1(m), Recording(m), UNCHANGED published,
         hand'["main"] = Idle,
         \/ hand["main"] = Idle /\ queue # <<>> /\ queue' = Tail(queue)
         \/ hand["main"] # Idle /\ UNCHANGED queue
  PROVE  FlowSound'
<1> DEFINE r == Len(records)
           q == Len(queue)
<1>1. /\ r \in Nat /\ q \in Nat /\ Len(records') = r + 1 /\ m = published[r + 1]
      /\ Same(records'[r + 1], m) /\ \A i \in 1 .. r : records'[i] = records[i]
  BY DEF PlaneInv, TypeOK, Recording, Next1
<1>2. InHand' = 0  BY DEF InHand
<1>3. /\ Len(published) = r + InHand + q
      /\ \A i \in 1 .. r : Same(records[i], published[i])
      /\ \A i \in 1 .. q : queue[i] = published[r + InHand + i]
  BY DEF PlaneInv, FlowSound
<1> HIDE DEF r
<1>4. \A i \in 1 .. r + 1 : Same(records'[i], published'[i])
  BY <1>1, <1>3
<1>5. /\ Len(published') = (r + 1) + 0 + Len(queue')
      /\ \A i \in 1 .. Len(queue') : queue'[i] = published'[(r + 1) + 0 + i]
  <2>1. CASE hand["main"] = Idle /\ queue # <<>> /\ queue' = Tail(queue)
    <3>1. /\ InHand = 0 /\ q > 0 /\ Len(queue') = q - 1
          /\ \A i \in 1 .. q - 1 : queue'[i] = queue[i + 1]
      BY <2>1, QueueHead
    <3> HIDE DEF q
    <3>2. ASSUME NEW i \in 1 .. q - 1 PROVE queue'[i] = published'[(r + 1) + 0 + i]
      <4>1. i + 1 \in 1 .. q /\ r + 0 + (i + 1) = (r + 1) + 0 + i  BY <1>1
      <4> QED BY <1>3, <3>1, <4>1
    <3>3. Len(published') = (r + 1) + 0 + (q - 1)  BY <1>1, <1>3, <3>1
    <3> QED BY <3>1, <3>2, <3>3
  <2>2. CASE hand["main"] # Idle /\ UNCHANGED queue
    <3>1. InHand = 1 /\ queue' = queue  BY <2>2 DEF InHand
    <3>2. Len(published') = (r + 1) + 0 + q  BY <1>1, <1>3, <3>1
    <3>3. ASSUME NEW i \in 1 .. q PROVE queue'[i] = published'[(r + 1) + 0 + i]
      <4>1. r + 1 + i = (r + 1) + 0 + i  BY <1>1
      <4> QED BY <1>3, <3>1, <4>1
    <3> QED BY <3>1, <3>2, <3>3
  <2> QED BY <2>1, <2>2
<1> QED BY <1>1, <1>2, <1>4, <1>5 DEF FlowSound

\* Whose reply is recorded, or in the worker's hand, has ended.
LEMMA ReplyEnded ==
  ASSUME PlaneInv, NEW t \in Turns
  PROVE  /\ Recorded(t) => stage[t] = "ended"
         /\ hand["main"] = Message("final", t) => stage[t] = "ended"
<1>1. Len(records) \in Nat /\ Len(queue) \in Nat /\ InHand \in {0, 1}
      /\ Len(published) = Len(records) + InHand + Len(queue) /\ published \in Seq(Messages)
  BY DEF PlaneInv, TypeOK, FlowSound, InHand
<1>2. ASSUME NEW i \in 1 .. Len(published), published[i] = Message("final", t)
      PROVE  stage[t] = "ended"
  BY <1>2 DEF PlaneInv, TurnsSound, IsPublished
<1>3. ASSUME Recorded(t) PROVE stage[t] = "ended"
  <2>1. PICK i \in 1 .. Len(records) : records[i].kind = "final" /\ records[i].turn = t
    BY <1>3 DEF Recorded
  <2>2. i \in 1 .. Len(published) /\ Same(records[i], published[i])
    BY <1>1 DEF PlaneInv, FlowSound
  <2>3. published[i] = Message("final", t)
    BY <1>1, <2>1, <2>2, MessageFields DEF Same
  <2> QED BY <1>2, <2>2, <2>3
<1>4. ASSUME hand["main"] = Message("final", t) PROVE stage[t] = "ended"
  <2>1. InHand = 1  BY <1>4, MessageFields DEF InHand
  <2>2. published[Len(records) + 1] = Message("final", t)
    BY <1>4, <2>1 DEF PlaneInv, FlowSound
  <2> QED BY <1>1, <1>2, <2>1, <2>2
<1> QED BY <1>3, <1>4

-----------------------------------------------------------------------------
\* What stays as it is.
LEMMA FlowKept ==
  ASSUME FlowSound, UNCHANGED <<published, records, hand, queue>>
  PROVE  FlowSound'
BY DEF FlowSound, InHand

LEMMA ModeKept ==
  ASSUME ModeSound, UNCHANGED <<queue, hand, stage, mode, quiesced>>
  PROVE  ModeSound'
BY DEF ModeSound, InHand, InQueue, NothingActive

LEMMA SessionsKept ==
  ASSUME SessionsSound, UNCHANGED <<bound, streams, records>>, StillDropped
  PROVE  SessionsSound'
BY DEF SessionsSound, OneSession, Recorded, StillDropped

LEMMA LineKept ==
  ASSUME LineSound, UNCHANGED <<hand, line>>
  PROVE  LineSound'
BY DEF LineSound, Stands

LEMMA CommandsKept ==
  ASSUME CommandsSound, UNCHANGED <<line, stage>>
  PROVE  CommandsSound'
BY DEF CommandsSound

\* The pieces of a turn that has ended, if the plane, the hands and the stages
\* change in no more than a way that keeps the reply behind them.
LEMMA StreamsKept ==
  ASSUME PlaneInv, Distinct(plane'),
         \A t \in Typed : Waits(t)' => stage'[t] # "ended",
         \A t \in Typed : Recorded(t)' => Recorded(t),
         hand'["stream"] # Idle => hand'["stream"] = hand["stream"],
         hand'["main"] # Idle => hand'["main"] = hand["main"],
         StreamFirst => StreamFirst',
         \A t \in Typed : StreamsEnd(t) => StreamsEnd(t)'
  PROVE  StreamsSound'
<1>1. Idle # Message("pieces", 0) /\ \A t \in Turns : /\ Message("pieces", t) # Idle
                                                     /\ Message("final", t) # Idle
  BY DEF Idle, Message
<1>2. ASSUME NEW t \in Typed
      PROVE  /\ Waits(t)' => stage'[t] # "ended"
             /\ hand'["stream"] = Message("pieces", t)
                  => /\ ~Recorded(t)'
                     /\ hand'["main"] = Message("final", t) => StreamFirst'
             /\ StreamsEnd(t)'
  BY <1>1, TurnFields DEF PlaneInv, StreamsSound
<1> QED BY <1>2 DEF StreamsSound, Distinct

\* The agent's loop takes the message of turn t out of its queue.
LEMMA WakesSound ==
  ASSUME PlaneInv, NEW t \in Turns, Wakes(t)
  PROVE  PlaneInv'
<1>1. /\ stage[t] = "queued" /\ stage' = [stage EXCEPT ![t] = "running"]
      /\ UNCHANGED <<queue, plane, hand, held, line, streams, bound, records, current, made,
                     published, quiesced, mode, commands>>
  BY DEF Wakes, storeVars
<1>2. /\ stage' \in [Turns -> Stages] /\ stage'[t] = "running"
      /\ \A u \in Turns \ {t} : stage'[u] = stage[u]
  BY <1>1 DEF PlaneInv, TypeOK, Stages
<1>3. \A u \in Turns : /\ stage'[u] = "new" <=> stage[u] = "new"
                       /\ stage'[u] = "ended" <=> stage[u] = "ended"
                       /\ stage[u] = "dropped" => stage'[u] = "dropped"
  BY <1>1, <1>2
<1>4. TurnsSound' /\ FlowSound' /\ SessionsSound' /\ LineSound'
  BY <1>1, <1>3, TurnsKept, FlowKept, SessionsKept, LineKept DEF PlaneInv, StillDropped
<1>5. ModeSound'
  <2>1. ~quiesced /\ mode \notin {"stopped", "closed"}
    BY <1>1 DEF PlaneInv, ModeSound, NothingActive, Active
  <2>2. \A u \in Turns : (stage'[u] = "sent" => InQueue(u)) /\ stage'[u] # "stopped"
    BY <1>2, <2>1 DEF PlaneInv, ModeSound
  <2>3. \A u \in Turns : InQueue(u) => InQueue(u)'  BY <1>1 DEF InQueue
  <2> QED BY <1>1, <2>1, <2>2, <2>3 DEF ModeSound
<1>6. CommandsSound'
  <2>1. \A i \in 1 .. Len(line) : line[i].kind = "send" => line[i].turn \in Turns
    BY LineTyped, RequestFields DEF PlaneInv, Workers
  <2> QED BY <1>1, <1>3, <2>1 DEF PlaneInv, CommandsSound
<1>7. StreamsSound'
  <2>1. \A u \in Typed : Waits(u)' => stage'[u] # "ended"
    BY <1>1, <1>3, TurnFields DEF PlaneInv, StreamsSound, Waits
  <2>2. \A u \in Typed : (Recorded(u)' => Recorded(u)) /\ (StreamsEnd(u) => StreamsEnd(u)')
    BY <1>1 DEF Recorded, StreamsEnd
  <2>3. Distinct(plane')  BY <1>1 DEF PlaneInv, StreamsSound, Distinct
  <2>4. StreamFirst => StreamFirst'  BY <1>1 DEF StreamFirst, Stands
  <2> QED BY <1>1, <2>1, <2>2, <2>3, <2>4, StreamsKept
<1>8. TypeOK'
  BY <1>1, <1>2 DEF PlaneInv, TypeOK, Stages
<1> QED BY <1>4, <1>5, <1>6, <1>7, <1>8 DEF PlaneInv

LEMMA StreamSound ==
  ASSUME PlaneInv, NEW t \in Turns, Stream(t)
  PROVE  PlaneInv'
<1>1. /\ Running(t) /\ made < MaxPieces /\ made' = made + 1 /\ plane' = Joined(t)
      /\ UNCHANGED <<queue, hand, held, line, storeVars, current, stage, published,
                     quiesced, mode, commands>>
  BY DEF Stream
<1>2. plane \in Seq(Turns) /\ Distinct(plane) /\ Len(plane) <= Capacity
  BY DEF PlaneInv, TypeOK, StreamsSound, Distinct
<1>3. /\ plane' \in Seq(Turns) /\ Distinct(plane') /\ Len(plane') <= Capacity
      /\ From(plane', plane, t)
  BY <1>1, <1>2, JoinedSound
<1>4. TypeOK'
  <2>1. made' \in 0 .. MaxPieces  BY <1>1, PlaneAssumption DEF PlaneInv, TypeOK
  <2> QED BY <1>1, <1>3, <2>1 DEF PlaneInv, TypeOK, storeVars
<1>5. FlowSound' /\ ModeSound' /\ SessionsSound' /\ LineSound' /\ CommandsSound'
  BY <1>1, FlowKept, ModeKept, SessionsKept, LineKept, CommandsKept
     DEF PlaneInv, storeVars, StillDropped
<1>6. TurnsSound'
  BY <1>1, TurnsKept DEF PlaneInv
<1>7. StreamsSound'
  <2>1. ASSUME NEW u \in Typed, Waits(u)' PROVE stage'[u] # "ended"
    <3>1. PICK i \in 1 .. Len(plane') : plane'[i] = u  BY <2>1 DEF Waits
    <3>2. u = t \/ Waits(u)  BY <1>3, <3>1 DEF From, Waits
    <3> QED BY <1>1, <3>2 DEF Running, PlaneInv, StreamsSound
  <2>2. \A u \in Typed : (Recorded(u)' => Recorded(u)) /\ (StreamsEnd(u) => StreamsEnd(u)')
    BY <1>1 DEF Recorded, StreamsEnd, storeVars
  <2>3. StreamFirst => StreamFirst'  BY <1>1 DEF StreamFirst, Stands
  <2> QED BY <1>1, <1>3, <2>1, <2>2, <2>3, StreamsKept
<1> QED BY <1>4, <1>5, <1>6, <1>7 DEF PlaneInv

LEMMA FinishSound ==
  ASSUME PlaneInv, NEW t \in Turns, Finish(t)
  PROVE  PlaneInv'
<1>1. /\ Running(t) /\ Publish(Message("final", t)) /\ plane' = Discarded(t)
      /\ stage' = [u \in Turns |-> IF u = t THEN "ended"
                                   ELSE IF u \in NextOf(t) THEN "running" ELSE stage[u]]
      /\ UNCHANGED <<hand, held, line, storeVars, current, made, quiesced, mode, commands>>
  BY DEF Finish
<1>2. stage[t] = "running" /\ stage \in [Turns -> Stages]
  BY <1>1 DEF Running, PlaneInv, TypeOK, Stages
<1>3. \A u \in NextOf(t) : u \in Chat /\ u \in Turns /\ stage[u] = "queued"
  BY TurnFields DEF NextOf, Queued
<1>4. \A u \in Turns : /\ stage'[u] = IF u = t THEN "ended"
                                     ELSE IF u \in NextOf(t) THEN "running" ELSE stage[u]
                       /\ stage'[u] = "new" <=> stage[u] = "new"
                       /\ stage'[u] = "ended" <=> stage[u] = "ended" \/ u = t
  BY <1>1, <1>2, <1>3
<1>5. TurnsSound' /\ FlowSound' /\ queue' \in Seq(Messages) /\ published' \in Seq(Messages)
  BY <1>1, <1>2, <1>4, PublishSound DEF storeVars
<1>6. /\ plane' \in Seq(Turns) /\ Distinct(plane') /\ Len(plane') <= Capacity
      /\ \A i \in 1 .. Len(plane') : \E j \in 1 .. Len(plane) : plane[j] = plane'[i]
      /\ t \in Typed => \A i \in 1 .. Len(plane') : plane'[i] # t
  <2>1. plane \in Seq(Turns) /\ Distinct(plane) /\ Len(plane) <= Capacity /\ Len(plane) \in Nat
        /\ Capacity \in Nat
    BY PlaneAssumption DEF PlaneInv, TypeOK, StreamsSound, Distinct
  <2>2. CASE t \in Typed
    <3>1. plane' = Without(t)  BY <1>1, <2>2 DEF Discarded
    <3>2. /\ Without(t) \in Seq(Turns) /\ Distinct(Without(t))
          /\ Len(Without(t)) = IF Waits(t) THEN Len(plane) - 1 ELSE Len(plane)
          /\ \A i \in 1 .. Len(Without(t)) :
               Without(t)[i] # t /\ \E j \in 1 .. Len(plane) : plane[j] = Without(t)[i]
      BY <2>1, WithoutSound
    <3>3. Len(Without(t)) <= Capacity  BY <2>1, <3>2
    <3>4. Distinct(plane')  BY <3>1, <3>2, Zenon
    <3> QED BY <3>1, <3>2, <3>3, <3>4
  <2>3. CASE t \notin Typed
    <3>1. plane' = plane  BY <1>1, <2>3 DEF Discarded
    <3> QED BY <2>1, <2>3, <3>1
  <2> QED BY <2>2, <2>3
<1>7. stage' \in [Turns -> Stages]
  BY <1>1, <1>2 DEF Stages
<1>8. TypeOK'
  BY <1>1, <1>5, <1>6, <1>7 DEF PlaneInv, TypeOK, storeVars, Stages
<1>9. ModeSound'
  <2>1. ~quiesced /\ mode \notin {"stopped", "closed"}
    BY <1>2 DEF PlaneInv, ModeSound, NothingActive, Active
  <2>3. ASSUME NEW v \in Turns, stage'[v] = "sent" PROVE InQueue(v)'
    <3>1. stage[v] = "sent"  BY <1>4, <2>3
    <3>2. PICK i \in 1 .. Len(queue) : queue[i] = Message("user", v)
      BY <3>1 DEF PlaneInv, ModeSound, InQueue
    <3>3. i \in 1 .. Len(queue') /\ queue'[i] = queue[i]
      BY <1>1, MessageFields DEF Publish, PlaneInv, TypeOK
    <3> QED BY <3>2, <3>3 DEF InQueue
  <2>4. \A v \in Turns : stage'[v] # "stopped"
    BY <1>4, <2>1 DEF PlaneInv, ModeSound
  <2> QED BY <1>1, <2>1, <2>3, <2>4 DEF ModeSound
<1>10. SessionsSound' /\ LineSound'
  <2>1. StillDropped  BY <1>2, <1>3, <1>4 DEF StillDropped
  <2> QED BY <1>1, <2>1, SessionsKept, LineKept DEF PlaneInv, storeVars
<1>11. CommandsSound'
  <2>1. \A i \in 1 .. Len(line) : line[i].kind = "send" => line[i].turn \in Turns
    BY LineTyped, RequestFields DEF PlaneInv, Workers
  <2> QED BY <1>1, <1>4, <2>1 DEF PlaneInv, CommandsSound
<1>12. StreamsSound'
  <2>1. ASSUME NEW u \in Typed, Waits(u)' PROVE stage'[u] # "ended"
    <3>1. u # t /\ Waits(u)  BY <1>6, <2>1 DEF Waits
    <3>2. stage[u] # "ended" /\ u \in Turns
      BY <3>1, TurnFields DEF PlaneInv, StreamsSound
    <3> QED BY <1>4, <3>1, <3>2
  <2>2. \A u \in Typed : (Recorded(u)' => Recorded(u)) /\ (StreamsEnd(u) => StreamsEnd(u)')
    BY <1>1 DEF Recorded, StreamsEnd, storeVars
  <2>3. StreamFirst => StreamFirst'  BY <1>1 DEF StreamFirst, Stands
  <2> QED BY <1>1, <1>6, <2>1, <2>2, <2>3, StreamsKept
<1> QED BY <1>5, <1>8, <1>9, <1>10, <1>11, <1>12 DEF PlaneInv

\* A turn waits for its agent's loop once its message is taken.
LEMMA MainStage ==
  ASSUME PlaneInv, MainTakes
  PROVE  /\ stage' \in [Turns -> Stages]
         /\ \A u \in Turns : \/ stage'[u] = stage[u]
                             \/ stage[u] = "sent" /\ stage'[u] = "queued"
         /\ \A u \in Turns : stage'[u] = "sent" => queue[1] # Message("user", u)
<1>1. queue # <<>> /\ queue[1] \in Messages /\ Head(queue) = queue[1]
  BY QueueHead DEF MainTakes
<1> DEFINE m == queue[1]
           t == m.turn
<1>2. stage' = IF m.kind # "user" \/ stage[t] # "sent" THEN stage
               ELSE [stage EXCEPT ![t] = "queued"]
  BY <1>1 DEF MainTakes
<1>3. t \in Turns /\ stage \in [Turns -> Stages]
  BY <1>1, MessageFields DEF PlaneInv, TypeOK, Stages
<1>4. \A u \in Turns : m = Message("user", u) => t = u /\ m.kind = "user"
  BY MessageFields
<1> HIDE DEF t
<1>5. \A u \in Turns : stage'[u] = "sent" => queue[1] # Message("user", u)
  BY <1>2, <1>3, <1>4 DEF Stages
<1> HIDE DEF m
<1>6. CASE stage' = stage
  BY <1>3, <1>5, <1>6
<1>7. CASE stage[t] = "sent" /\ stage' = [stage EXCEPT ![t] = "queued"]
  BY <1>3, <1>5, <1>7 DEF Stages
<1> QED BY <1>2, <1>6, <1>7

LEMMA MainTakesSound ==
  ASSUME PlaneInv, MainTakes
  PROVE  PlaneInv'
<1> DEFINE m == queue[1]
<1>1. /\ queue # <<>> /\ hand["main"] = Idle /\ mode # "closed" /\ queue' = Tail(queue)
      /\ WriteOrWait("main", m)
      /\ UNCHANGED <<plane, held, current, made, published, quiesced, mode, commands>>
  BY QueueHead DEF MainTakes
<1>2. m \in Messages /\ Next1(m) /\ InHand = 0 /\ queue' \in Seq(Messages)
  BY <1>1, QueueHead
<1>3. ~quiesced  BY <1>1 DEF PlaneInv, ModeSound
<1>4. /\ stage' \in [Turns -> Stages]
      /\ \A u \in Turns : \/ stage'[u] = stage[u]
                          \/ stage[u] = "sent" /\ stage'[u] = "queued"
      /\ \A u \in Turns : stage'[u] = "sent" => queue[1] # Message("user", u)
  BY MainStage
<1>5. \A u \in Turns : /\ stage'[u] = "new" <=> stage[u] = "new"
                       /\ stage'[u] = "ended" <=> stage[u] = "ended"
  BY <1>4
<1>5a. StillDropped  BY <1>4 DEF StillDropped
<1>6. TurnsSound'  BY <1>1, <1>5, TurnsKept DEF PlaneInv
<1>7. ModeSound'
  <2>1. mode = "stopped" => NothingActive'
    <3> SUFFICES ASSUME mode = "stopped", NEW u \in Turns PROVE stage'[u] \notin Active
      BY DEF NothingActive
    <3>1. stage[u] \notin Active  BY DEF PlaneInv, ModeSound, NothingActive
    <3> QED BY <1>4, <3>1 DEF Active
  <2>2. ASSUME NEW u \in Turns, stage'[u] = "sent" PROVE InQueue(u)'
    <3>1. stage[u] = "sent" /\ queue[1] # Message("user", u)  BY <1>4, <2>2
    <3>2. PICK i \in 1 .. Len(queue) : queue[i] = Message("user", u)
      BY <3>1 DEF PlaneInv, ModeSound, InQueue
    <3>3. /\ Len(queue) \in Nat /\ Len(queue') = Len(queue) - 1
          /\ \A j \in 1 .. Len(queue) - 1 : queue'[j] = queue[j + 1]
      BY <1>1, QueueHead
    <3>4. i # 1  BY <3>1, <3>2
    <3>5. i - 1 \in 1 .. Len(queue') /\ queue'[i - 1] = queue[i]  BY <3>3, <3>4
    <3> QED BY <3>2, <3>5 DEF InQueue
  <2>3. \A u \in Turns : stage'[u] = "stopped" => mode \in {"stopped", "closed"}
    BY <1>4 DEF PlaneInv, ModeSound
  <2> QED BY <1>1, <1>3, <2>1, <2>2, <2>3 DEF ModeSound
<1>8. Distinct(plane') /\ \A u \in Typed : Waits(u)' => stage'[u] # "ended"
  BY <1>1, <1>5, TurnFields DEF PlaneInv, StreamsSound, Distinct, Waits
<1> HIDE DEF m
<1>9. CASE LockFree
  <2>1. line = <<>> /\ Write(m) /\ UNCHANGED <<hand, line>>
    BY <1>1, <1>9 DEF WriteOrWait, LockFree
  <2>2. Recording(m)  BY <1>2, <1>3, <1>5a, <2>1, WriteMain
  <2>3. hand["stream"] = Idle
    BY <2>1 DEF PlaneInv, LineSound, Workers
  <2>4. FlowSound'  BY <1>1, <1>2, <2>1, <2>2, FlowRecorded
  <2>5. SessionsSound' /\ \A u \in Typed : StreamsEnd(u) => StreamsEnd(u)'
    BY <2>2 DEF Recording
  <2>6. LineSound'  BY <2>1, LineKept DEF PlaneInv
  <2>7. CommandsSound'  BY <2>1 DEF CommandsSound
  <2>8. StreamsSound'
    <3>1. \A u \in Typed : hand'["stream"] # Message("pieces", u)
      BY <2>1, <2>3 DEF Idle, Message
    <3>2. \A u \in Typed : StreamsEnd(u)'  BY <2>5 DEF PlaneInv, StreamsSound
    <3> QED BY <1>8, <3>1, <3>2 DEF StreamsSound, Distinct
  <2>9. TypeOK'
    BY <1>1, <1>2, <1>4, <2>1, <2>2 DEF PlaneInv, TypeOK, Recording, RecordSet, Stages
  <2> QED BY <1>6, <1>7, <2>4, <2>5, <2>6, <2>7, <2>8, <2>9 DEF PlaneInv
<1>10. CASE ~LockFree
  <2>1. /\ hand' = [hand EXCEPT !["main"] = m] /\ line' = Append(line, Request("main"))
        /\ UNCHANGED storeVars
    BY <1>1, <1>10 DEF WriteOrWait
  <2>2. /\ line' \in Seq(Requests) /\ hand' \in [Workers -> Messages \cup {Idle}]
        /\ LineSound' /\ CommandsSound' /\ StreamFirst'
    BY <1>1, <1>2, <1>5, <2>1, WorkerWaits DEF Workers
  <2>3. hand'["main"] = m /\ hand'["stream"] = hand["stream"]
    BY <2>1, LineTyped DEF PlaneInv, Workers
  <2>4. FlowSound'  BY <1>1, <2>1, <2>3, FlowTaken DEF storeVars, m
  <2>5. SessionsSound'  BY <1>5a, <2>1, SessionsKept DEF PlaneInv, storeVars
  <2>6. StreamsSound'
    <3>1. \A u \in Typed : (Recorded(u)' <=> Recorded(u)) /\ (StreamsEnd(u)' <=> StreamsEnd(u))
      BY <2>1 DEF Recorded, StreamsEnd, storeVars
    <3> QED BY <1>8, <2>2, <2>3, <3>1 DEF PlaneInv, StreamsSound, Distinct
  <2>7. TypeOK'
    BY <1>1, <1>2, <1>4, <2>1, <2>2 DEF PlaneInv, TypeOK, storeVars, Stages
  <2> QED BY <1>6, <1>7, <2>2, <2>4, <2>5, <2>6, <2>7 DEF PlaneInv
<1> QED BY <1>9, <1>10

LEMMA StreamTakesSound ==
  ASSUME PlaneInv, StreamTakes
  PROVE  PlaneInv'
<1> DEFINE t == plane[1]
           n == Len(plane) - 1
           m == Message("pieces", t)
<1>0. plane \in Seq(Turns) /\ Distinct(plane) /\ Len(plane) <= Capacity /\ Capacity \in Nat
  BY PlaneAssumption DEF PlaneInv, TypeOK, StreamsSound, Distinct
<1>1. /\ plane # <<>> /\ hand["stream"] = Idle /\ mode # "closed" /\ plane' = Tail(plane)
      /\ WriteOrWait("stream", m)
      /\ UNCHANGED <<queue, held, current, agentVars, published, quiesced, mode, commands>>
  BY <1>0, TailFields DEF StreamTakes
<1>2. /\ plane' \in Seq(Turns) /\ Len(plane') = n /\ Len(plane) = n + 1 /\ n \in Nat
      /\ \A i \in 1 .. n : plane'[i] = plane[i + 1] /\ i + 1 \in 1 .. Len(plane)
      /\ t \in Turns /\ 1 \in 1 .. Len(plane)
  BY <1>0, <1>1, TailFields
<1>3. m \in Messages /\ m.kind = "pieces" /\ Waits(t)
  BY <1>2, MessageFields DEF Waits
<1> HIDE DEF n
<1>4. Distinct(plane')
  <2> SUFFICES ASSUME NEW i \in 1 .. n, NEW j \in 1 .. n, plane'[i] = plane'[j]
               PROVE  i = j
    BY <1>2 DEF Distinct
  <2>1. i + 1 = j + 1  BY <1>0, <1>2 DEF Distinct
  <2> QED BY <2>1
<1>5. Len(plane') <= Capacity  BY <1>0, <1>2
<1>6. \A u \in Typed : Waits(u)' => stage'[u] # "ended"
  <2> SUFFICES ASSUME NEW u \in Typed, Waits(u)' PROVE stage'[u] # "ended"
    OBVIOUS
  <2>1. Waits(u)  BY <1>2 DEF Waits
  <2> QED BY <1>1, <2>1 DEF PlaneInv, StreamsSound, agentVars
<1>7. t \in Typed => stage[t] # "ended" /\ ~Recorded(t) /\ hand["main"] # Message("final", t)
  BY <1>2, <1>3, ReplyEnded DEF PlaneInv, StreamsSound
<1>8. TurnsSound'  BY <1>1, TurnsKept DEF PlaneInv, agentVars
<1> HIDE DEF t, m
<1>9. CASE LockFree
  <2>1. line = <<>> /\ Write(m) /\ UNCHANGED <<hand, line>>
    BY <1>1, <1>9 DEF WriteOrWait, LockFree
  <2>2. /\ UNCHANGED <<bound, records>> /\ streams' \subseteq Keys /\ SessionsSound'
        /\ \A u \in Typed : StreamsEnd(u) => StreamsEnd(u)'
    BY <1>1, <1>2, <1>7, <2>1, WritePieces DEF m, StillDropped, agentVars
  <2>3. FlowSound' /\ ModeSound' /\ LineSound' /\ CommandsSound'
    BY <1>1, <2>1, <2>2, FlowKept, ModeKept, LineKept, CommandsKept DEF PlaneInv, agentVars
  <2>4. StreamsSound'
    <3>1. \A u \in Typed : Recorded(u)' => Recorded(u)  BY <2>2 DEF Recorded
    <3>2. StreamFirst => StreamFirst'  BY <2>1 DEF StreamFirst, Stands
    <3> QED BY <1>4, <1>6, <2>1, <2>2, <3>1, <3>2, StreamsKept
  <2>5. TypeOK'
    BY <1>1, <1>2, <1>5, <2>1, <2>2 DEF PlaneInv, TypeOK, agentVars
  <2> QED BY <1>8, <2>2, <2>3, <2>4, <2>5 DEF PlaneInv
<1>10. CASE ~LockFree
  <2>1. /\ hand' = [hand EXCEPT !["stream"] = m] /\ line' = Append(line, Request("stream"))
        /\ UNCHANGED storeVars
    BY <1>1, <1>10 DEF WriteOrWait
  <2>2. /\ line' \in Seq(Requests) /\ hand' \in [Workers -> Messages \cup {Idle}]
        /\ LineSound' /\ CommandsSound'
    BY <1>1, <1>3, <2>1, WorkerWaits DEF Workers, agentVars
  <2>3. hand'["stream"] = m /\ hand'["main"] = hand["main"]
    BY <2>1, LineTyped DEF PlaneInv, Workers
  <2>4. FlowSound'
    BY <1>1, <2>1, <2>3 DEF PlaneInv, FlowSound, InHand, storeVars
  <2>5. ModeSound'
    BY <1>1, <2>3 DEF PlaneInv, ModeSound, InHand, InQueue, NothingActive, agentVars
  <2>6. SessionsSound'
    BY <1>1, <2>1, SessionsKept DEF PlaneInv, storeVars, StillDropped, agentVars
  <2>7. StreamsSound'
    <3>1. \A u \in Typed : (Recorded(u)' <=> Recorded(u)) /\ (StreamsEnd(u)' <=> StreamsEnd(u))
      BY <2>1 DEF Recorded, StreamsEnd, storeVars
    <3>2. ASSUME NEW u \in Typed, hand'["stream"] = Message("pieces", u)
          PROVE  ~Recorded(u) /\ hand'["main"] # Message("final", u)
      <4>1. u = t  BY <1>2, <2>3, <3>2, TurnFields, MessageFields DEF m
      <4> QED BY <1>7, <2>3, <4>1
    <3> QED BY <1>4, <1>6, <3>1, <3>2 DEF PlaneInv, StreamsSound, Distinct
  <2>8. TypeOK'
    BY <1>1, <1>2, <1>5, <2>1, <2>2 DEF PlaneInv, TypeOK, storeVars, agentVars
  <2> QED BY <1>8, <2>2, <2>4, <2>5, <2>6, <2>7, <2>8 DEF PlaneInv
<1> QED BY <1>9, <1>10

LEMMA WorkerWritesSound ==
  ASSUME PlaneInv, WorkerWrites
  PROVE  PlaneInv'
<1> DEFINE w == line[1].kind
           m == hand[w]
<1>0. line # <<>> /\ Head(line) = line[1] /\ line[1].kind \in Workers
  BY LineTyped, TailFields DEF PlaneInv, WorkerWrites
<1>1. /\ line' = Tail(line) /\ Write(m) /\ hand' = [hand EXCEPT ![w] = Idle]
      /\ UNCHANGED <<queue, plane, held, current, agentVars, published, quiesced, mode, commands>>
  BY <1>0 DEF WorkerWrites
<1>2. hand' = [v \in Workers |-> IF v = w THEN Idle ELSE hand[v]]
  BY <1>0, <1>1, LineTyped DEF PlaneInv
<1>3. /\ line' \in Seq(Requests) /\ hand' \in [Workers -> Messages \cup {Idle}]
      /\ LineSound' /\ CommandsSound' /\ (StreamFirst => StreamFirst')
      /\ hand[w] # Idle
      /\ w = "main" /\ StreamFirst => hand["stream"] = Idle
  <2>1. \A t \in Turns : stage[t] = "new" => stage'[t] = "new" \/ line[1].kind = "send"
    BY <1>1 DEF agentVars
  <2> QED BY <1>0, <1>1, <1>2, <2>1, FirstLeaves
<1>4. m \in Messages
  BY <1>0, <1>3, LineTyped DEF PlaneInv
<1>5. TurnsSound' /\ Distinct(plane') /\ \A u \in Typed : Waits(u)' => stage'[u] # "ended"
  BY <1>1, TurnsKept DEF PlaneInv, agentVars, StreamsSound, Distinct, Waits
<1> HIDE DEF m, w
<1>6. CASE w = "main"
  <2>1. /\ InHand = 1 /\ m = hand["main"] /\ hand["main"] # Idle
        /\ hand'["main"] = Idle /\ hand'["stream"] = hand["stream"] /\ InHand' = 0
    BY <1>2, <1>3, <1>6 DEF InHand, m, Workers
  <2>2. ~quiesced  BY <2>1 DEF PlaneInv, ModeSound
  <2>3. Next1(m)
    <3>1. Len(records) \in Nat /\ Len(queue) \in Nat  BY DEF PlaneInv, TypeOK
    <3>2. Len(published) = Len(records) + 1 + Len(queue) /\ m = published[Len(records) + 1]
      BY <2>1 DEF PlaneInv, FlowSound
    <3> QED BY <3>1, <3>2 DEF Next1
  <2>4. Recording(m)
    BY <1>1, <1>4, <2>2, <2>3, WriteMain DEF StillDropped, agentVars
  <2>5. FlowSound'  BY <1>1, <1>4, <2>1, <2>3, <2>4, FlowRecorded
  <2>6. ModeSound'
    BY <1>1, <2>1 DEF PlaneInv, ModeSound, InQueue, NothingActive, agentVars
  <2>7. SessionsSound' /\ \A u \in Typed : StreamsEnd(u) => StreamsEnd(u)'
    BY <2>4 DEF Recording
  <2>8. StreamsSound'
    <3>1. ASSUME NEW u \in Typed, hand'["stream"] = Message("pieces", u)
          PROVE  ~Recorded(u)'
      <4>1. hand["stream"] # Idle  BY <2>1, <3>1 DEF Idle, Message
      <4>2. ~Recorded(u) /\ (m = Message("final", u) => StreamFirst)
        BY <2>1, <3>1 DEF PlaneInv, StreamsSound
      <4>3. m # Message("final", u)  BY <1>3, <1>6, <4>1, <4>2
      <4> QED BY <2>4, <4>2, <4>3, TurnFields DEF Recording
    <3>2. \A u \in Typed : hand'["main"] # Message("final", u)
      BY <2>1 DEF Idle, Message
    <3> QED BY <1>5, <2>7, <3>1, <3>2 DEF PlaneInv, StreamsSound, Distinct
  <2>9. TypeOK'
    BY <1>1, <1>3, <2>4 DEF PlaneInv, TypeOK, Recording, RecordSet, agentVars
  <2> QED BY <1>3, <1>5, <2>5, <2>6, <2>7, <2>8, <2>9 DEF PlaneInv
<1>7. CASE w = "stream"
  <2>1. m = hand["stream"] /\ hand'["stream"] = Idle /\ hand'["main"] = hand["main"]
    BY <1>2, <1>7 DEF m, Workers
  <2>2. m.kind = "pieces" /\ m = Message("pieces", m.turn) /\ m.turn \in Turns
    BY <1>3, <1>4, <1>7, <2>1, MessageFields DEF PlaneInv, LineSound
  <2>3. m.turn \in Typed => ~Recorded(m.turn)
    BY <2>1, <2>2 DEF PlaneInv, StreamsSound
  <2>4. /\ UNCHANGED <<bound, records>> /\ streams' \subseteq Keys /\ SessionsSound'
        /\ \A u \in Typed : StreamsEnd(u) => StreamsEnd(u)'
    BY <1>1, <2>2, <2>3, WritePieces DEF StillDropped, agentVars
  <2>5. FlowSound'  BY <1>1, <2>1, <2>4 DEF PlaneInv, FlowSound, InHand
  <2>6. ModeSound'
    BY <1>1, <2>1 DEF PlaneInv, ModeSound, InHand, InQueue, NothingActive, agentVars
  <2>7. StreamsSound'
    <3>1. \A u \in Typed : Recorded(u)' => Recorded(u)  BY <2>4 DEF Recorded
    <3> QED BY <1>3, <1>5, <2>1, <2>4, <3>1, StreamsKept
  <2>8. TypeOK'
    BY <1>1, <1>3, <2>4 DEF PlaneInv, TypeOK, agentVars
  <2> QED BY <1>3, <1>5, <2>4, <2>5, <2>6, <2>7, <2>8 DEF PlaneInv
<1> QED BY <1>0, <1>6, <1>7 DEF w, Workers

-----------------------------------------------------------------------------
\* The commands.  A switch of the session finds no message on its way to the
\* records, and no turn of the main agent between its message and its reply,
\* but one that waits for the agent's loop and is dropped.
LEMMA SwitchFindsNone ==
  ASSUME PlaneInv, SwitchSafe, Accepting,
         NEW i \in 1 .. Len(records), records[i].kind = "user", records[i].turn \in Chat
  PROVE  Recorded(records[i].turn) \/ Cleared[records[i].turn] = "dropped"
<1> DEFINE t == records[i].turn
<1>1. /\ queue = <<>> /\ hand["main"] = Idle /\ \A u \in Turns : stage[u] # "running"
      /\ mode = "open"
  BY DEF SwitchSafe, AgentsWork, PendingPersistence, PendingWrites, Workers, Running, Accepting
<1>2. /\ records \in Seq(RecordSet) /\ published \in Seq(Messages) /\ Len(records) \in Nat
      /\ stage \in [Turns -> Stages]
  BY DEF PlaneInv, TypeOK, RecordSet, Stages
<1>a. t \in Turns  BY TurnFields
<1>3. Len(published) = Len(records) /\ \A j \in 1 .. Len(records) : Same(records[j], published[j])
  BY <1>1, <1>2 DEF PlaneInv, FlowSound, InHand
<1>4. i \in 1 .. Len(published) /\ published[i] = Message("user", t)
  BY <1>2, <1>3, MessageFields DEF Same
<1>5. stage[t] # "new"
  BY <1>a, <1>4 DEF PlaneInv, TurnsSound, IsPublished
<1>6. stage[t] \notin {"sent", "stopped"}
  <2>1. ~InQueue(t)  BY <1>1 DEF InQueue
  <2> QED BY <1>1, <1>a, <2>1 DEF PlaneInv, ModeSound
<1>7. CASE stage[t] \in {"queued", "dropped"}
  BY <1>a, <1>7 DEF Cleared, Queued
<1>7a. stage[t] \in {"queued", "dropped", "ended"}
  BY <1>1, <1>2, <1>a, <1>5, <1>6 DEF Stages
<1> SUFFICES ASSUME stage[t] = "ended" PROVE Recorded(t)
  BY <1>7, <1>7a
<1>8. PICK j \in 1 .. Len(published) : published[j] = Message("final", t)
  BY <1>a DEF PlaneInv, TurnsSound, IsPublished
<1>9. j \in 1 .. Len(records) /\ records[j].kind = "final" /\ records[j].turn = t
  BY <1>3, <1>a, <1>8, MessageFields DEF Same
<1> QED BY <1>9 DEF Recorded

LEMMA EffectStage ==
  ASSUME TypeOK, NEW c \in Commands, Effect(c)
  PROVE  \A t \in Turns : stage[t] = "new" => stage'[t] = "new" \/ c.kind = "send"
BY DEF Effect, Cleared, Queued

\* A message is sent: it is published and its turn has begun.
LEMMA SendSound ==
  ASSUME PlaneInv, NEW t \in Turns, stage[t] = "new", Accepting, Publish(Message("user", t)),
         stage' = [stage EXCEPT ![t] = "sent"],
         UNCHANGED <<plane, hand, records, made, streams, bound, current, quiesced, mode>>,
         line' \in Seq(Requests), held' \in BOOLEAN, commands' \in 0 .. MaxCommands,
         LineSound', CommandsSound', StreamFirst => StreamFirst'
  PROVE  PlaneInv'
<1>1. /\ stage' \in [Turns -> Stages] /\ stage'[t] = "sent"
      /\ \A u \in Turns \ {t} : stage'[u] = stage[u]
  BY DEF PlaneInv, TypeOK, Stages
<1>2. \A u \in Turns : /\ stage'[u] = "new" <=> stage[u] = "new" /\ ~(u = t)
                       /\ stage'[u] = "ended" <=> stage[u] = "ended"
  BY <1>1
<1>3. TurnsSound' /\ FlowSound' /\ queue' \in Seq(Messages) /\ published' \in Seq(Messages)
  <2>1. \A u \in Turns :
          /\ stage'[u] = "new" <=> stage[u] = "new" /\ ~(u = t /\ "user" = "user")
          /\ stage'[u] = "ended" <=> stage[u] = "ended" \/ (u = t /\ "user" = "final")
    BY <1>2
  <2> QED BY <2>1, PublishSound
<1>4. SessionsSound'
  <2>1. StillDropped  BY <1>1 DEF StillDropped
  <2> QED BY <2>1, SessionsKept DEF PlaneInv
<1>5. ModeSound'
  <2>1. mode = "open" /\ ~quiesced  BY DEF Accepting
  <2>2. ASSUME NEW u \in Turns, stage'[u] = "sent" PROVE InQueue(u)'
    <3>0. /\ Len(queue') = Len(queue) + 1 /\ queue'[Len(queue) + 1] = Message("user", t)
          /\ \A i \in 1 .. Len(queue) : queue'[i] = queue[i]
          /\ Len(queue) \in Nat
      BY MessageFields, AppendFields DEF PlaneInv, TypeOK, Publish
    <3>1. CASE u = t  BY <3>0, <3>1 DEF InQueue
    <3>2. CASE u # t
      <4>1. PICK i \in 1 .. Len(queue) : queue[i] = Message("user", u)
        BY <1>1, <2>2, <3>2 DEF PlaneInv, ModeSound, InQueue
      <4> QED BY <3>0, <4>1 DEF InQueue
    <3> QED BY <3>1, <3>2
  <2>4. \A u \in Turns : stage'[u] # "stopped"
    BY <1>1, <2>1 DEF PlaneInv, ModeSound
  <2> QED BY <2>1, <2>2, <2>4 DEF ModeSound
<1>6. StreamsSound'
  <2>1. \A u \in Typed : Waits(u)' => stage'[u] # "ended"
    BY <1>2, TurnFields DEF PlaneInv, StreamsSound, Waits
  <2>2. \A u \in Typed : (Recorded(u)' => Recorded(u)) /\ (StreamsEnd(u) => StreamsEnd(u)')
    BY DEF Recorded, StreamsEnd
  <2>3. Distinct(plane')  BY DEF PlaneInv, StreamsSound, Distinct
  <2> QED BY <2>1, <2>2, <2>3, StreamsKept
<1>7. TypeOK'
  BY <1>1, <1>3 DEF PlaneInv, TypeOK, Stages
<1> QED BY <1>3, <1>4, <1>5, <1>6, <1>7 DEF PlaneInv

\* The session is switched: no message of the main agent waits for its reply,
\* and those in its queue are dropped.
LEMMA SwitchSound ==
  ASSUME PlaneInv, Accepting, SwitchSafe, current' \in Sessions,
         streams' = {k \in streams : k[2] \notin Chat},
         bound' = [t \in Turns |-> IF t \in Chat THEN "none" ELSE bound[t]],
         stage' = Cleared,
         UNCHANGED <<plane, hand, records, made, queue, published, quiesced, mode>>,
         line' \in Seq(Requests), held' \in BOOLEAN, commands' \in 0 .. MaxCommands,
         LineSound', CommandsSound', StreamFirst => StreamFirst'
  PROVE  PlaneInv'
<1>0. /\ stage' \in [Turns -> Stages]
      /\ \A t \in Turns : \/ stage'[t] = stage[t]
                          \/ stage[t] = "queued" /\ stage'[t] = "dropped"
  BY DEF PlaneInv, TypeOK, Cleared, Queued, Stages
<1>1. TurnsSound' /\ FlowSound' /\ ModeSound'
  <2>1. \A t \in Turns : /\ stage'[t] = "new" <=> stage[t] = "new"
                         /\ stage'[t] = "ended" <=> stage[t] = "ended"
    BY <1>0
  <2>2. ModeSound'
    <3>1. mode = "open" /\ ~quiesced  BY DEF Accepting
    <3>2. \A t \in Turns : (stage'[t] = "sent" => InQueue(t)) /\ stage'[t] # "stopped"
      BY <1>0, <3>1 DEF PlaneInv, ModeSound
    <3>3. \A t \in Turns : InQueue(t) => InQueue(t)'  BY DEF InQueue
    <3> QED BY <3>1, <3>2, <3>3 DEF ModeSound
  <2> QED BY <2>1, <2>2, TurnsKept, FlowKept DEF PlaneInv
<1>2. SessionsSound'
  <2>1. \A t \in Turns : bound'[t] = IF t \in Chat THEN "none" ELSE bound[t]
    OBVIOUS
  <2>2. ASSUME NEW i \in 1 .. Len(records), NEW t \in Turns,
               records[i].kind = "user", records[i].turn = t, ~Recorded(t),
               stage'[t] # "dropped"
        PROVE  bound'[t] = records[i].session
    <3>1. t \notin Chat  BY <2>2, SwitchFindsNone
    <3>2. bound[t] = records[i].session  BY <1>0, <2>2 DEF PlaneInv, SessionsSound
    <3> QED BY <2>1, <3>1, <3>2
  <2>3. \A t \in Turns : Recorded(t)' <=> Recorded(t)  BY DEF Recorded
  <2>4. OneSession'  BY DEF PlaneInv, SessionsSound, OneSession
  <2>5. \A t \in Typed : bound'[t] \in {"own", "none"}
    BY <2>1, TurnFields DEF PlaneInv, SessionsSound
  <2>6. \A t \in Chat : bound'[t] \in Sessions \cup {"none"}
    BY <2>1, TurnFields
  <2>7. \A k \in streams' : k[2] \in Typed => k[1] = "own"
    BY DEF PlaneInv, SessionsSound
  <2> QED BY <2>2, <2>3, <2>4, <2>5, <2>6, <2>7 DEF SessionsSound
<1>3. StreamsSound'
  <2>1. \A u \in Typed : Waits(u)' => stage'[u] # "ended"
    BY <1>0, TurnFields DEF PlaneInv, StreamsSound, Waits
  <2>2. \A u \in Typed : (Recorded(u)' => Recorded(u)) /\ (StreamsEnd(u) => StreamsEnd(u)')
    BY DEF Recorded, StreamsEnd
  <2>3. Distinct(plane')  BY DEF PlaneInv, StreamsSound, Distinct
  <2> QED BY <2>1, <2>2, <2>3, StreamsKept
<1>4. TypeOK'
  <2>1. bound' \in [Turns -> Sessions \cup {"own", "none"}]
    BY DEF PlaneInv, TypeOK
  <2>2. streams' \subseteq Keys
    BY DEF PlaneInv, TypeOK
  <2> QED BY <1>0, <2>1, <2>2 DEF PlaneInv, TypeOK, Stages
<1> QED BY <1>1, <1>2, <1>3, <1>4 DEF PlaneInv

\* A command that leaves the messages, the turns and the sessions alone.
LEMMA CommandKeeps ==
  ASSUME PlaneInv, ModeSound',
         UNCHANGED <<plane, hand, records, made, queue, published, stage, streams, bound, current>>,
         quiesced' \in BOOLEAN, mode' \in {"open", "draining", "stopped", "closed"},
         line' \in Seq(Requests), held' \in BOOLEAN, commands' \in 0 .. MaxCommands,
         LineSound', CommandsSound', StreamFirst => StreamFirst'
  PROVE  PlaneInv'
<1>1. TurnsSound' /\ FlowSound' /\ SessionsSound'
  BY TurnsKept, FlowKept, SessionsKept DEF PlaneInv, StillDropped
<1>2. StreamsSound'
  <2>1. \A u \in Typed : Waits(u)' => stage'[u] # "ended"
    BY DEF PlaneInv, StreamsSound, Waits
  <2>2. \A u \in Typed : (Recorded(u)' => Recorded(u)) /\ (StreamsEnd(u) => StreamsEnd(u)')
    BY DEF Recorded, StreamsEnd
  <2>3. Distinct(plane')  BY DEF PlaneInv, StreamsSound, Distinct
  <2> QED BY <2>1, <2>2, <2>3, StreamsKept
<1>3. TypeOK'
  BY DEF PlaneInv, TypeOK
<1> QED BY <1>1, <1>2, <1>3 DEF PlaneInv

LEMMA EffectSound ==
  ASSUME PlaneInv, NEW c \in Commands, Effect(c), c.kind = "send" => stage[c.turn] = "new",
         UNCHANGED <<plane, hand, records, made>>,
         line' \in Seq(Requests), held' \in BOOLEAN, commands' \in 0 .. MaxCommands,
         LineSound', CommandsSound', StreamFirst => StreamFirst'
  PROVE  PlaneInv'
<1>a. quiesced \in BOOLEAN /\ mode \in {"open", "draining", "stopped", "closed"}
      /\ current \in Sessions
  BY DEF PlaneInv, TypeOK
<1>1. CASE /\ c.kind = "send" /\ Accepting /\ Publish(Message("user", c.turn))
           /\ stage' = [stage EXCEPT ![c.turn] = "sent"]
           /\ UNCHANGED <<streams, bound, current, quiesced, mode>>
  <2>1. c.turn \in Turns  BY <1>1, RequestFields
  <2> QED BY <1>1, <2>1, SendSound
<1>2. CASE /\ c.kind = "switch" /\ Accepting /\ SwitchSafe
           /\ current' \in Sessions \ {current}
           /\ streams' = {k \in streams : k[2] \notin Chat}
           /\ bound' = [t \in Turns |-> IF t \in Chat THEN "none" ELSE bound[t]]
           /\ stage' = Cleared
           /\ UNCHANGED <<queue, published, quiesced, mode>>
  BY <1>2, SwitchSound
<1>3. CASE /\ c.kind = "quiesce" /\ Accepting /\ ~MaintenanceBusy /\ quiesced' = TRUE
           /\ UNCHANGED <<queue, published, stage, streams, bound, current, mode>>
  <2>1. queue = <<>> /\ InHand = 0
    BY <1>3 DEF MaintenanceBusy, PendingPersistence, PendingWrites, Workers, InHand
  <2>2. NothingActive
    BY <1>3 DEF MaintenanceBusy, AgentsWork, Running, NothingActive, Active
  <2>3. ModeSound'
    BY <1>3, <2>1, <2>2 DEF PlaneInv, ModeSound, InHand, NothingActive, InQueue
  <2> QED BY <1>3, <1>a, <2>3, CommandKeeps
<1>4. CASE /\ c.kind = "release" /\ quiesced' = FALSE
           /\ UNCHANGED <<queue, published, stage, streams, bound, current, mode>>
  <2>1. ModeSound'
    BY <1>4 DEF PlaneInv, ModeSound, InHand, NothingActive, InQueue
  <2> QED BY <1>4, <1>a, <2>1, CommandKeeps
<1>5. CASE /\ c.kind = "shutdown" /\ mode' = (IF mode = "open" THEN "draining" ELSE mode)
           /\ UNCHANGED <<queue, published, stage, streams, bound, current, quiesced>>
  <2>1. ModeSound'
    BY <1>5 DEF PlaneInv, ModeSound, InHand, NothingActive, InQueue
  <2> QED BY <1>5, <1>a, <2>1, CommandKeeps
<1>6. CASE UNCHANGED <<queue, published, stage, streams, bound, current, quiesced, mode>>
  <2>1. ModeSound'  BY <1>6, ModeKept DEF PlaneInv
  <2> QED BY <1>6, <1>a, <2>1, CommandKeeps
<1> QED BY <1>1, <1>2, <1>3, <1>4, <1>5, <1>6 DEF Effect

LEMMA CommandArrivesSound ==
  ASSUME PlaneInv, NEW c \in Commands, CommandArrives(c)
  PROVE  PlaneInv'
<1>1. /\ \A i \in 1 .. Len(line) : line[i].kind \in Workers
      /\ c.kind = "send" => stage[c.turn] = "new"
      /\ UNCHANGED <<plane, hand, records, made>>
  BY DEF CommandArrives, Unsent
<1>2. commands' \in 0 .. MaxCommands
  <2>1. commands \in 0 .. MaxCommands /\ MaxCommands \in Nat
    BY PlaneAssumption DEF PlaneInv, TypeOK
  <2> QED BY <2>1 DEF CommandArrives
<1>3. CASE LockFree
  <2>1. held' = TRUE /\ line = <<>> /\ line' = line /\ Effect(c)
    BY <1>3 DEF CommandArrives, LockFree
  <2>2. line' \in Seq(Requests) /\ LineSound' /\ CommandsSound' /\ (StreamFirst => StreamFirst')
    <3>1. LineSound'  BY <1>1, <2>1, LineKept DEF PlaneInv
    <3>2. CommandsSound'  BY <2>1 DEF CommandsSound
    <3>3. StreamFirst => StreamFirst'  BY <2>1 DEF StreamFirst, Stands
    <3> QED BY <2>1, <3>1, <3>2, <3>3, LineTyped DEF PlaneInv
  <2> QED BY <1>1, <1>2, <2>1, <2>2, EffectSound
<1>4. CASE ~LockFree
  <2>1. /\ line' = Append(line, c)
        /\ UNCHANGED <<held, queue, published, stage, streams, bound, current, quiesced, mode>>
    BY <1>4 DEF CommandArrives
  <2>2. line' \in Seq(Requests) /\ LineSound' /\ CommandsSound' /\ (StreamFirst => StreamFirst')
    BY <1>1, <2>1, CommandWaits
  <2>3. ModeSound'  BY <1>1, <2>1, ModeKept DEF PlaneInv
  <2>4. /\ quiesced' \in BOOLEAN /\ mode' \in {"open", "draining", "stopped", "closed"}
        /\ held' \in BOOLEAN
    BY <2>1 DEF PlaneInv, TypeOK
  <2> QED BY <1>1, <1>2, <2>1, <2>2, <2>3, <2>4, CommandKeeps
<1> QED BY <1>3, <1>4

LEMMA CommandGrantedSound ==
  ASSUME PlaneInv, CommandGranted
  PROVE  PlaneInv'
<1> DEFINE c == line[1]
<1>1. line \in Seq(Requests) /\ line # <<>> /\ hand \in [Workers -> Messages \cup {Idle}]
  BY LineTyped DEF CommandGranted, PlaneInv
<1>2. 1 \in 1 .. Len(line) /\ Head(line) = c /\ c \in Requests
  BY <1>1
<1>3. /\ c.kind \notin Workers /\ line' = Tail(line) /\ held' = TRUE /\ Effect(c)
      /\ UNCHANGED <<plane, hand, records, made, commands>>
  BY <1>2 DEF CommandGranted
<1>4. c \in Commands  BY <1>2, <1>3, RequestFields
<1>5. c.kind = "send" => stage[c.turn] = "new"
  BY <1>2 DEF PlaneInv, CommandsSound
<1>6. hand' = [w \in Workers |-> IF w = c.kind THEN Idle ELSE hand[w]]
  BY <1>1, <1>3
<1>7. \A t \in Turns : stage[t] = "new" => stage'[t] = "new" \/ c.kind = "send"
  BY <1>3, <1>4, EffectStage DEF PlaneInv
<1>8. line' \in Seq(Requests) /\ LineSound' /\ CommandsSound' /\ (StreamFirst => StreamFirst')
  BY <1>1, <1>3, <1>6, <1>7, FirstLeaves
<1>9. commands' \in 0 .. MaxCommands /\ held' \in BOOLEAN
  BY <1>3 DEF PlaneInv, TypeOK
<1> HIDE DEF c
<1> QED BY <1>3, <1>4, <1>5, <1>8, <1>9, EffectSound

-----------------------------------------------------------------------------
\* The shutdown.
LEMMA CommandEndsSound ==
  ASSUME PlaneInv, CommandEnds
  PROVE  PlaneInv'
<1>1. /\ held' = FALSE
      /\ UNCHANGED <<queue, plane, hand, line, streams, bound, records, current, stage, made,
                     published, quiesced, mode, commands>>
  BY DEF CommandEnds, storeVars, agentVars
<1>2. ModeSound' /\ LineSound' /\ CommandsSound' /\ (StreamFirst => StreamFirst')
  BY <1>1, ModeKept, LineKept, CommandsKept DEF PlaneInv, StreamFirst, Stands
<1>3. /\ quiesced' \in BOOLEAN /\ mode' \in {"open", "draining", "stopped", "closed"}
      /\ line' \in Seq(Requests) /\ held' \in BOOLEAN /\ commands' \in 0 .. MaxCommands
  BY <1>1 DEF PlaneInv, TypeOK
<1> QED BY <1>1, <1>2, <1>3, CommandKeeps

LEMMA CloseSound ==
  ASSUME PlaneInv, Close
  PROVE  PlaneInv'
<1>1. /\ mode = "stopped" /\ ~PendingPersistence /\ mode' = "closed"
      /\ UNCHANGED <<queue, plane, hand, held, line, streams, bound, records, current, stage, made,
                     published, quiesced, commands>>
  BY DEF Close, storeVars, agentVars
<1>2. LineSound' /\ CommandsSound' /\ (StreamFirst => StreamFirst')
  BY <1>1, LineKept, CommandsKept DEF PlaneInv, StreamFirst, Stands
<1>3. /\ quiesced' \in BOOLEAN /\ mode' \in {"open", "draining", "stopped", "closed"}
      /\ line' \in Seq(Requests) /\ held' \in BOOLEAN /\ commands' \in 0 .. MaxCommands
  BY <1>1 DEF PlaneInv, TypeOK
<1>4. queue = <<>> /\ InHand = 0
  BY <1>1 DEF PendingPersistence, PendingWrites, Workers, InHand
<1>5. ModeSound'
  BY <1>1, <1>4 DEF PlaneInv, ModeSound, InHand, NothingActive, InQueue
<1> QED BY <1>1, <1>2, <1>3, <1>5, CommandKeeps

LEMMA StopProducersSound ==
  ASSUME PlaneInv, StopProducers
  PROVE  PlaneInv'
<1>1. /\ mode = "draining" /\ mode' = "stopped"
      /\ stage' = [t \in Turns |-> IF stage[t] \in {"queued", "running", "sent"}
                                   THEN "stopped" ELSE stage[t]]
      /\ UNCHANGED <<queue, plane, hand, held, line, streams, bound, records, current, made,
                     published, quiesced, commands>>
  BY DEF StopProducers, storeVars
<1>2. /\ stage' \in [Turns -> Stages]
      /\ \A t \in Turns : /\ stage'[t] = "new" <=> stage[t] = "new"
                          /\ stage'[t] = "ended" <=> stage[t] = "ended"
                          /\ stage[t] = "dropped" <=> stage'[t] = "dropped"
                          /\ stage'[t] \in {"new", "ended", "stopped", "dropped"}
  BY <1>1 DEF PlaneInv, TypeOK, Stages
<1>3. TurnsSound' /\ FlowSound' /\ SessionsSound' /\ LineSound'
  BY <1>1, <1>2, TurnsKept, FlowKept, SessionsKept, LineKept DEF PlaneInv, StillDropped
<1>4. ModeSound'
  <2>1. NothingActive'  BY <1>2 DEF NothingActive, Active
  <2>2. quiesced => queue = <<>> /\ InHand = 0  BY DEF PlaneInv, ModeSound
  <2>3. InHand' = InHand  BY <1>1 DEF InHand
  <2>4. \A t \in Turns : stage'[t] # "sent" /\ stage'[t] # "queued"  BY <1>2
  <2> QED BY <1>1, <2>1, <2>2, <2>3, <2>4 DEF ModeSound
<1>5. CommandsSound'
  <2>1. \A i \in 1 .. Len(line) : line[i].kind = "send" => line[i].turn \in Turns
    BY LineTyped, RequestFields DEF PlaneInv, Workers
  <2> QED BY <1>1, <1>2, <2>1 DEF PlaneInv, CommandsSound
<1>6. StreamsSound'
  <2>1. \A u \in Typed : Waits(u)' => stage'[u] # "ended"
    BY <1>1, <1>2, TurnFields DEF PlaneInv, StreamsSound, Waits
  <2>2. \A u \in Typed : (Recorded(u)' => Recorded(u)) /\ (StreamsEnd(u) => StreamsEnd(u)')
    BY <1>1 DEF Recorded, StreamsEnd
  <2>3. Distinct(plane')  BY <1>1 DEF PlaneInv, StreamsSound, Distinct
  <2>4. StreamFirst => StreamFirst'  BY <1>1 DEF StreamFirst, Stands
  <2> QED BY <1>1, <2>1, <2>2, <2>3, <2>4, StreamsKept
<1>7. TypeOK'
  BY <1>1, <1>2 DEF PlaneInv, TypeOK, Stages
<1> QED BY <1>3, <1>4, <1>5, <1>6, <1>7 DEF PlaneInv

LEMMA NothingChanges ==
  ASSUME PlaneInv, UNCHANGED vars
  PROVE  PlaneInv'
<1>1. UNCHANGED <<queue, plane, hand, held, line, streams, bound, records, current, stage, made,
                  published, quiesced, mode, commands>>
  BY DEF vars, storeVars, agentVars
<1>2. ModeSound' /\ LineSound' /\ CommandsSound' /\ (StreamFirst => StreamFirst')
  BY <1>1, ModeKept, LineKept, CommandsKept DEF PlaneInv, StreamFirst, Stands
<1>3. /\ quiesced' \in BOOLEAN /\ mode' \in {"open", "draining", "stopped", "closed"}
      /\ line' \in Seq(Requests) /\ held' \in BOOLEAN /\ commands' \in 0 .. MaxCommands
  BY <1>1 DEF PlaneInv, TypeOK
<1> QED BY <1>1, <1>2, <1>3, CommandKeeps

-----------------------------------------------------------------------------
\* The bus, the callback and the commands keep the invariant, whatever turns,
\* sessions, capacity and number of commands there are.
THEOREM PlaneInvariant == Spec => []PlaneInv
<1>1. Init => PlaneInv  BY InitSound
<1>2. PlaneInv /\ [Next]_vars => PlaneInv'
  <2> SUFFICES ASSUME PlaneInv, [Next]_vars PROVE PlaneInv'
    OBVIOUS
  <2>0. ASSUME NEW t \in Turns, Wakes(t) PROVE PlaneInv'  BY <2>0, WakesSound
  <2>1. ASSUME NEW t \in Turns, Stream(t) PROVE PlaneInv'  BY <2>1, StreamSound
  <2>2. ASSUME NEW t \in Turns, Finish(t) PROVE PlaneInv'  BY <2>2, FinishSound
  <2>3. CASE MainTakes  BY <2>3, MainTakesSound
  <2>4. CASE StreamTakes  BY <2>4, StreamTakesSound
  <2>5. CASE WorkerWrites  BY <2>5, WorkerWritesSound
  <2>6. ASSUME NEW c \in Commands, CommandArrives(c) PROVE PlaneInv'
    BY <2>6, CommandArrivesSound
  <2>7. CASE CommandGranted  BY <2>7, CommandGrantedSound
  <2>8. CASE CommandEnds  BY <2>8, CommandEndsSound
  <2>9. CASE StopProducers  BY <2>9, StopProducersSound
  <2>10. CASE Close  BY <2>10, CloseSound
  <2>11. CASE UNCHANGED vars  BY <2>11, NothingChanges
  <2> QED BY <2>0, <2>1, <2>2, <2>3, <2>4, <2>5, <2>6, <2>7, <2>8, <2>9, <2>10, <2>11 DEF Next
<1> QED BY <1>1, <1>2, PTL DEF Spec

\* The state has its type, and the plane of the pieces its capacity.
THEOREM PlaneTypeCorrect == Spec => []TypeOK
<1>1. PlaneInv => TypeOK  BY DEF PlaneInv
<1> QED BY <1>1, PlaneInvariant, PTL

\* The records are what was published, in order, and all of it once the bus
\* is closed: quiescence and shutdown come after the last write.
THEOREM RecordsAreInOrder == Spec => []RecordedInOrder
<1>1. PlaneInv => RecordedInOrder
  <2> SUFFICES ASSUME PlaneInv PROVE RecordedInOrder
    OBVIOUS
  <2>1. Len(records) \in Nat /\ Len(queue) \in Nat /\ InHand \in {0, 1}
    BY DEF PlaneInv, TypeOK, InHand
  <2>2. /\ Len(published) = Len(records) + InHand + Len(queue)
        /\ \A i \in 1 .. Len(records) : Same(records[i], published[i])
    BY DEF PlaneInv, FlowSound
  <2>3. mode = "closed" => Len(queue) = 0 /\ InHand = 0
    BY DEF PlaneInv, ModeSound
  <2> QED BY <2>1, <2>2, <2>3 DEF RecordedInOrder, Same
<1> QED BY <1>1, PlaneInvariant, PTL

\* A message and its reply are in one session: switch_session cannot come
\* between them, however many turns and sessions there are.
THEOREM OneSessionKept == Spec => []OneSession
<1>1. PlaneInv => OneSession  BY DEF PlaneInv, SessionsSound
<1> QED BY <1>1, PlaneInvariant, PTL

\* The stream of a workflow agent's turn is gone once its reply is recorded,
\* and no piece of it brings it back.
THEOREM AttemptStreamsAreEnded == Spec => []AttemptStreamsEnd
<1>1. PlaneInv => AttemptStreamsEnd
  BY DEF PlaneInv, StreamsSound, AttemptStreamsEnd
<1> QED BY <1>1, PlaneInvariant, PTL

\* A control message that is not recorded yet is queued before a worker that
\* is free, or its worker stands in a line of no more than three.
THEOREM BacklogIsAlwaysServed == Spec => []BacklogIsServed
<1>1. ASSUME PlaneInv, Len(records) < Len(published)
      PROVE  /\ mode # "closed"
             /\ IF hand["main"] = Idle THEN queue # <<>>
                ELSE \E i \in 1 .. Len(line) : Stands("main", i)
  <2>1. /\ Len(published) = Len(records) + InHand + Len(queue)
        /\ mode = "closed" => queue = <<>> /\ InHand = 0
    BY <1>1 DEF PlaneInv, FlowSound, ModeSound
  <2>2. records \in Seq(RecordSet) /\ published \in Seq(Messages) /\ queue \in Seq(Messages)
    BY <1>1 DEF PlaneInv, TypeOK, RecordSet
  <2>3. Len(records) \in Nat /\ Len(published) \in Nat /\ (queue = <<>> => Len(queue) = 0)
    BY <2>2
  <2>4. mode # "closed" /\ (InHand = 0 => queue # <<>>)
    BY <1>1, <2>1, <2>3
  <2>5. hand["main"] # Idle => \E i \in 1 .. Len(line) : Stands("main", i)
    BY <1>1 DEF PlaneInv, LineSound, Workers
  <2> QED BY <2>4, <2>5 DEF InHand
<1>2. ASSUME PlaneInv
      PROVE  Len(line) <= 3
  <2>1. line \in Seq(Requests)
    BY <1>2 DEF PlaneInv, TypeOK
  \* Two of four would be the same worker's or both a command's.
  <2>2. \A i, j \in 1 .. Len(line) : i # j =>
          /\ ~ (line[i].kind = "main" /\ line[j].kind = "main")
          /\ ~ (line[i].kind = "stream" /\ line[j].kind = "stream")
          /\ line[i].kind \in {"main", "stream"} \/ line[j].kind \in {"main", "stream"}
    BY <1>2 DEF PlaneInv, LineSound, CommandsSound, Stands, Workers
  <2>3. ASSUME Len(line) >= 4
        PROVE  FALSE
    <3>1. 1 \in 1 .. Len(line) /\ 2 \in 1 .. Len(line) /\ 3 \in 1 .. Len(line) /\ 4 \in 1 .. Len(line)
      BY <2>1, <2>3
    <3>2. /\ ~ (line[1].kind = "main" /\ line[2].kind = "main")
          /\ ~ (line[1].kind = "stream" /\ line[2].kind = "stream")
          /\ line[1].kind \in {"main", "stream"} \/ line[2].kind \in {"main", "stream"}
      BY <2>2, <3>1
    <3>3. /\ ~ (line[1].kind = "main" /\ line[3].kind = "main")
          /\ ~ (line[1].kind = "stream" /\ line[3].kind = "stream")
          /\ line[1].kind \in {"main", "stream"} \/ line[3].kind \in {"main", "stream"}
      BY <2>2, <3>1
    <3>4. /\ ~ (line[1].kind = "main" /\ line[4].kind = "main")
          /\ ~ (line[1].kind = "stream" /\ line[4].kind = "stream")
          /\ line[1].kind \in {"main", "stream"} \/ line[4].kind \in {"main", "stream"}
      BY <2>2, <3>1
    <3>5. /\ ~ (line[2].kind = "main" /\ line[3].kind = "main")
          /\ ~ (line[2].kind = "stream" /\ line[3].kind = "stream")
          /\ line[2].kind \in {"main", "stream"} \/ line[3].kind \in {"main", "stream"}
      BY <2>2, <3>1
    <3>6. /\ ~ (line[2].kind = "main" /\ line[4].kind = "main")
          /\ ~ (line[2].kind = "stream" /\ line[4].kind = "stream")
          /\ line[2].kind \in {"main", "stream"} \/ line[4].kind \in {"main", "stream"}
      BY <2>2, <3>1
    <3>7. /\ ~ (line[3].kind = "main" /\ line[4].kind = "main")
          /\ ~ (line[3].kind = "stream" /\ line[4].kind = "stream")
          /\ line[3].kind \in {"main", "stream"} \/ line[4].kind \in {"main", "stream"}
      BY <2>2, <3>1
    <3> QED BY <3>2, <3>3, <3>4, <3>5, <3>6, <3>7
  <2>4. Len(line) \in Nat
    BY <2>1
  <2> QED BY <2>3, <2>4
<1>3. PlaneInv => BacklogIsServed
  BY <1>1, <1>2 DEF BacklogIsServed
<1> QED BY <1>3, PlaneInvariant, PTL
=============================================================================
