-------------------------- MODULE EventStreamProofs --------------------------
(***************************************************************************)
(* Proofs about EventStream for any connections, capacities, messages and  *)
(* bounds: every buffer keeps its capacity, and what is under way to a     *)
(* client leaves no event out but those a heartbeat dropped.               *)
(***************************************************************************)
EXTENDS EventStream, SequenceTheorems, TLAPS

USE CapacitiesArePositive, BoundsAreNatural

Texts  == [Channels -> Seq(Tokens)]
Frames == [type : {"delta", "completed", "other", "resync"},
           message : Messages \cup {NoMessage}, text : Texts, from : Nat, seq : Nat]
Links  == [phase : {"free", "open", "ended"}, buffer : Seq(Frames), closed : BOOLEAN,
           taken : Seq(Frames), wire : Seq(Frames), got : Nat, lost : SUBSET Numbers]

-----------------------------------------------------------------------------
\* Frames that follow each other from number g: each begins after the one before
\* it, what lies between was lost, and nothing follows a resync.
Before(g, s, i) == IF i = 1 THEN g ELSE s[i - 1].seq
End(g, s) == IF Len(s) = 0 THEN g ELSE s[Len(s)].seq
FrameFollows(g, s, lost, i) ==
  IF s[i].type = "resync" THEN i = Len(s)
  ELSE /\ s[i].from > Before(g, s, i)
       /\ (Before(g, s, i) + 1) .. (s[i].from - 1) \subseteq lost
Follow(g, s, lost) == \A i \in 1 .. Len(s) : FrameFollows(g, s, lost, i)
NoResync(s) == \A i \in 1 .. Len(s) : s[i].type # "resync"
\* Frames stand for numbers up to n.
Upto(s, n) == \A i \in 1 .. Len(s) : s[i].from <= s[i].seq /\ s[i].seq <= n

LinkSound(l, n) ==
  /\ l \in Links /\ Len(l.buffer) <= ClientCapacity /\ Len(l.taken) <= 1
  /\ l.got <= n
  /\ Upto(UnderWay(l), n) /\ Follow(l.got, UnderWay(l), l.lost)
  /\ l.phase = "open" /\ ~l.closed =>
       /\ NoResync(UnderWay(l))
       /\ (End(l.got, UnderWay(l)) + 1) .. n \subseteq l.lost

ServerSound ==
  /\ epoch \in 1..MaxEpochs /\ up \in BOOLEAN /\ sequence \in Numbers
  /\ replay \in Seq(Frames) /\ Len(replay) <= ReplayCapacity /\ Len(replay) <= sequence
  /\ Len(replay) = 0 => sequence = 0
  /\ \A i \in 1 .. Len(replay) :
       /\ replay[i].type # "resync" /\ replay[i].from = replay[i].seq
       /\ replay[i].seq = sequence - Len(replay) + i

\* The inductive invariant: the replay holds the last events, numbered without a
\* gap, and every connection's frames follow each other.
StreamInv ==
  /\ ServerSound
  /\ link \in [Connections -> Links]
  /\ \A c \in Connections : LinkSound(link[c], sequence)

-----------------------------------------------------------------------------
LEMMA TextTypes ==
  /\ NoText \in Texts
  /\ \A kind \in Kinds :
       /\ kind.type \in {"delta", "completed", "other"}
       /\ kind.message \in Messages \cup {NoMessage} /\ kind.text \in Texts
  /\ \A a, b \in Texts : JoinText(a, b) \in Texts
<1>1. NoText \in Texts
  BY DEF NoText, Texts
<1>2. \A ch \in Channels, t \in Tokens : Piece(ch, t) \in Texts
  BY <1>1 DEF Piece, Texts
<1>3. \A kind \in Kinds :
        /\ kind.type \in {"delta", "completed", "other"}
        /\ kind.message \in Messages \cup {NoMessage} /\ kind.text \in Texts
  BY <1>1, <1>2 DEF Kinds
<1>4. \A x, y \in Seq(Tokens) : JoinContent(x, y) \in Seq(Tokens)
  BY DEF JoinContent
<1>5. ASSUME NEW a \in Texts, NEW b \in Texts PROVE JoinText(a, b) \in Texts
  BY <1>4 DEF JoinText, Texts
<1> QED BY <1>1, <1>3, <1>5

LEMMA FrameTypes ==
  /\ \A kind \in Kinds, n \in Nat :
       /\ Frame(kind, n, n) \in Frames /\ Frame(kind, n, n).type # "resync"
       /\ Frame(kind, n, n).from = n /\ Frame(kind, n, n).seq = n
  /\ \A n \in Nat : Resync(n) \in Frames /\ Resync(n).type = "resync"
                    /\ Resync(n).from = n /\ Resync(n).seq = n
BY TextTypes DEF Frame, Frames, Resync

LEMMA FrameFields ==
  ASSUME NEW f \in Frames
  PROVE  /\ f.type \in {"delta", "completed", "other", "resync"}
         /\ f.message \in Messages \cup {NoMessage} /\ f.text \in Texts
         /\ f.from \in Nat /\ f.seq \in Nat
         /\ DOMAIN f = {"type", "message", "text", "from", "seq"}
BY DEF Frames

LEMMA LinkFields ==
  ASSUME NEW l \in Links
  PROVE  /\ l.phase \in {"free", "open", "ended"} /\ l.closed \in BOOLEAN
         /\ l.buffer \in Seq(Frames) /\ l.taken \in Seq(Frames) /\ l.wire \in Seq(Frames)
         /\ l.got \in Nat /\ l.lost \in SUBSET Numbers
         /\ UnderWay(l) \in Seq(Frames)
         /\ Len(UnderWay(l)) = Len(l.wire) + Len(l.taken) + Len(l.buffer)
         /\ \A i \in 1 .. Len(UnderWay(l)) : UnderWay(l)[i] \in Frames
BY DEF Links, UnderWay

-----------------------------------------------------------------------------
\* What a step does to the frames under way.
LEMMA FollowAppend ==
  ASSUME NEW g \in Nat, NEW s \in Seq(Frames), NEW lost, NEW f \in Frames,
         Follow(g, s, lost), NoResync(s),
         f.type # "resync" => /\ f.from > End(g, s)
                              /\ (End(g, s) + 1) .. (f.from - 1) \subseteq lost
  PROVE  Follow(g, Append(s, f), lost)
<1> DEFINE t == Append(s, f)
<1>1. t \in Seq(Frames) /\ Len(t) = Len(s) + 1 /\ t[Len(t)] = f
      /\ \A i \in 1 .. Len(s) : t[i] = s[i]
  OBVIOUS
<1>2. SUFFICES ASSUME NEW i \in 1 .. Len(t) PROVE FrameFollows(g, t, lost, i)
  BY DEF Follow
<1>3. CASE i = Len(t)
  <2>1. Before(g, t, i) = End(g, s)
    BY <1>1, <1>3 DEF Before, End
  <2> QED BY <1>1, <1>3, <2>1 DEF FrameFollows
<1>4. CASE i # Len(t)
  <2>1. i \in 1 .. Len(s) /\ t[i] = s[i] /\ s[i].type # "resync"
    BY <1>1, <1>4 DEF NoResync
  <2>2. Before(g, t, i) = Before(g, s, i)
    BY <1>1, <2>1 DEF Before
  <2> QED BY <2>1, <2>2 DEF FrameFollows, Follow
<1> QED BY <1>3, <1>4

LEMMA FollowFront ==
  ASSUME NEW g \in Nat, NEW s \in Seq(Frames), NEW lost, NEW f \in Frames,
         Follow(g, Append(s, f), lost)
  PROVE  /\ Follow(g, s, lost) /\ NoResync(s)
         /\ f.type # "resync" => /\ f.from > End(g, s)
                                /\ (End(g, s) + 1) .. (f.from - 1) \subseteq lost
<1> DEFINE t == Append(s, f)
<1>1. t \in Seq(Frames) /\ Len(t) = Len(s) + 1 /\ t[Len(t)] = f
      /\ \A i \in 1 .. Len(s) : t[i] = s[i]
  OBVIOUS
<1>2. ASSUME NEW i \in 1 .. Len(s) PROVE FrameFollows(g, s, lost, i) /\ s[i].type # "resync"
  <2>1. FrameFollows(g, t, lost, i) /\ t[i] = s[i] /\ i # Len(t)
    BY <1>1 DEF Follow
  <2>2. Before(g, t, i) = Before(g, s, i)
    BY <1>1 DEF Before
  <2> QED BY <2>1, <2>2 DEF FrameFollows
<1>3. FrameFollows(g, t, lost, Len(t)) /\ Before(g, t, Len(t)) = End(g, s)
  BY <1>1 DEF Follow, Before, End
<1> QED BY <1>1, <1>2, <1>3 DEF Follow, NoResync, FrameFollows

\* The first frame is received.
LEMMA FollowTail ==
  ASSUME NEW g \in Nat, NEW s \in Seq(Frames), NEW lost,
         Follow(g, s, lost), Len(s) > 0, s[1].type # "resync"
  PROVE  Follow(s[1].seq, Tail(s), lost) /\ End(s[1].seq, Tail(s)) = End(g, s)
<1> DEFINE t == Tail(s)
<1>1. t \in Seq(Frames) /\ Len(t) = Len(s) - 1 /\ \A i \in 1 .. Len(t) : t[i] = s[i + 1]
  OBVIOUS
<1> HIDE DEF t
<1>2. ASSUME NEW i \in 1 .. Len(t) PROVE FrameFollows(s[1].seq, t, lost, i)
  <2>1. Before(s[1].seq, t, i) = Before(g, s, i + 1) /\ i + 1 \in 1 .. Len(s)
    BY <1>1 DEF Before
  <2>2. FrameFollows(g, s, lost, i + 1) /\ t[i] = s[i + 1] /\ (i + 1 = Len(s) => i = Len(t))
    BY <1>1, <2>1 DEF Follow
  <2> QED BY <2>1, <2>2 DEF FrameFollows
<1>3. End(s[1].seq, t) = End(g, s)
  BY <1>1 DEF End
<1> QED BY <1>2, <1>3 DEF Follow, t

\* A heartbeat drops frame k: what it stood for is lost.
Without(s, k) == [i \in 1 .. Len(s) - 1 |-> IF i < k THEN s[i] ELSE s[i + 1]]

LEMMA FollowWithout ==
  ASSUME NEW g \in Nat, NEW s \in Seq(Frames), NEW lost, NEW k \in 1 .. Len(s),
         Follow(g, s, lost), s[k].type # "resync", s[k].from <= s[k].seq
  PROVE  LET wider == lost \cup (s[k].from .. s[k].seq)
         IN  /\ Without(s, k) \in Seq(Frames) /\ Follow(g, Without(s, k), wider)
             /\ \A n \in Nat : (End(g, s) + 1) .. n \subseteq lost
                                 => (End(g, Without(s, k)) + 1) .. n \subseteq wider
<1> DEFINE t == Without(s, k)
           wider == lost \cup (s[k].from .. s[k].seq)
<1>1. t \in Seq(Frames) /\ Len(t) = Len(s) - 1
      /\ \A i \in 1 .. Len(t) : t[i] = IF i < k THEN s[i] ELSE s[i + 1]
  BY DEF Without
<1> HIDE DEF t
<1>2. \A i \in 1 .. Len(s) : s[i] \in Frames /\ s[i].from \in Nat /\ s[i].seq \in Nat
  BY FrameFields
<1>3. /\ s[k].from > Before(g, s, k) /\ (Before(g, s, k) + 1) .. (s[k].from - 1) \subseteq lost
      /\ Before(g, s, k) \in Nat
  <2>1. FrameFollows(g, s, lost, k)
    BY DEF Follow
  <2>2. Before(g, s, k) \in Nat
    <3>1. CASE k = 1
      BY <3>1 DEF Before
    <3>2. CASE k # 1
      BY <1>2, <3>2 DEF Before
    <3> QED BY <3>1, <3>2
  <2> QED BY <2>1, <2>2 DEF FrameFollows
<1>4. ASSUME NEW n \in Nat, (s[k].seq + 1) .. n \subseteq lost
      PROVE  (Before(g, s, k) + 1) .. n \subseteq wider
  BY <1>2, <1>3, <1>4
<1>5. ASSUME NEW i \in 1 .. Len(t) PROVE FrameFollows(g, t, wider, i)
  <2>1. CASE i < k
    <3>1. t[i] = s[i] /\ Before(g, t, i) = Before(g, s, i) /\ i # Len(s) /\ i \in 1 .. Len(s)
      BY <1>1, <2>1 DEF Before
    <3> QED BY <3>1 DEF Follow, FrameFollows
  <2>2. CASE i = k
    <3>1. t[i] = s[i + 1] /\ Before(g, t, i) = Before(g, s, k) /\ i + 1 \in 1 .. Len(s)
      BY <1>1, <2>2 DEF Before
    <3>2. FrameFollows(g, s, lost, i + 1) /\ Before(g, s, i + 1) = s[k].seq
      BY <3>1, <2>2 DEF Follow, Before
    <3>3. CASE t[i].type = "resync"
      BY <3>1, <3>2, <3>3, <1>1 DEF FrameFollows
    <3>4. CASE t[i].type # "resync"
      <4>1. s[i + 1].from > s[k].seq /\ (s[k].seq + 1) .. (s[i + 1].from - 1) \subseteq lost
        BY <3>1, <3>2, <3>4 DEF FrameFollows
      <4>2. s[i + 1].from - 1 \in Nat /\ s[i + 1].from > Before(g, s, k)
        BY <1>2, <1>3, <3>1, <4>1
      <4> QED BY <1>4, <3>1, <3>4, <4>1, <4>2 DEF FrameFollows
    <3> QED BY <3>3, <3>4
  <2>3. CASE i > k
    <3>1. t[i] = s[i + 1] /\ Before(g, t, i) = Before(g, s, i + 1) /\ i + 1 \in 1 .. Len(s)
      BY <1>1, <2>3 DEF Before
    <3> QED BY <1>1, <3>1 DEF Follow, FrameFollows
  <2> QED BY <2>1, <2>2, <2>3
<1>6. ASSUME NEW n \in Nat, (End(g, s) + 1) .. n \subseteq lost
      PROVE  (End(g, t) + 1) .. n \subseteq wider
  <2>1. CASE k = Len(s)
    <3>1. End(g, s) = s[k].seq /\ End(g, t) = Before(g, s, k)
      BY <1>1, <2>1 DEF End, Before
    <3> QED BY <1>4, <1>6, <3>1
  <2>2. CASE k # Len(s)
    BY <1>1, <1>6, <2>2 DEF End
  <2> QED BY <2>1, <2>2
<1> QED BY <1>1, <1>5, <1>6 DEF Follow, t

-----------------------------------------------------------------------------
\* What is under way after each change of a connection.
LEMMA ThreeParts ==
  ASSUME NEW w \in Seq(Frames), NEW t \in Seq(Frames), NEW b \in Seq(Frames)
  PROVE  /\ w \o t \o b \in Seq(Frames)
         /\ Len(w \o t \o b) = Len(w) + Len(t) + Len(b)
         /\ \A i \in 1 .. Len(w \o t \o b) :
              (w \o t \o b)[i] = IF i <= Len(w) THEN w[i]
                                ELSE IF i <= Len(w) + Len(t) THEN t[i - Len(w)]
                                ELSE b[i - Len(w) - Len(t)]
<1>1. w \o t \in Seq(Frames) /\ Len(w \o t) = Len(w) + Len(t)
      /\ \A i \in 1 .. Len(w \o t) : (w \o t)[i] = IF i <= Len(w) THEN w[i] ELSE t[i - Len(w)]
  BY ConcatProperties
<1>2. w \o t \o b \in Seq(Frames) /\ Len(w \o t \o b) = Len(w \o t) + Len(b)
      /\ \A i \in 1 .. Len(w \o t \o b) :
           (w \o t \o b)[i] = IF i <= Len(w \o t) THEN (w \o t)[i] ELSE b[i - Len(w \o t)]
  BY <1>1, ConcatProperties
<1> QED BY <1>1, <1>2

Line(w, t, b) == w \o t \o b

LEMMA UnderWayOffer ==
  ASSUME NEW w \in Seq(Frames), NEW t \in Seq(Frames), NEW b \in Seq(Frames), NEW e \in Frames
  PROVE  Line(w, t, Append(b, e)) = Append(Line(w, t, b), e)
BY DEF Line

LEMMA UnderWayResync ==
  ASSUME NEW w \in Seq(Frames), NEW t \in Seq(Frames), NEW e \in Frames
  PROVE  w \o t \o <<e>> = Append(w \o t, e)
OBVIOUS

Begins(w, t, b) ==
  /\ w \o t \o b \in Seq(Frames) /\ w \o t \in Seq(Frames)
  /\ Len(w \o t) <= Len(w \o t \o b)
  /\ \A i \in 1 .. Len(w \o t) : (w \o t \o b)[i] = (w \o t)[i]

LEMMA UnderWayPart ==
  ASSUME NEW w \in Seq(Frames), NEW t \in Seq(Frames), NEW b \in Seq(Frames)
  PROVE  Begins(w, t, b)
BY DEF Begins

Splits(b) ==
  /\ Front(b) \in Seq(Frames) /\ Len(Front(b)) = Len(b) - 1 /\ Last(b) \in Frames
  /\ b = Append(Front(b), Last(b))

LEMMA UnderWayAbsorb ==
  ASSUME NEW b \in Seq(Frames), Len(b) > 0
  PROVE  Splits(b)
<1> DEFINE n == Len(b) - 1
           f == SubSeq(b, 1, n)
<1>0. n \in Nat /\ \A i \in 1 .. n : b[i] \in Frames
  OBVIOUS
<1>1. f \in Seq(Frames) /\ Len(f) = n /\ \A i \in 1 .. n : f[i] = b[i]
  <2> HIDE DEF n
  <2>1. /\ SubSeq(b, 1, n) \in Seq(Frames)
        /\ Len(SubSeq(b, 1, n)) = (IF 1 <= n THEN n - 1 + 1 ELSE 0)
        /\ \A i \in 1 .. n - 1 + 1 : SubSeq(b, 1, n)[i] = b[1 + i - 1]
    BY <1>0, SubSeqProperties
  <2>2. Len(SubSeq(b, 1, n)) = n
    BY <1>0, <2>1
  <2>3. ASSUME NEW i \in 1 .. n PROVE SubSeq(b, 1, n)[i] = b[i]
    <3>1. 1 + i - 1 = i /\ i \in 1 .. n - 1 + 1
      BY <1>0
    <3> QED BY <2>1, <3>1
  <2> QED BY <2>1, <2>2, <2>3
<1>2. f = Front(b) /\ b[Len(b)] = Last(b) /\ Last(b) \in Frames
  BY DEF Front, Last
<1> HIDE DEF f
<1> DEFINE x == Append(f, Last(b))
<1>3. x \in Seq(Frames) /\ Len(x) = Len(b) /\ x[Len(b)] = Last(b)
      /\ \A i \in 1 .. Len(b) - 1 : x[i] = f[i]
  BY <1>1, <1>2
<1> HIDE DEF x
<1>4. \A i \in 1 .. Len(b) : b[i] = x[i]
  BY <1>1, <1>2, <1>3
<1>5. b = x
  BY <1>3, <1>4, SeqEqual
<1>6. Front(b) \in Seq(Frames) /\ Len(Front(b)) = Len(b) - 1
  BY <1>1, <1>2
<1> QED BY <1>2, <1>5, <1>6 DEF x, Splits

LEMMA UnderWayTake ==
  ASSUME NEW w \in Seq(Frames), NEW b \in Seq(Frames), Len(b) > 0
  PROVE  /\ w \o <<Head(b)>> \o Tail(b) = w \o <<>> \o b
         /\ <<Head(b)>> \in Seq(Frames) /\ Tail(b) \in Seq(Frames)
         /\ Len(<<Head(b)>>) = 1 /\ Len(Tail(b)) = Len(b) - 1
<1> DEFINE h == <<Head(b)>>
           r == Tail(b)
           x == h \o r
<1>1. h \in Seq(Frames) /\ Len(h) = 1 /\ h[1] = b[1]
      /\ r \in Seq(Frames) /\ Len(r) = Len(b) - 1 /\ \A i \in 1 .. Len(r) : r[i] = b[i + 1]
  OBVIOUS
<1>a. h \in Seq(Frames)
  BY <1>1
<1>b. r \in Seq(Frames)
  BY <1>1
<1> HIDE DEF h, r
<1>2. x \in Seq(Frames) /\ Len(x) = Len(b)
      /\ \A i \in 1 .. Len(x) : x[i] = IF i <= 1 THEN h[i] ELSE r[i - 1]
  <2>1. /\ h \o r \in Seq(Frames) /\ Len(h \o r) = Len(h) + Len(r)
        /\ \A i \in 1 .. Len(h) + Len(r) :
             (h \o r)[i] = IF i <= Len(h) THEN h[i] ELSE r[i - Len(h)]
    BY <1>a, <1>b, ConcatProperties
  <2> QED BY <1>1, <2>1
<1> HIDE DEF x
<1>3. ASSUME NEW i \in 1 .. Len(b) PROVE x[i] = b[i]
  <2>1. i - 1 \in 1 .. Len(r) => r[i - 1] = b[i - 1 + 1]
    BY <1>1
  <2> QED BY <1>1, <1>2, <2>1
<1>4. x = b
  BY <1>2, <1>3, SeqEqual
<1>5. w \o h \o r = w \o x
  BY <1>a, <1>b, ConcatAssociative DEF x
<1>6. w \o <<>> = w
  BY ConcatEmptySeq
<1> QED BY <1>1, <1>4, <1>5, <1>6 DEF h, r

LEMMA UnderWayYield ==
  ASSUME NEW w \in Seq(Frames), NEW t \in Seq(Frames), NEW b \in Seq(Frames), Len(t) = 1
  PROVE  Append(w, t[1]) \o <<>> \o b = w \o t \o b
<1>0. t[1] \in Frames /\ <<t[1]>> \in Seq(Frames) /\ Len(<<t[1]>>) = 1 /\ <<t[1]>>[1] = t[1]
  OBVIOUS
<1>a. \A i \in 1 .. Len(t) : t[i] = <<t[1]>>[i]
  BY <1>0
<1>1. t = <<t[1]>>
  BY <1>0, <1>a, SeqEqual
<1>b. Append(w, t[1]) = w \o <<t[1]>>
  BY <1>0, AppendIsConcat
<1>c. Append(w, t[1]) = w \o t
  BY <1>1, <1>b, Zenon
<1>2. Append(w, t[1]) = w \o t /\ Append(w, t[1]) \in Seq(Frames)
  BY <1>0, <1>c
<1>3. Append(w, t[1]) \o <<>> = Append(w, t[1])
  BY <1>2, ConcatEmptySeq
<1> QED BY <1>2, <1>3

LEMMA UnderWayDrop ==
  ASSUME NEW w \in Seq(Frames), NEW t \in Seq(Frames), NEW b \in Seq(Frames), Len(t) = 1
  PROVE  /\ w \o <<>> \o b = Without(w \o t \o b, Len(w) + 1)
         /\ (w \o t \o b)[Len(w) + 1] = t[1]
         /\ Len(w) + 1 \in 1 .. Len(w \o t \o b)
<1> DEFINE x == w \o b
           s == w \o t \o b
           y == Without(s, Len(w) + 1)
<1>0. /\ s \in Seq(Frames) /\ Len(s) = Len(w) + Len(t) + Len(b)
      /\ \A i \in 1 .. Len(s) : s[i] = IF i <= Len(w) THEN w[i]
                                     ELSE IF i <= Len(w) + Len(t) THEN t[i - Len(w)]
                                     ELSE b[i - Len(w) - Len(t)]
  BY ThreeParts
<1> HIDE DEF s
<1>1. /\ s \in Seq(Frames) /\ Len(s) = Len(w) + 1 + Len(b)
      /\ \A i \in 1 .. Len(s) : s[i] = IF i <= Len(w) THEN w[i]
                                     ELSE IF i <= Len(w) + 1 THEN t[i - Len(w)]
                                     ELSE b[i - Len(w) - 1]
  BY <1>0
<1>2. /\ x \in Seq(Frames) /\ Len(x) = Len(w) + Len(b)
      /\ \A i \in 1 .. Len(x) : x[i] = IF i <= Len(w) THEN w[i] ELSE b[i - Len(w)]
  <2>1. /\ w \o b \in Seq(Frames) /\ Len(w \o b) = Len(w) + Len(b)
        /\ \A i \in 1 .. Len(w) + Len(b) :
             (w \o b)[i] = IF i <= Len(w) THEN w[i] ELSE b[i - Len(w)]
    BY ConcatProperties
  <2> QED BY <2>1
<1> HIDE DEF x
<1>3. y \in Seq(Frames) /\ Len(y) = Len(w) + Len(b)
      /\ \A i \in 1 .. Len(y) : y[i] = IF i < Len(w) + 1 THEN s[i] ELSE s[i + 1]
  BY <1>1 DEF Without
<1> HIDE DEF y
<1>4. ASSUME NEW i \in 1 .. Len(x) PROVE x[i] = y[i]
  <2>1. CASE i <= Len(w)
    <3>1. i \in 1 .. Len(s) /\ i \in 1 .. Len(y) /\ i < Len(w) + 1
      BY <1>1, <1>2, <1>3, <2>1
    <3> QED BY <1>1, <1>2, <1>3, <2>1, <3>1
  <2>2. CASE i > Len(w)
    <3>1. y[i] = s[i + 1] /\ i + 1 \in 1 .. Len(s) /\ ~(i + 1 <= Len(w) + 1)
          /\ i + 1 - Len(w) - 1 = i - Len(w)
      BY <1>1, <1>2, <1>3, <2>2
    <3>2. s[i + 1] = b[i - Len(w)]
      BY <1>1, <3>1, <2>2
    <3> QED BY <1>2, <3>1, <3>2, <2>2
  <2> QED BY <2>1, <2>2
<1>5. x = y
  BY <1>2, <1>3, <1>4, SeqEqual
<1>6. w \o <<>> \o b = x
  BY ConcatEmptySeq DEF x
<1>7. s[Len(w) + 1] = t[1] /\ Len(w) + 1 \in 1 .. Len(s)
  BY <1>1
<1> QED BY <1>5, <1>6, <1>7 DEF y, s

HeadLeaves(w, t, b) ==
  /\ Line(Tail(w), t, b) = Tail(Line(w, t, b))
  /\ Line(w, t, b)[1] = w[1] /\ Len(Line(w, t, b)) > 0
  /\ Tail(w) \in Seq(Frames)

LEMMA UnderWayReceive ==
  ASSUME NEW w \in Seq(Frames), NEW t \in Seq(Frames), NEW b \in Seq(Frames), Len(w) > 0
  PROVE  HeadLeaves(w, t, b)
<1> DEFINE r == Tail(w)
           x == r \o t \o b
           s == w \o t \o b
           y == Tail(s)
<1>1. r \in Seq(Frames) /\ Len(r) = Len(w) - 1 /\ \A i \in 1 .. Len(r) : r[i] = w[i + 1]
  OBVIOUS
<1>a. r \in Seq(Frames)
  BY <1>1
<1> HIDE DEF r
<1>2. /\ x \in Seq(Frames) /\ Len(x) = Len(r) + Len(t) + Len(b)
      /\ \A i \in 1 .. Len(x) : x[i] = IF i <= Len(r) THEN r[i]
                                     ELSE IF i <= Len(r) + Len(t) THEN t[i - Len(r)]
                                     ELSE b[i - Len(r) - Len(t)]
  BY <1>a, ThreeParts
<1>3. /\ s \in Seq(Frames) /\ Len(s) = Len(w) + Len(t) + Len(b)
      /\ \A i \in 1 .. Len(s) : s[i] = IF i <= Len(w) THEN w[i]
                                     ELSE IF i <= Len(w) + Len(t) THEN t[i - Len(w)]
                                     ELSE b[i - Len(w) - Len(t)]
  BY ThreeParts
<1> HIDE DEF x, s
<1>4. y \in Seq(Frames) /\ Len(y) = Len(s) - 1 /\ \A i \in 1 .. Len(y) : y[i] = s[i + 1]
  <2>1. s # <<>>
    BY <1>3
  <2> QED BY <1>3, <2>1, HeadTailProperties
<1> HIDE DEF y
<1>5. ASSUME NEW i \in 1 .. Len(x) PROVE x[i] = y[i]
  <2>1. i + 1 \in 1 .. Len(s) /\ i \in 1 .. Len(y)
    BY <1>1, <1>2, <1>3, <1>4
  <2>2. s[i + 1] = IF i + 1 <= Len(w) THEN w[i + 1]
                   ELSE IF i + 1 <= Len(w) + Len(t) THEN t[i + 1 - Len(w)]
                   ELSE b[i + 1 - Len(w) - Len(t)]
    BY <1>3, <2>1
  <2>3. /\ i + 1 - Len(w) = i - Len(r) /\ i + 1 - Len(w) - Len(t) = i - Len(r) - Len(t)
        /\ i <= Len(r) <=> i + 1 <= Len(w)
        /\ i <= Len(r) + Len(t) <=> i + 1 <= Len(w) + Len(t)
        /\ i <= Len(r) => r[i] = w[i + 1]
    BY <1>1, <1>2
  <2> QED BY <1>2, <1>4, <2>1, <2>2, <2>3
<1>b. x \in Seq(Frames) /\ y \in Seq(Frames) /\ Len(x) = Len(y)
  BY <1>1, <1>2, <1>3, <1>4
<1>6. x = y
  BY <1>b, <1>5, SeqEqual
<1>7. s[1] = w[1] /\ Len(s) > 0
  BY <1>3
<1>8. Line(r, t, b) = Tail(Line(w, t, b)) /\ Line(w, t, b)[1] = w[1] /\ Len(Line(w, t, b)) > 0
  BY <1>6, <1>7 DEF x, y, s, Line
<1> QED BY <1>1, <1>8 DEF r, HeadLeaves

-----------------------------------------------------------------------------
\* One connection.
\* Frame f, which ends at n + 1, may come after s; and what then holds.
Fits(g, s, lost, f, n) ==
  /\ Follow(g, s, lost) /\ NoResync(s) /\ Upto(s, n) /\ f.type # "resync"
  /\ f.from > End(g, s) /\ (End(g, s) + 1) .. (f.from - 1) \subseteq lost
  /\ f.from <= f.seq /\ f.seq = n + 1
Reaches(g, t, lost, n) ==
  /\ Follow(g, t, lost) /\ NoResync(t) /\ Upto(t, n) /\ End(g, t) = n

LEMMA AppendSound ==
  ASSUME NEW g \in Nat, NEW s \in Seq(Frames), NEW lost, NEW f \in Frames, NEW n \in Nat,
         Fits(g, s, lost, f, n)
  PROVE  Reaches(g, Append(s, f), lost, n + 1)
<1> USE DEF Fits, Reaches
<1> DEFINE t == Append(s, f)
<1>1. t \in Seq(Frames) /\ Len(t) = Len(s) + 1 /\ t[Len(t)] = f
      /\ \A i \in 1 .. Len(s) : t[i] = s[i]
  OBVIOUS
<1>2. Follow(g, t, lost)
  BY FollowAppend
<1> HIDE DEF t
<1>3. NoResync(t)
  BY <1>1 DEF NoResync
<1>4. Upto(t, n + 1)
  <2>1. ASSUME NEW i \in 1 .. Len(t) PROVE t[i].from <= t[i].seq /\ t[i].seq <= n + 1
    <3>1. CASE i = Len(t)
      BY <1>1, <3>1, FrameFields
    <3>2. CASE i # Len(t)
      <4>1. i \in 1 .. Len(s) /\ t[i] = s[i] /\ s[i] \in Frames
        BY <1>1, <3>2
      <4>2. s[i].seq \in Nat /\ s[i].from <= s[i].seq /\ s[i].seq <= n
        BY <4>1, FrameFields DEF Upto
      <4> QED BY <4>1, <4>2
    <3> QED BY <3>1, <3>2
  <2> QED BY <2>1 DEF Upto
<1>5. End(g, t) = n + 1
  BY <1>1 DEF End
<1> QED BY <1>2, <1>3, <1>4, <1>5 DEF t

LEMMA UptoMore ==
  ASSUME NEW s \in Seq(Frames), NEW n \in Nat, NEW m \in Nat, n <= m, Upto(s, n)
  PROVE  Upto(s, m)
<1>1. \A i \in 1 .. Len(s) : s[i].from \in Nat /\ s[i].seq \in Nat
  BY FrameFields
<1> QED BY <1>1 DEF Upto

\* A connection that is not served any more is not behind.
LEMMA ClosedSound ==
  ASSUME NEW l, NEW n \in Nat, NEW m \in Nat, n <= m, LinkSound(l, n),
         l.phase # "open" \/ l.closed
  PROVE  LinkSound(l, m)
<1>1. Upto(UnderWay(l), m)
  BY UptoMore, LinkFields DEF LinkSound
<1>2. l.got \in Nat
  BY LinkFields DEF LinkSound
<1> QED BY <1>1, <1>2 DEF LinkSound

LEMMA FailClosedSound ==
  ASSUME NEW l, NEW n \in Nat, NEW m \in Nat, n <= m, LinkSound(l, n), l.phase = "open"
  PROVE  LinkSound(FailClosed(l, m), m)
<1>1. CASE l.closed
  BY <1>1, ClosedSound DEF FailClosed
<1>2. CASE ~l.closed
  <2> DEFINE k == [l EXCEPT !.buffer = <<Resync(m)>>, !.closed = TRUE]
             w == l.wire \o l.taken
             s == UnderWay(l)
  <2>1. l \in Links
    BY DEF LinkSound
  <2>2. Resync(m) \in Frames /\ Resync(m).type = "resync" /\ Resync(m).from = m /\ Resync(m).seq = m
        /\ <<Resync(m)>> \in Seq(Frames) /\ Len(<<Resync(m)>>) = 1
    BY FrameTypes
  <2>3. k \in Links
    BY <2>1, <2>2 DEF Links
  <2>4. /\ k.phase = "open" /\ k.closed = TRUE /\ k.got = l.got /\ k.lost = l.lost
        /\ k.taken = l.taken /\ k.wire = l.wire /\ k.buffer = <<Resync(m)>>
    BY <2>1 DEF Links
  <2>5. w \in Seq(Frames) /\ Len(w) <= Len(s) /\ \A i \in 1 .. Len(w) : s[i] = w[i]
        /\ s \in Seq(Frames)
    <3>1. l.wire \in Seq(Frames) /\ l.taken \in Seq(Frames) /\ l.buffer \in Seq(Frames)
      BY <2>1, LinkFields
    <3>2. Begins(l.wire, l.taken, l.buffer)
      BY <3>1, UnderWayPart
    <3> QED BY <3>2 DEF UnderWay, Begins
  <2>6. UnderWay(k) = Append(w, Resync(m))
    <3>1. l.wire \in Seq(Frames) /\ l.taken \in Seq(Frames) /\ l.buffer \in Seq(Frames)
      BY <2>1, LinkFields
    <3> HIDE DEF k
    <3>2. l.wire \o l.taken \o <<Resync(m)>> = Append(w, Resync(m))
      BY <3>1, <2>2, UnderWayResync
    <3>3. UnderWay(k) = l.wire \o l.taken \o <<Resync(m)>>
      BY <2>4, Zenon DEF UnderWay
    <3> QED BY <3>2, <3>3
  <2> HIDE DEF k, w, s
  <2>7. Follow(l.got, s, l.lost) /\ NoResync(s) /\ Upto(s, n) /\ l.got \in Nat /\ l.got <= n
        /\ Len(l.taken) <= 1
    BY <1>2, <2>1, LinkFields DEF LinkSound, s
  <2>8. Follow(l.got, w, l.lost) /\ NoResync(w)
    <3>1. NoResync(w)
      BY <2>5, <2>7 DEF NoResync
    <3>2. ASSUME NEW i \in 1 .. Len(w) PROVE FrameFollows(l.got, w, l.lost, i)
      <4>1. FrameFollows(l.got, s, l.lost, i) /\ s[i].type # "resync" /\ w[i] = s[i]
        BY <2>5, <2>7 DEF Follow, NoResync
      <4>2. Before(l.got, w, i) = Before(l.got, s, i)
        BY <2>5 DEF Before
      <4> QED BY <4>1, <4>2 DEF FrameFollows
    <3> QED BY <3>1, <3>2 DEF Follow
  <2>9. Follow(k.got, UnderWay(k), k.lost)
    BY <2>2, <2>4, <2>5, <2>6, <2>7, <2>8, FollowAppend
  <2>10. Upto(UnderWay(k), m)
    <3> DEFINE t == Append(w, Resync(m))
    <3>1. t \in Seq(Frames) /\ Len(t) = Len(w) + 1 /\ t[Len(t)] = Resync(m)
          /\ \A i \in 1 .. Len(w) : t[i] = s[i]
      BY <2>2, <2>5
    <3> HIDE DEF t
    <3>2. ASSUME NEW i \in 1 .. Len(t) PROVE t[i].from <= t[i].seq /\ t[i].seq <= m
      <4>1. CASE i = Len(t)
        BY <2>2, <3>1, <4>1
      <4>2. CASE i # Len(t)
        <5>1. i \in 1 .. Len(s) /\ t[i] = s[i] /\ s[i] \in Frames
          BY <2>5, <3>1, <4>2
        <5>2. s[i].seq \in Nat /\ s[i].from <= s[i].seq /\ s[i].seq <= n
          BY <2>7, <5>1, FrameFields DEF Upto
        <5> QED BY <5>1, <5>2
      <4> QED BY <4>1, <4>2
    <3> QED BY <2>6, <3>2 DEF Upto, t
  <2>11. LinkSound(k, m)
    BY <2>2, <2>3, <2>4, <2>7, <2>9, <2>10 DEF LinkSound
  <2> QED BY <1>2, <2>11 DEF FailClosed, k
<1> QED BY <1>1, <1>2, LinkFields DEF LinkSound

LEMMA OfferSound ==
  ASSUME NEW l, NEW n \in Nat, LinkSound(l, n), l.phase = "open",
         NEW e \in Frames, e.type # "resync", e.from = n + 1, e.seq = n + 1
  PROVE  LinkSound(Offer(l, e), n + 1)
<1>1. l \in Links
  BY DEF LinkSound
<1>2. /\ l.wire \in Seq(Frames) /\ l.taken \in Seq(Frames) /\ l.buffer \in Seq(Frames)
      /\ UnderWay(l) \in Seq(Frames) /\ l.got \in Nat /\ l.closed \in BOOLEAN
      /\ Len(l.buffer) <= ClientCapacity /\ Len(l.taken) <= 1 /\ l.got <= n
  BY <1>1, LinkFields DEF LinkSound
<1>3. CASE l.closed
  BY <1>3, ClosedSound DEF Offer
<1>4. CASE ~l.closed /\ Len(l.buffer) < ClientCapacity
  <2> DEFINE k == [l EXCEPT !.buffer = Append(@, e)]
  <2>1. /\ k \in Links /\ k.phase = "open" /\ k.closed = l.closed /\ k.got = l.got /\ k.lost = l.lost
        /\ k.taken = l.taken /\ k.wire = l.wire /\ k.buffer = Append(l.buffer, e)
        /\ Len(k.buffer) = Len(l.buffer) + 1
    <3>1. Append(l.buffer, e) \in Seq(Frames) /\ Len(Append(l.buffer, e)) = Len(l.buffer) + 1
      BY <1>2
    <3> QED BY <1>1, <3>1 DEF Links
  <2> HIDE DEF k
  <2>2. UnderWay(k) = Append(UnderWay(l), e)
    <3>1. Line(l.wire, l.taken, Append(l.buffer, e)) = Append(Line(l.wire, l.taken, l.buffer), e)
      BY <1>2, UnderWayOffer
    <3>2. UnderWay(k) = Line(l.wire, l.taken, Append(l.buffer, e))
      BY <2>1, Zenon DEF UnderWay, Line
    <3>3. UnderWay(l) = Line(l.wire, l.taken, l.buffer)
      BY Zenon DEF UnderWay, Line
    <3> QED BY <3>1, <3>2, <3>3, Zenon
  <2>3. /\ Follow(l.got, UnderWay(l), l.lost) /\ NoResync(UnderWay(l)) /\ Upto(UnderWay(l), n)
        /\ (End(l.got, UnderWay(l)) + 1) .. n \subseteq l.lost
    BY <1>4 DEF LinkSound
  <2>4. End(l.got, UnderWay(l)) \in Nat /\ End(l.got, UnderWay(l)) <= n
    <3> DEFINE s == UnderWay(l)
    <3>1. s \in Seq(Frames) /\ Upto(s, n)
      BY <1>2, <2>3
    <3> HIDE DEF s
    <3>2. CASE Len(s) = 0
      BY <1>2, <3>2 DEF End, s
    <3>3. CASE Len(s) # 0
      <4>1. s[Len(s)] \in Frames /\ Len(s) \in 1 .. Len(s)
        BY <3>1, <3>3
      <4>2. s[Len(s)].seq \in Nat /\ s[Len(s)].seq <= n
        BY <3>1, <4>1, FrameFields DEF Upto
      <4> QED BY <3>3, <4>2 DEF End, s
    <3> QED BY <3>2, <3>3
  <2>5. /\ Follow(l.got, UnderWay(k), l.lost) /\ NoResync(UnderWay(k)) /\ Upto(UnderWay(k), n + 1)
        /\ End(l.got, UnderWay(k)) = n + 1
    <3> DEFINE s == UnderWay(l)
               lost == l.lost
    <3>1. s \in Seq(Frames) /\ Follow(l.got, s, lost) /\ NoResync(s) /\ Upto(s, n)
          /\ (End(l.got, s) + 1) .. n \subseteq lost /\ End(l.got, s) \in Nat /\ End(l.got, s) <= n
      BY <1>2, <2>3, <2>4
    <3> HIDE DEF s, lost
    <3>2. Fits(l.got, s, lost, e, n)
      BY <3>1 DEF Fits
    <3>3. Reaches(l.got, Append(s, e), lost, n + 1)
      BY <1>2, <3>1, <3>2, AppendSound
    <3> QED BY <2>2, <3>3 DEF s, lost, Reaches
  <2>6. (End(l.got, UnderWay(k)) + 1) .. (n + 1) \subseteq l.lost
    BY <2>5
  <2>7. LinkSound(k, n + 1)
    BY <1>2, <1>4, <2>1, <2>5, <2>6 DEF LinkSound
  <2> QED BY <1>4, <2>7 DEF Offer, k
<1>5. CASE ~l.closed /\ ~(Len(l.buffer) < ClientCapacity) /\ Absorbs(Last(l.buffer), e)
  <2> DEFINE a == Absorbed(Last(l.buffer), e)
             k == [l EXCEPT !.buffer = Append(Front(@), a)]
             s == Line(l.wire, l.taken, Front(l.buffer))
  <2>1. /\ Front(l.buffer) \in Seq(Frames) /\ Len(Front(l.buffer)) = Len(l.buffer) - 1
        /\ Last(l.buffer) \in Frames /\ l.buffer = Append(Front(l.buffer), Last(l.buffer))
    <3>1. Splits(l.buffer)
      BY <1>2, <1>5, UnderWayAbsorb
    <3> QED BY <3>1 DEF Splits
  <2>2. a \in Frames /\ a.type # "resync" /\ a.from = Last(l.buffer).from /\ a.seq = n + 1
    <3>1. JoinText(Last(l.buffer).text, e.text) \in Texts
      BY <2>1, TextTypes, FrameFields
    <3> QED BY <2>1, <3>1, FrameFields DEF Absorbed, Frames
  <2> HIDE DEF a
  <2>3. /\ k \in Links /\ k.phase = "open" /\ k.closed = l.closed /\ k.got = l.got /\ k.lost = l.lost
        /\ k.taken = l.taken /\ k.wire = l.wire /\ k.buffer = Append(Front(l.buffer), a)
        /\ Len(k.buffer) = Len(l.buffer)
    <3>1. /\ Append(Front(l.buffer), a) \in Seq(Frames)
          /\ Len(Append(Front(l.buffer), a)) = Len(l.buffer)
      BY <1>2, <2>1, <2>2
    <3> QED BY <1>1, <3>1 DEF Links
  <2> HIDE DEF k
  <2>4. /\ UnderWay(l) = Append(s, Last(l.buffer)) /\ s \in Seq(Frames)
    <3>1. Line(l.wire, l.taken, Append(Front(l.buffer), Last(l.buffer))) = Append(s, Last(l.buffer))
      <4>1. /\ l.wire \in Seq(Frames) /\ l.taken \in Seq(Frames)
            /\ Front(l.buffer) \in Seq(Frames) /\ Last(l.buffer) \in Frames
        BY <1>2, <2>1
      <4> QED BY <4>1, UnderWayOffer
    <3>2. s \in Seq(Frames)
      BY <1>2, <2>1, UnderWayPart DEF Line
    <3>3. UnderWay(l) = Line(l.wire, l.taken, Append(Front(l.buffer), Last(l.buffer)))
      BY <2>1, Zenon DEF UnderWay, Line
    <3> QED BY <3>1, <3>2, <3>3, Zenon
  <2>5. UnderWay(k) = Append(s, a)
    <3>1. Line(l.wire, l.taken, Append(Front(l.buffer), a)) = Append(s, a)
      <4>1. /\ l.wire \in Seq(Frames) /\ l.taken \in Seq(Frames)
            /\ Front(l.buffer) \in Seq(Frames) /\ a \in Frames
        BY <1>2, <2>1, <2>2
      <4> QED BY <4>1, UnderWayOffer
    <3>2. UnderWay(k) = Line(l.wire, l.taken, Append(Front(l.buffer), a))
      BY <2>3, Zenon DEF UnderWay, Line
    <3> QED BY <3>1, <3>2, Zenon
  <2> HIDE DEF s
  <2>6. /\ Follow(l.got, Append(s, Last(l.buffer)), l.lost)
        /\ NoResync(Append(s, Last(l.buffer))) /\ Upto(Append(s, Last(l.buffer)), n)
    BY <1>5, <2>4 DEF LinkSound
  <2>7. /\ Append(s, Last(l.buffer))[Len(s) + 1] = Last(l.buffer)
        /\ Len(Append(s, Last(l.buffer))) = Len(s) + 1
        /\ \A i \in 1 .. Len(s) : Append(s, Last(l.buffer))[i] = s[i]
    BY <2>1, <2>4
  <2>8. Last(l.buffer).type # "resync" /\ Last(l.buffer).from <= Last(l.buffer).seq
        /\ Last(l.buffer).seq <= n /\ Upto(s, n)
    BY <2>4, <2>6, <2>7 DEF NoResync, Upto
  <2>9. /\ Follow(l.got, s, l.lost) /\ NoResync(s)
        /\ a.from > End(l.got, s) /\ (End(l.got, s) + 1) .. (a.from - 1) \subseteq l.lost
    BY <1>2, <2>1, <2>2, <2>4, <2>6, <2>8, FollowFront
  <2>10. a.from <= a.seq
    BY <2>1, <2>2, <2>8, FrameFields
  <2>11. /\ Follow(l.got, UnderWay(k), l.lost) /\ NoResync(UnderWay(k)) /\ Upto(UnderWay(k), n + 1)
         /\ End(l.got, UnderWay(k)) = n + 1
    <3>1. Fits(l.got, s, l.lost, a, n)
      BY <2>2, <2>8, <2>9, <2>10 DEF Fits
    <3>2. Reaches(l.got, Append(s, a), l.lost, n + 1)
      BY <1>2, <2>2, <2>4, <3>1, AppendSound
    <3> QED BY <2>5, <3>2 DEF Reaches
  <2>12. (End(l.got, UnderWay(k)) + 1) .. (n + 1) \subseteq l.lost
    BY <2>11
  <2>13. LinkSound(k, n + 1)
    BY <1>2, <2>3, <2>11, <2>12 DEF LinkSound
  <2> QED BY <1>5, <2>13 DEF Offer, k, a
<1>6. CASE ~l.closed /\ ~(Len(l.buffer) < ClientCapacity) /\ ~Absorbs(Last(l.buffer), e)
  <2>1. LinkSound(FailClosed(l, n + 1), n + 1)
    BY FailClosedSound
  <2> QED BY <1>6, <2>1 DEF Offer
<1> QED BY <1>2, <1>3, <1>4, <1>5, <1>6

\* A connection that has just been served the frames b from number g on.
LEMMA FreshSound ==
  ASSUME NEW g \in Nat, NEW b \in Seq(Frames), NEW n \in Nat, g <= n,
         Len(b) <= ClientCapacity, Len(b) = n - g,
         \A i \in 1 .. Len(b) : /\ b[i].type # "resync" /\ b[i].from = b[i].seq
                                /\ b[i].seq = g + i,
         NEW k \in Links, k.phase = "open", k.closed = FALSE, k.got = g, k.lost = {},
         k.taken = <<>>, k.wire = <<>>, k.buffer = b
  PROVE  LinkSound(k, n)
<1>1. <<>> \in Seq(Frames) /\ Len(<<>>) = 0
  OBVIOUS
<1>2. /\ k \in Links /\ k.phase = "open" /\ k.closed = FALSE /\ k.got = g /\ k.lost = {}
      /\ k.taken = <<>> /\ k.wire = <<>> /\ k.buffer = b
  OBVIOUS
<1>3. UnderWay(k) = b
  <2>1. <<>> \o <<>> = <<>>
    BY <1>1, ConcatEmptySeq
  <2>2. <<>> \o b = b
    BY ConcatEmptySeq
  <2>3. UnderWay(k) = <<>> \o <<>> \o b
    BY <1>2, Zenon DEF UnderWay
  <2> QED BY <2>1, <2>2, <2>3, Zenon
<1>4. Follow(g, b, k.lost)
  <2>1. ASSUME NEW i \in 1 .. Len(b) PROVE FrameFollows(g, b, k.lost, i)
    <3>1. Before(g, b, i) = g + i - 1
      BY DEF Before
    <3>2. b[i].type # "resync" /\ b[i].from = g + i
      OBVIOUS
    <3> QED BY <3>1, <3>2 DEF FrameFollows
  <2> QED BY <2>1 DEF Follow
<1>5. NoResync(b) /\ Upto(b, n)
  BY DEF NoResync, Upto
<1>6. End(g, b) = n
  BY DEF End
<1>7. (End(g, b) + 1) .. n \subseteq k.lost
  BY <1>6
<1> QED BY <1>1, <1>2, <1>3, <1>4, <1>5, <1>7 DEF LinkSound

LEMMA FreeSound ==
  ASSUME NEW n \in Nat
  PROVE  LinkSound(Free, n) /\ LinkSound(FailClosed([Free EXCEPT !.phase = "open"], n), n)
<1> DEFINE k == [Free EXCEPT !.phase = "open"]
<1>1. <<>> \in Seq(Frames) /\ Len(<<>>) = 0
  OBVIOUS
<1>2. /\ Free \in Links /\ Free.phase = "free" /\ Free.got = 0 /\ Free.taken = <<>>
      /\ Free.wire = <<>> /\ Free.buffer = <<>>
  BY <1>1 DEF Free, Links
<1>3. UnderWay(Free) = <<>>
  <2>1. <<>> \o <<>> = <<>>
    BY <1>1, ConcatEmptySeq
  <2>2. UnderWay(Free) = <<>> \o <<>> \o <<>>
    BY <1>2, Zenon DEF UnderWay
  <2> QED BY <2>1, <2>2, Zenon
<1>4. LinkSound(Free, n)
  BY <1>1, <1>2, <1>3 DEF LinkSound, Follow, Upto
<1>7. /\ k \in Links /\ k.phase = "open" /\ k.got = 0 /\ k.taken = <<>> /\ k.closed = FALSE
      /\ k.wire = <<>> /\ k.buffer = <<>>
  BY <1>1 DEF Free, Links
<1> HIDE DEF k
<1>6. UnderWay(k) = <<>>
  <2>1. <<>> \o <<>> = <<>>
    BY <1>1, ConcatEmptySeq
  <2>2. UnderWay(k) = <<>> \o <<>> \o <<>>
    BY <1>7, Zenon DEF UnderWay
  <2> QED BY <2>1, <2>2, Zenon
<1>5. LinkSound(k, 0)
  BY <1>1, <1>6, <1>7 DEF LinkSound, Follow, Upto, NoResync, End
<1>8. LinkSound(FailClosed(k, n), n)
  BY <1>5, <1>7, FailClosedSound
<1> QED BY <1>4, <1>8 DEF k

LEMMA AfterCursor ==
  ASSUME ServerSound, NEW cursor \in Cursors, Resumable(cursor)
  PROVE  /\ cursor.seq \in Nat /\ cursor.seq <= sequence /\ sequence \in Nat
         /\ After(cursor) \in Seq(Frames) /\ Len(After(cursor)) = sequence - cursor.seq
         /\ \A i \in 1 .. Len(After(cursor)) :
              /\ After(cursor)[i].type # "resync" /\ After(cursor)[i].from = After(cursor)[i].seq
              /\ After(cursor)[i].seq = cursor.seq + i
<1>1. cursor.seq \in Nat /\ sequence \in Nat
  BY DEF Cursors, Numbers, ServerSound
<1>2. /\ replay \in Seq(Frames) /\ Len(replay) <= sequence /\ (Len(replay) = 0 => sequence = 0)
      /\ \A i \in 1 .. Len(replay) :
           /\ replay[i].type # "resync" /\ replay[i].from = replay[i].seq
           /\ replay[i].seq = sequence - Len(replay) + i
  BY DEF ServerSound
<1>3. DOMAIN replay = 1 .. Len(replay)
  BY <1>2
<1>4. CASE cursor.seq = 0
  <2>1. Len(replay) = sequence
    <3>1. ASSUME NEW i \in 1 .. Len(replay), replay[i].seq = 0 PROVE FALSE
      BY <1>1, <1>2, <3>1
    <3>2. replay = <<>> \/ replay[1].seq = 1
      BY <1>3, <1>4, <3>1 DEF Resumable
    <3>3. CASE Len(replay) = 0
      BY <1>2, <3>3
    <3>4. CASE Len(replay) # 0
      <4>1. replay # <<>> /\ 1 \in 1 .. Len(replay)
        BY <1>2, <3>4
      <4>2. replay[1].seq = sequence - Len(replay) + 1
        BY <1>2, <4>1
      <4> QED BY <1>1, <1>2, <3>2, <4>1, <4>2
    <3> QED BY <3>3, <3>4
  <2>2. After(cursor) = replay
    BY <1>4 DEF After
  <2> QED BY <1>1, <1>2, <1>4, <2>1, <2>2
<1>5. CASE cursor.seq # 0
  <2> DEFINE k == CHOOSE i \in DOMAIN replay : replay[i].seq = cursor.seq
             n == Len(replay)
             a == SubSeq(replay, 1 + k, n)
  <2>1. k \in 1 .. n /\ replay[k].seq = cursor.seq
    <3>1. \E i \in DOMAIN replay : replay[i].seq = cursor.seq
      BY <1>5 DEF Resumable
    <3> QED BY <1>3, <3>1, Zenon
  <2> HIDE DEF k
  <2>2. cursor.seq = sequence - n + k /\ n \in Nat
    BY <1>2, <2>1
  <2> HIDE DEF n
  <2>3. 1 + k \in Int /\ n \in Int /\ \A i \in (1 + k) .. n : replay[i] \in Frames
    BY <1>2, <2>1, <2>2 DEF n
  <2>4. /\ a \in Seq(Frames) /\ Len(a) = (IF 1 + k <= n THEN n - (1 + k) + 1 ELSE 0)
        /\ \A i \in 1 .. n - (1 + k) + 1 : a[i] = replay[(1 + k) + i - 1]
    BY <2>3, SubSeqProperties
  <2> HIDE DEF a
  <2>5. Len(a) = n - k
    BY <2>1, <2>2, <2>4
  <2>6. Len(a) = sequence - cursor.seq /\ cursor.seq <= sequence
    BY <1>1, <2>1, <2>2, <2>5
  <2>7. ASSUME NEW i \in 1 .. Len(a)
        PROVE  a[i].type # "resync" /\ a[i].from = a[i].seq /\ a[i].seq = cursor.seq + i
    <3>1. i \in 1 .. n - (1 + k) + 1 /\ (1 + k) + i - 1 = k + i /\ k + i \in 1 .. n
      BY <2>1, <2>2, <2>5
    <3>2. a[i] = replay[k + i]
      BY <2>4, <3>1
    <3>3. replay[k + i].type # "resync" /\ replay[k + i].from = replay[k + i].seq
          /\ replay[k + i].seq = sequence - n + (k + i)
      BY <1>2, <3>1 DEF n
    <3> QED BY <1>1, <2>1, <2>2, <3>2, <3>3
  <2>8. After(cursor) = a
    BY <1>5 DEF After, a, k, n
  <2> QED BY <1>1, <2>4, <2>6, <2>7, <2>8
<1> QED BY <1>4, <1>5

LEMMA SeedSound ==
  ASSUME ServerSound, NEW cursor \in Cursors
  PROVE  LinkSound(Seed(cursor), sequence)
<1>1. CASE Resumable(cursor) /\ Len(After(cursor)) <= ClientCapacity
  <2> DEFINE a == After(cursor)
             k == [Free EXCEPT !.phase = "open", !.got = cursor.seq, !.buffer = a]
  <2>1. /\ cursor.seq \in Nat /\ cursor.seq <= sequence /\ sequence \in Nat
        /\ a \in Seq(Frames) /\ Len(a) = sequence - cursor.seq
        /\ \A i \in 1 .. Len(a) : /\ a[i].type # "resync" /\ a[i].from = a[i].seq
                               /\ a[i].seq = cursor.seq + i
    BY <1>1, AfterCursor
  <2>2. Len(a) <= ClientCapacity /\ Seed(cursor) = k
    BY <1>1 DEF Seed
  <2> HIDE DEF a
  <2>3. /\ k \in Links /\ k.phase = "open" /\ k.closed = FALSE /\ k.got = cursor.seq /\ k.lost = {}
        /\ k.taken = <<>> /\ k.wire = <<>> /\ k.buffer = a
    <3>1. <<>> \in Seq(Frames)
      OBVIOUS
    <3> QED BY <2>1, <3>1 DEF Free, Links
  <2> HIDE DEF k
  <2>4. LinkSound(k, sequence)
    BY <2>1, <2>2, <2>3, FreshSound
  <2> QED BY <2>2, <2>4
<1>2. CASE ~(Resumable(cursor) /\ Len(After(cursor)) <= ClientCapacity)
  <2>1. sequence \in Nat
    BY DEF ServerSound, Numbers
  <2> QED BY <1>2, <2>1, FreeSound DEF Seed
<1> QED BY <1>1, <1>2

LEMMA SameFramesSound ==
  ASSUME NEW l, NEW n \in Nat, LinkSound(l, n), NEW k \in Links,
         UnderWay(k) = UnderWay(l), k.got = l.got, k.lost = l.lost, k.closed = l.closed,
         k.phase = "open" => l.phase = "open",
         Len(k.buffer) <= ClientCapacity, Len(k.taken) <= 1
  PROVE  LinkSound(k, n)
BY DEF LinkSound

LEMMA NotEmpty ==
  ASSUME NEW x \in Seq(Frames), x # <<>>
  PROVE  Len(x) \in Nat /\ Len(x) > 0
OBVIOUS

LEMMA TakeSound ==
  ASSUME NEW l, NEW n \in Nat, LinkSound(l, n), l.taken = <<>>, l.buffer # <<>>
  PROVE  LinkSound([l EXCEPT !.taken = <<Head(l.buffer)>>, !.buffer = Tail(@)], n)
<1> DEFINE k == [l EXCEPT !.taken = <<Head(l.buffer)>>, !.buffer = Tail(@)]
<1>0. l \in Links /\ l.wire \in Seq(Frames) /\ l.buffer \in Seq(Frames)
  BY LinkFields DEF LinkSound
<1>1. /\ l \in Links /\ l.wire \in Seq(Frames) /\ l.buffer \in Seq(Frames)
      /\ Len(l.buffer) > 0 /\ Len(l.buffer) <= ClientCapacity
  BY <1>0, NotEmpty DEF LinkSound
<1>2. /\ l.wire \o <<Head(l.buffer)>> \o Tail(l.buffer) = l.wire \o <<>> \o l.buffer
      /\ <<Head(l.buffer)>> \in Seq(Frames) /\ Tail(l.buffer) \in Seq(Frames)
      /\ Len(<<Head(l.buffer)>>) = 1 /\ Len(Tail(l.buffer)) = Len(l.buffer) - 1
  BY <1>1, UnderWayTake
<1>3. /\ k \in Links /\ k.phase = l.phase /\ k.closed = l.closed /\ k.got = l.got
      /\ k.lost = l.lost /\ k.wire = l.wire /\ k.taken = <<Head(l.buffer)>>
      /\ k.buffer = Tail(l.buffer)
  BY <1>1, <1>2 DEF Links
<1> HIDE DEF k
<1>4. UnderWay(k) = UnderWay(l)
  <2>1. UnderWay(k) = l.wire \o <<Head(l.buffer)>> \o Tail(l.buffer)
    BY <1>3, Zenon DEF UnderWay
  <2>2. UnderWay(l) = l.wire \o <<>> \o l.buffer
    BY Zenon DEF UnderWay
  <2> QED BY <1>2, <2>1, <2>2, Zenon
<1>5. Len(k.buffer) <= ClientCapacity /\ Len(k.taken) <= 1
  BY <1>1, <1>2, <1>3
<1>6. LinkSound(k, n)
  BY <1>3, <1>4, <1>5, SameFramesSound
<1> QED BY <1>6 DEF k

LEMMA TakenIsOne ==
  ASSUME NEW l, NEW n \in Nat, LinkSound(l, n), l.taken # <<>>
  PROVE  /\ l \in Links /\ l.wire \in Seq(Frames) /\ l.taken \in Seq(Frames)
         /\ l.buffer \in Seq(Frames) /\ Len(l.taken) = 1 /\ l.taken[1] \in Frames
         /\ Len(l.buffer) <= ClientCapacity /\ l.got \in Nat /\ l.got <= n
         /\ l.lost \in SUBSET Numbers /\ UnderWay(l) \in Seq(Frames)
<1>1. /\ l \in Links /\ l.wire \in Seq(Frames) /\ l.taken \in Seq(Frames)
      /\ l.buffer \in Seq(Frames) /\ Len(l.buffer) <= ClientCapacity /\ l.got \in Nat
      /\ l.got <= n /\ l.lost \in SUBSET Numbers /\ UnderWay(l) \in Seq(Frames)
      /\ Len(l.taken) <= 1
  BY LinkFields DEF LinkSound
<1>a. l.taken \in Seq(Frames)
  BY <1>1
<1>b. Len(l.taken) \in Nat /\ Len(l.taken) > 0
  BY <1>a, NotEmpty
<1>c. Len(l.taken) <= 1
  BY <1>1
<1>2. Len(l.taken) = 1
  <2> DEFINE n1 == Len(l.taken)
  <2>1. n1 \in Nat /\ n1 > 0 /\ n1 <= 1
    BY <1>b, <1>c
  <2> HIDE DEF n1
  <2>2. n1 = 1
    BY <2>1
  <2> QED BY <2>2 DEF n1
<1> QED BY <1>1, <1>2

LEMMA YieldSound ==
  ASSUME NEW l, NEW n \in Nat, LinkSound(l, n), l.taken # <<>>,
         NEW phase \in {l.phase, "ended"}
  PROVE  LinkSound([l EXCEPT !.taken = <<>>, !.wire = Append(@, l.taken[1]), !.phase = phase], n)
<1> DEFINE k == [l EXCEPT !.taken = <<>>, !.wire = Append(@, l.taken[1]), !.phase = phase]
<1>1. /\ l \in Links /\ l.wire \in Seq(Frames) /\ l.taken \in Seq(Frames)
      /\ l.buffer \in Seq(Frames) /\ Len(l.taken) = 1 /\ l.taken[1] \in Frames
      /\ Len(l.buffer) <= ClientCapacity
  BY TakenIsOne
<1>2. Append(l.wire, l.taken[1]) \o <<>> \o l.buffer = l.wire \o l.taken \o l.buffer
  BY <1>1, UnderWayYield
<1>3. /\ k \in Links /\ k.phase = phase /\ k.closed = l.closed /\ k.got = l.got
      /\ k.lost = l.lost /\ k.wire = Append(l.wire, l.taken[1]) /\ k.taken = <<>>
      /\ k.buffer = l.buffer
  <2>1. Append(l.wire, l.taken[1]) \in Seq(Frames) /\ <<>> \in Seq(Frames)
    BY <1>1
  <2>2. phase \in {"free", "open", "ended"}
    BY <1>1, LinkFields
  <2> QED BY <1>1, <2>1, <2>2 DEF Links
<1> HIDE DEF k
<1>4. UnderWay(k) = UnderWay(l)
  <2>1. UnderWay(k) = Append(l.wire, l.taken[1]) \o <<>> \o l.buffer
    BY <1>3, Zenon DEF UnderWay
  <2>2. UnderWay(l) = l.wire \o l.taken \o l.buffer
    BY Zenon DEF UnderWay
  <2> QED BY <1>2, <2>1, <2>2, Zenon
<1>5. Len(k.buffer) <= ClientCapacity /\ Len(k.taken) <= 1 /\ (k.phase = "open" => l.phase = "open")
  BY <1>1, <1>3
<1>6. LinkSound(k, n)
  BY <1>3, <1>4, <1>5, SameFramesSound
<1> QED BY <1>6 DEF k

\* The heartbeat drops what was taken: a frame, whose numbers are lost, or a resync.
LEMMA DropSound ==
  ASSUME NEW l, NEW n \in Numbers, LinkSound(l, n), l.taken # <<>>
  PROVE  LinkSound([l EXCEPT !.taken = <<>>,
                             !.lost = IF l.taken[1].type = "resync" THEN @
                                      ELSE @ \union (l.taken[1].from .. l.taken[1].seq)], n)
<1> DEFINE f == l.taken[1]
           lost == IF f.type = "resync" THEN l.lost ELSE l.lost \union (f.from .. f.seq)
           k == [l EXCEPT !.taken = <<>>, !.lost = lost]
           s == UnderWay(l)
           i == Len(l.wire) + 1
<1>n. n \in Nat /\ n <= MaxEvents
  BY DEF Numbers
<1>1. /\ l \in Links /\ l.wire \in Seq(Frames) /\ l.taken \in Seq(Frames)
      /\ l.buffer \in Seq(Frames) /\ Len(l.taken) = 1 /\ f \in Frames
      /\ Len(l.buffer) <= ClientCapacity /\ l.got \in Nat /\ l.got <= n
      /\ l.lost \in SUBSET Numbers /\ s \in Seq(Frames)
  BY <1>n, TakenIsOne
<1>2. /\ l.wire \o <<>> \o l.buffer = Without(s, i) /\ s[i] = f /\ i \in 1 .. Len(s)
  BY <1>1, UnderWayDrop DEF UnderWay
<1>3. /\ Upto(s, n) /\ Follow(l.got, s, l.lost)
      /\ l.phase = "open" /\ ~l.closed =>
           NoResync(s) /\ (End(l.got, s) + 1) .. n \subseteq l.lost
  BY DEF LinkSound
<1>4. f.from \in Nat /\ f.seq \in Nat /\ f.from <= f.seq /\ f.seq <= n
  BY <1>1, <1>2, <1>3, FrameFields DEF Upto
<1>5. lost \in SUBSET Numbers
  BY <1>n, <1>1, <1>4 DEF Numbers
<1> HIDE DEF f, lost
<1>6. /\ k \in Links /\ k.phase = l.phase /\ k.closed = l.closed /\ k.got = l.got
      /\ k.lost = lost /\ k.wire = l.wire /\ k.taken = <<>> /\ k.buffer = l.buffer
  <2>1. <<>> \in Seq(Frames)
    OBVIOUS
  <2> QED BY <1>1, <1>5, <2>1 DEF Links
<1> HIDE DEF k
<1>7. UnderWay(k) = Without(s, i)
  <2>1. UnderWay(k) = l.wire \o <<>> \o l.buffer
    BY <1>6, Zenon DEF UnderWay
  <2> QED BY <1>2, <2>1, Zenon
<1> HIDE DEF s, i
<1>8. /\ Without(s, i) \in Seq(Frames) /\ Len(Without(s, i)) = Len(s) - 1
      /\ \A j \in 1 .. Len(s) - 1 : Without(s, i)[j] = IF j < i THEN s[j] ELSE s[j + 1]
  BY <1>1, <1>2 DEF Without
<1>9. \A j \in 1 .. Len(s) - 1 : \E m \in 1 .. Len(s) : Without(s, i)[j] = s[m]
  <2>1. ASSUME NEW j \in 1 .. Len(s) - 1 PROVE \E m \in 1 .. Len(s) : Without(s, i)[j] = s[m]
    <3>1. j \in 1 .. Len(s) /\ j + 1 \in 1 .. Len(s)
      BY <1>1
    <3>2. Without(s, i)[j] = s[j] \/ Without(s, i)[j] = s[j + 1]
      BY <1>8
    <3> QED BY <3>1, <3>2
  <2> QED BY <2>1
<1>10. Upto(Without(s, i), n)
  <2>1. ASSUME NEW j \in 1 .. Len(Without(s, i))
        PROVE  Without(s, i)[j].from <= Without(s, i)[j].seq /\ Without(s, i)[j].seq <= n
    <3>1. PICK m \in 1 .. Len(s) : Without(s, i)[j] = s[m]
      BY <1>8, <1>9
    <3>2. s[m].from <= s[m].seq /\ s[m].seq <= n
      BY <1>3 DEF Upto
    <3> QED BY <3>1, <3>2
  <2> QED BY <2>1 DEF Upto
<1>11. CASE f.type = "resync"
  <2>1. i = Len(s) /\ lost = l.lost /\ ~(l.phase = "open" /\ ~l.closed)
    BY <1>2, <1>3, <1>11 DEF Follow, FrameFollows, NoResync, lost
  <2>2. ASSUME NEW j \in 1 .. Len(s) - 1 PROVE FrameFollows(l.got, Without(s, i), lost, j)
    <3>1. j \in 1 .. Len(s) /\ j < i /\ j # Len(s)
      BY <1>1, <2>1
    <3>2. Without(s, i)[j] = s[j]
      BY <1>8, <3>1
    <3>3. Before(l.got, Without(s, i), j) = Before(l.got, s, j)
      <4>1. j # 1 => j - 1 \in 1 .. Len(s) - 1 /\ j - 1 < i
        BY <1>1, <1>2, <3>1
      <4>2. j # 1 => Without(s, i)[j - 1] = s[j - 1]
        BY <1>8, <4>1
      <4> QED BY <4>2 DEF Before
    <3>4. FrameFollows(l.got, s, l.lost, j)
      BY <1>3, <3>1 DEF Follow
    <3> QED BY <2>1, <3>1, <3>2, <3>3, <3>4 DEF FrameFollows
  <2>3. Follow(l.got, Without(s, i), lost)
    BY <1>8, <2>2 DEF Follow
  <2>4. Len(k.taken) <= 1
    BY <1>6
  <2>5. LinkSound(k, n)
    BY <1>1, <1>6, <1>7, <1>10, <2>1, <2>3, <2>4 DEF LinkSound
  <2> QED BY <2>5 DEF k, lost, f
<1>12. CASE f.type # "resync"
  <2>1. lost = l.lost \cup (s[i].from .. s[i].seq) /\ s[i].type # "resync" /\ s[i].from <= s[i].seq
    BY <1>2, <1>4, <1>12 DEF lost
  <2>2. /\ Follow(l.got, Without(s, i), lost)
        /\ \A m \in Nat : (End(l.got, s) + 1) .. m \subseteq l.lost
                            => (End(l.got, Without(s, i)) + 1) .. m \subseteq lost
    BY <1>1, <1>2, <1>3, <2>1, FollowWithout
  <2>3. NoResync(s) => NoResync(Without(s, i))
    BY <1>8, <1>9 DEF NoResync
  <2>4. Len(k.taken) <= 1
    BY <1>6
  <2>5. LinkSound(k, n)
    BY <1>n, <1>1, <1>3, <1>6, <1>7, <1>10, <2>2, <2>3, <2>4 DEF LinkSound
  <2> QED BY <2>5 DEF k, lost, f
<1> QED BY <1>11, <1>12

LEMMA ReceiveSound ==
  ASSUME NEW l, NEW n \in Nat, LinkSound(l, n), l.wire # <<>>, Head(l.wire).type # "resync"
  PROVE  LinkSound([l EXCEPT !.wire = Tail(@), !.got = Head(l.wire).seq], n)
<1> DEFINE f == l.wire[1]
           k == [l EXCEPT !.wire = Tail(@), !.got = f.seq]
           s == UnderWay(l)
<1>1. /\ l \in Links /\ l.wire \in Seq(Frames) /\ l.taken \in Seq(Frames)
      /\ l.buffer \in Seq(Frames) /\ l.got \in Nat /\ s \in Seq(Frames)
      /\ Len(l.buffer) <= ClientCapacity /\ Len(l.taken) <= 1
  BY LinkFields DEF LinkSound
<1>2. Len(l.wire) > 0 /\ f \in Frames /\ f = Head(l.wire)
  BY <1>1, NotEmpty
<1>a. /\ Line(Tail(l.wire), l.taken, l.buffer) = Tail(Line(l.wire, l.taken, l.buffer))
      /\ Line(l.wire, l.taken, l.buffer)[1] = l.wire[1]
      /\ Len(Line(l.wire, l.taken, l.buffer)) > 0 /\ Tail(l.wire) \in Seq(Frames)
  <2>1. l.wire \in Seq(Frames) /\ l.taken \in Seq(Frames) /\ l.buffer \in Seq(Frames)
    BY <1>1
  <2>2. HeadLeaves(l.wire, l.taken, l.buffer)
    BY <2>1, <1>2, UnderWayReceive
  <2> QED BY <2>2 DEF HeadLeaves
<1>3. Tail(l.wire) \o l.taken \o l.buffer = Tail(s) /\ s[1] = f /\ Len(s) > 0
      /\ Tail(l.wire) \in Seq(Frames)
  BY <1>a, Zenon DEF UnderWay, Line
<1>4. /\ Upto(s, n) /\ Follow(l.got, s, l.lost)
      /\ l.phase = "open" /\ ~l.closed =>
           NoResync(s) /\ (End(l.got, s) + 1) .. n \subseteq l.lost
  BY DEF LinkSound
<1>5. f.seq \in Nat /\ f.seq <= n
  BY <1>2, <1>3, <1>4, FrameFields DEF Upto
<1> HIDE DEF f
<1>6. /\ k \in Links /\ k.phase = l.phase /\ k.closed = l.closed /\ k.got = f.seq
      /\ k.lost = l.lost /\ k.wire = Tail(l.wire) /\ k.taken = l.taken /\ k.buffer = l.buffer
  BY <1>1, <1>3, <1>5 DEF Links
<1> HIDE DEF k
<1>7. UnderWay(k) = Tail(s)
  <2>1. UnderWay(k) = Tail(l.wire) \o l.taken \o l.buffer
    BY <1>6, Zenon DEF UnderWay
  <2> QED BY <1>3, <2>1, Zenon
<1> HIDE DEF s
<1>8. Follow(f.seq, Tail(s), l.lost) /\ End(f.seq, Tail(s)) = End(l.got, s)
  BY <1>1, <1>2, <1>3, <1>4, FollowTail
<1>9. Tail(s) \in Seq(Frames) /\ Len(Tail(s)) = Len(s) - 1
      /\ \A j \in 1 .. Len(Tail(s)) : Tail(s)[j] = s[j + 1] /\ j + 1 \in 1 .. Len(s)
  BY <1>1, <1>3
<1>10. Upto(Tail(s), n) /\ (NoResync(s) => NoResync(Tail(s)))
  BY <1>4, <1>9 DEF Upto, NoResync
<1>11. LinkSound(k, n)
  BY <1>1, <1>4, <1>5, <1>6, <1>7, <1>8, <1>10 DEF LinkSound
<1> QED BY <1>2, <1>11 DEF k

-----------------------------------------------------------------------------
\* The invariant, step by step.
LEMMA LinksKept ==
  ASSUME NEW c \in Connections, NEW k, StreamInv, LinkSound(k, sequence),
         link' = [link EXCEPT ![c] = k], UNCHANGED Server
  PROVE  StreamInv'
<1>1. k \in Links
  BY DEF LinkSound
<1>2. link' \in [Connections -> Links]
  BY <1>1 DEF StreamInv
<1>3. ServerSound'
  BY DEF StreamInv, ServerSound, Server
<1>4. \A d \in Connections : LinkSound(link'[d], sequence)
  BY DEF StreamInv
<1>5. (\A d \in Connections : LinkSound(link[d], sequence))'
  BY <1>4 DEF Server
<1> QED BY <1>2, <1>3, <1>5 DEF StreamInv

LEMMA InitSound == Init => StreamInv
<1> SUFFICES ASSUME Init PROVE StreamInv
  OBVIOUS
<1>1. LinkSound(Free, 0) /\ Free \in Links
  BY FreeSound DEF LinkSound
<1>2. replay \in Seq(Frames) /\ Len(replay) = 0
  BY DEF Init
<1>3. ServerSound
  BY <1>2 DEF Init, ServerSound, Numbers
<1> QED BY <1>1, <1>3 DEF Init, StreamInv

LEMMA PublishSound ==
  ASSUME StreamInv, Publish
  PROVE  StreamInv'
<1>1. PICK kind \in Kinds :
        LET e == Frame(kind, sequence + 1, sequence + 1)
        IN /\ sequence' = e.seq
           /\ replay' = Retain(e)
           /\ link' = [c \in Connections |->
                         IF link[c].phase = "open" THEN Offer(link[c], e) ELSE link[c]]
  BY DEF Publish
<1> DEFINE e == Frame(kind, sequence + 1, sequence + 1)
           all == Append(replay, e)
<1>2. sequence \in Nat /\ sequence < MaxEvents
  BY DEF Publish, StreamInv, ServerSound, Numbers
<1>3. /\ e \in Frames /\ e.type # "resync" /\ e.from = sequence + 1 /\ e.seq = sequence + 1
  BY <1>2, FrameTypes
<1>4. /\ sequence' = sequence + 1 /\ replay' = Retain(e)
      /\ link' = [c \in Connections |->
                    IF link[c].phase = "open" THEN Offer(link[c], e) ELSE link[c]]
  BY <1>1, <1>3
<1> HIDE DEF e
<1>5. \A c \in Connections : LinkSound(link'[c], sequence + 1)
  <2> SUFFICES ASSUME NEW c \in Connections PROVE LinkSound(link'[c], sequence + 1)
    OBVIOUS
  <2>1. LinkSound(link[c], sequence)
    BY DEF StreamInv
  <2>2. CASE link[c].phase = "open"
    <3>1. LinkSound(Offer(link[c], e), sequence + 1)
      BY <1>2, <1>3, <2>1, <2>2, OfferSound
    <3> QED BY <1>4, <2>2, <3>1
  <2>3. CASE link[c].phase # "open"
    <3>1. LinkSound(link[c], sequence + 1)
      BY <1>2, <2>1, <2>3, ClosedSound
    <3> QED BY <1>4, <2>3, <3>1
  <2> QED BY <2>2, <2>3
<1>6. /\ replay \in Seq(Frames) /\ Len(replay) \in Nat /\ Len(replay) <= ReplayCapacity
      /\ Len(replay) <= sequence
      /\ \A i \in 1 .. Len(replay) :
           /\ replay[i].type # "resync" /\ replay[i].from = replay[i].seq
           /\ replay[i].seq = sequence - Len(replay) + i
  BY DEF StreamInv, ServerSound
<1>7. /\ all \in Seq(Frames) /\ Len(all) = Len(replay) + 1 /\ all[Len(replay) + 1] = e
      /\ \A i \in 1 .. Len(replay) : all[i] = replay[i]
  BY <1>3, <1>6
<1> HIDE DEF all
<1>8. ASSUME NEW i \in 1 .. Len(all)
      PROVE  /\ all[i].type # "resync" /\ all[i].from = all[i].seq
             /\ all[i].seq = sequence + 1 - Len(all) + i
  <2>1. CASE i = Len(replay) + 1
    BY <1>2, <1>3, <1>6, <1>7, <2>1
  <2>2. CASE i # Len(replay) + 1
    <3>1. i \in 1 .. Len(replay) /\ all[i] = replay[i]
      BY <1>6, <1>7, <2>2
    <3> QED BY <1>2, <1>6, <1>7, <3>1
  <2> QED BY <2>1, <2>2
<1>9. replay' = (IF Len(all) > ReplayCapacity THEN Tail(all) ELSE all)
  BY <1>4 DEF Retain, all
<1>10. /\ replay' \in Seq(Frames) /\ Len(replay') <= ReplayCapacity /\ Len(replay') > 0
       /\ Len(replay') <= sequence + 1
       /\ \A i \in 1 .. Len(replay') :
            /\ replay'[i].type # "resync" /\ replay'[i].from = replay'[i].seq
            /\ replay'[i].seq = sequence + 1 - Len(replay') + i
  <2>1. CASE Len(all) > ReplayCapacity
    <3>1. all # <<>>
      BY <1>6, <1>7
    <3>2. /\ Tail(all) \in Seq(Frames) /\ Len(Tail(all)) = Len(all) - 1
          /\ \A i \in 1 .. Len(Tail(all)) : Tail(all)[i] = all[i + 1]
      BY <1>7, <3>1, HeadTailProperties
    <3>3. Len(Tail(all)) = Len(replay) /\ Len(replay) = ReplayCapacity
      BY <1>6, <1>7, <2>1, <3>2
    <3>4. ASSUME NEW i \in 1 .. Len(Tail(all))
          PROVE  /\ Tail(all)[i].type # "resync" /\ Tail(all)[i].from = Tail(all)[i].seq
                 /\ Tail(all)[i].seq = sequence + 1 - Len(Tail(all)) + i
      <4>1. i + 1 \in 1 .. Len(all) /\ Tail(all)[i] = all[i + 1]
        BY <1>6, <1>7, <3>2
      <4>2. /\ all[i + 1].type # "resync" /\ all[i + 1].from = all[i + 1].seq
            /\ all[i + 1].seq = sequence + 1 - Len(all) + (i + 1)
        BY <1>8, <4>1
      <4>3. sequence + 1 - Len(all) + (i + 1) = sequence + 1 - Len(Tail(all)) + i
        <5> DEFINE la == Len(all)
                   lt == Len(Tail(all))
                   lr == Len(replay)
        <5>1. la = lr + 1 /\ lt = lr /\ lr \in Nat /\ i \in Int /\ sequence \in Nat
          BY <1>2, <1>6, <1>7, <3>3
        <5> HIDE DEF la, lt, lr
        <5>2. sequence + 1 - la + (i + 1) = sequence + 1 - lt + i
          BY <5>1
        <5> QED BY <5>2 DEF la, lt
      <4> QED BY <4>1, <4>2, <4>3
    <3>5. replay' = Tail(all)
      BY <1>9, <2>1
    <3>6. Len(Tail(all)) <= ReplayCapacity /\ Len(Tail(all)) > 0 /\ Len(Tail(all)) <= sequence + 1
      BY <1>2, <1>6, <3>3
    <3> QED BY <3>2, <3>4, <3>5, <3>6
  <2>2. CASE ~(Len(all) > ReplayCapacity)
    <3>1. replay' = all
      BY <1>9, <2>2
    <3>2. Len(all) <= ReplayCapacity /\ Len(all) > 0 /\ Len(all) <= sequence + 1
      BY <1>2, <1>6, <1>7, <2>2
    <3> QED BY <1>7, <1>8, <3>1, <3>2
  <2> QED BY <2>1, <2>2
<1>11. ServerSound'
  <2>1. epoch' \in 1..MaxEpochs /\ up' \in BOOLEAN
    BY DEF StreamInv, ServerSound, Publish
  <2>2. sequence' \in Numbers
    BY <1>2, <1>4 DEF Numbers
  <2>3. /\ Len(replay') <= sequence' /\ (Len(replay') = 0 => sequence' = 0)
        /\ \A i \in 1 .. Len(replay') :
             /\ replay'[i].type # "resync" /\ replay'[i].from = replay'[i].seq
             /\ replay'[i].seq = sequence' - Len(replay') + i
    <3>1. sequence' = sequence + 1
      BY <1>4
    <3>2. sequence' # 0
      BY <1>2, <3>1
    <3> DEFINE m == sequence'
               r == replay'
    <3>3. m = sequence + 1 /\ m # 0
      BY <3>1, <3>2
    <3>4. Len(r) <= m
      BY <1>10, <3>3
    <3>a. \A i \in 1 .. Len(r) : r[i].type # "resync" /\ r[i].from = r[i].seq
                               /\ r[i].seq = sequence + 1 - Len(r) + i
      BY <1>10
    <3>5. \A i \in 1 .. Len(r) : r[i].type # "resync" /\ r[i].from = r[i].seq
                               /\ r[i].seq = m - Len(r) + i
      <4>1. m = sequence + 1 /\ sequence \in Nat /\ Len(r) \in Nat
        BY <1>2, <1>10, <3>3
      <4> HIDE DEF m, r
      <4> QED BY <4>1, <3>a
    <3>6. Len(r) # 0
      BY <1>10
    <3> QED BY <3>4, <3>5, <3>6
  <2> QED BY <1>10, <2>1, <2>2, <2>3 DEF ServerSound
<1>12. link' \in [Connections -> Links]
  <2>1. \A c \in Connections : link'[c] \in Links
    BY <1>5 DEF LinkSound
  <2> QED BY <1>4, <2>1
<1>13. (\A c \in Connections : LinkSound(link[c], sequence))'
  BY <1>4, <1>5
<1> QED BY <1>11, <1>12, <1>13 DEF StreamInv

LEMMA ServerStepsSound ==
  ASSUME StreamInv, Close \/ Restart
  PROVE  StreamInv'
<1>1. CASE Close
  <2>1. sequence \in Nat
    BY DEF StreamInv, ServerSound, Numbers
  <2>2. /\ link' = [c \in Connections |->
                IF link[c].phase = "open" THEN FailClosed(link[c], sequence) ELSE link[c]]
        /\ up' = FALSE /\ UNCHANGED <<epoch, sequence, replay>>
    BY <1>1 DEF Close
  <2>3. \A c \in Connections : LinkSound(link'[c], sequence)
    <3> SUFFICES ASSUME NEW c \in Connections PROVE LinkSound(link'[c], sequence)
      OBVIOUS
    <3>1. LinkSound(link[c], sequence)
      BY DEF StreamInv
    <3>2. link[c].phase = "open" => LinkSound(FailClosed(link[c], sequence), sequence)
      BY <2>1, <3>1, FailClosedSound
    <3> QED BY <2>2, <3>1, <3>2
  <2>4. ServerSound'
    BY <2>2 DEF StreamInv, ServerSound
  <2>5. link' \in [Connections -> Links]
    <3>1. \A c \in Connections : link'[c] \in Links
      BY <2>3 DEF LinkSound
    <3> QED BY <2>2, <3>1
  <2>6. (\A c \in Connections : LinkSound(link[c], sequence))'
    BY <2>2, <2>3
  <2> QED BY <2>4, <2>5, <2>6 DEF StreamInv
<1>2. CASE Restart
  <2>1. /\ epoch' = epoch + 1 /\ epoch < MaxEpochs /\ up' = TRUE /\ sequence' = 0
        /\ replay' = <<>> /\ link' = [c \in Connections |-> Free]
    BY <1>2 DEF Restart
  <2>2. LinkSound(Free, 0) /\ Free \in Links
    BY FreeSound DEF LinkSound
  <2>3. replay' \in Seq(Frames) /\ Len(replay') = 0
    BY <2>1
  <2>4. ServerSound'
    BY <2>1, <2>3 DEF StreamInv, ServerSound, Numbers
  <2>5. link' \in [Connections -> Links] /\ \A c \in Connections : LinkSound(link'[c], 0)
    BY <2>1, <2>2
  <2>6. (\A c \in Connections : LinkSound(link[c], sequence))'
    BY <2>1, <2>5
  <2> QED BY <2>4, <2>5, <2>6 DEF StreamInv
<1> QED BY <1>1, <1>2

LEMMA ConnectionStepsSound ==
  ASSUME StreamInv, NEW c \in Connections,
         \/ RegisterAnew(c)
         \/ \E cursor \in Cursors : RegisterAfter(c, cursor)
         \/ Take(c) \/ Yield(c) \/ HeartbeatDrops(c) \/ EndOfStream(c)
         \/ Receive(c) \/ Disconnect(c)
  PROVE  StreamInv'
<1> DEFINE l == link[c]
<1>1. ServerSound /\ LinkSound(l, sequence) /\ sequence \in Nat /\ sequence \in Numbers
      /\ link \in [Connections -> Links] /\ l \in Links
  BY DEF StreamInv, ServerSound, Numbers
<1>2. CASE RegisterAnew(c)
  <2> DEFINE k == [Free EXCEPT !.phase = "open", !.got = sequence]
             none == <<>>
  <2>1. none \in Seq(Frames) /\ Len(none) = 0 /\ Len(none) <= ClientCapacity
        /\ Len(none) = sequence - sequence
    BY <1>1
  <2>3. /\ k \in Links /\ k.phase = "open" /\ k.closed = FALSE /\ k.got = sequence /\ k.lost = {}
        /\ k.taken = <<>> /\ k.wire = <<>> /\ k.buffer = none
    BY <1>1, <2>1 DEF Free, Links
  <2>4. link' = [link EXCEPT ![c] = k] /\ UNCHANGED Server
    BY <1>2 DEF RegisterAnew, Server
  <2> HIDE DEF k, none
  <2>5. \A i \in 1 .. Len(none) : /\ none[i].type # "resync" /\ none[i].from = none[i].seq
                                /\ none[i].seq = sequence + i
    BY <2>1
  <2>2. LinkSound(k, sequence)
    <3> DEFINE n == sequence
    <3>1. n \in Nat /\ n <= n /\ Len(none) = n - n /\ k.got = n
          /\ \A i \in 1 .. Len(none) : /\ none[i].type # "resync" /\ none[i].from = none[i].seq
                                    /\ none[i].seq = n + i
      BY <1>1, <2>1, <2>3, <2>5
    <3> HIDE DEF n
    <3>2. LinkSound(k, n)
      BY <2>1, <2>3, <3>1, FreshSound
    <3> QED BY <3>2 DEF n
  <2> QED BY <2>2, <2>4, LinksKept
<1>3. ASSUME NEW cursor \in Cursors, RegisterAfter(c, cursor) PROVE StreamInv'
  <2>1. LinkSound(Seed(cursor), sequence)
    BY <1>1, SeedSound
  <2>2. link' = [link EXCEPT ![c] = Seed(cursor)] /\ UNCHANGED Server
    BY <1>3 DEF RegisterAfter, Server
  <2> QED BY <2>1, <2>2, LinksKept
<1>4. CASE Take(c)
  <2> DEFINE k == [l EXCEPT !.taken = <<Head(l.buffer)>>, !.buffer = Tail(@)]
  <2>1. l.taken = <<>> /\ l.buffer # <<>>
    BY <1>4 DEF Take
  <2>2. LinkSound(k, sequence)
    BY <1>1, <2>1, TakeSound
  <2>3. link' = [link EXCEPT ![c] = k] /\ UNCHANGED Server
    BY <1>1, <1>4 DEF Take
  <2> HIDE DEF k
  <2> QED BY <2>2, <2>3, LinksKept
<1>5. CASE Yield(c)
  <2> DEFINE phase == IF l.taken[1].type = "resync" THEN "ended" ELSE l.phase
             k == [l EXCEPT !.taken = <<>>, !.wire = Append(@, l.taken[1]), !.phase = phase]
  <2>1. l.taken # <<>> /\ phase \in {l.phase, "ended"}
    BY <1>5 DEF Yield
  <2>2. LinkSound(k, sequence)
    BY <1>1, <2>1, YieldSound
  <2>3. link' = [link EXCEPT ![c] = k] /\ UNCHANGED Server
    BY <1>1, <1>5 DEF Yield
  <2> HIDE DEF k
  <2> QED BY <2>2, <2>3, LinksKept
<1>6. CASE HeartbeatDrops(c)
  <2> DEFINE k == [l EXCEPT !.taken = <<>>,
                             !.lost = IF l.taken[1].type = "resync" THEN @
                                      ELSE @ \union (l.taken[1].from .. l.taken[1].seq)]
  <2>1. l.taken # <<>>
    BY <1>6 DEF HeartbeatDrops
  <2>2. LinkSound(k, sequence)
    BY <1>1, <2>1, DropSound
  <2>3. link' = [link EXCEPT ![c] = k] /\ UNCHANGED Server
    BY <1>1, <1>6 DEF HeartbeatDrops
  <2> HIDE DEF k
  <2> QED BY <2>2, <2>3, LinksKept
<1>7. CASE EndOfStream(c)
  <2> DEFINE k == [l EXCEPT !.phase = "ended"]
  <2>1. /\ k \in Links /\ k.phase = "ended" /\ k.closed = l.closed /\ k.got = l.got
        /\ k.lost = l.lost /\ k.wire = l.wire /\ k.taken = l.taken /\ k.buffer = l.buffer
    BY <1>1 DEF Links
  <2>2. link' = [link EXCEPT ![c] = k] /\ UNCHANGED Server
    BY <1>1, <1>7 DEF EndOfStream
  <2> HIDE DEF k
  <2>3. UnderWay(k) = UnderWay(l)
    BY <2>1, Zenon DEF UnderWay
  <2>4. Len(k.buffer) <= ClientCapacity /\ Len(k.taken) <= 1
    BY <1>1, <2>1 DEF LinkSound
  <2>5. LinkSound(k, sequence)
    BY <1>1, <2>1, <2>3, <2>4, SameFramesSound
  <2> QED BY <2>2, <2>5, LinksKept
<1>8. CASE Receive(c)
  <2>1. CASE Head(l.wire).type = "resync"
    <3>1. LinkSound(Free, sequence)
      BY <1>1, FreeSound
    <3>2. link' = [link EXCEPT ![c] = Free] /\ UNCHANGED Server
      BY <1>8, <2>1 DEF Receive
    <3> QED BY <3>1, <3>2, LinksKept
  <2>2. CASE Head(l.wire).type # "resync"
    <3> DEFINE k == [l EXCEPT !.wire = Tail(@), !.got = Head(l.wire).seq]
    <3>1. l.wire # <<>>
      BY <1>8 DEF Receive
    <3>2. LinkSound(k, sequence)
      BY <1>1, <2>2, <3>1, ReceiveSound
    <3>3. link' = [link EXCEPT ![c] = k] /\ UNCHANGED Server
      <4>1. link' = [link EXCEPT ![c] = IF Head(l.wire).type = "resync" THEN Free ELSE k]
            /\ UNCHANGED Server
        BY <1>1, <1>8 DEF Receive
      <4> QED BY <2>2, <4>1
    <3> HIDE DEF k
    <3> QED BY <3>2, <3>3, LinksKept
  <2> QED BY <2>1, <2>2
<1>9. CASE Disconnect(c)
  <2>1. LinkSound(Free, sequence)
    BY <1>1, FreeSound
  <2>2. link' = [link EXCEPT ![c] = Free] /\ UNCHANGED Server
    BY <1>9 DEF Disconnect
  <2> QED BY <2>1, <2>2, LinksKept
<1> QED BY <1>2, <1>3, <1>4, <1>5, <1>6, <1>7, <1>8, <1>9

\* StreamInv is inductive: publishing, replay, absorption, overflow, heartbeats,
\* shutdown and restarts of the event stream keep it.
THEOREM StreamInvariant == Spec => []StreamInv
<1>1. Init => StreamInv
  BY InitSound
<1>2. StreamInv /\ [Next]_vars => StreamInv'
  <2> SUFFICES ASSUME StreamInv, [Next]_vars PROVE StreamInv'
    OBVIOUS
  <2>1. CASE Publish
    BY <2>1, PublishSound
  <2>2. CASE Close \/ Restart
    BY <2>2, ServerStepsSound
  <2>3. ASSUME NEW c \in Connections,
               \/ RegisterAnew(c)
               \/ \E cursor \in Cursors : RegisterAfter(c, cursor)
               \/ Take(c) \/ Yield(c) \/ HeartbeatDrops(c) \/ EndOfStream(c)
               \/ Receive(c) \/ Disconnect(c)
        PROVE  StreamInv'
    BY <2>3, ConnectionStepsSound
  <2>4. CASE UNCHANGED vars
    BY <2>4 DEF vars, StreamInv, ServerSound
  <2> QED BY <2>1, <2>2, <2>3, <2>4 DEF Next
<1> QED BY <1>1, <1>2, PTL DEF Spec

\* For any connections and capacities, whatever is published, read, dropped by a
\* heartbeat, replayed or restarted, the frames under way to a client follow each
\* other without a gap, and nothing follows a resync.
THEOREM StreamIsUnbroken == Spec => []StreamUnbroken
<1>1. StreamInv => StreamUnbroken
  <2> SUFFICES ASSUME StreamInv, NEW c \in Connections
               PROVE  LET l == link[c]
                          frames == UnderWay(l)
                      IN /\ \A i \in DOMAIN frames :
                              IF frames[i].type = "resync"
                                THEN i = Len(frames)
                                ELSE /\ frames[i].from > Reached(l, i - 1)
                                     /\ (Reached(l, i - 1) + 1)..(frames[i].from - 1) \subseteq l.lost
                         /\ l.phase = "open" /\ ~l.closed =>
                              (Reached(l, Len(frames)) + 1)..sequence \subseteq l.lost
    BY Zenon DEF StreamUnbroken
  <2> DEFINE l == link[c]
             frames == UnderWay(l)
  <2>1. LinkSound(l, sequence) /\ frames \in Seq(Frames)
    BY LinkFields DEF StreamInv, LinkSound
  <2>2. DOMAIN frames = 1 .. Len(frames)
    BY <2>1
  <2>3. ASSUME NEW i \in 1 .. Len(frames) PROVE Reached(l, i - 1) = Before(l.got, frames, i)
    BY DEF Reached, Before
  <2>4. Reached(l, Len(frames)) = End(l.got, frames)
    BY DEF Reached, End
  <2>5. \A i \in 1 .. Len(frames) : FrameFollows(l.got, frames, l.lost, i)
    BY <2>1 DEF LinkSound, Follow
  <2>6. l.phase = "open" /\ ~l.closed => (End(l.got, frames) + 1) .. sequence \subseteq l.lost
    BY <2>1 DEF LinkSound
  <2> HIDE DEF l, frames
  <2>7. \A i \in DOMAIN frames :
           IF frames[i].type = "resync"
             THEN i = Len(frames)
             ELSE /\ frames[i].from > Reached(l, i - 1)
                  /\ (Reached(l, i - 1) + 1)..(frames[i].from - 1) \subseteq l.lost
    <3> SUFFICES ASSUME NEW i \in 1 .. Len(frames)
                 PROVE  IF frames[i].type = "resync"
                          THEN i = Len(frames)
                          ELSE /\ frames[i].from > Reached(l, i - 1)
                               /\ (Reached(l, i - 1) + 1)..(frames[i].from - 1) \subseteq l.lost
      BY <2>2
    <3>1. FrameFollows(l.got, frames, l.lost, i)
      BY <2>5
    <3>2. Reached(l, i - 1) = Before(l.got, frames, i)
      BY <2>3
    <3> QED BY <3>1, <3>2 DEF FrameFollows
  <2>8. l.phase = "open" /\ ~l.closed =>
          (Reached(l, Len(frames)) + 1)..sequence \subseteq l.lost
    BY <2>4, <2>6
  <2> QED BY <2>7, <2>8 DEF l, frames
<1> QED BY <1>1, StreamInvariant, PTL

\* For any bounds, buffers and replay keep their capacity and every part of the
\* event stream keeps its type.
THEOREM StreamTypeCorrect == Spec => []TypeOK
<1>1. StreamInv => TypeOK
  <2> SUFFICES ASSUME StreamInv PROVE TypeOK
    OBVIOUS
  <2>1. ASSUME NEW f \in Frames, f.from <= f.seq, f.seq <= sequence PROVE IsFrame(f)
    <3>1. f.from \in Numbers /\ f.seq \in Numbers
      BY <2>1, FrameFields DEF StreamInv, ServerSound, Numbers
    <3> QED BY <3>1, FrameFields DEF IsFrame
  <2>2. \A i \in DOMAIN replay : IsFrame(replay[i])
    <3>1. replay \in Seq(Frames) /\ DOMAIN replay = 1 .. Len(replay)
      BY DEF StreamInv, ServerSound
    <3> SUFFICES ASSUME NEW i \in 1 .. Len(replay) PROVE IsFrame(replay[i])
      BY <3>1
    <3>2. replay[i] \in Frames
      BY <3>1
    <3>3. /\ replay[i].from = replay[i].seq /\ replay[i].seq = sequence - Len(replay) + i
          /\ sequence \in Nat
      BY DEF StreamInv, ServerSound, Numbers
    <3>4. replay[i].seq \in Nat /\ replay[i].from <= replay[i].seq /\ replay[i].seq <= sequence
      BY <3>1, <3>2, <3>3, FrameFields
    <3> QED BY <2>1, <3>2, <3>4
  <2>3. ASSUME NEW c \in Connections
        PROVE  /\ DOMAIN link[c] = DOMAIN Free
               /\ link[c].phase \in {"free", "open", "ended"}
               /\ link[c].closed \in BOOLEAN
               /\ link[c].got \in Numbers
               /\ link[c].lost \subseteq Numbers
               /\ Len(link[c].buffer) <= ClientCapacity
               /\ Len(link[c].taken) <= 1
               /\ \A i \in DOMAIN link[c].buffer : IsFrame(link[c].buffer[i])
               /\ \A i \in DOMAIN link[c].taken : IsFrame(link[c].taken[i])
               /\ \A i \in DOMAIN link[c].wire : IsFrame(link[c].wire[i])
    <3> DEFINE l == link[c]
               w == l.wire
               t == l.taken
               b == l.buffer
               s == UnderWay(l)
    <3>1. /\ l \in Links /\ l.phase \in {"free", "open", "ended"} /\ l.closed \in BOOLEAN
          /\ l.got \in Nat /\ l.got <= sequence /\ l.lost \subseteq Numbers
          /\ Len(b) <= ClientCapacity /\ Len(t) <= 1
          /\ w \in Seq(Frames) /\ t \in Seq(Frames) /\ b \in Seq(Frames)
          /\ Upto(s, sequence) /\ sequence \in Numbers
      BY LinkFields DEF StreamInv, LinkSound, ServerSound
    <3>2. l.got \in Numbers
      BY <3>1 DEF Numbers
    <3>3. DOMAIN l = DOMAIN Free
      BY <3>1 DEF Links, Free
    <3>4. s = w \o t \o b
      BY Zenon DEF UnderWay
    <3> HIDE DEF l, w, t, b, s
    <3>5. /\ s \in Seq(Frames) /\ Len(s) = Len(w) + Len(t) + Len(b)
          /\ \A i \in 1 .. Len(s) : s[i] = IF i <= Len(w) THEN w[i]
                                         ELSE IF i <= Len(w) + Len(t) THEN t[i - Len(w)]
                                         ELSE b[i - Len(w) - Len(t)]
      BY <3>1, <3>4, ThreeParts
    <3>6. \A i \in 1 .. Len(s) : IsFrame(s[i])
      <4> SUFFICES ASSUME NEW i \in 1 .. Len(s) PROVE IsFrame(s[i])
        OBVIOUS
      <4>1. s[i] \in Frames
        BY <3>5
      <4> QED BY <2>1, <3>1, <4>1 DEF Upto
    <3>7. ASSUME NEW i \in DOMAIN w PROVE IsFrame(w[i])
      <4>1. i \in 1 .. Len(w) /\ i \in 1 .. Len(s) /\ i <= Len(w)
        BY <3>1, <3>5
      <4>2. s[i] = w[i]
        BY <3>5, <4>1
      <4> QED BY <3>6, <4>1, <4>2
    <3>8. ASSUME NEW i \in DOMAIN t PROVE IsFrame(t[i])
      <4> DEFINE j == Len(w) + i
      <4>1. i \in 1 .. Len(t) /\ j \in 1 .. Len(s) /\ ~(j <= Len(w)) /\ j <= Len(w) + Len(t)
            /\ j - Len(w) = i
        BY <3>1, <3>5
      <4> HIDE DEF j
      <4>2. s[j] = t[i]
        BY <3>5, <4>1
      <4> QED BY <3>6, <4>1, <4>2
    <3>9. ASSUME NEW i \in DOMAIN b PROVE IsFrame(b[i])
      <4> DEFINE j == Len(w) + Len(t) + i
      <4>1. i \in 1 .. Len(b) /\ j \in 1 .. Len(s) /\ ~(j <= Len(w)) /\ ~(j <= Len(w) + Len(t))
            /\ j - Len(w) - Len(t) = i
        BY <3>1, <3>5
      <4> HIDE DEF j
      <4>2. s[j] = b[i]
        BY <3>5, <4>1
      <4> QED BY <3>6, <4>1, <4>2
    <3> QED BY <3>1, <3>2, <3>3, <3>7, <3>8, <3>9 DEF l, w, t, b
  <2>4. /\ epoch \in 1..MaxEpochs /\ up \in BOOLEAN /\ sequence \in Numbers
        /\ Len(replay) <= ReplayCapacity
    BY DEF StreamInv, ServerSound
  <2> QED BY <2>2, <2>3, <2>4 DEF TypeOK
<1> QED BY <1>1, StreamInvariant, PTL

-----------------------------------------------------------------------------
\* No client of the event stream is forgotten: one that lacks an event which no
\* heartbeat dropped has it under way, or its body is about to end.
THEOREM NoClientIsForgotten == Spec => []ConnectionsAreServed
<1>1. StreamInv => ConnectionsAreServed
  <2> SUFFICES ASSUME StreamInv, NEW c \in Connections, link[c].phase = "open",
                      UnderWay(link[c]) = <<>>, ~ Exhausted(link[c])
               PROVE  ~ link[c].closed /\ HasAll(link[c])
    BY Zenon DEF ConnectionsAreServed
  <2> DEFINE l == link[c]
  <2>1. LinkSound(l, sequence) /\ l.wire \in Seq(Frames) /\ l.taken \in Seq(Frames)
        /\ l.buffer \in Seq(Frames)
    BY LinkFields DEF StreamInv, LinkSound
  <2>2. UnderWay(l) = l.wire \o l.taken \o l.buffer /\ Len(UnderWay(l)) = 0
    BY EmptySeq DEF UnderWay
  <2>3. l.buffer = <<>>
    <3> DEFINE w == l.wire
               t == l.taken
               b == l.buffer
    <3>1. w \o t \o b = <<>> /\ w \in Seq(Frames) /\ t \in Seq(Frames) /\ b \in Seq(Frames)
      BY <2>1, <2>2
    <3> HIDE DEF w, t, b
    <3>2. Len(w \o t \o b) = Len(w) + Len(t) + Len(b) /\ Len(w \o t \o b) = 0
      BY <3>1
    <3>3. Len(b) = 0
      BY <3>1, <3>2
    <3> QED BY <3>1, <3>3 DEF b
  <2>4. ~ l.closed
    BY <2>3 DEF Exhausted
  <2>5. End(l.got, UnderWay(l)) = l.got
    BY <2>2 DEF End
  <2> QED BY <2>1, <2>4, <2>5 DEF LinkSound, HasAll
<1> QED BY <1>1, StreamInvariant, PTL

\* Every step of a body or of its client brings a frame nearer.
LEMMA FrameAdvances ==
  ASSUME StreamInv, NEW c \in Connections, Body(c) \/ Receive(c)
  PROVE  link'[c].phase # "open" \/ Distance(link'[c]) < Distance(link[c])
<1> DEFINE l == link[c]
           b == Len(l.buffer)
           t == Len(l.taken)
           w == Len(l.wire)
<1>1. l \in Links /\ link \in [Connections -> Links]
  BY DEF StreamInv
<1>2. /\ l.buffer \in Seq(Frames) /\ l.taken \in Seq(Frames) /\ l.wire \in Seq(Frames)
      /\ t <= 1
  BY LinkFields DEF StreamInv, LinkSound
<1>3. b \in Nat /\ t \in Nat /\ w \in Nat
  BY <1>2, LenProperties
<1>4. Distance(l) = 3 * b + 2 * t + w
  BY <1>3 DEF Distance
<1>5. CASE Take(c)
  <2> DEFINE k == [l EXCEPT !.taken = <<Head(l.buffer)>>, !.buffer = Tail(l.buffer)]
  <2>1. link'[c] = k /\ t = 0 /\ l.buffer # <<>>
    BY <1>1, <1>5, EmptySeq DEF Take
  <2>2. Len(k.buffer) = b - 1 /\ b - 1 \in Nat /\ Len(k.taken) = 1 /\ Len(k.wire) = w
    BY <1>1, <1>2, <1>3, <2>1 DEF Links
  <2> HIDE DEF b, t, w, k
  <2>3. Distance(k) = 3 * (b - 1) + 2 * 1 + w
    BY <1>3, <2>2 DEF Distance
  <2>4. Distance(k) < Distance(l)
    BY <1>3, <1>4, <2>1, <2>2, <2>3
  <2> QED BY <2>1, <2>4
<1>6. CASE Yield(c)
  <2> DEFINE frame == l.taken[1]
             k == [l EXCEPT !.taken = <<>>, !.wire = Append(l.wire, frame),
                            !.phase = IF frame.type = "resync" THEN "ended" ELSE l.phase]
  <2>1. link'[c] = k /\ l.taken # <<>>
    BY <1>1, <1>6 DEF Yield
  <2>2. t = 1 /\ Len(k.taken) = 0 /\ Len(k.buffer) = b
    <3>1. t = 1
      <4>1. LinkSound(l, sequence) /\ sequence \in Nat
        BY DEF StreamInv, ServerSound, Numbers
      <4> QED BY <2>1, <4>1, TakenIsOne
    <3>2. k.taken = <<>> /\ k.buffer = l.buffer
      BY <1>1 DEF Links
    <3> QED BY <3>1, <3>2, EmptySeq
  <2>3. Len(k.wire) = w + 1
    BY <1>1, <1>2 DEF Links
  <2> HIDE DEF b, t, w, k
  <2>4. Distance(k) = 3 * b + 2 * 0 + (w + 1)
    <3>1. w + 1 \in Nat
      BY <1>3
    <3> QED BY <1>3, <2>2, <2>3, <3>1 DEF Distance
  <2>5. Distance(k) < Distance(l)
    BY <1>3, <1>4, <2>2, <2>4
  <2> QED BY <2>1, <2>5
<1>7. CASE EndOfStream(c)
  BY <1>1, <1>7 DEF EndOfStream, Links
<1>8. CASE Receive(c)
  <2> DEFINE k == [l EXCEPT !.wire = Tail(l.wire), !.got = Head(l.wire).seq]
  <2>1. l.wire # <<>> /\ (link'[c] = Free \/ link'[c] = k)
    BY <1>1, <1>8 DEF Receive
  <2>2. Free.phase # "open"
    BY DEF Free
  <2>3. Len(k.wire) = w - 1 /\ w - 1 \in Nat /\ Len(k.taken) = t /\ Len(k.buffer) = b
    BY <1>1, <1>2, <1>3, <2>1 DEF Links
  <2> HIDE DEF b, t, w, k
  <2>4. Distance(k) = 3 * b + 2 * t + (w - 1)
    BY <1>3, <2>3 DEF Distance
  <2>5. Distance(k) < Distance(l)
    BY <1>3, <1>4, <2>3, <2>4
  <2> QED BY <2>1, <2>2, <2>5
<1> QED BY <1>5, <1>6, <1>7, <1>8 DEF Body

\* Whatever is published, offered or dropped meanwhile, the steps that serve a
\* client are as many as its frames need.
THEOREM FramesAreOnTheirWay == Spec => FramesAdvance
<1> DEFINE Nearer == \A c \in Connections :
                       Body(c) \/ Receive(c) =>
                         link'[c].phase # "open" \/ Distance(link'[c]) < Distance(link[c])
<1>1. StreamInv /\ [Next]_vars => [Nearer]_vars
  BY FrameAdvances
<1>2. FramesAdvance <=> [][Nearer]_vars
  BY PTL DEF FramesAdvance
<1> QED BY <1>1, <1>2, StreamInvariant, PTL DEF Spec
=============================================================================
