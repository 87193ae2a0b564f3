-------------------------- MODULE AgentTurnsProofs --------------------------
(***************************************************************************)
(* Proofs about AgentTurns for every limit of rounds, retries and          *)
(* corrections and every set of rounds a model may ask for: no request     *)
(* holds an open call, and an interrupted turn starts nothing further.     *)
(***************************************************************************)
EXTENDS AgentTurns, SequenceTheorems, TLAPS

CallKinds == {"work", "read", "submit"}

\* What the loop publishes is made of messages about the turn (agent_loop.py).
LEMMA TurnMessages ==
  ASSUME NEW asked \in Requests, NEW kind \in Kinds
  PROVE  Message(kind, asked) \in Messages
BY DEF Message, Messages

\* EndTurn leaves a loop that is free and holds what it was told to keep.
LEMMA EndTurnKeeps ==
  ASSUME TurnsInv, NEW messages \in Seq(Messages), NEW open, open = 0,
         EndTurn(messages, open), UNCHANGED clientVars
  PROVE  TurnsInv'
<1>1. bus' \in Seq(Messages)
  BY ConcatProperties DEF EndTurn, TurnsInv, TypeOK
<1>2. calls' = <<>> /\ calls' \in Seq(CallKinds) /\ Len(calls') = 0
  BY EmptySeq DEF EndTurn
<1>3. draft' = 0 /\ retained' = 0 /\ rounds' = 0 /\ attempts' = 0
  BY DEF EndTurn
<1>4. rounds' \in 0 .. MaxRounds /\ attempts' \in 0 .. MaxRetries + 1
  BY <1>3, LoopAssumption
<1>5. TypeOK'
  BY <1>1, <1>2, <1>3, <1>4 DEF EndTurn, clientVars, TurnsInv, TypeOK, Phases, Statuses, CallKinds
<1>6. OpenCallsKnown'
  BY <1>2, <1>3 DEF EndTurn, OpenCallsKnown
<1> QED BY <1>5, <1>6 DEF TurnsInv

\* A turn that asks holds no open call, whichever conversation it asks from.
LEMMA AskedIsZero ==
  ASSUME TurnsInv, phase \in {"asking", "backoff"}
  PROVE  Asked = 0 /\ calls = <<>> /\ draft = 0
BY EmptySeq DEF TurnsInv, OpenCallsKnown, Asked

LEMMA TakeKeeps ==
  ASSUME TurnsInv, Take, UNCHANGED clientVars
  PROVE  TurnsInv'
<1>1. turn' \in Requests /\ inbox' \in Seq(Requests)
  BY HeadTailProperties DEF TurnsInv, TypeOK, Take
<1>2. attempts' \in 0 .. MaxRetries + 1
  BY LoopAssumption DEF Take
<1>3. TypeOK'
  BY <1>1, <1>2 DEF TurnsInv, TypeOK, Take, clientVars, Phases, Statuses
<1>4. OpenCallsKnown'
  BY DEF TurnsInv, OpenCallsKnown, Take
<1> QED BY <1>3, <1>4 DEF TurnsInv

LEMMA ReplyTextKeeps ==
  ASSUME TurnsInv, ReplyText, UNCHANGED clientVars
  PROVE  TurnsInv'
<1>1. PICK n \in {1, 2} : EndTurn([i \in 1 .. n |-> Message("text", turn)], Asked)
  BY DEF ReplyText
<1>2. Message("text", turn) \in Messages
  BY TurnMessages DEF TurnsInv, TypeOK, Kinds
<1>3. [i \in 1 .. n |-> Message("text", turn)] \in Seq(Messages)
  BY <1>2
<1> QED BY <1>1, <1>3, AskedIsZero, EndTurnKeeps DEF ReplyText

LEMMA ReplyCutKeeps ==
  ASSUME TurnsInv, ReplyCut, UNCHANGED clientVars
  PROVE  TurnsInv'
<1>1. Message("cut", turn) \in Messages
  BY TurnMessages DEF TurnsInv, TypeOK, Kinds
<1>2. <<Message("cut", turn)>> \in Seq(Messages) /\ retained = 0
  BY <1>1 DEF TurnsInv, OpenCallsKnown
<1> QED BY <1>2, EndTurnKeeps DEF ReplyCut

LEMMA ReplyCallsKeeps ==
  ASSUME TurnsInv, NEW round \in Rounds, ReplyCalls(round), UNCHANGED clientVars
  PROVE  TurnsInv'
<1>1. round \in Seq(CallKinds) /\ round # <<>> /\ Len(round) \in Nat
  BY TurnsAssumption, LenProperties DEF CallKinds
<1>2. draft' = Len(calls') /\ calls' = round
  BY <1>1, AskedIsZero DEF ReplyCalls
<1>3. rounds' \in 0 .. MaxRounds
  BY LoopAssumption DEF ReplyCalls, TurnsInv, TypeOK
<1>4. phase' \in {"tool", "batch"}
  BY DEF ReplyCalls
<1>5. TypeOK'
  BY <1>1, <1>2, <1>3, <1>4 DEF ReplyCalls, clientVars, TurnsInv, TypeOK, Phases, Statuses, CallKinds
<1>6. OpenCallsKnown'
  BY <1>1, <1>2, <1>4 DEF ReplyCalls, TurnsInv, OpenCallsKnown
<1> QED BY <1>5, <1>6 DEF TurnsInv

LEMMA ReachSliceKeeps ==
  ASSUME TurnsInv, ReachSlice, UNCHANGED clientVars
  PROVE  TurnsInv'
<1>1. Message("slice", turn) \in Messages /\ Message("text", turn) \in Messages
  BY TurnMessages DEF TurnsInv, TypeOK, Kinds
<1>2. <<Message("slice", turn), Message("text", turn)>> \in Seq(Messages)
  BY <1>1
<1> QED BY <1>2, AskedIsZero, EndTurnKeeps DEF ReachSlice

LEMMA RetriesKeep ==
  ASSUME TurnsInv, AttemptFails \/ Retry, UNCHANGED clientVars
  PROVE  TurnsInv'
<1>1. attempts' \in 0 .. MaxRetries + 1
  BY LoopAssumption DEF AttemptFails, Retry, TurnsInv, TypeOK, OpenCallsKnown
<1>2. TypeOK'
  BY <1>1 DEF AttemptFails, Retry, TurnsInv, TypeOK, clientVars, Phases
<1>3. OpenCallsKnown'
  BY DEF AttemptFails, Retry, TurnsInv, OpenCallsKnown
<1> QED BY <1>2, <1>3 DEF TurnsInv

LEMMA TurnFailsKeeps ==
  ASSUME TurnsInv, TurnFails, UNCHANGED clientVars
  PROVE  TurnsInv'
<1>1. Message("error", turn) \in Messages
  BY TurnMessages DEF TurnsInv, TypeOK, Kinds
<1>2. bus' \in Seq(Messages)
  BY <1>1, AppendProperties DEF TurnFails, TurnsInv, TypeOK
<1>3. calls' \in Seq(CallKinds) /\ calls' = <<>> /\ Len(calls') = 0
  BY EmptySeq DEF TurnFails
<1>4. rounds' \in 0 .. MaxRounds /\ attempts' \in 0 .. MaxRetries + 1 /\ draft' = 0
  BY LoopAssumption DEF TurnFails
<1>5. TypeOK'
  BY <1>2, <1>3, <1>4 DEF TurnFails, clientVars, TurnsInv, TypeOK, Phases, Statuses, CallKinds
<1>6. OpenCallsKnown'
  BY <1>3, <1>4 DEF TurnFails, TurnsInv, OpenCallsKnown
<1> QED BY <1>5, <1>6 DEF TurnsInv

LEMMA InterruptedKeeps ==
  ASSUME TurnsInv, Interrupted, UNCHANGED clientVars
  PROVE  TurnsInv'
<1>1. <<>> \in Seq(Messages)
  BY EmptySeq
<1> QED BY <1>1, AskedIsZero, EndTurnKeeps DEF Interrupted

\* The calls of a round, its running one first: one answered and the rest
\* skipped, none is open.
LEMMA RoundIsOpen ==
  ASSUME TurnsInv, phase \in {"tool", "batch"}
  PROVE  /\ Tail(calls) \in Seq(CallKinds) /\ Len(calls) \in Nat \ {0}
         /\ Len(Tail(calls)) = draft - 1 /\ Skipped(draft - 1) = 0
<1>1. calls \in Seq(CallKinds) /\ calls # <<>> /\ draft = Len(calls)
  BY DEF TurnsInv, TypeOK, OpenCallsKnown, CallKinds
<1>2. Tail(calls) \in Seq(CallKinds) /\ Len(Tail(calls)) = Len(calls) - 1
  BY <1>1, HeadTailProperties
<1>3. Len(calls) \in Nat \ {0}
  BY <1>1, EmptySeq
<1> QED BY <1>1, <1>2, <1>3 DEF Skipped

LEMMA CallEndsKeeps ==
  ASSUME TurnsInv, CallEnds, UNCHANGED clientVars
  PROVE  TurnsInv'
<1>1. CASE cancel
  <2>1. EndTurn(<<>>, Skipped(draft - 1)) /\ <<>> \in Seq(Messages)
    BY <1>1, EmptySeq DEF CallEnds, CallAnswered
  <2> QED BY <2>1, RoundIsOpen, EndTurnKeeps DEF CallEnds
<1>2. CASE ~cancel
  <2>1. /\ draft' = draft - 1 /\ calls' = Tail(calls)
        /\ UNCHANGED <<bus, inbox, turn, status, cancel, rounds, retained>>
    BY <1>2 DEF CallEnds, CallAnswered
  <2>2. \/ calls' = <<>> /\ phase' = "asking" /\ attempts' = 1
        \/ calls' # <<>> /\ phase' = "tool" /\ attempts' = attempts
    BY <1>2 DEF CallEnds, CallAnswered
  <2>3. calls' \in Seq(CallKinds) /\ draft' = Len(calls') /\ draft' \in Nat
    BY <2>1, RoundIsOpen, LenProperties DEF CallEnds
  <2>4. attempts' \in 0 .. MaxRetries + 1
    BY <2>2, LoopAssumption DEF TurnsInv, TypeOK
  <2>5. TypeOK'
    BY <2>1, <2>2, <2>3, <2>4 DEF TurnsInv, TypeOK, clientVars, Phases, CallKinds
  <2>6. OpenCallsKnown'
    BY <2>1, <2>2, <2>3 DEF TurnsInv, OpenCallsKnown
  <2> QED BY <2>5, <2>6 DEF TurnsInv
<1> QED BY <1>1, <1>2

LEMMA SubmitEndsKeeps ==
  ASSUME TurnsInv, NEW asked \in Requests, SubmitEnds(asked), UNCHANGED clientVars
  PROVE  TurnsInv'
<1>1. PICK outcome \in {"completed", "rejected"} :
        bus' = bus \o <<Message(outcome, asked), Message("text", turn)>>
  BY DEF SubmitEnds
<1>2. Message(outcome, asked) \in Messages /\ Message("text", turn) \in Messages
  BY TurnMessages DEF TurnsInv, TypeOK, Kinds
<1>3. <<Message(outcome, asked), Message("text", turn)>> \in Seq(Messages)
  BY <1>2
<1>4. bus' \in Seq(Messages)
  BY <1>1, <1>3, ConcatProperties DEF TurnsInv, TypeOK
<1>5. calls' = <<>> /\ calls' \in Seq(CallKinds) /\ Len(calls') = 0
  BY EmptySeq DEF SubmitEnds
<1>6. draft' = 0 /\ retained' = 0 /\ rounds' = 0 /\ attempts' = 0 /\ phase' = "waiting"
  BY RoundIsOpen DEF SubmitEnds
<1>7. rounds' \in 0 .. MaxRounds /\ attempts' \in 0 .. MaxRetries + 1
  BY <1>6, LoopAssumption
<1>8. TypeOK'
  BY <1>4, <1>5, <1>6, <1>7
     DEF SubmitEnds, clientVars, TurnsInv, TypeOK, Phases, Statuses, CallKinds
<1>9. OpenCallsKnown'
  BY <1>5, <1>6 DEF OpenCallsKnown
<1> QED BY <1>8, <1>9 DEF TurnsInv

LEMMA BatchEndsKeeps ==
  ASSUME TurnsInv, BatchEnds, UNCHANGED clientVars
  PROVE  TurnsInv'
<1>1. draft - Len(calls) = 0
  BY RoundIsOpen DEF BatchEnds, TurnsInv, OpenCallsKnown
<1>2. CASE cancel
  <2>1. EndTurn(<<>>, draft - Len(calls)) /\ <<>> \in Seq(Messages)
    BY <1>2, EmptySeq DEF BatchEnds
  <2> QED BY <2>1, <1>1, EndTurnKeeps
<1>3. CASE ~cancel
  <2>1. /\ draft' = 0 /\ calls' = <<>> /\ phase' = "asking" /\ attempts' = 1
        /\ UNCHANGED <<bus, inbox, turn, status, cancel, rounds, retained>>
    BY <1>1, <1>3 DEF BatchEnds
  <2>2. calls' \in Seq(CallKinds) /\ Len(calls') = 0
    BY <2>1, EmptySeq
  <2>3. attempts' \in 0 .. MaxRetries + 1
    BY <2>1, LoopAssumption
  <2>4. TypeOK'
    BY <2>1, <2>2, <2>3 DEF TurnsInv, TypeOK, clientVars, Phases, CallKinds
  <2>5. OpenCallsKnown'
    BY <2>1, <2>2 DEF TurnsInv, OpenCallsKnown
  <2> QED BY <2>4, <2>5 DEF TurnsInv
<1> QED BY <1>2, <1>3

LEMMA BatchCancelledKeeps ==
  ASSUME TurnsInv, BatchCancelled, UNCHANGED clientVars
  PROVE  TurnsInv'
BY DEF BatchCancelled, clientVars, TurnsInv, TypeOK, OpenCallsKnown, Phases

LEMMA LoopKeeps == TurnsInv /\ LoopNext => TurnsInv'
<1> SUFFICES ASSUME TurnsInv, LoopNext PROVE TurnsInv'
  OBVIOUS
<1>1. PICK round \in {r \in Rounds : Offered(r)} : LoopStep(round, request)
  BY DEF LoopNext
<1>2. request \in Requests /\ UNCHANGED clientVars /\ round \in Rounds
  BY <1>1 DEF TurnsInv, TypeOK, LoopNext
<1> QED
  BY <1>1, <1>2, TakeKeeps, ReplyTextKeeps, ReplyCutKeeps, ReplyCallsKeeps, ReachSliceKeeps,
     RetriesKeep, TurnFailsKeeps, InterruptedKeeps, CallEndsKeeps, SubmitEndsKeeps,
     BatchEndsKeeps, BatchCancelledKeeps DEF LoopStep

-----------------------------------------------------------------------------
\* Those who use the loop leave its rounds alone (bus.py, backend_api.py).
LEMMA HearIsTyped ==
  ASSUME TurnsInv, NEW m \in Messages
  PROVE  Hear(m) \in [Waiters -> Kinds \cup {"none"}]
<1>1. m.kind \in Kinds
  BY DEF Messages
<1>2. heard \in [Waiters -> Kinds \cup {"none"}]
  BY DEF TurnsInv, TypeOK
<1> QED BY <1>1, <1>2 DEF Hear

LEMMA DeliverKeeps ==
  ASSUME TurnsInv, Deliver
  PROVE  TurnsInv'
<1>1. Head(bus) \in Messages /\ bus' \in Seq(Messages)
  BY HeadTailProperties DEF Deliver, TurnsInv, TypeOK
<1>2. Head(bus).request \in Requests
  BY <1>1 DEF Messages
<1>3. inbox' \in Seq(Requests)
  BY <1>2, AppendProperties DEF Deliver, TurnsInv, TypeOK
<1>4. heard' \in [Waiters -> Kinds \cup {"none"}]
  BY <1>1, HearIsTyped DEF Deliver
<1>5. TypeOK'
  BY <1>1, <1>3, <1>4 DEF Deliver, TurnsInv, TypeOK
<1>6. OpenCallsKnown'
  BY DEF Deliver, TurnsInv, OpenCallsKnown
<1> QED BY <1>5, <1>6 DEF TurnsInv

LEMMA PublishKeeps ==
  ASSUME TurnsInv, NEW asked \in Requests, Publish(asked)
  PROVE  bus' \in Seq(Messages) /\ sent' \in 0 .. MaxRequests
<1>1. Message("user", asked) \in Messages
  BY TurnMessages DEF Kinds
<1>2. bus' \in Seq(Messages)
  BY <1>1, AppendProperties DEF Publish, TurnsInv, TypeOK
<1>3. sent' \in 0 .. MaxRequests
  BY TurnsAssumption DEF Publish, TurnsInv, TypeOK
<1> QED BY <1>2, <1>3

\* A request is numbered by what was sent before it.
LEMMA RequestsAreTyped ==
  ASSUME TurnsInv, sent < MaxRequests, NEW attempt \in 0 .. MaxInvocations,
         NEW id \in {"chat", "initial", "correction", "cut", "slice"}
  PROVE  [id |-> id, attempt |-> attempt, number |-> sent + 1] \in Requests
<1>1. sent + 1 \in 0 .. MaxRequests
  BY TurnsAssumption DEF TurnsInv, TypeOK
<1> QED BY <1>1 DEF Requests

LEMMA ChatKeeps ==
  ASSUME TurnsInv, Send \/ Interrupt \/ EditResend
  PROVE  TurnsInv'
<1>1. CASE Interrupt
  BY <1>1 DEF Interrupt, clientVars, TurnsInv, TypeOK, OpenCallsKnown
<1>2. CASE Send \/ EditResend
  <2>1. Publish(Typed("chat")) /\ sent < MaxRequests /\ 0 \in 0 .. MaxInvocations
    BY <1>2, TurnsAssumption DEF Send, EditResend, Publish
  <2>2. Typed("chat") \in Requests
    BY <2>1, RequestsAreTyped DEF Typed
  <2>3. bus' \in Seq(Messages) /\ sent' \in 0 .. MaxRequests
    BY <2>1, <2>2, PublishKeeps
  <2>4. TypeOK'
    <3>1. CASE Send
      BY <3>1, <2>3 DEF Send, loopVars, TurnsInv, TypeOK
    <3>2. CASE EditResend
      <4>1. inbox' \in Seq(Requests) /\ cancel' \in BOOLEAN /\ retained' \in Nat
        BY <3>2, EmptySeq DEF EditResend
      <4> QED BY <3>2, <2>3, <4>1 DEF EditResend, TurnsInv, TypeOK
    <3> QED BY <1>2, <3>1, <3>2
  <2>5. OpenCallsKnown'
    BY <1>2 DEF Send, EditResend, loopVars, TurnsInv, OpenCallsKnown
  <2> QED BY <2>4, <2>5 DEF TurnsInv
<1> QED BY <1>1, <1>2

\* A dispatch changes what the driver waits for and nothing of the loop.
LEMMA DispatchKeeps ==
  ASSUME TurnsInv, NEW attempt \in 0 .. MaxInvocations,
         NEW id \in {"initial", "correction", "cut", "slice"},
         Dispatch(id, attempt), UNCHANGED <<loopVars, client>>,
         corrections' \in 0 .. MaxCorrections, invocation' \in 0 .. MaxInvocations
  PROVE  TurnsInv'
<1>1. request' \in Requests /\ Publish(request')
  BY RequestsAreTyped DEF Dispatch, Publish
<1>2. bus' \in Seq(Messages) /\ sent' \in 0 .. MaxRequests
  BY <1>1, PublishKeeps
<1>3. heard' \in [Waiters -> Kinds \cup {"none"}] /\ driver' = "waiting"
  BY DEF Dispatch, Silence
<1>4. TypeOK'
  BY <1>1, <1>2, <1>3 DEF loopVars, TurnsInv, TypeOK
<1>5. OpenCallsKnown'
  BY DEF loopVars, TurnsInv, OpenCallsKnown
<1> QED BY <1>4, <1>5 DEF TurnsInv

LEMMA InvokeKeeps ==
  ASSUME TurnsInv, Invoke
  PROVE  TurnsInv'
<1>1. invocation + 1 \in 0 .. MaxInvocations /\ 0 \in 0 .. MaxCorrections
  BY TurnsAssumption DEF Invoke, TurnsInv, TypeOK
<1> QED BY <1>1, DispatchKeeps DEF Invoke

LEMMA ResumesKeeps ==
  ASSUME TurnsInv, Resumes
  PROVE  TurnsInv'
<1>1. invocation \in 0 .. MaxInvocations /\ corrections \in 0 .. MaxCorrections
  BY DEF TurnsInv, TypeOK
<1>2. CASE InvocationEnds /\ UNCHANGED <<loopVars, client, invocation>>
  BY <1>2 DEF InvocationEnds, loopVars, TurnsInv, TypeOK, OpenCallsKnown
<1>3. CASE /\ corrections < MaxCorrections /\ corrections' = corrections + 1
           /\ Dispatch("correction", invocation) /\ UNCHANGED <<loopVars, client, invocation>>
  <2>1. corrections' \in 0 .. MaxCorrections
    BY <1>1, <1>3, TurnsAssumption
  <2> QED BY <1>1, <1>3, <2>1, DispatchKeeps
<1>4. CASE /\ Outcome \in {"cut", "slice"} /\ Dispatch(Outcome, invocation)
           /\ UNCHANGED <<loopVars, client, invocation, corrections>>
  BY <1>1, <1>4, DispatchKeeps
<1> QED BY <1>2, <1>3, <1>4 DEF Resumes

LEMMA StopsKeep ==
  ASSUME TurnsInv, CancelRun \/ Close
  PROVE  TurnsInv'
BY DEF CancelRun, Close, TurnsInv, TypeOK, OpenCallsKnown, Phases

-----------------------------------------------------------------------------
\* The inductive invariant: types, and where the open calls are.
THEOREM TurnsInvariant == Spec => []TurnsInv
<1>1. Init => TurnsInv
  <2> SUFFICES ASSUME Init PROVE TurnsInv
    OBVIOUS
  <2>1. bus \in Seq(Messages) /\ inbox \in Seq(Requests) /\ calls \in Seq(CallKinds) /\ Len(calls) = 0
    BY EmptySeq DEF Init, LoopInit
  <2>2. NoRequest \in Requests /\ heard \in [Waiters -> Kinds \cup {"none"}]
    BY TurnsAssumption DEF Init, NoRequest, Requests, Silence
  <2>3. /\ 0 \in 0 .. MaxRounds /\ 0 \in 0 .. MaxRetries + 1 /\ 0 \in 0 .. MaxRequests
        /\ 0 \in 0 .. MaxInvocations /\ 0 \in 0 .. MaxCorrections
    BY LoopAssumption, TurnsAssumption
  <2>4. TypeOK
    BY <2>1, <2>2, <2>3 DEF Init, LoopInit, TypeOK, Phases, Statuses, CallKinds, NoRequest
  <2>5. OpenCallsKnown
    BY <2>1 DEF Init, LoopInit, OpenCallsKnown
  <2> QED BY <2>4, <2>5 DEF TurnsInv
<1>2. TurnsInv /\ [Next]_vars => TurnsInv'
  <2> SUFFICES ASSUME TurnsInv, [Next]_vars PROVE TurnsInv'
    OBVIOUS
  <2>1. CASE UNCHANGED vars
    BY <2>1 DEF vars, loopVars, clientVars, TurnsInv, TypeOK, OpenCallsKnown
  <2> QED
    BY <2>1, LoopKeeps, DeliverKeeps, ChatKeeps, InvokeKeeps, ResumesKeeps, StopsKeep DEF Next
<1> QED BY <1>1, <1>2, PTL DEF Spec

\* Type correctness of the agent's loop and of who uses it.
THEOREM TurnsTypeCorrect == Spec => []TypeOK
<1>1. TurnsInv => TypeOK
  BY DEF TurnsInv
<1> QED BY <1>1, TurnsInvariant, PTL

\* No provider request of agent_loop.py holds a call without a result.
THEOREM CallsAreAnswered == Spec => []CallsAnswered
<1>1. TurnsInv => CallsAnswered
  BY AskedIsZero DEF CallsAnswered
<1> QED BY <1>1, TurnsInvariant, PTL

\* A turn that was interrupted makes no further request and starts no call.
THEOREM InterruptedTurnsStartNothing == Spec => NothingStartsAfterInterrupt
<1> DEFINE Quiet ==
      cancel /\ cancel' /\ turn' = turn
        => /\ phase' = "asking" => phase = "asking" /\ attempts' = attempts
           /\ calls' \in {calls, <<>>}
<1>1. [Next]_vars => [Quiet]_vars
  <2> SUFFICES ASSUME Next, cancel, cancel', turn' = turn
      PROVE  /\ phase' = "asking" => phase = "asking" /\ attempts' = attempts
             /\ calls' \in {calls, <<>>}
    OBVIOUS
  <2>1. CASE LoopNext
    <3>1. PICK round \in Rounds : LoopStep(round, request)
      BY <2>1 DEF LoopNext
    <3>2. CASE Take \/ AttemptFails \/ Retry \/ TurnFails \/ ReplyCalls(round)
      BY <3>2 DEF Take, AttemptFails, Retry, TurnFails, ReplyCalls
    <3>3. CASE ReplyText \/ ReplyCut \/ ReachSlice \/ Interrupted
      BY <3>3 DEF ReplyText, ReplyCut, ReachSlice, Interrupted, EndTurn
    <3>4. CASE CallEnds \/ SubmitEnds(request) \/ BatchEnds \/ BatchCancelled
      BY <3>4 DEF CallEnds, CallAnswered, SubmitEnds, BatchEnds, BatchCancelled, EndTurn
    <3> QED BY <3>1, <3>2, <3>3, <3>4 DEF LoopStep
  <2>2. CASE Deliver
    BY <2>2 DEF Deliver
  <2>3. CASE Send \/ Interrupt \/ EditResend
    BY <2>3 DEF Send, Interrupt, EditResend, loopVars
  <2>4. CASE Invoke \/ Resumes \/ CancelRun \/ Close
    BY <2>4 DEF Invoke, Resumes, CancelRun, Close, loopVars
  <2> QED BY <2>1, <2>2, <2>3, <2>4 DEF Next
<1>2. NothingStartsAfterInterrupt <=> [][Quiet]_vars
  BY PTL DEF NothingStartsAfterInterrupt
<1> QED BY <1>1, <1>2, PTL DEF Spec

-----------------------------------------------------------------------------
\* Within a turn the loop only goes on (agent_loop.py).
LEMMA GoesOn ==
  ASSUME TurnsInv, LoopNext, phase \in Busy, phase' \in Busy
  PROVE  TurnGoesOn
<1>1. PICK round \in Rounds : LoopStep(round, request)
  BY DEF LoopNext
<1>2. rounds \in Nat /\ attempts \in Nat
  BY LoopAssumption DEF TurnsInv, TypeOK
<1>3. CASE ReplyCalls(round)
  BY <1>2, <1>3 DEF ReplyCalls, TurnGoesOn
<1>4. CASE AttemptFails \/ Retry
  BY <1>2, <1>4 DEF AttemptFails, Retry, TurnGoesOn, InCalls
<1>5. CASE CallEnds
  <2>1. ~ cancel
    BY <1>5 DEF CallEnds, CallAnswered, EndTurn, Busy
  <2>2. /\ phase = "tool" /\ calls' = Tail(calls) /\ rounds' = rounds
        /\ phase' = "asking" \/ phase' = phase
    BY <1>5, <2>1 DEF CallEnds, CallAnswered
  <2>3. Len(calls) \in Nat \ {0} /\ Len(Tail(calls)) = draft - 1 /\ draft = Len(calls)
    BY <2>2, RoundIsOpen DEF TurnsInv, OpenCallsKnown
  <2>4. Len(calls') < Len(calls)
    BY <2>2, <2>3
  <2> QED BY <2>2, <2>4 DEF TurnGoesOn, InCalls
<1>6. CASE BatchEnds
  BY <1>6 DEF BatchEnds, EndTurn, Busy, TurnGoesOn, InCalls
<1>7. CASE Take \/ ReplyText \/ ReplyCut \/ ReachSlice \/ TurnFails \/ Interrupted
             \/ SubmitEnds(request) \/ BatchCancelled
  BY <1>7 DEF Take, ReplyText, ReplyCut, ReachSlice, TurnFails, Interrupted, SubmitEnds,
              BatchCancelled, EndTurn, Busy
<1> QED BY <1>1, <1>3, <1>4, <1>5, <1>6, <1>7 DEF LoopStep

\* A turn has at most MaxRounds rounds of calls, each no longer than it was
\* asked for, and MaxRetries + 1 attempts at each request: whatever is sent,
\* interrupted or delivered meanwhile, nothing starts one of them over.
THEOREM TurnsComeToAnEnd == Spec => TurnsAdvance
<1>1. TurnsInv /\ [Next]_vars => [LoopNext /\ phase \in Busy /\ phase' \in Busy => TurnGoesOn]_vars
  BY GoesOn
<1> QED BY <1>1, TurnsInvariant, PTL DEF Spec, TurnsAdvance

-----------------------------------------------------------------------------
\* What stands on the bus is not lost when more is published.
LEMMA BusGrows ==
  ASSUME bus \in Seq(Messages), NEW s \in Seq(Messages)
  PROVE  /\ \A i \in 1 .. Len(bus) : i \in 1 .. Len(bus \o s) /\ (bus \o s)[i] = bus[i]
         /\ \A i \in 1 .. Len(s) : Len(bus) + i \in 1 .. Len(bus \o s)
                                     /\ (bus \o s)[Len(bus) + i] = s[i]
BY ConcatProperties, LenProperties

\* The request, or an answer to it.
OfRequest(m) == m = Message("user", request) \/ Answers(m)
OnBus(b) == \E i \in 1 .. Len(b) : OfRequest(b[i])
InInbox(box) == \E i \in 1 .. Len(box) : box[i] = request
Pursued(b, box, p, t) == OnBus(b) \/ InInbox(box) \/ (p \in Busy /\ t = request)

LEMMA OnItsWay ==
  DispatchIsOnItsWay <=>
    (driver = "waiting" /\ Outcome = "none" => Pursued(bus, inbox, phase, turn))
BY DEF DispatchIsOnItsWay, Pursued, OnBus, InInbox, OfRequest

\* A turn of the request ends with an answer to it.
LEMMA EndAnswers ==
  ASSUME TurnsInv, Pursued(bus, inbox, phase, turn), inbox' = inbox, NEW s \in Seq(Messages),
         bus' = bus \o s, turn = request => \E i \in 1 .. Len(s) : Answers(s[i])
  PROVE  OnBus(bus') \/ InInbox(inbox')
<1>1. bus \in Seq(Messages)
  BY DEF TurnsInv, TypeOK
<1>2. CASE OnBus(bus)
  BY <1>1, <1>2, BusGrows DEF OnBus
<1>3. CASE InInbox(inbox)
  BY <1>3
<1>4. CASE turn = request
  <2>1. PICK i \in 1 .. Len(s) : Answers(s[i])
    BY <1>4
  <2>2. OfRequest((bus \o s)[Len(bus) + i]) /\ Len(bus) + i \in 1 .. Len(bus \o s)
    BY <1>1, <2>1, BusGrows DEF OfRequest
  <2> QED BY <2>2 DEF OnBus
<1> QED BY <1>2, <1>3, <1>4 DEF Pursued

LEMMA TurnAnswers ==
  ASSUME TurnsInv, turn = request,
         NEW kind \in {"text", "cut", "slice", "completed", "rejected", "error"}
  PROVE  Answers(Message(kind, turn)) /\ Answers(Message(kind, request))
BY DEF Answers, Message

\* The loop loses no request that a driver waits for: nobody interrupts it.
LEMMA LoopPursues ==
  ASSUME TurnsInv, DispatchInv, LoopNext, driver = "waiting",
         Pursued(bus, inbox, phase, turn)
  PROVE  Pursued(bus', inbox', phase', turn')
<1>1. PICK round \in Rounds : LoopStep(round, request)
  BY DEF LoopNext
<1>2. ~ cancel
  BY DEF DispatchInv, DriverSound, TurnsInv, TypeOK
<1>3. turn \in Requests /\ request \in Requests /\ bus \in Seq(Messages) /\ inbox \in Seq(Requests)
  BY DEF TurnsInv, TypeOK
<1>4. ASSUME NEW s \in Seq(Messages), bus' = bus \o s, inbox' = inbox,
             turn = request => \E i \in 1 .. Len(s) : Answers(s[i])
      PROVE  Pursued(bus', inbox', phase', turn')
  BY <1>4, EndAnswers DEF Pursued
<1>5. CASE Take
  <2>1. /\ inbox # <<>> /\ turn' = Head(inbox) /\ inbox' = Tail(inbox) /\ bus' = bus
        /\ phase' \in Busy /\ phase = "waiting"
    BY <1>5 DEF Take, Busy
  <2>2. ASSUME InInbox(inbox)
        PROVE  turn' = request \/ InInbox(inbox')
    <3>1. PICK i \in 1 .. Len(inbox) : inbox[i] = request
      BY <2>2 DEF InInbox
    <3>2. CASE i = 1
      BY <1>3, <2>1, <3>1, <3>2
    <3>3. CASE i > 1
      <4>1. i - 1 \in 1 .. Len(Tail(inbox)) /\ Tail(inbox)[i - 1] = inbox[i]
        BY <1>3, <2>1, <3>3
      <4> QED BY <2>1, <3>1, <4>1 DEF InInbox
    <3> QED BY <3>1, <3>2, <3>3
  <2> QED BY <2>1, <2>2 DEF Pursued, Busy
<1>6. CASE ReplyText
  <2>1. PICK n \in {1, 2} : EndTurn([i \in 1 .. n |-> Message("text", turn)], Asked)
    BY <1>6 DEF ReplyText
  <2> DEFINE s == [i \in 1 .. n |-> Message("text", turn)]
  <2>2. Message("text", turn) \in Messages
    BY <1>3, TurnMessages DEF Kinds
  <2>3. s \in Seq(Messages) /\ Len(s) = n /\ s[1] = Message("text", turn)
    BY <2>2
  <2>4. bus' = bus \o s /\ inbox' = inbox
    BY <2>1 DEF EndTurn
  <2> HIDE DEF s
  <2>5. turn = request => \E i \in 1 .. Len(s) : Answers(s[i])
    <3>1. 1 \in 1 .. Len(s)
      BY <2>3
    <3> QED BY <2>3, <3>1, TurnAnswers
  <2> QED BY <1>4, <2>3, <2>4, <2>5
<1>7. CASE ReplyCut \/ ReachSlice \/ TurnFails
  <2>1. /\ Message("cut", turn) \in Messages /\ Message("slice", turn) \in Messages
        /\ Message("text", turn) \in Messages /\ Message("error", turn) \in Messages
    BY <1>3, TurnMessages DEF Kinds
  <2> DEFINE s == IF ReplyCut THEN <<Message("cut", turn)>>
                  ELSE IF ReachSlice THEN <<Message("slice", turn), Message("text", turn)>>
                  ELSE <<Message("error", turn)>>
  <2>2. s \in Seq(Messages) /\ Len(s) >= 1
          /\ s[1] \in {Message("cut", turn), Message("slice", turn), Message("error", turn)}
    BY <2>1
  <2>3. inbox' = inbox /\ bus' = bus \o s
    <3>1. CASE ReplyCut
      BY <3>1 DEF ReplyCut, EndTurn
    <3>2. CASE ~ ReplyCut /\ ReachSlice
      BY <3>2 DEF ReachSlice, EndTurn
    <3>3. CASE ~ ReplyCut /\ ~ ReachSlice
      <4>1. bus' = Append(bus, Message("error", turn)) /\ inbox' = inbox
        BY <1>7, <3>3 DEF TurnFails
      <4>2. Append(bus, Message("error", turn)) = bus \o <<Message("error", turn)>>
        BY <1>3, <2>1, AppendIsConcat
      <4> QED BY <3>3, <4>1, <4>2
    <3> QED BY <3>1, <3>2, <3>3
  <2> HIDE DEF s
  <2>4. turn = request => \E i \in 1 .. Len(s) : Answers(s[i])
    <3>1. 1 \in 1 .. Len(s)
      BY <2>2
    <3> QED BY <2>2, <3>1, TurnAnswers
  <2> QED BY <1>4, <2>2, <2>3, <2>4
<1>8. CASE SubmitEnds(request)
  <2>1. PICK outcome \in {"completed", "rejected"} :
          bus' = bus \o <<Message(outcome, request), Message("text", turn)>>
    BY <1>8 DEF SubmitEnds
  <2> DEFINE s == <<Message(outcome, request), Message("text", turn)>>
  <2>2. Message(outcome, request) \in Messages /\ Message("text", turn) \in Messages
    BY <1>3, TurnMessages DEF Kinds
  <2>3. s \in Seq(Messages) /\ Len(s) = 2 /\ s[1] = Message(outcome, request)
    BY <2>2
  <2>4. bus' = bus \o s /\ inbox' = inbox
    BY <1>8, <2>1 DEF SubmitEnds
  <2> HIDE DEF s
  <2>5. turn = request => \E i \in 1 .. Len(s) : Answers(s[i])
    <3>1. 1 \in 1 .. Len(s)
      BY <2>3
    <3> QED BY <2>3, <3>1, TurnAnswers
  <2> QED BY <1>4, <2>3, <2>4, <2>5
<1>9. CASE ReplyCalls(round) \/ AttemptFails \/ Retry \/ CallEnds \/ BatchEnds
  <2>1. UNCHANGED <<bus, inbox, turn>> /\ phase' \in Busy
    BY <1>2, <1>9 DEF ReplyCalls, AttemptFails, Retry, CallEnds, CallAnswered, BatchEnds, Busy
  <2> QED BY <2>1 DEF Pursued
<1> QED BY <1>1, <1>2, <1>5, <1>6, <1>7, <1>8, <1>9 DEF LoopStep, Interrupted, BatchCancelled

\* The bus gives the loop the request, and a waiter its answer.
LEMMA DeliverPursues ==
  ASSUME TurnsInv, DispatchInv, Deliver, driver = "waiting", Outcome = "none",
         Pursued(bus, inbox, phase, turn)
  PROVE  Outcome' = "none" => Pursued(bus', inbox', phase', turn')
<1> DEFINE m == Head(bus)
<1>1. /\ bus \in Seq(Messages) /\ bus # <<>> /\ bus' = Tail(bus) /\ inbox \in Seq(Requests)
      /\ m \in Messages /\ m = bus[1] /\ heard \in [Waiters -> Kinds \cup {"none"}]
  BY HeadTailProperties DEF Deliver, TurnsInv, TypeOK
<1>2. UNCHANGED <<phase, turn, request, driver>> /\ phase # "stopped" /\ heard' = Hear(m)
        /\ inbox' = IF m.kind = "user" THEN Append(inbox, m.request) ELSE inbox
  BY DEF Deliver, DispatchInv, DriverSound
<1>3. m.request \in Requests /\ m.kind \in Kinds
  BY <1>1 DEF Messages
<1> HIDE DEF m
<1>4. ASSUME InInbox(inbox)
      PROVE  InInbox(inbox')
  BY <1>1, <1>2, <1>3, <1>4 DEF InInbox
<1>5. ASSUME OnBus(bus)
      PROVE  OnBus(bus') \/ OfRequest(m)
  <2>1. PICK i \in 1 .. Len(bus) : OfRequest(bus[i])
    BY <1>5 DEF OnBus
  <2>2. CASE i = 1
    BY <1>1, <2>1, <2>2
  <2>3. CASE i > 1
    <3>1. i - 1 \in 1 .. Len(Tail(bus)) /\ Tail(bus)[i - 1] = bus[i]
      BY <1>1, <2>3
    <3> QED BY <1>1, <2>1, <3>1 DEF OnBus
  <2> QED BY <2>1, <2>2, <2>3
<1>6. ASSUME m = Message("user", request)
      PROVE  InInbox(inbox')
  <2>1. inbox' = Append(inbox, request)
    BY <1>2, <1>6 DEF Message
  <2>2. request \in Requests
    BY DEF TurnsInv, TypeOK
  <2>3. Len(inbox) + 1 \in 1 .. Len(inbox') /\ inbox'[Len(inbox) + 1] = request
    BY <1>1, <2>1, <2>2
  <2> QED BY <1>2, <2>3 DEF InInbox
<1>7. ASSUME Answers(m)
      PROVE  Outcome' # "none"
  <2>1. \E w \in Waiters : heard'[w] = m.kind
    <3>1. \A w \in Waiters : heard[w] = "none"
      BY <1>1 DEF Outcome, Waiters, Kinds, TurnsInv
    <3> QED BY <1>2, <1>7, <3>1 DEF Hear, Answers, Waiters
  <2>2. m.kind # "none" /\ heard' \in [Waiters -> Kinds \cup {"none"}]
    BY <1>1, <1>2, <1>3, HearIsTyped DEF Kinds
  <2> QED BY <2>1, <2>2 DEF Outcome, Waiters
<1> QED BY <1>1, <1>2, <1>4, <1>5, <1>6, <1>7 DEF Pursued, OfRequest

\* A dispatch puts its request on the bus.
LEMMA DispatchPursues ==
  ASSUME TurnsInv, NEW id \in {"initial", "correction", "cut", "slice"},
         NEW attempt \in 0 .. MaxInvocations, Dispatch(id, attempt)
  PROVE  DispatchIsOnItsWay'
<1>1. request' \in Requests /\ bus' = Append(bus, Message("user", request')) /\ bus \in Seq(Messages)
  BY RequestsAreTyped DEF Dispatch, Publish, TurnsInv, TypeOK
<1>2. Message("user", request') \in Messages
  BY <1>1, TurnMessages DEF Kinds
<1>3. Len(bus) + 1 \in 1 .. Len(bus') /\ bus'[Len(bus) + 1] = Message("user", request')
  BY <1>1, <1>2, AppendProperties, LenProperties
<1> QED BY <1>3 DEF DispatchIsOnItsWay

\* Every step keeps a dispatched request on its way.
LEMMA DispatchStays ==
  ASSUME TurnsInv, DispatchInv, Next
  PROVE  DispatchIsOnItsWay'
<1>1. CASE driver' # "waiting"
  BY <1>1 DEF DispatchIsOnItsWay
<1>2. CASE LoopNext /\ driver' = "waiting"
  <2>1. UNCHANGED clientVars /\ Outcome' = Outcome
    BY <1>2 DEF LoopNext, clientVars, Outcome
  <2>2. driver = "waiting" /\ request' = request
    BY <1>2, <2>1 DEF clientVars
  <2>3. Outcome = "none" => Pursued(bus', inbox', phase', turn')
    BY <1>2, <2>2, OnItsWay, LoopPursues DEF DispatchInv
  <2> QED BY <2>1, <2>2, <2>3
          DEF DispatchIsOnItsWay, Pursued, OnBus, InInbox, OfRequest, Answers
<1>3. CASE Deliver /\ driver' = "waiting"
  <2>1. driver = "waiting" /\ request' = request
    BY <1>3 DEF Deliver
  <2>2. Outcome = "none" \/ Outcome' # "none"
    <3>1. heard \in [Waiters -> Kinds \cup {"none"}] /\ heard' = Hear(Head(bus))
      BY <1>3 DEF Deliver, TurnsInv, TypeOK
    <3>2. \A w \in Waiters : heard[w] # "none" => heard'[w] = heard[w]
      BY <3>1 DEF Hear
    <3> QED BY <3>1, <3>2 DEF Outcome, Waiters
  <2>3. Outcome' = "none" => Pursued(bus', inbox', phase', turn')
    BY <1>3, <2>1, <2>2, OnItsWay, DeliverPursues DEF DispatchInv
  <2> QED BY <2>1, <2>3
          DEF DispatchIsOnItsWay, Pursued, OnBus, InInbox, OfRequest, Answers
<1>4. CASE Send \/ Interrupt \/ EditResend
  <2>1. driver' = driver /\ client = "chat"
    BY <1>4 DEF Send, Interrupt, EditResend, clientVars
  <2> QED BY <2>1 DEF DispatchInv, DriverSound, DispatchIsOnItsWay
<1>5. CASE Invoke
  <2>1. invocation + 1 \in 0 .. MaxInvocations /\ Dispatch("initial", invocation + 1)
    BY <1>5, TurnsAssumption DEF Invoke, TurnsInv, TypeOK
  <2> QED BY <2>1, DispatchPursues
<1>6. CASE Resumes /\ driver' = "waiting"
  <2>1. PICK id \in {"correction", "cut", "slice"} : Dispatch(id, invocation)
    BY <1>6 DEF Resumes, InvocationEnds
  <2> QED BY <2>1, DispatchPursues DEF TurnsInv, TypeOK
<1>7. CASE CancelRun \/ Close
  BY <1>7 DEF CancelRun, Close, DispatchIsOnItsWay
<1> QED BY <1>1, <1>2, <1>3, <1>4, <1>5, <1>6, <1>7 DEF Next

\* No call of a chat's rounds submits a result.
ChatCalls == client = "chat" => \A i \in 1 .. Len(calls) : calls[i] # "submit"

LEMMA LoopCalls ==
  ASSUME TurnsInv, ChatCalls, LoopNext
  PROVE  ChatCalls'
<1>1. PICK round \in {r \in Rounds : Offered(r)} : LoopStep(round, request)
  BY DEF LoopNext
<1>2. UNCHANGED client
  BY DEF LoopNext, clientVars
<1>3. CASE calls' = <<>>
  BY <1>3, EmptySeq DEF ChatCalls
<1>4. CASE calls' = calls
  BY <1>2, <1>4 DEF ChatCalls
<1>5. CASE ReplyCalls(round)
  <2>1. calls' = round /\ Offered(round)
    BY <1>1, <1>5 DEF ReplyCalls
  <2> QED BY <1>2, <2>1 DEF ChatCalls, Offered
<1>6. CASE CallEnds /\ ~cancel
  <2>1. /\ calls' = Tail(calls) /\ calls \in Seq(CallKinds) /\ calls # <<>>
    BY <1>6 DEF CallEnds, CallAnswered, TurnsInv, TypeOK, OpenCallsKnown, CallKinds
  <2>2. \A i \in 1 .. Len(calls') : i + 1 \in 1 .. Len(calls) /\ calls'[i] = calls[i + 1]
    BY <2>1
  <2> QED BY <1>2, <2>2 DEF ChatCalls
<1>7. CASE Take \/ AttemptFails \/ Retry \/ BatchCancelled
  BY <1>4, <1>7 DEF Take, AttemptFails, Retry, BatchCancelled
<1>8. CASE ReplyText \/ ReplyCut \/ ReachSlice \/ TurnFails \/ Interrupted
  BY <1>3, <1>8 DEF ReplyText, ReplyCut, ReachSlice, TurnFails, Interrupted, EndTurn
<1>9. CASE (CallEnds /\ cancel) \/ SubmitEnds(request) \/ BatchEnds
  BY <1>3, <1>9 DEF CallEnds, CallAnswered, SubmitEnds, BatchEnds, EndTurn
<1> QED BY <1>1, <1>5, <1>6, <1>7, <1>8, <1>9 DEF LoopStep

\* A driver that waits or rests has a loop that is neither interrupted nor
\* dead, and the loop's own steps stop nothing.
LEMMA LoopDrives ==
  ASSUME TurnsInv, DispatchInv, LoopNext
  PROVE  DriverSound'
<1>1. PICK round \in Rounds : LoopStep(round, request)
  BY DEF LoopNext
<1>2. UNCHANGED <<client, driver>>
  BY DEF LoopNext, clientVars
<1>3. ChatCalls'
  BY LoopCalls DEF ChatCalls, DispatchInv, DriverSound
<1>4. (cancel' => cancel) /\ (phase' = "dead" => cancel) /\ phase # "stopped" /\ phase' # "stopped"
  <2>1. CASE Take \/ AttemptFails \/ Retry \/ TurnFails \/ ReplyCalls(round)
    BY <2>1 DEF Take, AttemptFails, Retry, TurnFails, ReplyCalls
  <2>2. CASE ReplyText \/ ReplyCut \/ ReachSlice \/ Interrupted
    BY <2>2 DEF ReplyText, ReplyCut, ReachSlice, Interrupted, EndTurn
  <2>3. CASE CallEnds \/ SubmitEnds(request) \/ BatchEnds \/ BatchCancelled
    BY <2>3 DEF CallEnds, CallAnswered, SubmitEnds, BatchEnds, BatchCancelled, EndTurn
  <2> QED BY <1>1, <2>1, <2>2, <2>3 DEF LoopStep
<1> QED BY <1>2, <1>3, <1>4 DEF DispatchInv, DriverSound, ChatCalls

LEMMA DriverStays ==
  ASSUME TurnsInv, DispatchInv, Next
  PROVE  DriverSound'
<1>1. CASE LoopNext
  BY <1>1, LoopDrives
<1>2. CASE Deliver
  BY <1>2 DEF Deliver, DispatchInv, DriverSound
<1>3. CASE Send \/ Interrupt \/ EditResend
  BY <1>3 DEF Send, Interrupt, EditResend, loopVars, clientVars, DispatchInv, DriverSound
<1>4. CASE Invoke
  BY <1>4 DEF Invoke, Dispatch, loopVars, DispatchInv, DriverSound
<1>5. CASE Resumes
  <2>1. driver = "waiting" /\ driver' \in {"idle", "waiting"} /\ UNCHANGED <<loopVars, client>>
    BY <1>5 DEF Resumes, Dispatch, InvocationEnds
  <2> QED BY <2>1 DEF loopVars, DispatchInv, DriverSound
<1>6. CASE CancelRun
  BY <1>6 DEF CancelRun, DispatchInv, DriverSound
<1>7. CASE Close
  BY <1>7 DEF Close, DispatchInv, DriverSound
<1> QED BY <1>1, <1>2, <1>3, <1>4, <1>5, <1>6, <1>7 DEF Next

\* The status changes with the phase, but for a submission that an interrupt
\* races: only a driver that gives the turn up interrupts one.
LEMMA LoopStatus ==
  ASSUME TurnsInv, DispatchInv, LoopNext
  PROVE  StatusIsTrue'
<1>1. PICK round \in Rounds : LoopStep(round, request)
  BY DEF LoopNext
<1>2. driver' = driver
  BY DEF LoopNext, clientVars
<1>3. CASE Take
  BY <1>3 DEF Take, StatusIsTrue, Busy
<1>4. CASE phase \in Busy /\ phase' \in Busy \cup {"dead"} /\ status' = status
  BY <1>4 DEF DispatchInv, StatusIsTrue, Busy
<1>5. CASE phase' = "waiting" /\ status' = "free"
  BY <1>5 DEF StatusIsTrue, Busy
<1>6. CASE ReplyCalls(round) \/ AttemptFails \/ Retry \/ BatchCancelled
  BY <1>4, <1>6 DEF ReplyCalls, AttemptFails, Retry, BatchCancelled, Busy
<1>7. CASE ReplyText \/ ReplyCut \/ ReachSlice \/ TurnFails \/ Interrupted
  BY <1>5, <1>7 DEF ReplyText, ReplyCut, ReachSlice, TurnFails, Interrupted, EndTurn
<1>8. CASE CallEnds
  <2>1. CASE cancel
    BY <1>5, <1>8, <2>1 DEF CallEnds, CallAnswered, EndTurn
  <2>2. CASE ~ cancel
    BY <1>4, <1>8, <2>2 DEF CallEnds, CallAnswered, Busy
  <2> QED BY <2>1, <2>2
<1>9. CASE BatchEnds
  BY <1>4, <1>5, <1>9 DEF BatchEnds, EndTurn, Busy
<1>10. CASE SubmitEnds(request)
  <2>1. /\ phase = "tool" /\ phase' = "waiting" /\ Head(calls) = "submit"
        /\ status' = IF cancel THEN status ELSE "free"
    BY <1>10 DEF SubmitEnds
  <2>2. CASE ~ cancel
    BY <1>5, <2>1, <2>2
  <2>3. CASE cancel
    <3>1. calls \in Seq(CallKinds) /\ calls # <<>>
      BY <2>1 DEF TurnsInv, TypeOK, OpenCallsKnown, CallKinds
    <3>2. 1 \in 1 .. Len(calls) /\ calls[1] = "submit"
      BY <2>1, <3>1
    <3>3. client = "typed"
      BY <3>2 DEF DispatchInv, DriverSound, TurnsInv, TypeOK
    <3>4. driver = "stopping"
      BY <2>1, <2>3, <3>3 DEF DispatchInv, DriverSound
    <3> QED BY <1>2, <2>1, <3>4 DEF StatusIsTrue, Busy
  <2> QED BY <2>2, <2>3
<1> QED BY <1>1, <1>3, <1>6, <1>7, <1>8, <1>9, <1>10 DEF LoopStep

LEMMA StatusStays ==
  ASSUME TurnsInv, DispatchInv, Next
  PROVE  StatusIsTrue'
<1>1. CASE LoopNext
  BY <1>1, LoopStatus
<1>2. CASE Deliver
  BY <1>2 DEF Deliver, DispatchInv, StatusIsTrue
<1>3. CASE Send \/ Interrupt \/ EditResend
  BY <1>3 DEF Send, Interrupt, EditResend, loopVars, clientVars, DispatchInv, StatusIsTrue
<1>4. CASE Invoke \/ Resumes
  <2>1. driver \in {"idle", "waiting"} /\ UNCHANGED <<phase, status>>
    BY <1>4 DEF Invoke, Resumes, loopVars
  <2> QED BY <2>1 DEF DispatchInv, StatusIsTrue
<1>5. CASE CancelRun
  BY <1>5 DEF CancelRun, DispatchInv, StatusIsTrue
<1>6. CASE Close
  BY <1>6 DEF Close, DispatchInv, StatusIsTrue, Busy
<1> QED BY <1>1, <1>2, <1>3, <1>4, <1>5, <1>6 DEF Next

LEMMA DispatchInvariant == Spec => [](TurnsInv /\ DispatchInv)
<1>1. Init => DispatchInv
  BY EmptySeq DEF Init, LoopInit, DispatchInv, StatusIsTrue, DispatchIsOnItsWay, DriverSound, Busy
<1>2. TurnsInv /\ DispatchInv /\ [Next]_vars => DispatchInv'
  <2> SUFFICES ASSUME TurnsInv, DispatchInv, [Next]_vars PROVE DispatchInv'
    OBVIOUS
  <2>1. CASE UNCHANGED vars
    BY <2>1 DEF vars, loopVars, clientVars, DispatchInv, StatusIsTrue, DispatchIsOnItsWay,
                DriverSound, Outcome, Answers
  <2>2. CASE Next
    BY <2>2, StatusStays, DispatchStays, DriverStays DEF DispatchInv
  <2> QED BY <2>1, <2>2
<1> QED BY <1>1, <1>2, TurnsInvariant, PTL DEF Spec

\* The status that require_agent_idle and begin_turn read is true of the loop:
\* the interrupt that leaves it as it was comes from a driver that closes the
\* session, never from the chat that would go on with it.
THEOREM StatusIsAlwaysTrue == Spec => []StatusIsTrue
<1>1. DispatchInv => StatusIsTrue
  BY DEF DispatchInv
<1> QED BY <1>1, DispatchInvariant, PTL

\* No dispatched request is lost on its way: a driver that waits and has heard
\* nothing has its request on the bus, in the inbox or in the loop's turn, or
\* an answer on the bus that one of its three waiters matches.
THEOREM NoDispatchIsLost == Spec => []DispatchIsOnItsWay
<1>1. DispatchInv => DispatchIsOnItsWay
  BY DEF DispatchInv
<1> QED BY <1>1, DispatchInvariant, PTL
=============================================================================
