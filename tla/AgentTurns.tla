----------------------------- MODULE AgentTurns -----------------------------
(***************************************************************************)
(* Who uses an AgentLoop: a chat, whose user sends, interrupts and edits,  *)
(* or the typed turns of a workflow, which AgentExecutionService           *)
(* dispatches, waits for and recovers, and which a cancelled Run stops.    *)
(* Requests and replies go through the bus, whose worker may stand still   *)
(* between two messages: the conversation service's callback waits for     *)
(* the facade's lock after the others have run.                            *)
(***************************************************************************)
EXTENDS AgentLoop

CONSTANTS
  Rounds,          \* the rounds of calls a model may ask for
  MaxCorrections,  \* max_attempts of natural_language_without_submission
  MaxRequests,     \* bound on the requests published
  MaxInvocations   \* bound on the invocations of a typed agent

\* A round asks for at least one call.
ASSUME TurnsAssumption ==
  /\ \A round \in Rounds : round \in Seq({"work", "read", "submit"}) /\ round # <<>>
  /\ MaxCorrections \in Nat /\ MaxRequests \in Nat /\ MaxInvocations \in Nat

VARIABLES
  client,      \* "chat" or "typed"; never changes
  sent,        \* requests published so far
  driver,      \* where AgentExecutionService is
  request,     \* the request whose answer it waits for
  heard,       \* what its waiters have received since the dispatch
  corrections, \* recovery attempts of natural_language_without_submission
  invocation   \* the current task_attempt_id

clientVars == <<client, sent, driver, request, heard, corrections, invocation>>
vars == <<loopVars, bus, clientVars>>

Waiters == {"result", "error", "response"}
Silence == [w \in Waiters |-> "none"]
NoRequest == [id |-> "none", attempt |-> 0, number |-> 0]

Init ==
  /\ LoopInit /\ bus = <<>>
  /\ client \in {"chat", "typed"}
  /\ sent = 0 /\ driver = "idle" /\ request = NoRequest /\ heard = Silence
  /\ corrections = 0 /\ invocation = 0

-----------------------------------------------------------------------------
\* The bus.  Each waiter keeps the first message that matches its predicate.
Hear(m) ==
  LET mine == driver \in {"waiting", "stopping"} /\ m.request.attempt = request.attempt
      matches == [result   |-> mine /\ m.kind \in {"completed", "rejected"},
                  error    |-> mine /\ m.kind = "error",
                  response |-> /\ mine /\ m.kind \in {"text", "cut", "slice"}
                               /\ m.request.id = request.id]
  IN [w \in Waiters |-> IF matches[w] /\ heard[w] = "none" THEN m.kind ELSE heard[w]]

Deliver ==
  /\ bus # <<>> /\ bus' = Tail(bus)
  /\ LET m == Head(bus)
     IN /\ inbox' = IF m.kind = "user" /\ phase # "stopped"
                    THEN Append(inbox, m.request) ELSE inbox
        /\ heard' = Hear(m)
  /\ UNCHANGED <<phase, turn, status, cancel, rounds, attempts, calls, retained, draft,
                 client, sent, driver, request, corrections, invocation>>

Publish(asked) ==
  /\ sent < MaxRequests /\ sent' = sent + 1
  /\ bus' = Append(bus, Message("user", asked))

-----------------------------------------------------------------------------
\* The chat.
Typed(id) == [id |-> id, attempt |-> 0, number |-> sent + 1]

Send ==
  /\ client = "chat" /\ Publish(Typed("chat"))
  /\ UNCHANGED <<loopVars, client, driver, request, heard, corrections, invocation>>

Interrupt ==
  /\ client = "chat" /\ ~cancel /\ cancel' = TRUE
  /\ UNCHANGED <<inbox, phase, turn, status, rounds, attempts, calls, retained, draft,
                 bus, clientVars>>

\* require_agent_idle
AgentIdle == status = "free" /\ bus = <<>> /\ inbox = <<>>

\* Editing an earlier message replaces the loop's history by the messages
\* before it and sends the new text, under the facade's lock.
EditResend ==
  /\ client = "chat" /\ AgentIdle /\ Publish(Typed("chat"))
  /\ cancel' = TRUE /\ inbox' = <<>> /\ retained' = 0
  /\ UNCHANGED <<phase, turn, status, rounds, attempts, calls, draft,
                 client, driver, request, heard, corrections, invocation>>

-----------------------------------------------------------------------------
\* The typed turns.
Dispatch(id, attempt) ==
  LET asked == [id |-> id, attempt |-> attempt, number |-> sent + 1]
  IN Publish(asked) /\ request' = asked /\ heard' = Silence /\ driver' = "waiting"

\* begin_turn refuses a loop that is working.
Invoke ==
  /\ client = "typed" /\ driver = "idle" /\ status = "free"
  /\ invocation < MaxInvocations /\ invocation' = invocation + 1
  /\ corrections' = 0 /\ Dispatch("initial", invocation + 1)
  /\ UNCHANGED <<loopVars, client>>

InvocationEnds == driver' = "idle" /\ UNCHANGED <<bus, sent, request, heard, corrections>>

\* The first waiter of the list that is done decides what the turn was.
Outcome ==
  IF heard.result # "none" THEN heard.result
  ELSE IF heard.error # "none" THEN heard.error ELSE heard.response

\* The policy's rules: a completed result ends the invocation, a rejected one
\* or an error fails it; text is corrected a number of times, unless it says that
\* the context budget is exhausted; a turn that was cut off goes on as long as
\* the conversation makes progress.
Resumes ==
  /\ driver = "waiting" /\ Outcome # "none"
  /\ \/ Outcome \in {"completed", "rejected", "error"} /\ InvocationEnds
     \/ /\ Outcome = "text" /\ corrections < MaxCorrections
        /\ corrections' = corrections + 1 /\ Dispatch("correction", invocation)
     \/ Outcome = "text" /\ InvocationEnds
     \/ /\ Outcome \in {"cut", "slice"} /\ Dispatch(Outcome, invocation)
        /\ UNCHANGED corrections
     \/ Outcome \in {"cut", "slice"} /\ InvocationEnds
  /\ UNCHANGED <<loopVars, client, invocation>>

\* The Run is cancelled while a turn is waited for.
CancelRun ==
  /\ driver = "waiting" /\ driver' = "stopping" /\ cancel' = TRUE
  /\ UNCHANGED <<inbox, phase, turn, status, rounds, attempts, calls, retained, draft,
                 bus, client, sent, request, heard, corrections, invocation>>

\* The turn is complete, or TURN_STOP_GRACE_SECONDS have passed; the Run then
\* closes its sessions, as it does when it ends.
Close ==
  /\ client = "typed" /\ driver \in {"stopping", "idle"} /\ phase # "stopped"
  /\ driver' = "closed" /\ phase' = "stopped"
  /\ UNCHANGED <<inbox, turn, status, cancel, rounds, attempts, calls, retained, draft,
                 bus, client, sent, request, heard, corrections, invocation>>

-----------------------------------------------------------------------------
\* A chat has no task and no submit_result.
Offered(round) == client = "typed" \/ \A i \in 1 .. Len(round) : round[i] # "submit"

LoopNext ==
  /\ \E round \in {r \in Rounds : Offered(r)} : LoopStep(round, request)
  /\ UNCHANGED clientVars

Next ==
  \/ LoopNext \/ Deliver
  \/ Send \/ Interrupt \/ EditResend
  \/ Invoke \/ Resumes \/ CancelRun \/ Close

\* A provider's request, a tool and the delay of a retry end; the bus's worker
\* and the waiting coroutines run.  What users do is not promised.
Fairness ==
  /\ WF_vars(LoopNext) /\ WF_vars(Deliver) /\ WF_vars(Resumes)
  /\ WF_vars(driver = "stopping" /\ Close)

Spec == Init /\ [][Next]_vars /\ Fairness

-----------------------------------------------------------------------------
(***************************************************************************)
(* Properties                                                              *)
(***************************************************************************)
Requests == [id : {"none", "chat", "initial", "correction", "cut", "slice"},
             attempt : 0 .. MaxInvocations, number : 0 .. MaxRequests]
Kinds    == {"user", "text", "cut", "slice", "completed", "rejected", "error"}
Messages == [kind : Kinds, request : Requests]

\* The type invariant.
TypeOK ==
  /\ bus \in Seq(Messages) /\ inbox \in Seq(Requests)
  /\ phase \in Phases /\ turn \in Requests /\ status \in Statuses /\ cancel \in BOOLEAN
  /\ rounds \in 0 .. MaxRounds /\ attempts \in 0 .. MaxRetries + 1
  /\ calls \in Seq({"work", "read", "submit"}) /\ draft \in Nat /\ retained \in Nat
  /\ client \in {"chat", "typed"}
  /\ driver \in {"idle", "waiting", "stopping", "closed"} /\ request \in Requests
  /\ heard \in [Waiters -> Kinds \cup {"none"}]
  /\ sent \in 0 .. MaxRequests /\ invocation \in 0 .. MaxInvocations
  /\ corrections \in 0 .. MaxCorrections

\* Every call of the round needs a result, or the next request in this
\* conversation is rejected by the provider: whatever ended the turns before,
\* a terminal result, an interrupt in the middle of a round, a failure or the
\* limit of rounds, no request is made that holds an open call.
CallsAnswered == phase = "asking" => Asked = 0

\* The inductive invariant behind it: no conversation between turns holds an
\* open call, the one of a turn holds those of the current round, and there is
\* a round exactly while calls are made; who waits to ask again may.
OpenCallsKnown ==
  /\ retained = 0 /\ draft = Len(calls)
  /\ phase \in {"waiting", "asking", "backoff"} => calls = <<>>
  /\ phase \in {"tool", "batch"} => calls # <<>>
  /\ phase = "backoff" => attempts <= MaxRetries

TurnsInv == TypeOK /\ OpenCallsKnown

\* "the cancel flag already keeps the turn from starting further tools": a
\* turn that was interrupted, while it asked, waited to ask again or ran a
\* call, makes no further request and starts no further call.
NothingStartsAfterInterrupt ==
  [][cancel /\ cancel' /\ turn' = turn
       => /\ phase' = "asking" => phase = "asking" /\ attempts' = attempts
          /\ calls' \in {calls, <<>>}]_vars

\* A loop that is not dead or stopped becomes free again: no failure, retry,
\* interrupt or limit leaves an agent working for good.
LoopsComeFree == status = "working" ~> (status = "free" \/ phase \in {"dead", "stopped"})

\* Every dispatched turn is answered: the driver's waiters have no timeout, so
\* a turn that ends without a message for them would hold its Run for good.
DispatchIsAnswered == driver = "waiting" ~> (driver # "waiting" \/ Outcome # "none")

\* The part of LoopsComeFree that no scheduling is needed for.  The status is
\* what require_agent_idle and begin_turn take it for: a loop in a turn works,
\* and one that works is in a turn, has ended, or is about to be closed.
StatusIsTrue ==
  /\ phase \in Busy => status = "working"
  /\ status = "working" => phase \in Busy \cup {"dead", "stopped"} \/ driver = "stopping"

\* Within a turn every step of the loop goes on: to another round of calls, of
\* which there are MaxRounds; in the round to fewer calls, or from the calls to
\* the request; in the request to another attempt, of which there are
\* MaxRetries + 1, by way of its delay.
InCalls(p) == p \in {"tool", "batch"}

TurnGoesOn ==
  \/ rounds' > rounds
  \/ /\ rounds' = rounds
     /\ \/ InCalls(phase) /\ phase' = "asking"
        \/ InCalls(phase) /\ InCalls(phase') /\ Len(calls') < Len(calls)
        \/ ~InCalls(phase) /\ ~InCalls(phase') /\ attempts' > attempts
        \/ phase = "asking" /\ phase' = "backoff" /\ attempts' = attempts

TurnsAdvance == [][LoopNext /\ phase \in Busy /\ phase' \in Busy => TurnGoesOn]_vars

\* The part of DispatchIsAnswered that no scheduling is needed for: until its
\* driver has heard of it, a dispatched request is on its way to the loop, is
\* the loop's turn, or has an answer on the bus that one of the waiters takes.
Answers(m) ==
  /\ m.request.attempt = request.attempt
  /\ \/ m.kind \in {"completed", "rejected", "error"}
     \/ m.kind \in {"text", "cut", "slice"} /\ m.request.id = request.id

DispatchIsOnItsWay ==
  driver = "waiting" /\ Outcome = "none" =>
    \/ \E i \in 1 .. Len(bus) : bus[i] = Message("user", request) \/ Answers(bus[i])
    \/ \E i \in 1 .. Len(inbox) : inbox[i] = request
    \/ phase \in Busy /\ turn = request

\* With them: a chat has no driver and submits nothing, and only a driver that
\* gave its turn up interrupts or stops a typed loop.
DriverSound ==
  /\ client = "chat" =>
       driver = "idle" /\ \A i \in 1 .. Len(calls) : calls[i] # "submit"
  /\ client = "typed" /\ (cancel \/ phase = "dead") => driver \in {"stopping", "closed"}
  /\ phase = "stopped" <=> driver = "closed"

DispatchInv == StatusIsTrue /\ DispatchIsOnItsWay /\ DriverSound

\* cancel_current is to "Cancel the currently processing message (if any)",
\* not the loop that processes it.
LoopSurvivesInterrupt == phase # "dead"

\* AgentExecutionService is to "dispatch exactly one correlated turn at a
\* time": no request waits while another turn of its session runs.
Pending ==
  {m.request : m \in {bus[i] : i \in 1 .. Len(bus)} \cap [kind : {"user"}, request : Requests]}
    \cup {inbox[i] : i \in 1 .. Len(inbox)}
    \cup (IF phase \in Busy THEN {turn} ELSE {})

OneTurnAtATime == client = "typed" => \A a, b \in Pending : a = b
=============================================================================
