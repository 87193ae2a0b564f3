----------------------------- MODULE AgentLoop -----------------------------
(***************************************************************************)
(* One AgentLoop: its message queue, the provider requests, retries and    *)
(* tool rounds of a turn, and the interrupt.  A step runs from one await   *)
(* that really suspends to the next, so what the code publishes between    *)
(* two of them enters the bus at once and in order.  Of a conversation     *)
(* only the tool calls that have no result yet are kept: a provider        *)
(* refuses a request that holds one.  The turn-end guards that re-prompt   *)
(* an agent are not told: nothing in the repository sends the main_agent   *)
(* messages and blocks the tasks they wait for.                            *)
(***************************************************************************)
EXTENDS Naturals, Sequences

CONSTANTS
  MaxRounds,   \* max_tool_iterations
  MaxRetries   \* _MAX_PROVIDER_RETRIES

ASSUME LoopAssumption == MaxRounds \in Nat \ {0} /\ MaxRetries \in Nat

VARIABLES
  bus,        \* MessageBus._queue
  inbox,      \* _message_queue
  phase,      \* where _process_loop is
  turn,       \* _current_message
  status,     \* _status: "working" or "free" (IDLE or ERROR)
  cancel,     \* _cancel_event
  rounds,     \* iteration of _handle_tool_calls, 0 before the first round
  attempts,   \* physical requests of the current provider round
  calls,      \* calls of the current round without a result, the running one first
  retained,   \* open calls in _conversation_history
  draft       \* open calls in current_messages

loopVars == <<inbox, phase, turn, status, cancel, rounds, attempts, calls,
              retained, draft>>

\* "dead": the processing task ended with a CancelledError nobody caught.
Phases == {"waiting", "asking", "backoff", "tool", "batch", "dead", "stopped"}
Busy   == {"asking", "backoff", "tool", "batch"}

\* A request names its turn by message_id and task_attempt_id, the names its
\* readers know, and by a number of its own, which no reader sees.
Message(kind, request) == [kind |-> kind, request |-> request]
Statuses == {"working", "free"}

\* A round of tool calls: two parallel reads, or calls made one by one.
Batch(round) == Len(round) >= 2 /\ \A i \in 1 .. Len(round) : round[i] = "read"

Followup == rounds > 0
Asked    == IF Followup THEN draft ELSE retained

LoopInit ==
  /\ inbox = <<>> /\ phase = "waiting" /\ turn = [id |-> "none", attempt |-> 0, number |-> 0]
  /\ status = "free" /\ cancel = FALSE /\ rounds = 0 /\ attempts = 0
  /\ calls = <<>> /\ retained = 0 /\ draft = 0

\* The end of a turn with what it publishes last.
EndTurn(messages, open) ==
  /\ phase' = "waiting" /\ status' = "free"
  /\ bus' = bus \o messages
  /\ retained' = open /\ calls' = <<>> /\ rounds' = 0 /\ draft' = 0 /\ attempts' = 0
  /\ UNCHANGED <<inbox, turn, cancel>>

Take ==
  /\ phase = "waiting" /\ inbox # <<>>
  /\ turn' = Head(inbox) /\ inbox' = Tail(inbox)
  /\ cancel' = FALSE
  /\ status' = "working"
  /\ phase' = "asking" /\ attempts' = 1
  /\ UNCHANGED <<bus, rounds, calls, retained, draft>>

\* A reply without tool calls.  After tool rounds its text is published by
\* the round and an empty completion marker follows.
ReplyText ==
  /\ phase = "asking" /\ ~cancel
  /\ \E n \in IF Followup THEN {1, 2} ELSE {1} :
       EndTurn([i \in 1 .. n |-> Message("text", turn)], Asked)

\* The reply to a workflow's request was cut at the provider's token limit.
ReplyCut ==
  /\ phase = "asking" /\ ~cancel /\ ~Followup /\ turn.id # "chat"
  /\ EndTurn(<<Message("cut", turn)>>, retained)

ReplyCalls(round) ==
  /\ phase = "asking" /\ ~cancel /\ rounds < MaxRounds
  /\ rounds' = rounds + 1
  /\ draft' = Asked + Len(round) /\ calls' = round
  /\ phase' = IF Batch(round) THEN "batch" ELSE "tool"
  /\ UNCHANGED <<bus, inbox, turn, status, cancel, attempts, retained>>

\* More calls than max_tool_iterations allows: the marker of a continuation,
\* then the turn's own completion marker.
ReachSlice ==
  /\ phase = "asking" /\ ~cancel /\ rounds = MaxRounds
  /\ EndTurn(<<Message("slice", turn), Message("text", turn)>>, draft)

AttemptFails ==
  /\ phase = "asking" /\ ~cancel /\ attempts <= MaxRetries
  /\ phase' = "backoff"
  /\ UNCHANGED <<bus, inbox, turn, status, cancel, rounds, attempts, calls,
                 retained, draft>>

\* Mutant: the delay is slept through.
Retry_Uninterrupted ==
  /\ phase = "backoff"
  /\ phase' = "asking" /\ attempts' = attempts + 1
  /\ UNCHANGED <<bus, inbox, turn, status, cancel, rounds, calls, retained, draft>>

Retry ==
  /\ phase = "backoff" /\ ~cancel
  /\ phase' = "asking" /\ attempts' = attempts + 1
  /\ UNCHANGED <<bus, inbox, turn, status, cancel, rounds, calls, retained, draft>>

\* Mutant: the failure is logged but not published.
TurnFails_Unreported ==
  /\ phase = "asking"
  /\ phase' = "waiting" /\ status' = "free"
  /\ calls' = <<>> /\ rounds' = 0 /\ draft' = 0 /\ attempts' = 0
  /\ UNCHANGED <<bus, inbox, turn, cancel, retained>>

\* A failure that is not retried.  What the tool rounds added stays in
\* current_messages and is lost with it.
TurnFails ==
  /\ phase = "asking"
  /\ phase' = "waiting" /\ status' = "free"
  /\ bus' = Append(bus, Message("error", turn))
  /\ calls' = <<>> /\ rounds' = 0 /\ draft' = 0 /\ attempts' = 0
  /\ UNCHANGED <<inbox, turn, cancel, retained>>

\* Mutant: the interrupt returns before the status is set.
Interrupted_StillWorking ==
  /\ phase \in {"asking", "backoff"} /\ cancel
  /\ phase' = "waiting" /\ retained' = Asked
  /\ calls' = <<>> /\ rounds' = 0 /\ draft' = 0 /\ attempts' = 0
  /\ UNCHANGED <<bus, inbox, turn, status, cancel>>

\* The interrupt is seen while a request or a retry's delay is waited for.
Interrupted ==
  /\ phase \in {"asking", "backoff"} /\ cancel
  /\ EndTurn(<<>>, Asked)

\* Mutant: the calls after the last one that ran get no result.
Skipped_Unanswered(open) == open

\* The rest of a round that is not run still gets its results.
Skipped(open) == open - Len(Tail(calls))

CallAnswered ==
  \/ /\ cancel
     /\ EndTurn(<<>>, Skipped(draft - 1))
  \/ /\ ~cancel
     /\ draft' = draft - 1 /\ calls' = Tail(calls)
     /\ IF Tail(calls) = <<>> THEN phase' = "asking" /\ attempts' = 1
                              ELSE UNCHANGED <<phase, attempts>>
     /\ UNCHANGED <<bus, inbox, turn, status, cancel, rounds, retained>>

\* A call has a result: its value, its error, a rejected submission's
\* correction, or the interrupt that cancelled it.
CallEnds == phase = "tool" /\ CallAnswered

\* submit_result ends the task: it publishes the result before it returns.
\* An interrupt in between leaves the status as it was.
SubmitEnds(request) ==
  /\ phase = "tool" /\ Head(calls) = "submit"
  /\ \E outcome \in {"completed", "rejected"} :
       bus' = bus \o <<Message(outcome, request), Message("text", turn)>>
  /\ retained' = Skipped(draft - 1)
  /\ phase' = "waiting" /\ status' = IF cancel THEN status ELSE "free"
  /\ calls' = <<>> /\ rounds' = 0 /\ draft' = 0 /\ attempts' = 0
  /\ UNCHANGED <<inbox, turn, cancel>>

\* Both reads have answered before the interrupt, or there was none.
BatchEnds ==
  /\ phase = "batch"
  /\ IF cancel
     THEN EndTurn(<<>>, draft - Len(calls))
     ELSE /\ draft' = draft - Len(calls) /\ calls' = <<>>
          /\ phase' = "asking" /\ attempts' = 1
          /\ UNCHANGED <<bus, inbox, turn, status, cancel, rounds, retained>>

\* The interrupt cancels the gather itself.  Its CancelledError is not
\* caught where the batch is awaited, nor in _process_message or
\* _process_loop.
BatchCancelled ==
  /\ phase = "batch" /\ cancel
  /\ phase' = "dead"
  /\ UNCHANGED <<bus, inbox, turn, status, cancel, rounds, attempts, calls,
                 retained, draft>>

LoopStep(round, request) ==
  \/ Take \/ ReplyText \/ ReplyCut \/ ReplyCalls(round) \/ ReachSlice
  \/ AttemptFails \/ Retry \/ TurnFails \/ Interrupted
  \/ CallEnds \/ SubmitEnds(request) \/ BatchEnds \/ BatchCancelled
=============================================================================
