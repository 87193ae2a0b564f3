----------------------------- MODULE RunStatus -----------------------------
(***************************************************************************)
(* What a Run promises to whoever reads its saved state: it appears as     *)
(* running (or already settled), settles as waiting, failed or completed,  *)
(* may be reopened unless completed, and once completed never changes.     *)
(***************************************************************************)
VARIABLE status    \* status of the saved state; "absent" before the first save

Settled == {"waiting", "failed", "completed"}

Init == status = "absent"

\* A Run is accepted only once its state is saved; its first save may already
\* be a failure (a plan that exceeds max_iterations before any effect).
Accept == status = "absent" /\ status' \in {"running", "failed"}

\* An execution settles.
Settle == status = "running" /\ status' \in Settled

\* A person, the runtime or an input continues it.
Reopen == status \in {"waiting", "failed"} /\ status' = "running"

Next == Accept \/ Settle \/ Reopen

Spec == Init /\ [][Next]_status
=============================================================================
