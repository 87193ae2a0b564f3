--------------------------- MODULE MCWorkflowHost ---------------------------
(* A plan with every kind of action: a list walked by a for_each, an input,  *)
(* a condition that goes back (ended by max_iterations), a condition group   *)
(* and both terminals.                                                       *)
EXTENDS WorkflowHost

MCVars == {"list", "item", "answer"}

\* The condition group reads "item", which is not there before a list is walked.
MCInitialVars == [v \in MCVars |-> Unset]

Task(out) == [kind |-> "task", out |-> out]
On(var, value, target) == [var |-> var, value |-> value, target |-> target]

MCPlan ==
  << Task("list"),
     [kind |-> "for_each", items |-> "list", item |-> "item", body |-> 3,
      after |-> 5],
     Task("answer"),
     [kind |-> "goto", branches |-> <<>>, default |-> 2],
     [kind |-> "input", out |-> "answer"],
     [kind |-> "if", branches |-> <<On("answer", 0, 1)>>, default |-> 7],
     [kind |-> "condition_group",
      branches |-> <<On("answer", 1, 8), On("item", 1, 9)>>, default |-> 9],
     [kind |-> "fail"],
     [kind |-> "end"] >>
=============================================================================
