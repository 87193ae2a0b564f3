---------------------------- MODULE MCAgentTurns ----------------------------
(* Rounds of tool calls: one call, a parallel batch of reads, and a          *)
(* submission before or after another call.                                  *)
EXTENDS AgentTurns

CallRounds == {<<"work">>, <<"read", "read">>, <<"work", "submit">>, <<"submit", "work">>}
=============================================================================
