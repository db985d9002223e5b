----------------------------- MODULE MCAgentRun -----------------------------
(***************************************************************************)
(* AgentRun for TLC.  The whole next-state relation is checked with two    *)
(* messages; with three the host only converses: it leaves the queues and  *)
(* their modes, chosen at the start, alone.                                *)
(***************************************************************************)
EXTENDS AgentRun

ConverseNext == LoopStep \/ Fail \/ Converse

ConverseSpec == Init /\ [][ConverseNext]_vars
=============================================================================
