------------------------- MODULE MCAgentConversation -------------------------
(***************************************************************************)
(* A small instance of AgentConversation for TLC.                          *)
(***************************************************************************)

EXTENDS AgentConversation, TLC

RetrySymmetry == Permutations(TurnIds) \cup Permutations(Inputs)
=============================================================================
