--------------------------- MODULE MCAgentRelayer ---------------------------
(***************************************************************************)
(* AgentRelayer at the size TLC explores.                                  *)
(***************************************************************************)
EXTENDS AgentRelayer, TLC

=============================================================================
