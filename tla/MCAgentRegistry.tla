-------------------------- MODULE MCAgentRegistry --------------------------
(* AgentRegistry under an arbitrary router, at the size TLC explores. *)
EXTENDS AgentRegistry, TLC

MCLimits == [minBond |-> 1, globalNotionalCap |-> 1, earlyExitPenaltyBps |-> 5000]
MCLimitChoices == {MCLimits}

OperatorSymmetry == Permutations(Operators)

=============================================================================
