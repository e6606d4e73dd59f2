---------------------------- MODULE MCReputation ----------------------------
(***************************************************************************)
(* ReputationHistory at the size TLC explores: weights in units of a sixth *)
(* of the per-consumer cap, a half-life of four instants, the haircuts the *)
(* contract is deployed with.                                              *)
(***************************************************************************)
EXTENDS ReputationHistory, TLC

Clean == [realizedPnlBps |-> 0, slaBreached |-> FALSE, limitBreached |-> FALSE]
LateLoss == [realizedPnlBps |-> -20, slaBreached |-> TRUE, limitBreached |-> TRUE]

MCMixedOutcomes == {Clean, LateLoss}

MCParams == [halfWeight |-> 12, weightCap |-> 10, consumerWeightCap |-> 6,
             decayHalfLife |-> 4, livenessHaircutBps |-> 1500,
             verificationHaircutBps |-> 6000, weightPerFeeUnit |-> 4]

\* A cap lowered under what has been spent while voice is free, then asked above
\* the width budgets are stored in, with voice dear.
MCGovernedParams ==
    {MCParams,
     [MCParams EXCEPT !.consumerWeightCap = 2, !.decayHalfLife = 2, !.weightPerFeeUnit = 0],
     [MCParams EXCEPT !.consumerWeightCap = 20, !.weightPerFeeUnit = 6]}

AgentSymmetry == Permutations(Agents)

=============================================================================
