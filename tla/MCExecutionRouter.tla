------------------------ MODULE MCExecutionRouter ------------------------
(***************************************************************************)
(* ExecutionRouter at the size TLC explores.  One token unit stands for a  *)
(* tenth of the smallest bond; the windows keep the proportions that       *)
(* matter (rejection < minDelivery, settlement + escalation < unbonding).  *)
(***************************************************************************)
EXTENDS ExecutionRouter, TLC

MCLimits == [minBond |-> 10, globalNotionalCap |-> 60, earlyExitPenaltyBps |-> 1000]

MCParams == [minDeliveryWindow |-> 2, rejectionWindow |-> 1,
             challengeWindow |-> 2, escalationWindow |-> 1, settlementWindow |-> 2,
             challengeBondAmount |-> 3, faultSlashBps |-> 2000,
             livenessSlashBps |-> 1000, minFeeBps |-> 1000]

MCLimitChoices == {MCLimits}
MCParamChoices == {MCParams}

\* Governance: the windows may be widened past an open request's deadline, and
\* the challenge bond raised between a challenge and its end.
MCGovernedParams ==
    {MCParams,
     [MCParams EXCEPT !.minDeliveryWindow = 4, !.rejectionWindow = 3,
                      !.challengeBondAmount = 5, !.minFeeBps = 500]}

MCGovernedLimits ==
    {MCLimits, [minBond |-> 20, globalNotionalCap |-> 10, earlyExitPenaltyBps |-> 0]}

RequestSymmetry == Permutations(Requests)

=============================================================================
