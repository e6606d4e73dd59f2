----------------------------- MODULE ScoreMath -----------------------------
(***************************************************************************)
(* contracts/src/libraries/ScoreMath.sol: scores in basis points, pulled   *)
(* back to NEUTRAL by time, towards a reported quality by capital, and     *)
(* down by faults.  Every division rounds down, as Solidity's does, and    *)
(* the order of the roundings is the code's.                               *)
(***************************************************************************)
EXTENDS Amounts, Integers

MAX_SCORE == 10000
NEUTRAL == 5000
Scores == 0 .. MAX_SCORE

Distance(x, y) == IF x >= y THEN x - y ELSE y - x

\* Mistake: the interpolation taken all the way to zero.
ShrunkToZero(value, elapsed, halfLife, vanishes) ==
    LET halvings == elapsed \div halfLife
        halved == value \div 2 ^ halvings
    IN  IF halvings >= vanishes THEN 0
        ELSE halved - (halved * (elapsed % halfLife)) \div halfLife

\* A magnitude after `elapsed`: whole half-lives by halving, the rest of one
\* interpolated linearly from the magnitude to its half; nothing is left after
\* `vanishes` halvings.
Shrunk(value, elapsed, halfLife, vanishes) ==
    LET halvings == elapsed \div halfLife
        halved == value \div 2 ^ halvings
    IN  IF halvings >= vanishes THEN 0
        ELSE halved - (halved * (elapsed % halfLife)) \div (2 * halfLife)

\* A score after `elapsed` without an update.
decay(score, elapsed, halfLife) ==
    LET left == Shrunk(Distance(score, NEUTRAL), elapsed, halfLife, 32)
    IN  IF score > NEUTRAL THEN NEUTRAL + left ELSE NEUTRAL - left

\* A spent budget after `elapsed` without spending.
fade(value, elapsed, halfLife) == Shrunk(value, elapsed, halfLife, 128)

\* One observation, weighted by the capital at risk: no weight, no change.
observe(score, quality, weight, halfWeight) ==
    IF quality >= score
    THEN score + ((quality - score) * weight) \div (weight + halfWeight)
    ELSE score - ((score - quality) * weight) \div (weight + halfWeight)

haircut(score, haircutBps) == BpsOf(score, BpsDenominator - haircutBps)

\* How much of a report's quality a loss beyond the declared tolerance costs.
penaltyBps(loss, toleranceBps) ==
    IF loss <= toleranceBps THEN 0
    ELSE IF toleranceBps = 0 THEN BpsDenominator
    ELSE Lesser(BpsDenominator,
                ((loss - toleranceBps) * BpsDenominator) \div (2 * toleranceBps))

\* The quality of a settled outcome: late work counts half, a breached limit a
\* fifth, and a profit counts for nothing.
quality(outcome, toleranceBps) ==
    LET onTime == IF outcome.slaBreached THEN BpsOf(MAX_SCORE, 5000) ELSE MAX_SCORE
        inLimits == IF outcome.limitBreached THEN BpsOf(onTime, 2000) ELSE onTime
    IN  BpsOf(inLimits, BpsDenominator - penaltyBps(-outcome.realizedPnlBps, toleranceBps))

=============================================================================
