-------------------------- MODULE ReputationProofs --------------------------
(***************************************************************************)
(* For every set of agents, consumers, reports and parameters: voice pays  *)
(* for what reports weigh, no consumer outweighs its cap, time is not a    *)
(* merit, and no fault pays.                                               *)
(*                                                                         *)
(* The provers do not know what a power is.  What the proofs need to know  *)
(* of the code's `>> halvings`, a division by 2 ^ halvings, is how powers  *)
(* begin and go on: the hypothesis PowersOfTwo of the theorems.            *)
(***************************************************************************)
EXTENDS ReputationHistory, FiniteSetTheorems, WellFoundedInduction, TLAPS

PowersOfTwo ==
    /\ 2 ^ 0 = 1
    /\ \A n \in Nat : 2 ^ n \in Nat \ {0} /\ 2 ^ (n + 1) = 2 * 2 ^ n

-----------------------------------------------------------------------------
(* Shares and sums.                                                        *)

\* A share of at most 10_000 basis points never exceeds what it is of.
LEMMA BpsOfBound ==
    ASSUME NEW x \in Nat, NEW b \in Bps
    PROVE  BpsOf(x, b) \in 0 .. x
<1>1. b \in 0 .. 10000
  BY DEF Bps, BpsDenominator
<1>2. x * b \in Nat /\ x * b <= x * 10000
  BY <1>1
<1>3. \A p, m \in Nat : p <= m * 10000 => p \div 10000 \in 0 .. m
  OBVIOUS
<1>4. QED
  BY <1>2, <1>3 DEF BpsOf, BpsDenominator

\* The units of one element: as many as its amount.
LEMMA UnitsOfOne ==
    ASSUME NEW x, NEW n \in Nat
    PROVE  /\ IsFiniteSet({x} \X (1 .. n))
           /\ Cardinality({x} \X (1 .. n)) = n
<1>1. IsFiniteSet({x}) /\ Cardinality({x}) = 1
  BY FS_Singleton
<1>2. IsFiniteSet(1 .. n) /\ Cardinality(1 .. n) = n
  BY FS_Interval
<1>3. IsFiniteSet({x} \X (1 .. n))
      /\ Cardinality({x} \X (1 .. n)) = Cardinality({x}) * Cardinality(1 .. n)
  BY <1>1, <1>2, FS_Product
<1>4. 1 * n = n
  OBVIOUS
<1>5. QED
  BY <1>1, <1>2, <1>3, <1>4

\* A sum over a finite set is a natural number.
LEMMA SumType ==
    ASSUME NEW S, IsFiniteSet(S), NEW f, \A x \in S : f[x] \in Nat
    PROVE  /\ IsFiniteSet(Units(f, S))
           /\ SumOver(f, S) \in Nat
<1> DEFINE parts == { {x} \X (1 .. f[x]) : x \in S }
           part == [x \in S |-> {x} \X (1 .. f[x])]
<1>1. part \in Surjection(S, parts)
  BY DEF Surjection
<1>2. IsFiniteSet(parts)
  BY <1>1, FS_Surjection DEF ExistsSurjection
<1>3. ASSUME NEW p \in parts PROVE IsFiniteSet(p)
  <2>1. PICK x \in S : p = {x} \X (1 .. f[x])
    OBVIOUS
  <2>2. f[x] \in Nat
    OBVIOUS
  <2>3. QED
    BY <2>1, <2>2, UnitsOfOne
<1>4. IsFiniteSet(UNION parts)
  BY <1>2, <1>3, FS_UNION
<1>5. QED
  BY <1>4, FS_CardinalityType DEF Units, SumOver

LEMMA SumEmpty ==
    ASSUME NEW f
    PROVE  SumOver(f, {}) = 0
<1>1. Units(f, {}) = {}
  BY DEF Units
<1>2. QED
  BY <1>1, FS_EmptySet DEF SumOver

\* Only the amounts of the members count.
LEMMA SumCongruence ==
    ASSUME NEW S, NEW f, NEW g, \A x \in S : f[x] = g[x]
    PROVE  SumOver(f, S) = SumOver(g, S)
<1>1. Units(f, S) = Units(g, S)
  BY DEF Units
<1>2. QED
  BY <1>1 DEF SumOver

\* A new member adds its amount.
LEMMA SumAdd ==
    ASSUME NEW S, IsFiniteSet(S), NEW f, NEW x, x \notin S,
           \A y \in S \cup {x} : f[y] \in Nat
    PROVE  SumOver(f, S \cup {x}) = SumOver(f, S) + f[x]
<1> DEFINE new == {x} \X (1 .. f[x])
<1>1. IsFiniteSet(new) /\ Cardinality(new) = f[x]
  BY UnitsOfOne
<1>2. IsFiniteSet(Units(f, S)) /\ Cardinality(Units(f, S)) \in Nat
  BY SumType DEF SumOver
<1>3. Units(f, S \cup {x}) = Units(f, S) \cup new
  BY DEF Units
<1>4. Units(f, S) \cap new = {}
  <2> SUFFICES ASSUME NEW u \in Units(f, S), u \in new
               PROVE  FALSE
    OBVIOUS
  <2>1. PICK y \in S : u \in {y} \X (1 .. f[y])
    BY DEF Units
  <2>2. u[1] = y /\ u[1] = x
    BY <2>1
  <2>3. QED
    BY <2>2
<1>5. Cardinality(Units(f, S) \cup new)
        = Cardinality(Units(f, S)) + Cardinality(new) - Cardinality(Units(f, S) \cap new)
  BY <1>1, <1>2, FS_Union
<1>6. Cardinality(Units(f, S) \cap new) = 0
  BY <1>4, FS_EmptySet
<1>7. f[x] \in Nat
  OBVIOUS
<1>8. Cardinality(Units(f, S \cup {x})) = Cardinality(Units(f, S)) + f[x]
  <2> HIDE DEF new
  <2>1. Cardinality(Units(f, S) \cup new) = Cardinality(Units(f, S)) + f[x]
    BY <1>1, <1>2, <1>5, <1>6, <1>7
  <2>2. QED
    BY <1>3, <2>1
<1>9. QED
  BY <1>8 DEF SumOver

-----------------------------------------------------------------------------
(* The arithmetic.                                                         *)

LEMMA QuotientBound ==
    ASSUME NEW v \in Nat, NEW d \in Nat \ {0}
    PROVE  v \div d \in 0 .. v
OBVIOUS

LEMMA ShareBound ==
    ASSUME NEW v \in Nat, NEW w \in Nat, NEW d \in Nat \ {0}, w <= d
    PROVE  (v * w) \div d \in 0 .. v
<1>1. v * w \in Nat /\ v * w <= v * d
  OBVIOUS
<1>2. \A p \in Nat : p <= v * d => p \div d \in 0 .. v
  OBVIOUS
<1> QED
  BY <1>1, <1>2

\* Time never adds to a magnitude.
LEMMA ShrunkBound ==
    ASSUME PowersOfTwo, NEW v \in Nat, NEW e \in Nat, NEW h \in Nat \ {0}, NEW vanishes \in Nat
    PROVE  Shrunk(v, e, h, vanishes) \in 0 .. v
<1> DEFINE k == e \div h
           halved == v \div 2 ^ k
<1>1. k \in Nat /\ e % h \in 0 .. h - 1
  OBVIOUS
<1>2. 2 ^ k \in Nat \ {0}
  BY <1>1 DEF PowersOfTwo
<1> HIDE DEF k
<1>3. halved \in 0 .. v
  BY <1>2, QuotientBound
<1> HIDE DEF halved
<1>4. (halved * (e % h)) \div (2 * h) \in 0 .. halved
  <2>1. halved \in Nat /\ e % h \in Nat /\ 2 * h \in Nat \ {0} /\ e % h <= 2 * h
    BY <1>1, <1>3
  <2> QED
    BY <2>1, ShareBound
<1>5. Shrunk(v, e, h, vanishes) =
        IF k >= vanishes THEN 0 ELSE halved - (halved * (e % h)) \div (2 * h)
  BY DEF Shrunk, k, halved
<1> QED
  BY <1>3, <1>4, <1>5

LEMMA ScoreRange == \A x : x \in Scores <=> x \in Nat /\ x <= 10000
<1>1. PICK m : m = MAX_SCORE /\ m \in Nat
  BY DEF MAX_SCORE
<1>2. Scores = 0 .. m
  BY <1>1, Zenon DEF Scores
<1>3. \A x : x \in 0 .. m <=> x \in Nat /\ x <= m
  BY <1>1
<1>4. m = 10000
  BY <1>1 DEF MAX_SCORE
<1>5. \A x : x \in Scores <=> x \in Nat /\ x <= m
  BY <1>2, <1>3, Zenon
<1> QED
  BY <1>4, <1>5

LEMMA BpsRange == \A x : x \in Bps <=> x \in Nat /\ x <= 10000
<1>1. PICK m : m = BpsDenominator /\ m \in Nat
  BY DEF BpsDenominator
<1>2. Bps = 0 .. m
  BY <1>1, Zenon DEF Bps
<1>3. \A x : x \in 0 .. m <=> x \in Nat /\ x <= m
  BY <1>1
<1>4. m = 10000
  BY <1>1 DEF BpsDenominator
<1>5. \A x : x \in Bps <=> x \in Nat /\ x <= m
  BY <1>2, <1>3, Zenon
<1> QED
  BY <1>4, <1>5

LEMMA DecayType ==
    ASSUME PowersOfTwo, NEW s \in Scores, NEW e \in Nat, NEW h \in Nat \ {0}
    PROVE  decay(s, e, h) \in Scores
<1>1. s \in Nat /\ s <= 10000
  BY ScoreRange
<1>2. Distance(s, NEUTRAL) \in Nat /\ Distance(s, NEUTRAL) <= 5000
  BY <1>1 DEF NEUTRAL, Distance
<1>3. Shrunk(Distance(s, NEUTRAL), e, h, 32) \in 0 .. Distance(s, NEUTRAL)
  <2>1. \A v \in Nat : Shrunk(v, e, h, 32) \in 0 .. v
    BY ShrunkBound
  <2> QED
    BY <1>2, <2>1
<1>4. decay(s, e, h) \in Nat /\ decay(s, e, h) <= 10000
  <2>1. PICK left : left = Shrunk(Distance(s, NEUTRAL), e, h, 32)
    OBVIOUS
  <2>2. left \in Nat /\ left <= 5000
    BY <1>2, <1>3, <2>1
  <2>3. decay(s, e, h) = IF s > 5000 THEN 5000 + left ELSE 5000 - left
    BY <2>1 DEF decay, NEUTRAL
  <2> QED
    BY <2>2, <2>3
<1> QED
  BY <1>4, ScoreRange

LEMMA ObserveType ==
    ASSUME NEW s \in Scores, NEW q \in Scores, NEW w \in Nat, NEW hw \in Nat \ {0}
    PROVE  observe(s, q, w, hw) \in Scores
<1>1. s \in Nat /\ s <= 10000 /\ q \in Nat /\ q <= 10000
  BY ScoreRange
<1>2. w + hw \in Nat \ {0} /\ w <= w + hw
  OBVIOUS
<1>3. \A v \in Nat : (v * w) \div (w + hw) \in 0 .. v
  BY <1>2, ShareBound
<1>4. observe(s, q, w, hw) \in Nat /\ observe(s, q, w, hw) <= 10000
  <2>1. CASE q >= s
    <3>1. q - s \in Nat
      BY <1>1, <2>1
    <3>2. PICK d : d = ((q - s) * w) \div (w + hw) /\ d \in 0 .. (q - s)
      BY <1>3, <3>1
    <3>3. observe(s, q, w, hw) = s + d
      BY <2>1, <3>2 DEF observe
    <3> QED
      BY <1>1, <3>1, <3>2, <3>3
  <2>2. CASE ~(q >= s)
    <3>1. s - q \in Nat
      BY <1>1, <2>2
    <3>2. PICK d : d = ((s - q) * w) \div (w + hw) /\ d \in 0 .. (s - q)
      BY <1>3, <3>1
    <3>3. observe(s, q, w, hw) = s - d
      BY <2>2, <3>2 DEF observe
    <3> QED
      BY <1>1, <3>1, <3>2, <3>3
  <2> QED
    BY <2>1, <2>2
<1> QED
  BY <1>4, ScoreRange

\* A share in basis points is at most the whole.
LEMMA ShareOfScore ==
    ASSUME NEW x \in Nat, NEW b \in Nat, x <= 10000, b <= 10000
    PROVE  BpsOf(x, b) \in Nat /\ BpsOf(x, b) <= x
<1>1. b \in Bps
  BY BpsRange
<1>2. BpsOf(x, b) \in 0 .. x
  BY <1>1, BpsOfBound
<1> QED
  BY <1>2

LEMMA HaircutType ==
    ASSUME NEW s \in Scores, NEW b \in Bps
    PROVE  haircut(s, b) \in Scores /\ haircut(s, b) <= s
<1>1. b \in Nat /\ b <= 10000 /\ s \in Nat /\ s <= 10000
  BY ScoreRange, BpsRange
<1>2. 10000 - b \in Nat /\ 10000 - b <= 10000
  BY <1>1
<1>3. haircut(s, b) = BpsOf(s, 10000 - b)
  BY DEF haircut, BpsDenominator
<1>4. haircut(s, b) \in Nat /\ haircut(s, b) <= s
  BY <1>1, <1>2, <1>3, ShareOfScore
<1> QED
  BY <1>1, <1>4, ScoreRange

LEMMA QualityType ==
    ASSUME NEW outcome \in Outcome, NEW tolerance \in Nat
    PROVE  quality(outcome, tolerance) \in Scores
<1> DEFINE loss == -outcome.realizedPnlBps
           penalty == penaltyBps(loss, tolerance)
           onTime == IF outcome.slaBreached THEN BpsOf(MAX_SCORE, 5000) ELSE MAX_SCORE
           inLimits == IF outcome.limitBreached THEN BpsOf(onTime, 2000) ELSE onTime
<1>1. loss \in Int
  BY DEF Outcome
<1> HIDE DEF loss
<1>2. penalty \in Nat /\ penalty <= 10000
  <2>1. CASE loss <= tolerance
    BY <2>1 DEF penaltyBps
  <2>2. CASE ~(loss <= tolerance) /\ tolerance = 0
    BY <2>2 DEF penaltyBps, BpsDenominator
  <2>3. CASE ~(loss <= tolerance) /\ tolerance # 0
    <3>1. (loss - tolerance) * 10000 \in Nat /\ 2 * tolerance \in Nat \ {0}
      BY <1>1, <2>3
    <3>2. ((loss - tolerance) * 10000) \div (2 * tolerance) \in Nat
      BY <3>1, QuotientBound
    <3>3. penalty = Lesser(10000, ((loss - tolerance) * 10000) \div (2 * tolerance))
      BY <2>3 DEF penaltyBps, BpsDenominator
    <3>4. \A x \in Nat : Lesser(10000, x) \in Nat /\ Lesser(10000, x) <= 10000
      BY DEF Lesser
    <3> QED
      BY <3>2, <3>3, <3>4
  <2> QED
    BY <2>1, <2>2, <2>3
<1> HIDE DEF penalty
<1>3. onTime \in Nat /\ onTime <= 10000
  <2>1. BpsOf(10000, 5000) \in Nat /\ BpsOf(10000, 5000) <= 10000
    BY ShareOfScore
  <2> QED
    BY <2>1 DEF MAX_SCORE
<1> HIDE DEF onTime
<1>4. inLimits \in Nat /\ inLimits <= 10000
  <2>1. BpsOf(onTime, 2000) \in Nat /\ BpsOf(onTime, 2000) <= onTime
    BY <1>3, ShareOfScore
  <2> QED
    BY <1>3, <2>1
<1> HIDE DEF inLimits
<1>5. quality(outcome, tolerance) = BpsOf(inLimits, 10000 - penalty)
  BY DEF quality, penalty, loss, onTime, inLimits, BpsDenominator
<1>6. quality(outcome, tolerance) \in Nat /\ quality(outcome, tolerance) <= inLimits
  <2>1. 10000 - penalty \in Nat /\ 10000 - penalty <= 10000
    BY <1>2
  <2> QED
    BY <1>4, <1>5, <2>1, ShareOfScore
<1> QED
  BY <1>4, <1>6, ScoreRange

-----------------------------------------------------------------------------
(* What a report may weigh, and what every call leaves typed.              *)

Report == [agent : Agents, consumer : Consumers, weight : Nat, priced : BOOLEAN,
           bought : Nat, at : Nat, cap : Nat, halfLife : Nat \ {0}]

\* Nothing was touched in the future, and the parameters passed setParameters.
ShapeInv ==
    /\ EngineTypeOK
    /\ LegalParameters(params)
    /\ now # 0
    /\ \A a \in Agents : records[a].lastUpdateAt <= now
    /\ \A a \in Agents, c \in Consumers : budgets[a][c].lastAt <= now
    /\ reports \in Seq(Report)
    /\ \A i \in DOMAIN reports : reports[i].at <= now

LEMMA ParamTypes ==
    ASSUME ShapeInv
    PROVE  /\ params.halfWeight \in Nat \ {0} /\ params.weightCap \in Nat \ {0}
           /\ params.consumerWeightCap \in Nat /\ params.consumerWeightCap <= MaxBudget
           /\ params.decayHalfLife \in Nat \ {0} /\ params.weightPerFeeUnit \in Nat
           /\ params.livenessHaircutBps \in Bps /\ params.verificationHaircutBps \in Bps
           /\ now \in Nat \ {0} /\ MaxBudget \in Nat
<1>1. params \in Params /\ now \in Nat /\ now # 0
  BY DEF ShapeInv, EngineTypeOK
<1>2. /\ params.halfWeight # 0 /\ params.weightCap # 0 /\ params.decayHalfLife # 0
      /\ params.livenessHaircutBps <= 10000 /\ params.verificationHaircutBps <= 10000
      /\ params.consumerWeightCap <= MaxBudget
  BY DEF ShapeInv, LegalParameters
<1>3. params.livenessHaircutBps \in Bps /\ params.verificationHaircutBps \in Bps
  BY <1>1, <1>2, BpsRange DEF Params
<1> QED
  BY <1>1, <1>2, <1>3, MaxBudgetAssumption DEF Params

\* The budget that is left counts no more than was spent.
LEMMA UsedBound ==
    ASSUME PowersOfTwo, ShapeInv, NEW a \in Agents, NEW c \in Consumers
    PROVE  /\ budgets[a][c].used \in Nat /\ budgets[a][c].used <= MaxBudget
           /\ UsedNow(a, c) \in Nat /\ UsedNow(a, c) <= budgets[a][c].used
<1>1. /\ budgets[a][c] \in Budget
      /\ budgets[a][c].lastAt <= now
  BY DEF ShapeInv, EngineTypeOK
<1>2. /\ budgets[a][c].used \in Nat /\ budgets[a][c].used <= MaxBudget
      /\ now - budgets[a][c].lastAt \in Nat /\ params.decayHalfLife \in Nat \ {0}
  BY <1>1, ParamTypes DEF Budget
<1>3. fade(budgets[a][c].used, now - budgets[a][c].lastAt, params.decayHalfLife)
        \in 0 .. budgets[a][c].used
  BY <1>2, ShrunkBound DEF fade
<1> QED
  BY <1>2, <1>3 DEF UsedNow

\* A report weighs no more than the budget and the voice leave it.
LEMMA GrantedBound ==
    ASSUME PowersOfTwo, ShapeInv, NEW a \in Agents, NEW c \in Consumers, NEW n \in Nat, NEW f \in Nat
    PROVE  /\ Granted(a, c, n, f) \in Nat
           /\ VoiceAfterFee(c, f) \in Nat
           /\ params.weightPerFeeUnit # 0 => Granted(a, c, n, f) <= VoiceAfterFee(c, f)
           /\ params.consumerWeightCap # 0 =>
                \/ Granted(a, c, n, f) = 0
                \/ UsedNow(a, c) + Granted(a, c, n, f) <= params.consumerWeightCap
<1>1. Lesser(n, params.weightCap) \in Nat
  BY ParamTypes DEF Lesser
<1>2. PICK w : w = WithinBudget(a, c, Lesser(n, params.weightCap))
  OBVIOUS
<1>3. /\ w \in Nat
      /\ params.consumerWeightCap # 0 =>
           w = 0 \/ UsedNow(a, c) + w <= params.consumerWeightCap
  BY <1>1, <1>2, ParamTypes, UsedBound DEF WithinBudget, Lesser
<1>4. VoiceAfterFee(c, f) \in Nat
  <2>1. voice[c] \in Nat /\ f * params.weightPerFeeUnit \in Nat
    BY ParamTypes DEF ShapeInv, EngineTypeOK
  <2> QED
    BY <2>1 DEF VoiceAfterFee
<1>5. Granted(a, c, n, f) = WithinVoice(VoiceAfterFee(c, f), w)
  BY <1>2 DEF Granted
<1>6. /\ Granted(a, c, n, f) \in Nat /\ Granted(a, c, n, f) <= w
      /\ params.weightPerFeeUnit # 0 => Granted(a, c, n, f) <= VoiceAfterFee(c, f)
  BY <1>3, <1>4, <1>5 DEF WithinVoice, Lesser
<1> QED
  BY <1>3, <1>4, <1>6, UsedBound, ParamTypes

LEMMA ScoreNowType ==
    ASSUME PowersOfTwo, ShapeInv, NEW a \in Agents
    PROVE  ScoreNow(records[a]) \in Scores
<1>1. /\ records[a] \in Record /\ records[a].lastUpdateAt <= now
  BY DEF ShapeInv, EngineTypeOK
<1>2. /\ records[a].score \in Scores /\ now - records[a].lastUpdateAt \in Nat
  BY <1>1, ParamTypes DEF Record
<1> QED
  BY <1>2, ParamTypes, DecayType DEF ScoreNow

LEMMA InitShape == Init => ShapeInv
<1> SUFFICES ASSUME Init PROVE ShapeInv
  OBVIOUS
<1>1. 0 \in Scores
  BY ScoreRange
<1>2. NoRecord \in Record
  BY <1>1 DEF NoRecord, Record
<1>3. NoBudget \in Budget
  BY MaxBudgetAssumption DEF NoBudget, Budget
<1>4. EngineTypeOK
  BY <1>2, <1>3, EngineParamsAssumption DEF Init, EngineInit, EngineTypeOK
<1> QED
  BY <1>4, EngineParamsAssumption
     DEF Init, EngineInit, ShapeInv, NoRecord, NoBudget

LEMMA InitAgentShape ==
    ASSUME ShapeInv, NEW a \in Agents, InitAgent(a)
    PROVE  ShapeInv'
<1>1. NEUTRAL \in Scores
  BY ScoreRange DEF NEUTRAL
<1>2. records[a] \in Record /\ now \in Nat
  BY DEF ShapeInv, EngineTypeOK
<1>3. /\ Begun(records[a]) \in Record
      /\ Begun(records[a]).lastUpdateAt = now
  BY <1>1, <1>2 DEF Begun, Record
<1>4. /\ records' = [records EXCEPT ![a] = Begun(records[a])]
      /\ UNCHANGED <<budgets, voice, params, reports, now>>
  BY DEF InitAgent, initAgent
<1> HIDE DEF Begun
<1>5. /\ records' \in [Agents -> Record]
      /\ \A b \in Agents : records'[b].lastUpdateAt <= now
  BY <1>2, <1>3, <1>4 DEF ShapeInv, EngineTypeOK
<1> QED
  BY <1>4, <1>5 DEF ShapeInv, EngineTypeOK, LegalParameters

LEMMA RecordFaultShape ==
    ASSUME PowersOfTwo, ShapeInv, NEW a \in Agents, NEW kind \in FaultKinds, RecordFault(a, kind)
    PROVE  ShapeInv'
<1>1. haircut(ScoreNow(records[a]), HaircutBps(kind)) \in Scores
  <2>1. HaircutBps(kind) \in Bps
    BY ParamTypes DEF HaircutBps
  <2> QED
    BY <2>1, ScoreNowType, HaircutType
<1>2. records[a] \in Record /\ now \in Nat
  BY DEF ShapeInv, EngineTypeOK
<1>3. /\ Faulted(records[a], kind) \in Record
      /\ Faulted(records[a], kind).lastUpdateAt = now
  <2>1. PICK score : score = haircut(ScoreNow(records[a]), HaircutBps(kind))
    OBVIOUS
  <2>2. Faulted(records[a], kind) =
          [records[a] EXCEPT !.score = score, !.lastUpdateAt = now, !.faults = @ + 1]
    BY <2>1, Zenon DEF Faulted
  <2>3. score \in Scores
    BY <1>1, <2>1
  <2>4. PICK rec \in Record : rec = records[a]
    BY <1>2
  <2>5. [rec EXCEPT !.score = score, !.lastUpdateAt = now, !.faults = rec.faults + 1] \in Record
    <3>1. PICK m \in Nat : m = rec.faults + 1
      BY DEF Record
    <3>2. [rec EXCEPT !.score = score, !.lastUpdateAt = now, !.faults = m] \in Record
      BY <1>2, <2>3 DEF Record
    <3> QED
      BY <3>1, <3>2
  <2> QED
    BY <2>2, <2>4, <2>5 DEF Record
<1>4. /\ records' = [records EXCEPT ![a] = Faulted(records[a], kind)]
      /\ UNCHANGED <<budgets, voice, params, reports, now>>
  BY DEF RecordFault, recordFault
<1>5. /\ records' \in [Agents -> Record]
      /\ \A b \in Agents : records'[b].lastUpdateAt <= now
  BY <1>2, <1>3, <1>4 DEF ShapeInv, EngineTypeOK
<1> QED
  BY <1>4, <1>5 DEF ShapeInv, EngineTypeOK, LegalParameters

\* The entry a report leaves in the history.
Reported(a, c, n, f) ==
    [agent |-> a, consumer |-> c, weight |-> Granted(a, c, n, f),
     priced |-> params.weightPerFeeUnit # 0,
     bought |-> f * params.weightPerFeeUnit, at |-> now,
     cap |-> params.consumerWeightCap, halfLife |-> params.decayHalfLife]

LEMMA ReportedType ==
    ASSUME PowersOfTwo, ShapeInv, NEW a \in Agents, NEW c \in Consumers, NEW n \in Nat, NEW f \in Nat
    PROVE  Reported(a, c, n, f) \in Report
<1>1. Granted(a, c, n, f) \in Nat /\ f * params.weightPerFeeUnit \in Nat
  <2>1. params.weightPerFeeUnit \in Nat
    BY ParamTypes
  <2>2. f * params.weightPerFeeUnit \in Nat
    BY <2>1
  <2> QED
    BY <2>2, GrantedBound
<1> QED
  BY <1>1, ParamTypes DEF Reported, Report

LEMMA SpendShape ==
    ASSUME PowersOfTwo, ShapeInv, NEW a \in Agents, NEW c \in Consumers, NEW n \in Nat, NEW f \in Nat,
           Spend(a, c, n, f), UNCHANGED now
    PROVE  /\ voice' \in [Consumers -> Nat]
           /\ budgets' \in [Agents -> [Consumers -> Budget]]
           /\ \A b \in Agents, d \in Consumers : budgets'[b][d].lastAt <= now
<1>1. PICK w : w = Granted(a, c, n, f)
  OBVIOUS
<1>2. /\ w \in Nat /\ VoiceAfterFee(c, f) \in Nat
      /\ params.weightPerFeeUnit # 0 => w <= VoiceAfterFee(c, f)
  BY <1>1, GrantedBound
<1>3. voice \in [Consumers -> Nat] /\ budgets \in [Agents -> [Consumers -> Budget]]
      /\ \A b \in Agents, d \in Consumers : budgets[b][d].lastAt <= now
  BY DEF ShapeInv, EngineTypeOK
<1>4. voice' \in [Consumers -> Nat]
  <2>1. VoiceAfterFee(c, f) - (IF params.weightPerFeeUnit = 0 THEN 0 ELSE w) \in Nat
    BY <1>2
  <2>2. voice' = [voice EXCEPT ![c] = VoiceAfterFee(c, f)
                                        - (IF params.weightPerFeeUnit = 0 THEN 0 ELSE w)]
    BY <1>1 DEF Spend
  <2> QED
    BY <1>3, <2>1, <2>2
<1>5. CASE params.consumerWeightCap = 0
  BY <1>3, <1>4, <1>5 DEF Spend
<1>6. CASE params.consumerWeightCap # 0
  <2>1. PICK spent : spent = [used |-> UsedNow(a, c) + w, lastAt |-> now]
    OBVIOUS
  <2>2. spent \in Budget /\ spent.lastAt = now
    <3>1. UsedNow(a, c) + w \in Nat /\ UsedNow(a, c) + w <= MaxBudget
      <4>1. w = 0 \/ UsedNow(a, c) + w <= params.consumerWeightCap
        BY <1>1, <1>6, GrantedBound
      <4>2. /\ UsedNow(a, c) \in Nat /\ UsedNow(a, c) <= budgets[a][c].used
            /\ budgets[a][c].used \in Nat /\ budgets[a][c].used <= MaxBudget
        BY UsedBound
      <4> QED
        BY <1>2, <4>1, <4>2, ParamTypes
    <3> QED
      BY <2>1, <3>1, ParamTypes DEF Budget
  <2>3. budgets' = [budgets EXCEPT ![a] = [budgets[a] EXCEPT ![c] = spent]]
    BY <1>1, <1>6, <2>1 DEF Spend
  <2>4. budgets[a] \in [Consumers -> Budget] /\ now \in Nat
    BY <1>3, ParamTypes
  <2> QED
    BY <1>3, <1>4, <2>2, <2>3, <2>4
<1> QED
  BY <1>5, <1>6

LEMMA RecordOutcomeShape ==
    ASSUME PowersOfTwo, ShapeInv, NEW a \in Agents, NEW c \in Consumers, NEW o \in Outcomes,
           NEW n \in Notionals, NEW t \in Tolerances, NEW f \in ProtocolFees,
           RecordOutcome(a, c, o, n, t, f)
    PROVE  ShapeInv'
<1>1. o \in Outcome /\ n \in Nat /\ t \in Nat /\ f \in Nat
  BY ReportsAssumption
<1>2. PICK q, w : q = quality(o, t) /\ w = Granted(a, c, n, f)
  OBVIOUS
<1>3. /\ recordOutcome(a, c, o, n, t, f)
      /\ reports' = Append(reports, Reported(a, c, n, f))
      /\ UNCHANGED <<params, now>>
  BY DEF RecordOutcome, recordOutcome, Reported
<1>4. records' = [records EXCEPT ![a] = Observed(records[a], q, w)]
  BY <1>2, <1>3 DEF recordOutcome
<1>5. /\ Observed(records[a], q, w) \in Record
      /\ Observed(records[a], q, w).lastUpdateAt = now
  <2>1. PICK score : score = observe(ScoreNow(records[a]), q, w, params.halfWeight)
    OBVIOUS
  <2>2. score \in Scores
    BY <1>1, <1>2, <2>1, QualityType, GrantedBound, ScoreNowType, ParamTypes, ObserveType
  <2>3. Observed(records[a], q, w) =
          [records[a] EXCEPT !.score = score, !.lastUpdateAt = now, !.lastActiveAt = now,
                             !.settledExecutions = @ + 1]
    BY <2>1, Zenon DEF Observed
  <2>4. records[a] \in Record /\ now \in Nat
    BY DEF ShapeInv, EngineTypeOK
  <2>5. PICK rec \in Record : rec = records[a]
    BY <2>4
  <2>6. [rec EXCEPT !.score = score, !.lastUpdateAt = now, !.lastActiveAt = now,
                    !.settledExecutions = rec.settledExecutions + 1] \in Record
    <3>1. PICK m \in Nat : m = rec.settledExecutions + 1
      BY DEF Record
    <3>2. [rec EXCEPT !.score = score, !.lastUpdateAt = now, !.lastActiveAt = now,
                      !.settledExecutions = m] \in Record
      BY <2>2, <2>4 DEF Record
    <3> QED
      BY <3>1, <3>2
  <2> QED
    BY <2>3, <2>5, <2>6 DEF Record
<1>6. /\ records' \in [Agents -> Record]
      /\ \A b \in Agents : records'[b].lastUpdateAt <= now
  BY <1>4, <1>5, ParamTypes DEF ShapeInv, EngineTypeOK
<1>7. /\ voice' \in [Consumers -> Nat]
      /\ budgets' \in [Agents -> [Consumers -> Budget]]
      /\ \A b \in Agents, d \in Consumers : budgets'[b][d].lastAt <= now
  BY <1>1, <1>3, SpendShape DEF recordOutcome
<1>8. /\ reports' \in Seq(Report)
      /\ \A i \in DOMAIN reports' : reports'[i].at <= now
  <2>1. PICK e : e = Reported(a, c, n, f) /\ e \in Report /\ e.at = now
    <3>1. Reported(a, c, n, f).at = now
      BY DEF Reported
    <3> QED
      BY <1>1, <3>1, ReportedType
  <2>2. reports \in Seq(Report) /\ \A i \in DOMAIN reports : reports[i].at <= now
    BY DEF ShapeInv
  <2> QED
    BY <1>3, <2>1, <2>2, ParamTypes
<1> QED
  BY <1>3, <1>6, <1>7, <1>8 DEF ShapeInv, EngineTypeOK, LegalParameters

LEMMA ShapeNext == PowersOfTwo /\ ShapeInv /\ [Next]_allVars => ShapeInv'
<1> SUFFICES ASSUME PowersOfTwo, ShapeInv, [Next]_allVars PROVE ShapeInv'
  OBVIOUS
<1>1. ASSUME NEW p \in ParamChoices, SetParameters(p) PROVE ShapeInv'
  <2>1. p \in Params
    BY EngineParamsAssumption
  <2> QED
    BY <1>1, <2>1 DEF SetParameters, setParameters, ShapeInv, EngineTypeOK, LegalParameters
<1>2. CASE Tick /\ UNCHANGED <<engineVars, historyVars>>
  <2>1. now' = now + 1 /\ UNCHANGED <<records, budgets, voice, params, reports>>
    BY <1>2 DEF Tick, engineVars, historyVars
  <2>2. \A a \in Agents : records[a].lastUpdateAt \in Nat
    BY DEF ShapeInv, EngineTypeOK, Record
  <2>3. \A a \in Agents, c \in Consumers : budgets[a][c].lastAt \in Nat
    BY DEF ShapeInv, EngineTypeOK, Budget
  <2>4. \A i \in DOMAIN reports : reports[i].at \in Nat
    <3>1. \A i \in DOMAIN reports : reports[i] \in Report
      BY DEF ShapeInv
    <3> QED
      BY <3>1 DEF Report
  <2>5. \A x \in Nat : x <= now => x <= now + 1
    BY ParamTypes
  <2> QED
    BY <2>1, <2>2, <2>3, <2>4, <2>5, ParamTypes DEF ShapeInv, EngineTypeOK, LegalParameters
<1>3. CASE UNCHANGED allVars
  BY <1>3 DEF allVars, vars, engineVars, historyVars, ShapeInv, EngineTypeOK, LegalParameters
<1> QED
  BY <1>1, <1>2, <1>3, InitAgentShape, RecordFaultShape, RecordOutcomeShape DEF Next

-----------------------------------------------------------------------------
(* Voice.                                                                  *)

Weight(S) == SumOver([i \in S |-> reports[i].weight], S)
Bought(S) == SumOver([i \in S |-> reports[i].bought], S)
Priced(c) == {i \in By(c) : reports[i].priced}

LEMMA Totals ==
    \A S : /\ TotalOf(LAMBDA r : r.weight, S) = Weight(S)
           /\ TotalOf(LAMBDA r : r.bought, S) = Bought(S)
BY DEF TotalOf, Weight, Bought

LEMMA SumAppend ==
    ASSUME NEW S, IsFiniteSet(S), NEW n, n \notin S, NEW f, NEW g,
           \A i \in S : f[i] \in Nat /\ g[i] = f[i], g[n] \in Nat
    PROVE  SumOver(g, S \cup {n}) = SumOver(f, S) + g[n]
<1>1. SumOver(g, S \cup {n}) = SumOver(g, S) + g[n]
  BY SumAdd
<1>2. SumOver(g, S) = SumOver(f, S)
  BY SumCongruence
<1> QED
  BY <1>1, <1>2

LEMMA SomeReports ==
    ASSUME reports \in Seq(Report), NEW S \in SUBSET DOMAIN reports
    PROVE  /\ IsFiniteSet(S)
           /\ \A i \in S : reports[i] \in Report
           /\ Weight(S) \in Nat /\ Bought(S) \in Nat
<1>1. IsFiniteSet(S)
  <2>1. Len(reports) \in Nat /\ DOMAIN reports = 1 .. Len(reports)
    OBVIOUS
  <2>2. IsFiniteSet(1 .. Len(reports))
    <3>1. 1 \in Int /\ Len(reports) \in Int
      BY <2>1
    <3> QED
      BY <3>1, FS_Interval
  <2> QED
    BY <2>1, <2>2, FS_Subset
<1>2. \A i \in S : reports[i] \in Report
  OBVIOUS
<1>3. \A i \in S : /\ [k \in S |-> reports[k].weight][i] \in Nat
                   /\ [k \in S |-> reports[k].bought][i] \in Nat
  BY <1>2 DEF Report
<1> QED
  BY <1>1, <1>2, <1>3, SumType DEF Weight, Bought

\* A report more: the totals of the others stay, and with it they grow by it.
LEMMA OneMoreReport ==
    ASSUME reports \in Seq(Report), NEW e \in Report, reports' = Append(reports, e),
           NEW S \in SUBSET DOMAIN reports, NEW n, n = Len(reports) + 1
    PROVE  /\ n \notin DOMAIN reports /\ DOMAIN reports' = DOMAIN reports \cup {n}
           /\ reports'[n] = e /\ \A i \in DOMAIN reports : reports'[i] = reports[i]
           /\ Weight(S)' = Weight(S) /\ Bought(S)' = Bought(S)
           /\ Weight(S \cup {n})' = Weight(S) + e.weight
           /\ Bought(S \cup {n})' = Bought(S) + e.bought
<1>1. /\ n \notin DOMAIN reports /\ DOMAIN reports' = DOMAIN reports \cup {n}
      /\ reports'[n] = e /\ \A i \in DOMAIN reports : reports'[i] = reports[i]
  OBVIOUS
<1>2. /\ IsFiniteSet(S) /\ n \notin S
      /\ \A i \in S : reports[i] \in Report /\ reports'[i] = reports[i]
  BY <1>1, SomeReports
<1>3. Weight(S)' = Weight(S)
  BY <1>2, SumCongruence DEF Weight
<1>4. Bought(S)' = Bought(S)
  BY <1>2, SumCongruence DEF Bought
<1>5. Weight(S \cup {n})' = Weight(S) + e.weight
  <2>1. PICK f, g : /\ f = [i \in S |-> reports[i].weight]
                    /\ g = [i \in S \cup {n} |-> reports'[i].weight]
    OBVIOUS
  <2>2. /\ \A i \in S : f[i] \in Nat /\ g[i] = f[i]
        /\ g[n] = e.weight /\ e.weight \in Nat
    BY <1>1, <1>2, <2>1 DEF Report
  <2>3. SumOver(g, S \cup {n}) = SumOver(f, S) + g[n]
    <3>1. g[n] \in Nat
      BY <2>2
    <3>2. IsFiniteSet(S) /\ n \notin S /\ \A i \in S : f[i] \in Nat /\ g[i] = f[i]
      BY <1>2, <2>2
    <3> QED
      BY ONLY <3>1, <3>2, SumAppend
  <2> QED
    BY <2>1, <2>2, <2>3 DEF Weight
<1>6. Bought(S \cup {n})' = Bought(S) + e.bought
  <2>1. PICK f, g : /\ f = [i \in S |-> reports[i].bought]
                    /\ g = [i \in S \cup {n} |-> reports'[i].bought]
    OBVIOUS
  <2>2. /\ \A i \in S : f[i] \in Nat /\ g[i] = f[i]
        /\ g[n] = e.bought /\ e.bought \in Nat
    BY <1>1, <1>2, <2>1 DEF Report
  <2>3. SumOver(g, S \cup {n}) = SumOver(f, S) + g[n]
    <3>1. g[n] \in Nat
      BY <2>2
    <3>2. IsFiniteSet(S) /\ n \notin S /\ \A i \in S : f[i] \in Nat /\ g[i] = f[i]
      BY <1>2, <2>2
    <3> QED
      BY ONLY <3>1, <3>2, SumAppend
  <2> QED
    BY <2>1, <2>2, <2>3 DEF Bought
<1> QED
  BY <1>1, <1>3, <1>4, <1>5, <1>6

\* What is inductive: every consumer's account balances.
VoiceInv == \A c \in Consumers : voice[c] + Weight(Priced(c)) = Bought(By(c))

LEMMA VoiceStep ==
    ASSUME PowersOfTwo, ShapeInv, VoiceInv, NEW a \in Agents, NEW c \in Consumers,
           NEW n \in Nat, NEW f \in Nat, Spend(a, c, n, f),
           reports' = Append(reports, Reported(a, c, n, f))
    PROVE  VoiceInv'
<1>1. PICK e : e = Reported(a, c, n, f)
  OBVIOUS
<1>2. PICK m : m = Len(reports) + 1
  OBVIOUS
<1>3. e \in Report /\ reports \in Seq(Report) /\ reports' = Append(reports, e)
  BY <1>1, ReportedType DEF ShapeInv
<1>4. /\ e.consumer = c /\ e.weight = Granted(a, c, n, f)
      /\ e.priced = (params.weightPerFeeUnit # 0) /\ e.bought = f * params.weightPerFeeUnit
  BY <1>1 DEF Reported
<1>5. /\ m \notin DOMAIN reports /\ DOMAIN reports' = DOMAIN reports \cup {m}
      /\ reports'[m] = e /\ \A i \in DOMAIN reports : reports'[i] = reports[i]
  BY <1>2, <1>3, OneMoreReport
<1>6. /\ voice \in [Consumers -> Nat] /\ params.weightPerFeeUnit \in Nat
      /\ e.weight \in Nat /\ e.bought \in Nat
  BY <1>3, ParamTypes DEF ShapeInv, EngineTypeOK, Report
<1>7. voice' = [voice EXCEPT ![c] = VoiceAfterFee(c, f)
                                      - (IF params.weightPerFeeUnit = 0 THEN 0 ELSE e.weight)]
  BY <1>4 DEF Spend
<1> SUFFICES ASSUME NEW d \in Consumers
             PROVE  voice'[d] + Weight(Priced(d))' = Bought(By(d))'
  BY DEF VoiceInv
<1>8. PICK P, B : /\ P = Priced(d) /\ B = By(d) /\ P \subseteq DOMAIN reports /\ B \subseteq DOMAIN reports
  BY DEF Priced, By
<1>9. /\ Weight(P)' = Weight(P) /\ Bought(B)' = Bought(B)
      /\ Weight(P \cup {m})' = Weight(P) + e.weight
      /\ Bought(B \cup {m})' = Bought(B) + e.bought
      /\ Weight(P) \in Nat /\ Bought(B) \in Nat
  BY <1>2, <1>3, <1>8, OneMoreReport, SomeReports
<1>10. voice[d] + Weight(P) = Bought(B)
  BY <1>8 DEF VoiceInv
<1>11. CASE d # c
  <2>1. Priced(d)' = P /\ By(d)' = B
    BY <1>4, <1>5, <1>8, <1>11 DEF Priced, By
  <2>2. Weight(Priced(d))' = Weight(P)' /\ Bought(By(d))' = Bought(B)'
    BY <2>1 DEF Weight, Bought
  <2>3. voice'[d] = voice[d]
    BY <1>6, <1>7, <1>11
  <2> QED
    BY <1>9, <1>10, <2>2, <2>3
<1>12. CASE d = c /\ params.weightPerFeeUnit = 0
  <2>1. Priced(d)' = P /\ By(d)' = B \cup {m}
    <3>1. ~e.priced /\ e.consumer = c
      BY <1>4, <1>12
    <3>2. Priced(d)' = P
      BY <1>5, <1>8, <3>1 DEF Priced, By
    <3>3. By(d)' = B \cup {m}
      BY <1>5, <1>8, <1>12, <3>1 DEF By
    <3> QED
      BY <3>2, <3>3
  <2>2. Weight(Priced(d))' = Weight(P)' /\ Bought(By(d))' = Bought(B \cup {m})'
    BY <2>1 DEF Weight, Bought
  <2>3. e.bought = 0 /\ voice'[d] = voice[d]
    <3>1. f * params.weightPerFeeUnit = 0
      BY <1>12
    <3>2. VoiceAfterFee(c, f) = voice[c]
      BY <1>6, <3>1 DEF VoiceAfterFee
    <3> QED
      BY <1>4, <1>6, <1>7, <1>12, <3>1, <3>2
  <2> QED
    BY <1>6, <1>9, <1>10, <2>2, <2>3
<1>13. CASE d = c /\ params.weightPerFeeUnit # 0
  <2>1. Priced(d)' = P \cup {m} /\ By(d)' = B \cup {m}
    <3>1. e.priced
      BY <1>4, <1>13
    <3> QED
      BY <1>4, <1>5, <1>8, <1>13, <3>1 DEF Priced, By
  <2>2. Weight(Priced(d))' = Weight(P \cup {m})' /\ Bought(By(d))' = Bought(B \cup {m})'
    BY <2>1 DEF Weight, Bought
  <2>3. voice'[d] = voice[d] + e.bought - e.weight
    <3>1. VoiceAfterFee(c, f) = voice[c] + e.bought
      BY <1>4 DEF VoiceAfterFee
    <3> QED
      BY <1>6, <1>7, <1>13, <3>1
  <2>4. voice[d] \in Nat
    BY <1>6
  <2> QED
    BY <1>6, <1>9, <1>10, <2>2, <2>3, <2>4
<1> QED
  BY <1>11, <1>12, <1>13

LEMMA VoiceNext == PowersOfTwo /\ ShapeInv /\ VoiceInv /\ [Next]_allVars => VoiceInv'
<1> SUFFICES ASSUME PowersOfTwo, ShapeInv, VoiceInv, [Next]_allVars PROVE VoiceInv'
  OBVIOUS
<1>1. ASSUME NEW a \in Agents, NEW c \in Consumers, NEW o \in Outcomes, NEW n \in Notionals,
             NEW t \in Tolerances, NEW f \in ProtocolFees, RecordOutcome(a, c, o, n, t, f)
      PROVE  VoiceInv'
  <2>1. n \in Nat /\ f \in Nat
    BY ReportsAssumption
  <2>2. Spend(a, c, n, f) /\ reports' = Append(reports, Reported(a, c, n, f))
    BY <1>1 DEF RecordOutcome, recordOutcome, Reported
  <2> QED
    BY <2>1, <2>2, VoiceStep
<1>2. CASE UNCHANGED <<voice, reports>>
  BY <1>2 DEF VoiceInv, Weight, Bought, Priced, By
<1> QED
  BY <1>1, <1>2 DEF Next, InitAgent, initAgent, RecordFault, recordFault, SetParameters,
     setParameters, engineVars, historyVars, vars, allVars

\* Voice is a prepaid account, for every consumer and whatever governance does to
\* its price: what was bought is what is left and what priced reports weighed.
THEOREM VoiceAlwaysPays == ASSUME PowersOfTwo PROVE Spec => []VoicePaysForWeight
<1>1. Init => ShapeInv /\ VoiceInv
  <2> SUFFICES ASSUME Init PROVE ShapeInv /\ VoiceInv
    OBVIOUS
  <2>1. \A c \in Consumers : By(c) = {} /\ Priced(c) = {} /\ voice[c] = 0
    BY DEF Init, EngineInit, By, Priced
  <2>2. Weight({}) = 0 /\ Bought({}) = 0
    BY SumEmpty DEF Weight, Bought
  <2> QED
    BY <2>1, <2>2, InitShape DEF VoiceInv
<1>2. ShapeInv /\ VoiceInv /\ [Next]_allVars => (ShapeInv /\ VoiceInv)'
  BY ShapeNext, VoiceNext
<1>3. ShapeInv /\ VoiceInv => VoicePaysForWeight
  BY Totals DEF ShapeInv, VoiceInv, VoicePaysForWeight, Priced
<1> QED
  BY <1>1, <1>2, <1>3, PTL DEF Spec

-----------------------------------------------------------------------------
(* Influence.                                                              *)

\* Within a half-life a budget fades at the linear rate: at most that fast.
LEMMA FadeLoss ==
    ASSUME PowersOfTwo, NEW u \in Nat, NEW e \in Nat, NEW h \in Nat \ {0}, e < h
    PROVE  /\ fade(u, e, h) \in 0 .. u
           /\ 2 * h * u <= 2 * h * fade(u, e, h) + u * e
<1>1. fade(u, e, h) \in 0 .. u
  BY ShrunkBound DEF fade
<1>2. e \div h = 0 /\ e % h = e
  OBVIOUS
<1>3. u \div 2 ^ 0 = u
  <2>1. 2 ^ 0 = 1
    OBVIOUS
  <2> QED
    BY <2>1
<1>4. fade(u, e, h) = u - (u * e) \div (2 * h)
  <2>1. fade(u, e, h) =
          IF e \div h >= 128 THEN 0
          ELSE u \div 2 ^ (e \div h) - ((u \div 2 ^ (e \div h)) * (e % h)) \div (2 * h)
    BY Zenon DEF fade, Shrunk
  <2>2. fade(u, e, h) =
          IF 0 >= 128 THEN 0 ELSE u \div 2 ^ 0 - ((u \div 2 ^ 0) * e) \div (2 * h)
    BY <1>2, <2>1, Zenon
  <2>3. fade(u, e, h) = IF 0 >= 128 THEN 0 ELSE u - (u * e) \div (2 * h)
    BY <1>3, <2>2, Zenon
  <2> QED
    BY <2>3
<1>5. \A p \in Nat, d \in Nat \ {0} : d * (p \div d) <= p /\ p \div d \in Nat
  OBVIOUS
<1>6. PICK p, d : p = u * e /\ d = 2 * h
  OBVIOUS
<1>7. p \in Nat /\ d \in Nat \ {0}
  BY <1>6
<1>8. PICK q \in Nat : q = p \div d /\ d * q <= p
  BY <1>5, <1>7
<1>9. d * (u - q) = d * u - d * q
  BY <1>7, <1>8
<1>10. d * u <= d * (u - q) + p
  <2>1. d * u \in Nat /\ d * q \in Nat
    BY <1>7, <1>8
  <2> QED
    BY <1>7, <1>8, <1>9, <2>1
<1> QED
  BY <1>1, <1>4, <1>6, <1>8, <1>10

\* What stands against the cap, when another report of weight w adds to it after
\* e: a total t of weight, u of it still in the budget, the rest faded over s.
LEMMA StandsLonger ==
    ASSUME NEW d \in Nat, NEW t \in Nat, NEW w \in Nat, NEW u \in Nat, NEW left \in Nat,
           NEW s \in Nat, NEW e \in Nat, NEW cap \in Nat,
           left <= u, d * u <= d * left + u * e, w = 0 \/ left + w <= cap,
           t = 0 \/ (u <= cap /\ d * t <= d * u + s * cap)
    PROVE  t + w = 0 \/ (left + w <= cap /\ d * (t + w) <= d * (left + w) + (s + e) * cap)
<1>1. d * (t + w) = d * t + d * w /\ d * (left + w) = d * left + d * w
      /\ (s + e) * cap = s * cap + e * cap
  OBVIOUS
<1>2. /\ d * t \in Nat /\ d * w \in Nat /\ d * u \in Nat /\ d * left \in Nat
      /\ s * cap \in Nat /\ e * cap \in Nat /\ u * e \in Nat
  OBVIOUS
<1>3. CASE t = 0
  <2>1. d * t = 0
    BY <1>3
  <2> QED
    BY <1>1, <1>2, <1>3, <2>1
<1>4. CASE t # 0
  <2>1. u <= cap /\ d * t <= d * u + s * cap
    BY <1>4
  <2>2. u * e <= e * cap
    BY <2>1
  <2>3. left + w <= cap
    BY <2>1
  <2> QED
    BY <1>1, <1>2, <2>1, <2>2, <2>3
<1> QED
  BY <1>3, <1>4

Pair(a, c) == By(c) \cap Against(a)
From(a, c, i) == {k \in Pair(a, c) : i <= k}

SameTerms(i, S) ==
    /\ reports[i].cap # 0
    /\ \A k \in S : reports[k].cap = reports[i].cap /\ reports[k].halfLife = reports[i].halfLife

\* What a consumer's reports on an agent weighed since the i-th, against the
\* budget on record: no more than is used of it and has faded since.
StandsFor(a, c, i) ==
    LET total == Weight(From(a, c, i))
        cap == reports[i].cap
        halfLife == reports[i].halfLife
        span == budgets[a][c].lastAt - reports[i].at
    IN  /\ reports[i].at <= budgets[a][c].lastAt
        /\ span < halfLife =>
             \/ total = 0
             \/ /\ budgets[a][c].used <= cap
                /\ 2 * halfLife * total <= 2 * halfLife * budgets[a][c].used + span * cap

\* What is inductive: it holds from every report since which the terms stayed.
InfluenceInv ==
    /\ \A i \in DOMAIN reports : reports[i].at # 0
    /\ \A a \in Agents, c \in Consumers : \A i \in Pair(a, c) :
         SameTerms(i, From(a, c, i)) => StandsFor(a, c, i)

\* One report more: what it does to the reports of its consumer on its agent.
LEMMA PairStep ==
    ASSUME PowersOfTwo, ShapeInv, NEW a \in Agents, NEW c \in Consumers,
           NEW n \in Nat, NEW f \in Nat,
           reports' = Append(reports, Reported(a, c, n, f)),
           NEW m, m = Len(reports) + 1
    PROVE  /\ m \in Nat /\ DOMAIN reports = 1 .. m - 1
           /\ DOMAIN reports' = DOMAIN reports \cup {m}
           /\ reports'[m] = Reported(a, c, n, f)
           /\ \A i \in DOMAIN reports : reports'[i] = reports[i]
           /\ \A b \in Agents, d \in Consumers :
                Pair(b, d)' = IF b = a /\ d = c THEN Pair(b, d) \cup {m} ELSE Pair(b, d)
<1>1. PICK e : e = Reported(a, c, n, f) /\ e \in Report /\ e.agent = a /\ e.consumer = c
  <2>1. Reported(a, c, n, f).agent = a /\ Reported(a, c, n, f).consumer = c
    BY DEF Reported
  <2> QED
    BY <2>1, ReportedType
<1>2. /\ m \in Nat /\ DOMAIN reports = 1 .. m - 1
      /\ DOMAIN reports' = DOMAIN reports \cup {m} /\ m \notin DOMAIN reports
      /\ reports'[m] = e /\ \A i \in DOMAIN reports : reports'[i] = reports[i]
  BY <1>1 DEF ShapeInv
<1>3. ASSUME NEW b \in Agents, NEW d \in Consumers
      PROVE  Pair(b, d)' = IF b = a /\ d = c THEN Pair(b, d) \cup {m} ELSE Pair(b, d)
  <2>1. By(d)' = IF d = c THEN By(d) \cup {m} ELSE By(d)
    BY <1>1, <1>2 DEF By
  <2>2. Against(b)' = IF b = a THEN Against(b) \cup {m} ELSE Against(b)
    BY <1>1, <1>2 DEF Against
  <2>3. m \notin By(d) /\ m \notin Against(b)
    BY <1>2 DEF By, Against
  <2> QED
    BY <2>1, <2>2, <2>3 DEF Pair
<1> QED
  BY <1>1, <1>2, <1>3

\* What the report leaves in the budget, when its terms cap the weight.
LEMMA BudgetStep ==
    ASSUME PowersOfTwo, ShapeInv, NEW a \in Agents, NEW c \in Consumers,
           NEW n \in Nat, NEW f \in Nat, Spend(a, c, n, f)
    PROVE  /\ \A b \in Agents, d \in Consumers : b # a \/ d # c => budgets'[b][d] = budgets[b][d]
           /\ params.consumerWeightCap # 0 =>
                budgets'[a][c] = [used |-> UsedNow(a, c) + Granted(a, c, n, f), lastAt |-> now]
<1>1. budgets \in [Agents -> [Consumers -> Budget]]
  BY DEF ShapeInv, EngineTypeOK
<1>2. CASE params.consumerWeightCap = 0
  BY <1>2 DEF Spend
<1>3. CASE params.consumerWeightCap # 0
  <2>1. PICK spent : spent = [used |-> UsedNow(a, c) + Granted(a, c, n, f), lastAt |-> now]
    OBVIOUS
  <2>2. budgets' = [budgets EXCEPT ![a] = [budgets[a] EXCEPT ![c] = spent]]
    BY <1>3, <2>1 DEF Spend
  <2> QED
    BY <1>1, <2>1, <2>2
<1> QED
  BY <1>2, <1>3

\* From the report's own point of view: it weighs what its budget now holds.
LEMMA FreshStands ==
    ASSUME PowersOfTwo, ShapeInv, NEW a \in Agents, NEW c \in Consumers,
           NEW n \in Nat, NEW f \in Nat, Spend(a, c, n, f),
           params.consumerWeightCap # 0
    PROVE  /\ budgets'[a][c].lastAt = now
           /\ budgets'[a][c].used = UsedNow(a, c) + Granted(a, c, n, f)
           /\ UsedNow(a, c) \in Nat /\ Granted(a, c, n, f) \in Nat
           /\ \/ Granted(a, c, n, f) = 0
              \/ budgets'[a][c].used <= params.consumerWeightCap
<1>1. budgets'[a][c] = [used |-> UsedNow(a, c) + Granted(a, c, n, f), lastAt |-> now]
  BY BudgetStep
<1>2. /\ UsedNow(a, c) \in Nat /\ Granted(a, c, n, f) \in Nat
      /\ Granted(a, c, n, f) = 0 \/ UsedNow(a, c) + Granted(a, c, n, f) <= params.consumerWeightCap
  BY UsedBound, GrantedBound
<1> QED
  BY <1>1, <1>2

LEMMA StandStep ==
    ASSUME PowersOfTwo, ShapeInv, InfluenceInv, NEW a \in Agents, NEW c \in Consumers,
           NEW n \in Nat, NEW f \in Nat, Spend(a, c, n, f),
           reports' = Append(reports, Reported(a, c, n, f)), UNCHANGED now,
           NEW b \in Agents, NEW d \in Consumers, NEW i, i \in Pair(b, d)',
           SameTerms(i, From(b, d, i))'
    PROVE  StandsFor(b, d, i)'
<1>1. PICK m, e : m = Len(reports) + 1 /\ e = Reported(a, c, n, f)
  OBVIOUS
<1>2. /\ m \in Nat /\ DOMAIN reports = 1 .. m - 1
      /\ DOMAIN reports' = DOMAIN reports \cup {m}
      /\ reports'[m] = e
      /\ \A k \in DOMAIN reports : reports'[k] = reports[k]
      /\ Pair(b, d)' = IF b = a /\ d = c THEN Pair(b, d) \cup {m} ELSE Pair(b, d)
  BY <1>1, PairStep
<1>3. /\ e \in Report /\ reports \in Seq(Report) /\ reports' = Append(reports, e)
      /\ e.weight = Granted(a, c, n, f) /\ e.at = now
      /\ e.cap = params.consumerWeightCap /\ e.halfLife = params.decayHalfLife
  <2>1. /\ Reported(a, c, n, f).weight = Granted(a, c, n, f) /\ Reported(a, c, n, f).at = now
        /\ Reported(a, c, n, f).cap = params.consumerWeightCap
        /\ Reported(a, c, n, f).halfLife = params.decayHalfLife
    BY DEF Reported
  <2> QED
    BY <1>1, <2>1, ReportedType DEF ShapeInv
<1>4. Pair(b, d) \subseteq DOMAIN reports
  BY DEF Pair, By
<1>5. PICK S : S = From(b, d, i) /\ S \subseteq DOMAIN reports
  BY <1>4 DEF From
<1>6. /\ Weight(S)' = Weight(S) /\ Weight(S \cup {m})' = Weight(S) + e.weight
      /\ Weight(S) \in Nat
  BY <1>1, <1>3, <1>5, OneMoreReport, SomeReports
<1>7. reports'[i].cap # 0
      /\ \A k \in From(b, d, i)' : /\ reports'[k].cap = reports'[i].cap
                                   /\ reports'[k].halfLife = reports'[i].halfLife
  BY DEF SameTerms
<1>8. CASE b # a \/ d # c
  <2>1. Pair(b, d)' = Pair(b, d)
    BY <1>2, <1>8
  <2>2. From(b, d, i)' = S /\ i \in DOMAIN reports
    BY <1>4, <1>5, <2>1 DEF From
  <2>3. SameTerms(i, S)
    BY <1>2, <1>5, <1>7, <2>2 DEF SameTerms
  <2>4. StandsFor(b, d, i)
    BY <1>5, <2>1, <2>3 DEF InfluenceInv
  <2>5. Weight(From(b, d, i))' = Weight(S)
    BY <1>6, <2>2 DEF Weight
  <2>6. budgets'[b][d] = budgets[b][d] /\ reports'[i] = reports[i]
    <3>1. \A x \in Agents, y \in Consumers : x # a \/ y # c => budgets'[x][y] = budgets[x][y]
      BY BudgetStep
    <3> QED
      BY <1>2, <1>8, <2>2, <3>1
  <2> QED
    BY <1>5, <2>4, <2>5, <2>6 DEF StandsFor
<1>9. CASE b = a /\ d = c /\ i = m
  <2>1. From(b, d, i)' = {} \cup {m}
    BY <1>2, <1>4, <1>9 DEF From
  <2>2. S = {}
    BY <1>2, <1>4, <1>5, <1>9 DEF From
  <2>3. Weight({}) = 0
    BY SumEmpty DEF Weight
  <2>4. Weight(From(b, d, i))' = e.weight
    <3>1. Weight(From(b, d, i))' = Weight(S \cup {m})'
      BY <2>1, <2>2 DEF Weight
    <3>2. e.weight \in Nat
      BY <1>3 DEF Report
    <3> QED
      BY <1>6, <2>2, <2>3, <3>1, <3>2
  <2>5. reports'[i] = e /\ params.consumerWeightCap # 0
    BY <1>2, <1>3, <1>7, <1>9
  <2>6. /\ budgets'[b][d].lastAt = now
        /\ budgets'[b][d].used = UsedNow(a, c) + e.weight
        /\ UsedNow(a, c) \in Nat /\ e.weight \in Nat
        /\ e.weight = 0 \/ budgets'[b][d].used <= params.consumerWeightCap
    BY <1>3, <1>9, <2>5, FreshStands
  <2>7. now \in Nat /\ e.cap \in Nat /\ e.halfLife \in Nat \ {0}
    BY <1>3, ParamTypes
  <2>8. budgets'[b][d].lastAt - reports'[i].at = 0
    BY <1>3, <2>5, <2>6, <2>7
  <2>9. 2 * e.halfLife * e.weight <= 2 * e.halfLife * budgets'[b][d].used + 0 * e.cap
    <3>1. PICK u, w, dd : u = UsedNow(a, c) /\ w = e.weight /\ dd = 2 * e.halfLife
      OBVIOUS
    <3>2. u \in Nat /\ w \in Nat /\ dd \in Nat
      BY <2>6, <2>7, <3>1
    <3>3. dd * (u + w) = dd * u + dd * w /\ dd * u \in Nat /\ dd * w \in Nat
      BY <3>2
    <3>4. dd * w <= dd * (u + w)
      BY <3>3
    <3>5. dd * w <= dd * (u + w) + 0 * e.cap
      <4>1. 0 * e.cap = 0
        BY <2>7
      <4> QED
        BY <3>3, <3>4, <4>1
    <3>6. budgets'[b][d].used = u + w
      BY <2>6, <3>1
    <3> QED
      BY <3>1, <3>5, <3>6
  <2> QED
    BY <1>3, <2>4, <2>5, <2>6, <2>7, <2>8, <2>9 DEF StandsFor
<1>10. CASE b = a /\ d = c /\ i # m
  <2>1. i \in Pair(a, c) /\ i \in DOMAIN reports /\ i <= m
    BY <1>2, <1>4, <1>10
  <2>2. From(b, d, i)' = S \cup {m}
    BY <1>2, <1>5, <1>10, <2>1 DEF From
  <2>3. /\ reports'[i] = reports[i] /\ SameTerms(i, S)
        /\ e.cap = reports[i].cap /\ e.halfLife = reports[i].halfLife /\ e.cap # 0
    BY <1>2, <1>5, <1>7, <2>1, <2>2 DEF SameTerms
  <2>4. StandsFor(a, c, i) /\ reports[i].at # 0
    BY <1>5, <1>10, <2>1, <2>3 DEF InfluenceInv
  <2>5. Weight(From(b, d, i))' = Weight(S) + e.weight
    <3>1. Weight(From(b, d, i))' = Weight(S \cup {m})'
      BY <2>2 DEF Weight
    <3> QED
      BY <1>6, <3>1
  <2>6. PICK cap, h, w, t, at, last, used, left :
          /\ cap = e.cap /\ h = e.halfLife /\ w = e.weight /\ t = Weight(S)
          /\ at = reports[i].at /\ last = budgets[a][c].lastAt
          /\ used = budgets[a][c].used /\ left = UsedNow(a, c)
    OBVIOUS
  <2>7. /\ cap \in Nat \ {0} /\ h \in Nat \ {0} /\ w \in Nat /\ t \in Nat
        /\ at \in Nat \ {0} /\ last \in Nat /\ used \in Nat /\ left \in Nat /\ now \in Nat
        /\ at <= last /\ last <= now /\ left <= used
    <3>1. reports[i] \in Report
      BY <2>1 DEF ShapeInv
    <3>2. budgets[a][c] \in Budget /\ budgets[a][c].lastAt <= now
      BY DEF ShapeInv, EngineTypeOK
    <3>3. at <= last
      BY <2>4, <2>6 DEF StandsFor
    <3> QED
      BY <1>3, <1>6, <2>3, <2>4, <2>6, <3>1, <3>2, <3>3, ParamTypes, UsedBound DEF Report, Budget
  <2>8. /\ budgets'[b][d].lastAt = now /\ budgets'[b][d].used = left + w
        /\ w = 0 \/ left + w <= cap
    <3>1. params.consumerWeightCap # 0 /\ params.consumerWeightCap = cap
      BY <1>3, <2>3, <2>6
    <3>2. /\ budgets'[a][c].lastAt = now
          /\ budgets'[a][c].used = UsedNow(a, c) + Granted(a, c, n, f)
          /\ \/ Granted(a, c, n, f) = 0
             \/ budgets'[a][c].used <= params.consumerWeightCap
      BY <3>1, FreshStands
    <3> QED
      BY <1>3, <1>10, <2>6, <3>1, <3>2
  <2>9. ASSUME now - at < h
        PROVE  t + w = 0 \/ (left + w <= cap /\ 2 * h * (t + w) <= 2 * h * (left + w) + (now - at) * cap)
    <3>1. PICK s, g : s = last - at /\ g = now - last
      OBVIOUS
    <3>2. s \in Nat /\ g \in Nat /\ s < h /\ g < h /\ now - at = s + g
      BY <2>7, <2>9, <3>1
    <3>3. t = 0 \/ (used <= cap /\ 2 * h * t <= 2 * h * used + s * cap)
      BY <1>5, <1>10, <2>3, <2>4, <2>6, <3>1, <3>2 DEF StandsFor
    <3>4. left = fade(used, g, h)
      BY <1>3, <2>6, <2>7, <3>1 DEF UsedNow
    <3>5. 2 * h * used <= 2 * h * left + used * g
      BY <2>7, <3>2, <3>4, FadeLoss
    <3>6. PICK dd \in Nat : dd = 2 * h
      BY <2>7
    <3>7. t = 0 \/ (used <= cap /\ dd * t <= dd * used + s * cap)
      BY <3>3, <3>6
    <3>8. dd * used <= dd * left + used * g
      BY <3>5, <3>6
    <3>9. t + w = 0 \/ (left + w <= cap /\ dd * (t + w) <= dd * (left + w) + (s + g) * cap)
      BY <2>7, <2>8, <3>2, <3>7, <3>8, StandsLonger
    <3> QED
      BY <3>2, <3>6, <3>9
  <2>10. /\ Weight(From(b, d, i))' = t + w /\ reports'[i].cap = cap
         /\ reports'[i].halfLife = h /\ reports'[i].at = at
    BY <2>3, <2>5, <2>6
  <2>11. at <= now
    BY <2>7
  <2> QED
    BY <2>8, <2>9, <2>10, <2>11 DEF StandsFor
<1> QED
  BY <1>8, <1>9, <1>10

\* What a consumer's reports on an agent weighed from the i-th to the j-th.
Within(a, c, i, j) == Pair(a, c) \cap (i .. j)

Bounded(a, c, i, j) ==
    LET span == reports[j].at - reports[i].at
        cap == reports[i].cap
        halfLife == reports[i].halfLife
    IN  i <= j /\ span < halfLife /\ SameTerms(i, Within(a, c, i, j))
        => 2 * halfLife * Weight(Within(a, c, i, j)) <= (2 * halfLife + span) * cap

AllBounded == \A a \in Agents, c \in Consumers : \A i, j \in Pair(a, c) : Bounded(a, c, i, j)

LEMMA BoundedStep ==
    ASSUME PowersOfTwo, ShapeInv, InfluenceInv, AllBounded, NEW a \in Agents, NEW c \in Consumers,
           NEW n \in Nat, NEW f \in Nat, Spend(a, c, n, f),
           reports' = Append(reports, Reported(a, c, n, f)), UNCHANGED now,
           NEW b \in Agents, NEW d \in Consumers, NEW i, i \in Pair(b, d)',
           NEW j, j \in Pair(b, d)'
    PROVE  Bounded(b, d, i, j)'
<1>1. PICK m, e : m = Len(reports) + 1 /\ e = Reported(a, c, n, f)
  OBVIOUS
<1>2. /\ m \in Nat /\ DOMAIN reports = 1 .. m - 1
      /\ DOMAIN reports' = DOMAIN reports \cup {m}
      /\ reports'[m] = e
      /\ \A k \in DOMAIN reports : reports'[k] = reports[k]
      /\ Pair(b, d)' = IF b = a /\ d = c THEN Pair(b, d) \cup {m} ELSE Pair(b, d)
  BY <1>1, PairStep
<1>3. /\ e \in Report /\ reports \in Seq(Report) /\ reports' = Append(reports, e)
      /\ e.at = now /\ e.cap = params.consumerWeightCap
  <2>1. Reported(a, c, n, f).at = now /\ Reported(a, c, n, f).cap = params.consumerWeightCap
    BY DEF Reported
  <2> QED
    BY <1>1, <2>1, ReportedType DEF ShapeInv
<1>4. Pair(b, d) \subseteq DOMAIN reports
  BY DEF Pair, By
<1> SUFFICES ASSUME i <= j, (reports[j].at - reports[i].at < reports[i].halfLife)',
                    SameTerms(i, Within(b, d, i, j))'
             PROVE  (2 * reports[i].halfLife * Weight(Within(b, d, i, j))
                       <= (2 * reports[i].halfLife + (reports[j].at - reports[i].at)) * reports[i].cap)'
  BY DEF Bounded
<1>5. CASE j # m
  <2>1. j \in Pair(b, d) /\ i \in Pair(b, d) /\ i \in DOMAIN reports /\ j \in DOMAIN reports
    <3>1. j \in DOMAIN reports
      BY <1>2, <1>4, <1>5
    <3>2. i # m
      BY <1>2, <3>1
    <3> QED
      BY <1>2, <1>4, <1>5, <3>1, <3>2
  <2>2. PICK S : S = Within(b, d, i, j) /\ S \subseteq DOMAIN reports
    BY <1>4 DEF Within
  <2>3. Within(b, d, i, j)' = S
    <3>1. m \notin i .. j
      BY <1>2, <2>1
    <3> QED
      BY <1>2, <2>2, <3>1 DEF Within
  <2>4. Weight(Within(b, d, i, j))' = Weight(S)
    <3>1. Weight(S)' = Weight(S)
      BY <1>1, <1>3, <2>2, OneMoreReport
    <3> QED
      BY <2>3, <3>1 DEF Weight
  <2>5. reports'[i] = reports[i] /\ reports'[j] = reports[j]
    BY <1>2, <2>1
  <2>6. SameTerms(i, S)
    BY <1>2, <2>2, <2>3, <2>5 DEF SameTerms
  <2>7. Bounded(b, d, i, j)
    BY <2>1 DEF AllBounded
  <2> QED
    BY <2>2, <2>4, <2>5, <2>6, <2>7 DEF Bounded
<1>6. CASE j = m
  <2>1. b = a /\ d = c
    BY <1>2, <1>4, <1>6
  <2>2. Within(b, d, i, j)' = From(b, d, i)'
    <3>1. \A k \in Pair(b, d)' : k \in Nat /\ k <= m
      BY <1>2, <1>4
    <3>2. i \in Nat
      BY <3>1
    <3>3. \A k \in Pair(b, d)' : k \in i .. j <=> i <= k
      BY <1>2, <1>6, <3>1, <3>2
    <3>4. Within(b, d, i, j)' = {k \in Pair(b, d)' : k \in i .. j}
      BY DEF Within
    <3>5. From(b, d, i)' = {k \in Pair(b, d)' : i <= k}
      BY DEF From
    <3> QED
      BY <3>3, <3>4, <3>5
  <2>3. SameTerms(i, From(b, d, i))'
    BY <2>2 DEF SameTerms
  <2>4. StandsFor(b, d, i)'
    BY <2>3, StandStep
  <2>5. /\ reports'[i] \in Report /\ reports'[j].at = now
        /\ reports'[i].cap = e.cap /\ e.cap # 0
    <3>1. reports'[i] \in Report
      BY <1>2, <1>3, <1>4
    <3>2. m \in From(b, d, i)'
      BY <1>6, <2>1 DEF From
    <3> QED
      BY <1>2, <1>3, <1>6, <2>3, <3>1, <3>2 DEF SameTerms
  <2>6. budgets'[b][d].lastAt = now
    BY <1>3, <2>1, <2>5, FreshStands
  <2>7. PICK t, used, h, cap, s : /\ t = Weight(From(b, d, i))' /\ used = budgets'[b][d].used
                                  /\ h = reports'[i].halfLife /\ cap = reports'[i].cap
                                  /\ s = now - reports'[i].at
    OBVIOUS
  <2>8. /\ h \in Nat \ {0} /\ cap \in Nat /\ now \in Nat /\ s \in Nat /\ s < h /\ used \in Nat
        /\ t = 0 \/ (used <= cap /\ 2 * h * t <= 2 * h * used + s * cap)
    <3>1. reports'[i].at \in Nat /\ h \in Nat \ {0} /\ cap \in Nat /\ now \in Nat
      BY <2>5, <2>7, ParamTypes DEF Report
    <3>2. reports'[i].at <= now
      BY <2>4, <2>6 DEF StandsFor
    <3>3. s \in Nat /\ s < h
      <4>1. reports'[j].at - reports'[i].at < reports'[i].halfLife
        OBVIOUS
      <4>2. s < h
        BY <2>5, <2>7, <4>1
      <4>3. PICK at \in Nat : at = reports'[i].at
        BY <3>1
      <4>4. s = now - at /\ at <= now
        BY <2>7, <3>2, <4>3
      <4> QED
        BY <3>1, <4>2, <4>4
    <3>4. used \in Nat
      <4>1. /\ budgets'[a][c].used = UsedNow(a, c) + Granted(a, c, n, f)
            /\ UsedNow(a, c) \in Nat /\ Granted(a, c, n, f) \in Nat
        BY <1>3, <2>5, FreshStands
      <4> QED
        BY <2>1, <2>7, <4>1
    <3> QED
      BY <2>4, <2>6, <2>7, <3>1, <3>3, <3>4 DEF StandsFor
  <2>9. 2 * h * t <= (2 * h + s) * cap
    <3>1. PICK dd \in Nat : dd = 2 * h
      BY <2>8
    <3>2. (dd + s) * cap = dd * cap + s * cap /\ dd * cap \in Nat /\ s * cap \in Nat
      BY <2>8, <3>1
    <3>3. dd * t <= (dd + s) * cap
      <4>1. CASE t = 0
        BY <3>1, <3>2, <4>1
      <4>2. CASE t # 0
        <5>1. used <= cap /\ dd * t <= dd * used + s * cap
          BY <2>8, <3>1, <4>2
        <5>2. dd * used <= dd * cap
          BY <2>8, <3>1, <5>1
        <5>3. dd * used \in Nat
          BY <2>8, <3>1
        <5>4. t \in Nat
          <6>1. PICK T \in SUBSET DOMAIN reports : From(b, d, i)' = T \cup {m}
            <7>1. m \in From(b, d, i)' /\ From(b, d, i)' \ {m} \subseteq DOMAIN reports
              BY <1>2, <1>4, <1>6, <2>1 DEF From
            <7>2. From(b, d, i)' = (From(b, d, i)' \ {m}) \cup {m}
              BY <7>1
            <7> QED
              BY <7>1, <7>2
          <6>2. Weight(T \cup {m})' = Weight(T) + e.weight /\ Weight(T) \in Nat /\ e.weight \in Nat
            <7>1. e.weight \in Nat
              BY <1>3 DEF Report
            <7>2. Weight(T) \in Nat
              BY <1>3, SomeReports
            <7>3. Weight(T \cup {m})' = Weight(T) + e.weight
              BY <1>1, <1>3, OneMoreReport
            <7> QED
              BY <7>1, <7>2, <7>3
          <6>3. Weight(From(b, d, i))' = Weight(T \cup {m})'
            BY <6>1 DEF Weight
          <6> QED
            BY <2>7, <6>2, <6>3
        <5> QED
          BY <3>1, <3>2, <5>1, <5>2, <5>3, <5>4
      <4> QED
        BY <4>1, <4>2
    <3> QED
      BY <3>1, <3>3
  <2> QED
    <3>1. Weight(Within(b, d, i, j))' = t
      BY <2>2, <2>7 DEF Weight
    <3> QED
      BY <2>5, <2>7, <2>9, <3>1
<1> QED
  BY <1>5, <1>6

LEMMA InfluenceNext ==
    PowersOfTwo /\ ShapeInv /\ InfluenceInv /\ AllBounded /\ [Next]_allVars
      => InfluenceInv' /\ AllBounded'
<1> SUFFICES ASSUME PowersOfTwo, ShapeInv, InfluenceInv, AllBounded, [Next]_allVars
             PROVE  InfluenceInv' /\ AllBounded'
  OBVIOUS
<1>1. ASSUME NEW a \in Agents, NEW c \in Consumers, NEW o \in Outcomes, NEW n \in Notionals,
             NEW t \in Tolerances, NEW f \in ProtocolFees, RecordOutcome(a, c, o, n, t, f)
      PROVE  InfluenceInv' /\ AllBounded'
  <2>1. n \in Nat /\ f \in Nat
    BY ReportsAssumption
  <2>2. /\ Spend(a, c, n, f) /\ reports' = Append(reports, Reported(a, c, n, f))
        /\ UNCHANGED now
    BY <1>1 DEF RecordOutcome, recordOutcome, Reported
  <2>3. \A i \in DOMAIN reports' : reports'[i].at # 0
    <3>1. PICK m : m = Len(reports) + 1
      OBVIOUS
    <3>2. /\ DOMAIN reports' = DOMAIN reports \cup {m}
          /\ reports'[m] = Reported(a, c, n, f)
          /\ \A i \in DOMAIN reports : reports'[i] = reports[i]
      BY <2>1, <2>2, <3>1, PairStep
    <3>3. Reported(a, c, n, f).at # 0
      BY ParamTypes DEF Reported
    <3> QED
      BY <3>2, <3>3 DEF InfluenceInv
  <2>4. ASSUME NEW b \in Agents, NEW d \in Consumers, NEW i, i \in Pair(b, d)',
               SameTerms(i, From(b, d, i))'
        PROVE  StandsFor(b, d, i)'
    BY <2>1, <2>2, <2>4, StandStep
  <2>5. ASSUME NEW b \in Agents, NEW d \in Consumers, NEW i, i \in Pair(b, d)',
               NEW j, j \in Pair(b, d)'
        PROVE  Bounded(b, d, i, j)'
    BY <2>1, <2>2, <2>5, BoundedStep
  <2> QED
    BY <2>3, <2>4, <2>5 DEF InfluenceInv, AllBounded
<1>2. CASE UNCHANGED <<budgets, reports>>
  <2>1. \A a, c : Pair(a, c)' = Pair(a, c)
    BY <1>2 DEF Pair, By, Against
  <2>2. /\ \A a, c, i : From(a, c, i)' = From(a, c, i)
        /\ \A a, c, i, j : Within(a, c, i, j)' = Within(a, c, i, j)
    BY <2>1 DEF From, Within
  <2>3. /\ \A a, c, i : Weight(From(a, c, i))' = Weight(From(a, c, i))
        /\ \A a, c, i, j : Weight(Within(a, c, i, j))' = Weight(Within(a, c, i, j))
    BY <1>2, <2>2, Zenon DEF Weight
  <2>4. /\ \A a, c, i : SameTerms(i, From(a, c, i))' <=> SameTerms(i, From(a, c, i))
        /\ \A a, c, i, j : SameTerms(i, Within(a, c, i, j))' <=> SameTerms(i, Within(a, c, i, j))
    BY <1>2, <2>2, Zenon DEF SameTerms
  <2>5. InfluenceInv'
    <3>1. ASSUME NEW a, NEW c, NEW i PROVE StandsFor(a, c, i)' <=> StandsFor(a, c, i)
      <4>1. /\ reports'[i] = reports[i] /\ budgets'[a][c] = budgets[a][c]
            /\ Weight(From(a, c, i))' = Weight(From(a, c, i))
        BY <1>2, <2>3
      <4> QED
        BY <4>1 DEF StandsFor
    <3> QED
      BY <1>2, <2>1, <2>4, <3>1 DEF InfluenceInv
  <2>6. AllBounded'
    <3>1. ASSUME NEW a, NEW c, NEW i, NEW j PROVE Bounded(a, c, i, j)' <=> Bounded(a, c, i, j)
      <4>1. /\ reports'[i] = reports[i] /\ reports'[j] = reports[j]
            /\ Weight(Within(a, c, i, j))' = Weight(Within(a, c, i, j))
            /\ SameTerms(i, Within(a, c, i, j))' <=> SameTerms(i, Within(a, c, i, j))
        BY <1>2, <2>3, <2>4
      <4> QED
        BY <4>1 DEF Bounded
    <3> QED
      BY <1>2, <2>1, <3>1 DEF AllBounded
  <2> QED
    BY <2>5, <2>6
<1> QED
  BY <1>1, <1>2 DEF Next, InitAgent, initAgent, RecordFault, recordFault, SetParameters,
     setParameters, engineVars, historyVars, vars, allVars

\* Whatever a consumer reports on an agent, and however it times it, within less
\* than a half-life it weighs at most its cap and what of the cap fades meanwhile:
\* the ceiling on what one counterparty can do to a score, for every cap and
\* half-life and between any changes of them.
THEOREM InfluenceAlwaysBounded == ASSUME PowersOfTwo PROVE Spec => []InfluenceBounded
<1>1. Init => ShapeInv /\ InfluenceInv /\ AllBounded
  <2> SUFFICES ASSUME Init PROVE ShapeInv /\ InfluenceInv /\ AllBounded
    OBVIOUS
  <2>1. DOMAIN reports = {} /\ \A a, c : Pair(a, c) = {}
    BY DEF Init, Pair, By
  <2> QED
    BY <2>1, InitShape DEF InfluenceInv, AllBounded
<1>2. ShapeInv /\ InfluenceInv /\ AllBounded /\ [Next]_allVars
        => (ShapeInv /\ InfluenceInv /\ AllBounded)'
  BY ShapeNext, InfluenceNext
<1>3. AllBounded => InfluenceBounded
  <2> SUFFICES ASSUME AllBounded, NEW a \in Agents, NEW c \in Consumers,
                      NEW i \in By(c) \cap Against(a), NEW j \in By(c) \cap Against(a)
               PROVE  LET spent == By(c) \cap Against(a) \cap (i .. j)
                          span == reports[j].at - reports[i].at
                          cap == reports[i].cap
                          halfLife == reports[i].halfLife
                      IN  /\ i <= j /\ span < halfLife /\ cap # 0
                          /\ \A k \in spent : reports[k].cap = cap /\ reports[k].halfLife = halfLife
                          => 2 * halfLife * TotalOf(LAMBDA r : r.weight, spent)
                               <= (2 * halfLife + span) * cap
    BY DEF InfluenceBounded
  <2>1. Bounded(a, c, i, j)
    BY DEF AllBounded, Pair
  <2> QED
    BY <2>1, Totals DEF Bounded, SameTerms, Within, Pair
<1> QED
  BY <1>1, <1>2, <1>3, PTL DEF Spec

-----------------------------------------------------------------------------
(* Time.                                                                   *)

LEMMA QuotientOf ==
    ASSUME NEW p \in Nat, NEW d \in Nat \ {0}
    PROVE  /\ p \div d \in Nat /\ p % d \in Nat /\ p % d < d
           /\ p = d * (p \div d) + (p % d)
OBVIOUS

LEMMA QuotientIs ==
    ASSUME NEW p \in Nat, NEW d \in Nat \ {0}, NEW q \in Nat, NEW r \in Nat, r < d, p = d * q + r
    PROVE  p \div d = q /\ p % d = r
<1>1. PICK x, y : x = p \div d /\ y = p % d
  OBVIOUS
<1>2. x \in Nat /\ y \in Nat /\ y < d /\ p = d * x + y
  BY <1>1, QuotientOf
<1>3. ~(x < q)
  <2> SUFFICES ASSUME x < q PROVE FALSE
    OBVIOUS
  <2>1. d * (x + 1) <= d * q
    BY <1>2
  <2>2. d * (x + 1) = d * x + d
    BY <1>2
  <2>3. d * x \in Nat /\ d * q \in Nat
    BY <1>2
  <2> QED
    BY <1>2, <2>1, <2>2, <2>3
<1>4. ~(q < x)
  <2> SUFFICES ASSUME q < x PROVE FALSE
    OBVIOUS
  <2>1. d * (q + 1) <= d * x
    BY <1>2
  <2>2. d * (q + 1) = d * q + d
    BY <1>2
  <2>3. d * x \in Nat /\ d * q \in Nat
    BY <1>2
  <2> QED
    BY <1>2, <2>1, <2>2, <2>3
<1>5. x = q
  BY <1>2, <1>3, <1>4
<1>6. y = r
  <2>1. d * q \in Nat
    OBVIOUS
  <2> QED
    BY <1>2, <1>5, <2>1
<1> QED
  BY <1>1, <1>5, <1>6

LEMMA QuotientGrows ==
    ASSUME NEW p \in Nat, NEW q \in Nat, NEW d \in Nat \ {0}, p <= q
    PROVE  p \div d <= q \div d
<1>1. PICK x, y : x = p \div d /\ y = q \div d
  OBVIOUS
<1>2. x \in Nat /\ y \in Nat /\ d * x <= p /\ q < d * (y + 1)
  <2>1. d * (y + 1) = d * y + d
    BY <1>1, QuotientOf
  <2>2. d * x \in Nat /\ d * y \in Nat
    BY <1>1, QuotientOf
  <2> QED
    BY <1>1, <2>1, <2>2, QuotientOf
<1>3. ~(y < x)
  <2> SUFFICES ASSUME y < x PROVE FALSE
    OBVIOUS
  <2>1. d * (y + 1) <= d * x
    BY <1>2
  <2>2. d * x \in Nat /\ d * (y + 1) \in Nat
    BY <1>2
  <2> QED
    BY <1>2, <2>1, <2>2
<1> QED
  BY <1>1, <1>2, <1>3

\* Halving once more is dividing by the next power.
LEMMA HalvedAgain ==
    ASSUME NEW v \in Nat, NEW d \in Nat \ {0}
    PROVE  v \div (2 * d) = (v \div d) \div 2
<1>1. PICK x, r : x = v \div d /\ r = v % d
  OBVIOUS
<1>2. x \in Nat /\ r \in Nat /\ r < d /\ v = d * x + r
  BY <1>1, QuotientOf
<1>3. PICK y, z : y = x \div 2 /\ z = x % 2
  OBVIOUS
<1>4. y \in Nat /\ z \in Nat /\ z < 2 /\ x = 2 * y + z
  BY <1>2, <1>3
<1>5. v = (2 * d) * y + (d * z + r)
  <2>1. d * x = d * (2 * y) + d * z
    BY <1>4
  <2>2. d * (2 * y) = (2 * d) * y
    BY <1>4
  <2> QED
    BY <1>2, <1>4, <2>1, <2>2
<1>6. d * z + r \in Nat /\ d * z + r < 2 * d
  <2>1. z = 0 \/ z = 1
    BY <1>4
  <2>2. CASE z = 0
    BY <1>2, <2>2
  <2>3. CASE z = 1
    BY <1>2, <2>3
  <2> QED
    BY <2>1, <2>2, <2>3
<1>7. 2 * d \in Nat \ {0}
  OBVIOUS
<1>8. v \div (2 * d) = y
  <2>1. PICK dd, rr : dd = 2 * d /\ rr = d * z + r
    OBVIOUS
  <2>2. dd \in Nat \ {0} /\ rr \in Nat /\ rr < dd /\ v = dd * y + rr
    BY <1>5, <1>6, <1>7, <2>1
  <2>3. v \div dd = y
    BY <1>4, <2>2, QuotientIs
  <2> QED
    BY <2>1, <2>3
<1> QED
  BY <1>1, <1>3, <1>8

\* From one instant to the next a magnitude never grows, also where one stretch
\* of the interpolation ends and the next begins.
LEMMA ShrunkFades ==
    ASSUME PowersOfTwo, NEW v \in Nat, NEW e \in Nat, NEW h \in Nat \ {0}, NEW vanishes \in Nat
    PROVE  Shrunk(v, e + 1, h, vanishes) <= Shrunk(v, e, h, vanishes)
<1>1. PICK k, r : k = e \div h /\ r = e % h
  OBVIOUS
<1>2. k \in Nat /\ r \in Nat /\ r < h /\ e = h * k + r
  BY <1>1, QuotientOf
<1>3. 2 ^ k \in Nat \ {0} /\ 2 ^ (k + 1) = 2 * 2 ^ k
  BY <1>2 DEF PowersOfTwo
<1>4. PICK x, d : x = v \div 2 ^ k /\ d = 2 * h
  OBVIOUS
<1>5. x \in Nat /\ d \in Nat \ {0} /\ d = 2 * h
  BY <1>3, <1>4, QuotientBound
<1>6. Shrunk(v, e, h, vanishes) = IF k >= vanishes THEN 0 ELSE x - (x * r) \div d
  BY <1>1, <1>4, Zenon DEF Shrunk
<1>7. (x * r) \div d \in Nat /\ (x * r) \div d <= x
  <2>1. r <= d
    BY <1>2, <1>5
  <2> QED
    BY <1>2, <1>5, <2>1, ShareBound
<1>8. CASE r + 1 < h
  <2>1. e + 1 \in Nat /\ r + 1 \in Nat /\ e + 1 = h * k + (r + 1)
    <3>1. h * k \in Nat
      BY <1>2
    <3> QED
      BY <1>2, <3>1
  <2>2. (e + 1) \div h = k /\ (e + 1) % h = r + 1
    BY <1>2, <1>8, <2>1, QuotientIs
  <2>3. Shrunk(v, e + 1, h, vanishes) = IF k >= vanishes THEN 0 ELSE x - (x * (r + 1)) \div d
    BY <1>4, <2>2, Zenon DEF Shrunk
  <2>4. (x * r) \div d <= (x * (r + 1)) \div d /\ (x * (r + 1)) \div d \in Nat
    <3>1. PICK p, q : p = x * r /\ q = x * (r + 1)
      OBVIOUS
    <3>2. p \in Nat /\ q \in Nat /\ p <= q
      BY <1>2, <1>5, <3>1
    <3>3. p \div d <= q \div d /\ q \div d \in Nat
      BY <1>5, <3>2, QuotientGrows, QuotientOf
    <3> QED
      BY <3>1, <3>3
  <2> QED
    BY <1>5, <1>6, <1>7, <2>3, <2>4
<1>9. CASE r + 1 = h
  <2>1. e + 1 \in Nat /\ k + 1 \in Nat /\ e + 1 = h * (k + 1) + 0
    <3>1. h * k \in Nat /\ h * (k + 1) = h * k + h
      BY <1>2
    <3> QED
      BY <1>2, <1>9, <3>1
  <2>2. (e + 1) \div h = k + 1 /\ (e + 1) % h = 0
    <3>1. 0 \in Nat /\ 0 < h
      OBVIOUS
    <3> QED
      BY <2>1, <3>1, QuotientIs
  <2>3. v \div 2 ^ (k + 1) = x \div 2
    BY <1>3, <1>4, HalvedAgain
  <2>4. Shrunk(v, e + 1, h, vanishes) =
          IF k + 1 >= vanishes THEN 0 ELSE x \div 2 - ((x \div 2) * 0) \div d
    BY <1>4, <2>2, <2>3, Zenon DEF Shrunk
  <2>5. x \div 2 \in Nat /\ x \div 2 <= x /\ 2 * (x \div 2) <= x
    BY <1>5
  <2>6. ((x \div 2) * 0) \div d = 0
    <3>1. (x \div 2) * 0 = 0
      BY <2>5
    <3>2. 0 \div d = 0
      BY <1>5
    <3> QED
      BY <3>1, <3>2
  <2>7. (x * r) \div d <= x \div 2
    <3>1. PICK p, q : p = x * r /\ q = x * h
      OBVIOUS
    <3>2. p \in Nat /\ q \in Nat /\ p <= q
      BY <1>2, <1>5, <3>1
    <3>3. p \div d <= q \div d
      BY <1>5, <3>2, QuotientGrows
    <3>4. PICK y, z : y = x \div 2 /\ z = x % 2
      OBVIOUS
    <3>5. y \in Nat /\ (z = 0 \/ z = 1) /\ x = 2 * y + z
      BY <1>5, <3>4
    <3>6. q = d * y + h * z
      <4>1. x * h = (2 * y) * h + z * h
        BY <3>5
      <4>2. (2 * y) * h = (2 * h) * y /\ z * h = h * z
        BY <3>5
      <4> QED
        BY <1>5, <3>1, <4>1, <4>2
    <3>7. h * z \in Nat /\ h * z < d
      <4>1. CASE z = 0
        BY <1>5, <4>1
      <4>2. CASE z = 1
        BY <1>5, <4>2
      <4> QED
        BY <3>5, <4>1, <4>2
    <3>8. q \div d = y
      <4>1. PICK w \in Nat : w = h * z /\ w < d
        BY <3>7
      <4>2. q = d * y + w
        BY <3>6, <4>1
      <4> QED
        BY <1>5, <3>2, <3>5, <4>1, <4>2, QuotientIs
    <3> QED
      BY <3>1, <3>3, <3>4, <3>8
  <2>8. x - (x * r) \div d >= x \div 2
    BY <1>5, <1>7, <2>5, <2>7
  <2>9. vanishes \in Nat /\ k \in Nat
    BY <1>2
  <2>10. CASE k + 1 >= vanishes
    BY <1>5, <1>6, <1>7, <2>4, <2>10
  <2>11. CASE ~(k + 1 >= vanishes)
    BY <1>6, <2>4, <2>5, <2>6, <2>8, <2>9, <2>11
  <2> QED
    BY <2>10, <2>11
<1> QED
  BY <1>2, <1>8, <1>9

LEMMA DecayFades ==
    ASSUME PowersOfTwo, NEW s \in Scores, NEW e \in Nat, NEW h \in Nat \ {0}
    PROVE  Distance(decay(s, e + 1, h), NEUTRAL) <= Distance(decay(s, e, h), NEUTRAL)
<1>1. s \in Nat /\ s <= 10000
  BY ScoreRange
<1>2. PICK v, x, y : /\ v = Distance(s, NEUTRAL) /\ x = Shrunk(v, e + 1, h, 32)
                     /\ y = Shrunk(v, e, h, 32)
  OBVIOUS
<1>3. v \in Nat /\ v <= 5000
  BY <1>1, <1>2 DEF Distance, NEUTRAL
<1>4. x \in Nat /\ y \in Nat /\ y <= v /\ x <= y
  <2>1. x \in 0 .. v /\ y \in 0 .. v /\ x <= y
    BY <1>2, <1>3, ShrunkBound, ShrunkFades
  <2> QED
    BY <1>3, <2>1
<1>5. /\ decay(s, e, h) = IF s > 5000 THEN 5000 + y ELSE 5000 - y
      /\ decay(s, e + 1, h) = IF s > 5000 THEN 5000 + x ELSE 5000 - x
  <2>1. /\ decay(s, e, h) = IF s > NEUTRAL THEN NEUTRAL + y ELSE NEUTRAL - y
        /\ decay(s, e + 1, h) = IF s > NEUTRAL THEN NEUTRAL + x ELSE NEUTRAL - x
    BY <1>2, Zenon DEF decay
  <2> QED
    BY <2>1 DEF NEUTRAL
<1>6. Distance(decay(s, e, h), NEUTRAL) = y /\ Distance(decay(s, e + 1, h), NEUTRAL) = x
  <2>1. CASE s > 5000
    BY <1>3, <1>4, <1>5, <2>1 DEF Distance, NEUTRAL
  <2>2. CASE ~(s > 5000)
    BY <1>3, <1>4, <1>5, <2>2 DEF Distance, NEUTRAL
  <2> QED
    BY <2>1, <2>2
<1> QED
  BY <1>4, <1>6

LEMMA WorkIsActivity ==
    ASSUME ShapeInv, [Next]_allVars, NEW a \in Initialized,
           records'[a].lastActiveAt # records[a].lastActiveAt
    PROVE  records'[a].settledExecutions > records[a].settledExecutions
<1>1. records \in [Agents -> Record] /\ a \in Agents /\ records[a].initialized
  BY DEF ShapeInv, EngineTypeOK, Initialized
<1>2. ASSUME NEW b \in Agents, InitAgent(b) PROVE FALSE
  BY <1>1, <1>2 DEF InitAgent, initAgent
<1>3. ASSUME NEW b \in Agents, NEW kind \in FaultKinds, RecordFault(b, kind) PROVE FALSE
  <2>1. records' = [records EXCEPT ![b] = Faulted(records[b], kind)]
    BY <1>3 DEF RecordFault, recordFault
  <2>2. Faulted(records[b], kind).lastActiveAt = records[b].lastActiveAt
    <3>1. PICK rec \in Record : rec = records[b]
      BY <1>1
    <3> QED
      BY <3>1 DEF Faulted, Record
  <2> QED
    BY <1>1, <2>1, <2>2
<1>4. ASSUME NEW b \in Agents, NEW c \in Consumers, NEW o \in Outcomes, NEW n \in Notionals,
             NEW t \in Tolerances, NEW f \in ProtocolFees, RecordOutcome(b, c, o, n, t, f)
      PROVE  records'[a].settledExecutions > records[a].settledExecutions
  <2>1. PICK q, w : records' = [records EXCEPT ![b] = Observed(records[b], q, w)]
    BY <1>4 DEF RecordOutcome, recordOutcome
  <2>2. Observed(records[b], q, w).settledExecutions > records[b].settledExecutions
    <3>1. PICK rec \in Record : rec = records[b]
      BY <1>1
    <3>2. /\ rec.settledExecutions \in Nat
          /\ Observed(rec, q, w).settledExecutions = rec.settledExecutions + 1
      BY <3>1 DEF Observed, Record
    <3> QED
      BY <3>1, <3>2
  <2> QED
    BY <1>1, <2>1, <2>2
<1>5. CASE UNCHANGED records
  BY <1>5
<1> QED
  BY <1>2, <1>3, <1>4, <1>5 DEF Next, SetParameters, setParameters, Tick,
     engineVars, historyVars, vars, allVars

LEMMA TimeFades ==
    ASSUME PowersOfTwo, ShapeInv, [Next]_allVars, now' > now, NEW a \in Initialized
    PROVE  /\ Distance(ScoreNow(records[a])', NEUTRAL) <= Distance(ScoreNow(records[a]), NEUTRAL)
           /\ \A c \in Consumers : UsedNow(a, c)' <= UsedNow(a, c)
<1>1. now \in Nat /\ params.decayHalfLife \in Nat \ {0}
  BY ParamTypes
<1>2. now' = now + 1 /\ UNCHANGED <<records, budgets, params>>
  <2>1. now' # now
    BY <1>1
  <2>2. Tick /\ UNCHANGED <<engineVars, historyVars>>
    BY <2>1 DEF Next, InitAgent, RecordOutcome, RecordFault, SetParameters, vars, allVars
  <2> QED
    BY <2>2 DEF Tick, engineVars
<1>3. a \in Agents
  BY DEF Initialized
<1>4. PICK h : h = params.decayHalfLife /\ h \in Nat \ {0}
  BY <1>1
<1>5. Distance(ScoreNow(records[a])', NEUTRAL) <= Distance(ScoreNow(records[a]), NEUTRAL)
  <2>1. records[a] \in Record /\ records[a].lastUpdateAt <= now
    BY <1>3 DEF ShapeInv, EngineTypeOK
  <2>2. PICK s, e : s = records[a].score /\ e = now - records[a].lastUpdateAt
    OBVIOUS
  <2>3. s \in Scores /\ records[a].lastUpdateAt \in Nat
    BY <2>1, <2>2 DEF Record
  <2>4. e \in Nat /\ (now + 1) - records[a].lastUpdateAt = e + 1
    BY <1>1, <2>1, <2>2, <2>3
  <2>5. ScoreNow(records[a]) = decay(s, e, h)
    BY <1>4, <2>2 DEF ScoreNow
  <2>6. ScoreNow(records[a])' = decay(s, e + 1, h)
    <3>1. /\ records'[a].score = s /\ now' - records'[a].lastUpdateAt = e + 1
          /\ params'.decayHalfLife = h
      <4>1. now' = now + 1 /\ records' = records /\ budgets' = budgets /\ params' = params
        BY <1>2
      <4> QED
        BY <1>4, <2>2, <2>4, <4>1, Zenon
    <3> QED
      BY <3>1, Zenon DEF ScoreNow
  <2> QED
    BY <1>4, <2>3, <2>4, <2>5, <2>6, DecayFades
<1>6. ASSUME NEW c \in Consumers PROVE UsedNow(a, c)' <= UsedNow(a, c)
  <2>1. budgets[a][c] \in Budget /\ budgets[a][c].lastAt <= now
    BY <1>3 DEF ShapeInv, EngineTypeOK
  <2>2. PICK u, e : u = budgets[a][c].used /\ e = now - budgets[a][c].lastAt
    OBVIOUS
  <2>3. u \in Nat /\ budgets[a][c].lastAt \in Nat
    BY <1>3, <2>1, <2>2, MaxBudgetAssumption DEF Budget
  <2>4. e \in Nat /\ (now + 1) - budgets[a][c].lastAt = e + 1
    BY <1>1, <2>1, <2>2, <2>3
  <2>5. UsedNow(a, c) = IF budgets[a][c].lastAt = 0 THEN 0 ELSE fade(u, e, h)
    BY <1>4, <2>2 DEF UsedNow
  <2>6. UsedNow(a, c)' = IF budgets[a][c].lastAt = 0 THEN 0 ELSE fade(u, e + 1, h)
    <3>1. /\ budgets'[a][c].used = u /\ budgets'[a][c].lastAt = budgets[a][c].lastAt
          /\ now' - budgets'[a][c].lastAt = e + 1 /\ params'.decayHalfLife = h
      <4>1. now' = now + 1 /\ records' = records /\ budgets' = budgets /\ params' = params
        BY <1>2
      <4> QED
        BY <1>4, <2>2, <2>4, <4>1, Zenon
    <3> QED
      BY <3>1, Zenon DEF UsedNow
  <2>7. fade(u, e + 1, h) <= fade(u, e, h)
    BY <1>4, <2>3, <2>4, ShrunkFades DEF fade
  <2> QED
    BY <2>5, <2>6, <2>7
<1> QED
  BY <1>5, <1>6

\* Waiting takes every score towards neutral and every budget back, and only a
\* settlement makes an agent look alive, for all half-lives, weights and haircuts.
THEOREM TimeIsNeverMerit == ASSUME PowersOfTwo PROVE Spec => TimeIsNoMerit
<1>1. Init => ShapeInv
  BY InitShape
<1>2. ShapeInv /\ [Next]_allVars => ShapeInv'
  BY ShapeNext
<1>3. ShapeInv /\ [Next]_allVars =>
        [\A a \in Initialized :
           records'[a].lastActiveAt # records[a].lastActiveAt
           => records'[a].settledExecutions > records[a].settledExecutions]_records
  BY WorkIsActivity
<1>4. ShapeInv /\ [Next]_allVars =>
        [now' > now =>
           \A a \in Initialized :
             /\ Distance(ScoreNow(records[a])', NEUTRAL) <= Distance(ScoreNow(records[a]), NEUTRAL)
             /\ \A c \in Consumers : UsedNow(a, c)' <= UsedNow(a, c)]_now
  BY TimeFades
<1>5. Spec => OnlyWorkIsActivity
  BY <1>1, <1>2, <1>3, PTL DEF Spec, OnlyWorkIsActivity
<1>6. Spec => IdleOnlyFades
  BY <1>1, <1>2, <1>4, PTL DEF Spec, IdleOnlyFades
<1> QED
  BY <1>5, <1>6 DEF TimeIsNoMerit

-----------------------------------------------------------------------------
(* Faults: the decay from one instant, and the decay begun anew in between. *)

LEMMA TimesKeepsOrder ==
    /\ \A x, y, z \in Nat : x <= y => x * z <= y * z /\ z * x <= z * y
    /\ \A x, y, z \in Nat : z # 0 /\ z * x <= z * y => x <= y
    /\ \A x, y, z \in Nat : z # 0 /\ z * x < z * y => x < y
OBVIOUS

\* 2 ^ (k + j) is the product; the library has no power, and its theorem of induction
\* no instance, but a least number for which it fails would be the next of one for
\* which it does not.
LEMMA PowersAdd ==
    ASSUME PowersOfTwo, NEW k \in Nat
    PROVE  \A j \in Nat : 2 ^ (k + j) = 2 ^ k * 2 ^ j
<1> DEFINE Wrong == {j \in Nat : 2 ^ (k + j) # 2 ^ k * 2 ^ j}
<1>1. 0 \notin Wrong
  <2>1. 2 ^ (k + 0) = 2 ^ k /\ 2 ^ k \in Nat /\ 2 ^ 0 = 1
    BY DEF PowersOfTwo
  <2> QED
    BY <2>1
<1>2. ASSUME NEW j \in Nat, j \notin Wrong PROVE j + 1 \notin Wrong
  <2>1. 2 ^ (k + j) = 2 ^ k * 2 ^ j
    BY <1>2
  <2>2. /\ k + (j + 1) = (k + j) + 1 /\ k + j \in Nat
        /\ 2 ^ ((k + j) + 1) = 2 * 2 ^ (k + j) /\ 2 ^ (j + 1) = 2 * 2 ^ j
        /\ 2 ^ k \in Nat /\ 2 ^ j \in Nat
    BY DEF PowersOfTwo
  <2>3. \A x, y \in Nat : 2 * (x * y) = x * (2 * y)
    OBVIOUS
  <2>4. 2 ^ (k + (j + 1)) = 2 ^ k * 2 ^ (j + 1)
    BY <2>1, <2>2, <2>3
  <2> QED
    BY <2>4
<1>3. Wrong \in SUBSET Nat
  OBVIOUS
<1> HIDE DEF Wrong
<1>4. ASSUME Wrong # {} PROVE FALSE
  <2> DEFINE R == OpToRel(<, Nat)
  <2>1. \A m, n \in Nat : <<m, n>> \in R <=> m < n
    BY DEF OpToRel
  <2>2. IsWellFoundedOn(R, Nat)
    BY NatLessThanWellFounded
  <2> HIDE DEF R
  <2>3. PICK n \in Wrong : \A m \in Wrong : ~(<<m, n>> \in R)
    BY <1>3, <1>4, <2>2, WFMin
  <2>4. n \in Nat /\ n # 0
    BY <1>1, <1>3
  <2>5. n - 1 \in Nat /\ n - 1 < n /\ (n - 1) + 1 = n
    BY <2>4
  <2>6. n - 1 \notin Wrong
    BY <1>3, <2>1, <2>3, <2>4, <2>5
  <2> QED
    BY <1>2, <2>5, <2>6
<1> QED
  BY <1>4 DEF Wrong

\* No distance from neutral is left after thirteen half-lives.
LEMMA PowersLarge ==
    ASSUME PowersOfTwo, NEW k \in Nat, k >= 13
    PROVE  2 ^ k \in Nat /\ 2 ^ k > 5000
<1>1. /\ 2 ^ 1 = 2 /\ 2 ^ 2 = 4 /\ 2 ^ 3 = 8
  BY DEF PowersOfTwo
<1>2. 2 ^ 6 = 64 /\ 2 ^ 12 = 4096 /\ 2 ^ 13 = 8192
  <2>1. 2 ^ (3 + 3) = 8 * 8 /\ 3 + 3 = 6
    BY <1>1, PowersAdd
  <2>2. 2 ^ (6 + 6) = 64 * 64 /\ 6 + 6 = 12
    BY <2>1, PowersAdd
  <2>3. 2 ^ (12 + 1) = 4096 * 2 /\ 12 + 1 = 13
    BY <1>1, <2>2, PowersAdd
  <2> QED
    BY <2>1, <2>2, <2>3
<1>3. k - 13 \in Nat /\ 13 + (k - 13) = k
  OBVIOUS
<1>4. 2 ^ k = 8192 * 2 ^ (k - 13)
  <2>1. \A j \in Nat : 2 ^ (13 + j) = 2 ^ 13 * 2 ^ j
    BY PowersAdd
  <2>2. 2 ^ (13 + (k - 13)) = 2 ^ 13 * 2 ^ (k - 13)
    BY <1>3, <2>1
  <2> QED
    BY <1>2, <1>3, <2>2
<1>5. 2 ^ (k - 13) \in Nat \ {0}
  BY <1>3 DEF PowersOfTwo
<1>6. \A x \in Nat \ {0} : 8192 * x \in Nat /\ 8192 * x > 5000
  OBVIOUS
<1> QED
  BY <1>4, <1>5, <1>6

\* What is left of x after the part r / d of it is taken and rounded down.
Kept(x, r, d) == x - (x * r) \div d

LEMMA KeptIs ==
    ASSUME NEW x \in Nat, NEW d \in Nat \ {0}, NEW r \in Nat, NEW g \in Nat, d = r + g
    PROVE  /\ Kept(x, r, d) \in 0 .. x
           /\ x * g <= d * Kept(x, r, d) /\ d * Kept(x, r, d) < x * g + d
<1>1. PICK y, f : y = x * r /\ f = y \div d
  OBVIOUS
<1>2. y \in Nat /\ f \in Nat /\ d * f <= y /\ y < d * f + d
  <2>1. y \in Nat
    BY <1>1
  <2>2. f \in Nat /\ y % d \in Nat /\ y % d < d /\ y = d * f + (y % d)
    BY <1>1, <2>1, QuotientOf
  <2>3. d * f \in Nat
    BY <2>2
  <2> QED
    BY <2>1, <2>2, <2>3
<1>3. f <= x
  <2>1. r <= d
    OBVIOUS
  <2> QED
    BY <1>1, <2>1, ShareBound
<1>4. Kept(x, r, d) = x - f
  BY <1>1 DEF Kept
<1>5. d * (x - f) = d * x - d * f /\ d * x = x * r + x * g
  <2>1. d * x = (r + g) * x /\ (r + g) * x = r * x + g * x /\ r * x = x * r /\ g * x = x * g
    OBVIOUS
  <2>2. d * (x - f) = d * x - d * f
    BY <1>2
  <2> QED
    BY <2>1, <2>2
<1>6. d * x \in Nat /\ d * f \in Nat /\ x * g \in Nat
  BY <1>2
<1> QED
  BY <1>1, <1>2, <1>3, <1>4, <1>5, <1>6

\* Taking the same part, of more or less, keeps the order; and of one more, leaves at
\* most one more.
LEMMA KeptInOrder ==
    ASSUME NEW x \in Nat, NEW y \in Nat, NEW d \in Nat \ {0}, NEW r \in Nat, r <= d
    PROVE  /\ x <= y => Kept(x, r, d) <= Kept(y, r, d)
           /\ y <= x + 1 => Kept(y, r, d) <= Kept(x, r, d) + 1
<1>1. PICK g \in Nat : d = r + g
  <2>1. d - r \in Nat /\ d = r + (d - r)
    OBVIOUS
  <2> QED
    BY <2>1
<1>2. PICK u, v : u = Kept(x, r, d) /\ v = Kept(y, r, d)
  OBVIOUS
<1>3. /\ u \in Nat /\ v \in Nat
      /\ x * g <= d * u /\ d * u < x * g + d /\ y * g <= d * v /\ d * v < y * g + d
  BY <1>1, <1>2, KeptIs
<1>4. /\ x * g \in Nat /\ y * g \in Nat /\ d * u \in Nat /\ d * v \in Nat /\ g <= d
  BY <1>1, <1>3
<1>5. ASSUME x <= y PROVE u <= v
  <2>1. x * g <= y * g
    BY <1>1, <1>5, TimesKeepsOrder
  <2>2. d * u < d * (v + 1)
    <3>1. d * (v + 1) = d * v + d
      BY <1>3
    <3> QED
      BY <1>3, <1>4, <2>1, <3>1
  <2>3. u < v + 1
    BY <1>3, <2>2, TimesKeepsOrder
  <2> QED
    BY <1>3, <2>3
<1>6. ASSUME y <= x + 1 PROVE v <= u + 1
  <2>1. y * g <= x * g + g
    <3>1. y * g <= (x + 1) * g /\ (x + 1) * g = x * g + g
      BY <1>1, <1>6, TimesKeepsOrder
    <3> QED
      BY <3>1
  <2>2. d * v < d * (u + 2)
    <3>1. d * (u + 2) = d * u + 2 * d
      BY <1>3
    <3> QED
      BY <1>1, <1>3, <1>4, <2>1, <3>1
  <2>3. v < u + 2
    BY <1>3, <2>2, TimesKeepsOrder
  <2> QED
    BY <1>3, <2>3
<1> QED
  BY <1>2, <1>5, <1>6

\* The next two compare what is left of a magnitude x when the interpolation runs
\* through (R, after the quotient n and the part c of it) with what is left when it is
\* begun anew from B, what was left in between (L, after m and w).  A power of two is
\* P, and z is two if the parts of a half-life add up to another one.
LEMMA RestartLeavesMore ==
    ASSUME NEW x \in Nat, NEW B \in Nat, NEW K \in Nat \ {0}, NEW P \in Nat \ {0},
           NEW z \in Nat \ {0}, NEW m \in Nat, NEW n \in Nat, NEW g \in Nat, NEW w \in Nat,
           NEW c \in Nat, NEW L \in Nat, NEW R \in Nat,
           z * P * n <= x, x * g <= K * B, B <= P * (m + 1), w <= K,
           K * c <= z * (g * w), m * w <= K * L, K * R < n * c + K
    PROVE  R <= L + 1
<1>1. (z * P * K) * (n * c) <= (z * P * K) * ((m + 1) * w)
  <2>1. (z * P * K) * (n * c) = (z * P * n) * (K * c)
    OBVIOUS
  <2>2. (z * P * n) * (K * c) <= x * (K * c)
    <3>1. z * P * n \in Nat /\ K * c \in Nat
      OBVIOUS
    <3> QED
      BY <3>1, TimesKeepsOrder
  <2>3. x * (K * c) <= x * (z * (g * w))
    <3>1. z * (g * w) \in Nat /\ K * c \in Nat
      OBVIOUS
    <3> QED
      BY <3>1, TimesKeepsOrder
  <2>4. x * (z * (g * w)) = (x * g) * (z * w)
    OBVIOUS
  <2>5. (x * g) * (z * w) <= (K * B) * (z * w)
    <3>1. x * g \in Nat /\ K * B \in Nat /\ z * w \in Nat
      OBVIOUS
    <3> QED
      BY <3>1, TimesKeepsOrder
  <2>6. (K * B) * (z * w) = B * (K * (z * w))
    OBVIOUS
  <2>7. B * (K * (z * w)) <= (P * (m + 1)) * (K * (z * w))
    <3>1. P * (m + 1) \in Nat /\ K * (z * w) \in Nat
      OBVIOUS
    <3> QED
      BY <3>1, TimesKeepsOrder
  <2>8. (P * (m + 1)) * (K * (z * w)) = (z * P * K) * ((m + 1) * w)
    OBVIOUS
  <2>9. /\ (z * P * K) * (n * c) \in Nat /\ x * (K * c) \in Nat /\ x * (z * (g * w)) \in Nat
        /\ (K * B) * (z * w) \in Nat /\ (z * P * K) * ((m + 1) * w) \in Nat
    OBVIOUS
  <2> QED
    BY <2>1, <2>2, <2>3, <2>4, <2>5, <2>6, <2>7, <2>8, <2>9
<1>2. n * c <= (m + 1) * w
  <2>1. z * P * K \in Nat /\ z * P * K # 0 /\ n * c \in Nat /\ (m + 1) * w \in Nat
    OBVIOUS
  <2> QED
    BY <1>1, <2>1, TimesKeepsOrder
<1>3. K * R < K * (L + 2)
  <2>1. (m + 1) * w = m * w + w /\ K * (L + 2) = K * L + 2 * K
    OBVIOUS
  <2>2. m * w \in Nat /\ n * c \in Nat /\ K * R \in Nat /\ K * L \in Nat
    OBVIOUS
  <2> QED
    BY <1>2, <2>1, <2>2
<1>4. R < L + 2
  BY <1>3, TimesKeepsOrder
<1> QED
  BY <1>4

LEMMA RestartLeavesLess ==
    ASSUME NEW x \in Nat, NEW d \in Nat, NEW K \in Nat \ {0}, NEW P \in Nat \ {0},
           NEW z \in Nat \ {0}, NEW m \in Nat, NEW n \in Nat, NEW w \in Nat,
           NEW c \in Nat, NEW L \in Nat, NEW R \in Nat,
           x <= z * P * (n + 1), P * m <= d, c <= K,
           z * (d * w) <= x * c, n * c <= K * R, K * L < m * w + K
    PROVE  L <= R + 1
<1>1. (z * P) * (m * w) <= (z * P) * ((n + 1) * c)
  <2>1. (z * P) * (m * w) = (P * m) * (z * w)
    OBVIOUS
  <2>2. (P * m) * (z * w) <= d * (z * w)
    <3>1. P * m \in Nat /\ z * w \in Nat
      OBVIOUS
    <3> QED
      BY <3>1, TimesKeepsOrder
  <2>3. d * (z * w) = z * (d * w)
    OBVIOUS
  <2>4. x * c <= (z * P * (n + 1)) * c
    <3>1. z * P * (n + 1) \in Nat
      OBVIOUS
    <3> QED
      BY <3>1, TimesKeepsOrder
  <2>5. (z * P * (n + 1)) * c = (z * P) * ((n + 1) * c)
    OBVIOUS
  <2>6. /\ (z * P) * (m * w) \in Nat /\ d * (z * w) \in Nat /\ x * c \in Nat
        /\ (z * P) * ((n + 1) * c) \in Nat
    OBVIOUS
  <2> QED
    BY <2>1, <2>2, <2>3, <2>4, <2>5, <2>6
<1>2. m * w <= (n + 1) * c
  <2>1. z * P \in Nat /\ z * P # 0 /\ m * w \in Nat /\ (n + 1) * c \in Nat
    OBVIOUS
  <2> QED
    BY <1>1, <2>1, TimesKeepsOrder
<1>3. K * L < K * (R + 2)
  <2>1. (n + 1) * c = n * c + c /\ K * (R + 2) = K * R + 2 * K
    OBVIOUS
  <2>2. m * w \in Nat /\ n * c \in Nat /\ K * R \in Nat /\ K * L \in Nat
    OBVIOUS
  <2> QED
    BY <1>2, <2>1, <2>2
<1>4. L < R + 2
  BY <1>3, TimesKeepsOrder
<1> QED
  BY <1>4

LEMMA SquareIsMore == \A x, y, h \in Nat : x + y <= h => 4 * (x * y) <= h * h
<1> SUFFICES ASSUME NEW x \in Nat, NEW y \in Nat, NEW h \in Nat, x + y <= h
             PROVE  4 * (x * y) <= h * h
  OBVIOUS
<1>1. PICK b : b = x + y
  OBVIOUS
<1>2. b \in Nat /\ b * b <= h * h
  <2>1. b \in Nat /\ b <= h
    BY <1>1
  <2>2. b * b <= b * h /\ b * h <= h * h
    BY <2>1, TimesKeepsOrder
  <2>3. b * b \in Nat /\ b * h \in Nat /\ h * h \in Nat
    BY <2>1
  <2> QED
    BY <2>1, <2>2, <2>3
<1>3. 4 * (x * y) <= b * b
  <2>1. \A i \in Int : i * i >= 0
    OBVIOUS
  <2>2. (x - y) * (x - y) >= 0
    BY <2>1
  <2>3. b * b = (x - y) * (x - y) + 4 * (x * y)
    BY <1>1
  <2>4. (x - y) * (x - y) \in Int /\ x * y \in Nat
    OBVIOUS
  <2> QED
    BY <1>2, <2>2, <2>3, <2>4
<1>4. 4 * (x * y) \in Nat /\ b * b \in Nat /\ h * h \in Nat
  BY <1>2
<1> QED
  BY <1>2, <1>3, <1>4

\* A tenth of the whole score, against the sixteenth of the distance from neutral that
\* beginning the interpolation anew is worth at most: within one half-life, and across
\* the end of one.
LEMMA HaircutCovers ==
    ASSUME NEW x \in Nat, x <= 5000, NEW h \in Nat \ {0}, NEW K \in Nat, K = 2 * h,
           NEW p \in Nat, NEW q \in Nat, p < h, q < h,
           NEW g \in Nat, NEW w \in Nat, NEW c \in Nat, K = p + g, K = q + w,
           NEW B \in Nat, NEW d \in Nat, K * B < x * g + K, 10 * d + 4991 <= 9 * B
    PROVE  /\ K = p + q + c /\ p + q < h => d * w <= x * c
           /\ K + h = p + q + c /\ p + q >= h => 2 * (d * w) <= x * c
<1>1. g >= h /\ w >= h /\ w \in Nat \ {0}
  OBVIOUS
<1>2. PICK e : e = g * w
  OBVIOUS
<1>3. e \in Nat /\ e >= h * h
  <2>1. h * h <= g * h /\ g * h <= g * w
    BY <1>1, TimesKeepsOrder
  <2>2. h * h \in Nat /\ g * h \in Nat /\ g * w \in Nat
    OBVIOUS
  <2> QED
    BY <1>2, <2>1, <2>2
<1>4. PICK sq : sq = h * h
  OBVIOUS
<1>5. sq \in Nat /\ K * w >= 2 * sq
  <2>1. K * h <= K * w /\ K * h = 2 * (h * h)
    BY <1>1, TimesKeepsOrder
  <2>2. K * h \in Nat /\ K * w \in Nat /\ h * h \in Nat
    OBVIOUS
  <2> QED
    BY <1>4, <2>1, <2>2
<1>6. 10 * (K * (d * w)) + 4982 * (K * w) <= 9 * (x * e)
  <2>1. K * (10 * d + 4991) <= K * (9 * B)
    <3>1. 10 * d + 4991 \in Nat /\ 9 * B \in Nat
      OBVIOUS
    <3> QED
      BY <3>1, TimesKeepsOrder
  <2>2. K * (10 * d + 4991) = 10 * (K * d) + 4991 * K /\ K * (9 * B) = 9 * (K * B)
    OBVIOUS
  <2>3. K * d \in Nat /\ K * B \in Nat /\ x * g \in Nat
    OBVIOUS
  <2>4. 10 * (K * d) + 4982 * K <= 9 * (x * g)
    BY <2>1, <2>2, <2>3
  <2>5. (10 * (K * d) + 4982 * K) * w <= (9 * (x * g)) * w
    <3>1. 10 * (K * d) + 4982 * K \in Nat /\ 9 * (x * g) \in Nat
      BY <2>3
    <3> QED
      BY <2>4, <3>1, TimesKeepsOrder
  <2>6. (10 * (K * d) + 4982 * K) * w = 10 * (K * (d * w)) + 4982 * (K * w)
    OBVIOUS
  <2>7. (9 * (x * g)) * w = 9 * (x * (g * w))
    OBVIOUS
  <2> QED
    BY <1>2, <2>5, <2>6, <2>7
<1>7. x * e >= x * sq /\ x * sq <= 5000 * sq /\ x * sq \in Nat /\ x * e \in Nat
  <2>1. x * sq <= x * e /\ x * sq <= 5000 * sq
    BY <1>3, <1>4, <1>5, TimesKeepsOrder
  <2> QED
    BY <1>3, <1>5, <2>1
<1>8. ASSUME K = p + q + c, p + q < h PROVE d * w <= x * c
  <2>1. PICK y : y = p * q
    OBVIOUS
  <2>2. y \in Nat /\ 4 * y <= sq
    BY <1>4, <1>8, <2>1, SquareIsMore
  <2>3. K * c + y = e
    <3>1. c = K - p - q /\ g = K - p /\ w = K - q
      BY <1>8
    <3>2. (K - p) * (K - q) = K * (K - p - q) + p * q
      OBVIOUS
    <3> QED
      BY <1>2, <2>1, <3>1, <3>2
  <2>4. x * (K * c) + x * y = x * e /\ 4 * (x * y) <= x * sq
    <3>1. x * (K * c + y) = x * (K * c) + x * y
      BY <2>2
    <3>2. x * (4 * y) <= x * sq /\ x * (4 * y) = 4 * (x * y)
      <4>1. 4 * y \in Nat
        BY <2>2
      <4> QED
        BY <1>5, <2>2, <4>1, TimesKeepsOrder
    <3> QED
      BY <2>3, <3>1, <3>2
  <2>5. x * (K * c) \in Nat /\ x * y \in Nat /\ K * w \in Nat /\ K * (d * w) \in Nat
    BY <2>2
  <2>6. 10 * (K * (d * w)) <= 10 * (x * (K * c))
    <3>1. PICK A, W, E, S, XK, Y : /\ A = K * (d * w) /\ W = K * w /\ E = x * e /\ S = x * sq
                                  /\ XK = x * (K * c) /\ Y = x * y
      OBVIOUS
    <3>2. /\ A \in Nat /\ W \in Nat /\ E \in Nat /\ S \in Nat /\ XK \in Nat /\ Y \in Nat
          /\ W >= 2 * sq /\ 10 * A + 4982 * W <= 9 * E /\ S <= E /\ S <= 5000 * sq
          /\ XK + Y = E /\ 4 * Y <= S
      BY <1>5, <1>6, <1>7, <2>4, <2>5, <3>1
    <3>3. 10 * A <= 10 * XK
      BY <1>5, <3>2
    <3> QED
      BY <3>1, <3>3
  <2>7. K * (d * w) <= K * (x * c)
    <3>1. x * (K * c) = K * (x * c)
      OBVIOUS
    <3> QED
      BY <2>5, <2>6, <3>1
  <2>8. d * w \in Nat /\ x * c \in Nat /\ K # 0
    OBVIOUS
  <2> QED
    BY <2>7, <2>8, TimesKeepsOrder
<1>9. ASSUME K + h = p + q + c, p + q >= h PROVE 2 * (d * w) <= x * c
  <2>1. PICK y : y = (h - p) * (h - q)
    OBVIOUS
  <2>2. y \in Nat /\ 4 * y <= sq
    <3>1. h - p \in Nat /\ h - q \in Nat /\ (h - p) + (h - q) <= h
      BY <1>9
    <3>2. (h - p) * (h - q) \in Nat
      BY <3>1
    <3> QED
      BY <1>4, <2>1, <3>1, <3>2, SquareIsMore
  <2>3. K * c + 2 * y = 2 * e
    <3>1. c = 3 * h - p - q /\ g = 2 * h - p /\ w = 2 * h - q
      BY <1>9
    <3>2. 2 * ((2 * h - p) * (2 * h - q)) =
            (2 * h) * (3 * h - p - q) + 2 * ((h - p) * (h - q))
      OBVIOUS
    <3> QED
      BY <1>2, <2>1, <3>1, <3>2
  <2>4. x * (K * c) + 2 * (x * y) = 2 * (x * e) /\ 4 * (x * y) <= x * sq
    <3>1. x * (K * c + 2 * y) = x * (K * c) + 2 * (x * y) /\ x * (2 * e) = 2 * (x * e)
      BY <1>3, <2>2
    <3>2. x * (4 * y) <= x * sq /\ x * (4 * y) = 4 * (x * y)
      <4>1. 4 * y \in Nat
        BY <2>2
      <4> QED
        BY <1>5, <2>2, <4>1, TimesKeepsOrder
    <3> QED
      BY <2>3, <3>1, <3>2
  <2>5. x * (K * c) \in Nat /\ x * y \in Nat /\ K * w \in Nat /\ K * (d * w) \in Nat
    BY <2>2
  <2>6. 20 * (K * (d * w)) <= 10 * (x * (K * c))
    <3>1. PICK A, W, E, S, XK, Y : /\ A = K * (d * w) /\ W = K * w /\ E = x * e /\ S = x * sq
                                  /\ XK = x * (K * c) /\ Y = x * y
      OBVIOUS
    <3>2. /\ A \in Nat /\ W \in Nat /\ E \in Nat /\ S \in Nat /\ XK \in Nat /\ Y \in Nat
          /\ W >= 2 * sq /\ 10 * A + 4982 * W <= 9 * E /\ S <= E /\ S <= 5000 * sq
          /\ XK + 2 * Y = 2 * E /\ 4 * Y <= S
      BY <1>5, <1>6, <1>7, <2>4, <2>5, <3>1
    <3>3. 20 * A <= 10 * XK
      BY <1>5, <3>2
    <3> QED
      BY <3>1, <3>3
  <2>7. K * (2 * (d * w)) <= K * (x * c)
    <3>1. x * (K * c) = K * (x * c) /\ K * (2 * (d * w)) = 2 * (K * (d * w))
      OBVIOUS
    <3> QED
      BY <2>5, <2>6, <3>1
  <2>8. 2 * (d * w) \in Nat /\ x * c \in Nat /\ K # 0
    OBVIOUS
  <2> QED
    BY <2>7, <2>8, TimesKeepsOrder
<1> QED
  BY <1>8, <1>9

\* The quotient by a product is that of the quotient.
LEMMA QuotientNested ==
    ASSUME NEW v \in Nat, NEW Q \in Nat \ {0}, NEW P \in Nat \ {0}, NEW a \in Nat, NEW n \in Nat,
           NEW r \in Nat, NEW s \in Nat, r < Q, s < Q * P, v = Q * a + r, v = (Q * P) * n + s
    PROVE  P * n <= a /\ a <= P * (n + 1)
<1>1. (Q * P) * n = Q * (P * n) /\ (Q * P) * n + Q * P = Q * (P * (n + 1))
  OBVIOUS
<1>2. /\ P * n \in Nat /\ P * (n + 1) \in Nat /\ Q * a \in Nat /\ Q * (P * n) \in Nat
      /\ Q * (P * (n + 1)) \in Nat /\ Q * P \in Nat
  OBVIOUS
<1>3. P * n < a + 1
  <2>1. Q * (a + 1) = Q * a + Q
    OBVIOUS
  <2>2. Q * (P * n) < Q * (a + 1)
    BY <1>1, <1>2, <2>1
  <2> QED
    BY <1>2, <2>2, TimesKeepsOrder
<1>4. a < P * (n + 1)
  <2>1. Q * a < Q * (P * (n + 1))
    BY <1>1, <1>2
  <2> QED
    BY <1>2, <2>1, TimesKeepsOrder
<1> QED
  BY <1>2, <1>3, <1>4

\* Halved and then interpolated.
Left(v, e, h) == Kept(v \div 2 ^ (e \div h), e % h, 2 * h)

LEMMA LeftIs ==
    ASSUME NEW v, NEW e, NEW h, NEW k, NEW r, NEW x, NEW d,
           k = e \div h, r = e % h, x = v \div 2 ^ k, d = 2 * h
    PROVE  /\ Left(v, e, h) = Kept(x, r, d)
           /\ \A n : Shrunk(v, e, h, n) = IF k >= n THEN 0 ELSE Kept(x, r, d)
<1>1. Left(v, e, h) = Kept(x, r, d)
  BY DEF Left
<1>2. ASSUME NEW n PROVE Shrunk(v, e, h, n) = IF k >= n THEN 0 ELSE x - (x * r) \div d
  BY Zenon DEF Shrunk
<1>3. Kept(x, r, d) = x - (x * r) \div d
  BY DEF Kept
<1> QED
  BY <1>1, <1>2, <1>3, Zenon

\* A distance from neutral is kept, halved and then interpolated; where the code shifts
\* by 32 or more nothing is left anyway.
LEMMA ShrunkIs ==
    ASSUME PowersOfTwo, NEW v \in Nat, v <= 5000, NEW e \in Nat, NEW h \in Nat \ {0}
    PROVE  Shrunk(v, e, h, 32) = Left(v, e, h)
<1>1. PICK k, r, d : k = e \div h /\ r = e % h /\ d = 2 * h
  OBVIOUS
<1>2. k \in Nat /\ r \in Nat /\ d \in Nat \ {0}
  BY <1>1, QuotientOf
<1>3. 2 ^ k \in Nat \ {0}
  BY <1>2 DEF PowersOfTwo
<1>4. PICK x : x = v \div 2 ^ k
  OBVIOUS
<1>5. /\ Left(v, e, h) = Kept(x, r, d)
      /\ \A n : Shrunk(v, e, h, n) = IF k >= n THEN 0 ELSE Kept(x, r, d)
  BY <1>1, <1>4, LeftIs
<1>6. ASSUME k >= 32 PROVE Kept(x, r, d) = 0
  <2>1. k >= 13
    BY <1>2, <1>6
  <2>2. 2 ^ k > 5000
    BY <1>2, <2>1, PowersLarge
  <2>3. PICK y : y = 2 ^ k
    OBVIOUS
  <2>4. y \in Nat \ {0} /\ v < y /\ v = y * 0 + v
    BY <1>3, <2>2, <2>3
  <2>5. x = 0
    BY <1>4, <2>3, <2>4, QuotientIs
  <2>6. x * r = 0 /\ 0 \div d = 0
    BY <1>2, <2>5
  <2> QED
    BY <2>5, <2>6 DEF Kept
<1> QED
  BY <1>5, <1>6

\* One more in magnitude is worth at most one more after any time, and never less.
LEMMA ShrunkInOrder ==
    ASSUME PowersOfTwo, NEW v \in Nat, NEW w \in Nat, v <= 5000, w <= 5000,
           NEW e \in Nat, NEW h \in Nat \ {0}
    PROVE  /\ v <= w => Shrunk(v, e, h, 32) <= Shrunk(w, e, h, 32)
           /\ w <= v + 1 => Shrunk(w, e, h, 32) <= Shrunk(v, e, h, 32) + 1
<1>1. PICK k, r, d : k = e \div h /\ r = e % h /\ d = 2 * h
  OBVIOUS
<1>2. PICK Q : Q = 2 ^ k
  OBVIOUS
<1>3. Q \in Nat \ {0} /\ r \in Nat /\ r <= d /\ d \in Nat \ {0}
  <2>1. k \in Nat /\ r \in Nat /\ r < h
    BY <1>1, QuotientOf
  <2>2. 2 ^ k \in Nat \ {0}
    BY <2>1 DEF PowersOfTwo
  <2> QED
    BY <1>1, <1>2, <2>1, <2>2
<1>4. PICK x, y : x = v \div Q /\ y = w \div Q
  OBVIOUS
<1>5. x \in Nat /\ y \in Nat /\ Shrunk(v, e, h, 32) = Kept(x, r, d)
      /\ Shrunk(w, e, h, 32) = Kept(y, r, d)
  <2>1. Shrunk(v, e, h, 32) = Left(v, e, h) /\ Shrunk(w, e, h, 32) = Left(w, e, h)
    BY ShrunkIs
  <2>2. Left(v, e, h) = Kept(x, r, d) /\ Left(w, e, h) = Kept(y, r, d)
    BY <1>1, <1>2, <1>4, LeftIs
  <2>3. x \in Nat /\ y \in Nat
    BY <1>3, <1>4, QuotientBound
  <2> QED
    BY <2>1, <2>2, <2>3
<1>6. v <= w => x <= y
  BY <1>3, <1>4, QuotientGrows
<1>7. w <= v + 1 => y <= x + 1
  <2> SUFFICES ASSUME w <= v + 1 PROVE y <= x + 1
    OBVIOUS
  <2>1. y <= (v + 1) \div Q
    BY <1>3, <1>4, QuotientGrows
  <2>2. PICK z : z = (v + 1) \div Q
    OBVIOUS
  <2>3. z \in Nat /\ Q * z <= v + 1
    <3>1. z \in Nat /\ (v + 1) % Q \in Nat /\ v + 1 = Q * z + ((v + 1) % Q)
      BY <1>3, <2>2, QuotientOf
    <3> QED
      BY <1>3, <3>1
  <2>4. v < Q * (x + 1)
    <3>1. v % Q \in Nat /\ v % Q < Q /\ v = Q * x + (v % Q)
      BY <1>3, <1>4, QuotientOf
    <3>2. Q * (x + 1) = Q * x + Q /\ Q * x \in Nat
      BY <1>3, <1>5
    <3> QED
      BY <1>3, <3>1, <3>2
  <2>5. Q * z < Q * (x + 2)
    <3>1. Q * (x + 2) = Q * (x + 1) + Q /\ Q * (x + 1) \in Nat /\ Q * z \in Nat
      BY <1>3, <1>5, <2>3
    <3>2. Q * z <= Q * (x + 1)
      BY <2>3, <2>4, <3>1
    <3> QED
      BY <1>3, <3>1, <3>2
  <2>6. z < x + 2
    BY <1>3, <1>5, <2>3, <2>5, TimesKeepsOrder
  <2> QED
    BY <1>5, <2>1, <2>2, <2>3, <2>6
<1>8. /\ x <= y => Kept(x, r, d) <= Kept(y, r, d)
      /\ y <= x + 1 => Kept(y, r, d) <= Kept(x, r, d) + 1
  BY <1>3, <1>5, KeptInOrder
<1> QED
  BY <1>5, <1>6, <1>7, <1>8

\* Half-lives and what is over of two times, one after the other.
LEMMA TimesAdd ==
    ASSUME NEW u \in Nat, NEW t \in Nat, NEW h \in Nat \ {0},
           NEW k \in Nat, NEW p \in Nat, NEW j \in Nat, NEW q \in Nat, p < h, q < h,
           u = h * k + p, t = h * j + q
    PROVE  /\ p + q < h => (u + t) \div h = k + j /\ (u + t) % h = p + q
           /\ p + q >= h => (u + t) \div h = (k + j) + 1 /\ (u + t) % h = p + q - h
<1>1. PICK s, i, l : s = u + t /\ i = k + j /\ l = p + q
  OBVIOUS
<1>2. /\ h * i = h * k + h * j /\ h * (i + 1) = h * i + h
      /\ h * k \in Nat /\ h * j \in Nat /\ h * i \in Nat
  BY <1>1
<1>3. s \in Nat /\ i \in Nat /\ i + 1 \in Nat /\ l \in Nat /\ s = h * i + l
  BY <1>1, <1>2
<1>4. ASSUME l < h PROVE s \div h = i /\ s % h = l
  BY <1>3, <1>4, QuotientIs
<1>5. ASSUME l >= h PROVE s \div h = i + 1 /\ s % h = l - h
  <2>1. PICK m, n : m = l - h /\ n = i + 1
    OBVIOUS
  <2>2. m \in Nat /\ m < h /\ n \in Nat /\ s = h * n + m
    BY <1>1, <1>2, <1>3, <1>5, <2>1
  <2>3. s \div h = n /\ s % h = m
    BY <1>3, <2>2, QuotientIs
  <2> QED
    BY <2>1, <2>3
<1> QED
  BY <1>1, <1>4, <1>5

\* A distance D that goes on fading for t after u, and one d that fades from there: what
\* the halvings leave, the halvings P of t, the two parts of a half-life p and q, and
\* z = 2 if these add up to another one.
Stretches(D, d, u, t, h, P, x, m, n, p, q, c, z) ==
    /\ P \in Nat \ {0} /\ x \in Nat /\ m \in Nat /\ n \in Nat
    /\ p \in Nat /\ q \in Nat /\ c \in Nat
    /\ x <= D /\ p < h /\ q < h
    /\ \/ z = 1 /\ p + q < h /\ 2 * h = (p + q) + c
       \/ z = 2 /\ p + q >= h /\ 2 * h + h = (p + q) + c
    /\ Shrunk(D, u, h, 32) = Kept(x, p, 2 * h)
    /\ Shrunk(d, t, h, 32) = Kept(m, q, 2 * h)
    /\ Shrunk(D, u + t, h, 32) = Kept(n, 2 * h - c, 2 * h)
    /\ P * m <= d /\ d < P * (m + 1) /\ (z * P) * n <= x /\ x <= (z * P) * (n + 1)

LEMMA TwoStretches ==
    ASSUME PowersOfTwo, NEW D \in Nat, D <= 5000, NEW d \in Nat, d <= 5000,
           NEW u \in Nat, NEW t \in Nat, NEW h \in Nat \ {0}
    PROVE  \E P, x, m, n, p, q, c, z : Stretches(D, d, u, t, h, P, x, m, n, p, q, c, z)
<1>1. PICK k, p, j, q, K : /\ k = u \div h /\ p = u % h /\ j = t \div h /\ q = t % h
                           /\ K = 2 * h
  OBVIOUS
<1>2. /\ k \in Nat /\ j \in Nat /\ p \in Nat /\ q \in Nat /\ p < h /\ q < h
      /\ u = h * k + p /\ t = h * j + q /\ K = 2 * h
  BY <1>1, QuotientOf
<1>3. PICK Q, P : Q = 2 ^ k /\ P = 2 ^ j
  OBVIOUS
<1>4. /\ Q \in Nat \ {0} /\ P \in Nat \ {0}
      /\ 2 ^ (k + j) = Q * P /\ 2 ^ ((k + j) + 1) = 2 * (Q * P)
  <2>1. 2 ^ (k + j) = 2 ^ k * 2 ^ j
    BY <1>2, PowersAdd
  <2>2. k + j \in Nat
    BY <1>2
  <2> QED
    BY <1>2, <1>3, <2>1, <2>2 DEF PowersOfTwo
<1>5. PICK x, m : x = D \div Q /\ m = d \div P
  OBVIOUS
<1>6. /\ x \in Nat /\ x <= D /\ m \in Nat /\ P * m <= d /\ d < P * (m + 1)
  <2>1. x \in 0 .. D /\ m \in Nat /\ d % P \in Nat /\ d % P < P /\ d = P * m + (d % P)
    BY <1>4, <1>5, QuotientBound, QuotientOf
  <2>2. P * (m + 1) = P * m + P /\ P * m \in Nat
    BY <1>4, <2>1
  <2> QED
    BY <1>4, <2>1, <2>2
<1>7. Shrunk(D, u, h, 32) = Kept(x, p, K) /\ Shrunk(d, t, h, 32) = Kept(m, q, K)
  <2>1. Shrunk(D, u, h, 32) = Left(D, u, h) /\ Shrunk(d, t, h, 32) = Left(d, t, h)
    BY ShrunkIs
  <2>2. Left(D, u, h) = Kept(x, p, K) /\ Left(d, t, h) = Kept(m, q, K)
    BY <1>1, <1>3, <1>5, LeftIs
  <2> QED
    BY <2>1, <2>2
<1>8. PICK s : s = u + t
  OBVIOUS
<1>9. s \in Nat /\ Shrunk(D, s, h, 32) = Left(D, s, h)
  BY <1>8, ShrunkIs
<1>10. ASSUME NEW z \in Nat \ {0}, NEW i \in Nat, NEW l \in Nat, i = s \div h, l = s % h, l < h,
              2 ^ i = z * (Q * P)
       PROVE  \E n \in Nat : /\ Shrunk(D, s, h, 32) = Kept(n, l, K)
                             /\ (z * P) * n <= x /\ x <= (z * P) * (n + 1)
  <2>1. PICK Z : Z = z * P
    OBVIOUS
  <2>2. Z \in Nat \ {0} /\ Q * Z = 2 ^ i
    <3>1. Q * (z * P) = z * (Q * P) /\ z * P # 0 /\ z * P \in Nat
      BY <1>4
    <3> QED
      BY <1>10, <2>1, <3>1
  <2>3. PICK n : n = D \div 2 ^ i
    OBVIOUS
  <2>4. n \in Nat /\ Z * n <= x /\ x <= Z * (n + 1)
    <3>1. PICK y : y = 2 ^ i
      OBVIOUS
    <3>2. y = Q * Z /\ y \in Nat \ {0} /\ n = D \div y
      BY <1>4, <2>2, <2>3, <3>1
    <3>3. PICK r, o : r = D % Q /\ o = D % y
      OBVIOUS
    <3>4. /\ x \in Nat /\ r \in Nat /\ r < Q /\ D = Q * x + r
          /\ n \in Nat /\ o \in Nat /\ o < y /\ D = y * n + o
      <4>1. x = D \div Q /\ r = D % Q /\ Q \in Nat \ {0}
        BY <1>4, <1>5, <3>3
      <4>2. x \in Nat /\ r \in Nat /\ r < Q /\ D = Q * x + r
        BY <4>1, QuotientOf
      <4>3. n = D \div y /\ o = D % y /\ y \in Nat \ {0}
        BY <3>2, <3>3
      <4>4. n \in Nat /\ o \in Nat /\ o < y /\ D = y * n + o
        BY <4>3, QuotientOf
      <4> QED
        BY <4>2, <4>4
    <3>5. o < Q * Z /\ D = (Q * Z) * n + o /\ Z \in Nat \ {0} /\ Q \in Nat \ {0}
      BY <1>4, <2>2, <3>2, <3>4
    <3> QED
      BY <3>4, <3>5, QuotientNested
  <2>5. Left(D, s, h) = Kept(n, l, K)
    BY <1>1, <1>10, <2>3, LeftIs
  <2> QED
    BY <1>9, <2>1, <2>4, <2>5
<1>11. ASSUME p + q < h
       PROVE  /\ s \div h = k + j /\ s % h = p + q
  BY <1>2, <1>8, <1>11, TimesAdd
<1>12. ASSUME p + q >= h
       PROVE  /\ s \div h = (k + j) + 1 /\ s % h = p + q - h
  BY <1>2, <1>8, <1>12, TimesAdd
<1>13. CASE p + q < h
  <2>1. PICK i, l, c : i = k + j /\ l = p + q /\ c = K - l
    OBVIOUS
  <2>2. i \in Nat /\ l \in Nat /\ l < h /\ c \in Nat /\ K - c = l /\ K = l + c
    BY <1>2, <1>13, <2>1
  <2>3. i = s \div h /\ l = s % h /\ 2 ^ i = 1 * (Q * P)
    <3>1. Q * P \in Nat
      BY <1>4
    <3> QED
      BY <1>4, <1>11, <1>13, <2>1, <3>1
  <2>4. PICK n \in Nat : /\ Shrunk(D, s, h, 32) = Kept(n, l, K)
                         /\ (1 * P) * n <= x /\ x <= (1 * P) * (n + 1)
    BY <1>10, <2>2, <2>3
  <2>5. Stretches(D, d, u, t, h, P, x, m, n, p, q, c, 1)
    BY <1>2, <1>4, <1>6, <1>7, <1>8, <1>13, <2>1, <2>2, <2>4 DEF Stretches
  <2> QED
    BY <2>5
<1>14. CASE p + q >= h
  <2>1. PICK i, l, c : i = (k + j) + 1 /\ l = p + q - h /\ c = K - l
    OBVIOUS
  <2>2. i \in Nat /\ l \in Nat /\ l < h /\ c \in Nat /\ K - c = l /\ K + h = (p + q) + c
    BY <1>2, <1>14, <2>1
  <2>3. i = s \div h /\ l = s % h /\ 2 ^ i = 2 * (Q * P)
    BY <1>4, <1>12, <1>14, <2>1
  <2>4. PICK n \in Nat : /\ Shrunk(D, s, h, 32) = Kept(n, l, K)
                         /\ (2 * P) * n <= x /\ x <= (2 * P) * (n + 1)
    BY <1>10, <2>2, <2>3
  <2>5. Stretches(D, d, u, t, h, P, x, m, n, p, q, c, 2)
    BY <1>2, <1>4, <1>6, <1>7, <1>8, <1>14, <2>1, <2>2, <2>4 DEF Stretches
  <2> QED
    BY <2>5
<1> QED
  BY <1>2, <1>13, <1>14

\* Below neutral a fault adds to the distance, and beginning the interpolation anew from
\* there leaves more of it.
LEMMA FaultBelow ==
    ASSUME PowersOfTwo, NEW D \in Nat, D <= 5000, NEW d \in Nat, d <= 5000,
           NEW u \in Nat, NEW t \in Nat, NEW h \in Nat \ {0}, Shrunk(D, u, h, 32) <= d + 1
    PROVE  Shrunk(D, u + t, h, 32) <= Shrunk(d, t, h, 32) + 1
<1>1. PICK P, x, m, n, p, q, c, z : Stretches(D, d, u, t, h, P, x, m, n, p, q, c, z)
  BY TwoStretches
<1>2. PICK K, g, w, l : K = 2 * h /\ g = 2 * h - p /\ w = 2 * h - q /\ l = 2 * h - c
  OBVIOUS
<1>3. PICK B, L, R : B = Kept(x, p, K) /\ L = Kept(m, q, K) /\ R = Kept(n, l, K)
  OBVIOUS
<1>4. /\ Shrunk(D, u, h, 32) = B /\ Shrunk(d, t, h, 32) = L /\ Shrunk(D, u + t, h, 32) = R
  BY <1>1, <1>2, <1>3 DEF Stretches
<1>5. /\ P \in Nat \ {0} /\ x \in Nat /\ m \in Nat /\ n \in Nat
      /\ p \in Nat /\ q \in Nat /\ c \in Nat /\ p < h /\ q < h
      /\ d < P * (m + 1) /\ (z * P) * n <= x
  BY <1>1 DEF Stretches
<1>6. \/ z = 1 /\ p + q < h /\ 2 * h = (p + q) + c
      \/ z = 2 /\ p + q >= h /\ 2 * h + h = (p + q) + c
  BY <1>1 DEF Stretches
<1>7. /\ K \in Nat \ {0} /\ g \in Nat /\ w \in Nat /\ l \in Nat /\ z \in Nat \ {0}
      /\ K = p + g /\ K = q + w /\ K = l + c /\ w <= K
  BY <1>2, <1>5, <1>6
<1>8. /\ B \in Nat /\ L \in Nat /\ R \in Nat
      /\ x * g <= K * B /\ m * w <= K * L /\ K * R < n * c + K
  <2>1. B \in 0 .. x /\ x * g <= K * B
    <3>1. x \in Nat /\ p \in Nat /\ g \in Nat /\ K \in Nat \ {0} /\ K = p + g
      BY <1>5, <1>7
    <3>2. B = Kept(x, p, K)
      BY <1>3
    <3> QED
      BY <3>1, <3>2, KeptIs
  <2>2. L \in 0 .. m /\ m * w <= K * L
    <3>1. m \in Nat /\ q \in Nat /\ w \in Nat /\ K \in Nat \ {0} /\ K = q + w
      BY <1>5, <1>7
    <3>2. L = Kept(m, q, K)
      BY <1>3
    <3> QED
      BY <3>1, <3>2, KeptIs
  <2>3. R \in 0 .. n /\ K * R < n * c + K
    <3>1. n \in Nat /\ l \in Nat /\ c \in Nat /\ K \in Nat \ {0} /\ K = l + c
      BY <1>5, <1>7
    <3>2. R = Kept(n, l, K)
      BY <1>3
    <3> QED
      BY <3>1, <3>2, KeptIs
  <2> QED
    BY <2>1, <2>2, <2>3
<1>9. B <= P * (m + 1)
  <2>1. P * (m + 1) \in Nat
    BY <1>5
  <2> QED
    BY <1>4, <1>5, <1>8, <2>1
<1>10. K * c <= z * (g * w)
  <2>1. CASE z = 1 /\ p + q < h /\ 2 * h = (p + q) + c
    <3>1. c = K - p - q /\ g = K - p /\ w = K - q
      BY <1>2, <1>5, <1>7, <2>1
    <3>2. (K - p) * (K - q) = K * (K - p - q) + p * q
      BY <1>5, <1>7
    <3>3. p * q \in Nat /\ K * c \in Nat /\ g * w \in Nat /\ z * (g * w) = g * w
      BY <1>5, <1>7, <2>1
    <3> QED
      BY <3>1, <3>2, <3>3
  <2>2. CASE z = 2 /\ p + q >= h /\ 2 * h + h = (p + q) + c
    <3>1. c = 3 * h - p - q /\ g = 2 * h - p /\ w = 2 * h - q
      BY <1>2, <1>5, <1>7, <2>2
    <3>2. 2 * ((2 * h - p) * (2 * h - q)) =
            (2 * h) * (3 * h - p - q) + 2 * ((h - p) * (h - q))
      BY <1>5
    <3>3. (h - p) * (h - q) \in Nat
      <4>1. h - p \in Nat /\ h - q \in Nat
        BY <1>5
      <4> QED
        BY <4>1
    <3>4. K * c \in Nat /\ z * (g * w) = 2 * (g * w)
      BY <1>5, <1>7, <2>2
    <3> QED
      BY <1>2, <3>1, <3>2, <3>3, <3>4
  <2> QED
    BY <1>6, <2>1, <2>2
<1> QED
  BY <1>4, <1>5, <1>7, <1>8, <1>9, <1>10, RestartLeavesMore

\* Above neutral beginning the interpolation anew favours what is left of the distance,
\* by less than the haircut took.
LEMMA FaultAbove ==
    ASSUME PowersOfTwo, NEW D \in Nat, D <= 5000, NEW d \in Nat, d <= 5000,
           NEW u \in Nat, NEW t \in Nat, NEW h \in Nat \ {0}
    PROVE  10 * d + 4991 <= 9 * Shrunk(D, u, h, 32)
             => Shrunk(d, t, h, 32) <= Shrunk(D, u + t, h, 32) + 1
<1>1. PICK P, x, m, n, p, q, c, z : Stretches(D, d, u, t, h, P, x, m, n, p, q, c, z)
  BY TwoStretches
<1> SUFFICES ASSUME 10 * d + 4991 <= 9 * Shrunk(D, u, h, 32)
             PROVE  Shrunk(d, t, h, 32) <= Shrunk(D, u + t, h, 32) + 1
  OBVIOUS
<1>2. PICK K, g, w, l : K = 2 * h /\ g = 2 * h - p /\ w = 2 * h - q /\ l = 2 * h - c
  OBVIOUS
<1>3. PICK B, L, R : B = Kept(x, p, K) /\ L = Kept(m, q, K) /\ R = Kept(n, l, K)
  OBVIOUS
<1>4. /\ Shrunk(D, u, h, 32) = B /\ Shrunk(d, t, h, 32) = L /\ Shrunk(D, u + t, h, 32) = R
  BY <1>1, <1>2, <1>3 DEF Stretches
<1>5. /\ P \in Nat \ {0} /\ x \in Nat /\ m \in Nat /\ n \in Nat
      /\ p \in Nat /\ q \in Nat /\ c \in Nat /\ p < h /\ q < h /\ x <= D
      /\ P * m <= d /\ x <= (z * P) * (n + 1)
  BY <1>1 DEF Stretches
<1>6. \/ z = 1 /\ p + q < h /\ 2 * h = (p + q) + c
      \/ z = 2 /\ p + q >= h /\ 2 * h + h = (p + q) + c
  BY <1>1 DEF Stretches
<1>7. /\ K \in Nat \ {0} /\ g \in Nat /\ w \in Nat /\ l \in Nat /\ z \in Nat \ {0}
      /\ K = p + g /\ K = q + w /\ K = l + c /\ c <= K /\ x <= 5000
  BY <1>2, <1>5, <1>6
<1>8. /\ B \in Nat /\ L \in Nat /\ R \in Nat
      /\ K * B < x * g + K /\ K * L < m * w + K /\ n * c <= K * R
  <2>1. B \in 0 .. x /\ K * B < x * g + K
    <3>1. x \in Nat /\ p \in Nat /\ g \in Nat /\ K \in Nat \ {0} /\ K = p + g
      BY <1>5, <1>7
    <3>2. B = Kept(x, p, K)
      BY <1>3
    <3> QED
      BY <3>1, <3>2, KeptIs
  <2>2. L \in 0 .. m /\ K * L < m * w + K
    <3>1. m \in Nat /\ q \in Nat /\ w \in Nat /\ K \in Nat \ {0} /\ K = q + w
      BY <1>5, <1>7
    <3>2. L = Kept(m, q, K)
      BY <1>3
    <3> QED
      BY <3>1, <3>2, KeptIs
  <2>3. R \in 0 .. n /\ n * c <= K * R
    <3>1. n \in Nat /\ l \in Nat /\ c \in Nat /\ K \in Nat \ {0} /\ K = l + c
      BY <1>5, <1>7
    <3>2. R = Kept(n, l, K)
      BY <1>3
    <3> QED
      BY <3>1, <3>2, KeptIs
  <2> QED
    BY <2>1, <2>2, <2>3
<1>9. /\ K = p + q + c /\ p + q < h => d * w <= x * c
      /\ K + h = p + q + c /\ p + q >= h => 2 * (d * w) <= x * c
  <2>1. 10 * d + 4991 <= 9 * B /\ K = 2 * h
    BY <1>2, <1>4
  <2> QED
    BY <1>5, <1>7, <1>8, <2>1, HaircutCovers
<1>10. z * (d * w) <= x * c
  <2>1. CASE z = 1 /\ p + q < h /\ 2 * h = (p + q) + c
    <3>1. d * w <= x * c /\ d * w \in Nat
      BY <1>2, <1>5, <1>7, <1>9, <2>1
    <3>2. z * (d * w) = d * w
      BY <2>1, <3>1
    <3> QED
      BY <3>1, <3>2
  <2>2. CASE z = 2 /\ p + q >= h /\ 2 * h + h = (p + q) + c
    <3>1. 2 * (d * w) <= x * c
      BY <1>2, <1>5, <1>7, <1>9, <2>2
    <3> QED
      BY <2>2, <3>1
  <2> QED
    BY <1>6, <2>1, <2>2
<1> QED
  BY <1>4, <1>5, <1>7, <1>8, <1>10, RestartLeavesLess

-----------------------------------------------------------------------------
(* What a fault is worth in the end.                                       *)

LEMMA NearNeutral ==
    ASSUME NEW s \in Scores
    PROVE  /\ s \in Nat /\ Distance(s, NEUTRAL) \in Nat /\ Distance(s, NEUTRAL) <= 5000
           /\ Distance(s, NEUTRAL) = IF s > 5000 THEN s - 5000 ELSE 5000 - s
<1>1. s \in Nat /\ s <= 10000
  BY ScoreRange
<1> QED
  BY <1>1 DEF Distance, NEUTRAL

\* What is left of a score's distance from neutral, and the score it makes.
Faded(s, e, h) == Shrunk(Distance(s, NEUTRAL), e, h, 32)

LEMMA DecayIs ==
    ASSUME PowersOfTwo, NEW s \in Scores, NEW e \in Nat, NEW h \in Nat \ {0}
    PROVE  /\ Faded(s, e, h) \in Nat /\ Faded(s, e, h) <= Distance(s, NEUTRAL)
           /\ decay(s, e, h) = IF s > 5000 THEN 5000 + Faded(s, e, h) ELSE 5000 - Faded(s, e, h)
<1>1. PICK v, x : v = Distance(s, NEUTRAL) /\ x = Faded(s, e, h)
  OBVIOUS
<1>2. v \in Nat
  BY <1>1, NearNeutral
<1>3. x \in 0 .. v
  BY <1>1, <1>2, ShrunkBound DEF Faded
<1>4. decay(s, e, h) = IF s > NEUTRAL THEN NEUTRAL + x ELSE NEUTRAL - x
  BY <1>1, Zenon DEF decay, Faded
<1> QED
  BY <1>1, <1>2, <1>3, <1>4 DEF NEUTRAL

\* Time keeps the order of two scores, and does not add to one point between them.
LEMMA DecayInOrder ==
    ASSUME PowersOfTwo, NEW s \in Scores, NEW g \in Scores, s <= g + 1,
           NEW e \in Nat, NEW h \in Nat \ {0}
    PROVE  decay(s, e, h) <= decay(g, e, h) + 1
<1>1. PICK v, w : v = Distance(s, NEUTRAL) /\ w = Distance(g, NEUTRAL)
  OBVIOUS
<1>2. /\ s \in Nat /\ g \in Nat /\ v \in Nat /\ w \in Nat /\ v <= 5000 /\ w <= 5000
      /\ v = (IF s > 5000 THEN s - 5000 ELSE 5000 - s)
      /\ w = (IF g > 5000 THEN g - 5000 ELSE 5000 - g)
  BY <1>1, NearNeutral
<1>3. PICK x, y : x = Faded(s, e, h) /\ y = Faded(g, e, h)
  OBVIOUS
<1>4. /\ x \in Nat /\ x <= v /\ decay(s, e, h) = IF s > 5000 THEN 5000 + x ELSE 5000 - x
  <2>1. /\ Faded(s, e, h) \in Nat /\ Faded(s, e, h) <= Distance(s, NEUTRAL)
        /\ decay(s, e, h) = IF s > 5000 THEN 5000 + Faded(s, e, h) ELSE 5000 - Faded(s, e, h)
    BY DecayIs
  <2> QED
    BY <1>1, <1>3, <2>1
<1>5. /\ y \in Nat /\ y <= w /\ decay(g, e, h) = IF g > 5000 THEN 5000 + y ELSE 5000 - y
  <2>1. /\ Faded(g, e, h) \in Nat /\ Faded(g, e, h) <= Distance(g, NEUTRAL)
        /\ decay(g, e, h) = IF g > 5000 THEN 5000 + Faded(g, e, h) ELSE 5000 - Faded(g, e, h)
    BY DecayIs
  <2> QED
    BY <1>1, <1>3, <2>1
<1>6. x = Shrunk(v, e, h, 32) /\ y = Shrunk(w, e, h, 32)
  BY <1>1, <1>3 DEF Faded
<1>7. (v <= w => x <= y) /\ (v <= w + 1 => x <= y + 1)
  BY <1>2, <1>6, ShrunkInOrder
<1>8. (w <= v => y <= x) /\ (w <= v + 1 => y <= x + 1)
  BY <1>2, <1>6, ShrunkInOrder
<1> QED
  BY <1>2, <1>4, <1>5, <1>7, <1>8

\* Neither does an observation: both scores move the same part of the way to it.
LEMMA ObserveInOrder ==
    ASSUME NEW s \in Scores, NEW g \in Scores, s <= g + 1, NEW q \in Scores,
           NEW w \in Nat, NEW k \in Nat \ {0}
    PROVE  observe(s, q, w, k) <= observe(g, q, w, k) + 1
<1>1. PICK d : d = w + k
  OBVIOUS
<1>2. s \in Nat /\ g \in Nat /\ q \in Nat /\ d \in Nat \ {0} /\ w <= d
  BY <1>1, NearNeutral
<1>3. \A x \in Nat, y \in Nat :
        /\ Kept(x, w, d) \in 0 .. x
        /\ x <= y => Kept(x, w, d) <= Kept(y, w, d)
        /\ y <= x + 1 => Kept(y, w, d) <= Kept(x, w, d) + 1
  <2>1. ASSUME NEW x \in Nat PROVE Kept(x, w, d) \in 0 .. x
    BY <1>1, <1>2, KeptIs
  <2> QED
    BY <1>2, <2>1, KeptInOrder
<1>4. ASSUME NEW z \in Scores
      PROVE  observe(z, q, w, k) = IF q >= z THEN q - Kept(q - z, w, d) ELSE q + Kept(z - q, w, d)
  <2>1. z \in Nat
    BY NearNeutral
  <2>2. CASE q >= z
    <3>1. PICK v, x : v = q - z /\ x = (v * w) \div d
      OBVIOUS
    <3>2. v \in Nat /\ x \in Nat
      <4>1. v \in Nat
        BY <1>2, <2>1, <2>2, <3>1
      <4>2. v * w \in Nat
        BY <4>1
      <4> QED
        BY <1>2, <3>1, <4>1, <4>2, QuotientOf
    <3>3. observe(z, q, w, k) = z + x /\ Kept(q - z, w, d) = v - x
      BY <1>1, <2>2, <3>1, Zenon DEF observe, Kept
    <3> QED
      BY <1>2, <2>1, <2>2, <3>1, <3>2, <3>3
  <2>3. CASE ~(q >= z)
    <3>1. PICK v, x : v = z - q /\ x = (v * w) \div d
      OBVIOUS
    <3>2. v \in Nat /\ x \in Nat
      <4>1. v \in Nat
        BY <1>2, <2>1, <2>3, <3>1
      <4>2. v * w \in Nat
        BY <4>1
      <4> QED
        BY <1>2, <3>1, <4>1, <4>2, QuotientOf
    <3>3. observe(z, q, w, k) = z - x /\ Kept(z - q, w, d) = v - x
      BY <1>1, <2>3, <3>1, Zenon DEF observe, Kept
    <3> QED
      BY <1>2, <2>1, <2>3, <3>1, <3>2, <3>3
  <2> QED
    BY <2>2, <2>3
<1>5. CASE q >= s /\ q >= g
  <2>1. PICK v, u : v = q - s /\ u = q - g
    OBVIOUS
  <2>2. v \in Nat /\ u \in Nat /\ u <= v + 1
    BY <1>2, <1>5, <2>1
  <2>3. PICK x, y : x = Kept(v, w, d) /\ y = Kept(u, w, d)
    OBVIOUS
  <2>4. x \in Nat /\ y \in Nat /\ y <= x + 1
    BY <1>3, <2>2, <2>3
  <2>5. observe(s, q, w, k) = q - x /\ observe(g, q, w, k) = q - y
    BY <1>4, <1>5, <2>1, <2>3
  <2> QED
    BY <1>2, <2>4, <2>5
<1>6. CASE ~(q >= s) /\ ~(q >= g)
  <2>1. PICK v, u : v = s - q /\ u = g - q
    OBVIOUS
  <2>2. v \in Nat /\ u \in Nat /\ v <= u + 1
    BY <1>2, <1>6, <2>1
  <2>3. PICK x, y : x = Kept(v, w, d) /\ y = Kept(u, w, d)
    OBVIOUS
  <2>4. x \in Nat /\ y \in Nat /\ x <= y + 1
    BY <1>3, <2>2, <2>3
  <2>5. observe(s, q, w, k) = q + x /\ observe(g, q, w, k) = q + y
    BY <1>4, <1>6, <2>1, <2>3
  <2> QED
    BY <1>2, <2>4, <2>5
<1>7. CASE ~(q >= s) /\ q >= g
  <2>1. s - q = 1 /\ q - g = 0
    BY <1>2, <1>7
  <2>2. Kept(1, w, d) \in 0 .. 1 /\ Kept(0, w, d) \in 0 .. 0
    BY <1>3
  <2>3. observe(s, q, w, k) = q + Kept(1, w, d) /\ observe(g, q, w, k) = q - Kept(0, w, d)
    BY <1>4, <1>7, <2>1
  <2> QED
    BY <1>2, <2>2, <2>3
<1>8. CASE q >= s /\ ~(q >= g)
  <2>1. PICK v, u : v = q - s /\ u = g - q
    OBVIOUS
  <2>2. v \in Nat /\ u \in Nat
    BY <1>2, <1>8, <2>1
  <2>3. PICK x, y : x = Kept(v, w, d) /\ y = Kept(u, w, d)
    OBVIOUS
  <2>4. x \in Nat /\ y \in Nat
    BY <1>3, <2>2, <2>3
  <2>5. observe(s, q, w, k) = q - x /\ observe(g, q, w, k) = q + y
    BY <1>4, <1>8, <2>1, <2>3
  <2> QED
    BY <1>2, <2>4, <2>5
<1> QED
  BY <1>5, <1>6, <1>7, <1>8

LEMMA HaircutTakes ==
    ASSUME NEW x \in Scores, NEW b \in Bps, b >= 1000
    PROVE  haircut(x, b) \in Scores /\ 10 * haircut(x, b) <= 9 * x
<1>1. x \in Nat /\ x <= 10000 /\ b \in Nat /\ b <= 10000
  BY ScoreRange, BpsRange
<1>2. PICK p, y : p = x * (10000 - b) /\ y = p \div 10000
  OBVIOUS
<1>3. p \in Nat /\ p <= x * 9000
  <2>1. 10000 - b \in Nat /\ 10000 - b <= 9000
    BY <1>1
  <2>2. x * (10000 - b) <= x * 9000
    BY <1>1, <2>1, TimesKeepsOrder
  <2> QED
    BY <1>1, <1>2, <2>1, <2>2
<1>4. y \in Nat /\ 10 * y <= 9 * x
  BY <1>1, <1>2, <1>3
<1>5. haircut(x, b) = y
  BY <1>2 DEF haircut, BpsOf, BpsDenominator
<1> QED
  BY <1>4, <1>5, HaircutType

IsFaded(s, e, h) ==
    /\ Faded(s, e, h) \in Nat /\ Faded(s, e, h) <= Distance(s, NEUTRAL)
    /\ decay(s, e, h) = IF s > 5000 THEN 5000 + Faded(s, e, h) ELSE 5000 - Faded(s, e, h)

LEMMA FadedIs ==
    ASSUME PowersOfTwo, NEW h \in Nat \ {0}
    PROVE  \A s \in Scores, e \in Nat : IsFaded(s, e, h)
BY DecayIs DEF IsFaded

\* A fault now, on at most one point more than the record b scores after u: at every
\* instant from now on it leaves at most one point more than b scores then.
LEMMA FaultLeavesLess ==
    ASSUME PowersOfTwo, NEW b \in Scores, NEW x \in Scores, NEW u \in Nat, NEW t \in Nat,
           NEW h \in Nat \ {0}, NEW bps \in Bps, bps >= 1000
    PROVE  x <= decay(b, u, h) + 1 => decay(haircut(x, bps), t, h) <= decay(b, u + t, h) + 1
<1>1. \A D, d \in Nat : D <= 5000 /\ d <= 5000 =>
        /\ Shrunk(D, u, h, 32) <= d + 1 => Shrunk(D, u + t, h, 32) <= Shrunk(d, t, h, 32) + 1
        /\ 10 * d + 4991 <= 9 * Shrunk(D, u, h, 32)
             => Shrunk(d, t, h, 32) <= Shrunk(D, u + t, h, 32) + 1
  <2>1. ASSUME NEW D \in Nat, NEW d \in Nat, D <= 5000, d <= 5000
        PROVE  10 * d + 4991 <= 9 * Shrunk(D, u, h, 32)
                => Shrunk(d, t, h, 32) <= Shrunk(D, u + t, h, 32) + 1
    BY <2>1, FaultAbove
  <2>2. ASSUME NEW D \in Nat, NEW d \in Nat, D <= 5000, d <= 5000
        PROVE  Shrunk(D, u, h, 32) <= d + 1 => Shrunk(D, u + t, h, 32) <= Shrunk(d, t, h, 32) + 1
    BY <2>2, FaultBelow
  <2> QED
    BY <2>1, <2>2
<1> SUFFICES ASSUME x <= decay(b, u, h) + 1
             PROVE  decay(haircut(x, bps), t, h) <= decay(b, u + t, h) + 1
  OBVIOUS
<1>2. PICK y : y = haircut(x, bps)
  OBVIOUS
<1>3. y \in Scores /\ 10 * y <= 9 * x
  BY <1>2, HaircutTakes
<1>4. PICK D, d : D = Distance(b, NEUTRAL) /\ d = Distance(y, NEUTRAL)
  OBVIOUS
<1>5. /\ b \in Nat /\ y \in Nat /\ x \in Nat /\ D \in Nat /\ d \in Nat /\ D <= 5000 /\ d <= 5000
      /\ D = (IF b > 5000 THEN b - 5000 ELSE 5000 - b)
      /\ d = (IF y > 5000 THEN y - 5000 ELSE 5000 - y)
  BY <1>3, <1>4, NearNeutral
<1>6. PICK B, L, R : B = Faded(b, u, h) /\ L = Faded(y, t, h) /\ R = Faded(b, u + t, h)
  OBVIOUS
<1>7. B \in Nat /\ B <= D /\ decay(b, u, h) = IF b > 5000 THEN 5000 + B ELSE 5000 - B
  <2>1. /\ Faded(b, u, h) \in Nat /\ Faded(b, u, h) <= Distance(b, NEUTRAL)
        /\ decay(b, u, h) = IF b > 5000 THEN 5000 + Faded(b, u, h) ELSE 5000 - Faded(b, u, h)
    BY FadedIs DEF IsFaded
  <2> QED
    BY <1>4, <1>6, <2>1
<1>8. L \in Nat /\ L <= d /\ decay(y, t, h) = IF y > 5000 THEN 5000 + L ELSE 5000 - L
  <2>1. /\ Faded(y, t, h) \in Nat /\ Faded(y, t, h) <= Distance(y, NEUTRAL)
        /\ decay(y, t, h) = IF y > 5000 THEN 5000 + Faded(y, t, h) ELSE 5000 - Faded(y, t, h)
    <3>1. y \in Scores
      BY <1>3
    <3>2. IsFaded(y, t, h)
      BY <3>1, FadedIs, Zenon
    <3> QED
      BY <3>2 DEF IsFaded
  <2> QED
    BY <1>4, <1>6, <2>1
<1>9. R \in Nat /\ R <= D /\ decay(b, u + t, h) = IF b > 5000 THEN 5000 + R ELSE 5000 - R
  <2>1. PICK e \in Nat : e = u + t
    OBVIOUS
  <2>2. /\ Faded(b, e, h) \in Nat /\ Faded(b, e, h) <= Distance(b, NEUTRAL)
        /\ decay(b, e, h) = IF b > 5000 THEN 5000 + Faded(b, e, h) ELSE 5000 - Faded(b, e, h)
    BY FadedIs DEF IsFaded
  <2> QED
    BY <1>4, <1>6, <2>1, <2>2
<1>10. B = Shrunk(D, u, h, 32) /\ L = Shrunk(d, t, h, 32) /\ R = Shrunk(D, u + t, h, 32)
  BY <1>4, <1>6 DEF Faded
<1>11. CASE ~(b > 5000)
  <2>1. x <= (5000 - B) + 1 /\ B <= 5000
    BY <1>5, <1>7, <1>11
  <2>2. y < 5000 /\ d = 5000 - y /\ B <= d + 1
    BY <1>3, <1>5, <1>7, <2>1
  <2> QED
    <3>1. R <= L + 1
      BY <1>1, <1>5, <1>10, <2>2
    <3>2. decay(y, t, h) = 5000 - L /\ decay(b, u + t, h) = 5000 - R
      BY <1>5, <1>8, <1>9, <1>11, <2>2
    <3> QED
      BY <1>2, <1>8, <1>9, <3>1, <3>2
<1>12. CASE b > 5000 /\ ~(y > 5000)
  BY <1>2, <1>5, <1>8, <1>9, <1>12
<1>13. CASE b > 5000 /\ y > 5000
  <2>1. x <= (5000 + B) + 1
    BY <1>5, <1>7, <1>13
  <2>2. d = y - 5000 /\ 10 * d + 4991 <= 9 * B
    BY <1>3, <1>5, <1>7, <1>13, <2>1
  <2> QED
    <3>1. L <= R + 1
      BY <1>1, <1>5, <1>10, <2>2
    <3>2. decay(y, t, h) = 5000 + L /\ decay(b, u + t, h) = 5000 + R
      BY <1>5, <1>8, <1>9, <1>13, <2>2
    <3> QED
      BY <1>2, <1>8, <1>9, <3>1, <3>2
<1> QED
  BY <1>11, <1>12, <1>13

\* Both haircuts take a tenth at least.
Outweigh(p) == p.livenessHaircutBps >= 1000 /\ p.verificationHaircutBps >= 1000

\* setParameters allows less, down to nothing, and with nothing a fault above neutral
\* would pay: it begins the interpolation anew.
HaircutsOutweigh == \A p \in ParamChoices \cup {InitialParams} : Outweigh(p)

\* At no instant e from now does the one score above the other.
NoBetter(rec, bl, at, h) ==
    \A e \in Nat : decay(rec.score, (at + e) - rec.lastUpdateAt, h)
                     <= decay(bl.score, (at + e) - bl.lastUpdateAt, h) + 1

\* The comparison is inductive only for all the instants to come: a fault restates the
\* score from which the interpolation goes on.
FaultInv ==
    /\ Outweigh(params)
    /\ blameless \in [Agents -> Record]
    /\ \A a \in Agents : blameless[a].lastUpdateAt <= now
    /\ \A a \in Initialized : NoBetter(records[a], blameless[a], now, params.decayHalfLife)

\* A record not touched in the future scores now, and e from now.
LEMMA ScoreIn ==
    ASSUME PowersOfTwo, NEW rec \in Record, NEW at \in Nat, rec.lastUpdateAt <= at,
           NEW h \in Nat \ {0}, NEW e \in Nat
    PROVE  /\ rec.score \in Scores /\ rec.lastUpdateAt \in Nat
           /\ (at + e) - rec.lastUpdateAt \in Nat /\ at - rec.lastUpdateAt \in Nat
           /\ (at + e) - rec.lastUpdateAt = (at - rec.lastUpdateAt) + e
           /\ decay(rec.score, (at + e) - rec.lastUpdateAt, h) \in Nat
           /\ decay(rec.score, at - rec.lastUpdateAt, h) \in Scores
<1>1. rec.score \in Scores /\ rec.lastUpdateAt \in Nat
  BY DEF Record
<1>2. /\ (at + e) - rec.lastUpdateAt \in Nat /\ at - rec.lastUpdateAt \in Nat
      /\ (at + e) - rec.lastUpdateAt = (at - rec.lastUpdateAt) + e
  BY <1>1
<1>3. \A i \in Nat : decay(rec.score, i, h) \in Scores
  BY <1>1, DecayType
<1>4. \A i \in Nat : decay(rec.score, i, h) \in Nat
  BY <1>3, NearNeutral
<1> QED
  BY <1>1, <1>2, <1>3, <1>4

LEMMA SameNoBetter ==
    ASSUME PowersOfTwo, NEW rec \in Record, NEW at \in Nat, rec.lastUpdateAt <= at,
           NEW h \in Nat \ {0}
    PROVE  NoBetter(rec, rec, at, h)
<1> SUFFICES ASSUME NEW e \in Nat
             PROVE  decay(rec.score, (at + e) - rec.lastUpdateAt, h)
                      <= decay(rec.score, (at + e) - rec.lastUpdateAt, h) + 1
  BY DEF NoBetter
<1>1. decay(rec.score, (at + e) - rec.lastUpdateAt, h) \in Nat
  BY ScoreIn
<1> QED
  BY <1>1

LEMMA WaitingNoBetter ==
    ASSUME NEW rec, NEW bl, NEW at \in Nat, NEW h, NoBetter(rec, bl, at, h)
    PROVE  NoBetter(rec, bl, at + 1, h)
<1> SUFFICES ASSUME NEW e \in Nat
             PROVE  decay(rec.score, ((at + 1) + e) - rec.lastUpdateAt, h)
                      <= decay(bl.score, ((at + 1) + e) - bl.lastUpdateAt, h) + 1
  BY DEF NoBetter
<1>1. PICK i : i = e + 1
  OBVIOUS
<1>2. i \in Nat /\ (at + 1) + e = at + i
  BY <1>1
<1>3. decay(rec.score, (at + i) - rec.lastUpdateAt, h)
        <= decay(bl.score, (at + i) - bl.lastUpdateAt, h) + 1
  BY <1>2, Zenon DEF NoBetter
<1> QED
  BY <1>2, <1>3

\* One observation of both.
LEMMA ObservedNoBetter ==
    ASSUME PowersOfTwo, ShapeInv, NEW rec \in Record, NEW bl \in Record,
           rec.lastUpdateAt <= now, bl.lastUpdateAt <= now,
           NoBetter(rec, bl, now, params.decayHalfLife), NEW q \in Scores, NEW w \in Nat
    PROVE  NoBetter(Observed(rec, q, w), Observed(bl, q, w), now, params.decayHalfLife)
<1>1. PICK h, k : h = params.decayHalfLife /\ k = params.halfWeight
  OBVIOUS
<1>2. h \in Nat \ {0} /\ k \in Nat \ {0} /\ now \in Nat
  BY <1>1, ParamTypes
<1>3. PICK s, g : s = ScoreNow(rec) /\ g = ScoreNow(bl)
  OBVIOUS
<1>4. s \in Scores /\ g \in Scores /\ s <= g + 1
  <2>1. s = decay(rec.score, now - rec.lastUpdateAt, h) /\ g = decay(bl.score, now - bl.lastUpdateAt, h)
    BY <1>1, <1>3 DEF ScoreNow
  <2>2. s \in Scores /\ g \in Scores
    <3>1. 0 \in Nat
      OBVIOUS
    <3> QED
      BY <1>2, <2>1, <3>1, ScoreIn
  <2>3. decay(rec.score, (now + 0) - rec.lastUpdateAt, h)
          <= decay(bl.score, (now + 0) - bl.lastUpdateAt, h) + 1
    BY <1>1 DEF NoBetter
  <2>4. now + 0 = now
    BY <1>2
  <2> QED
    BY <2>1, <2>2, <2>3, <2>4
<1>5. PICK x, y : x = observe(s, q, w, k) /\ y = observe(g, q, w, k)
  OBVIOUS
<1>6. x \in Scores /\ y \in Scores /\ x <= y + 1
  BY <1>2, <1>4, <1>5, ObserveType, ObserveInOrder
<1>7. /\ Observed(rec, q, w).score = x /\ Observed(rec, q, w).lastUpdateAt = now
      /\ Observed(bl, q, w).score = y /\ Observed(bl, q, w).lastUpdateAt = now
  BY <1>1, <1>3, <1>5 DEF Observed, Record
<1>8. ASSUME NEW e \in Nat PROVE decay(x, (now + e) - now, h) <= decay(y, (now + e) - now, h) + 1
  <2>1. (now + e) - now = e
    BY <1>2
  <2>2. decay(x, e, h) <= decay(y, e, h) + 1
    BY <1>2, <1>6, DecayInOrder
  <2> QED
    BY <2>1, <2>2
<1> QED
  BY <1>1, <1>7, <1>8 DEF NoBetter

\* A fault of the one.
LEMMA FaultedNoBetter ==
    ASSUME PowersOfTwo, ShapeInv, NEW rec \in Record, NEW bl \in Record,
           rec.lastUpdateAt <= now, bl.lastUpdateAt <= now,
           NoBetter(rec, bl, now, params.decayHalfLife), NEW kind,
           HaircutBps(kind) \in Bps, HaircutBps(kind) >= 1000
    PROVE  NoBetter(Faulted(rec, kind), bl, now, params.decayHalfLife)
<1>1. PICK h, k : h = params.decayHalfLife /\ k = HaircutBps(kind)
  OBVIOUS
<1>2. h \in Nat \ {0} /\ now \in Nat
  BY <1>1, ParamTypes
<1>3. PICK s, b, u : s = ScoreNow(rec) /\ b = bl.score /\ u = now - bl.lastUpdateAt
  OBVIOUS
<1>4. s \in Scores /\ b \in Scores /\ u \in Nat /\ s <= decay(b, u, h) + 1
  <2>1. s = decay(rec.score, now - rec.lastUpdateAt, h)
    BY <1>1, <1>3 DEF ScoreNow
  <2>2. 0 \in Nat /\ now + 0 = now
    BY <1>2
  <2>3. s \in Scores
    BY <1>2, <2>1, <2>2, ScoreIn
  <2>4. b \in Scores /\ u \in Nat
    BY <1>2, <1>3, <2>2, ScoreIn
  <2>5. decay(rec.score, (now + 0) - rec.lastUpdateAt, h)
          <= decay(bl.score, (now + 0) - bl.lastUpdateAt, h) + 1
    BY <1>1 DEF NoBetter
  <2> QED
    BY <1>3, <2>1, <2>2, <2>3, <2>4, <2>5
<1>5. Faulted(rec, kind).score = haircut(s, k) /\ Faulted(rec, kind).lastUpdateAt = now
  BY <1>1, <1>3 DEF Faulted, Record
<1>6. ASSUME NEW e \in Nat
      PROVE  decay(haircut(s, k), (now + e) - now, h) <= decay(b, (now + e) - bl.lastUpdateAt, h) + 1
  <2>1. (now + e) - now = e /\ (now + e) - bl.lastUpdateAt = u + e
    BY <1>2, <1>3, ScoreIn
  <2>2. k \in Bps /\ k >= 1000
    BY <1>1
  <2>3. decay(haircut(s, k), e, h) <= decay(b, u + e, h) + 1
    BY <1>2, <1>4, <2>2, FaultLeavesLess
  <2> QED
    BY <2>1, <2>3
<1> QED
  BY <1>1, <1>3, <1>5, <1>6 DEF NoBetter

\* The records observed without the faults are records too.
LEMMA ObservedType ==
    ASSUME PowersOfTwo, ShapeInv, NEW rec \in Record, rec.lastUpdateAt <= now,
           NEW q \in Scores, NEW w \in Nat
    PROVE  Observed(rec, q, w) \in Record /\ Observed(rec, q, w).lastUpdateAt = now
<1>1. PICK score, m : /\ score = observe(ScoreNow(rec), q, w, params.halfWeight)
                      /\ m = rec.settledExecutions + 1
  OBVIOUS
<1>2. score \in Scores
  <2>1. 0 \in Nat /\ now \in Nat /\ params.decayHalfLife \in Nat \ {0} /\ params.halfWeight \in Nat \ {0}
    BY ParamTypes
  <2>2. ScoreNow(rec) \in Scores
    BY <2>1, ScoreIn DEF ScoreNow
  <2> QED
    BY <1>1, <2>1, <2>2, ObserveType
<1>3. m \in Nat /\ now \in Nat
  BY <1>1, ParamTypes DEF Record
<1>4. Observed(rec, q, w) = [rec EXCEPT !.score = score, !.lastUpdateAt = now,
                                        !.lastActiveAt = now, !.settledExecutions = m]
  BY <1>1, Zenon DEF Observed
<1> QED
  BY <1>2, <1>3, <1>4 DEF Record

LEMMA FaultInit == HaircutsOutweigh /\ Init => FaultInv
<1> SUFFICES ASSUME HaircutsOutweigh, Init PROVE FaultInv
  OBVIOUS
<1>1. ShapeInv /\ blameless = records /\ params = InitialParams
  BY InitShape DEF Init, EngineInit
<1>2. Initialized = {}
  BY DEF Init, EngineInit, Initialized, NoRecord
<1> QED
  BY <1>1, <1>2 DEF FaultInv, HaircutsOutweigh, ShapeInv, EngineTypeOK

LEMMA FaultNext ==
    ASSUME PowersOfTwo, HaircutsOutweigh, ShapeInv, FaultInv, [Next]_allVars
    PROVE  FaultInv'
<1>1. /\ blameless \in [Agents -> Record] /\ records \in [Agents -> Record]
      /\ \A b \in Agents : blameless[b].lastUpdateAt <= now /\ records[b].lastUpdateAt <= now
      /\ \A b \in Initialized : NoBetter(records[b], blameless[b], now, params.decayHalfLife)
  BY DEF FaultInv, ShapeInv, EngineTypeOK
<1>2. /\ now \in Nat /\ params.decayHalfLife \in Nat \ {0}
      /\ \A kind : HaircutBps(kind) \in Bps /\ HaircutBps(kind) >= 1000
  BY ParamTypes DEF FaultInv, HaircutBps, Outweigh
<1>3. ASSUME NEW a \in Agents, NEW r \in Record, NEW b \in Record, b.lastUpdateAt <= now,
             NoBetter(r, b, now, params.decayHalfLife), params' = params, now' = now,
             records' = [records EXCEPT ![a] = r], blameless' = [blameless EXCEPT ![a] = b]
      PROVE  FaultInv'
  <2>1. /\ blameless' \in [Agents -> Record]
        /\ \A c \in Agents : blameless'[c].lastUpdateAt <= now
    BY <1>1, <1>3
  <2>2. ASSUME NEW c \in Initialized'
        PROVE  NoBetter(records'[c], blameless'[c], now, params.decayHalfLife)
    <3>1. c \in Agents
      BY DEF Initialized
    <3>2. CASE c = a
      BY <1>1, <1>3, <3>2
    <3>3. CASE c # a
      <4>1. records'[c] = records[c] /\ blameless'[c] = blameless[c]
        BY <1>1, <1>3, <3>1, <3>3
      <4>2. c \in Initialized
        BY <3>1, <4>1 DEF Initialized
      <4> QED
        BY <1>1, <4>1, <4>2
    <3> QED
      BY <3>2, <3>3
  <2>3. /\ \A c \in Initialized' :
             NoBetter(records'[c], blameless'[c], now', params'.decayHalfLife)
        /\ \A c \in Agents : blameless'[c].lastUpdateAt <= now'
    BY <1>3, <2>1, <2>2
  <2>4. Outweigh(params)'
    BY <1>3 DEF FaultInv, Outweigh
  <2> QED
    BY <2>1, <2>3, <2>4 DEF FaultInv
<1>4. ASSUME NEW a \in Agents, InitAgent(a) PROVE FaultInv'
  <2>1. PICK r, b : r = Begun(records[a]) /\ b = Begun(blameless[a])
    OBVIOUS
  <2>2. /\ r \in Record /\ b \in Record /\ r.lastUpdateAt = now /\ b.lastUpdateAt = now
        /\ r.score = NEUTRAL /\ b.score = NEUTRAL
    <3>1. NEUTRAL \in Scores
      BY ScoreRange DEF NEUTRAL
    <3>2. records[a] \in Record /\ blameless[a] \in Record
      BY <1>1
    <3>3. ASSUME NEW rec \in Record
          PROVE  /\ Begun(rec) \in Record /\ Begun(rec).lastUpdateAt = now
                 /\ Begun(rec).score = NEUTRAL
      <4>1. Begun(rec) \in Record
        <5>1. now \in Nat
          BY <1>2
        <5> QED
          BY <3>1, <5>1 DEF Begun, Record
      <4>2. Begun(rec).lastUpdateAt = now /\ Begun(rec).score = NEUTRAL
        BY DEF Begun, Record
      <4> QED
        BY <4>1, <4>2
    <3> QED
      BY <2>1, <3>2, <3>3
  <2>3. NoBetter(r, b, now, params.decayHalfLife)
    <3>1. NoBetter(r, r, now, params.decayHalfLife)
      BY <1>2, <2>2, SameNoBetter
    <3> QED
      BY <2>2, <3>1 DEF NoBetter
  <2>4. /\ records' = [records EXCEPT ![a] = r] /\ blameless' = [blameless EXCEPT ![a] = b]
        /\ params' = params /\ now' = now
    BY <1>4, <2>1 DEF InitAgent, initAgent
  <2> QED
    <3>1. b.lastUpdateAt <= now
      BY <1>2, <2>2
    <3> QED
      BY <1>3, <2>2, <2>3, <2>4, <3>1
<1>5. ASSUME NEW a \in Agents, NEW c \in Consumers, NEW o \in Outcomes, NEW n \in Notionals,
             NEW t \in Tolerances, NEW f \in ProtocolFees, RecordOutcome(a, c, o, n, t, f)
      PROVE  FaultInv'
  <2>1. PICK q, w : q = quality(o, t) /\ w = Granted(a, c, n, f)
    OBVIOUS
  <2>2. q \in Scores /\ w \in Nat
    <3>1. o \in Outcome /\ n \in Nat /\ t \in Nat /\ f \in Nat
      BY ReportsAssumption
    <3> QED
      BY <2>1, <3>1, QualityType, GrantedBound
  <2>3. PICK r, b : r = Observed(records[a], q, w) /\ b = Observed(blameless[a], q, w)
    OBVIOUS
  <2>4. a \in Initialized
    BY <1>5 DEF RecordOutcome, recordOutcome, MayRecord
  <2>5. /\ r \in Record /\ b \in Record /\ b.lastUpdateAt = now
        /\ NoBetter(r, b, now, params.decayHalfLife)
    <3>1. /\ records[a] \in Record /\ blameless[a] \in Record
          /\ records[a].lastUpdateAt <= now /\ blameless[a].lastUpdateAt <= now
          /\ NoBetter(records[a], blameless[a], now, params.decayHalfLife)
      BY <1>1, <2>4
    <3> QED
      BY <2>2, <2>3, <3>1, ObservedType, ObservedNoBetter
  <2>6. /\ records' = [records EXCEPT ![a] = r] /\ blameless' = [blameless EXCEPT ![a] = b]
        /\ params' = params /\ now' = now
    BY <1>5, <2>1, <2>3 DEF RecordOutcome, recordOutcome
  <2> QED
    <3>1. b.lastUpdateAt <= now
      BY <1>2, <2>5
    <3> QED
      BY <1>3, <2>5, <2>6, <3>1
<1>6. ASSUME NEW a \in Agents, NEW kind \in FaultKinds, RecordFault(a, kind) PROVE FaultInv'
  <2>1. PICK r : r = Faulted(records[a], kind)
    OBVIOUS
  <2>2. a \in Initialized
    BY <1>6 DEF RecordFault, recordFault, MayRecord
  <2>3. NoBetter(r, blameless[a], now, params.decayHalfLife)
    <3>1. /\ records[a] \in Record /\ blameless[a] \in Record
          /\ records[a].lastUpdateAt <= now /\ blameless[a].lastUpdateAt <= now
          /\ NoBetter(records[a], blameless[a], now, params.decayHalfLife)
      BY <1>1, <2>2
    <3> QED
      BY <1>2, <2>1, <3>1, FaultedNoBetter
  <2>4. /\ records' = [records EXCEPT ![a] = r] /\ blameless' = [blameless EXCEPT ![a] = blameless[a]]
        /\ params' = params /\ now' = now
    BY <1>1, <1>6, <2>1 DEF RecordFault, recordFault
  <2>5. r \in Record
    <3>1. ShapeInv'
      BY <1>6, RecordFaultShape
    <3>2. records'[a] \in Record /\ records'[a] = r
      BY <1>1, <2>4, <3>1 DEF ShapeInv, EngineTypeOK
    <3> QED
      BY <3>2
  <2>6. blameless[a] \in Record /\ blameless[a].lastUpdateAt <= now
    BY <1>1
  <2> QED
    BY <1>3, <2>3, <2>4, <2>5, <2>6
<1>7. ASSUME NEW p \in ParamChoices, SetParameters(p) PROVE FaultInv'
  <2>1. records' = records /\ params' = p /\ now' = now
    BY <1>7 DEF SetParameters, setParameters
  <2>2. Outweigh(p)
    BY DEF HaircutsOutweigh
  <2>3. Initialized' = Initialized /\ Initialized \subseteq Agents
    BY <2>1 DEF Initialized
  <2>4. CASE p.decayHalfLife = params.decayHalfLife
    <3>1. blameless' = blameless
      BY <1>7, <2>4 DEF SetParameters
    <3>2. \A a \in Initialized' : NoBetter(records'[a], blameless'[a], now', params'.decayHalfLife)
      BY <1>1, <2>1, <2>3, <2>4, <3>1
    <3> QED
      BY <1>1, <2>1, <2>2, <3>1, <3>2 DEF FaultInv, Outweigh
  <2>5. CASE p.decayHalfLife # params.decayHalfLife
    <3>1. blameless' = records
      BY <1>7, <2>5 DEF SetParameters
    <3>2. p.decayHalfLife \in Nat \ {0}
      BY <1>7, EngineParamsAssumption DEF SetParameters, setParameters, LegalParameters, Params
    <3>3. \A a \in Initialized' : NoBetter(records'[a], blameless'[a], now', params'.decayHalfLife)
      <4> SUFFICES ASSUME NEW a \in Initialized
                   PROVE  NoBetter(records[a], records[a], now, p.decayHalfLife)
        BY <2>1, <2>3, <3>1
      <4>1. records[a] \in Record /\ records[a].lastUpdateAt <= now
        BY <1>1, <2>3
      <4> QED
        BY <1>2, <3>2, <4>1, SameNoBetter
    <3> QED
      BY <1>1, <2>1, <2>2, <3>1, <3>3 DEF FaultInv, Outweigh
  <2> QED
    BY <2>4, <2>5
<1>8. CASE Tick /\ UNCHANGED <<engineVars, historyVars>>
  <2>1. now' = now + 1 /\ records' = records /\ blameless' = blameless /\ params' = params
    BY <1>8 DEF Tick, engineVars, historyVars
  <2>2. Initialized' = Initialized
    BY <2>1 DEF Initialized
  <2>3. \A a \in Initialized : NoBetter(records[a], blameless[a], now + 1, params.decayHalfLife)
    BY <1>1, <1>2, WaitingNoBetter
  <2>4. \A a \in Agents : blameless[a].lastUpdateAt <= now + 1
    <3> SUFFICES ASSUME NEW a \in Agents PROVE blameless[a].lastUpdateAt <= now + 1
      OBVIOUS
    <3>1. blameless[a].lastUpdateAt \in Nat /\ blameless[a].lastUpdateAt <= now
      BY <1>1 DEF Record
    <3> QED
      BY <1>2, <3>1
  <2> QED
    BY <2>1, <2>2, <2>3, <2>4 DEF FaultInv, Outweigh
<1>9. CASE UNCHANGED allVars
  <2>1. /\ records' = records /\ blameless' = blameless /\ params' = params /\ now' = now
    BY <1>9 DEF allVars, vars, engineVars, historyVars
  <2>2. Initialized' = Initialized
    BY <2>1 DEF Initialized
  <2> QED
    BY <2>1, <2>2 DEF FaultInv, Outweigh
<1> QED
  BY <1>4, <1>5, <1>6, <1>7, <1>8, <1>9 DEF Next

\* However many faults an agent is charged with, whatever it is reported for and for how
\* long it then waits: it never scores more than one basis point above the same agent
\* without the faults, for all half-lives and weights, where a haircut takes a tenth.
THEOREM NoFaultEverPays ==
    ASSUME PowersOfTwo, HaircutsOutweigh
    PROVE  Spec => []FaultNeverPays
<1>1. Init => ShapeInv /\ FaultInv
  BY InitShape, FaultInit
<1>2. ShapeInv /\ FaultInv /\ [Next]_allVars => (ShapeInv /\ FaultInv)'
  BY ShapeNext, FaultNext
<1>3. ShapeInv /\ FaultInv => FaultNeverPays
  <2> SUFFICES ASSUME ShapeInv, FaultInv, NEW a \in Initialized
               PROVE  ScoreNow(records[a]) <= ScoreNow(blameless[a]) + 1
    BY DEF FaultNeverPays
  <2>1. NoBetter(records[a], blameless[a], now, params.decayHalfLife)
    BY DEF FaultInv, Outweigh
  <2>2. now + 0 = now
    BY ParamTypes
  <2>3. decay(records[a].score, (now + 0) - records[a].lastUpdateAt, params.decayHalfLife)
          <= decay(blameless[a].score, (now + 0) - blameless[a].lastUpdateAt, params.decayHalfLife) + 1
    BY <2>1 DEF NoBetter
  <2> QED
    BY <2>2, <2>3 DEF ScoreNow
<1> QED
  BY <1>1, <1>2, <1>3, PTL DEF Spec

=============================================================================
