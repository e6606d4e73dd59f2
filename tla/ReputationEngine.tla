-------------------------- MODULE ReputationEngine --------------------------
(***************************************************************************)
(* contracts/src/ReputationEngine.sol under any writer: a score per agent, *)
(* the budget each consumer has spent on each agent, and the voice each    *)
(* consumer has bought with protocol fees.                                 *)
(*                                                                         *)
(* Who may write is the timelock's business (setWriter); each action here  *)
(* is a call by some writer with any arguments.  In the protocol the       *)
(* writers are the registry (initAgent) and the router (the other two).    *)
(***************************************************************************)
EXTENDS ScoreMath

CONSTANTS
    Agents, Consumers,
    Outcomes, Notionals, Tolerances, ProtocolFees,  \* what a report may carry
    ParamChoices, InitialParams,
    MaxBudget,        \* type(uint128).max
    MaxReports,       \* bound: outcomes and faults recorded, for all agents
    MaxTime           \* bound: the clock stops there

VARIABLES
    records,          \* _records
    budgets,          \* _budgets
    voice,
    params,           \* halfWeight .. weightPerFeeUnit
    now               \* block.timestamp, never 0

engineVars == <<records, budgets, voice, params>>
vars == <<engineVars, now>>

-----------------------------------------------------------------------------

FaultKinds == {"Liveness", "Verification"}

Outcome == [realizedPnlBps : Int, slaBreached : BOOLEAN, limitBreached : BOOLEAN]

Record == [score : Scores, faults : Nat, settledExecutions : Nat,
           lastUpdateAt : Nat, lastActiveAt : Nat, initialized : BOOLEAN]

NoRecord == [score |-> 0, faults |-> 0, settledExecutions |-> 0,
             lastUpdateAt |-> 0, lastActiveAt |-> 0, initialized |-> FALSE]

Budget == [used : 0 .. MaxBudget, lastAt : Nat]
NoBudget == [used |-> 0, lastAt |-> 0]

Params == [halfWeight : Nat, weightCap : Nat, consumerWeightCap : Nat,
           decayHalfLife : Nat, livenessHaircutBps : Nat,
           verificationHaircutBps : Nat, weightPerFeeUnit : Nat]

LegalParameters(p) ==
    /\ p.halfWeight # 0 /\ p.weightCap # 0 /\ p.decayHalfLife # 0
    /\ p.livenessHaircutBps <= 10000 /\ p.verificationHaircutBps <= 10000
    /\ p.consumerWeightCap <= MaxBudget

ASSUME ReportsAssumption ==
    /\ Outcomes \subseteq Outcome
    /\ Notionals \subseteq Nat /\ Tolerances \subseteq Nat /\ ProtocolFees \subseteq Nat
ASSUME EngineParamsAssumption ==
    ParamChoices \subseteq Params /\ InitialParams \in Params /\ LegalParameters(InitialParams)
ASSUME MaxBudgetAssumption == MaxBudget \in Nat

Initialized == {a \in Agents : records[a].initialized}

\* _decayed: what getScore answers for an initialised record.
ScoreNow(rec) == decay(rec.score, now - rec.lastUpdateAt, params.decayHalfLife)

-----------------------------------------------------------------------------
(* Influence: what a report may weigh *)

UsedNow(a, c) ==
    LET b == budgets[a][c]
    IN  IF b.lastAt = 0 THEN 0 ELSE fade(b.used, now - b.lastAt, params.decayHalfLife)

\* What is left of the consumer's budget against the agent; no cap, no limit.
WithinBudget(a, c, weight) ==
    IF params.consumerWeightCap = 0 THEN weight
    ELSE Lesser(weight, IF params.consumerWeightCap > UsedNow(a, c)
                        THEN params.consumerWeightCap - UsedNow(a, c) ELSE 0)

WithinVoice(balance, weight) ==
    IF params.weightPerFeeUnit = 0 THEN weight ELSE Lesser(weight, balance)

\* _earnVoice
VoiceAfterFee(c, protocolFee) == voice[c] + protocolFee * params.weightPerFeeUnit

\* What a report over `notional` weighs: both ceilings measured, then charged.
Granted(a, c, notional, protocolFee) ==
    WithinVoice(VoiceAfterFee(c, protocolFee),
                WithinBudget(a, c, Lesser(notional, params.weightCap)))

\* Mistake: the voice charged for what the budget is about to refuse.
SpendBillsBoth(a, c, notional, protocolFee) ==
    LET balance == VoiceAfterFee(c, protocolFee)
        billed == WithinVoice(balance, Lesser(notional, params.weightCap))
    IN  /\ voice' = [voice EXCEPT ![c] = IF params.weightPerFeeUnit = 0 THEN @
                                         ELSE balance - billed]
        /\ budgets' = IF params.consumerWeightCap = 0 THEN budgets
                      ELSE [budgets EXCEPT ![a][c] =
                              [used |-> UsedNow(a, c) + WithinBudget(a, c, billed),
                               lastAt |-> now]]

\* Mistake: the instant of the first spending kept for ever.
SpendKeepsStamp(a, c, notional, protocolFee) ==
    LET weight == Granted(a, c, notional, protocolFee)
    IN  /\ voice' = [voice EXCEPT ![c] = VoiceAfterFee(c, protocolFee)
                                         - (IF params.weightPerFeeUnit = 0 THEN 0 ELSE weight)]
        /\ budgets' = IF params.consumerWeightCap = 0 THEN budgets
                      ELSE [budgets EXCEPT ![a][c] =
                              [used |-> UsedNow(a, c) + weight,
                               lastAt |-> IF @.lastAt = 0 THEN now ELSE @.lastAt]]

\* _earnVoice and _spend: both ceilings are charged what was granted.
Spend(a, c, notional, protocolFee) ==
    LET weight == Granted(a, c, notional, protocolFee)
    IN  /\ voice' = [voice EXCEPT ![c] = VoiceAfterFee(c, protocolFee)
                                         - (IF params.weightPerFeeUnit = 0 THEN 0 ELSE weight)]
        /\ budgets' = IF params.consumerWeightCap = 0 THEN budgets
                      ELSE [budgets EXCEPT ![a][c] =
                              [used |-> UsedNow(a, c) + weight, lastAt |-> now]]

-----------------------------------------------------------------------------
(* The writers' calls, on a record *)

Begun(rec) ==
    [rec EXCEPT !.initialized = TRUE, !.score = NEUTRAL,
                !.lastUpdateAt = now, !.lastActiveAt = now]

Observed(rec, q, weight) ==
    [rec EXCEPT !.score = observe(ScoreNow(rec), q, weight, params.halfWeight),
                !.lastUpdateAt = now, !.lastActiveAt = now,
                !.settledExecutions = @ + 1]

HaircutBps(kind) == IF kind = "Liveness" THEN params.livenessHaircutBps
                    ELSE params.verificationHaircutBps

\* Mistake: the haircut taken from the score as it was stored, before decay.
FaultedUndecayed(rec, kind) ==
    [rec EXCEPT !.score = haircut(@, HaircutBps(kind)),
                !.lastUpdateAt = now, !.faults = @ + 1]

Faulted(rec, kind) ==
    [rec EXCEPT !.score = haircut(ScoreNow(rec), HaircutBps(kind)),
                !.lastUpdateAt = now, !.faults = @ + 1]

-----------------------------------------------------------------------------

initAgent(a) ==
    /\ ~records[a].initialized
    /\ records' = [records EXCEPT ![a] = Begun(@)]
    /\ UNCHANGED <<budgets, voice, params>>

MayRecord(a) ==
    /\ a \in Initialized
    /\ SumOver([b \in Agents |-> records[b].faults + records[b].settledExecutions], Agents)
         < MaxReports

recordOutcome(a, c, outcome, notional, tolerance, protocolFee) ==
    /\ MayRecord(a)
    /\ Spend(a, c, notional, protocolFee)
    /\ records' = [records EXCEPT ![a] =
                     Observed(@, quality(outcome, tolerance),
                              Granted(a, c, notional, protocolFee))]
    /\ UNCHANGED params

recordFault(a, kind) ==
    /\ MayRecord(a)
    /\ records' = [records EXCEPT ![a] = Faulted(@, kind)]
    /\ UNCHANGED <<budgets, voice, params>>

setParameters(p) ==
    /\ LegalParameters(p)
    /\ params' = p
    /\ UNCHANGED <<records, budgets, voice>>

Tick == now < MaxTime /\ now' = now + 1

EngineInit ==
    /\ records = [a \in Agents |-> NoRecord]
    /\ budgets = [a \in Agents |-> [c \in Consumers |-> NoBudget]]
    /\ voice = [c \in Consumers |-> 0]
    /\ params = InitialParams
    /\ now = 1

\* Counters, amounts and instants are typed; a score stays in its range and a
\* budget in the 128 bits it is stored in, whatever caps governance has gone through.
EngineTypeOK ==
    /\ records \in [Agents -> Record]
    /\ budgets \in [Agents -> [Consumers -> Budget]]
    /\ voice \in [Consumers -> Nat]
    /\ params \in Params
    /\ now \in Nat

=============================================================================
