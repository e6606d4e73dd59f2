--------------------------- MODULE AgentRegistry ---------------------------
(***************************************************************************)
(* contracts/src/AgentRegistry.sol: identity, bonded capital, exposure     *)
(* limits.  One step is one transaction: the EVM runs a call to its end or *)
(* reverts it, so the interleavings are those of whole calls, in any order *)
(* and from any caller.                                                    *)
(*                                                                         *)
(* The four calls only the router may make (reserve, release, slash and    *)
(* recordDelivery) are written as functions from an agent's record to its  *)
(* next one, so that ExecutionRouter, which makes several of them in one   *)
(* transaction, composes them.  Here they are also actions of their own,   *)
(* RouterCall, with arbitrary amounts and tiers: whatever this module establishes  *)
(* holds under any contract wired in as the router.                        *)
(*                                                                         *)
(* The score, which the registry reads from ReputationEngine whenever it   *)
(* computes a credit limit, moves with time and with every settlement:     *)
(* here it is any member of Scores at each reading.                        *)
(***************************************************************************)
EXTENDS Amounts

CONSTANTS
    Agents,           \* agent ids, 1..N as _nextAgentId hands them out
    Operators,        \* addresses that may be an agent's operator
    DeclaredTiers,    \* what a registration may declare
    BondAmounts,      \* what a call may name as a bond or unbonding amount
    Scores,           \* what engine.getScore may answer, in 0..10000
    LimitChoices,     \* what setLimits and setEarlyExitPenaltyBps may set
    InitialLimits,    \* what the contract was deployed with
    UnbondingPeriod,  \* UNBONDING_PERIOD
    MaxBond,          \* bound: no deposit takes a bond above it, or the vault above all
    MaxTime           \* bound: the clock stops there

VARIABLES
    agents,           \* _agents
    agentIdByOperator,
    limits,           \* minBond, globalNotionalCap, earlyExitPenaltyBps
    vault,            \* bondToken.balanceOf(registry)
    now               \* block.timestamp

registryVars == <<agents, agentIdByOperator, limits, vault>>

-----------------------------------------------------------------------------

\* enum Tier, ordered: higher is stronger.
None == 0
Bronze == 1
Silver == 2
Gold == 3
Tiers == None .. Gold

NoAgent == 0
NoOperator == 0

Agent == [operator : Operators \cup {NoOperator},
          tier : Tiers, demonstratedTier : Tiers, active : BOOLEAN,
          bond : Nat, openNotional : Nat,
          unbondingAmount : Nat, unbondingAt : Nat]

Limits == [minBond : Nat, globalNotionalCap : Nat, earlyExitPenaltyBps : Bps]

\* What setLimits and setEarlyExitPenaltyBps accept.
LegalLimits(l) == l.minBond # 0 /\ l.globalNotionalCap # 0

ASSUME AgentsAssumption == Agents \subseteq Nat \ {NoAgent} /\ IsFiniteSet(Agents)
ASSUME OperatorsAssumption == NoOperator \notin Operators
ASSUME BondAmountsAssumption == BondAmounts \subseteq Nat
ASSUME DeclaredTiersAssumption == DeclaredTiers \subseteq Tiers
ASSUME ScoresAssumption == Scores \subseteq 0 .. 10000
ASSUME LimitsAssumption ==
    /\ LimitChoices \subseteq Limits
    /\ InitialLimits \in Limits
    /\ LegalLimits(InitialLimits)
ASSUME PeriodAssumption == UnbondingPeriod \in Nat

\* The record of an id nobody has registered: every field of the mapping zero.
Unregistered == [operator |-> NoOperator,
                 tier |-> None, demonstratedTier |-> None, active |-> FALSE,
                 bond |-> 0, openNotional |-> 0,
                 unbondingAmount |-> 0, unbondingAt |-> 0]

\* The code asks `owner == address(0)`; registerAgent sets the owner and a
\* tier other than None together and nothing resets either.
Registered(a) == agents[a].tier # None

-----------------------------------------------------------------------------
(* Credit *)

leverageBps(score) ==
    CASE score < 5000 -> 5000
      [] score \in 5000 .. 6999 -> 10000
      [] score \in 7000 .. 8499 -> 20000
      [] score \in 8500 .. 9499 -> 40000
      [] score >= 9500 -> 60000

tierFactorBps(tier) ==
    CASE tier = Gold -> 15000
      [] tier = Silver -> 10000
      [] tier = Bronze -> 5000
      [] tier = None -> 0

\* Demonstrated, at least Bronze, at most what was declared.
effectiveTier(g) ==
    Lesser(IF g.demonstratedTier = None THEN Bronze ELSE g.demonstratedTier, g.tier)

effectiveBond(g) == IF g.bond > g.unbondingAmount THEN g.bond - g.unbondingAmount ELSE 0

maxOpenNotional(g, score) ==
    IF ~g.active \/ effectiveBond(g) < limits.minBond
    THEN 0
    ELSE Lesser(BpsOf(BpsOf(effectiveBond(g), leverageBps(score)),
                      tierFactorBps(effectiveTier(g))),
                limits.globalNotionalCap)

-----------------------------------------------------------------------------
(* The router's calls, as functions on an agent's record *)

CanReserve(a, notional, score) ==
    /\ Registered(a)
    /\ agents[a].active
    /\ agents[a].openNotional + notional <= maxOpenNotional(agents[a], score)

Reserved(g, notional) == [g EXCEPT !.openNotional = @ + notional]

\* The subtraction is clamped at zero.
Released(g, notional) ==
    [g EXCEPT !.openNotional = IF notional > @ THEN 0 ELSE @ - notional]

\* Mistake: the last accepted tier, not the highest one.
DeliveredNoRatchet(g, tier) == [g EXCEPT !.demonstratedTier = tier]

Delivered(g, tier) ==
    [g EXCEPT !.demonstratedTier = IF @ >= tier THEN @ ELSE tier]

\* What `slash` really takes.
SlashTaken(g, amount) == Lesser(amount, g.bond)

\* Mistake: the treasury is sent the bounty too.
SlashPaidTwice(g, amount, bounty, named) ==
    SlashTaken(g, amount) + IF named THEN Lesser(bounty, SlashTaken(g, amount)) ELSE 0

\* What of it leaves the registry: a bounty that nobody is named for stays behind.
SlashPaid(g, amount, bounty, named) ==
    SlashTaken(g, amount) - IF named THEN 0 ELSE Lesser(bounty, SlashTaken(g, amount))

\* Mistake: the unbonding amount left alone.
SlashedUnclamped(g, amount) == [g EXCEPT !.bond = @ - SlashTaken(g, amount)]

Slashed(g, amount) ==
    [g EXCEPT !.bond = @ - SlashTaken(g, amount),
              !.unbondingAmount = Lesser(@, g.bond - SlashTaken(g, amount))]

-----------------------------------------------------------------------------
(* The agent owner's calls, and the contract owner's *)

registerAgent(a, operator, tier, amount) ==
    /\ ~Registered(a)
    /\ \A b \in Agents : b < a => Registered(b)
    /\ amount >= limits.minBond
    /\ amount <= MaxBond
    /\ agentIdByOperator[operator] = NoAgent
    /\ tier # None
    /\ agents' = [agents EXCEPT ![a] =
                    [Unregistered EXCEPT !.operator = operator, !.tier = tier,
                                         !.active = TRUE, !.bond = amount]]
    /\ agentIdByOperator' = [agentIdByOperator EXCEPT ![operator] = a]
    /\ vault' = vault + amount
    /\ UNCHANGED limits

\* Mistake: the old operator's index entry is not deleted.
rotateOperatorKeepsOld(a, newOperator) ==
    /\ Registered(a)
    /\ agentIdByOperator[newOperator] = NoAgent
    /\ agents' = [agents EXCEPT ![a].operator = newOperator]
    /\ agentIdByOperator' = [agentIdByOperator EXCEPT ![newOperator] = a]
    /\ UNCHANGED <<limits, vault>>

rotateOperator(a, newOperator) ==
    /\ Registered(a)
    /\ agentIdByOperator[newOperator] = NoAgent
    /\ agents' = [agents EXCEPT ![a].operator = newOperator]
    /\ agentIdByOperator' = [agentIdByOperator EXCEPT ![agents[a].operator] = NoAgent,
                                                      ![newOperator] = a]
    /\ UNCHANGED <<limits, vault>>

increaseBond(a, amount) ==
    /\ Registered(a)
    /\ agents[a].bond + amount <= MaxBond
    /\ vault + amount <= MaxBond * Cardinality(Agents)
    /\ agents' = [agents EXCEPT ![a].bond = @ + amount]
    /\ vault' = vault + amount
    /\ UNCHANGED <<agentIdByOperator, limits>>

setActive(a, active) ==
    /\ Registered(a)
    /\ agents' = [agents EXCEPT ![a].active = active]
    /\ UNCHANGED <<agentIdByOperator, limits, vault>>

\* A second call while one is pending replaces the amount and restarts the
\* clock; open exposure must be covered by what stays behind.
startUnbonding(a, amount, score) ==
    LET g == [agents[a] EXCEPT !.unbondingAmount = amount,
                               !.unbondingAt = now + UnbondingPeriod]
    IN  /\ Registered(a)
        /\ amount <= agents[a].bond
        /\ g.openNotional <= maxOpenNotional(g, score)
        /\ agents' = [agents EXCEPT ![a] = g]
        /\ UNCHANGED <<agentIdByOperator, limits, vault>>

\* The unbonding amount leaves, clamped to the bond.
TakeUnbonding(a) ==
    LET amount == Lesser(agents[a].unbondingAmount, agents[a].bond)
    IN  /\ agents' = [agents EXCEPT ![a].unbondingAmount = 0,
                                    ![a].unbondingAt = 0,
                                    ![a].bond = @ - amount]
        /\ vault' = vault - amount
        /\ UNCHANGED <<agentIdByOperator, limits>>

withdraw(a) ==
    /\ agents[a].unbondingAmount # 0
    /\ now >= agents[a].unbondingAt
    /\ TakeUnbonding(a)

\* Mistake: the toll alone, without the liability gate.
withdrawEarlyUngated(a) ==
    /\ agents[a].unbondingAmount # 0
    /\ now < agents[a].unbondingAt
    /\ TakeUnbonding(a)

\* The penalty goes to the treasury and the rest to the owner: all of it
\* leaves the registry.
withdrawEarly(a) ==
    /\ agents[a].unbondingAmount # 0
    /\ agents[a].openNotional = 0
    /\ now < agents[a].unbondingAt
    /\ TakeUnbonding(a)

setLimits(minBond, globalNotionalCap) ==
    /\ minBond # 0
    /\ globalNotionalCap # 0
    /\ limits' = [limits EXCEPT !.minBond = minBond,
                                !.globalNotionalCap = globalNotionalCap]
    /\ UNCHANGED <<agents, agentIdByOperator, vault>>

setEarlyExitPenaltyBps(bps) ==
    /\ bps \in Bps
    /\ limits' = [limits EXCEPT !.earlyExitPenaltyBps = bps]
    /\ UNCHANGED <<agents, agentIdByOperator, vault>>

-----------------------------------------------------------------------------

RegistryShape ==
    /\ agents \in [Agents -> Agent]
    /\ agentIdByOperator \in [Operators -> Agents \cup {NoAgent}]
    /\ limits \in Limits
    /\ now \in Nat

RegistryTypeOK == RegistryShape /\ vault \in Nat

RegistryInit ==
    /\ agents = [a \in Agents |-> Unregistered]
    /\ agentIdByOperator = [o \in Operators |-> NoAgent]
    /\ limits = InitialLimits
    /\ vault = 0
    /\ now = 0

\* Everything that is not the router's to call.
OwnerCall ==
    \/ \E a \in Agents :
         \/ \E o \in Operators, t \in DeclaredTiers, x \in BondAmounts : registerAgent(a, o, t, x)
         \/ \E o \in Operators : rotateOperator(a, o)
         \/ \E x \in BondAmounts : increaseBond(a, x)
         \/ \E b \in BOOLEAN : setActive(a, b)
         \/ \E x \in BondAmounts, s \in Scores : startUnbonding(a, x, s)
         \/ withdraw(a)
         \/ withdrawEarly(a)
    \/ \E l \in LimitChoices :
         \/ setLimits(l.minBond, l.globalNotionalCap)
         \/ setEarlyExitPenaltyBps(l.earlyExitPenaltyBps)

reserve(a, notional, score) ==
    /\ CanReserve(a, notional, score)
    /\ agents' = [agents EXCEPT ![a] = Reserved(@, notional)]
    /\ UNCHANGED <<agentIdByOperator, limits, vault>>

release(a, notional) ==
    /\ agents' = [agents EXCEPT ![a] = Released(@, notional)]
    /\ UNCHANGED <<agentIdByOperator, limits, vault>>

recordDelivery(a, tier) ==
    /\ agents' = [agents EXCEPT ![a] = Delivered(@, tier)]
    /\ UNCHANGED <<agentIdByOperator, limits, vault>>

slash(a, amount, bounty, named) ==
    /\ agents' = [agents EXCEPT ![a] = Slashed(@, amount)]
    /\ vault' = vault - SlashPaid(agents[a], amount, bounty, named)
    /\ UNCHANGED <<agentIdByOperator, limits>>

\* Any router that only calls for registered agents, as requestExecution's reserve
\* makes sure of for every later call about the request.  It need not name anyone
\* who gets the bounty of a slash.
RouterCall ==
    \E a \in {b \in Agents : Registered(b)} :
      \/ \E n \in BondAmounts, s \in Scores : reserve(a, n, s)
      \/ \E n \in BondAmounts : release(a, n)
      \/ \E t \in DeclaredTiers : recordDelivery(a, t)
      \/ \E x, y \in BondAmounts, named \in BOOLEAN : slash(a, x, y, named)

Tick ==
    /\ now < MaxTime
    /\ now' = now + 1

RegistryNext ==
    \/ (OwnerCall \/ RouterCall) /\ UNCHANGED now
    \/ Tick /\ UNCHANGED registryVars

RegistrySpec == RegistryInit /\ [][RegistryNext]_<<registryVars, now>>

-----------------------------------------------------------------------------
(* What the registry keeps under any router *)

BondOf == [a \in Agents |-> agents[a].bond]

\* Solvency: every token of every recorded bond is really held by the registry.
\* Deposits, withdrawals at either door and slashes may come in any order, and
\* what leaves is never more than what the records lose.  It may be less: the
\* bounty of a slash that names nobody stays, and no record has it.
VaultBacksBonds == vault >= SumOver(BondOf, Agents)

\* What an agent has asked to take out never exceeds what it has left, however
\* slashes and new unbonding calls interleave: the clamps of withdraw and
\* withdrawEarly are never needed.
UnbondingWithinBond ==
    \A a \in Agents : agents[a].unbondingAmount <= agents[a].bond

\* An id holds nothing until it is registered, and has an operator ever after.
BlankUntilRegistered ==
    \A a \in Agents :
      IF Registered(a) THEN agents[a].operator \in Operators ELSE agents[a] = Unregistered

\* What is inductive: the vault is never overdrawn because it covers each bond, and
\* a registration adds exactly its deposit only because the id held nothing.
RegistryInv ==
    /\ RegistryShape /\ vault \in Nat
    /\ VaultBacksBonds /\ UnbondingWithinBond /\ BlankUntilRegistered

\* agentIdByOperator is exactly the inverse of the agents' operators: no
\* rotation leaves a stale entry behind or lets two agents share a key.
OperatorIndexExact ==
    /\ \A a \in Agents : Registered(a) => agentIdByOperator[agents[a].operator] = a
    /\ \A o \in Operators :
         agentIdByOperator[o] # NoAgent => agents[agentIdByOperator[o]].operator = o

\* "It ratchets": no call lowers the tier an agent has demonstrated.
TierRatchets ==
    [][\A a \in Agents : agents'[a].demonstratedTier >= agents[a].demonstratedTier]_agents

=============================================================================
