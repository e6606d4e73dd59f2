----------------------- MODULE ExecutionRouterProofs -----------------------
(***************************************************************************)
(* What AgentRegistry keeps under any router, and what ExecutionRouter and *)
(* the registry behind it keep together, for every set of requests, agents, *)
(* operators, amounts, scores and parameters: the sums both count in, the  *)
(* registry, the router.                                                   *)
(*                                                                         *)
(* Every call about a request is shown once to be a MovesRequest step: one *)
(* request's record changes, and escrow, exposure and counters change by   *)
(* the difference of what that request stands for in each.  What the books *)
(* say in total then follows from the lemmas about sums, for all calls at  *)
(* the same time.                                                          *)
(***************************************************************************)
EXTENDS ExecutionRouter, FiniteSetTheorems, TLAPS

-----------------------------------------------------------------------------
(* Shares *)

\* A share of at most 10_000 basis points never exceeds the amount it is of:
\* `_slash` cannot ask for more than the bond, a cut never exceeds its fee.
LEMMA BpsOfBound ==
    ASSUME NEW x \in Nat, NEW b \in Bps
    PROVE  BpsOf(x, b) \in 0 .. x
<1>1. b \in 0 .. 10000
  BY DEF Bps, BpsDenominator
<1>2. x * b \in Nat /\ x * b <= x * 10000
  BY <1>1
<1>3. \A p, m \in Nat : p <= m * 10000 => p \div 10000 \in 0 .. m
  OBVIOUS
<1>4. QED
  BY <1>2, <1>3 DEF BpsOf, BpsDenominator

LEMMA LesserType ==
    ASSUME NEW x \in Nat, NEW y \in Nat
    PROVE  /\ Lesser(x, y) \in Nat
           /\ Lesser(x, y) <= x
           /\ Lesser(x, y) <= y
  BY DEF Lesser

-----------------------------------------------------------------------------
(* Sums *)

\* The units of one element: as many as its amount.
LEMMA UnitsOfOne ==
    ASSUME NEW x, NEW n \in Nat
    PROVE  /\ IsFiniteSet({x} \X (1 .. n))
           /\ Cardinality({x} \X (1 .. n)) = n
<1>1. IsFiniteSet({x}) /\ Cardinality({x}) = 1
  BY FS_Singleton
<1>2. IsFiniteSet(1 .. n) /\ Cardinality(1 .. n) = n
  BY FS_Interval
<1>3. IsFiniteSet({x} \X (1 .. n))
      /\ Cardinality({x} \X (1 .. n)) = Cardinality({x}) * Cardinality(1 .. n)
  BY <1>1, <1>2, FS_Product
<1>4. 1 * n = n
  OBVIOUS
<1>5. QED
  BY <1>1, <1>2, <1>3, <1>4

\* A sum over a finite set is a natural number.
LEMMA SumType ==
    ASSUME NEW S, IsFiniteSet(S), NEW f, \A x \in S : f[x] \in Nat
    PROVE  /\ IsFiniteSet(Units(f, S))
           /\ SumOver(f, S) \in Nat
<1> DEFINE parts == { {x} \X (1 .. f[x]) : x \in S }
           part == [x \in S |-> {x} \X (1 .. f[x])]
<1>1. part \in Surjection(S, parts)
  BY DEF Surjection
<1>2. IsFiniteSet(parts)
  BY <1>1, FS_Surjection DEF ExistsSurjection
<1>3. ASSUME NEW p \in parts PROVE IsFiniteSet(p)
  <2>1. PICK x \in S : p = {x} \X (1 .. f[x])
    OBVIOUS
  <2>2. f[x] \in Nat
    OBVIOUS
  <2>3. QED
    BY <2>1, <2>2, UnitsOfOne
<1>4. IsFiniteSet(UNION parts)
  BY <1>2, <1>3, FS_UNION
<1>5. QED
  BY <1>4, FS_CardinalityType DEF Units, SumOver

LEMMA SumEmpty ==
    ASSUME NEW f
    PROVE  SumOver(f, {}) = 0
<1>1. Units(f, {}) = {}
  BY DEF Units
<1>2. QED
  BY <1>1, FS_EmptySet DEF SumOver

\* Only the amounts of the members count.
LEMMA SumCongruence ==
    ASSUME NEW S, NEW f, NEW g, \A x \in S : f[x] = g[x]
    PROVE  SumOver(f, S) = SumOver(g, S)
<1>1. Units(f, S) = Units(g, S)
  BY DEF Units
<1>2. QED
  BY <1>1 DEF SumOver

\* A new member adds its amount.
LEMMA SumAdd ==
    ASSUME NEW S, IsFiniteSet(S), NEW f, NEW x, x \notin S,
           \A y \in S \cup {x} : f[y] \in Nat
    PROVE  SumOver(f, S \cup {x}) = SumOver(f, S) + f[x]
<1> DEFINE new == {x} \X (1 .. f[x])
<1>1. IsFiniteSet(new) /\ Cardinality(new) = f[x]
  BY UnitsOfOne
<1>2. IsFiniteSet(Units(f, S)) /\ Cardinality(Units(f, S)) \in Nat
  BY SumType DEF SumOver
<1>3. Units(f, S \cup {x}) = Units(f, S) \cup new
  BY DEF Units
<1>4. Units(f, S) \cap new = {}
  <2> SUFFICES ASSUME NEW u \in Units(f, S), u \in new
               PROVE  FALSE
    OBVIOUS
  <2>1. PICK y \in S : u \in {y} \X (1 .. f[y])
    BY DEF Units
  <2>2. u[1] = y /\ u[1] = x
    BY <2>1
  <2>3. QED
    BY <2>2
<1>5. Cardinality(Units(f, S) \cup new)
        = Cardinality(Units(f, S)) + Cardinality(new) - Cardinality(Units(f, S) \cap new)
  BY <1>1, <1>2, FS_Union
<1>6. Cardinality(Units(f, S) \cap new) = 0
  BY <1>4, FS_EmptySet
<1>7. f[x] \in Nat
  OBVIOUS
<1>8. Cardinality(Units(f, S \cup {x})) = Cardinality(Units(f, S)) + f[x]
  <2> HIDE DEF new
  <2>1. Cardinality(Units(f, S) \cup new) = Cardinality(Units(f, S)) + f[x]
    BY <1>1, <1>2, <1>5, <1>6, <1>7
  <2>2. QED
    BY <1>3, <2>1
<1>9. QED
  BY <1>8 DEF SumOver

\* A member that leaves takes its amount along, and never more than the sum.
LEMMA SumRemove ==
    ASSUME NEW S, IsFiniteSet(S), NEW f, NEW x \in S,
           \A y \in S : f[y] \in Nat
    PROVE  /\ SumOver(f, S \ {x}) = SumOver(f, S) - f[x]
           /\ f[x] <= SumOver(f, S)
<1> DEFINE T == S \ {x}
<1>1. IsFiniteSet(T)
  BY FS_RemoveElement
<1>2. x \notin T /\ T \cup {x} = S
  OBVIOUS
<1>3. SumOver(f, T \cup {x}) = SumOver(f, T) + f[x]
  <2> HIDE DEF T
  <2>1. \A y \in T \cup {x} : f[y] \in Nat
    BY <1>2
  <2>2. QED
    BY <1>1, <1>2, <2>1, SumAdd
<1>4. SumOver(f, T) \in Nat /\ f[x] \in Nat
  BY <1>1, SumType
<1>5. SumOver(f, S) = SumOver(f, T) + f[x]
  BY <1>2, <1>3
<1>6. QED
  <2> DEFINE m == SumOver(f, T)
             n == SumOver(f, S)
  <2>1. m \in Nat /\ n = m + f[x] /\ f[x] \in Nat
    BY <1>4, <1>5
  <2>2. m = n - f[x] /\ f[x] <= n
    <3> HIDE DEF m, n
    <3>1. QED BY <2>1
  <2>3. QED
    BY <2>2

\* Changing one member's amount changes the sum by the difference.
LEMMA SumUpdate ==
    ASSUME NEW S, IsFiniteSet(S), NEW x \in S
    PROVE  \A f, g :
             (\A y \in S : f[y] \in Nat /\ g[y] \in Nat)
             /\ (\A y \in S \ {x} : g[y] = f[y])
             => /\ SumOver(g, S) = SumOver(f, S) - f[x] + g[x]
                /\ f[x] <= SumOver(f, S)
                /\ SumOver(f, S) \in Nat
<1> SUFFICES ASSUME NEW f, NEW g,
                    \A y \in S : f[y] \in Nat /\ g[y] \in Nat,
                    \A y \in S \ {x} : g[y] = f[y]
             PROVE  /\ SumOver(g, S) = SumOver(f, S) - f[x] + g[x]
                    /\ f[x] <= SumOver(f, S)
                    /\ SumOver(f, S) \in Nat
  OBVIOUS
<1>1. SumOver(f, S \ {x}) = SumOver(f, S) - f[x] /\ f[x] <= SumOver(f, S)
  BY SumRemove
<1>2. SumOver(g, S \ {x}) = SumOver(g, S) - g[x]
  BY SumRemove
<1>3. SumOver(f, S \ {x}) = SumOver(g, S \ {x})
  BY SumCongruence
<1>4. SumOver(f, S) \in Nat /\ SumOver(g, S) \in Nat
  BY SumType
<1>5. f[x] \in Nat /\ g[x] \in Nat
  OBVIOUS
<1>6. QED
  BY <1>1, <1>2, <1>3, <1>4, <1>5

\* What x counts in the sum of f over S.
PartOf(f, S, x) == IF x \in S THEN f[x] ELSE 0

\* Two sums over sets that differ in at most x, of amounts that differ in at
\* most x's, differ by what x counts in each.
LEMMA SumChange ==
    ASSUME NEW S, NEW T, IsFiniteSet(S), IsFiniteSet(T), NEW x, S \ {x} = T \ {x}
    PROVE  \A f, g :
             (\A y \in S : f[y] \in Nat)
             /\ (\A y \in T : g[y] \in Nat)
             /\ (\A y \in S \ {x} : g[y] = f[y])
             => /\ SumOver(f, S) \in Nat /\ SumOver(g, T) \in Nat
                /\ SumOver(g, T) = SumOver(f, S) - PartOf(f, S, x) + PartOf(g, T, x)
                /\ x \in S => f[x] <= SumOver(f, S)
<1> SUFFICES ASSUME NEW f, NEW g,
                    \A y \in S : f[y] \in Nat,
                    \A y \in T : g[y] \in Nat,
                    \A y \in S \ {x} : g[y] = f[y]
             PROVE  /\ SumOver(f, S) \in Nat /\ SumOver(g, T) \in Nat
                    /\ SumOver(g, T) = SumOver(f, S) - PartOf(f, S, x) + PartOf(g, T, x)
                    /\ x \in S => f[x] <= SumOver(f, S)
  OBVIOUS
<1> DEFINE rest == SumOver(f, S \ {x})
<1>1. SumOver(f, S) \in Nat /\ SumOver(g, T) \in Nat
  BY SumType
<1>2. rest = SumOver(g, T \ {x})
  BY SumCongruence
<1>3. /\ x \in S => f[x] \in Nat /\ rest = SumOver(f, S) - f[x] /\ f[x] <= SumOver(f, S)
      /\ x \notin S => rest = SumOver(f, S)
  <2>1. CASE x \in S
    BY <2>1, SumRemove
  <2>2. CASE x \notin S
    <3>1. S \ {x} = S
      BY <2>2
    <3>2. QED
      BY <2>2, <3>1
  <2>3. QED
    BY <2>1, <2>2
<1>4. /\ x \in T => g[x] \in Nat /\ rest = SumOver(g, T) - g[x]
      /\ x \notin T => rest = SumOver(g, T)
  <2>1. CASE x \in T
    BY <1>2, <2>1, SumRemove
  <2>2. CASE x \notin T
    <3>1. T \ {x} = T
      BY <2>2
    <3>2. QED
      BY <1>2, <2>2, <3>1
  <2>3. QED
    BY <2>1, <2>2
<1> HIDE DEF rest
<1>5. QED
  BY <1>1, <1>3, <1>4 DEF PartOf

\* The same for how many members two sets have.
LEMMA CountChange ==
    ASSUME NEW S, NEW T, IsFiniteSet(S), IsFiniteSet(T), NEW x, S \ {x} = T \ {x}
    PROVE  /\ Cardinality(S) \in Nat /\ Cardinality(T) \in Nat
           /\ Cardinality(T) = Cardinality(S) - (IF x \in S THEN 1 ELSE 0)
                                              + (IF x \in T THEN 1 ELSE 0)
<1>1. Cardinality(S) \in Nat /\ Cardinality(T) \in Nat /\ Cardinality(S \ {x}) \in Nat
  BY FS_CardinalityType, FS_RemoveElement
<1>2. Cardinality(S \ {x}) = IF x \in S THEN Cardinality(S) - 1 ELSE Cardinality(S)
  BY FS_RemoveElement
<1>3. Cardinality(T \ {x}) = IF x \in T THEN Cardinality(T) - 1 ELSE Cardinality(T)
  BY FS_RemoveElement
<1>4. QED
  BY <1>1, <1>2, <1>3

\* Members that contribute nothing can be left out.
LEMMA SumSupport ==
    ASSUME NEW S, NEW T \in SUBSET S, NEW f, \A x \in S \ T : f[x] = 0
    PROVE  SumOver(f, S) = SumOver(f, T)
<1>1. Units(f, S) = Units(f, T)
  <2>1. \A u \in Units(f, S) : u \in Units(f, T)
    <3>1. SUFFICES ASSUME NEW x \in S, NEW u \in {x} \X (1 .. f[x])
                   PROVE  x \in T
      BY DEF Units
    <3>2. CASE f[x] = 0
      BY <3>1, <3>2
    <3>3. QED
      BY <3>2
  <2>2. QED
    BY <2>1 DEF Units
<1>2. QED
  BY <1>1 DEF SumOver

\* A sum of nothing but zeros, and one that is zero.
LEMMA SumZero ==
    ASSUME NEW S, IsFiniteSet(S), NEW f, \A y \in S : f[y] \in Nat
    PROVE  SumOver(f, S) = 0 <=> \A y \in S : f[y] = 0
<1>1. ASSUME \A y \in S : f[y] = 0 PROVE SumOver(f, S) = 0
  <2>1. Units(f, S) = {}
    BY <1>1 DEF Units
  <2>2. QED
    BY <2>1, FS_EmptySet DEF SumOver
<1>2. ASSUME SumOver(f, S) = 0, NEW y \in S PROVE f[y] = 0
  <2>1. f[y] <= SumOver(f, S) /\ f[y] \in Nat
    BY SumRemove
  <2>2. QED
    BY <1>2, <2>1
<1>3. QED
  BY <1>1, <1>2

USE DEF None, Bronze, Silver, Gold, Tiers, NoAgent, NoOperator

-----------------------------------------------------------------------------
(* One agent's record *)

LEMMA UnregisteredType == Unregistered \in Agent
  BY DEF Unregistered, Agent

\* release touches nothing but the exposure.
LEMMA ReleasedType ==
    ASSUME NEW g \in Agent, NEW n \in Nat
    PROVE  /\ Released(g, n) \in Agent
           /\ Released(g, n).bond = g.bond
           /\ Released(g, n).unbondingAmount = g.unbondingAmount
           /\ Released(g, n).demonstratedTier = g.demonstratedTier
           /\ Released(g, n).operator = g.operator
           /\ Released(g, n).tier = g.tier
           /\ n <= g.openNotional => Released(g, n).openNotional = g.openNotional - n
  BY DEF Released, Agent

LEMMA ReservedType ==
    ASSUME NEW g \in Agent, NEW n \in Nat
    PROVE  /\ Reserved(g, n) \in Agent
           /\ Reserved(g, n).bond = g.bond
           /\ Reserved(g, n).unbondingAmount = g.unbondingAmount
           /\ Reserved(g, n).demonstratedTier = g.demonstratedTier
           /\ Reserved(g, n).operator = g.operator
           /\ Reserved(g, n).tier = g.tier
           /\ Reserved(g, n).openNotional = g.openNotional + n
  BY DEF Reserved, Agent

LEMMA DeliveredType ==
    ASSUME NEW g \in Agent, NEW t \in Tiers
    PROVE  /\ Delivered(g, t) \in Agent
           /\ Delivered(g, t).bond = g.bond
           /\ Delivered(g, t).unbondingAmount = g.unbondingAmount
           /\ Delivered(g, t).demonstratedTier >= g.demonstratedTier
           /\ Delivered(g, t).operator = g.operator
           /\ Delivered(g, t).tier = g.tier
           /\ Delivered(g, t).openNotional = g.openNotional
  BY DEF Delivered, Agent

\* A slash takes at most the bond, and leaves no more unbonding than bond.
LEMMA SlashedType ==
    ASSUME NEW g \in Agent, NEW x \in Nat
    PROVE  /\ SlashTaken(g, x) \in 0 .. g.bond
           /\ Slashed(g, x) \in Agent
           /\ Slashed(g, x).bond = g.bond - SlashTaken(g, x)
           /\ Slashed(g, x).unbondingAmount <= Slashed(g, x).bond
           /\ Slashed(g, x).demonstratedTier = g.demonstratedTier
           /\ Slashed(g, x).operator = g.operator
           /\ Slashed(g, x).tier = g.tier
           /\ Slashed(g, x).openNotional = g.openNotional
<1>1. g.bond \in Nat /\ g.unbondingAmount \in Nat
  BY DEF Agent
<1>2. SlashTaken(g, x) \in 0 .. g.bond
  BY <1>1 DEF SlashTaken, Lesser
<1>3. g.bond - SlashTaken(g, x) \in Nat
  BY <1>1, <1>2
<1>4. Lesser(g.unbondingAmount, g.bond - SlashTaken(g, x)) \in Nat
      /\ Lesser(g.unbondingAmount, g.bond - SlashTaken(g, x)) <= g.bond - SlashTaken(g, x)
  BY <1>1, <1>3 DEF Lesser
<1>5. QED
  BY <1>2, <1>3, <1>4 DEF Slashed, Agent

-----------------------------------------------------------------------------
(* One step *)

\* A step in which agent a's record becomes a legal one ...
MovesRecord(a) ==
    /\ agents' = [agents EXCEPT ![a] = agents'[a]]
    /\ agents'[a] \in Agent
    /\ agents'[a].unbondingAmount <= agents'[a].bond
    /\ agents'[a].tier # None /\ agents'[a].operator \in Operators

\* ... and the vault moves by exactly the change of its bond,
MovesBond(a) == MovesRecord(a) /\ vault' = vault - agents[a].bond + agents'[a].bond

\* or keeps what of a slash nobody was named for.
KeepsBounty(a) ==
    /\ MovesRecord(a)
    /\ vault' \in Nat /\ vault' >= vault - agents[a].bond + agents'[a].bond

\* The sum of the bonds moves with the record.
LEMMA RecordMovesSum ==
    ASSUME RegistryInv, NEW a \in Agents, MovesRecord(a)
    PROVE  /\ agents' \in [Agents -> Agent]
           /\ UnbondingWithinBond'
           /\ BlankUntilRegistered'
           /\ SumOver(BondOf', Agents) = SumOver(BondOf, Agents) - agents[a].bond + agents'[a].bond
           /\ SumOver(BondOf, Agents) \in Nat /\ agents[a].bond <= SumOver(BondOf, Agents)
           /\ agents[a].bond \in Nat /\ agents'[a].bond \in Nat
<1>1. agents \in [Agents -> Agent] /\ agents'[a] \in Agent
  BY DEF RegistryInv, RegistryShape, MovesRecord
<1>2. /\ agents' \in [Agents -> Agent]
      /\ \A b \in Agents \ {a} : agents'[b] = agents[b]
  BY <1>1 DEF MovesRecord
<1>3. UnbondingWithinBond'
  BY <1>2 DEF MovesRecord, UnbondingWithinBond, RegistryInv
<1>4. /\ SumOver(BondOf', Agents) = SumOver(BondOf, Agents) - BondOf[a] + BondOf'[a]
      /\ SumOver(BondOf, Agents) \in Nat /\ BondOf[a] <= SumOver(BondOf, Agents)
  <2>1. \A b \in Agents : BondOf[b] \in Nat /\ BondOf'[b] \in Nat
    BY <1>1, <1>2 DEF BondOf, Agent
  <2>2. \A b \in Agents \ {a} : BondOf'[b] = BondOf[b]
    BY <1>2 DEF BondOf
  <2>3. IsFiniteSet(Agents)
    BY AgentsAssumption
  <2>4. \A f, g :
          (\A y \in Agents : f[y] \in Nat /\ g[y] \in Nat)
          /\ (\A y \in Agents \ {a} : g[y] = f[y])
          => /\ SumOver(g, Agents) = SumOver(f, Agents) - f[a] + g[a]
             /\ f[a] <= SumOver(f, Agents)
             /\ SumOver(f, Agents) \in Nat
    BY <2>3, SumUpdate, ZenonT(30)
  <2>5. QED
    BY <2>1, <2>2, <2>4, ZenonT(30)
<1>5. /\ BondOf[a] = agents[a].bond /\ BondOf'[a] = agents'[a].bond
      /\ agents[a].bond \in Nat /\ agents'[a].bond \in Nat
  BY <1>1 DEF BondOf, Agent
<1>6. BlankUntilRegistered'
  BY <1>2 DEF MovesRecord, BlankUntilRegistered, Registered, RegistryInv, Unregistered
<1>7. QED
  BY <1>2, <1>3, <1>4, <1>5, <1>6

\* Such a step keeps the facts the records and the vault share ...
LEMMA KeepsBountyKeeps ==
    ASSUME RegistryInv, NEW a \in Agents, KeepsBounty(a)
    PROVE  /\ agents' \in [Agents -> Agent] /\ vault' \in Nat
           /\ VaultBacksBonds'
           /\ UnbondingWithinBond'
           /\ BlankUntilRegistered'
<1>1. MovesRecord(a) /\ vault' \in Nat /\ vault' >= vault - agents[a].bond + agents'[a].bond
  BY DEF KeepsBounty
<1>2. vault \in Nat /\ vault >= SumOver(BondOf, Agents)
  BY DEF RegistryInv, VaultBacksBonds
<1>3. VaultBacksBonds'
  <2>1. vault' >= SumOver(BondOf', Agents)
    BY <1>1, <1>2, RecordMovesSum
  <2>2. QED
    BY <2>1 DEF VaultBacksBonds
<1>4. QED
  BY <1>1, <1>3, RecordMovesSum

\* ... and, when no bounty stays behind, an exact vault exact.
LEMMA MovesBondKeeps ==
    ASSUME RegistryInv, NEW a \in Agents, MovesBond(a)
    PROVE  /\ agents' \in [Agents -> Agent] /\ vault' \in Nat
           /\ VaultBacksBonds'
           /\ UnbondingWithinBond'
           /\ BlankUntilRegistered'
           /\ VaultIsBonds => VaultIsBonds'
<1>1. MovesRecord(a) /\ vault' = vault - agents[a].bond + agents'[a].bond
  BY DEF MovesBond
<1>2. vault \in Nat /\ vault >= SumOver(BondOf, Agents)
  BY DEF RegistryInv, VaultBacksBonds
<1>3. KeepsBounty(a)
  BY <1>1, <1>2, RecordMovesSum DEF KeepsBounty
<1>4. VaultIsBonds => VaultIsBonds'
  <2>1. vault = SumOver(BondOf, Agents) => vault' = SumOver(BondOf', Agents)
    BY <1>1, <1>2, RecordMovesSum
  <2>2. QED
    BY <2>1 DEF VaultIsBonds
<1>5. QED
  BY <1>3, <1>4, KeepsBountyKeeps

\* A step that touches neither records nor vault keeps them trivially.
LEMMA QuietKeeps ==
    ASSUME RegistryInv, UNCHANGED <<agents, vault>>
    PROVE  /\ agents' \in [Agents -> Agent] /\ vault' \in Nat
           /\ VaultBacksBonds'
           /\ UnbondingWithinBond'
           /\ BlankUntilRegistered'
           /\ VaultIsBonds => VaultIsBonds'
  BY DEF RegistryInv, RegistryShape, VaultBacksBonds, VaultIsBonds, BondOf,
         UnbondingWithinBond, BlankUntilRegistered, Registered

-----------------------------------------------------------------------------
(* Every call moves at most one agent's bond, and the vault with it *)

\* The facts about agent a every call below starts from.
LEMMA RecordFacts ==
    ASSUME RegistryInv, NEW a \in Agents
    PROVE  /\ agents \in [Agents -> Agent]
           /\ agents[a] \in Agent
           /\ agents[a].bond \in Nat /\ agents[a].unbondingAmount \in Nat
           /\ agents[a].unbondingAmount <= agents[a].bond
           /\ SumOver(BondOf, Agents) \in Nat
           /\ vault \in Nat /\ agents[a].bond <= vault
           /\ Registered(a) => agents[a].tier # None /\ agents[a].operator \in Operators
           /\ ~Registered(a) => agents[a].bond = 0 /\ agents[a].unbondingAmount = 0
<1>1. agents \in [Agents -> Agent] /\ agents[a] \in Agent
  BY DEF RegistryInv, RegistryShape
<1>2. \A b \in Agents : BondOf[b] \in Nat
  BY <1>1 DEF BondOf, Agent
<1>3. IsFiniteSet(Agents)
  BY AgentsAssumption
<1>4. SumOver(BondOf, Agents) \in Nat /\ BondOf[a] <= SumOver(BondOf, Agents)
  BY <1>2, <1>3, SumUpdate, Zenon
<1>5. BondOf[a] = agents[a].bond /\ vault \in Nat /\ vault >= SumOver(BondOf, Agents)
  BY DEF BondOf, RegistryInv, VaultBacksBonds
<1>6. /\ agents[a].bond \in Nat /\ agents[a].unbondingAmount \in Nat
      /\ agents[a].unbondingAmount <= agents[a].bond
  BY <1>1 DEF Agent, RegistryInv, UnbondingWithinBond
<1>7. /\ Registered(a) => agents[a].tier # None /\ agents[a].operator \in Operators
      /\ ~Registered(a) => agents[a].bond = 0 /\ agents[a].unbondingAmount = 0
  BY DEF Registered, RegistryInv, BlankUntilRegistered, Unregistered
<1>8. QED
  BY <1>1, <1>4, <1>5, <1>6, <1>7

LEMMA RegisterMovesBond ==
    ASSUME RegistryInv, NEW a \in Agents, NEW o \in Operators,
           NEW t \in DeclaredTiers, NEW x \in BondAmounts, registerAgent(a, o, t, x)
    PROVE  MovesBond(a)
<1>1. t \in Tiers /\ x \in Nat
  BY DeclaredTiersAssumption, BondAmountsAssumption
<1>2. agents[a].bond = 0 /\ vault \in Nat /\ agents \in [Agents -> Agent]
  BY RecordFacts DEF registerAgent
<1>3. agents'[a] = [operator |-> o,
                    tier |-> t, demonstratedTier |-> None, active |-> TRUE,
                    bond |-> x, openNotional |-> 0,
                    unbondingAmount |-> 0, unbondingAt |-> 0]
  BY <1>2 DEF registerAgent, Unregistered
<1>4. /\ agents'[a] \in Agent /\ agents'[a].bond = x /\ agents'[a].unbondingAmount = 0
      /\ agents'[a].tier = t /\ agents'[a].operator = o
  BY <1>1, <1>3 DEF Agent
<1>5. agents' = [agents EXCEPT ![a] = agents'[a]]
  BY <1>2 DEF registerAgent
<1>6. t # None /\ vault' = vault + x
  BY DEF registerAgent
<1>7. QED
  BY <1>1, <1>2, <1>4, <1>5, <1>6 DEF MovesBond, MovesRecord

\* rotateOperator, setActive: a registered agent's bond stays.
LEMMA RotateMovesBond ==
    ASSUME RegistryInv, NEW a \in Agents, NEW o \in Operators, rotateOperator(a, o)
    PROVE  MovesBond(a)
<1>1. Registered(a) /\ agents' = [agents EXCEPT ![a].operator = o] /\ vault' = vault
  BY DEF rotateOperator
<1>2. agents'[a] = [agents[a] EXCEPT !.operator = o]
  BY <1>1, RecordFacts
<1>3. agents'[a] \in Agent /\ agents'[a].bond = agents[a].bond
      /\ agents'[a].unbondingAmount = agents[a].unbondingAmount
      /\ agents'[a].tier = agents[a].tier /\ agents'[a].operator = o
  BY <1>2, RecordFacts DEF Agent
<1>4. agents' = [agents EXCEPT ![a] = agents'[a]]
  BY <1>1, <1>2
<1>5. QED
  BY <1>1, <1>3, <1>4, RecordFacts DEF MovesBond, MovesRecord

LEMMA SetActiveMovesBond ==
    ASSUME RegistryInv, NEW a \in Agents, NEW v \in BOOLEAN, setActive(a, v)
    PROVE  MovesBond(a)
<1>1. Registered(a) /\ agents' = [agents EXCEPT ![a].active = v] /\ vault' = vault
  BY DEF setActive
<1>2. agents'[a] = [agents[a] EXCEPT !.active = v]
  BY <1>1, RecordFacts
<1>3. agents'[a] \in Agent /\ agents'[a].bond = agents[a].bond
      /\ agents'[a].unbondingAmount = agents[a].unbondingAmount
      /\ agents'[a].tier = agents[a].tier /\ agents'[a].operator = agents[a].operator
  BY <1>2, RecordFacts DEF Agent
<1>4. agents' = [agents EXCEPT ![a] = agents'[a]]
  BY <1>1, <1>2
<1>5. QED
  BY <1>1, <1>3, <1>4, RecordFacts DEF MovesBond, MovesRecord

LEMMA IncreaseMovesBond ==
    ASSUME RegistryInv, NEW a \in Agents, NEW x \in BondAmounts, increaseBond(a, x)
    PROVE  MovesBond(a)
<1>1. /\ Registered(a) /\ agents' = [agents EXCEPT ![a].bond = @ + x]
      /\ vault' = vault + x /\ x \in Nat
  BY BondAmountsAssumption DEF increaseBond
<1>2. agents'[a] = [agents[a] EXCEPT !.bond = @ + x]
  BY <1>1, RecordFacts
<1>3. agents'[a] \in Agent /\ agents'[a].bond = agents[a].bond + x
      /\ agents'[a].unbondingAmount = agents[a].unbondingAmount
      /\ agents'[a].tier = agents[a].tier /\ agents'[a].operator = agents[a].operator
  BY <1>1, <1>2, RecordFacts DEF Agent
<1>4. agents' = [agents EXCEPT ![a] = agents'[a]]
  BY <1>1, <1>2
<1>5. QED
  BY <1>1, <1>3, <1>4, RecordFacts DEF MovesBond, MovesRecord

LEMMA StartUnbondingMovesBond ==
    ASSUME RegistryInv, NEW a \in Agents, NEW x \in BondAmounts, NEW s \in Scores,
           startUnbonding(a, x, s)
    PROVE  MovesBond(a)
<1> DEFINE g == [agents[a] EXCEPT !.unbondingAmount = x,
                                  !.unbondingAt = now + UnbondingPeriod]
<1>1. /\ Registered(a) /\ agents' = [agents EXCEPT ![a] = g]
      /\ x <= agents[a].bond /\ vault' = vault
  BY DEF startUnbonding
<1>2. x \in Nat /\ now + UnbondingPeriod \in Nat
  BY BondAmountsAssumption, PeriodAssumption DEF RegistryInv, RegistryShape
<1>3. g \in Agent /\ g.bond = agents[a].bond /\ g.unbondingAmount = x
      /\ g.tier = agents[a].tier /\ g.operator = agents[a].operator
  BY <1>2, RecordFacts DEF Agent
<1>4. agents'[a] = g
  BY <1>1, RecordFacts
<1> HIDE DEF g
<1>5. agents' = [agents EXCEPT ![a] = agents'[a]]
  BY <1>1, <1>4
<1>6. QED
  BY <1>1, <1>3, <1>4, <1>5, RecordFacts DEF MovesBond, MovesRecord

\* withdraw and withdrawEarly, whatever gate either checks: an agent with
\* something unbonding is registered.
LEMMA TakeMovesBond ==
    ASSUME RegistryInv, NEW a \in Agents, agents[a].unbondingAmount # 0, TakeUnbonding(a)
    PROVE  MovesBond(a)
<1> DEFINE amount == Lesser(agents[a].unbondingAmount, agents[a].bond)
           g == [agents[a] EXCEPT !.unbondingAmount = 0, !.unbondingAt = 0,
                                  !.bond = @ - amount]
<1>1. /\ agents' = [agents EXCEPT ![a].unbondingAmount = 0, ![a].unbondingAt = 0,
                                  ![a].bond = @ - amount]
      /\ vault' = vault - amount
  BY DEF TakeUnbonding
<1>2. Registered(a) /\ amount \in Nat /\ amount <= agents[a].bond
  BY RecordFacts, LesserType
<1> HIDE DEF amount
<1>3. agents'[a] = g
  BY <1>1, RecordFacts
<1>4. g \in Agent /\ g.bond = agents[a].bond - amount /\ g.unbondingAmount = 0
      /\ g.tier = agents[a].tier /\ g.operator = agents[a].operator
  <2>1. agents[a].bond - amount \in Nat
    BY <1>2, RecordFacts
  <2>2. agents[a] \in Agent
    BY RecordFacts
  <2>3. QED
    BY <2>1, <2>2 DEF Agent
<1>5. agents' = [agents EXCEPT ![a] = agents'[a]]
  BY <1>1, RecordFacts
<1> HIDE DEF g
<1>6. QED
  BY <1>1, <1>2, <1>3, <1>4, <1>5, RecordFacts DEF MovesBond, MovesRecord

\* The router's calls.  Each replaces one record by a function of it.
LEMMA RouterMovesBond ==
    ASSUME RegistryInv, NEW a \in Agents, Registered(a), NEW g \in Agent,
           agents' = [agents EXCEPT ![a] = g],
           g.tier = agents[a].tier, g.operator = agents[a].operator,
           g.unbondingAmount <= g.bond,
           vault' = vault - agents[a].bond + g.bond
    PROVE  MovesBond(a)
<1>1. agents'[a] = g
  BY RecordFacts
<1>2. QED
  BY <1>1, RecordFacts DEF MovesBond, MovesRecord

LEMMA SlashKeepsBounty ==
    ASSUME RegistryInv, NEW a \in Agents, Registered(a), NEW x \in Nat, NEW y \in Nat,
           NEW named \in BOOLEAN, slash(a, x, y, named)
    PROVE  KeepsBounty(a)
<1>1. agents[a] \in Agent /\ agents[a].bond \in Nat /\ vault \in Nat /\ agents[a].bond <= vault
  BY RecordFacts
<1>2. /\ SlashTaken(agents[a], x) \in 0 .. agents[a].bond
      /\ Slashed(agents[a], x) \in Agent
      /\ Slashed(agents[a], x).bond = agents[a].bond - SlashTaken(agents[a], x)
      /\ Slashed(agents[a], x).unbondingAmount <= Slashed(agents[a], x).bond
      /\ Slashed(agents[a], x).tier = agents[a].tier
      /\ Slashed(agents[a], x).operator = agents[a].operator
  BY <1>1, SlashedType
<1>3. SlashPaid(agents[a], x, y, named) \in 0 .. SlashTaken(agents[a], x)
  BY <1>1, <1>2 DEF SlashPaid, Lesser
<1>4. /\ agents' = [agents EXCEPT ![a] = Slashed(agents[a], x)]
      /\ vault' = vault - SlashPaid(agents[a], x, y, named)
  BY DEF slash
<1>5. agents'[a] = Slashed(agents[a], x)
  BY <1>4, RecordFacts
<1>6. MovesRecord(a)
  BY <1>2, <1>4, <1>5, RecordFacts DEF MovesRecord
<1>7. vault' \in Nat /\ vault' >= vault - agents[a].bond + agents'[a].bond
  BY <1>1, <1>2, <1>3, <1>4, <1>5
<1>8. QED
  BY <1>6, <1>7 DEF KeepsBounty

LEMMA OtherRouterCallsMoveBond ==
    ASSUME RegistryInv, NEW a \in Agents, Registered(a),
           \/ \E n \in BondAmounts, s \in Scores : reserve(a, n, s)
           \/ \E n \in BondAmounts : release(a, n)
           \/ \E t \in DeclaredTiers : recordDelivery(a, t)
    PROVE  MovesBond(a)
<1>1. /\ agents[a] \in Agent /\ agents[a].bond \in Nat /\ vault \in Nat
      /\ agents[a].unbondingAmount <= agents[a].bond
  BY RecordFacts
<1>2. CASE \E n \in BondAmounts, s \in Scores : reserve(a, n, s)
  <2>1. PICK n \in BondAmounts, s \in Scores : reserve(a, n, s)
    BY <1>2
  <2>2. n \in Nat
    BY BondAmountsAssumption
  <2>3. agents' = [agents EXCEPT ![a] = Reserved(agents[a], n)] /\ vault' = vault
    BY <2>1 DEF reserve
  <2>4. /\ Reserved(agents[a], n) \in Agent
        /\ Reserved(agents[a], n).bond = agents[a].bond
        /\ Reserved(agents[a], n).unbondingAmount = agents[a].unbondingAmount
        /\ Reserved(agents[a], n).tier = agents[a].tier
        /\ Reserved(agents[a], n).operator = agents[a].operator
    BY <1>1, <2>2, ReservedType
  <2>5. vault' = vault - agents[a].bond + Reserved(agents[a], n).bond
    BY <1>1, <2>3, <2>4
  <2>6. QED
    BY <1>1, <2>3, <2>4, <2>5, RouterMovesBond
<1>3. CASE \E n \in BondAmounts : release(a, n)
  <2>1. PICK n \in BondAmounts : release(a, n)
    BY <1>3
  <2>2. n \in Nat
    BY BondAmountsAssumption
  <2>3. agents' = [agents EXCEPT ![a] = Released(agents[a], n)] /\ vault' = vault
    BY <2>1 DEF release
  <2>4. /\ Released(agents[a], n) \in Agent
        /\ Released(agents[a], n).bond = agents[a].bond
        /\ Released(agents[a], n).unbondingAmount = agents[a].unbondingAmount
        /\ Released(agents[a], n).tier = agents[a].tier
        /\ Released(agents[a], n).operator = agents[a].operator
    BY <1>1, <2>2, ReleasedType
  <2>5. vault' = vault - agents[a].bond + Released(agents[a], n).bond
    BY <1>1, <2>3, <2>4
  <2>6. QED
    BY <1>1, <2>3, <2>4, <2>5, RouterMovesBond
<1>4. CASE \E t \in DeclaredTiers : recordDelivery(a, t)
  <2>1. PICK t \in DeclaredTiers : recordDelivery(a, t)
    BY <1>4
  <2>2. t \in Tiers
    BY DeclaredTiersAssumption
  <2>3. agents' = [agents EXCEPT ![a] = Delivered(agents[a], t)] /\ vault' = vault
    BY <2>1 DEF recordDelivery
  <2>4. /\ Delivered(agents[a], t) \in Agent
        /\ Delivered(agents[a], t).bond = agents[a].bond
        /\ Delivered(agents[a], t).unbondingAmount = agents[a].unbondingAmount
        /\ Delivered(agents[a], t).tier = agents[a].tier
        /\ Delivered(agents[a], t).operator = agents[a].operator
    BY <1>1, <2>2, DeliveredType
  <2>5. vault' = vault - agents[a].bond + Delivered(agents[a], t).bond
    BY <1>1, <2>3, <2>4
  <2>6. QED
    BY <1>1, <2>3, <2>4, <2>5, RouterMovesBond
<1>5. QED
  BY <1>2, <1>3, <1>4

-----------------------------------------------------------------------------
(* The inductive invariant *)

LEMMA RegistryInitInv == RegistryInit => RegistryInv /\ VaultIsBonds
<1> SUFFICES ASSUME RegistryInit PROVE RegistryInv /\ VaultIsBonds
  OBVIOUS
<1>1. RegistryShape
  BY UnregisteredType, LimitsAssumption DEF RegistryInit, RegistryShape
<1>2. UnbondingWithinBond /\ BlankUntilRegistered
  BY DEF RegistryInit, UnbondingWithinBond, BlankUntilRegistered, Registered, Unregistered
<1>3. VaultIsBonds
  <2>1. \A a \in Agents : BondOf[a] = 0
    BY DEF RegistryInit, BondOf, Unregistered
  <2>2. Units(BondOf, Agents) = {}
    BY <2>1 DEF Units
  <2>3. SumOver(BondOf, Agents) = 0
    BY <2>2, FS_EmptySet DEF SumOver
  <2>4. QED
    BY <2>3 DEF RegistryInit, VaultIsBonds
<1>4. vault \in Nat
  BY DEF RegistryInit
<1>5. VaultBacksBonds
  BY <1>3, <1>4 DEF VaultIsBonds, VaultBacksBonds
<1>6. QED
  BY <1>1, <1>2, <1>3, <1>4, <1>5 DEF RegistryInv

\* Each call of an owner is a MovesBond step of some agent, or leaves records and
\* vault be; so is each of the router's but a slash.
LEMMA OwnerMovesBond ==
    ASSUME RegistryInv, OwnerCall
    PROVE  (\E a \in Agents : MovesBond(a)) \/ UNCHANGED <<agents, vault>>
<1>1. CASE \E a \in Agents, o \in Operators, t \in DeclaredTiers, x \in BondAmounts :
             registerAgent(a, o, t, x)
  BY <1>1, RegisterMovesBond
<1>2. CASE \E a \in Agents, o \in Operators : rotateOperator(a, o)
  BY <1>2, RotateMovesBond
<1>3. CASE \E a \in Agents, x \in BondAmounts : increaseBond(a, x)
  BY <1>3, IncreaseMovesBond
<1>4. CASE \E a \in Agents, v \in BOOLEAN : setActive(a, v)
  BY <1>4, SetActiveMovesBond
<1>5. CASE \E a \in Agents, x \in BondAmounts, s \in Scores : startUnbonding(a, x, s)
  BY <1>5, StartUnbondingMovesBond
<1>6. CASE \E a \in Agents : withdraw(a) \/ withdrawEarly(a)
  <2>1. PICK a \in Agents : agents[a].unbondingAmount # 0 /\ TakeUnbonding(a)
    BY <1>6 DEF withdraw, withdrawEarly
  <2>2. QED
    BY <2>1, TakeMovesBond
<1>7. CASE \E l \in LimitChoices : \/ setLimits(l.minBond, l.globalNotionalCap)
                                  \/ setEarlyExitPenaltyBps(l.earlyExitPenaltyBps)
  BY <1>7 DEF setLimits, setEarlyExitPenaltyBps
<1>8. QED
  BY <1>1, <1>2, <1>3, <1>4, <1>5, <1>6, <1>7 DEF OwnerCall

LEMMA RouterKeepsBounty ==
    ASSUME RegistryInv, RouterCall
    PROVE  \E a \in Agents : MovesBond(a) \/ KeepsBounty(a)
<1>1. PICK a \in Agents :
        /\ Registered(a)
        /\ \/ \E n \in BondAmounts, s \in Scores : reserve(a, n, s)
           \/ \E n \in BondAmounts : release(a, n)
           \/ \E t \in DeclaredTiers : recordDelivery(a, t)
           \/ \E x, y \in BondAmounts, named \in BOOLEAN : slash(a, x, y, named)
  BY DEF RouterCall
<1>2. CASE \E x, y \in BondAmounts, named \in BOOLEAN : slash(a, x, y, named)
  BY <1>1, <1>2, BondAmountsAssumption, SlashKeepsBounty
<1>3. CASE \/ \E n \in BondAmounts, s \in Scores : reserve(a, n, s)
           \/ \E n \in BondAmounts : release(a, n)
           \/ \E t \in DeclaredTiers : recordDelivery(a, t)
  BY <1>1, <1>3, OtherRouterCallsMoveBond
<1>4. QED
  BY <1>1, <1>2, <1>3

\* The operator index and the limits keep their types.
LEMMA CallKeepsIndexAndLimits ==
    ASSUME RegistryShape, OwnerCall \/ RouterCall
    PROVE  /\ agentIdByOperator' \in [Operators -> Agents \cup {NoAgent}]
           /\ limits' \in Limits
<1>1. /\ agentIdByOperator \in [Operators -> Agents \cup {NoAgent}]
      /\ limits \in Limits
  BY DEF RegistryShape
<1>2. CASE \E a \in Agents, o \in Operators, t \in DeclaredTiers, x \in BondAmounts :
             registerAgent(a, o, t, x)
  BY <1>1, <1>2 DEF registerAgent
<1>3. CASE \E a \in Agents, o \in Operators : rotateOperator(a, o)
  BY <1>1, <1>3 DEF rotateOperator
<1>4. CASE \E l \in LimitChoices : \/ setLimits(l.minBond, l.globalNotionalCap)
                                  \/ setEarlyExitPenaltyBps(l.earlyExitPenaltyBps)
  <2>1. PICK l \in Limits : \/ setLimits(l.minBond, l.globalNotionalCap)
                            \/ setEarlyExitPenaltyBps(l.earlyExitPenaltyBps)
    BY <1>4, LimitsAssumption
  <2>2. l.minBond \in Nat /\ l.globalNotionalCap \in Nat /\ l.earlyExitPenaltyBps \in Bps
    BY DEF Limits
  <2>3. QED
    BY <1>1, <2>1, <2>2 DEF setLimits, setEarlyExitPenaltyBps, Limits
<1>5. CASE UNCHANGED <<agentIdByOperator, limits>>
  BY <1>1, <1>5
<1>6. CASE RouterCall
  <2>1. PICK a \in Agents :
          \/ \E n \in BondAmounts, s \in Scores : reserve(a, n, s)
          \/ \E n \in BondAmounts : release(a, n)
          \/ \E t \in DeclaredTiers : recordDelivery(a, t)
          \/ \E x, y \in BondAmounts, named \in BOOLEAN : slash(a, x, y, named)
    BY <1>6 DEF RouterCall
  <2>2. CASE \E x, y \in BondAmounts, named \in BOOLEAN : slash(a, x, y, named)
    <3>1. PICK x \in BondAmounts, y \in BondAmounts, named \in BOOLEAN : slash(a, x, y, named)
      BY <2>2
    <3>2. QED
      BY <1>5, <3>1 DEF slash
  <2>3. QED
    BY <1>5, <2>1, <2>2 DEF reserve, release, recordDelivery
<1>7. QED
  BY <1>2, <1>3, <1>4, <1>5, <1>6
     DEF OwnerCall, increaseBond, setActive, startUnbonding, withdraw, withdrawEarly,
         TakeUnbonding

LEMMA RegistryNextInv ==
    RegistryInv /\ [RegistryNext]_<<registryVars, now>> => RegistryInv'
<1> SUFFICES ASSUME RegistryInv, [RegistryNext]_<<registryVars, now>>
             PROVE  RegistryInv'
  OBVIOUS
<1>1. CASE (OwnerCall \/ RouterCall) /\ UNCHANGED now
  <2>1. /\ agents' \in [Agents -> Agent] /\ vault' \in Nat
        /\ VaultBacksBonds'
        /\ UnbondingWithinBond'
        /\ BlankUntilRegistered'
    <3>1. CASE OwnerCall
      BY <3>1, OwnerMovesBond, MovesBondKeeps, QuietKeeps
    <3>2. CASE RouterCall
      BY <3>2, RouterKeepsBounty, MovesBondKeeps, KeepsBountyKeeps
    <3>3. QED
      BY <1>1, <3>1, <3>2
  <2>2. /\ agentIdByOperator' \in [Operators -> Agents \cup {NoAgent}]
        /\ limits' \in Limits
    BY <1>1, CallKeepsIndexAndLimits DEF RegistryInv
  <2>3. now' \in Nat
    BY <1>1 DEF RegistryInv, RegistryShape
  <2>4. QED
    BY <2>1, <2>2, <2>3 DEF RegistryInv, RegistryShape
<1>2. CASE UNCHANGED registryVars /\ now' \in Nat
  <2>1. /\ vault' \in Nat
        /\ VaultBacksBonds'
        /\ UnbondingWithinBond'
        /\ BlankUntilRegistered'
    BY <1>2, QuietKeeps DEF registryVars
  <2>2. QED
    BY <1>2, <2>1 DEF RegistryInv, RegistryShape, registryVars
<1>3. now \in Nat
  BY DEF RegistryInv, RegistryShape
<1>4. QED
  BY <1>1, <1>2, <1>3 DEF RegistryNext, Tick

THEOREM RegistryInvariance == RegistrySpec => []RegistryInv
  BY RegistryInitInv, RegistryNextInv, PTL DEF RegistrySpec

\* AgentRegistry.sol keeps its records and its token balance well typed under
\* any router: in particular no withdrawal or slash takes more than is there.
THEOREM RegistryTypeCorrect == RegistrySpec => []RegistryTypeOK
<1>1. RegistryInv => RegistryTypeOK
  BY DEF RegistryInv, RegistryTypeOK
<1>2. QED
  BY <1>1, RegistryInvariance, PTL

\* Solvency: the registry holds at least the sum of the bonds it has recorded, after
\* any sequence of deposits, withdrawals at either door and slashes, whether or not
\* a slash names somebody for its bounty.
THEOREM VaultBacksBondsAlways == RegistrySpec => []VaultBacksBonds
<1>1. RegistryInv => VaultBacksBonds
  BY DEF RegistryInv
<1>2. QED
  BY <1>1, RegistryInvariance, PTL

\* No interleaving of slashes and unbonding calls leaves more unbonding than
\* bonded: what `withdraw` pays out is always what was asked for.
THEOREM UnbondingWithinBondAlways == RegistrySpec => []UnbondingWithinBond
<1>1. RegistryInv => UnbondingWithinBond
  BY DEF RegistryInv
<1>2. QED
  BY <1>1, RegistryInvariance, PTL

-----------------------------------------------------------------------------
(* The operator index *)

\* A call that changes neither the index nor any tier or operator keeps it.
LEMMA IndexUntouched ==
    ASSUME RegistryInv, OperatorIndexExact,
           UNCHANGED agentIdByOperator,
           \A a \in Agents : /\ agents'[a].operator = agents[a].operator
                             /\ agents'[a].tier = agents[a].tier
    PROVE  OperatorIndexExact'
<1>1. \A o \in Operators : agentIdByOperator[o] # NoAgent => agentIdByOperator[o] \in Agents
  BY DEF RegistryInv, RegistryShape
<1>2. QED
  BY <1>1 DEF OperatorIndexExact, Registered

LEMMA RegisterKeepsIndex ==
    ASSUME RegistryInv, OperatorIndexExact, NEW a \in Agents, NEW o \in Operators,
           NEW t, NEW x, registerAgent(a, o, t, x)
    PROVE  OperatorIndexExact'
<1>1. /\ agents \in [Agents -> Agent]
      /\ agentIdByOperator \in [Operators -> Agents \cup {NoAgent}]
      /\ \A b \in Agents : Registered(b) => agents[b].operator \in Operators
      /\ \A b \in Agents : ~Registered(b) => agents[b].operator = NoOperator
      /\ a # NoAgent
  BY AgentsAssumption
     DEF RegistryInv, RegistryShape, BlankUntilRegistered, Unregistered
<1>2. /\ ~Registered(a)
      /\ agentIdByOperator[o] = NoAgent
      /\ agentIdByOperator' = [agentIdByOperator EXCEPT ![o] = a]
      /\ agents'[a].operator = o
      /\ \A b \in Agents \ {a} : agents'[b] = agents[b]
  BY <1>1 DEF registerAgent
\* Nobody registered has operator o: the index would say so.
<1>3. ASSUME NEW b \in Agents, Registered(b)'
      PROVE  agentIdByOperator'[agents'[b].operator] = b
  <2>1. CASE b = a
    BY <1>1, <1>2, <2>1
  <2>2. CASE b # a
    <3>1. agents'[b] = agents[b] /\ Registered(b)
      BY <1>2, <1>3, <2>2 DEF Registered
    <3>2. agentIdByOperator[agents[b].operator] = b /\ b # NoAgent
      BY <3>1, AgentsAssumption DEF OperatorIndexExact
    <3>3. agents[b].operator \in Operators \ {o}
      BY <1>1, <1>2, <3>1, <3>2
    <3>4. QED
      BY <1>1, <1>2, <3>1, <3>2, <3>3
  <2>3. QED
    BY <2>1, <2>2
<1>4. ASSUME NEW p \in Operators, agentIdByOperator'[p] # NoAgent
      PROVE  agents'[agentIdByOperator'[p]].operator = p
  <2>1. CASE p = o
    BY <1>1, <1>2, <2>1
  <2>2. CASE p # o
    <3>1. agentIdByOperator'[p] = agentIdByOperator[p] /\ agentIdByOperator[p] \in Agents
      BY <1>1, <1>2, <1>4, <2>2
    <3>2. agents[agentIdByOperator[p]].operator = p
      BY <1>4, <3>1 DEF OperatorIndexExact
    <3>3. agentIdByOperator[p] # a
      BY <1>1, <1>2, <3>1, <3>2, OperatorsAssumption
    <3>4. QED
      BY <1>2, <3>1, <3>2, <3>3
  <2>3. QED
    BY <2>1, <2>2
<1>5. QED
  BY <1>3, <1>4 DEF OperatorIndexExact

LEMMA RotateKeepsIndex ==
    ASSUME RegistryInv, OperatorIndexExact, NEW a \in Agents, NEW o \in Operators,
           rotateOperator(a, o)
    PROVE  OperatorIndexExact'
<1> DEFINE old == agents[a].operator
<1>1. /\ agents \in [Agents -> Agent]
      /\ agentIdByOperator \in [Operators -> Agents \cup {NoAgent}]
      /\ \A b \in Agents : Registered(b) => agents[b].operator \in Operators
      /\ a # NoAgent
  BY AgentsAssumption DEF RegistryInv, RegistryShape, BlankUntilRegistered
<1>2. /\ Registered(a)
      /\ agentIdByOperator[o] = NoAgent
      /\ agents' = [agents EXCEPT ![a].operator = o]
      /\ agentIdByOperator' = [agentIdByOperator EXCEPT ![old] = NoAgent, ![o] = a]
  BY DEF rotateOperator
<1>3. /\ agents'[a].operator = o
      /\ \A b \in Agents : agents'[b].tier = agents[b].tier
      /\ \A b \in Agents \ {a} : agents'[b] = agents[b]
  BY <1>1, <1>2 DEF Agent
<1>4. old \in Operators /\ agentIdByOperator[old] = a /\ old # o
  BY <1>1, <1>2 DEF OperatorIndexExact
<1>5. /\ agentIdByOperator'[o] = a
      /\ agentIdByOperator'[old] = NoAgent
      /\ \A p \in Operators \ {o, old} : agentIdByOperator'[p] = agentIdByOperator[p]
  BY <1>1, <1>2, <1>4
<1> HIDE DEF old
<1>6. ASSUME NEW b \in Agents, Registered(b)'
      PROVE  agentIdByOperator'[agents'[b].operator] = b
  <2>1. CASE b = a
    BY <1>3, <1>5, <2>1
  <2>2. CASE b # a
    <3>1. agents'[b] = agents[b] /\ Registered(b)
      BY <1>3, <1>6, <2>2 DEF Registered
    <3>2. agentIdByOperator[agents[b].operator] = b /\ b # NoAgent
      BY <3>1, AgentsAssumption DEF OperatorIndexExact
    <3>3. agents[b].operator \in Operators \ {o, old}
      BY <1>1, <1>2, <1>4, <2>2, <3>1, <3>2
    <3>4. QED
      BY <1>5, <3>1, <3>2, <3>3
  <2>3. QED
    BY <2>1, <2>2
<1>7. ASSUME NEW p \in Operators, agentIdByOperator'[p] # NoAgent
      PROVE  agents'[agentIdByOperator'[p]].operator = p
  <2>1. CASE p = o
    BY <1>3, <1>5, <2>1
  <2>2. CASE p # o
    <3>1. agentIdByOperator'[p] = agentIdByOperator[p] /\ agentIdByOperator[p] \in Agents
      BY <1>1, <1>5, <1>7, <2>2
    <3>2. agents[agentIdByOperator[p]].operator = p
      BY <1>7, <3>1 DEF OperatorIndexExact
    <3>3. agentIdByOperator[p] # a
      BY <1>5, <1>7, <2>2, <3>1, <3>2 DEF old
    <3>4. QED
      BY <1>3, <3>1, <3>2, <3>3
  <2>3. QED
    BY <2>1, <2>2
<1>8. QED
  BY <1>6, <1>7 DEF OperatorIndexExact

\* Every other call: the operator, the tier and the index are left alone, and
\* no call but registerAgent and rotateOperator names an operator at all.
LEMMA OtherCallsKeepOperators ==
    ASSUME RegistryInv,
           \/ \E a \in Agents :
                \/ \E x \in BondAmounts : increaseBond(a, x)
                \/ \E v \in BOOLEAN : setActive(a, v)
                \/ \E x \in BondAmounts, s \in Scores : startUnbonding(a, x, s)
                \/ withdraw(a)
                \/ withdrawEarly(a)
           \/ \E l \in LimitChoices : \/ setLimits(l.minBond, l.globalNotionalCap)
                                      \/ setEarlyExitPenaltyBps(l.earlyExitPenaltyBps)
           \/ RouterCall
    PROVE  /\ UNCHANGED agentIdByOperator
           /\ \A b \in Agents : /\ agents'[b].operator = agents[b].operator
                                 /\ agents'[b].tier = agents[b].tier
                                 /\ agents'[b].demonstratedTier >= agents[b].demonstratedTier
<1>1. agents \in [Agents -> Agent]
  BY DEF RegistryInv, RegistryShape
<1>2. \A b \in Agents : agents[b].demonstratedTier \in Nat
  BY <1>1 DEF Agent
<1>3. CASE \E a \in Agents, x \in BondAmounts : increaseBond(a, x)
  BY <1>1, <1>2, <1>3 DEF increaseBond
<1>4. CASE \E a \in Agents, v \in BOOLEAN : setActive(a, v)
  BY <1>1, <1>2, <1>4 DEF setActive
<1>5. CASE \E a \in Agents, x \in BondAmounts, s \in Scores : startUnbonding(a, x, s)
  <2>1. PICK a \in Agents, x \in BondAmounts, s \in Scores : startUnbonding(a, x, s)
    BY <1>5
  <2>2. agents' = [agents EXCEPT ![a] = [agents[a] EXCEPT !.unbondingAmount = x,
                                          !.unbondingAt = now + UnbondingPeriod]]
        /\ UNCHANGED agentIdByOperator
    BY <2>1 DEF startUnbonding
  <2>3. QED
    BY <1>1, <1>2, <2>2
<1>6. CASE \E a \in Agents : withdraw(a) \/ withdrawEarly(a)
  <2>1. PICK a \in Agents : TakeUnbonding(a)
    BY <1>6 DEF withdraw, withdrawEarly
  <2>2. QED
    BY <1>1, <1>2, <2>1 DEF TakeUnbonding
<1>7. CASE \E l \in LimitChoices : \/ setLimits(l.minBond, l.globalNotionalCap)
                                  \/ setEarlyExitPenaltyBps(l.earlyExitPenaltyBps)
  <2>1. UNCHANGED <<agents, agentIdByOperator>>
    BY <1>7 DEF setLimits, setEarlyExitPenaltyBps
  <2>2. QED
    BY <1>2, <2>1
<1>8. CASE RouterCall
  <2>1. PICK a \in Agents, g \in Agent :
          /\ UNCHANGED agentIdByOperator
          /\ agents' = [agents EXCEPT ![a] = g]
          /\ g.operator = agents[a].operator
          /\ g.tier = agents[a].tier
          /\ g.demonstratedTier >= agents[a].demonstratedTier
    <3>1. PICK a \in Agents :
            \/ \E n \in BondAmounts, s \in Scores : reserve(a, n, s)
            \/ \E n \in BondAmounts : release(a, n)
            \/ \E t \in DeclaredTiers : recordDelivery(a, t)
            \/ \E x, y \in BondAmounts, named \in BOOLEAN : slash(a, x, y, named)
      BY <1>8 DEF RouterCall
    <3>2. agents[a] \in Agent /\ agents[a].demonstratedTier >= agents[a].demonstratedTier
      BY <1>1, <1>2
    <3>3. CASE \E n \in BondAmounts, s \in Scores : reserve(a, n, s)
      <4>1. PICK n \in Nat : /\ agents' = [agents EXCEPT ![a] = Reserved(agents[a], n)]
                              /\ UNCHANGED agentIdByOperator
        BY <3>3, BondAmountsAssumption DEF reserve
      <4>2. /\ Reserved(agents[a], n) \in Agent
            /\ Reserved(agents[a], n).demonstratedTier >= agents[a].demonstratedTier
            /\ Reserved(agents[a], n).operator = agents[a].operator
            /\ Reserved(agents[a], n).tier = agents[a].tier
        BY <3>2, ReservedType
      <4>3. QED
        BY <4>1, <4>2
    <3>4. CASE \E n \in BondAmounts : release(a, n)
      <4>1. PICK n \in Nat : /\ agents' = [agents EXCEPT ![a] = Released(agents[a], n)]
                              /\ UNCHANGED agentIdByOperator
        BY <3>4, BondAmountsAssumption DEF release
      <4>2. /\ Released(agents[a], n) \in Agent
            /\ Released(agents[a], n).demonstratedTier >= agents[a].demonstratedTier
            /\ Released(agents[a], n).operator = agents[a].operator
            /\ Released(agents[a], n).tier = agents[a].tier
        BY <3>2, ReleasedType
      <4>3. QED
        BY <4>1, <4>2
    <3>5. CASE \E t \in DeclaredTiers : recordDelivery(a, t)
      <4>1. PICK t \in Tiers : /\ agents' = [agents EXCEPT ![a] = Delivered(agents[a], t)]
                               /\ UNCHANGED agentIdByOperator
        BY <3>5, DeclaredTiersAssumption DEF recordDelivery
      <4>2. /\ Delivered(agents[a], t) \in Agent
            /\ Delivered(agents[a], t).demonstratedTier >= agents[a].demonstratedTier
            /\ Delivered(agents[a], t).operator = agents[a].operator
            /\ Delivered(agents[a], t).tier = agents[a].tier
        BY <3>2, DeliveredType
      <4>3. QED
        BY <4>1, <4>2
    <3>6. CASE \E x, y \in BondAmounts, named \in BOOLEAN : slash(a, x, y, named)
      <4>1. PICK x \in Nat : /\ agents' = [agents EXCEPT ![a] = Slashed(agents[a], x)]
                              /\ UNCHANGED agentIdByOperator
        BY <3>6, BondAmountsAssumption DEF slash
      <4>2. /\ Slashed(agents[a], x) \in Agent
            /\ Slashed(agents[a], x).demonstratedTier >= agents[a].demonstratedTier
            /\ Slashed(agents[a], x).operator = agents[a].operator
            /\ Slashed(agents[a], x).tier = agents[a].tier
        BY <3>2, SlashedType
      <4>3. QED
        BY <4>1, <4>2
    <3>7. QED
      BY <3>1, <3>3, <3>4, <3>5, <3>6
  <2>2. QED
    BY <1>1, <1>2, <2>1
<1>9. QED
  BY <1>3, <1>4, <1>5, <1>6, <1>7, <1>8

LEMMA IndexStep ==
    RegistryInv /\ OperatorIndexExact /\ [RegistryNext]_<<registryVars, now>>
      => OperatorIndexExact'
<1> SUFFICES ASSUME RegistryInv, OperatorIndexExact, [RegistryNext]_<<registryVars, now>>
             PROVE  OperatorIndexExact'
  OBVIOUS
<1>1. CASE \E a \in Agents, o \in Operators, t \in DeclaredTiers, x \in BondAmounts :
             registerAgent(a, o, t, x)
  BY <1>1, RegisterKeepsIndex
<1>2. CASE \E a \in Agents, o \in Operators : rotateOperator(a, o)
  BY <1>2, RotateKeepsIndex
<1>3. CASE UNCHANGED registryVars
  BY <1>3, IndexUntouched DEF registryVars
<1>4. QED
  BY <1>1, <1>2, <1>3, OtherCallsKeepOperators, IndexUntouched
     DEF RegistryNext, OwnerCall, Tick

\* No rotation leaves a stale entry behind, and no two agents share a key: what
\* the router looks up by the caller's address is that operator's agent.
THEOREM OperatorIndexAlwaysExact == RegistrySpec => []OperatorIndexExact
<1>1. RegistryInit => OperatorIndexExact
  BY AgentsAssumption
     DEF RegistryInit, OperatorIndexExact, Registered, Unregistered
<1>2. QED
  BY <1>1, IndexStep, RegistryInvariance, PTL DEF RegistrySpec

\* A demonstrated tier never falls, whoever calls what.
THEOREM TierRatchetsAlways == RegistrySpec => TierRatchets
<1> DEFINE Rise == \A a \in Agents : agents'[a].demonstratedTier >= agents[a].demonstratedTier
<1>1. ASSUME RegistryInv, [RegistryNext]_<<registryVars, now>>
      PROVE  [Rise]_agents
  <2>1. /\ agents \in [Agents -> Agent]
        /\ \A a \in Agents : agents[a].demonstratedTier \in Nat
    BY <1>1 DEF RegistryInv, RegistryShape, Agent
  <2>2. CASE \E a \in Agents, o \in Operators, t \in DeclaredTiers, x \in BondAmounts :
               registerAgent(a, o, t, x)
    <3>1. PICK a \in Agents, o \in Operators, t \in DeclaredTiers, x \in BondAmounts :
               registerAgent(a, o, t, x)
      BY <2>2
    <3>2. agents[a].demonstratedTier = 0
      BY <1>1, <3>1 DEF registerAgent, RegistryInv, BlankUntilRegistered, Unregistered
    <3>3. \E g \in {[Unregistered EXCEPT !.operator = o, !.tier = t,
                                         !.active = TRUE, !.bond = x]} :
             agents' = [agents EXCEPT ![a] = g] /\ g.demonstratedTier = 0
      BY <3>1 DEF registerAgent, Unregistered
    <3>4. QED
      BY <2>1, <3>2, <3>3
  <2>3. CASE \E a \in Agents, o \in Operators : rotateOperator(a, o)
    BY <2>1, <2>3 DEF rotateOperator
  <2>4. CASE UNCHANGED registryVars
    BY <2>4 DEF registryVars
  <2>5. QED
    BY <1>1, <2>2, <2>3, <2>4, OtherCallsKeepOperators DEF RegistryNext, OwnerCall, Tick
<1>2. QED
  BY <1>1, RegistryInvariance, PTL DEF RegistrySpec, TierRatchets

-----------------------------------------------------------------------------
(* The inductive invariant *)

\* Every variable of the router but the escrow, a natural number only because
\* it is the sum of what is held.
RouterShape ==
    /\ requests \in [Requests -> Request]
    /\ params \in Params
    /\ record \in [Agents -> [faults : Nat, settledExecutions : Nat]]
    /\ provable \in SUBSET Agents

\* A request that was made is some registered agent's, of a notional that is not
\* zero; it holds a challenge bond only while it is challenged.
RequestsWellFormed ==
    \A r \in Requests :
      /\ requests[r].status # "None" =>
           /\ requests[r].agent \in Agents
           /\ Registered(requests[r].agent)
           /\ requests[r].notional # 0
      /\ requests[r].status # "Challenged" => requests[r].challengeBond = 0

\* What is inductive.  The totals are exact only together: a release takes what
\* was reserved because the exposure is the sum it is part of, a closing request
\* pays what it holds because a bond is recorded only while it is escrowed.
RouterInv ==
    /\ RegistryInv /\ VaultIsBonds
    /\ RouterShape
    /\ RequestsWellFormed
    /\ ExposureExact
    /\ EscrowExact
    /\ RecordMatchesEndings

-----------------------------------------------------------------------------
(* What one request stands for in each of the books *)

Exposed(q, a) == IF q.status \in Live /\ q.agent = a THEN q.notional ELSE 0
FeeHeld(q) == IF q.status \in Live THEN q.fee ELSE 0
BondHeld(q) == IF q.status = "Challenged" THEN q.challengeBond ELSE 0
FaultOf(q, a) == IF q.status \in {"Expired", "Faulted"} /\ q.agent = a THEN 1 ELSE 0
SettlementOf(q, a) == IF q.status = "Settled" /\ q.agent = a THEN 1 ELSE 0

WellFormed(q) ==
    /\ q.status # "None" => q.agent \in Agents /\ q.notional # 0
    /\ q.status # "Challenged" => q.challengeBond = 0

\* A step in which request r's record becomes q, of agent a, and every book is
\* moved by exactly what that changes in it.
MovesRequest(r, a, q) ==
    /\ requests' = [requests EXCEPT ![r] = q]
    /\ q \in Request /\ WellFormed(q) /\ q.status # "None" /\ q.agent = a
    /\ \/ requests[r].status = "None"
       \/ /\ requests[r].agent = a
          /\ requests[r].notional = q.notional /\ requests[r].fee = q.fee
    /\ escrow' = escrow - (FeeHeld(requests[r]) + BondHeld(requests[r]))
                        + (FeeHeld(q) + BondHeld(q))
    /\ agents'[a].openNotional =
         agents[a].openNotional - Exposed(requests[r], a) + Exposed(q, a)
    /\ \A b \in Agents \ {a} : agents'[b].openNotional = agents[b].openNotional
    /\ record' \in [Agents -> [faults : Nat, settledExecutions : Nat]]
    /\ record'[a].faults =
         record[a].faults - FaultOf(requests[r], a) + FaultOf(q, a)
    /\ record'[a].settledExecutions =
         record[a].settledExecutions - SettlementOf(requests[r], a) + SettlementOf(q, a)
    /\ \A b \in Agents \ {a} : record'[b] = record[b]

-----------------------------------------------------------------------------
(* One request moves: the sets and the totals *)

LEMMA RequestFacts ==
    ASSUME RouterShape, NEW r \in Requests
    PROVE  /\ requests[r] \in Request
           /\ requests[r].status \in Status
           /\ requests[r].agent \in Agents \cup {NoAgent}
           /\ requests[r].notional \in Nat /\ requests[r].fee \in Nat
           /\ requests[r].challengeBond \in Nat
           /\ NotionalOf[r] = requests[r].notional
           /\ FeeOf[r] = requests[r].fee
           /\ ChallengeBondOf[r] = requests[r].challengeBond
  BY DEF RouterShape, Request, NotionalOf, FeeOf, ChallengeBondOf

\* Every set of requests the books sum over is finite.
LEMMA RequestSetsFinite ==
    /\ IsFiniteSet(LiveRequests)
    /\ \A a : IsFiniteSet(LiveOf(a))
    /\ \A s : IsFiniteSet(In(s))
    /\ \A a : IsFiniteSet(Of(a) \cap (In("Expired") \cup In("Faulted")))
    /\ \A a : IsFiniteSet(Of(a) \cap In("Settled"))
<1>1. \A S \in SUBSET Requests : IsFiniteSet(S)
  BY RequestsAssumption, FS_Subset
<1>2. /\ LiveRequests \in SUBSET Requests
      /\ \A a : LiveOf(a) \in SUBSET Requests
      /\ \A s : In(s) \in SUBSET Requests
      /\ \A a : Of(a) \in SUBSET Requests
  BY DEF LiveRequests, LiveOf, In, Of
<1>3. /\ \A a : (Of(a) \cap (In("Expired") \cup In("Faulted"))) \in SUBSET Requests
      /\ \A a : (Of(a) \cap In("Settled")) \in SUBSET Requests
  BY <1>2
<1>4. QED
  BY <1>1, <1>2, <1>3

\* When one record changes, each set gains or loses that request at most.
LEMMA RequestSetsMove ==
    ASSUME RouterShape, NEW r \in Requests, NEW q \in Request,
           requests' = [requests EXCEPT ![r] = q]
    PROVE  /\ requests'[r] = q
           /\ \A x \in Requests \ {r} : requests'[x] = requests[x]
           /\ LiveRequests \ {r} = LiveRequests' \ {r}
           /\ r \in LiveRequests <=> requests[r].status \in Live
           /\ r \in LiveRequests' <=> q.status \in Live
           /\ \A s : /\ In(s) \ {r} = In(s)' \ {r}
                     /\ r \in In(s) <=> requests[r].status = s
                     /\ r \in In(s)' <=> q.status = s
           /\ \A a : /\ Of(a) \ {r} = Of(a)' \ {r}
                     /\ r \in Of(a) <=> requests[r].agent = a
                     /\ r \in Of(a)' <=> q.agent = a
<1>1. /\ requests'[r] = q
      /\ \A x \in Requests \ {r} : requests'[x] = requests[x]
  BY DEF RouterShape
<1>2. /\ LiveRequests \ {r} = LiveRequests' \ {r}
      /\ r \in LiveRequests <=> requests[r].status \in Live
      /\ r \in LiveRequests' <=> q.status \in Live
  BY <1>1 DEF LiveRequests
<1>3. ASSUME NEW s
      PROVE  /\ In(s) \ {r} = In(s)' \ {r}
             /\ r \in In(s) <=> requests[r].status = s
             /\ r \in In(s)' <=> q.status = s
  BY <1>1 DEF In
<1>4. ASSUME NEW a
      PROVE  /\ Of(a) \ {r} = Of(a)' \ {r}
             /\ r \in Of(a) <=> requests[r].agent = a
             /\ r \in Of(a)' <=> q.agent = a
  BY <1>1 DEF Of
<1>5. QED
  BY <1>1, <1>2, <1>3, <1>4

\* The three sums of requests' amounts, after a move, by what r counts in them.
LEMMA SumsMove ==
    ASSUME RouterShape, NEW r \in Requests, NEW q \in Request,
           requests' = [requests EXCEPT ![r] = q]
    PROVE  /\ SumOver(FeeOf, LiveRequests) \in Nat
           /\ SumOver(FeeOf', LiveRequests')
                = SumOver(FeeOf, LiveRequests) - FeeHeld(requests[r]) + FeeHeld(q)
           /\ SumOver(ChallengeBondOf, In("Challenged")) \in Nat
           /\ SumOver(ChallengeBondOf', In("Challenged")')
                = SumOver(ChallengeBondOf, In("Challenged"))
                    - BondHeld(requests[r]) + BondHeld(q)
           /\ \A a : /\ SumOver(NotionalOf, LiveOf(a)) \in Nat
                     /\ SumOver(NotionalOf', LiveOf(a)')
                          = SumOver(NotionalOf, LiveOf(a))
                              - Exposed(requests[r], a) + Exposed(q, a)
<1>1. /\ requests'[r] = q
      /\ \A x \in Requests \ {r} : requests'[x] = requests[x]
      /\ requests' \in [Requests -> Request]
  BY DEF RouterShape
<1>2. \A x \in Requests :
        /\ FeeOf[x] = requests[x].fee /\ FeeOf'[x] = requests'[x].fee
        /\ ChallengeBondOf[x] = requests[x].challengeBond
        /\ ChallengeBondOf'[x] = requests'[x].challengeBond
        /\ NotionalOf[x] = requests[x].notional /\ NotionalOf'[x] = requests'[x].notional
  BY DEF FeeOf, ChallengeBondOf, NotionalOf
<1>3. \A x \in Requests :
        /\ FeeOf[x] \in Nat /\ FeeOf'[x] \in Nat
        /\ ChallengeBondOf[x] \in Nat /\ ChallengeBondOf'[x] \in Nat
        /\ NotionalOf[x] \in Nat /\ NotionalOf'[x] \in Nat
  BY <1>1, <1>2 DEF RouterShape, Request
<1>4. \A x \in Requests \ {r} :
        /\ FeeOf'[x] = FeeOf[x]
        /\ ChallengeBondOf'[x] = ChallengeBondOf[x]
        /\ NotionalOf'[x] = NotionalOf[x]
  BY <1>1, <1>2
<1>5. /\ LiveRequests \subseteq Requests /\ LiveRequests' \subseteq Requests
      /\ \A s : In(s) \subseteq Requests /\ In(s)' \subseteq Requests
      /\ \A a : LiveOf(a) \subseteq Requests /\ LiveOf(a)' \subseteq Requests
  BY DEF LiveRequests, In, LiveOf
\* A sum over one of the sets, before and after.
<1>7. ASSUME NEW S, NEW T, S \subseteq Requests, T \subseteq Requests, S \ {r} = T \ {r}
      PROVE  \A f, g :
               (\A y \in Requests : f[y] \in Nat /\ g[y] \in Nat)
               /\ (\A y \in Requests \ {r} : g[y] = f[y])
               => /\ SumOver(f, S) \in Nat
                  /\ SumOver(g, T) = SumOver(f, S) - PartOf(f, S, r) + PartOf(g, T, r)
  <2>1. IsFiniteSet(S) /\ IsFiniteSet(T)
    BY <1>7, RequestsAssumption, FS_Subset
  <2>2. \A f, g :
          (\A y \in S : f[y] \in Nat)
          /\ (\A y \in T : g[y] \in Nat)
          /\ (\A y \in S \ {r} : g[y] = f[y])
          => /\ SumOver(f, S) \in Nat
             /\ SumOver(g, T) = SumOver(f, S) - PartOf(f, S, r) + PartOf(g, T, r)
    BY <1>7, <2>1, SumChange, SMTT(30)
  <2>3. QED
    BY <1>7, <2>2
<1>8. /\ LiveRequests \subseteq Requests /\ LiveRequests' \subseteq Requests
      /\ LiveRequests \ {r} = LiveRequests' \ {r}
      /\ In("Challenged") \subseteq Requests /\ In("Challenged")' \subseteq Requests
      /\ In("Challenged") \ {r} = In("Challenged")' \ {r}
  BY <1>5, RequestSetsMove
<1>9. ASSUME NEW a
      PROVE  /\ LiveOf(a) \subseteq Requests /\ LiveOf(a)' \subseteq Requests
             /\ LiveOf(a) \ {r} = LiveOf(a)' \ {r}
             /\ r \in LiveOf(a) <=> requests[r].status \in Live /\ requests[r].agent = a
             /\ r \in LiveOf(a)' <=> q.status \in Live /\ q.agent = a
  <2>1. /\ LiveRequests \ {r} = LiveRequests' \ {r}
        /\ r \in LiveRequests <=> requests[r].status \in Live
        /\ r \in LiveRequests' <=> q.status \in Live
        /\ Of(a) \ {r} = Of(a)' \ {r}
        /\ r \in Of(a) <=> requests[r].agent = a
        /\ r \in Of(a)' <=> q.agent = a
    BY <1>1 DEF LiveRequests, Of
  <2>2. QED
    BY <1>5, <2>1 DEF LiveOf
<1>10. /\ SumOver(FeeOf, LiveRequests) \in Nat
       /\ SumOver(FeeOf', LiveRequests')
            = SumOver(FeeOf, LiveRequests)
                - PartOf(FeeOf, LiveRequests, r) + PartOf(FeeOf', LiveRequests', r)
  <2>1. /\ LiveRequests \subseteq Requests /\ LiveRequests' \subseteq Requests
        /\ LiveRequests \ {r} = LiveRequests' \ {r}
    BY <1>8
  <2>2. \A f, g :
          (\A y \in Requests : f[y] \in Nat /\ g[y] \in Nat)
          /\ (\A y \in Requests \ {r} : g[y] = f[y])
          => /\ SumOver(f, LiveRequests) \in Nat
             /\ SumOver(g, LiveRequests') = SumOver(f, LiveRequests)
                  - PartOf(f, LiveRequests, r) + PartOf(g, LiveRequests', r)
    BY <1>7, <2>1, Zenon
  <2>3. QED
    BY <1>3, <1>4, <2>2
<1>11. /\ SumOver(ChallengeBondOf, In("Challenged")) \in Nat
       /\ SumOver(ChallengeBondOf', In("Challenged")')
            = SumOver(ChallengeBondOf, In("Challenged"))
                - PartOf(ChallengeBondOf, In("Challenged"), r)
                + PartOf(ChallengeBondOf', In("Challenged")', r)
  <2>1. /\ In("Challenged") \subseteq Requests /\ In("Challenged")' \subseteq Requests
        /\ In("Challenged") \ {r} = In("Challenged")' \ {r}
    BY <1>8
  <2>2. \A f, g :
          (\A y \in Requests : f[y] \in Nat /\ g[y] \in Nat)
          /\ (\A y \in Requests \ {r} : g[y] = f[y])
          => /\ SumOver(f, In("Challenged")) \in Nat
             /\ SumOver(g, In("Challenged")') = SumOver(f, In("Challenged"))
                  - PartOf(f, In("Challenged"), r) + PartOf(g, In("Challenged")', r)
    BY <1>7, <2>1, Zenon
  <2>3. QED
    BY <1>3, <1>4, <2>2
<1>12. ASSUME NEW a
       PROVE  /\ SumOver(NotionalOf, LiveOf(a)) \in Nat
              /\ SumOver(NotionalOf', LiveOf(a)')
                   = SumOver(NotionalOf, LiveOf(a))
                       - PartOf(NotionalOf, LiveOf(a), r) + PartOf(NotionalOf', LiveOf(a)', r)
  <2>1. /\ LiveOf(a) \subseteq Requests /\ LiveOf(a)' \subseteq Requests
        /\ LiveOf(a) \ {r} = LiveOf(a)' \ {r}
    BY <1>9
  <2>2. \A f, g :
          (\A y \in Requests : f[y] \in Nat /\ g[y] \in Nat)
          /\ (\A y \in Requests \ {r} : g[y] = f[y])
          => /\ SumOver(f, LiveOf(a)) \in Nat
             /\ SumOver(g, LiveOf(a)') = SumOver(f, LiveOf(a))
                  - PartOf(f, LiveOf(a), r) + PartOf(g, LiveOf(a)', r)
    BY <1>7, <2>1, Zenon
  <2>3. QED
    BY <1>3, <1>4, <2>2
<1>13. /\ PartOf(FeeOf, LiveRequests, r) = FeeHeld(requests[r])
       /\ PartOf(FeeOf', LiveRequests', r) = FeeHeld(q)
  <2>1. /\ r \in LiveRequests <=> requests[r].status \in Live
        /\ r \in LiveRequests' <=> q.status \in Live
    BY RequestSetsMove
  <2>2. QED
    BY <1>1, <1>2, <2>1 DEF FeeHeld, PartOf
<1>14. /\ PartOf(ChallengeBondOf, In("Challenged"), r) = BondHeld(requests[r])
       /\ PartOf(ChallengeBondOf', In("Challenged")', r) = BondHeld(q)
  <2>1. /\ r \in In("Challenged") <=> requests[r].status = "Challenged"
        /\ r \in In("Challenged")' <=> q.status = "Challenged"
    BY <1>1 DEF In
  <2>2. QED
    BY <1>1, <1>2, <2>1 DEF BondHeld, PartOf
<1>15. ASSUME NEW a
       PROVE  /\ PartOf(NotionalOf, LiveOf(a), r) = Exposed(requests[r], a)
              /\ PartOf(NotionalOf', LiveOf(a)', r) = Exposed(q, a)
  BY <1>1, <1>2, <1>9 DEF Exposed, PartOf
<1>16. QED
  BY <1>10, <1>11, <1>12, <1>13, <1>14, <1>15
\* The counters of agent a's endings, likewise.
LEMMA CountsMove ==
    ASSUME RouterShape, NEW r \in Requests, NEW q \in Request,
           requests' = [requests EXCEPT ![r] = q], NEW a
    PROVE  LET ended == Of(a) \cap (In("Expired") \cup In("Faulted"))
               settled == Of(a) \cap In("Settled")
           IN  /\ Cardinality(ended) \in Nat
               /\ Cardinality(ended')
                    = Cardinality(ended) - FaultOf(requests[r], a) + FaultOf(q, a)
               /\ Cardinality(settled) \in Nat
               /\ Cardinality(settled')
                    = Cardinality(settled) - SettlementOf(requests[r], a) + SettlementOf(q, a)
<1> DEFINE ended == Of(a) \cap (In("Expired") \cup In("Faulted"))
           settled == Of(a) \cap In("Settled")
<1>1. /\ requests'[r] = q
      /\ \A x \in Requests \ {r} : requests'[x] = requests[x]
  BY DEF RouterShape
<1>2. /\ ended \subseteq Requests /\ ended' \subseteq Requests
      /\ settled \subseteq Requests /\ settled' \subseteq Requests
  BY DEF Of
<1>3. /\ ended \ {r} = ended' \ {r}
      /\ settled \ {r} = settled' \ {r}
  BY <1>1 DEF Of, In
<1>4. /\ r \in ended <=> FaultOf(requests[r], a) = 1
      /\ r \notin ended <=> FaultOf(requests[r], a) = 0
      /\ r \in ended' <=> FaultOf(q, a) = 1
      /\ r \notin ended' <=> FaultOf(q, a) = 0
  BY <1>1 DEF Of, In, FaultOf
<1>5. /\ r \in settled <=> SettlementOf(requests[r], a) = 1
      /\ r \notin settled <=> SettlementOf(requests[r], a) = 0
      /\ r \in settled' <=> SettlementOf(q, a) = 1
      /\ r \notin settled' <=> SettlementOf(q, a) = 0
  BY <1>1 DEF Of, In, SettlementOf
<1> HIDE DEF ended, settled
<1>6. \A S \in SUBSET Requests : IsFiniteSet(S)
  BY RequestsAssumption, FS_Subset
<1>7. /\ Cardinality(ended) \in Nat
      /\ Cardinality(ended') = Cardinality(ended) - (IF r \in ended THEN 1 ELSE 0)
                                                  + (IF r \in ended' THEN 1 ELSE 0)
  <2>1. IsFiniteSet(ended) /\ IsFiniteSet(ended')
    BY <1>2, <1>6
  <2>2. QED
    BY <1>3, <2>1, CountChange
<1>8. /\ Cardinality(settled) \in Nat
      /\ Cardinality(settled') = Cardinality(settled) - (IF r \in settled THEN 1 ELSE 0)
                                                      + (IF r \in settled' THEN 1 ELSE 0)
  <2>1. IsFiniteSet(settled) /\ IsFiniteSet(settled')
    BY <1>2, <1>6
  <2>2. QED
    BY <1>3, <2>1, CountChange
<1>9. /\ Cardinality(ended) \in Nat
      /\ Cardinality(ended')
           = Cardinality(ended) - FaultOf(requests[r], a) + FaultOf(q, a)
      /\ Cardinality(settled) \in Nat
      /\ Cardinality(settled')
           = Cardinality(settled) - SettlementOf(requests[r], a) + SettlementOf(q, a)
  BY <1>4, <1>5, <1>7, <1>8
<1>10. QED
  BY <1>9 DEF ended, settled

LEMMA SumsType ==
    ASSUME RouterShape
    PROVE  /\ SumOver(FeeOf, LiveRequests) \in Nat
           /\ SumOver(ChallengeBondOf, In("Challenged")) \in Nat
           /\ \A a : SumOver(NotionalOf, LiveOf(a)) \in Nat
<1>1. \A r \in Requests :
        FeeOf[r] \in Nat /\ ChallengeBondOf[r] \in Nat /\ NotionalOf[r] \in Nat
  BY RequestFacts
<1>2. /\ LiveRequests \subseteq Requests /\ In("Challenged") \subseteq Requests
      /\ \A a : LiveOf(a) \subseteq Requests
  BY DEF LiveRequests, In, LiveOf
<1>3. SumOver(FeeOf, LiveRequests) \in Nat
  BY <1>1, <1>2, RequestSetsFinite, SumType
<1>4. SumOver(ChallengeBondOf, In("Challenged")) \in Nat
  BY <1>1, <1>2, RequestSetsFinite, SumType
<1>5. ASSUME NEW a PROVE SumOver(NotionalOf, LiveOf(a)) \in Nat
  BY <1>1, <1>2, RequestSetsFinite, SumType
<1>6. QED
  BY <1>3, <1>4, <1>5

\* One request's move keeps every total.
LEMMA MovesRequestKeeps ==
    ASSUME RouterInv, NEW r \in Requests, NEW a \in Agents, NEW q, MovesRequest(r, a, q)
    PROVE  /\ requests' \in [Requests -> Request]
           /\ record' \in [Agents -> [faults : Nat, settledExecutions : Nat]]
           /\ ExposureExact' /\ EscrowExact' /\ RecordMatchesEndings'
<1>1. /\ RouterShape /\ q \in Request /\ requests' = [requests EXCEPT ![r] = q]
      /\ requests' \in [Requests -> Request]
      /\ record' \in [Agents -> [faults : Nat, settledExecutions : Nat]]
  BY DEF RouterInv, RouterShape, MovesRequest
\* Another agent's totals do not know this request.
<1>2. ASSUME NEW b \in Agents \ {a}
      PROVE  /\ Exposed(requests[r], b) = 0 /\ Exposed(q, b) = 0
             /\ FaultOf(requests[r], b) = 0 /\ FaultOf(q, b) = 0
             /\ SettlementOf(requests[r], b) = 0 /\ SettlementOf(q, b) = 0
  <2>1. q.agent # b /\ (requests[r].status = "None" \/ requests[r].agent # b)
    BY DEF MovesRequest
  <2>2. QED
    BY <2>1 DEF Exposed, FaultOf, SettlementOf, Live
<1>3. ExposureExact'
  <2>1. ASSUME NEW b \in Agents
        PROVE  agents'[b].openNotional = SumOver(NotionalOf', LiveOf(b)')
    <3>1. /\ SumOver(NotionalOf, LiveOf(b)) \in Nat
          /\ SumOver(NotionalOf', LiveOf(b)')
               = SumOver(NotionalOf, LiveOf(b)) - Exposed(requests[r], b) + Exposed(q, b)
      BY <1>1, SumsMove
    <3>2. agents[b].openNotional = SumOver(NotionalOf, LiveOf(b))
      BY DEF RouterInv, ExposureExact
    <3>3. agents'[b].openNotional
            = agents[b].openNotional - Exposed(requests[r], b) + Exposed(q, b)
      <4>1. CASE b = a
        BY <4>1 DEF MovesRequest
      <4>2. CASE b # a
        <5>1. agents'[b].openNotional = agents[b].openNotional
          BY <4>2 DEF MovesRequest
        <5>2. QED
          BY <1>2, <3>1, <3>2, <4>2, <5>1
      <4>3. QED
        BY <4>1, <4>2
    <3>4. QED
      BY <3>1, <3>2, <3>3
  <2>2. QED
    BY <2>1 DEF ExposureExact
<1>4. EscrowExact'
  <2>1. escrow = SumOver(FeeOf, LiveRequests) + SumOver(ChallengeBondOf, In("Challenged"))
    BY DEF RouterInv, EscrowExact
  <2>2. escrow' = escrow - (FeeHeld(requests[r]) + BondHeld(requests[r]))
                         + (FeeHeld(q) + BondHeld(q))
    BY DEF MovesRequest
  <2>3. /\ FeeHeld(requests[r]) \in Nat /\ BondHeld(requests[r]) \in Nat
        /\ FeeHeld(q) \in Nat /\ BondHeld(q) \in Nat
    BY <1>1, RequestFacts DEF FeeHeld, BondHeld, Request
  <2>4. /\ SumOver(FeeOf, LiveRequests) \in Nat
        /\ SumOver(FeeOf', LiveRequests')
             = SumOver(FeeOf, LiveRequests) - FeeHeld(requests[r]) + FeeHeld(q)
        /\ SumOver(ChallengeBondOf, In("Challenged")) \in Nat
        /\ SumOver(ChallengeBondOf', In("Challenged")')
             = SumOver(ChallengeBondOf, In("Challenged"))
                 - BondHeld(requests[r]) + BondHeld(q)
    BY <1>1, SumsMove
  <2>5. escrow' = SumOver(FeeOf', LiveRequests')
                    + SumOver(ChallengeBondOf', In("Challenged")')
    BY <2>1, <2>2, <2>3, <2>4
  <2>6. QED
    BY <2>5 DEF EscrowExact
<1>5. RecordMatchesEndings'
  <2>1. ASSUME NEW b \in Agents
        PROVE  /\ record'[b].faults
                    = Cardinality((Of(b) \cap (In("Expired") \cup In("Faulted")))')
               /\ record'[b].settledExecutions = Cardinality((Of(b) \cap In("Settled"))')
    <3> DEFINE ended == Of(b) \cap (In("Expired") \cup In("Faulted"))
               settled == Of(b) \cap In("Settled")
    <3>1. /\ Cardinality(ended) \in Nat
          /\ Cardinality(ended')
               = Cardinality(ended) - FaultOf(requests[r], b) + FaultOf(q, b)
          /\ Cardinality(settled) \in Nat
          /\ Cardinality(settled')
               = Cardinality(settled) - SettlementOf(requests[r], b) + SettlementOf(q, b)
      BY <1>1, CountsMove
    <3>2. /\ record[b].faults = Cardinality(ended)
          /\ record[b].settledExecutions = Cardinality(settled)
      BY DEF RouterInv, RecordMatchesEndings
    <3> HIDE DEF ended, settled
    <3>3. /\ record'[b].faults
               = record[b].faults - FaultOf(requests[r], b) + FaultOf(q, b)
          /\ record'[b].settledExecutions
               = record[b].settledExecutions
                   - SettlementOf(requests[r], b) + SettlementOf(q, b)
      <4>1. CASE b = a
        BY <4>1 DEF MovesRequest
      <4>2. CASE b # a
        <5>1. record'[b] = record[b]
          BY <4>2 DEF MovesRequest
        <5>2. QED
          BY <1>2, <3>1, <3>2, <4>2, <5>1
      <4>3. QED
        BY <4>1, <4>2
    <3>4. record'[b].faults = Cardinality(ended')
          /\ record'[b].settledExecutions = Cardinality(settled')
      BY <3>1, <3>2, <3>3
    <3>5. QED
      BY <3>4 DEF ended, settled
  <2>2. QED
    BY <2>1 DEF RecordMatchesEndings
<1>6. QED
  BY <1>1, <1>3, <1>4, <1>5

-----------------------------------------------------------------------------
(* Every call about a request moves that request, and at most its agent's bond *)

\* The edges of a request's life.
StatusEdges ==
    {<<"None", "Pending">>,
     <<"Pending", "Delivered">>, <<"Pending", "Finalized">>,
     <<"Pending", "Rejected">>, <<"Pending", "Expired">>,
     <<"Delivered", "Challenged">>, <<"Delivered", "Finalized">>,
     <<"Challenged", "Finalized">>, <<"Challenged", "Faulted">>,
     <<"Finalized", "Settled">>}

\* What a call about one of its requests does to agent a's standing: the tier it
\* declared stays, the one it has demonstrated rises at most, to the one it
\* declared or to Gold, and its bond shrinks only with a fault.
Standing(a) ==
    /\ agents'[a].tier = agents[a].tier
    /\ agents'[a].demonstratedTier >= agents[a].demonstratedTier
    /\ agents'[a].demonstratedTier \in {agents[a].demonstratedTier, agents[a].tier, Gold}
    /\ agents'[a].bond = agents[a].bond \/ record'[a].faults = record[a].faults + 1

\* What a call about request r does to the state.
CallsFor(r) ==
    /\ \E a \in Agents, q \in Request :
         /\ MovesRequest(r, a, q)
         /\ <<requests[r].status, q.status>> \in StatusEdges
         /\ MovesBond(a) \/ (Registered(a) /\ UNCHANGED <<agents, vault>>)
         /\ Standing(a)
    /\ UNCHANGED <<agentIdByOperator, limits, params, provable>>

\* A live request's agent has at least its notional exposed: the subtraction in
\* `release` is exact.
LEMMA LiveFacts ==
    ASSUME RouterInv, NEW r \in Requests, requests[r].status \in Live
    PROVE  LET a == requests[r].agent IN
           /\ requests[r] \in Request
           /\ a \in Agents /\ Registered(a)
           /\ agents \in [Agents -> Agent] /\ agents[a] \in Agent
           /\ agents[a].unbondingAmount <= agents[a].bond
           /\ record[a] \in [faults : Nat, settledExecutions : Nat]
           /\ requests[r].notional \in Nat /\ requests[r].notional # 0
           /\ requests[r].notional <= agents[a].openNotional
<1> DEFINE a == requests[r].agent
<1>1. RouterShape /\ RegistryInv /\ requests[r].status # "None"
  BY DEF RouterInv, Live
<1>2. a \in Agents /\ Registered(a) /\ requests[r].notional # 0
  BY <1>1 DEF RouterInv, RequestsWellFormed
<1>3. requests[r] \in Request /\ requests[r].notional \in Nat
  BY <1>1, RequestFacts
<1>4. /\ agents \in [Agents -> Agent] /\ agents[a] \in Agent
      /\ agents[a].unbondingAmount <= agents[a].bond
  BY <1>1, <1>2, RecordFacts
<1>5. record[a] \in [faults : Nat, settledExecutions : Nat]
  BY <1>1, <1>2 DEF RouterShape
<1>6. requests[r].notional <= agents[a].openNotional
  <2>1. \A x \in LiveOf(a) : NotionalOf[x] \in Nat
    BY <1>1, RequestFacts DEF LiveOf, Of
  <2>2. r \in LiveOf(a)
    BY DEF LiveOf, LiveRequests, Of
  <2>3. NotionalOf[r] <= SumOver(NotionalOf, LiveOf(a))
    BY <2>1, <2>2, RequestSetsFinite, SumRemove
  <2>4. NotionalOf[r] = requests[r].notional
    BY DEF NotionalOf
  <2>5. agents[a].openNotional = SumOver(NotionalOf, LiveOf(a))
    BY <1>2 DEF RouterInv, ExposureExact
  <2>6. QED
    BY <2>3, <2>4, <2>5
<1>7. QED
  BY <1>2, <1>3, <1>4, <1>5, <1>6

\* A call that leaves agents and counters alone and moves the request from one
\* live status to another.
LEMMA StaysLive ==
    ASSUME RouterInv, NEW r \in Requests, requests[r].status \in Live,
           NEW q \in Request, q.status \in Live,
           q.agent = requests[r].agent, q.notional = requests[r].notional,
           q.fee = requests[r].fee,
           q.status # "Challenged" => q.challengeBond = 0,
           requests' = [requests EXCEPT ![r] = q],
           escrow' = escrow - BondHeld(requests[r]) + BondHeld(q),
           \A b \in Agents : agents'[b].openNotional = agents[b].openNotional,
           UNCHANGED record
    PROVE  MovesRequest(r, requests[r].agent, q)
<1> DEFINE a == requests[r].agent
<1>1. /\ requests[r] \in Request /\ a \in Agents
      /\ agents[a] \in Agent /\ agents[a].openNotional \in Nat
      /\ record[a] \in [faults : Nat, settledExecutions : Nat]
      /\ requests[r].notional \in Nat /\ requests[r].notional # 0
      /\ requests[r].fee \in Nat
  BY LiveFacts DEF Agent, Request
<1>2. /\ FeeHeld(requests[r]) = requests[r].fee /\ FeeHeld(q) = requests[r].fee
      /\ Exposed(requests[r], a) = requests[r].notional
      /\ Exposed(q, a) = requests[r].notional
      /\ FaultOf(requests[r], a) = 0 /\ FaultOf(q, a) = 0
      /\ SettlementOf(requests[r], a) = 0 /\ SettlementOf(q, a) = 0
  BY DEF FeeHeld, Exposed, FaultOf, SettlementOf, Live
<1>3. BondHeld(requests[r]) \in Nat /\ BondHeld(q) \in Nat
  BY <1>1 DEF BondHeld, Request
<1>4. WellFormed(q) /\ q.status # "None"
  BY <1>1 DEF WellFormed, Live
<1>5. escrow \in Int
  BY SumsType DEF RouterInv, EscrowExact
<1>6. QED
  BY <1>1, <1>2, <1>3, <1>4, <1>5 DEF MovesRequest, RouterInv, RouterShape

LEMMA NoRequestType == NoRequest \in Request /\ NoRequest.challengeBond = 0
  BY DEF NoRequest, Request, Status

LEMMA RequestCalls ==
    ASSUME RouterInv, NEW r \in Requests, NEW a \in Agents, NEW n \in Notionals,
           NEW f \in Fees, NEW k \in DeliveryOffsets, NEW s \in Scores,
           requestExecution(r, a, n, f, k, s)
    PROVE  CallsFor(r)
<1> DEFINE q == [NoRequest EXCEPT !.agent = a, !.status = "Pending",
                                  !.notional = n, !.fee = f,
                                  !.createdAt = now, !.deliverBy = now + k]
<1>1. /\ n \in Nat /\ f \in Nat /\ k \in Nat /\ now \in Nat /\ n # 0
      /\ RegistryInv /\ RouterShape /\ Registered(a)
  BY RequestInputsAssumption
     DEF RouterInv, RegistryInv, RegistryShape, requestExecution, CanReserve
<1>2. /\ q \in Request
      /\ q.status = "Pending" /\ q.agent = a /\ q.notional = n /\ q.fee = f
      /\ q.challengeBond = 0
  <2>1. now + k \in Nat /\ "Pending" \in Status
    BY <1>1 DEF Status, Live
  <2>2. QED
    BY <1>1, <2>1, NoRequestType DEF Request
<1>3. /\ requests[r].status = "None"
      /\ requests' = [requests EXCEPT ![r] = q]
      /\ agents' = [agents EXCEPT ![a] = Reserved(agents[a], n)]
      /\ escrow' = escrow + f
      /\ UNCHANGED <<agentIdByOperator, limits, vault, params, record, provable>>
  BY DEF requestExecution
<1> HIDE DEF q
<1>4. /\ agents \in [Agents -> Agent] /\ agents[a] \in Agent
      /\ agents[a].openNotional \in Nat /\ agents[a].bond \in Nat /\ vault \in Nat
      /\ agents[a].unbondingAmount <= agents[a].bond
  BY <1>1, RecordFacts DEF Agent
<1>5. /\ Reserved(agents[a], n) \in Agent
      /\ Reserved(agents[a], n).bond = agents[a].bond
      /\ Reserved(agents[a], n).unbondingAmount = agents[a].unbondingAmount
      /\ Reserved(agents[a], n).tier = agents[a].tier
      /\ Reserved(agents[a], n).operator = agents[a].operator
      /\ Reserved(agents[a], n).openNotional = agents[a].openNotional + n
  BY <1>1, <1>4, ReservedType
<1>6. MovesBond(a)
  <2>1. vault' = vault - agents[a].bond + Reserved(agents[a], n).bond
    BY <1>3, <1>4, <1>5
  <2>2. QED
    BY <1>1, <1>3, <1>4, <1>5, <2>1, RouterMovesBond
<1>7. MovesRequest(r, a, q)
  <2>1. /\ FeeHeld(requests[r]) = 0 /\ BondHeld(requests[r]) = 0
        /\ Exposed(requests[r], a) = 0 /\ FaultOf(requests[r], a) = 0
        /\ SettlementOf(requests[r], a) = 0
    BY <1>3 DEF FeeHeld, BondHeld, Exposed, FaultOf, SettlementOf, Live
  <2>2. /\ FeeHeld(q) = f /\ BondHeld(q) = 0 /\ Exposed(q, a) = n
        /\ FaultOf(q, a) = 0 /\ SettlementOf(q, a) = 0
    BY <1>2 DEF FeeHeld, BondHeld, Exposed, FaultOf, SettlementOf, Live
  <2>3. WellFormed(q)
    BY <1>1, <1>2 DEF WellFormed
  <2>4. /\ agents'[a].openNotional = agents[a].openNotional + n
        /\ \A b \in Agents \ {a} : agents'[b].openNotional = agents[b].openNotional
    BY <1>3, <1>4, <1>5
  <2>5. /\ escrow \in Nat
        /\ record \in [Agents -> [faults : Nat, settledExecutions : Nat]]
        /\ record[a].faults \in Nat /\ record[a].settledExecutions \in Nat
    BY <1>1, SumsType DEF RouterInv, EscrowExact, RouterShape
  <2>6. QED
    BY <1>1, <1>2, <1>3, <1>4, <2>1, <2>2, <2>3, <2>4, <2>5 DEF MovesRequest
<1>8. Standing(a)
  <2>1. Reserved(agents[a], n).demonstratedTier = agents[a].demonstratedTier
    BY <1>1, <1>4, ReservedType
  <2>2. agents'[a] = Reserved(agents[a], n) /\ agents[a].demonstratedTier \in Nat
    BY <1>3, <1>4 DEF Agent
  <2>3. QED
    BY <1>5, <2>1, <2>2 DEF Standing
<1>9. QED
  BY <1>2, <1>3, <1>6, <1>7, <1>8 DEF CallsFor, StatusEdges

\* recordDelivery with the declared tier or Gold, or not at all.
LEMMA DeliveredStanding ==
    ASSUME agents \in [Agents -> Agent], NEW a \in Agents,
           NEW t \in {agents[a].tier, Gold},
           \/ agents' = [agents EXCEPT ![a] = Delivered(agents[a], t)]
           \/ agents' = agents
    PROVE  Standing(a)
<1>1. agents[a] \in Agent /\ agents[a].demonstratedTier \in Nat /\ t \in Tiers
  BY DEF Agent
<1>2. CASE agents' = [agents EXCEPT ![a] = Delivered(agents[a], t)]
  <2>1. agents'[a] = Delivered(agents[a], t)
    BY <1>2
  <2>2. /\ agents'[a].tier = agents[a].tier /\ agents'[a].bond = agents[a].bond
        /\ agents'[a].demonstratedTier >= agents[a].demonstratedTier
    BY <1>1, <2>1, DeliveredType
  <2>3. agents'[a].demonstratedTier \in {agents[a].demonstratedTier, t}
    BY <1>1, <2>1 DEF Delivered, Agent
  <2>4. QED
    BY <2>2, <2>3 DEF Standing
<1>3. CASE agents' = agents
  BY <1>1, <1>3 DEF Standing
<1>4. QED
  BY <1>2, <1>3

LEMMA DeliverCalls ==
    ASSUME RouterInv, NEW r \in Requests, deliver(r)
    PROVE  CallsFor(r)
<1> DEFINE a == requests[r].agent
           tier == agents[a].tier
<1>1. /\ requests[r].status = "Pending" /\ requests[r].status \in Live
      /\ RegistryInv /\ RouterShape /\ now \in Nat
  BY DEF deliver, Live, RouterInv, RegistryInv, RegistryShape
<1>2. PICK own \in Attributions(a, tier) :
        /\ agents' = IF own THEN [agents EXCEPT ![a] = Delivered(@, tier)] ELSE agents
        /\ requests' = [requests EXCEPT ![r] =
             [@ EXCEPT !.attributed = own, !.tier = tier,
                       !.settleBy = SettleBy(r),
                       !.status = IF tier = Gold THEN "Finalized" ELSE "Delivered",
                       !.finalizeAt = IF tier = Gold THEN now
                                      ELSE now + params.challengeWindow]]
  BY DEF deliver
<1>3. UNCHANGED <<agentIdByOperator, limits, vault, params, escrow, record, provable>>
  BY DEF deliver
<1>4. /\ requests[r] \in Request /\ a \in Agents /\ Registered(a)
      /\ agents \in [Agents -> Agent] /\ agents[a] \in Agent
      /\ agents[a].unbondingAmount <= agents[a].bond
      /\ agents[a].bond \in Nat /\ vault \in Nat
  BY <1>1, LiveFacts, RecordFacts
<1>5. tier \in Tiers /\ own \in BOOLEAN
  BY <1>4 DEF Agent, Attributions
<1> DEFINE q == [requests[r] EXCEPT !.attributed = own, !.tier = tier,
                   !.settleBy = SettleBy(r),
                   !.status = IF tier = Gold THEN "Finalized" ELSE "Delivered",
                   !.finalizeAt = IF tier = Gold THEN now
                                  ELSE now + params.challengeWindow]
<1>6. /\ q \in Request /\ q.status \in {"Finalized", "Delivered"}
      /\ q.agent = a /\ q.notional = requests[r].notional /\ q.fee = requests[r].fee
      /\ q.challengeBond = requests[r].challengeBond
  <2>1. SettleBy(r) \in Nat /\ now + params.challengeWindow \in Nat
    BY <1>1 DEF SettleBy, RouterShape, Params
  <2>2. QED
    BY <1>1, <1>4, <1>5, <2>1 DEF Request, Status, Live
<1>7. requests' = [requests EXCEPT ![r] = q]
  BY <1>2
<1> HIDE DEF q
<1>8. /\ Delivered(agents[a], tier) \in Agent
      /\ Delivered(agents[a], tier).bond = agents[a].bond
      /\ Delivered(agents[a], tier).unbondingAmount = agents[a].unbondingAmount
      /\ Delivered(agents[a], tier).tier = agents[a].tier
      /\ Delivered(agents[a], tier).operator = agents[a].operator
      /\ Delivered(agents[a], tier).openNotional = agents[a].openNotional
  BY <1>4, <1>5, DeliveredType
<1>9. \/ agents' = [agents EXCEPT ![a] = Delivered(agents[a], tier)]
      \/ agents' = agents
  BY <1>2
<1> HIDE DEF a, tier
<1>10. MovesBond(a) \/ (Registered(a) /\ UNCHANGED <<agents, vault>>)
  <2>1. CASE agents' = [agents EXCEPT ![a] = Delivered(agents[a], tier)]
    <3>1. vault' = vault - agents[a].bond + Delivered(agents[a], tier).bond
      BY <1>3, <1>4, <1>8
    <3>2. QED
      BY <1>1, <1>4, <1>8, <2>1, <3>1, RouterMovesBond
  <2>2. CASE agents' = agents
    BY <1>3, <1>4, <2>2
  <2>3. QED
    BY <1>9, <2>1, <2>2
<1>11. MovesRequest(r, a, q)
  <2>1. /\ requests[r].challengeBond = 0 /\ q.challengeBond = 0
    BY <1>1, <1>6 DEF RouterInv, RequestsWellFormed
  <2>2. BondHeld(requests[r]) = 0 /\ BondHeld(q) = 0
    BY <1>1, <1>6, <2>1 DEF BondHeld
  <2>3. \A b \in Agents : agents'[b].openNotional = agents[b].openNotional
    BY <1>4, <1>8, <1>9
  <2>4. q.status \in Live
    BY <1>6 DEF Live
  <2>5. escrow \in Nat
    BY <1>1, SumsType DEF RouterInv, EscrowExact
  <2>6. escrow' = escrow - BondHeld(requests[r]) + BondHeld(q)
    BY <1>3, <2>2, <2>5
  <2>7. QED
    BY <1>1, <1>3, <1>6, <1>7, <2>1, <2>3, <2>4, <2>6, StaysLive DEF a
<1>12. Standing(a)
  BY <1>4, <1>5, <1>9, DeliveredStanding DEF tier
<1>13. QED
  BY <1>1, <1>3, <1>4, <1>6, <1>10, <1>11, <1>12 DEF CallsFor, StatusEdges

\* The engine's counters when a request of agent a ends with a status.
CountsEnding(a, status) ==
    /\ record' \in [Agents -> [faults : Nat, settledExecutions : Nat]]
    /\ record'[a].faults =
         record[a].faults + (IF status \in {"Expired", "Faulted"} THEN 1 ELSE 0)
    /\ record'[a].settledExecutions =
         record[a].settledExecutions + (IF status = "Settled" THEN 1 ELSE 0)
    /\ \A b \in Agents \ {a} : record'[b] = record[b]

Closes(r, status) ==
    \E q \in Request : MovesRequest(r, requests[r].agent, q) /\ q.status = status

\* The ways out: the request closes with a status, its agent's record becomes g,
\* which has the request's notional less exposed, and the counter of that ending
\* goes up.
LEMMA ClosingMoves ==
    ASSUME RouterInv, NEW r \in Requests, requests[r].status \in Live,
           NEW status \in Terminal, CloseRequest(r, status), NEW g \in Agent,
           agents' = [agents EXCEPT ![requests[r].agent] = g],
           g.openNotional = agents[requests[r].agent].openNotional - requests[r].notional,
           CountsEnding(requests[r].agent, status)
    PROVE  Closes(r, status)
<1> DEFINE a == requests[r].agent
           q == [requests[r] EXCEPT !.status = status, !.challengeBond = 0]
<1>1. /\ RouterShape /\ requests[r] \in Request /\ a \in Agents
      /\ agents \in [Agents -> Agent] /\ agents[a] \in Agent
      /\ agents[a].openNotional \in Nat
      /\ requests[r].notional \in Nat /\ requests[r].notional # 0
      /\ requests[r].fee \in Nat /\ requests[r].challengeBond \in Nat
      /\ record[a].faults \in Nat /\ record[a].settledExecutions \in Nat
  BY LiveFacts DEF RouterInv, Agent, Request
<1>2. /\ q \in Request
      /\ q.status = status /\ q.agent = a /\ q.challengeBond = 0
      /\ q.notional = requests[r].notional /\ q.fee = requests[r].fee
  BY <1>1 DEF Request, Status
<1>3. /\ requests' = [requests EXCEPT ![r] = q]
      /\ escrow' = escrow - (requests[r].fee + requests[r].challengeBond)
  BY DEF CloseRequest
<1>4. /\ agents'[a].openNotional = agents[a].openNotional - requests[r].notional
      /\ \A b \in Agents \ {a} : agents'[b].openNotional = agents[b].openNotional
  BY <1>1
<1> HIDE DEF a, q
<1>5. /\ requests[r].agent = a
      /\ FeeHeld(requests[r]) = requests[r].fee /\ FeeHeld(q) = 0
      /\ Exposed(requests[r], a) = requests[r].notional /\ Exposed(q, a) = 0
      /\ FaultOf(requests[r], a) = 0 /\ SettlementOf(requests[r], a) = 0
      /\ FaultOf(q, a) = (IF status \in {"Expired", "Faulted"} THEN 1 ELSE 0)
      /\ SettlementOf(q, a) = (IF status = "Settled" THEN 1 ELSE 0)
      /\ BondHeld(q) = 0
  BY <1>2 DEF a, FeeHeld, Exposed, FaultOf, SettlementOf, BondHeld, Live, Terminal
<1>6. BondHeld(requests[r]) = requests[r].challengeBond
  BY DEF BondHeld, RouterInv, RequestsWellFormed
<1>7. WellFormed(q) /\ q.status # "None"
  BY <1>1, <1>2 DEF WellFormed, Terminal
<1>8. escrow \in Nat
  BY <1>1, SumsType DEF RouterInv, EscrowExact
<1>9. escrow' = escrow - (FeeHeld(requests[r]) + BondHeld(requests[r]))
                       + (FeeHeld(q) + BondHeld(q))
  BY <1>1, <1>3, <1>5, <1>6, <1>8
<1>10. agents'[a].openNotional
         = agents[a].openNotional - Exposed(requests[r], a) + Exposed(q, a)
  BY <1>1, <1>4, <1>5
<1>11. /\ record'[a].faults = record[a].faults - FaultOf(requests[r], a) + FaultOf(q, a)
       /\ record'[a].settledExecutions = record[a].settledExecutions
            - SettlementOf(requests[r], a) + SettlementOf(q, a)
  <2>1. /\ record'[a].faults = record[a].faults + FaultOf(q, a)
        /\ record'[a].settledExecutions = record[a].settledExecutions + SettlementOf(q, a)
    BY <1>5 DEF CountsEnding, a
  <2>2. FaultOf(q, a) \in Nat /\ SettlementOf(q, a) \in Nat
    BY DEF FaultOf, SettlementOf
  <2>3. QED
    BY <1>1, <1>5, <2>1, <2>2
<1>12. MovesRequest(r, a, q)
  BY <1>2, <1>3, <1>4, <1>5, <1>7, <1>9, <1>10, <1>11 DEF MovesRequest, CountsEnding
<1>13. QED
  BY <1>2, <1>5, <1>12 DEF Closes

LEMMA ReleasedStanding ==
    ASSUME RegistryInv, NEW a \in Agents, NEW n \in Nat,
           agents' = [agents EXCEPT ![a] = Released(agents[a], n)]
    PROVE  Standing(a)
<1>1. agents[a] \in Agent /\ agents[a].demonstratedTier \in Nat
  BY RecordFacts DEF Agent
<1>2. agents'[a] = Released(agents[a], n)
  BY RecordFacts
<1>3. QED
  BY <1>1, <1>2, ReleasedType DEF Standing

LEMMA RejectCalls ==
    ASSUME RouterInv, NEW r \in Requests, reject(r)
    PROVE  CallsFor(r)
<1> DEFINE a == requests[r].agent
           g == Released(agents[a], requests[r].notional)
<1>1. /\ requests[r].status = "Pending"
      /\ requests[r].status \in Live /\ RegistryInv /\ RouterShape
      /\ CloseRequest(r, "Rejected") /\ "Rejected" \in Terminal
      /\ agents' = [agents EXCEPT ![a] = g]
      /\ UNCHANGED <<agentIdByOperator, limits, vault, params, record, provable>>
  BY DEF reject, Live, Terminal, RouterInv
<1>2. /\ a \in Agents /\ Registered(a) /\ agents[a] \in Agent
      /\ agents[a].unbondingAmount <= agents[a].bond
      /\ requests[r].notional \in Nat /\ requests[r].notional <= agents[a].openNotional
      /\ agents[a].bond \in Nat /\ vault \in Nat
      /\ record[a].faults \in Nat /\ record[a].settledExecutions \in Nat
      /\ record' \in [Agents -> [faults : Nat, settledExecutions : Nat]]
  BY <1>1, LiveFacts, RecordFacts DEF RouterShape
<1>3. /\ g \in Agent /\ g.bond = agents[a].bond
      /\ g.unbondingAmount = agents[a].unbondingAmount
      /\ g.tier = agents[a].tier /\ g.operator = agents[a].operator
      /\ g.openNotional = agents[a].openNotional - requests[r].notional
  BY <1>2, ReleasedType
<1> HIDE DEF g
<1>4. vault' = vault - agents[a].bond + g.bond
  BY <1>1, <1>2, <1>3
<1>5. MovesBond(a)
  BY <1>1, <1>2, <1>3, <1>4, RouterMovesBond
<1>6. Closes(r, "Rejected")
  <2>1. CountsEnding(a, "Rejected")
    BY <1>1, <1>2 DEF CountsEnding
  <2>2. /\ g \in Agent /\ agents' = [agents EXCEPT ![a] = g]
        /\ g.openNotional = agents[a].openNotional - requests[r].notional
    BY <1>1, <1>2, <1>3
  <2>3. QED
    BY <1>1, <2>1, <2>2, ClosingMoves
<1>7. Standing(a)
  BY <1>1, <1>2, <1>3, ReleasedStanding DEF g
<1>8. QED
  BY <1>1, <1>2, <1>5, <1>6, <1>7 DEF CallsFor, Closes, StatusEdges

LEMMA SettleCalls ==
    ASSUME RouterInv, NEW r \in Requests, settle(r) \/ settleDefault(r)
    PROVE  CallsFor(r)
<1> DEFINE a == requests[r].agent
           g == Released(agents[a], requests[r].notional)
<1>1. /\ requests[r].status = "Finalized"
      /\ requests[r].status \in Live /\ RegistryInv /\ RouterShape
      /\ CloseRequest(r, "Settled") /\ "Settled" \in Terminal
      /\ agents' = [agents EXCEPT ![a] = g]
      /\ record' = [record EXCEPT ![a].settledExecutions = @ + 1]
      /\ UNCHANGED <<agentIdByOperator, limits, vault, params, provable>>
  BY DEF settle, settleDefault, SettleRequest, Live, Terminal, RouterInv
<1>2. /\ a \in Agents /\ Registered(a) /\ agents[a] \in Agent
      /\ agents[a].unbondingAmount <= agents[a].bond
      /\ requests[r].notional \in Nat /\ requests[r].notional <= agents[a].openNotional
      /\ agents[a].bond \in Nat /\ vault \in Nat
      /\ record[a].faults \in Nat /\ record[a].settledExecutions \in Nat
      /\ record \in [Agents -> [faults : Nat, settledExecutions : Nat]]
  BY <1>1, LiveFacts, RecordFacts DEF RouterShape
<1>3. /\ g \in Agent /\ g.bond = agents[a].bond
      /\ g.unbondingAmount = agents[a].unbondingAmount
      /\ g.tier = agents[a].tier /\ g.operator = agents[a].operator
      /\ g.openNotional = agents[a].openNotional - requests[r].notional
  BY <1>2, ReleasedType
<1> HIDE DEF g
<1>4. vault' = vault - agents[a].bond + g.bond
  BY <1>1, <1>2, <1>3
<1>5. MovesBond(a)
  BY <1>1, <1>2, <1>3, <1>4, RouterMovesBond
<1>6. Closes(r, "Settled")
  <2>1. CountsEnding(a, "Settled")
    BY <1>1, <1>2 DEF CountsEnding
  <2>2. /\ g \in Agent /\ agents' = [agents EXCEPT ![a] = g]
        /\ g.openNotional = agents[a].openNotional - requests[r].notional
    BY <1>1, <1>2, <1>3
  <2>3. QED
    BY <1>1, <2>1, <2>2, ClosingMoves
<1>7. Standing(a)
  BY <1>1, <1>2, <1>3, ReleasedStanding DEF g
<1>8. QED
  BY <1>1, <1>2, <1>5, <1>6, <1>7 DEF CallsFor, Closes, StatusEdges

\* The two ways to be faulted: the bond is slashed and the exposure released in
\* the same transaction.
LEMMA PenaliseCalls ==
    ASSUME RouterInv, NEW r \in Requests, requests[r].status \in Live,
           NEW bps \in Bps, Penalise(r, bps),
           NEW status \in {"Expired", "Faulted"}, CloseRequest(r, status),
           <<requests[r].status, status>> \in StatusEdges
    PROVE  CallsFor(r)
<1> DEFINE a == requests[r].agent
           amount == BpsOf(agents[a].bond, bps)
           taken == SlashTaken(agents[a], amount)
           g == Released(Slashed(agents[a], amount), requests[r].notional)
<1>1. /\ RegistryInv /\ RouterShape /\ status \in Terminal
      /\ agents' = [agents EXCEPT ![a] = g]
      /\ vault' = vault - taken
      /\ record' = [record EXCEPT ![a].faults = @ + 1]
      /\ UNCHANGED <<agentIdByOperator, limits, params, provable>>
  BY DEF Penalise, Terminal, RouterInv
<1>2. /\ a \in Agents /\ Registered(a) /\ agents[a] \in Agent
      /\ agents[a].unbondingAmount <= agents[a].bond
      /\ requests[r].notional \in Nat /\ requests[r].notional <= agents[a].openNotional
      /\ agents[a].bond \in Nat /\ vault \in Nat
      /\ record[a].faults \in Nat /\ record[a].settledExecutions \in Nat
      /\ record \in [Agents -> [faults : Nat, settledExecutions : Nat]]
  BY <1>1, LiveFacts, RecordFacts DEF RouterShape
<1>3. amount \in Nat
  BY <1>2, BpsOfBound
<1> HIDE DEF amount
<1>4. /\ taken \in 0 .. agents[a].bond
      /\ Slashed(agents[a], amount) \in Agent
      /\ Slashed(agents[a], amount).bond = agents[a].bond - taken
      /\ Slashed(agents[a], amount).unbondingAmount <= Slashed(agents[a], amount).bond
      /\ Slashed(agents[a], amount).tier = agents[a].tier
      /\ Slashed(agents[a], amount).operator = agents[a].operator
      /\ Slashed(agents[a], amount).openNotional = agents[a].openNotional
      /\ Slashed(agents[a], amount).demonstratedTier = agents[a].demonstratedTier
  BY <1>2, <1>3, SlashedType
<1> HIDE DEF taken
<1>5. /\ g \in Agent /\ g.bond = agents[a].bond - taken
      /\ g.unbondingAmount <= g.bond
      /\ g.tier = agents[a].tier /\ g.operator = agents[a].operator
      /\ g.openNotional = agents[a].openNotional - requests[r].notional
      /\ g.demonstratedTier = agents[a].demonstratedTier
  <2> DEFINE h == Slashed(agents[a], amount)
  <2>1. h \in Agent /\ requests[r].notional \in Nat
        /\ requests[r].notional <= h.openNotional
    BY <1>2, <1>4
  <2> HIDE DEF h
  <2>2. /\ Released(h, requests[r].notional) \in Agent
        /\ Released(h, requests[r].notional).bond = h.bond
        /\ Released(h, requests[r].notional).unbondingAmount = h.unbondingAmount
        /\ Released(h, requests[r].notional).tier = h.tier
        /\ Released(h, requests[r].notional).operator = h.operator
        /\ Released(h, requests[r].notional).demonstratedTier = h.demonstratedTier
        /\ Released(h, requests[r].notional).openNotional
             = h.openNotional - requests[r].notional
    BY <2>1, ReleasedType
  <2>3. QED
    BY <1>4, <2>2 DEF h
<1> HIDE DEF g
<1>6. vault' = vault - agents[a].bond + g.bond
  BY <1>1, <1>2, <1>4, <1>5
<1>7. MovesBond(a)
  BY <1>1, <1>2, <1>5, <1>6, RouterMovesBond
<1>8. Closes(r, status)
  <2>1. CountsEnding(a, status)
    BY <1>1, <1>2 DEF CountsEnding
  <2>2. /\ g \in Agent /\ agents' = [agents EXCEPT ![a] = g]
        /\ g.openNotional = agents[a].openNotional - requests[r].notional
    BY <1>1, <1>2, <1>5
  <2>3. QED
    BY <1>1, <2>1, <2>2, ClosingMoves
<1>9. Standing(a)
  <2>1. /\ agents'[a] = g /\ record'[a].faults = record[a].faults + 1
        /\ agents[a].demonstratedTier \in Nat
    BY <1>1, <1>2, RecordFacts DEF Agent
  <2>2. QED
    BY <1>5, <2>1 DEF Standing
<1>10. QED
  BY <1>1, <1>2, <1>7, <1>8, <1>9 DEF CallsFor, Closes

\* challenge, finalize: the registry is not called.
LEMMA AgentsKept ==
    ASSUME RouterInv, NEW a \in Agents, UNCHANGED agents
    PROVE  Standing(a)
<1>1. agents[a].demonstratedTier \in Nat
  BY RecordFacts DEF Agent, RouterInv
<1>2. QED
  BY <1>1 DEF Standing

LEMMA ChallengeCalls ==
    ASSUME RouterInv, NEW r \in Requests, challenge(r)
    PROVE  CallsFor(r)
<1> DEFINE q == [requests[r] EXCEPT !.status = "Challenged",
                   !.challengeBond = params.challengeBondAmount,
                   !.escalationDeadline = now + params.escalationWindow]
<1>1. /\ requests[r].status = "Delivered" /\ requests[r].status \in Live
      /\ RouterShape /\ now \in Nat
      /\ requests' = [requests EXCEPT ![r] = q]
      /\ escrow' = escrow + params.challengeBondAmount
      /\ UNCHANGED <<registryVars, params, record, provable>>
  BY DEF challenge, Live, RouterInv, RegistryInv, RegistryShape
<1>2. /\ requests[r] \in Request
      /\ requests[r].agent \in Agents /\ Registered(requests[r].agent)
  BY <1>1, LiveFacts
<1>3. /\ q \in Request /\ q.status = "Challenged"
      /\ q.agent = requests[r].agent /\ q.notional = requests[r].notional
      /\ q.fee = requests[r].fee /\ q.challengeBond = params.challengeBondAmount
      /\ params.challengeBondAmount \in Nat
  <2>1. /\ params.challengeBondAmount \in Nat
        /\ now + params.escalationWindow \in Nat
    BY <1>1 DEF RouterShape, Params
  <2>2. QED
    BY <1>2, <2>1 DEF Request, Status, Live
<1> HIDE DEF q
<1>4. MovesRequest(r, requests[r].agent, q)
  <2>1. BondHeld(requests[r]) = 0 /\ BondHeld(q) = params.challengeBondAmount
    BY <1>1, <1>3 DEF BondHeld
  <2>2. escrow \in Nat
    BY <1>1, SumsType DEF RouterInv, EscrowExact
  <2>3. escrow' = escrow - BondHeld(requests[r]) + BondHeld(q)
    BY <1>1, <1>3, <2>1, <2>2
  <2>4. /\ \A b \in Agents : agents'[b].openNotional = agents[b].openNotional
        /\ q.status \in Live
    BY <1>1, <1>3 DEF registryVars, Live
  <2>5. QED
    BY <1>1, <1>3, <2>3, <2>4, StaysLive
<1>5. Standing(requests[r].agent)
  BY <1>1, <1>2, AgentsKept DEF registryVars
<1>6. QED
  BY <1>1, <1>2, <1>3, <1>4, <1>5 DEF CallsFor, StatusEdges, registryVars

LEMMA FinalizeCalls ==
    ASSUME RouterInv, NEW r \in Requests, finalize(r)
    PROVE  CallsFor(r)
<1> DEFINE q == [requests[r] EXCEPT !.status = "Finalized"]
<1>1. /\ requests[r].status = "Delivered" /\ requests[r].status \in Live
      /\ RouterShape
      /\ requests' = [requests EXCEPT ![r].status = "Finalized"]
      /\ UNCHANGED <<registryVars, params, escrow, record, provable>>
  BY DEF finalize, Live, RouterInv
<1>2. /\ requests[r] \in Request
      /\ requests[r].agent \in Agents /\ Registered(requests[r].agent)
  BY <1>1, LiveFacts
<1>3. /\ q \in Request /\ q.status = "Finalized"
      /\ q.agent = requests[r].agent /\ q.notional = requests[r].notional
      /\ q.fee = requests[r].fee /\ q.challengeBond = requests[r].challengeBond
      /\ requests' = [requests EXCEPT ![r] = q]
  BY <1>1, <1>2 DEF Request, Status, Live
<1> HIDE DEF q
<1>4. MovesRequest(r, requests[r].agent, q)
  <2>1. BondHeld(requests[r]) = 0 /\ BondHeld(q) = 0
    BY <1>1, <1>3 DEF BondHeld
  <2>2. escrow \in Nat
    BY <1>1, SumsType DEF RouterInv, EscrowExact
  <2>3. escrow' = escrow - BondHeld(requests[r]) + BondHeld(q)
    BY <1>1, <2>1, <2>2
  <2>4. /\ \A b \in Agents : agents'[b].openNotional = agents[b].openNotional
        /\ q.status \in Live
        /\ q.challengeBond = 0
    BY <1>1, <1>3 DEF registryVars, Live, RouterInv, RequestsWellFormed
  <2>5. QED
    BY <1>1, <1>3, <2>3, <2>4, StaysLive
<1>5. Standing(requests[r].agent)
  BY <1>1, <1>2, AgentsKept DEF registryVars
<1>6. QED
  BY <1>1, <1>2, <1>3, <1>4, <1>5 DEF CallsFor, StatusEdges, registryVars

LEMMA ResolveCalls ==
    ASSUME RouterInv, NEW r \in Requests, resolveChallenge(r)
    PROVE  CallsFor(r)
<1> DEFINE a == requests[r].agent
           q == [requests[r] EXCEPT !.status = "Finalized", !.tier = Gold,
                                    !.challengeBond = 0]
<1>1. /\ requests[r].status = "Challenged" /\ requests[r].status \in Live
      /\ RegistryInv /\ RouterShape
      /\ requests' = [requests EXCEPT ![r] = q]
      /\ escrow' = escrow - requests[r].challengeBond
      /\ UNCHANGED <<agentIdByOperator, limits, vault, params, record, provable>>
      /\ \/ agents' = [agents EXCEPT ![a] = Delivered(agents[a], Gold)]
         \/ agents' = agents
  BY DEF resolveChallenge, Live, RouterInv
<1>2. /\ requests[r] \in Request /\ a \in Agents /\ Registered(a)
      /\ agents \in [Agents -> Agent] /\ agents[a] \in Agent
      /\ agents[a].unbondingAmount <= agents[a].bond
      /\ agents[a].bond \in Nat /\ vault \in Nat
  BY <1>1, LiveFacts, RecordFacts
<1>3. /\ q \in Request /\ q.status = "Finalized"
      /\ q.agent = a /\ q.notional = requests[r].notional
      /\ q.fee = requests[r].fee /\ q.challengeBond = 0
  <2>1. "Finalized" \in Status /\ 3 \in 0 .. 3
    BY DEF Status, Live
  <2>2. requests[r] \in Request
    BY <1>2
  <2>3. QED
    BY <2>1, <2>2 DEF Request
<1>4. /\ Delivered(agents[a], Gold) \in Agent
      /\ Delivered(agents[a], Gold).bond = agents[a].bond
      /\ Delivered(agents[a], Gold).unbondingAmount = agents[a].unbondingAmount
      /\ Delivered(agents[a], Gold).tier = agents[a].tier
      /\ Delivered(agents[a], Gold).operator = agents[a].operator
      /\ Delivered(agents[a], Gold).openNotional = agents[a].openNotional
  BY <1>2, DeliveredType
<1> HIDE DEF q, a
<1>5. MovesBond(a) \/ (Registered(a) /\ UNCHANGED <<agents, vault>>)
  <2>1. CASE agents' = [agents EXCEPT ![a] = Delivered(agents[a], Gold)]
    <3>1. vault' = vault - agents[a].bond + Delivered(agents[a], Gold).bond
      BY <1>1, <1>2, <1>4
    <3>2. QED
      BY <1>1, <1>2, <1>4, <2>1, <3>1, RouterMovesBond
  <2>2. CASE agents' = agents
    BY <1>1, <1>2, <2>2
  <2>3. QED
    BY <1>1, <2>1, <2>2
<1>6. MovesRequest(r, a, q)
  <2>1. /\ BondHeld(requests[r]) = requests[r].challengeBond /\ BondHeld(q) = 0
        /\ requests[r].challengeBond \in Nat
    BY <1>1, <1>2, <1>3 DEF BondHeld, Request
  <2>2. escrow \in Nat
    BY <1>1, SumsType DEF RouterInv, EscrowExact
  <2>3. escrow' = escrow - BondHeld(requests[r]) + BondHeld(q)
    BY <1>1, <2>1, <2>2
  <2>4. /\ \A b \in Agents : agents'[b].openNotional = agents[b].openNotional
        /\ q.status \in Live
    BY <1>1, <1>2, <1>3, <1>4 DEF Live
  <2>5. QED
    BY <1>1, <1>3, <2>3, <2>4, StaysLive DEF a
<1>7. Standing(a)
  BY <1>1, <1>2, DeliveredStanding
<1>8. QED
  BY <1>1, <1>2, <1>3, <1>5, <1>6, <1>7 DEF CallsFor, StatusEdges

\* Every call about a request.
LEMMA EveryRequestCall ==
    ASSUME RouterInv, NEW r \in Requests,
           ConsumerCall(r) \/ OperatorCall(r) \/ challenge(r) \/ Enforce(r)
    PROVE  CallsFor(r)
<1>1. CASE \E a \in Agents, n \in Notionals, f \in Fees, k \in DeliveryOffsets, s \in Scores :
             requestExecution(r, a, n, f, k, s)
  BY <1>1, RequestCalls
<1>2. CASE deliver(r)
  BY <1>2, DeliverCalls
<1>3. CASE reject(r)
  BY <1>3, RejectCalls
<1>4. CASE settle(r) \/ settleDefault(r)
  BY <1>4, SettleCalls
<1>5. CASE markExpired(r)
  <2>1. /\ requests[r].status \in Live /\ params.livenessSlashBps \in Bps
        /\ Penalise(r, params.livenessSlashBps) /\ CloseRequest(r, "Expired")
        /\ <<requests[r].status, "Expired">> \in StatusEdges
    BY <1>5 DEF markExpired, Live, RouterInv, RouterShape, Params, StatusEdges
  <2>2. QED
    BY <2>1, PenaliseCalls
<1>6. CASE slashUnresolvedChallenge(r)
  <2>1. /\ requests[r].status \in Live /\ params.faultSlashBps \in Bps
        /\ Penalise(r, params.faultSlashBps) /\ CloseRequest(r, "Faulted")
        /\ <<requests[r].status, "Faulted">> \in StatusEdges
    BY <1>6 DEF slashUnresolvedChallenge, Live, RouterInv, RouterShape, Params, StatusEdges
  <2>2. QED
    BY <2>1, PenaliseCalls
<1>7. CASE challenge(r)
  BY <1>7, ChallengeCalls
<1>8. CASE resolveChallenge(r)
  BY <1>8, ResolveCalls
<1>9. CASE finalize(r)
  BY <1>9, FinalizeCalls
<1>10. QED
  BY <1>1, <1>2, <1>3, <1>4, <1>5, <1>6, <1>7, <1>8, <1>9
     DEF ConsumerCall, OperatorCall, Enforce

-----------------------------------------------------------------------------
(* The invariant *)

\* Nothing an agent's owner or the registry's does touches an exposure, and
\* nobody is ever unregistered.
LEMMA OwnerKeepsExposure ==
    ASSUME RegistryInv, OwnerCall
    PROVE  \A b \in Agents :
             /\ agents'[b].openNotional = agents[b].openNotional
             /\ Registered(b) => Registered(b)'
<1>1. agents \in [Agents -> Agent] /\ \A b \in Agents : agents[b] \in Agent
  BY DEF RegistryInv, RegistryShape
<1>2. CASE \E a \in Agents, o \in Operators, t \in DeclaredTiers, x \in BondAmounts :
             registerAgent(a, o, t, x)
  <2>1. PICK a \in Agents, o \in Operators, t \in DeclaredTiers, x \in BondAmounts :
             registerAgent(a, o, t, x)
    BY <1>2
  <2>2. ~Registered(a) /\ agents[a].openNotional = 0
    BY <2>1 DEF registerAgent, RegistryInv, BlankUntilRegistered, Unregistered
  <2>3. \E g \in {[Unregistered EXCEPT !.operator = o, !.tier = t,
                                       !.active = TRUE, !.bond = x]} :
           agents' = [agents EXCEPT ![a] = g] /\ g.openNotional = 0
    BY <2>1 DEF registerAgent, Unregistered
  <2>4. QED
    BY <1>1, <2>2, <2>3 DEF Registered
<1>3. CASE \E a \in Agents, o \in Operators : rotateOperator(a, o)
  BY <1>1, <1>3 DEF rotateOperator, Registered
<1>4. CASE \E a \in Agents, x \in BondAmounts : increaseBond(a, x)
  BY <1>1, <1>4 DEF increaseBond, Registered
<1>5. CASE \E a \in Agents, v \in BOOLEAN : setActive(a, v)
  BY <1>1, <1>5 DEF setActive, Registered
<1>6. CASE \E a \in Agents, x \in BondAmounts, s \in Scores : startUnbonding(a, x, s)
  <2>1. PICK a \in Agents, x \in BondAmounts, s \in Scores : startUnbonding(a, x, s)
    BY <1>6
  <2>2. agents' = [agents EXCEPT ![a] = [agents[a] EXCEPT !.unbondingAmount = x,
                                          !.unbondingAt = now + UnbondingPeriod]]
    BY <2>1 DEF startUnbonding
  <2>3. QED
    BY <1>1, <2>2 DEF Registered
<1>7. CASE \E a \in Agents : withdraw(a) \/ withdrawEarly(a)
  <2>1. PICK a \in Agents : TakeUnbonding(a)
    BY <1>7 DEF withdraw, withdrawEarly
  <2>2. QED
    BY <1>1, <2>1 DEF TakeUnbonding, Registered
<1>8. CASE \E l \in LimitChoices : \/ setLimits(l.minBond, l.globalNotionalCap)
                                  \/ setEarlyExitPenaltyBps(l.earlyExitPenaltyBps)
  <2>1. UNCHANGED agents
    BY <1>8 DEF setLimits, setEarlyExitPenaltyBps
  <2>2. QED
    BY <2>1 DEF Registered
<1>9. QED
  BY <1>2, <1>3, <1>4, <1>5, <1>6, <1>7, <1>8 DEF OwnerCall

LEMMA RouterInitInv == Init => RouterInv
<1> SUFFICES ASSUME Init PROVE RouterInv
  OBVIOUS
<1>1. RegistryInv /\ VaultIsBonds
  BY RegistryInitInv DEF Init
<1>2. \A r \in Requests :
        /\ requests[r] = NoRequest
        /\ requests[r].status = "None" /\ requests[r].challengeBond = 0
  BY DEF Init, NoRequest
<1>3. RouterShape
  BY NoRequestType, ParamsAssumption DEF Init, RouterShape
<1>4. RequestsWellFormed
  BY <1>2 DEF RequestsWellFormed
<1>5. /\ LiveRequests = {} /\ In("Challenged") = {} /\ In("Expired") = {}
      /\ In("Faulted") = {} /\ In("Settled") = {} /\ \A a : LiveOf(a) = {}
  BY <1>2 DEF LiveRequests, LiveOf, In, Live
<1>6. ExposureExact
  BY <1>5, SumEmpty DEF ExposureExact, Init, RegistryInit, Unregistered
<1>7. EscrowExact
  BY <1>5, SumEmpty DEF EscrowExact, Init
<1>8. RecordMatchesEndings
  <2>1. \A a : /\ Of(a) \cap (In("Expired") \cup In("Faulted")) = {}
               /\ Of(a) \cap In("Settled") = {}
    BY <1>5
  <2>2. \A a \in Agents : record[a].faults = 0 /\ record[a].settledExecutions = 0
    BY DEF Init
  <2>3. QED
    BY <2>1, <2>2, FS_EmptySet DEF RecordMatchesEndings
<1>9. QED
  BY <1>1, <1>3, <1>4, <1>6, <1>7, <1>8 DEF RouterInv

\* A call about a request.
LEMMA CallsForKeeps ==
    ASSUME RouterInv, NEW r \in Requests, CallsFor(r), UNCHANGED now
    PROVE  RouterInv'
<1>1. PICK a \in Agents, q \in Request :
        /\ MovesRequest(r, a, q)
        /\ MovesBond(a) \/ (Registered(a) /\ UNCHANGED <<agents, vault>>)
  BY DEF CallsFor
<1>2. RegistryInv /\ VaultIsBonds /\ RouterShape
  BY DEF RouterInv
<1>3. /\ requests' \in [Requests -> Request]
      /\ record' \in [Agents -> [faults : Nat, settledExecutions : Nat]]
      /\ ExposureExact' /\ EscrowExact' /\ RecordMatchesEndings'
  BY <1>1, MovesRequestKeeps
<1>4. RegistryInv' /\ VaultIsBonds'
  <2>1. /\ agents' \in [Agents -> Agent]
        /\ VaultBacksBonds' /\ UnbondingWithinBond' /\ BlankUntilRegistered'
        /\ vault' \in Nat /\ VaultIsBonds'
    BY <1>1, <1>2, MovesBondKeeps, QuietKeeps
  <2>2. QED
    BY <1>2, <2>1 DEF RegistryInv, RegistryShape, CallsFor
<1>5. RouterShape'
  BY <1>2, <1>3 DEF RouterShape, CallsFor
<1>6. Registered(a)' /\ \A b \in Agents : Registered(b) => Registered(b)'
  <2>1. CASE MovesBond(a)
    <3>1. agents' = [agents EXCEPT ![a] = agents'[a]] /\ agents'[a].tier # None
      BY <2>1 DEF MovesBond, MovesRecord
    <3>2. \A b \in Agents \ {a} : agents'[b] = agents[b]
      BY <1>2, <3>1 DEF RegistryInv, RegistryShape
    <3>3. QED
      BY <3>1, <3>2 DEF Registered
  <2>2. CASE Registered(a) /\ UNCHANGED <<agents, vault>>
    BY <2>2 DEF Registered
  <2>3. QED
    BY <1>1, <2>1, <2>2
<1>7. RequestsWellFormed'
  <2>1. /\ requests' = [requests EXCEPT ![r] = q] /\ WellFormed(q)
        /\ q.status # "None" /\ q.agent = a
    BY <1>1 DEF MovesRequest
  <2>2. requests'[r] = q /\ \A x \in Requests \ {r} : requests'[x] = requests[x]
    BY <1>2, <2>1 DEF RouterShape
  <2>3. QED
    BY <1>6, <2>1, <2>2 DEF RouterInv, RequestsWellFormed, WellFormed
<1>8. QED
  BY <1>3, <1>4, <1>5, <1>7 DEF RouterInv

\* A step that touches no request, no escrow and no counter.
LEMMA RequestsUntouched ==
    ASSUME RouterInv, RegistryInv', VaultIsBonds', UNCHANGED <<requests, escrow, record>>,
           params' \in Params, provable' \in SUBSET Agents,
           \A b \in Agents : /\ agents'[b].openNotional = agents[b].openNotional
                             /\ Registered(b) => Registered(b)'
    PROVE  RouterInv'
<1>1. RouterShape'
  BY DEF RouterInv, RouterShape
<1>2. RequestsWellFormed'
  BY DEF RouterInv, RequestsWellFormed
<1>3. ExposureExact' /\ EscrowExact' /\ RecordMatchesEndings'
  BY DEF RouterInv, ExposureExact, EscrowExact, RecordMatchesEndings,
         LiveRequests, LiveOf, Of, In, NotionalOf, FeeOf, ChallengeBondOf
<1>4. QED
  BY <1>1, <1>2, <1>3 DEF RouterInv

\* The setters only accept parameters, and touch nothing else.
LEMMA GovernanceFacts ==
    ASSUME RouterInv, GovernanceCall
    PROVE  /\ UNCHANGED <<registryVars, requests, escrow, record>>
           /\ params' \in Params /\ provable' \in SUBSET Agents
<1>1. params \in Params /\ provable \in SUBSET Agents
  BY DEF RouterInv, RouterShape
<1>2. CASE \E p \in ParamChoices :
             setMinFeeBps(p) \/ setDeliveryWindows(p) \/ setParameters(p)
  <2>1. PICK p \in Params : setMinFeeBps(p) \/ setDeliveryWindows(p) \/ setParameters(p)
    BY <1>2, ParamsAssumption
  <2>2. params' \in Params
    BY <1>1, <2>1 DEF setMinFeeBps, setDeliveryWindows, setParameters, Params
  <2>3. QED
    BY <1>1, <2>1, <2>2 DEF setMinFeeBps, setDeliveryWindows, setParameters
<1>3. CASE \E a \in Agents : setVerifier(a)
  BY <1>1, <1>3 DEF setVerifier, routerVars
<1>4. QED
  BY <1>2, <1>3 DEF GovernanceCall

LEMMA RouterNextInv == RouterInv /\ [Next]_vars => RouterInv'
<1> SUFFICES ASSUME RouterInv, [Next]_vars PROVE RouterInv'
  OBVIOUS
<1>1. RegistryInv /\ RouterShape
  BY DEF RouterInv
<1>2. CASE \E r \in Requests :
             /\ ConsumerCall(r) \/ OperatorCall(r) \/ challenge(r) \/ Enforce(r)
             /\ UNCHANGED now
  <2>1. PICK r \in Requests : CallsFor(r) /\ UNCHANGED now
    BY <1>2, EveryRequestCall
  <2>2. QED
    BY <2>1, CallsForKeeps
<1>3. CASE OwnerCall /\ UNCHANGED <<routerVars, provable>> /\ UNCHANGED now
  <2>1. RegistryInv'
    <3>1. [RegistryNext]_<<registryVars, now>>
      BY <1>3 DEF RegistryNext
    <3>2. QED
      BY <1>1, <3>1, RegistryNextInv
  <2>2. \A b \in Agents : /\ agents'[b].openNotional = agents[b].openNotional
                          /\ Registered(b) => Registered(b)'
    BY <1>1, <1>3, OwnerKeepsExposure
  <2>3. UNCHANGED <<requests, escrow, record, params, provable>>
    BY <1>3 DEF routerVars
  <2>4. VaultIsBonds'
    BY <1>1, <1>3, OwnerMovesBond, MovesBondKeeps, QuietKeeps DEF RouterInv
  <2>5. QED
    BY <1>1, <2>1, <2>2, <2>3, <2>4, RequestsUntouched DEF RouterShape
<1>4. CASE UNCHANGED <<registryVars, requests, escrow, record>>
           /\ params' \in Params /\ provable' \in SUBSET Agents /\ now' \in Nat
  <2>1. RegistryInv' /\ VaultIsBonds'
    <3>1. UNCHANGED <<agents, agentIdByOperator, limits, vault>> /\ VaultIsBonds
      BY <1>4 DEF registryVars, RouterInv
    <3>2. QED
      BY <1>1, <1>4, <3>1, QuietKeeps DEF RegistryInv, RegistryShape
  <2>2. QED
    BY <1>4, <2>1, RequestsUntouched DEF registryVars, Registered
<1>5. CASE GovernanceCall /\ UNCHANGED now
  BY <1>1, <1>4, <1>5, GovernanceFacts DEF RegistryInv, RegistryShape
<1>6. CASE Tick /\ UNCHANGED <<registryVars, routerVars, provable>>
  BY <1>1, <1>4, <1>6 DEF Tick, RegistryInv, RegistryShape, RouterShape, routerVars
<1>7. CASE UNCHANGED vars
  BY <1>1, <1>4, <1>7 DEF vars, RegistryInv, RegistryShape, RouterShape, routerVars
<1>8. QED
  BY <1>2, <1>3, <1>5, <1>6, <1>7 DEF Next

\* The router, the registry and the engine's counters, as one system.
THEOREM RouterInvariance == Spec => []RouterInv
  BY RouterInitInv, RouterNextInv, PTL DEF Spec

\* The books of three contracts agree after any sequence of calls: the registry
\* holds the bonds it has recorded, an agent's open notional is that of its live
\* requests, the escrow is what live requests and open challenges hold, and every
\* ending has been counted once; in particular no amount ever goes negative.
THEOREM AccountsAlwaysExact == Spec => []AccountsExact
<1>1. RouterInv => AccountsExact
  <2> SUFFICES ASSUME RouterInv PROVE AccountsExact
    OBVIOUS
  <2>1. RegistryInv /\ RouterShape
    BY DEF RouterInv
  <2>2. vault \in Nat
    BY <2>1 DEF RegistryInv
  <2>3. escrow \in Nat
    BY <2>1, SumsType DEF RouterInv, EscrowExact
  <2>4. QED
    BY <2>1, <2>2, <2>3
       DEF AccountsExact, TypeOK, RegistryTypeOK, RegistryInv, RouterInv, RouterShape
<1>2. QED
  BY <1>1, RouterInvariance, PTL

\* No path through the router pays out twice or strands a token, whatever the
\* governance sets the parameters to between a collection and its payment.
THEOREM EscrowAlwaysExact == Spec => []EscrowExact
<1>1. RouterInv => EscrowExact
  BY DEF RouterInv
<1>2. QED
  BY <1>1, RouterInvariance, PTL

-----------------------------------------------------------------------------
(* What no step may do *)

\* What a step of the system is, seen from the requests: a call about one of
\* them, a call of an agent's owner, or nothing they or their agents notice.
LEMMA KindsOfStep ==
    ASSUME RouterInv, [Next]_vars
    PROVE  \/ \E r \in Requests :
                /\ ConsumerCall(r) \/ OperatorCall(r) \/ challenge(r) \/ Enforce(r)
                /\ CallsFor(r)
           \/ OwnerCall /\ UNCHANGED <<routerVars, provable, now>>
           \/ UNCHANGED <<registryVars, requests, escrow, record>>
<1>1. CASE \E r \in Requests :
             ConsumerCall(r) \/ OperatorCall(r) \/ challenge(r) \/ Enforce(r)
  BY <1>1, EveryRequestCall
<1>2. CASE GovernanceCall
  BY <1>2, GovernanceFacts
<1>3. QED
  BY <1>1, <1>2 DEF Next, vars, routerVars, registryVars

\* A call about one request: what changes of the others, and of the agents that
\* are not its own.
LEMMA CallsForFacts ==
    ASSUME RouterInv, NEW r \in Requests, CallsFor(r)
    PROVE  /\ \A x \in Requests \ {r} : requests'[x] = requests[x]
           /\ <<requests[r].status, requests'[r].status>> \in StatusEdges
           /\ \E a \in Agents : /\ Standing(a)
                                /\ \A b \in Agents \ {a} : agents'[b] = agents[b]
<1>1. PICK a \in Agents, q \in Request :
        /\ MovesRequest(r, a, q)
        /\ <<requests[r].status, q.status>> \in StatusEdges
        /\ MovesBond(a) \/ (Registered(a) /\ UNCHANGED <<agents, vault>>)
        /\ Standing(a)
  BY DEF CallsFor
<1>2. /\ requests' = [requests EXCEPT ![r] = q]
      /\ requests \in [Requests -> Request] /\ agents \in [Agents -> Agent]
  BY <1>1 DEF MovesRequest, RouterInv, RouterShape, RegistryInv, RegistryShape
<1>3. requests'[r] = q /\ \A x \in Requests \ {r} : requests'[x] = requests[x]
  BY <1>2
<1>4. \A b \in Agents \ {a} : agents'[b] = agents[b]
  BY <1>1, <1>2 DEF MovesBond, MovesRecord
<1>5. QED
  BY <1>1, <1>3, <1>4

\* What the owners' calls do to an agent's record: only a registration sets the
\* tiers, and the bond leaves by one of the two doors.
LEMMA OwnerKeepsStanding ==
    ASSUME RegistryInv, OwnerCall
    PROVE  \A b \in Agents :
             /\ \/ /\ agents'[b].tier = agents[b].tier
                   /\ agents'[b].demonstratedTier = agents[b].demonstratedTier
                \/ /\ agents[b].demonstratedTier = None
                   /\ agents'[b].demonstratedTier = None
             /\ \/ agents'[b].bond >= agents[b].bond
                \/ agents[b].openNotional = 0
                \/ now >= agents[b].unbondingAt
<1>1. /\ agents \in [Agents -> Agent]
      /\ \A b \in Agents : /\ agents[b] \in Agent /\ agents[b].bond \in Nat
  BY DEF RegistryInv, RegistryShape, Agent
<1>2. CASE \E a \in Agents, o \in Operators, t \in DeclaredTiers, x \in BondAmounts :
             registerAgent(a, o, t, x)
  <2>1. PICK a \in Agents, o \in Operators, t \in DeclaredTiers, x \in BondAmounts :
             registerAgent(a, o, t, x)
    BY <1>2
  <2>2. /\ ~Registered(a) /\ agents[a].demonstratedTier = None
        /\ agents[a].openNotional = 0
    BY <2>1 DEF registerAgent, RegistryInv, BlankUntilRegistered, Unregistered
  <2>3. \E g \in {[Unregistered EXCEPT !.operator = o, !.tier = t,
                                       !.active = TRUE, !.bond = x]} :
           agents' = [agents EXCEPT ![a] = g] /\ g.demonstratedTier = None
    BY <2>1 DEF registerAgent, Unregistered
  <2>4. QED
    BY <1>1, <2>2, <2>3
<1>3. CASE \E a \in Agents, o \in Operators : rotateOperator(a, o)
  BY <1>1, <1>3 DEF rotateOperator
<1>4. CASE \E a \in Agents, x \in BondAmounts : increaseBond(a, x)
  BY <1>1, <1>4, BondAmountsAssumption DEF increaseBond
<1>5. CASE \E a \in Agents, v \in BOOLEAN : setActive(a, v)
  BY <1>1, <1>5 DEF setActive
<1>6. CASE \E a \in Agents, x \in BondAmounts, s \in Scores : startUnbonding(a, x, s)
  <2>1. PICK a \in Agents, x \in BondAmounts, s \in Scores : startUnbonding(a, x, s)
    BY <1>6
  <2>2. agents' = [agents EXCEPT ![a] = [agents[a] EXCEPT !.unbondingAmount = x,
                                          !.unbondingAt = now + UnbondingPeriod]]
    BY <2>1 DEF startUnbonding
  <2>3. QED
    BY <1>1, <2>2
<1>7. CASE \E a \in Agents : withdraw(a) \/ withdrawEarly(a)
  <2>1. PICK a \in Agents : /\ TakeUnbonding(a)
                            /\ agents[a].openNotional = 0 \/ now >= agents[a].unbondingAt
    BY <1>7 DEF withdraw, withdrawEarly
  <2>2. \E x : agents' = [agents EXCEPT ![a] = [agents[a] EXCEPT
                            !.unbondingAmount = 0, !.unbondingAt = 0, !.bond = x]]
    BY <1>1, <2>1 DEF TakeUnbonding
  <2>3. QED
    BY <1>1, <2>1, <2>2
<1>8. CASE \E l \in LimitChoices : \/ setLimits(l.minBond, l.globalNotionalCap)
                                  \/ setEarlyExitPenaltyBps(l.earlyExitPenaltyBps)
  BY <1>1, <1>8 DEF setLimits, setEarlyExitPenaltyBps
<1>9. QED
  BY <1>2, <1>3, <1>4, <1>5, <1>6, <1>7, <1>8 DEF OwnerCall

\* Nothing exposed, nothing outstanding: requestExecution refuses a zero notional,
\* so a live request always shows in the exposure.
LEMMA NothingExposed ==
    ASSUME RouterInv, NEW a \in Agents, agents[a].openNotional = 0
    PROVE  LiveOf(a) = {}
<1>1. SumOver(NotionalOf, LiveOf(a)) = 0
  BY DEF RouterInv, ExposureExact
<1>2. \A x \in LiveOf(a) : NotionalOf[x] \in Nat /\ NotionalOf[x] # 0
  <2>1. ASSUME NEW x \in LiveOf(a)
        PROVE  NotionalOf[x] \in Nat /\ NotionalOf[x] # 0
    <3>1. x \in Requests /\ requests[x].status \in Live
      BY DEF LiveOf, LiveRequests
    <3>2. NotionalOf[x] = requests[x].notional /\ requests[x].notional \in Nat
      BY <3>1, RequestFacts DEF RouterInv
    <3>3. requests[x].notional # 0
      BY <3>1, LiveFacts
    <3>4. QED
      BY <3>2, <3>3
  <2>2. QED
    BY <2>1
<1>3. QED
  BY <1>1, <1>2, RequestSetsFinite, SumZero

\* The registry's "no open notional" is what it stands for: whoever takes a bond
\* out early, other than by being slashed, owes no consumer anything.
THEOREM EarlyExitNeverOwes == Spec => EarlyExitOwesNothing
<1>1. ASSUME RouterInv, [Next]_vars, NEW a \in Agents,
             agents'[a].bond < agents[a].bond, record'[a] = record[a],
             now < agents[a].unbondingAt
      PROVE  LiveOf(a) = {}
  <2>1. /\ agents[a].bond \in Nat /\ agents[a].unbondingAt \in Nat /\ now \in Nat
        /\ record[a].faults \in Nat
    BY <1>1 DEF RouterInv, RegistryInv, RegistryShape, Agent, RouterShape
  <2>2. CASE \E r \in Requests : CallsFor(r)
    <3>1. PICK b \in Agents : /\ Standing(b)
                              /\ \A c \in Agents \ {b} : agents'[c] = agents[c]
      BY <1>1, <2>2, CallsForFacts
    <3>2. a = b
      BY <1>1, <2>1, <3>1
    <3>3. QED
      BY <1>1, <2>1, <3>1, <3>2 DEF Standing
  <2>3. CASE OwnerCall
    <3>1. agents[a].openNotional = 0
      <4>1. \/ agents'[a].bond >= agents[a].bond
            \/ agents[a].openNotional = 0
            \/ now >= agents[a].unbondingAt
        BY <1>1, <2>3, OwnerKeepsStanding DEF RouterInv
      <4>2. CASE agents'[a].bond >= agents[a].bond
        <5>1. agents'[a].bond \in Nat
          BY RouterNextInv, <1>1 DEF RouterInv, RegistryInv, RegistryShape, Agent
        <5>2. QED
          BY <1>1, <2>1, <4>2, <5>1
      <4>3. QED
        BY <1>1, <2>1, <4>1, <4>2
    <3>2. QED
      BY <1>1, <3>1, NothingExposed
  <2>4. CASE UNCHANGED <<registryVars, requests, escrow, record>>
    BY <1>1, <2>1, <2>4 DEF registryVars
  <2>5. QED
    BY <1>1, <2>2, <2>3, <2>4, KindsOfStep
<1>2. RouterInv /\ [Next]_vars =>
        [\A a \in Agents :
           agents'[a].bond < agents[a].bond /\ record'[a] = record[a]
             /\ now < agents[a].unbondingAt
           => LiveOf(a) = {}]_vars
  BY <1>1
<1>3. QED
  BY <1>2, RouterInvariance, PTL DEF Spec, EarlyExitOwesNothing

\* A delivery deadline that has passed is a liveness fault whatever is called
\* next: every other way out of Pending is bounded by the same deadline.
THEOREM BlownDeadlineAlwaysFaulted == Spec => BlownDeadlineIsFaulted
<1>1. ASSUME RouterInv, [Next]_vars, NEW r \in Requests,
             requests[r].status = "Pending", now > requests[r].deliverBy,
             requests'[r].status # "Pending"
      PROVE  requests'[r].status = "Expired"
  <2>1. now \in Nat /\ requests[r].deliverBy \in Nat /\ requests \in [Requests -> Request]
    BY <1>1 DEF RouterInv, RegistryInv, RegistryShape, RouterShape, Request
  <2>2. PICK x \in Requests :
          /\ ConsumerCall(x) \/ OperatorCall(x) \/ challenge(x) \/ Enforce(x)
          /\ CallsFor(x)
    BY <1>1, KindsOfStep DEF routerVars
  <2>3. x = r
    BY <1>1, <2>2, CallsForFacts
  <2>4. markExpired(r)
    <3>1. ~deliver(r) /\ ~reject(r)
      <4>1. ~(now <= requests[r].deliverBy)
        BY <1>1, <2>1
      <4>2. QED
        BY <4>1, Zenon DEF deliver, reject
    <3>2. /\ ~ConsumerCall(r) /\ ~challenge(r) /\ ~resolveChallenge(r)
          /\ ~slashUnresolvedChallenge(r) /\ ~finalize(r) /\ ~settleDefault(r)
      BY <1>1 DEF ConsumerCall, requestExecution, settle, challenge, resolveChallenge,
                  slashUnresolvedChallenge, finalize, settleDefault
    <3>3. QED
      BY <2>2, <2>3, <3>1, <3>2 DEF OperatorCall, Enforce
  <2>5. requests' = [requests EXCEPT ![r] = [requests[r] EXCEPT !.status = "Expired",
                                                               !.challengeBond = 0]]
    BY <2>4 DEF markExpired, CloseRequest
  <2>6. QED
    BY <2>1, <2>5 DEF Request
<1>2. RouterInv /\ [Next]_vars =>
        [\A r \in Requests :
           requests[r].status = "Pending" /\ now > requests[r].deliverBy
             /\ requests'[r].status # "Pending"
           => requests'[r].status = "Expired"]_vars
  BY <1>1
<1>3. QED
  BY <1>2, RouterInvariance, PTL DEF Spec, BlownDeadlineIsFaulted

-----------------------------------------------------------------------------
(* The tier an agent has demonstrated *)

\* The router only ever records the tier an agent declared, from a delivery, or
\* Gold, from an answered challenge.
DemonstratedFromDeclared ==
    \A a \in Agents : agents[a].demonstratedTier \in {None, agents[a].tier, Gold}

\* What any step does to the tiers of one agent.
LEMMA TiersMove ==
    ASSUME RouterInv, [Next]_vars, NEW a \in Agents
    PROVE  \/ /\ agents'[a].tier = agents[a].tier
              /\ agents'[a].demonstratedTier >= agents[a].demonstratedTier
              /\ agents'[a].demonstratedTier
                   \in {agents[a].demonstratedTier, agents[a].tier, Gold}
           \/ /\ agents[a].demonstratedTier = None
              /\ agents'[a].demonstratedTier = None
<1>1. agents[a].demonstratedTier \in Nat
  BY DEF RouterInv, RegistryInv, RegistryShape, Agent
<1>2. CASE \E r \in Requests : CallsFor(r)
  <2>1. PICK b \in Agents : /\ Standing(b)
                            /\ \A c \in Agents \ {b} : agents'[c] = agents[c]
    BY <1>2, CallsForFacts
  <2>2. CASE a = b
    BY <2>1, <2>2 DEF Standing
  <2>3. CASE a # b
    BY <1>1, <2>1, <2>3
  <2>4. QED
    BY <2>2, <2>3
<1>3. CASE OwnerCall
  BY <1>1, <1>3, OwnerKeepsStanding DEF RouterInv
<1>4. CASE UNCHANGED <<registryVars, requests, escrow, record>>
  BY <1>1, <1>4 DEF registryVars
<1>5. QED
  BY <1>2, <1>3, <1>4, KindsOfStep

\* An agent of Bronze or Silver that answered a challenge stays at Gold, through
\* every later delivery at its own tier; nobody climbs a step at a time.
THEOREM SecondTierRiseAlwaysGold == Spec => SecondTierRiseIsGold
<1>1. Init => DemonstratedFromDeclared
  BY DEF Init, RegistryInit, Unregistered, DemonstratedFromDeclared
<1>2. RouterInv /\ DemonstratedFromDeclared /\ [Next]_vars => DemonstratedFromDeclared'
  BY TiersMove DEF DemonstratedFromDeclared
<1>3. ASSUME RouterInv, DemonstratedFromDeclared, [Next]_vars, NEW a \in Agents,
             agents[a].demonstratedTier \notin {None, agents'[a].demonstratedTier}
      PROVE  agents'[a].demonstratedTier = Gold
  <2>1. agents[a].tier \in Tiers /\ agents[a].demonstratedTier \in Tiers
    BY <1>3 DEF RouterInv, RegistryInv, RegistryShape, Agent
  <2>2. agents[a].demonstratedTier \in {agents[a].tier, Gold}
    BY <1>3 DEF DemonstratedFromDeclared
  <2>3. /\ agents'[a].demonstratedTier >= agents[a].demonstratedTier
        /\ agents'[a].demonstratedTier \in {agents[a].tier, Gold}
    BY <1>3, TiersMove
  <2>4. QED
    BY <1>3, <2>1, <2>2, <2>3
<1>4. RouterInv /\ DemonstratedFromDeclared /\ [Next]_vars =>
        [\A a \in Agents :
           agents[a].demonstratedTier \notin {None, agents'[a].demonstratedTier}
           => agents'[a].demonstratedTier = Gold]_agents
  BY <1>3
<1>5. QED
  BY <1>1, <1>2, <1>4, RouterInvariance, PTL DEF Spec, SecondTierRiseIsGold

-----------------------------------------------------------------------------
(* A challenge is over before the settlement window *)

\* The windows a governance choice sets together.
LegalWindows == ParamChoices \cup {InitialParams}

\* What setParameters does not check: the longest challenge, opened at the last
\* moment under any windows it accepts, ends within the shortest settlement
\* window.  The windows of the deployment (an hour, six hours, seven days) are
\* far inside it.
ChallengeFits ==
    \A p, q \in LegalWindows :
      p.challengeWindow + q.escalationWindow <= p.settlementWindow + 1

\* The three windows are always those of one choice: setParameters sets them in
\* one call, the other setters leave them alone.
WindowsOfOneChoice ==
    \E p \in LegalWindows :
      /\ params.challengeWindow = p.challengeWindow
      /\ params.escalationWindow = p.escalationWindow
      /\ params.settlementWindow = p.settlementWindow

\* A delivered request still has room for the longest escalation.
RoomToEscalate ==
    \A r \in In("Delivered"), q \in LegalWindows :
      requests[r].finalizeAt + q.escalationWindow <= requests[r].settleBy + 1

ChallengeInv == WindowsOfOneChoice /\ RoomToEscalate /\ ChallengeEndsBeforeSettleBy

LEMMA WindowsStayOfOneChoice ==
    ASSUME RouterInv, WindowsOfOneChoice, [Next]_vars
    PROVE  WindowsOfOneChoice'
<1>1. CASE UNCHANGED params
  BY <1>1 DEF WindowsOfOneChoice
<1>2. CASE GovernanceCall
  <2>1. params \in Params
    BY DEF RouterInv, RouterShape
  <2>2. CASE \E p \in ParamChoices : setMinFeeBps(p) \/ setDeliveryWindows(p)
    BY <2>1, <2>2 DEF setMinFeeBps, setDeliveryWindows, Params, WindowsOfOneChoice
  <2>3. CASE \E p \in ParamChoices : setParameters(p)
    <3>1. PICK p \in ParamChoices :
            params' = [p EXCEPT !.minDeliveryWindow = params.minDeliveryWindow,
                                !.rejectionWindow = params.rejectionWindow,
                                !.minFeeBps = params.minFeeBps]
      BY <2>3 DEF setParameters
    <3>2. p \in Params /\ p \in LegalWindows
      BY ParamsAssumption DEF LegalWindows
    <3>3. QED
      BY <3>1, <3>2 DEF WindowsOfOneChoice, Params
  <2>4. CASE \E a \in Agents : setVerifier(a)
    BY <1>1, <2>4 DEF setVerifier, routerVars
  <2>5. QED
    BY <1>2, <2>2, <2>3, <2>4 DEF GovernanceCall
<1>3. QED
  <2>1. CASE \E r \in Requests :
               ConsumerCall(r) \/ OperatorCall(r) \/ challenge(r) \/ Enforce(r)
    BY <1>1, <2>1, EveryRequestCall DEF CallsFor
  <2>2. QED
    BY <1>1, <1>2, <2>1 DEF Next, vars, routerVars

\* A call that ends with the request neither Delivered nor Challenged touches no
\* deadline of another.
LEMMA DeadlinesElsewhere ==
    ASSUME RouterInv, ChallengeInv, NEW r \in Requests, CallsFor(r),
           requests'[r].status = "Delivered" =>
             \A q \in LegalWindows :
               requests'[r].finalizeAt + q.escalationWindow <= requests'[r].settleBy + 1,
           requests'[r].status = "Challenged" =>
             requests'[r].escalationDeadline <= requests'[r].settleBy
    PROVE  RoomToEscalate' /\ ChallengeEndsBeforeSettleBy'
<1>1. \A x \in Requests \ {r} : requests'[x] = requests[x]
  BY CallsForFacts
<1>2. QED
  BY <1>1 DEF ChallengeInv, RoomToEscalate, ChallengeEndsBeforeSettleBy, In

LEMMA ChallengeNextInv ==
    ASSUME ChallengeFits, RouterInv, ChallengeInv, [Next]_vars
    PROVE  ChallengeInv'
<1>1. /\ requests \in [Requests -> Request] /\ params \in Params /\ now \in Nat
      /\ \A q \in LegalWindows : q \in Params
  BY ParamsAssumption DEF RouterInv, RouterShape, RegistryInv, RegistryShape, LegalWindows
<1>2. WindowsOfOneChoice'
  BY WindowsStayOfOneChoice DEF ChallengeInv
<1>3. ASSUME NEW r \in Requests, CallsFor(r),
             ConsumerCall(r) \/ OperatorCall(r) \/ challenge(r) \/ Enforce(r)
      PROVE  RoomToEscalate' /\ ChallengeEndsBeforeSettleBy'
  <2>1. CASE deliver(r)
    <3>1. PICK own, t : requests' = [requests EXCEPT ![r] =
            [@ EXCEPT !.attributed = own, !.tier = t,
                      !.settleBy = now + params.settlementWindow,
                      !.status = IF t = Gold THEN "Finalized" ELSE "Delivered",
                      !.finalizeAt = IF t = Gold THEN now
                                     ELSE now + params.challengeWindow]]
      BY <2>1 DEF deliver, SettleBy
    <3>2. /\ requests'[r].settleBy = now + params.settlementWindow
          /\ requests'[r].status \in {"Finalized", "Delivered"}
          /\ requests'[r].status = "Delivered" =>
               requests'[r].finalizeAt = now + params.challengeWindow
      BY <1>1, <3>1 DEF Request
    <3>3. \A q \in LegalWindows :
            (now + params.challengeWindow) + q.escalationWindow
              <= (now + params.settlementWindow) + 1
      <4>1. PICK p \in LegalWindows :
              /\ params.challengeWindow = p.challengeWindow
              /\ params.settlementWindow = p.settlementWindow
        BY DEF ChallengeInv, WindowsOfOneChoice
      <4>2. \A q \in LegalWindows :
              /\ p.challengeWindow + q.escalationWindow <= p.settlementWindow + 1
              /\ q.escalationWindow \in Nat
        BY <1>1 DEF ChallengeFits, Params
      <4>3. p.challengeWindow \in Nat /\ p.settlementWindow \in Nat
        BY <1>1 DEF Params
      <4>4. QED
        BY <1>1, <4>1, <4>2, <4>3
    <3>4. QED
      BY <1>3, <3>2, <3>3, DeadlinesElsewhere
  <2>2. CASE challenge(r)
    <3>1. /\ requests[r].status = "Delivered" /\ now < requests[r].finalizeAt
          /\ requests' = [requests EXCEPT ![r] =
               [@ EXCEPT !.status = "Challenged",
                         !.challengeBond = params.challengeBondAmount,
                         !.escalationDeadline = now + params.escalationWindow]]
      BY <2>2 DEF challenge
    <3>2. /\ requests'[r].status = "Challenged"
          /\ requests'[r].settleBy = requests[r].settleBy
          /\ requests'[r].escalationDeadline = now + params.escalationWindow
      BY <1>1, <3>1 DEF Request
    <3>3. now + params.escalationWindow <= requests[r].settleBy
      <4>1. PICK p \in LegalWindows : params.escalationWindow = p.escalationWindow
        BY DEF ChallengeInv, WindowsOfOneChoice
      <4>2. requests[r].finalizeAt + p.escalationWindow <= requests[r].settleBy + 1
        BY <3>1 DEF ChallengeInv, RoomToEscalate, In
      <4>3. /\ requests[r].finalizeAt \in Nat /\ requests[r].settleBy \in Nat
            /\ p.escalationWindow \in Nat
        BY <1>1 DEF Request, Params
      <4>4. QED
        BY <1>1, <3>1, <4>1, <4>2, <4>3
    <3>4. QED
      BY <1>3, <3>2, <3>3, DeadlinesElsewhere
  <2>3. CASE ~deliver(r) /\ ~challenge(r)
    <3>1. requests'[r].status \notin {"Delivered", "Challenged"}
      <4>1. /\ requests[r] \in Request
            /\ \A g : requests' = [requests EXCEPT ![r] = g] => requests'[r] = g
        BY <1>1
      <4>2. CASE \E a \in Agents, n \in Notionals, f \in Fees, k \in DeliveryOffsets,
                    s \in Scores : requestExecution(r, a, n, f, k, s)
        BY <4>1, <4>2 DEF requestExecution, NoRequest
      <4>3. CASE resolveChallenge(r)
        BY <4>1, <4>3 DEF resolveChallenge, Request
      <4>4. CASE finalize(r)
        BY <1>1, <4>4 DEF finalize, Request
      <4>5. CASE \E status \in Terminal : CloseRequest(r, status)
        BY <4>1, <4>5 DEF CloseRequest, Request, Terminal
      <4>6. reject(r) \/ markExpired(r) \/ slashUnresolvedChallenge(r) \/ settle(r)
              \/ settleDefault(r)
            => \E status \in Terminal : CloseRequest(r, status)
        BY DEF reject, markExpired, slashUnresolvedChallenge, settle, settleDefault,
               SettleRequest, Terminal
      <4>7. QED
        BY <1>3, <2>3, <4>2, <4>3, <4>4, <4>5, <4>6
           DEF ConsumerCall, OperatorCall, Enforce
    <3>2. QED
      BY <1>3, <3>1, DeadlinesElsewhere
  <2>4. QED
    BY <2>1, <2>2, <2>3
<1>4. ASSUME UNCHANGED requests
      PROVE  RoomToEscalate' /\ ChallengeEndsBeforeSettleBy'
  BY <1>4 DEF ChallengeInv, RoomToEscalate, ChallengeEndsBeforeSettleBy, In
<1>5. QED
  <2>1. RoomToEscalate' /\ ChallengeEndsBeforeSettleBy'
    <3>1. \/ \E r \in Requests :
               /\ CallsFor(r)
               /\ ConsumerCall(r) \/ OperatorCall(r) \/ challenge(r) \/ Enforce(r)
          \/ UNCHANGED requests
      BY KindsOfStep, Zenon DEF routerVars
    <3>2. QED
      BY <1>3, <1>4, <3>1
  <2>2. QED
    BY <1>2, <2>1 DEF ChallengeInv

\* With windows that fit into each other, a challenged request can still be
\* reported on when its escalation ends: no challenge, however late, and no
\* change of the windows while it runs, makes the default outcome certain.
THEOREM ChallengeAlwaysEndsInTime ==
    ASSUME ChallengeFits
    PROVE  Spec => []ChallengeEndsBeforeSettleBy
<1>1. Init => ChallengeInv
  BY DEF Init, NoRequest, ChallengeInv, WindowsOfOneChoice, LegalWindows,
         RoomToEscalate, ChallengeEndsBeforeSettleBy, In
<1>2. RouterInv /\ ChallengeInv /\ [Next]_vars => ChallengeInv'
  BY ChallengeNextInv
<1>3. ChallengeInv => ChallengeEndsBeforeSettleBy
  BY DEF ChallengeInv
<1>4. QED
  BY <1>1, <1>2, <1>3, RouterInvariance, PTL DEF Spec

-----------------------------------------------------------------------------
(* Router and registry implement the book *)

\* The book counts and sums as Amounts does.
LEMMA BookSums ==
    /\ \A S : Book!Cardinality(S) = Cardinality(S)
    /\ \A f, S : Book!SumOver(f, S) = SumOver(f, S)
<1>1. \A S : Book!Cardinality(S) = Cardinality(S)
  BY DEF Book!Cardinality, Cardinality
<1>2. \A f, S : Book!SumOver(f, S) = SumOver(f, S)
  BY <1>1 DEF Book!SumOver, Book!Units, SumOver, Units
<1>3. QED
  BY <1>1, <1>2

\* The book's sets, said of the requests' statuses.
LEMMA BookSets ==
    ASSUME RouterShape
    PROVE  /\ Book!RunningRequests = LiveRequests
           /\ \A a : Book!LinesOf(a) = Of(a)
           /\ \A r \in Requests : phaseOf(requests[r].status) = "forfeited"
                                    <=> requests[r].status \in {"Expired", "Faulted"}
<1>1. \A r \in Requests : requests[r].status \in Status
  BY RequestFacts
<1>2. \A r \in Requests :
        /\ phaseOf(requests[r].status) \in {"open", "disputed", "accepted"}
             <=> requests[r].status \in Live
        /\ phaseOf(requests[r].status) = "forfeited"
             <=> requests[r].status \in {"Expired", "Faulted"}
  BY <1>1 DEF phaseOf, Status, Live, Terminal
<1>3. Book!RunningRequests = LiveRequests
  BY <1>2 DEF Book!RunningRequests, Book!Running, LiveRequests
<1>4. \A a : Book!LinesOf(a) = Of(a)
  BY DEF Book!LinesOf, Of
<1>5. QED
  BY <1>2, <1>3, <1>4

\* What the incremental accounts come to is what the book says by definition.
LEMMA BookBalances == RouterInv => Book!Balanced
<1> SUFFICES ASSUME RouterInv PROVE Book!Balanced
  OBVIOUS
<1> DEFINE terms == [r \in Requests |-> [agent |-> requests[r].agent,
                                         notional |-> requests[r].notional,
                                         fee |-> requests[r].fee]]
           phase == [r \in Requests |-> phaseOf(requests[r].status)]
<1>1. RouterShape
  BY DEF RouterInv
<1>2. /\ [r \in Requests |-> terms[r].fee] = FeeOf
      /\ [r \in Requests |-> terms[r].notional] = NotionalOf
  BY DEF FeeOf, NotionalOf
<1>3. SumOver(ChallengeBondOf, Requests) = SumOver(ChallengeBondOf, In("Challenged"))
  <2>1. \A x \in Requests \ In("Challenged") : ChallengeBondOf[x] = 0
    BY DEF ChallengeBondOf, In, RouterInv, RequestsWellFormed
  <2>2. In("Challenged") \in SUBSET Requests
    BY DEF In
  <2>3. QED
    BY <2>1, <2>2, SumSupport
<1>4. escrow = SumOver(FeeOf, LiveRequests) + SumOver(ChallengeBondOf, Requests)
  BY <1>3 DEF RouterInv, EscrowExact
<1>5. [a \in Agents |-> agents[a].openNotional]
        = [a \in Agents |-> SumOver(NotionalOf, LiveRequests \cap Of(a))]
  BY DEF RouterInv, ExposureExact, LiveOf
<1>6. [a \in Agents |-> record[a].faults]
        = [a \in Agents |-> Cardinality({r \in Of(a) : phase[r] = "forfeited"})]
  <2>1. ASSUME NEW a \in Agents
        PROVE  record[a].faults = Cardinality({r \in Of(a) : phase[r] = "forfeited"})
    <3>1. {r \in Of(a) : phase[r] = "forfeited"} = Of(a) \cap (In("Expired") \cup In("Faulted"))
      BY <1>1, BookSets DEF Of, In
    <3>2. QED
      BY <3>1 DEF RouterInv, RecordMatchesEndings
  <2>2. QED
    BY <2>1
<1>7. QED
  BY <1>1, <1>2, <1>4, <1>5, <1>6, BookSets, BookSums DEF Book!Balanced

LEMMA BookBalancesNext == RouterInv' => Book!Balanced'
  BY BookBalances, PTL

LEMMA BookInit == Init => Book!Init
<1> SUFFICES ASSUME Init PROVE Book!Init
  OBVIOUS
<1>1. Book!Balanced
  BY RouterInitInv, BookBalances
<1>2. \A r \in Requests : /\ requests[r].status = "None" /\ requests[r].agent = NoAgent
                          /\ requests[r].notional = 0 /\ requests[r].fee = 0
                          /\ requests[r].challengeBond = 0
  BY DEF Init, NoRequest
<1>3. [r \in Requests |-> phaseOf(requests[r].status)] = [r \in Requests |-> "idle"]
  BY <1>2 DEF phaseOf
<1>4. ChallengeBondOf = [r \in Requests |-> 0]
  BY <1>2 DEF ChallengeBondOf
<1>5. [r \in Requests |-> [agent |-> requests[r].agent,
                           notional |-> requests[r].notional,
                           fee |-> requests[r].fee]] \in [Requests -> Book!Terms]
  BY <1>2 DEF Book!Terms
<1>6. QED
  BY <1>1, <1>2, <1>3, <1>4, <1>5 DEF Book!Init

\* A delivery whose challenge window opens moves no line of the book; every other
\* edge of a request's life is one of the book's.
LEMMA EdgesOfTheBook ==
    ASSUME NEW s, NEW t, <<s, t>> \in StatusEdges
    PROVE  \/ s = "Pending" /\ t = "Delivered"
           \/ /\ <<phaseOf(s), phaseOf(t)>> \in Book!Edges
              /\ phaseOf(t) \in Book!Running \cup Book!Closed
              /\ phaseOf(t) = "disputed" <=> t = "Challenged"
              /\ phaseOf(s) = "idle" <=> s = "None"
<1>1. \/ s = "None" /\ t = "Pending"
      \/ s = "Pending" /\ t \in {"Delivered", "Finalized", "Rejected", "Expired"}
      \/ s = "Delivered" /\ t \in {"Challenged", "Finalized"}
      \/ s = "Challenged" /\ t \in {"Finalized", "Faulted"}
      \/ s = "Finalized" /\ t = "Settled"
  BY DEF StatusEdges
<1>2. /\ phaseOf("None") = "idle"
      /\ phaseOf("Pending") = "open" /\ phaseOf("Delivered") = "open"
      /\ phaseOf("Challenged") = "disputed" /\ phaseOf("Finalized") = "accepted"
      /\ phaseOf("Settled") = "paid" /\ phaseOf("Rejected") = "refunded"
      /\ phaseOf("Expired") = "forfeited" /\ phaseOf("Faulted") = "forfeited"
  BY DEF phaseOf
<1>3. QED
  BY <1>1, <1>2 DEF Book!Edges, Book!Running, Book!Closed

\* A call about a request is a move of its line, or no change of the book at all.
LEMMA CallMovesTheBook ==
    ASSUME RouterInv, RouterInv', NEW r \in Requests, CallsFor(r)
    PROVE  Book!Next \/ UNCHANGED Book!bookVars
<1>1. PICK a \in Agents, q \in Request :
        /\ MovesRequest(r, a, q)
        /\ <<requests[r].status, q.status>> \in StatusEdges
  BY DEF CallsFor
<1>2. /\ requests' = [requests EXCEPT ![r] = q]
      /\ requests \in [Requests -> Request] /\ requests' \in [Requests -> Request]
      /\ WellFormed(q) /\ q.status # "None" /\ q.agent = a
      /\ \/ requests[r].status = "None"
         \/ /\ requests[r].agent = a
            /\ requests[r].notional = q.notional /\ requests[r].fee = q.fee
  BY <1>1 DEF MovesRequest, RouterInv, RouterShape
<1>3. requests'[r] = q /\ \A x \in Requests \ {r} : requests'[x] = requests[x]
  BY <1>2
<1>4. CASE requests[r].status = "Pending" /\ q.status = "Delivered"
  <2>1. requests[r].challengeBond = 0 /\ q.challengeBond = 0
    BY <1>2, <1>4 DEF RouterInv, RequestsWellFormed, WellFormed
  <2>2. phaseOf(requests[r].status) = phaseOf(q.status)
    BY <1>4 DEF phaseOf
  <2>3. \A x \in Requests :
          /\ phaseOf(requests'[x].status) = phaseOf(requests[x].status)
          /\ requests'[x].agent = requests[x].agent
          /\ requests'[x].notional = requests[x].notional
          /\ requests'[x].fee = requests[x].fee
          /\ requests'[x].challengeBond = requests[x].challengeBond
    BY <1>2, <1>3, <1>4, <2>1, <2>2
  <2>4. /\ FeeHeld(requests[r]) = FeeHeld(q) /\ FeeHeld(q) \in Nat
        /\ BondHeld(requests[r]) = 0 /\ BondHeld(q) = 0
        /\ Exposed(requests[r], a) = Exposed(q, a) /\ Exposed(q, a) \in Nat
        /\ FaultOf(requests[r], a) = 0 /\ FaultOf(q, a) = 0
    BY <1>2, <1>4 DEF FeeHeld, BondHeld, Exposed, FaultOf, Live, Request
  <2>5. /\ escrow \in Nat /\ agents[a].openNotional \in Nat /\ record[a].faults \in Nat
    BY SumsType DEF RouterInv, EscrowExact, RegistryInv, RegistryShape, Agent, RouterShape
  <2>6. /\ escrow' = escrow
        /\ \A b \in Agents : /\ agents'[b].openNotional = agents[b].openNotional
                             /\ record'[b].faults = record[b].faults
    BY <1>1, <2>4, <2>5 DEF MovesRequest
  <2>7. QED
    BY <2>3, <2>6 DEF Book!bookVars, ChallengeBondOf
<1>5. CASE ~(requests[r].status = "Pending" /\ q.status = "Delivered")
  <2> DEFINE next == phaseOf(q.status)
  <2>1. /\ <<phaseOf(requests[r].status), next>> \in Book!Edges
        /\ next \in Book!Running \cup Book!Closed
        /\ next = "disputed" <=> q.status = "Challenged"
        /\ phaseOf(requests[r].status) = "idle" <=> requests[r].status = "None"
    BY <1>1, <1>5, EdgesOfTheBook
  <2>2. Book!Move(r, next)
    <3>1. [x \in Requests |-> phaseOf(requests'[x].status)]
            = [[x \in Requests |-> phaseOf(requests[x].status)] EXCEPT ![r] = next]
      BY <1>3
    <3>2. [x \in Requests |-> [agent |-> requests'[x].agent,
                               notional |-> requests'[x].notional,
                               fee |-> requests'[x].fee]] \in [Requests -> Book!Terms]
      BY <1>2 DEF Request, Book!Terms
    <3>3. \A x \in Requests :
            x # r \/ phaseOf(requests[x].status) # "idle" =>
              /\ requests'[x].agent = requests[x].agent
              /\ requests'[x].notional = requests[x].notional
              /\ requests'[x].fee = requests[x].fee
      BY <1>2, <1>3, <2>1
    <3>4. requests'[r].agent \in Agents /\ requests'[r].notional # 0
      BY <1>2, <1>3 DEF WellFormed
    <3>5. /\ q.challengeBond \in Nat
          /\ next # "disputed" => q.challengeBond = 0
      BY <1>2, <2>1 DEF WellFormed, Request
    <3>6. ChallengeBondOf' = [ChallengeBondOf EXCEPT ![r] = q.challengeBond]
          /\ ChallengeBondOf'[r] = q.challengeBond
      BY <1>3 DEF ChallengeBondOf
    <3>7. Book!Balanced'
      BY BookBalancesNext
    <3>8. QED
      BY <2>1, <3>1, <3>2, <3>3, <3>4, <3>5, <3>6, <3>7 DEF Book!Move
  <2>3. QED
    BY <2>1, <2>2 DEF Book!Next
<1>6. QED
  BY <1>4, <1>5

\* The two contracts keep the one book: a consumer's view of its request, and the
\* totals over all of them, are those of RequestBook after any sequence of calls.
THEOREM RouterImplementsBook == Spec => ImplementsBook
<1>1. ASSUME RouterInv, RouterInv', [Next]_vars
      PROVE  Book!Next \/ UNCHANGED Book!bookVars
  <2>1. CASE \E r \in Requests : CallsFor(r)
    BY <1>1, <2>1, CallMovesTheBook
  <2>2. CASE OwnerCall /\ UNCHANGED <<routerVars, provable, now>>
    <3>1. \A b \in Agents : agents'[b].openNotional = agents[b].openNotional
      BY <1>1, <2>2, OwnerKeepsExposure DEF RouterInv
    <3>2. UNCHANGED <<requests, escrow, record>>
      BY <2>2 DEF routerVars
    <3>3. QED
      BY <3>1, <3>2 DEF Book!bookVars, ChallengeBondOf
  <2>3. CASE UNCHANGED <<registryVars, requests, escrow, record>>
    BY <2>3 DEF registryVars, Book!bookVars, ChallengeBondOf
  <2>4. QED
    BY <1>1, <2>1, <2>2, <2>3, KindsOfStep
<1>2. RouterInv /\ RouterInv' /\ [Next]_vars => [Book!Next]_(Book!bookVars)
  BY <1>1
<1>3. QED
  BY <1>2, BookInit, RouterInvariance, PTL DEF Spec, Book!Spec, ImplementsBook

-----------------------------------------------------------------------------
(* The chain the off-chain programs run on *)

\* What FollowsRequestChain is about: a time in which setDeliveryWindows and
\* setParameters are not called, or leave these windows what they are.
WindowsStay ==
    \A p \in ParamChoices :
      /\ p.rejectionWindow = InitialParams.rejectionWindow
      /\ p.challengeWindow = InitialParams.challengeWindow
      /\ p.escalationWindow = InitialParams.escalationWindow
      /\ p.settlementWindow = InitialParams.settlementWindow

WindowsAsDeployed ==
    /\ params.rejectionWindow = InitialParams.rejectionWindow
    /\ params.challengeWindow = InitialParams.challengeWindow
    /\ params.escalationWindow = InitialParams.escalationWindow
    /\ params.settlementWindow = InitialParams.settlementWindow

LEMMA WindowsKept ==
    ASSUME WindowsStay, RouterInv, WindowsAsDeployed, [Next]_vars
    PROVE  WindowsAsDeployed'
<1>1. params \in Params
  BY DEF RouterInv, RouterShape
<1>2. CASE UNCHANGED params
  BY <1>2 DEF WindowsAsDeployed
<1>3. CASE \E p \in ParamChoices :
             setMinFeeBps(p) \/ setDeliveryWindows(p) \/ setParameters(p)
  <2>1. PICK p \in ParamChoices :
          setMinFeeBps(p) \/ setDeliveryWindows(p) \/ setParameters(p)
    BY <1>3
  <2>2. p \in Params
    BY ParamsAssumption
  <2>3. CASE setMinFeeBps(p)
    BY <1>1, <2>3 DEF setMinFeeBps, WindowsAsDeployed, Params
  <2>4. CASE setDeliveryWindows(p)
    BY <1>1, <2>4 DEF setDeliveryWindows, WindowsAsDeployed, WindowsStay, Params
  <2>5. CASE setParameters(p)
    BY <1>1, <2>2, <2>5 DEF setParameters, WindowsAsDeployed, WindowsStay, Params
  <2>6. QED
    BY <2>1, <2>3, <2>4, <2>5
<1>4. CASE \E a \in Agents : setVerifier(a)
  BY <1>2, <1>4 DEF setVerifier, routerVars
<1>5. CASE \E r \in Requests :
             ConsumerCall(r) \/ OperatorCall(r) \/ challenge(r) \/ Enforce(r)
  BY <1>2, <1>5, EveryRequestCall DEF CallsFor
<1>6. QED
  BY <1>2, <1>3, <1>4, <1>5 DEF Next, GovernanceCall, vars, routerVars

\* Two of the chain's requests with the same fields are the same.
LEMMA SameOnChain ==
    ASSUME NEW g \in Chain!Request, NEW h \in Chain!Request,
           g.status = h.status, g.createdAt = h.createdAt, g.deliverBy = h.deliverBy,
           g.finalizeAt = h.finalizeAt, g.escalationDeadline = h.escalationDeadline,
           g.settleBy = h.settleBy
    PROVE  g = h
  BY DEF Chain!Request

LEMMA ViewType ==
    ASSUME NEW q \in Request
    PROVE  /\ ChainView(q) \in Chain!Request
           /\ ChainView(q).status = q.status
           /\ ChainView(q).createdAt = q.createdAt
           /\ ChainView(q).deliverBy = q.deliverBy
           /\ ChainView(q).finalizeAt = q.finalizeAt
           /\ ChainView(q).escalationDeadline = q.escalationDeadline
           /\ ChainView(q).settleBy = q.settleBy
<1>1. Chain!Status = Status
  BY DEF Chain!Status, Chain!Live, Chain!Terminal, Status, Live, Terminal
<1>2. QED
  BY <1>1 DEF ChainView, Chain!Request, Request

\* One record changes, so one of the chain's does.
LEMMA ViewMoves ==
    ASSUME RouterInv, NEW r \in Requests, NEW q \in Request,
           requests' = [requests EXCEPT ![r] = q]
    PROVE  /\ [x \in Requests |-> ChainView(requests'[x])]
                = [[x \in Requests |-> ChainView(requests[x])] EXCEPT ![r] = ChainView(q)]
           /\ [x \in Requests |-> ChainView(requests[x])][r] = ChainView(requests[r])
           /\ requests[r] \in Request
<1>1. requests \in [Requests -> Request]
  BY DEF RouterInv, RouterShape
<1>2. requests'[r] = q /\ \A x \in Requests \ {r} : requests'[x] = requests[x]
  BY <1>1
<1>3. QED
  BY <1>1, <1>2

LEMMA MinedOnChain ==
    ASSUME RouterInv, NEW r \in Requests, NEW q \in Request,
           requests' = [requests EXCEPT ![r] = q], UNCHANGED now,
           NEW call \in Chain!Calls, Chain!Requires(call, r),
           ChainView(q) \in Chain!Writes(call, ChainView(requests[r]))
    PROVE  \E c \in Chain!Calls : Chain!Mined(c, r)
  BY ViewMoves DEF Chain!Mined

\* The eight calls that write a status and nothing a deadline depends on.
LEMMA StatusOnChain ==
    ASSUME RouterInv, NEW r \in Requests, NEW q \in Request,
           requests' = [requests EXCEPT ![r] = q], UNCHANGED now,
           q.createdAt = requests[r].createdAt, q.deliverBy = requests[r].deliverBy,
           q.finalizeAt = requests[r].finalizeAt, q.settleBy = requests[r].settleBy,
           q.escalationDeadline = requests[r].escalationDeadline,
           NEW call \in Chain!Calls, Chain!Requires(call, r),
           Chain!Writes(call, ChainView(requests[r]))
             = {[ChainView(requests[r]) EXCEPT !.status = q.status]}
    PROVE  \E c \in Chain!Calls : Chain!Mined(c, r)
<1> DEFINE old == ChainView(requests[r])
           new == [old EXCEPT !.status = q.status]
<1>1. requests[r] \in Request
  BY DEF RouterInv, RouterShape
<1>2. /\ old \in Chain!Request
      /\ old.createdAt = requests[r].createdAt /\ old.deliverBy = requests[r].deliverBy
      /\ old.finalizeAt = requests[r].finalizeAt /\ old.settleBy = requests[r].settleBy
      /\ old.escalationDeadline = requests[r].escalationDeadline
  BY <1>1, ViewType
<1>3. /\ ChainView(q) \in Chain!Request /\ ChainView(q).status = q.status
      /\ ChainView(q).createdAt = q.createdAt /\ ChainView(q).deliverBy = q.deliverBy
      /\ ChainView(q).finalizeAt = q.finalizeAt /\ ChainView(q).settleBy = q.settleBy
      /\ ChainView(q).escalationDeadline = q.escalationDeadline
  BY ViewType
<1> HIDE DEF old
<1>4. /\ new \in Chain!Request /\ new.status = q.status
      /\ new.createdAt = old.createdAt /\ new.deliverBy = old.deliverBy
      /\ new.finalizeAt = old.finalizeAt /\ new.settleBy = old.settleBy
      /\ new.escalationDeadline = old.escalationDeadline
  <2>1. q.status \in Chain!Status
    BY <1>3 DEF Chain!Request
  <2>2. QED
    BY <1>2, <2>1 DEF Chain!Request
<1> HIDE DEF new
<1>5. ChainView(q) = new
  BY <1>2, <1>3, <1>4, SameOnChain
<1>6. ChainView(q) \in Chain!Writes(call, ChainView(requests[r]))
  BY <1>5 DEF new, old
<1>7. QED
  BY <1>6, MinedOnChain

\* Whatever ends a request writes its status, and a bond the chain does not show.
LEMMA ClosesOnChain ==
    ASSUME RouterInv, NEW r \in Requests, NEW status \in Terminal,
           CloseRequest(r, status), UNCHANGED now,
           NEW call \in Chain!Calls, Chain!Requires(call, r),
           Chain!Writes(call, ChainView(requests[r]))
             = {[ChainView(requests[r]) EXCEPT !.status = status]}
    PROVE  \E c \in Chain!Calls : Chain!Mined(c, r)
<1> DEFINE q == [requests[r] EXCEPT !.status = status, !.challengeBond = 0]
<1>1. requests[r] \in Request
  BY DEF RouterInv, RouterShape
<1>2. /\ q \in Request /\ q.status = status
      /\ q.createdAt = requests[r].createdAt /\ q.deliverBy = requests[r].deliverBy
      /\ q.finalizeAt = requests[r].finalizeAt /\ q.settleBy = requests[r].settleBy
      /\ q.escalationDeadline = requests[r].escalationDeadline
      /\ requests' = [requests EXCEPT ![r] = q]
  BY <1>1 DEF Request, Status, CloseRequest
<1> HIDE DEF q
<1>3. QED
  BY <1>2, StatusOnChain

LEMMA EndingsOnChain ==
    ASSUME RouterInv, WindowsAsDeployed, NEW r \in Requests, UNCHANGED now,
           \/ reject(r) \/ markExpired(r) \/ slashUnresolvedChallenge(r)
           \/ settle(r) \/ settleDefault(r)
    PROVE  \E c \in Chain!Calls : Chain!Mined(c, r)
<1>1. /\ [x \in Requests |-> ChainView(requests[x])][r] = ChainView(requests[r])
      /\ ChainView(requests[r]).status = requests[r].status
      /\ ChainView(requests[r]).createdAt = requests[r].createdAt
      /\ ChainView(requests[r]).deliverBy = requests[r].deliverBy
      /\ ChainView(requests[r]).escalationDeadline = requests[r].escalationDeadline
      /\ ChainView(requests[r]).settleBy = requests[r].settleBy
  BY DEF ChainView
<1>2. CASE reject(r)
  <2>1. Chain!Requires("reject", r)
    BY <1>1, <1>2 DEF reject, WindowsAsDeployed, Chain!Requires
  <2>2. Chain!Writes("reject", ChainView(requests[r]))
          = {[ChainView(requests[r]) EXCEPT !.status = "Rejected"]}
    BY DEF Chain!Writes
  <2>3. /\ CloseRequest(r, "Rejected") /\ "Rejected" \in Terminal
        /\ "reject" \in Chain!Calls
    BY <1>2 DEF reject, Terminal, Chain!Calls
  <2>4. QED
    BY <2>1, <2>2, <2>3, ClosesOnChain
<1>3. CASE markExpired(r)
  <2>1. Chain!Requires("markExpired", r)
    BY <1>1, <1>3 DEF markExpired, Chain!Requires
  <2>2. Chain!Writes("markExpired", ChainView(requests[r]))
          = {[ChainView(requests[r]) EXCEPT !.status = "Expired"]}
    BY DEF Chain!Writes
  <2>3. /\ CloseRequest(r, "Expired") /\ "Expired" \in Terminal
        /\ "markExpired" \in Chain!Calls
    BY <1>3 DEF markExpired, Terminal, Chain!Calls
  <2>4. QED
    BY <2>1, <2>2, <2>3, ClosesOnChain
<1>4. CASE slashUnresolvedChallenge(r)
  <2>1. Chain!Requires("slashUnresolvedChallenge", r)
    BY <1>1, <1>4 DEF slashUnresolvedChallenge, Chain!Requires
  <2>2. Chain!Writes("slashUnresolvedChallenge", ChainView(requests[r]))
          = {[ChainView(requests[r]) EXCEPT !.status = "Faulted"]}
    BY DEF Chain!Writes
  <2>3. /\ CloseRequest(r, "Faulted") /\ "Faulted" \in Terminal
        /\ "slashUnresolvedChallenge" \in Chain!Calls
    BY <1>4 DEF slashUnresolvedChallenge, Terminal, Chain!Calls
  <2>4. QED
    BY <2>1, <2>2, <2>3, ClosesOnChain
<1>5. CASE settle(r)
  <2>1. Chain!Requires("settle", r)
    BY <1>1, <1>5 DEF settle, Chain!Requires
  <2>2. Chain!Writes("settle", ChainView(requests[r]))
          = {[ChainView(requests[r]) EXCEPT !.status = "Settled"]}
    BY DEF Chain!Writes
  <2>3. /\ CloseRequest(r, "Settled") /\ "Settled" \in Terminal
        /\ "settle" \in Chain!Calls
    BY <1>5 DEF settle, SettleRequest, Terminal, Chain!Calls
  <2>4. QED
    BY <2>1, <2>2, <2>3, ClosesOnChain
<1>6. CASE settleDefault(r)
  <2>1. Chain!Requires("settleDefault", r)
    BY <1>1, <1>6 DEF settleDefault, Chain!Requires
  <2>2. Chain!Writes("settleDefault", ChainView(requests[r]))
          = {[ChainView(requests[r]) EXCEPT !.status = "Settled"]}
    BY DEF Chain!Writes
  <2>3. /\ CloseRequest(r, "Settled") /\ "Settled" \in Terminal
        /\ "settleDefault" \in Chain!Calls
    BY <1>6 DEF settleDefault, SettleRequest, Terminal, Chain!Calls
  <2>4. QED
    BY <2>1, <2>2, <2>3, ClosesOnChain
<1>7. QED
  BY <1>2, <1>3, <1>4, <1>5, <1>6

LEMMA FinalizedOnChain ==
    ASSUME RouterInv, NEW r \in Requests, UNCHANGED now,
           finalize(r) \/ resolveChallenge(r)
    PROVE  \E c \in Chain!Calls : Chain!Mined(c, r)
<1>1. /\ [x \in Requests |-> ChainView(requests[x])][r] = ChainView(requests[r])
      /\ ChainView(requests[r]).status = requests[r].status
      /\ ChainView(requests[r]).finalizeAt = requests[r].finalizeAt
      /\ ChainView(requests[r]).escalationDeadline = requests[r].escalationDeadline
  BY DEF ChainView
<1>2. requests[r] \in Request /\ "Finalized" \in Status /\ 3 \in 0 .. 3
  BY DEF RouterInv, RouterShape, Status, Live
<1>3. CASE finalize(r)
  <2> DEFINE q == [requests[r] EXCEPT !.status = "Finalized"]
  <2>1. /\ q \in Request /\ q.status = "Finalized"
        /\ q.createdAt = requests[r].createdAt /\ q.deliverBy = requests[r].deliverBy
        /\ q.finalizeAt = requests[r].finalizeAt /\ q.settleBy = requests[r].settleBy
        /\ q.escalationDeadline = requests[r].escalationDeadline
        /\ requests' = [requests EXCEPT ![r] = q]
    BY <1>2, <1>3 DEF Request, finalize
  <2> HIDE DEF q
  <2>2. Chain!Requires("finalize", r) /\ "finalize" \in Chain!Calls
    BY <1>1, <1>3 DEF finalize, Chain!Requires, Chain!Calls
  <2>3. Chain!Writes("finalize", ChainView(requests[r]))
          = {[ChainView(requests[r]) EXCEPT !.status = q.status]}
    BY <2>1 DEF Chain!Writes
  <2>4. QED
    BY <2>1, <2>2, <2>3, StatusOnChain
<1>4. CASE resolveChallenge(r)
  <2> DEFINE q == [requests[r] EXCEPT !.status = "Finalized", !.tier = Gold,
                                      !.challengeBond = 0]
  <2>1. /\ q \in Request /\ q.status = "Finalized"
        /\ q.createdAt = requests[r].createdAt /\ q.deliverBy = requests[r].deliverBy
        /\ q.finalizeAt = requests[r].finalizeAt /\ q.settleBy = requests[r].settleBy
        /\ q.escalationDeadline = requests[r].escalationDeadline
    BY <1>2 DEF Request
  <2>2. requests' = [requests EXCEPT ![r] = q]
    BY <1>4 DEF resolveChallenge
  <2> HIDE DEF q
  <2>3. Chain!Requires("resolveChallenge", r) /\ "resolveChallenge" \in Chain!Calls
    BY <1>1, <1>4 DEF resolveChallenge, Chain!Requires, Chain!Calls
  <2>4. Chain!Writes("resolveChallenge", ChainView(requests[r]))
          = {[ChainView(requests[r]) EXCEPT !.status = q.status]}
    BY <2>1 DEF Chain!Writes
  <2>5. QED
    BY <2>1, <2>2, <2>3, <2>4, StatusOnChain
<1>5. QED
  BY <1>3, <1>4

LEMMA DeliveredOnChain ==
    ASSUME RouterInv, WindowsAsDeployed, NEW r \in Requests, UNCHANGED now, deliver(r)
    PROVE  \E c \in Chain!Calls : Chain!Mined(c, r)
<1> DEFINE old == ChainView(requests[r])
           w == InitialParams.challengeWindow
           s == InitialParams.settlementWindow
<1>1. /\ [x \in Requests |-> ChainView(requests[x])][r] = old
      /\ requests[r] \in Request /\ now \in Nat /\ w \in Nat /\ s \in Nat
      /\ params.challengeWindow = w /\ params.settlementWindow = s
  BY ParamsAssumption DEF RouterInv, RouterShape, RegistryInv, RegistryShape, Params,
                          WindowsAsDeployed
<1>2. /\ old \in Chain!Request /\ old.status = requests[r].status
      /\ old.createdAt = requests[r].createdAt /\ old.deliverBy = requests[r].deliverBy
      /\ old.escalationDeadline = requests[r].escalationDeadline
  BY <1>1, ViewType
<1>3. PICK own \in BOOLEAN, t \in Tiers :
        requests' = [requests EXCEPT ![r] =
          [@ EXCEPT !.attributed = own, !.tier = t,
                    !.settleBy = now + s,
                    !.status = IF t = Gold THEN "Finalized" ELSE "Delivered",
                    !.finalizeAt = IF t = Gold THEN now ELSE now + w]]
  <2>1. agents[requests[r].agent].tier \in Tiers
    BY LiveFacts DEF deliver, Live, Agent
  <2>2. \A t : Attributions(requests[r].agent, t) \in SUBSET BOOLEAN
    BY DEF Attributions
  <2> DEFINE tier == agents[requests[r].agent].tier
  <2>3. PICK own \in Attributions(requests[r].agent, tier) :
          requests' = [requests EXCEPT ![r] =
            [@ EXCEPT !.attributed = own, !.tier = tier,
                      !.settleBy = SettleBy(r),
                      !.status = IF tier = Gold THEN "Finalized" ELSE "Delivered",
                      !.finalizeAt = IF tier = Gold THEN now
                                     ELSE now + params.challengeWindow]]
    BY DEF deliver
  <2>4. SettleBy(r) = now + s /\ now + params.challengeWindow = now + w
    BY <1>1 DEF SettleBy
  <2>5. own \in BOOLEAN /\ tier \in Tiers
    BY <2>1, <2>2
  <2> HIDE DEF tier, s, w
  <2>6. QED
    BY <2>3, <2>4, <2>5
<1> DEFINE outright == t = Gold
           status == IF outright THEN "Finalized" ELSE "Delivered"
           finalizeAt == IF outright THEN now ELSE now + w
           q == [requests[r] EXCEPT !.attributed = own, !.tier = t,
                   !.settleBy = now + s, !.status = status, !.finalizeAt = finalizeAt]
           new == [old EXCEPT !.status = status, !.finalizeAt = finalizeAt,
                              !.settleBy = now + s]
<1>4. /\ status \in {"Finalized", "Delivered"} /\ finalizeAt \in Nat /\ now + s \in Nat
      /\ outright \in BOOLEAN
  BY <1>1
<1>5. requests' = [requests EXCEPT ![r] = q]
  BY <1>3
<1>6. new \in Chain!Writes("deliver", old)
  BY <1>4 DEF Chain!Writes
<1> HIDE DEF status, finalizeAt, old, w, s, outright
<1>7. /\ q \in Request /\ q.status = status /\ q.finalizeAt = finalizeAt
      /\ q.settleBy = now + s /\ q.createdAt = requests[r].createdAt
      /\ q.deliverBy = requests[r].deliverBy
      /\ q.escalationDeadline = requests[r].escalationDeadline
  <2>1. {"Finalized", "Delivered"} \in SUBSET Status
    BY DEF Status, Live
  <2>2. QED
    BY <1>1, <1>4, <2>1 DEF Request
<1>8. /\ new \in Chain!Request /\ new.status = status /\ new.finalizeAt = finalizeAt
      /\ new.settleBy = now + s /\ new.createdAt = old.createdAt
      /\ new.deliverBy = old.deliverBy
      /\ new.escalationDeadline = old.escalationDeadline
  <2>1. {"Finalized", "Delivered"} \in SUBSET Chain!Status
    BY DEF Chain!Status, Chain!Live
  <2>2. QED
    BY <1>2, <1>4, <2>1 DEF Chain!Request
<1> HIDE DEF q, new
<1>9. ChainView(q) = new
  BY <1>2, <1>7, <1>8, ViewType, SameOnChain
<1>10. Chain!Requires("deliver", r) /\ "deliver" \in Chain!Calls
  BY <1>1, <1>2 DEF deliver, Chain!Requires, Chain!Calls
<1>11. QED
  BY <1>5, <1>6, <1>7, <1>9, <1>10, MinedOnChain DEF old

LEMMA RequestedOnChain ==
    ASSUME RouterInv, NEW r \in Requests, NEW a \in Agents, NEW n \in Notionals,
           NEW f \in Fees, NEW k \in DeliveryOffsets, NEW s \in Scores,
           requestExecution(r, a, n, f, k, s), UNCHANGED now
    PROVE  Chain!requestExecution(r)
<1> DEFINE q == [NoRequest EXCEPT !.agent = a, !.status = "Pending",
                                  !.notional = n, !.fee = f,
                                  !.createdAt = now, !.deliverBy = now + k]
           deadline == now + k
           new == [Chain!NoRequest EXCEPT !.status = "Pending", !.createdAt = now,
                                          !.deliverBy = deadline]
<1>1. /\ n \in Nat /\ f \in Nat /\ now \in Nat /\ deadline \in Nat
  BY RequestInputsAssumption DEF RouterInv, RegistryInv, RegistryShape
<1>2. /\ requests[r].status = "None" /\ now <= LastRequestAt
      /\ requests' = [requests EXCEPT ![r] = q]
  BY DEF requestExecution
<1>3. /\ q \in Request /\ q.status = "Pending" /\ q.createdAt = now
      /\ q.deliverBy = deadline /\ q.finalizeAt = 0 /\ q.settleBy = 0
      /\ q.escalationDeadline = 0
  <2>1. /\ "Pending" \in Status /\ NoRequest.finalizeAt = 0 /\ NoRequest.settleBy = 0
        /\ NoRequest.escalationDeadline = 0
    BY DEF Status, Live, NoRequest
  <2> HIDE DEF deadline
  <2>2. QED
    BY <1>1, <2>1, NoRequestType DEF Request, deadline
<1>4. /\ new \in Chain!Request /\ new.status = "Pending" /\ new.createdAt = now
      /\ new.deliverBy = deadline /\ new.finalizeAt = 0 /\ new.settleBy = 0
      /\ new.escalationDeadline = 0
  <2> HIDE DEF deadline
  <2>1. /\ Chain!NoRequest \in Chain!Request /\ Chain!NoRequest.finalizeAt = 0
        /\ Chain!NoRequest.settleBy = 0 /\ Chain!NoRequest.escalationDeadline = 0
        /\ "Pending" \in Chain!Status
    BY DEF Chain!NoRequest, Chain!Request, Chain!Status, Chain!Live
  <2>2. QED
    BY <1>1, <2>1 DEF Chain!Request
<1> HIDE DEF q, new
<1>5. ChainView(q) = new
  BY <1>3, <1>4, ViewType, SameOnChain
<1>6. [x \in Requests |-> ChainView(requests'[x])]
        = [[x \in Requests |-> ChainView(requests[x])] EXCEPT ![r] = new]
  BY <1>2, <1>3, <1>5, ViewMoves
<1>7. [x \in Requests |-> ChainView(requests[x])][r].status = "None"
  BY <1>2 DEF ChainView
<1>8. QED
  BY <1>2, <1>6, <1>7 DEF Chain!requestExecution, new

LEMMA ChallengedOnChain ==
    ASSUME RouterInv, WindowsAsDeployed, NEW r \in Requests, UNCHANGED now, challenge(r)
    PROVE  Chain!challenge(r)
<1> DEFINE old == ChainView(requests[r])
           deadline == now + InitialParams.escalationWindow
           q == [requests[r] EXCEPT !.status = "Challenged",
                   !.challengeBond = params.challengeBondAmount,
                   !.escalationDeadline = deadline]
           new == [old EXCEPT !.status = "Challenged", !.escalationDeadline = deadline]
<1>1. /\ requests[r] \in Request /\ deadline \in Nat
      /\ params.challengeBondAmount \in Nat
      /\ now + params.escalationWindow = deadline
  BY ParamsAssumption DEF RouterInv, RouterShape, RegistryInv, RegistryShape, Params,
                          WindowsAsDeployed
<1>2. /\ old \in Chain!Request /\ old.status = requests[r].status
      /\ old.createdAt = requests[r].createdAt /\ old.deliverBy = requests[r].deliverBy
      /\ old.finalizeAt = requests[r].finalizeAt /\ old.settleBy = requests[r].settleBy
  BY <1>1, ViewType
<1>3. /\ requests[r].status = "Delivered" /\ now < requests[r].finalizeAt
      /\ requests' = [requests EXCEPT ![r] = q]
  BY <1>1 DEF challenge
<1> HIDE DEF deadline, old
<1>4. /\ q \in Request /\ q.status = "Challenged" /\ q.escalationDeadline = deadline
      /\ q.createdAt = requests[r].createdAt /\ q.deliverBy = requests[r].deliverBy
      /\ q.finalizeAt = requests[r].finalizeAt /\ q.settleBy = requests[r].settleBy
  <2>1. "Challenged" \in Status
    BY DEF Status, Live
  <2>2. QED
    BY <1>1, <2>1 DEF Request
<1>5. /\ new \in Chain!Request /\ new.status = "Challenged"
      /\ new.escalationDeadline = deadline
      /\ new.createdAt = old.createdAt /\ new.deliverBy = old.deliverBy
      /\ new.finalizeAt = old.finalizeAt /\ new.settleBy = old.settleBy
  <2>1. "Challenged" \in Chain!Status
    BY DEF Chain!Status, Chain!Live
  <2>2. QED
    BY <1>1, <1>2, <2>1 DEF Chain!Request
<1> HIDE DEF q, new
<1>6. ChainView(q) = new
  BY <1>2, <1>4, <1>5, ViewType, SameOnChain
<1>7. /\ [x \in Requests |-> ChainView(requests'[x])]
           = [[x \in Requests |-> ChainView(requests[x])] EXCEPT ![r] = new]
      /\ [x \in Requests |-> ChainView(requests[x])][r] = old
  BY <1>3, <1>4, <1>6, ViewMoves DEF old
<1>8. QED
  BY <1>2, <1>3, <1>7 DEF Chain!challenge, new, deadline

\* The chain RequestChain describes is this router's, while its windows stay: for
\* every request and at any point of its life, nothing the router does to its
\* status and deadlines is unknown to the models of the off-chain programs.
THEOREM RouterFollowsRequestChain ==
    ASSUME WindowsStay
    PROVE  Spec => FollowsRequestChain
<1>1. Init => WindowsAsDeployed
  BY DEF Init, WindowsAsDeployed
<1>2. RouterInv /\ WindowsAsDeployed /\ [Next]_vars => WindowsAsDeployed'
  BY WindowsKept
<1>3. ASSUME RouterInv, WindowsAsDeployed, [Next]_vars, NEW r \in Requests,
             requests'[r] # requests[r]
      PROVE  \/ Chain!requestExecution(r) \/ Chain!challenge(r)
             \/ \E call \in Chain!Calls : Chain!Mined(call, r)
  <2>1. PICK x \in Requests :
          /\ ConsumerCall(x) \/ OperatorCall(x) \/ challenge(x) \/ Enforce(x)
          /\ UNCHANGED now
    BY <1>3, GovernanceFacts DEF Next, vars, routerVars
  <2>2. x = r
    BY <1>3, <2>1, EveryRequestCall, CallsForFacts
  <2>3. CASE \E a \in Agents, n \in Notionals, f \in Fees, k \in DeliveryOffsets,
                s \in Scores : requestExecution(r, a, n, f, k, s)
    BY <1>3, <2>1, <2>3, RequestedOnChain
  <2>4. CASE deliver(r)
    BY <1>3, <2>1, <2>4, DeliveredOnChain
  <2>5. CASE challenge(r)
    BY <1>3, <2>1, <2>5, ChallengedOnChain
  <2>6. CASE finalize(r) \/ resolveChallenge(r)
    BY <1>3, <2>1, <2>6, FinalizedOnChain
  <2>7. CASE \/ reject(r) \/ markExpired(r) \/ slashUnresolvedChallenge(r)
             \/ settle(r) \/ settleDefault(r)
    BY <1>3, <2>1, <2>7, EndingsOnChain
  <2>8. QED
    BY <2>1, <2>2, <2>3, <2>4, <2>5, <2>6, <2>7 DEF ConsumerCall, OperatorCall, Enforce
<1>4. RouterInv /\ WindowsAsDeployed /\ [Next]_vars =>
        [\A r \in Requests :
           requests'[r] # requests[r] =>
             \/ Chain!requestExecution(r) \/ Chain!challenge(r)
             \/ \E call \in Chain!Calls : Chain!Mined(call, r)]_requests
  BY <1>3
<1>5. QED
  BY <1>1, <1>2, <1>4, RouterInvariance, PTL DEF Spec, FollowsRequestChain

=============================================================================
