------------------------------ MODULE Timelock ------------------------------
(***************************************************************************)
(* contracts/src/libraries/Utils.sol, Ownable and Timelocked, on several   *)
(* contracts, with the shape every guarded setter gives them: setRouter    *)
(* and setTreasury of AgentRegistry, setAdapter and setInputAttestor of    *)
(* ExecutionRouter, setWriter of ReputationEngine, setRouter of ZkAdapter  *)
(* each consume the notice for one slot and one value, then write the      *)
(* value to the slot.  The action id, a hash of setter and arguments, is   *)
(* the pair <<slot, value>>.                                               *)
(***************************************************************************)
EXTENDS Naturals

CONSTANTS
    Addresses,
    Contracts,
    Slots, Home,      \* what is wired, and the contract each slot is on
    Wires, Unwired,   \* to what; Unwired before deployment wires it
    TimelockDelay, TimelockGrace,
    MaxTime           \* bound: the clock stops there

VARIABLES
    owner, pendingOwner,   \* of each contract
    timelockEta,
    bootstrapped,
    wiring,                \* what each slot holds
    now                    \* block.timestamp

ownership == <<owner, pendingOwner>>
lockVars == <<timelockEta, bootstrapped, wiring>>
vars == <<ownership, lockVars, now>>

Actions == Slots \X Wires
On(action) == Home[action[1]]
Timelocked == {Home[slot] : slot \in Slots}
Nobody == 0

ASSUME AddressesAssumption == Nobody \notin Addresses
ASSUME WiresAssumption == Unwired \notin Wires /\ Home \in [Slots -> Contracts]
ASSUME TimelockAssumption == TimelockDelay \in Nat \ {0} /\ TimelockGrace \in Nat

-----------------------------------------------------------------------------

transferOwnership(caller, c, newOwner) ==
    /\ caller = owner[c]
    /\ pendingOwner' = [pendingOwner EXCEPT ![c] = newOwner]
    /\ UNCHANGED <<owner, lockVars>>

acceptOwnership(caller, c) ==
    /\ caller = pendingOwner[c]
    /\ owner' = [owner EXCEPT ![c] = pendingOwner[c]]
    /\ pendingOwner' = [pendingOwner EXCEPT ![c] = Nobody]
    /\ UNCHANGED lockVars

finalizeBootstrap(caller, c) ==
    /\ caller = owner[c]
    /\ ~bootstrapped[c]
    /\ bootstrapped' = [bootstrapped EXCEPT ![c] = TRUE]
    /\ UNCHANGED <<ownership, timelockEta, wiring>>

\* Queueing again restarts the clock.
queue(caller, action) ==
    /\ caller = owner[On(action)]
    /\ timelockEta' = [timelockEta EXCEPT ![action] = now + TimelockDelay]
    /\ UNCHANGED <<ownership, bootstrapped, wiring>>

cancel(caller, action) ==
    /\ caller = owner[On(action)]
    /\ timelockEta[action] # 0
    /\ timelockEta' = [timelockEta EXCEPT ![action] = 0]
    /\ UNCHANGED <<ownership, bootstrapped, wiring>>

Ripe(action) ==
    /\ timelockEta[action] # 0
    /\ now >= timelockEta[action]
    /\ now <= timelockEta[action] + TimelockGrace

\* Mistake: an entry that serves twice.
consumeKeeps(action) ==
    /\ bootstrapped[On(action)] => Ripe(action)
    /\ UNCHANGED timelockEta

\* _consume: before the end of bootstrap it asks for nothing and deletes nothing.
consume(action) ==
    IF ~bootstrapped[On(action)] THEN UNCHANGED timelockEta
    ELSE /\ Ripe(action)
         /\ timelockEta' = [timelockEta EXCEPT ![action] = 0]

execute(caller, action) ==
    /\ caller = owner[On(action)]
    /\ consume(action)
    /\ wiring' = [wiring EXCEPT ![action[1]] = action[2]]
    /\ UNCHANGED <<ownership, bootstrapped>>

Tick == now < MaxTime /\ now' = now + 1

LockInit(initialOwner) ==
    /\ owner = [c \in Contracts |-> initialOwner]
    /\ pendingOwner = [c \in Contracts |-> Nobody]
    /\ timelockEta = [action \in Actions |-> 0]
    /\ bootstrapped = [c \in Timelocked |-> FALSE]
    /\ wiring = [slot \in Slots |-> Unwired]
    /\ now = 1

LockTypeOK ==
    /\ owner \in [Contracts -> Addresses]
    /\ pendingOwner \in [Contracts -> Addresses \cup {Nobody}]
    /\ timelockEta \in [Actions -> Nat]
    /\ bootstrapped \in [Timelocked -> BOOLEAN]
    /\ wiring \in [Slots -> Wires \cup {Unwired}]
    /\ now \in Nat

=============================================================================
