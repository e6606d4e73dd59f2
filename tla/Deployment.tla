----------------------------- MODULE Deployment -----------------------------
(***************************************************************************)
(* contracts/scripts/deploy.js and what follows it.  The script goes       *)
(* through one list of owner-only calls, arms the timelocks last, and      *)
(* writes a manifest of what is armed and what is left to the owner; when  *)
(* OWNER is not the deployer the owner works the list off; then whoever    *)
(* owns the contracts governs them.                                        *)
(***************************************************************************)
EXTENDS TimelockHistory, InputAttestor

CONSTANTS
    Deployer,
    CoreWiring, GoldWiring,   \* sequences of actions
    CoreArmed, GoldArmed,     \* and of the contracts they are on
    Environments,             \* settings the script may find
    Quorums, MaxAges,
    Bundles                   \* feeds an agent may present

VARIABLES
    setting,    \* the environment the script reads, and the chain it is on
    phase, next,
    tuned,      \* contracts whose capital parameters were set
    pending,    \* of the list, what was left to the owner
    manifest    \* of it at most one is written

scriptVars == <<setting, phase, next, pending, manifest>>
deploymentVars == <<historyVars, attestorVars, tuned, scriptVars>>

ASSUME DeploymentAssumption ==
    /\ Deployer \in Addresses /\ "attestor" \in Contracts \ Timelocked
    /\ CoreWiring \in Seq(Actions) /\ GoldWiring \in Seq(Actions)
    /\ CoreArmed \in Seq(Timelocked) /\ GoldArmed \in Seq(Timelocked)
    /\ Environments \subseteq [owner : Addresses, gold : BOOLEAN, tune : Seq(Contracts),
                               publishers : Seq(Publishers), quorum : Nat]
    /\ \A feeds \in Bundles : \A i \in DOMAIN feeds :
         feeds[i].timestamp \in Nat /\ feeds[i].signers \in Seq(Nat)
    /\ Quorums \subseteq Nat /\ MaxAges \subseteq Nat

\* The script gives every slot one value (deploy.js:329-341).
Wired == {CoreWiring[i] : i \in DOMAIN CoreWiring} \cup {GoldWiring[i] : i \in DOMAIN GoldWiring}

ASSUME WiringAssumption == \A a, b \in Wired : a[1] = b[1] => a = b

-----------------------------------------------------------------------------
(* The list.                                                               *)

Call(name, of) == [name |-> name, of |-> of]
Each(name, operands) == [i \in DOMAIN operands |-> Call(name, operands[i])]

Wiring == CoreWiring \o (IF setting.gold THEN GoldWiring ELSE <<>>)
Armed == CoreArmed \o (IF setting.gold THEN GoldArmed ELSE <<>>)

Settings ==
    Each("tune", setting.tune) \o Each("publisher", setting.publishers)
      \o (IF setting.quorum = 0 THEN <<>> ELSE <<Call("quorum", setting.quorum)>>)

\* Mistake: the timelocks are armed before the settings are in.
ListArmedFirst == Each("finalize", Armed) \o Each("wire", Wiring) \o Settings

List == Each("wire", Wiring) \o Settings \o Each("finalize", Armed)

\* The call, made by the owner of the contract it is on.
Perform(caller, call) ==
    /\ \/ /\ call.name = "wire" /\ execute(caller, call.of)
          /\ UNCHANGED <<attestorVars, tuned>>
       \/ /\ call.name = "finalize" /\ finalizeBootstrap(caller, call.of)
          /\ UNCHANGED <<attestorVars, tuned>>
       \/ /\ call.name = "tune" /\ caller = owner[call.of] /\ tuned' = tuned \cup {call.of}
          /\ UNCHANGED <<ownership, lockVars, attestorVars>>
       \/ /\ caller = owner["attestor"]
          /\ \/ call.name = "publisher" /\ setPublisher(call.of, TRUE)
             \/ call.name = "quorum" /\ setQuorum(call.of, DefaultMaxAge)
          /\ UNCHANGED <<ownership, lockVars, tuned>>
    /\ UNCHANGED events

Landed(call) ==
    \/ call.name = "wire" /\ wiring[call.of[1]] = call.of[2]
    \/ call.name = "finalize" /\ bootstrapped[call.of]
    \/ call.name = "tune" /\ call.of \in tuned
    \/ call.name = "publisher" /\ call.of \in publishers
    \/ call.name = "quorum" /\ quorum = call.of

-----------------------------------------------------------------------------
(* The script.                                                             *)

chainVars == <<ownership, lockVars, events, attestorVars, tuned>>
Working == phase = "wiring" /\ next <= Len(List)
Deferred == setting.owner # Deployer

Defer ==
    /\ Working /\ Deferred
    /\ pending' = Append(pending, next)
    /\ next' = next + 1
    /\ UNCHANGED <<chainVars, now, setting, phase, manifest>>

CallLands ==
    /\ Working /\ ~Deferred
    /\ Perform(Deployer, List[next])
    /\ next' = next + 1
    /\ UNCHANGED <<now, setting, phase, pending, manifest>>

\* Mistake: the failure is logged, and the script goes on.
CallFailsIsLogged ==
    /\ Working /\ ~Deferred
    /\ UNCHANGED chainVars \/ Perform(Deployer, List[next])
    /\ next' = next + 1
    /\ UNCHANGED <<now, setting, phase, pending, manifest>>

\* Reverted, dropped, or mined with the answer lost: main throws.
CallFails ==
    /\ Working /\ ~Deferred
    /\ UNCHANGED chainVars \/ Perform(Deployer, List[next])
    /\ phase' = "died" /\ next' = 1
    /\ UNCHANGED <<now, setting, pending, manifest>>

WriteManifest ==
    /\ phase = "wiring" /\ next = Len(List) + 1
    /\ manifest' = {[armed |-> {c \in Timelocked : bootstrapped[c]}, pending |-> {pending[i] : i \in DOMAIN pending}]}
    /\ phase' = IF pending = <<>> THEN "handed over" ELSE "pending"
    /\ next' = 1
    /\ UNCHANGED <<chainVars, now, setting, pending>>

-----------------------------------------------------------------------------
(* The owner.                                                              *)

\* "Execute them in the order listed."
FollowManifest ==
    /\ phase = "pending"
    /\ Perform(setting.owner, List[pending[next]])
    /\ next' = next + 1
    /\ phase' = IF next = Len(pending) THEN "handed over" ELSE phase
    /\ UNCHANGED <<now, setting, pending, manifest>>

\* Or does not.
LeaveManifest ==
    /\ phase = "pending"
    /\ phase' = "handed over"
    /\ UNCHANGED <<chainVars, now, setting, next, pending, manifest>>

Administer ==
    /\ phase \in {"handed over", "died"}
    /\ \/ Govern /\ UNCHANGED <<attestorVars, tuned>>
       \/ /\ \E caller \in Addresses :
               /\ caller = owner["attestor"]
               /\ \/ \E publisher \in Publishers, allowed \in BOOLEAN : setPublisher(publisher, allowed)
                  \/ \E q \in Quorums, age \in MaxAges : setQuorum(q, age)
          /\ Logged("attestor", <<>>, FALSE)
          /\ UNCHANGED <<ownership, lockVars, tuned>>
    /\ UNCHANGED <<now, scriptVars>>

Init ==
    /\ setting \in Environments
    /\ HistoryInit(setting.owner)
    /\ AttestorInit
    /\ tuned = {}
    /\ phase = "wiring" /\ next = 1
    /\ pending = <<>>
    /\ manifest = {}

Next ==
    \/ Defer \/ CallLands \/ CallFails \/ WriteManifest
    \/ FollowManifest \/ LeaveManifest \/ Administer
    \/ Tick /\ phase \in {"handed over", "died"} /\ UNCHANGED <<chainVars, scriptVars>>

Spec == Init /\ [][Next]_deploymentVars

-----------------------------------------------------------------------------

TypeOK ==
    /\ LockTypeOK /\ AttestorTypeOK
    /\ phase \in {"wiring", "pending", "handed over", "died"}
    /\ next \in 1 .. Len(List) + 1
    /\ tuned \subseteq {setting.tune[i] : i \in DOMAIN setting.tune}

\* As long as the list is followed, by the script or by the owner, a timelock is
\* armed only when everything else on the list has landed: no call on it ever
\* turns into a notice of 21 days (deploy.js:458-460, 582-584).
ArmedMeansSettled ==
    /\ TypeOK
    /\ phase \in {"wiring", "pending"} =>
         \A c \in Timelocked : bootstrapped[c] =>
           \A i \in DOMAIN List : List[i].name # "finalize" => Landed(List[i])

\* A manifest says the truth on the day it is written: what it calls armed is
\* armed, and what it does not list as outstanding has landed.
ManifestTrue ==
    \A m \in manifest :
      /\ m.armed = {c \in Timelocked : bootstrapped[c]}
      /\ \A i \in DOMAIN List : Landed(List[i]) \/ i \in m.pending

ManifestIsTrue == [][manifest' # manifest => ManifestTrue']_deploymentVars

\* A bundle that verifies was signed, reading by reading, by a quorum of
\* different present publishers, and none of it is stale.
AcceptedByQuorum ==
    \A feeds \in Bundles :
      verifyInputs(commit(feeds), feeds, now) =>
        AttestedByQuorum(feeds) /\ \A i \in DOMAIN feeds : feeds[i].timestamp + maxAge >= now

=============================================================================
