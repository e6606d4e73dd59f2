---------------------------- MODULE MCDeployment ----------------------------
(* Two timelocked contracts with one guarded slot each.                    *)
EXTENDS Deployment

CONSTANT router

MCHome == [writer |-> "engine", zkRouter |-> "zkAdapter"]
MCCoreWiring == <<<<"writer", router>>>>
MCGoldWiring == <<<<"zkRouter", router>>>>
MCCoreArmed == <<"engine">>
MCGoldArmed == <<"zkAdapter">>

\* The deployer's own deployment, and one for another owner
\* whose quorum its publishers cannot reach.
MCEnvironments ==
    {[owner |-> 1, gold |-> TRUE, tune |-> <<>>, publishers |-> <<1, 2>>, quorum |-> 2],
     [owner |-> 2, gold |-> FALSE, tune |-> <<"engine">>, publishers |-> <<1>>, quorum |-> 2]}

MCSignatures == {<<>>} \cup UNION {[1 .. n -> {NoSigner} \cup Publishers] : n \in 1 .. 2}
MCBundles ==
    {<<[reading |-> "price", timestamp |-> t, signers |-> s]>> :
       t \in {1, 3}, s \in MCSignatures} \cup {<<>>}

=============================================================================
