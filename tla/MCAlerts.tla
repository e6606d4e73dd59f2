------------------------------ MODULE MCAlerts ------------------------------
(***************************************************************************)
(* Alerts at the size TLC explores.  A behaviour is one of several uses of *)
(* the service: which subscriptions there are at first, which requests are *)
(* posted, which daemons run, how often one fails, what the chain brings   *)
(* and whether endpoints fail; the rest does not happen in it.             *)
(***************************************************************************)
EXTENDS Alerts, TLC

CONSTANTS d1, d2

VARIABLE use

MCSignatures ==
    {[nonce |-> "made", op |-> "POST", key |-> "fault", copies |-> 2],
     [nonce |-> "dropped", op |-> "DELETE", key |-> "fault", copies |-> 1],
     [nonce |-> "unwatched", op |-> "DELETE", key |-> "score", copies |-> 1]}

MadeOnce == {<<"made", 1>>, <<"dropped", 1>>}

NoUse == [already |-> {}, posted |-> {}, daemons |-> {d1}, cuts |-> 0, blocks |-> 1,
          faults |-> TRUE, scores |-> FALSE, dead |-> TRUE]

FaultUses ==
    {[NoUse EXCEPT !.posted = MadeOnce \cup {<<"made", 2>>}],
     [NoUse EXCEPT !.already = {"fault"}, !.posted = MadeOnce, !.cuts = 1, !.blocks = 2],
     [NoUse EXCEPT !.already = {"fault"}, !.daemons = {d1, d2}],
     [NoUse EXCEPT !.already = {"fault"}, !.daemons = {d1, d2}, !.cuts = 1, !.dead = FALSE]}

Score == [NoUse EXCEPT !.already = {"score"}, !.faults = FALSE, !.scores = TRUE]

ScoreUses ==
    {[Score EXCEPT !.cuts = 1, !.blocks = 2, !.dead = FALSE],
     [Score EXCEPT !.posted = {<<"unwatched", 1>>}, !.blocks = 2],
     [Score EXCEPT !.daemons = {d1, d2}, !.dead = FALSE]}

Uses == FaultUses \cup ScoreUses \cup {[Score EXCEPT !.already = Keys, !.faults = TRUE]}

MCInit == use \in Uses /\ Init /\ {k \in Keys : subscription[k].made} = use.already

MCPass(d) ==
    /\ d \in use.daemons /\ Pass(d)
    /\ use.dead \/ mem[d].at # "post" \/ mem'[d].at = "ok"
    /\ UNCHANGED use

MCNext ==
    /\ \/ /\ Block /\ head < use.blocks
          /\ (use.faults \/ faults' = faults) /\ (use.scores \/ score'[head'] = "high")
       \/ \E q \in Requests : q \in use.posted /\ (Burn(q) \/ Apply(q) \/ ApplyFails(q))
       \/ \E d \in use.daemons : MCPass(d) \/ (cuts < use.cuts /\ (Throws(d) \/ Crash(d)))
    /\ UNCHANGED use

MCFairSpec ==
    /\ MCInit /\ [][MCNext]_<<vars, use>>
    /\ \A d \in Daemons : WF_<<vars, use>>(MCPass(d))

=============================================================================
