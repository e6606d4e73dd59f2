---------------------------- MODULE RequestBook ----------------------------
(***************************************************************************)
(* What the router and the registry promise about a request, without the   *)
(* clock, the bonds, the scores and the tiers: a book with one line per    *)
(* request, and totals that are by definition sums over its lines.  A line *)
(* moves along Edges and its terms are fixed when it is opened.            *)
(*                                                                         *)
(*   open      the consumer's fee is held and the agent's capital is       *)
(*             exposed                                                     *)
(*   disputed  the same, and a challenger's stake is held too              *)
(*   accepted  verification is over, only the report is missing            *)
(*   paid      the fee went to the agent (and the protocol)                *)
(*   refunded  the fee went back, without blame                            *)
(*   forfeited the fee went back and the agent was faulted                 *)
(***************************************************************************)
EXTENDS Amounts

CONSTANTS Requests, Agents, NoAgent

VARIABLES
    phase,     \* of each request
    terms,     \* of each request: agent, notional, fee
    stake,     \* of each request: the challenger's, while disputed
    pot,       \* the tokens held
    exposure,  \* of each agent: the notional of its running requests
    faults     \* of each agent: how many of its requests it has forfeited

bookVars == <<phase, terms, stake, pot, exposure, faults>>

Running == {"open", "disputed", "accepted"}
Closed == {"paid", "refunded", "forfeited"}

Edges == ({"idle"} \X {"open"})
         \cup ({"open"} \X {"disputed", "accepted", "refunded", "forfeited"})
         \cup ({"disputed"} \X {"accepted", "forfeited"})
         \cup ({"accepted"} \X {"paid"})

Terms == [agent : Agents \cup {NoAgent}, notional : Nat, fee : Nat]

RunningRequests == {r \in Requests : phase[r] \in Running}
LinesOf(a) == {r \in Requests : terms[r].agent = a}

Balanced ==
    /\ pot = SumOver([r \in Requests |-> terms[r].fee], RunningRequests)
             + SumOver(stake, Requests)
    /\ exposure = [a \in Agents |->
                     SumOver([r \in Requests |-> terms[r].notional],
                             RunningRequests \cap LinesOf(a))]
    /\ faults = [a \in Agents |->
                   Cardinality({r \in LinesOf(a) : phase[r] = "forfeited"})]

Init ==
    /\ phase = [r \in Requests |-> "idle"]
    /\ terms \in [Requests -> Terms]
    /\ \A r \in Requests : terms[r].agent = NoAgent
    /\ stake = [r \in Requests |-> 0]
    /\ Balanced

Move(r, next) ==
    /\ <<phase[r], next>> \in Edges
    /\ phase' = [phase EXCEPT ![r] = next]
    /\ terms' \in [Requests -> Terms]
    /\ \A q \in Requests : q # r \/ phase[q] # "idle" => terms'[q] = terms[q]
    /\ terms'[r].agent \in Agents /\ terms'[r].notional # 0
    /\ \E s \in {stake'[r]} :
         /\ s \in Nat
         /\ next # "disputed" => s = 0
         /\ stake' = [stake EXCEPT ![r] = s]
    /\ Balanced'

Next == \E r \in Requests, next \in Running \cup Closed : Move(r, next)

Spec == Init /\ [][Next]_bookVars

=============================================================================
