---------------------------- MODULE RequestChain ----------------------------
(***************************************************************************)
(* The chain as the off-chain programs use it: the requests of             *)
(* ExecutionRouter reduced to their status and deadlines, the blocks that  *)
(* seal them, and the nodes that answer for them.  A block takes one unit  *)
(* of time.  A node answers from a sealed block: `tip` is the newest,      *)
(* `behind` the one of a backend that may not have caught up, and a load-  *)
(* balanced RPC url answers from either, call by call (external here).     *)
(*                                                                         *)
(* Each operation is the guard and the writes of its ExecutionRouter       *)
(* namesake on these fields; a transaction whose guard is false reverts.   *)
(***************************************************************************)
EXTENDS Naturals, FiniteSets

CONSTANTS
    Requests,
    DeliverWindows, RejectionWindow, ChallengeWindow, EscalationWindow,
    SettlementWindow,
    Outright,          \* BOOLEAN values: whether a delivery is final at once (Gold)
    MaxLag,            \* how many blocks `behind` may be behind `tip`
    LastRequestAt,     \* bound: no request is made after it
    MaxTime            \* bound: the clock saturates there

VARIABLES
    now,               \* the block being built
    requests,
    tip, behind        \* views: [height, requests]

chainVars == <<now, requests, tip, behind>>

ASSUME WindowsAssumption ==
    /\ DeliverWindows \subseteq Nat \ {0} /\ Outright \subseteq BOOLEAN
    /\ {RejectionWindow, ChallengeWindow, EscalationWindow, SettlementWindow} \subseteq Nat
    /\ {MaxLag, LastRequestAt, MaxTime} \subseteq Nat

Live == {"Pending", "Delivered", "Challenged", "Finalized"}
Terminal == {"Settled", "Expired", "Faulted", "Rejected"}
Status == {"None"} \cup Live \cup Terminal

Request == [status : Status, createdAt : Nat, deliverBy : Nat, finalizeAt : Nat,
            escalationDeadline : Nat, settleBy : Nat]

NoRequest == [status |-> "None", createdAt |-> 0, deliverBy |-> 0, finalizeAt |-> 0,
              escalationDeadline |-> 0, settleBy |-> 0]

View == [height : Nat, requests : [Requests -> Request]]

\* What a call to the RPC url may be answered from.
Answers == {tip, behind}

-----------------------------------------------------------------------------
(* The transactions: what each requires of the request, and what it writes *)

Calls == {"deliver", "reject", "markExpired", "resolveChallenge",
          "slashUnresolvedChallenge", "finalize", "settle", "settleDefault"}

Requires(call, r) ==
    LET q == requests[r] IN
    CASE call = "deliver" -> q.status = "Pending" /\ now <= q.deliverBy
      [] call = "reject" -> /\ q.status = "Pending"
                            /\ now <= q.createdAt + RejectionWindow /\ now <= q.deliverBy
      [] call = "markExpired" -> q.status = "Pending" /\ now > q.deliverBy
      [] call = "resolveChallenge" -> q.status = "Challenged" /\ now <= q.escalationDeadline
      [] call = "slashUnresolvedChallenge" ->
           q.status = "Challenged" /\ now > q.escalationDeadline
      [] call = "finalize" -> q.status = "Delivered" /\ now >= q.finalizeAt
      [] call = "settle" -> q.status = "Finalized" /\ now <= q.settleBy
      [] call = "settleDefault" -> q.status = "Finalized" /\ now > q.settleBy

Writes(call, q) ==
    CASE call = "deliver" ->
           {[q EXCEPT !.status = IF outright THEN "Finalized" ELSE "Delivered",
                      !.finalizeAt = IF outright THEN now ELSE now + ChallengeWindow,
                      !.settleBy = now + SettlementWindow] : outright \in Outright}
      [] call = "reject" -> {[q EXCEPT !.status = "Rejected"]}
      [] call = "markExpired" -> {[q EXCEPT !.status = "Expired"]}
      [] call = "slashUnresolvedChallenge" -> {[q EXCEPT !.status = "Faulted"]}
      [] call \in {"resolveChallenge", "finalize"} -> {[q EXCEPT !.status = "Finalized"]}
      [] call \in {"settle", "settleDefault"} -> {[q EXCEPT !.status = "Settled"]}

\* The call is mined: it takes effect.
Mined(call, r) ==
    /\ Requires(call, r)
    /\ \E q \in Writes(call, requests[r]) : requests' = [requests EXCEPT ![r] = q]
    /\ UNCHANGED <<now, tip, behind>>

\* The node's eth_estimateGas already refuses it: nothing is sent.
Reverts(call, r) == ~Requires(call, r) /\ UNCHANGED chainVars

requestExecution(r) ==
    /\ requests[r].status = "None"
    /\ now <= LastRequestAt
    /\ \E window \in DeliverWindows :
         requests' = [requests EXCEPT ![r] =
                        [NoRequest EXCEPT !.status = "Pending", !.createdAt = now,
                                          !.deliverBy = now + window]]
    /\ UNCHANGED <<now, tip, behind>>

challenge(r) ==
    /\ requests[r].status = "Delivered"
    /\ now < requests[r].finalizeAt
    /\ requests' = [requests EXCEPT ![r] =
                      [@ EXCEPT !.status = "Challenged",
                                !.escalationDeadline = now + EscalationWindow]]
    /\ UNCHANGED <<now, tip, behind>>

-----------------------------------------------------------------------------

\* The block is sealed; `behind` catches up with some block it has not passed.
\* At the bound the clock saturates: blocks are still sealed, deadlines are past.
Seal ==
    /\ now' = IF now < MaxTime THEN now + 1 ELSE now
    /\ tip' = [height |-> now' - 1, requests |-> requests]
    /\ behind' \in {v \in {behind, tip, tip'} : v.height + MaxLag >= now' - 1}
    /\ UNCHANGED requests

CatchUp == Seal /\ behind' = tip'

ChainInit ==
    /\ now = 1
    /\ requests = [r \in Requests |-> NoRequest]
    /\ tip = [height |-> 0, requests |-> requests]
    /\ behind = tip

ChainTypeOK ==
    /\ now \in Nat
    /\ requests \in [Requests -> Request]
    /\ tip \in View /\ behind \in View
    /\ behind.height <= tip.height /\ tip.height + 1 = now

\* queryFilter(ExecutionRequested, from, to), answered by a node at view v: the
\* logs of the blocks it has.
RequestedIn(v, from, to) ==
    {r \in Requests : /\ v.requests[r].status # "None"
                      /\ v.requests[r].createdAt \in from..to}

=============================================================================
