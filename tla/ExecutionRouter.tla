-------------------------- MODULE ExecutionRouter --------------------------
(***************************************************************************)
(* contracts/src/ExecutionRouter.sol: the life of an execution request,    *)
(* composed with the AgentRegistry it reserves exposure in and slashes     *)
(* through, the fee and challenge-bond escrow it holds itself, and the     *)
(* counters it makes ReputationEngine keep.                                *)
(*                                                                         *)
(* Who the consumer and the challenger are changes no state, so they are   *)
(* left out: a call guarded by msg.sender is the action of that party.     *)
(* Verification is the adapters' business (external here): an accepted     *)
(* attestation at Gold may be attributed to somebody else, at the other    *)
(* tiers it never is, and no Gold attestation is accepted for an agent     *)
(* whose model has no circuit registered.                                  *)
(***************************************************************************)
EXTENDS AgentRegistry

CONSTANTS
    Requests,         \* the request ids _nonce yields
    Notionals, Fees,  \* what a consumer may name in requestExecution
    DeliveryOffsets,  \* deliverBy - block.timestamp, as a consumer may name it
    ParamChoices,     \* what the setters may be called with
    InitialParams,    \* what the contract was deployed with
    LastRequestAt     \* bound: no request is created after it

VARIABLES
    requests,         \* _requests
    params,           \* the router's public parameters
    escrow,           \* bondToken.balanceOf(router)
    record,           \* ReputationEngine._records: faults, settledExecutions
    provable          \* agents whose model a Gold circuit is registered for

routerVars == <<requests, params, escrow, record>>
vars == <<registryVars, routerVars, provable, now>>

-----------------------------------------------------------------------------

Live == {"Pending", "Delivered", "Challenged", "Finalized"}
Terminal == {"Settled", "Expired", "Faulted", "Rejected"}
Status == {"None"} \cup Live \cup Terminal

Request == [agent : Agents \cup {NoAgent}, status : Status,
            notional : Nat, fee : Nat, createdAt : Nat, deliverBy : Nat,
            finalizeAt : Nat, settleBy : Nat, tier : Tiers,
            attributed : BOOLEAN, challengeBond : Nat, escalationDeadline : Nat]

NoRequest == [agent |-> NoAgent, status |-> "None",
              notional |-> 0, fee |-> 0, createdAt |-> 0, deliverBy |-> 0,
              finalizeAt |-> 0, settleBy |-> 0, tier |-> None,
              attributed |-> FALSE, challengeBond |-> 0, escalationDeadline |-> 0]

\* challengerBountyBps and protocolFeeBps only split what leaves, and are left out.
Params == [minDeliveryWindow : Nat, rejectionWindow : Nat,
           challengeWindow : Nat, escalationWindow : Nat, settlementWindow : Nat,
           challengeBondAmount : Nat, faultSlashBps : Bps, livenessSlashBps : Bps,
           minFeeBps : Bps]

\* What setDeliveryWindows, setParameters and setMinFeeBps accept.
LegalDeliveryWindows(p) ==
    /\ p.minDeliveryWindow # 0 /\ p.rejectionWindow # 0
    /\ p.rejectionWindow < p.minDeliveryWindow

LegalParameters(p) == p.settlementWindow + p.escalationWindow < UnbondingPeriod

LegalMinFeeBps(p) == p.minFeeBps <= 1000

LegalParams(p) == LegalDeliveryWindows(p) /\ LegalParameters(p) /\ LegalMinFeeBps(p)

ASSUME RequestsAssumption == IsFiniteSet(Requests)
ASSUME RequestInputsAssumption ==
    Notionals \subseteq Nat /\ Fees \subseteq Nat /\ DeliveryOffsets \subseteq Nat
ASSUME ParamsAssumption ==
    ParamChoices \subseteq Params /\ InitialParams \in Params /\ LegalParams(InitialParams)

Of(a) == {r \in Requests : requests[r].agent = a}
LiveRequests == {r \in Requests : requests[r].status \in Live}
LiveOf(a) == LiveRequests \cap Of(a)
In(status) == {r \in Requests : requests[r].status = status}

-----------------------------------------------------------------------------
(* Phase B: request *)

requestExecution(r, a, notional, fee, offset, score) ==
    /\ requests[r].status = "None"
    /\ now <= LastRequestAt
    /\ offset >= params.minDeliveryWindow
    /\ notional # 0
    /\ fee >= BpsOf(notional, params.minFeeBps)
    /\ CanReserve(a, notional, score)
    /\ agents' = [agents EXCEPT ![a] = Reserved(@, notional)]
    /\ requests' = [requests EXCEPT ![r] =
                      [NoRequest EXCEPT !.agent = a, !.status = "Pending",
                                        !.notional = notional, !.fee = fee,
                                        !.createdAt = now,
                                        !.deliverBy = now + offset]]
    /\ escrow' = escrow + fee
    /\ UNCHANGED <<agentIdByOperator, limits, vault, params, record, provable>>

-----------------------------------------------------------------------------
(* Phase C: deliver, or decline to *)

\* verifyAndAttribute, as the adapters answer it: TRUE when the originator is
\* the agent itself.  The empty set means no attestation is accepted.
Attributions(a, tier) ==
    CASE tier = Gold -> IF a \in provable THEN BOOLEAN ELSE {}
      [] OTHER -> {TRUE}

\* Mistake: the settlement window counted from the request, not the delivery.
SettleByFromRequest(r) == requests[r].createdAt + params.settlementWindow

SettleBy(r) == now + params.settlementWindow

deliver(r) ==
    LET a == requests[r].agent
        tier == agents[a].tier
    IN  /\ requests[r].status = "Pending"
        /\ now <= requests[r].deliverBy
        /\ \E own \in Attributions(a, tier) :
             /\ agents' = IF own THEN [agents EXCEPT ![a] = Delivered(@, tier)] ELSE agents
             /\ requests' = [requests EXCEPT ![r] =
                  [@ EXCEPT !.attributed = own, !.tier = tier,
                            !.settleBy = SettleBy(r),
                            !.status = IF tier = Gold THEN "Finalized" ELSE "Delivered",
                            !.finalizeAt = IF tier = Gold THEN now
                                           ELSE now + params.challengeWindow]]
        /\ UNCHANGED <<agentIdByOperator, limits, vault, params, escrow, record, provable>>

\* Mistakes: the challenge bond forgotten, the bond of today's parameters paid
\* instead of the one collected.
CloseRequestForgetsBond(r, status) ==
    /\ requests' = [requests EXCEPT ![r] = [@ EXCEPT !.status = status, !.challengeBond = 0]]
    /\ escrow' = escrow - requests[r].fee

CloseRequestLiveBond(r, status) ==
    /\ requests' = [requests EXCEPT ![r] = [@ EXCEPT !.status = status, !.challengeBond = 0]]
    /\ escrow' = escrow - (requests[r].fee + IF requests[r].status = "Challenged"
                                             THEN params.challengeBondAmount ELSE 0)

\* The request's exposure goes back, its escrowed fee goes to whoever the
\* outcome names, and with it a challenge bond still held.
CloseRequest(r, status) ==
    /\ requests' = [requests EXCEPT ![r] = [@ EXCEPT !.status = status, !.challengeBond = 0]]
    /\ escrow' = escrow - (requests[r].fee + requests[r].challengeBond)

\* Mistake: the deliverBy bound dropped as redundant.
rejectAfterDeadline(r) ==
    /\ requests[r].status = "Pending"
    /\ now <= requests[r].createdAt + params.rejectionWindow
    /\ agents' = [agents EXCEPT ![requests[r].agent] = Released(@, requests[r].notional)]
    /\ CloseRequest(r, "Rejected")
    /\ UNCHANGED <<agentIdByOperator, limits, vault, params, record, provable>>

reject(r) ==
    /\ requests[r].status = "Pending"
    /\ now <= requests[r].createdAt + params.rejectionWindow
    /\ now <= requests[r].deliverBy
    /\ agents' = [agents EXCEPT ![requests[r].agent] = Released(@, requests[r].notional)]
    /\ CloseRequest(r, "Rejected")
    /\ UNCHANGED <<agentIdByOperator, limits, vault, params, record, provable>>

\* _slash, engine.recordFault and registry.release, in the code's order.  The bounty
\* is the caller's or the challenger's, so all that is slashed leaves the registry.
Penalise(r, bps) ==
    LET a == requests[r].agent
        amount == BpsOf(agents[a].bond, bps)
    IN  /\ agents' = [agents EXCEPT ![a] = Released(Slashed(@, amount), requests[r].notional)]
        /\ vault' = vault - SlashTaken(agents[a], amount)
        /\ record' = [record EXCEPT ![a].faults = @ + 1]
        /\ UNCHANGED <<agentIdByOperator, limits, params, provable>>

markExpired(r) ==
    /\ requests[r].status = "Pending"
    /\ now > requests[r].deliverBy
    /\ Penalise(r, params.livenessSlashBps)
    /\ CloseRequest(r, "Expired")

-----------------------------------------------------------------------------
(* Phase D: challenge *)

challenge(r) ==
    /\ requests[r].status = "Delivered"
    /\ now < requests[r].finalizeAt
    /\ requests[r].agent \in provable
    /\ requests' = [requests EXCEPT ![r] =
                      [@ EXCEPT !.status = "Challenged",
                                !.challengeBond = params.challengeBondAmount,
                                !.escalationDeadline = now + params.escalationWindow]]
    /\ escrow' = escrow + params.challengeBondAmount
    /\ UNCHANGED <<registryVars, params, record, provable>>

\* The challenger's bond goes to the agent's owner; `attributed` and `settleBy`
\* stay what the delivery made them.
resolveChallenge(r) ==
    LET a == requests[r].agent
    IN  /\ requests[r].status = "Challenged"
        /\ now <= requests[r].escalationDeadline
        /\ \E own \in Attributions(a, Gold) :
             /\ agents' = IF own THEN [agents EXCEPT ![a] = Delivered(@, Gold)] ELSE agents
             /\ requests' = [requests EXCEPT ![r] =
                               [@ EXCEPT !.status = "Finalized", !.tier = Gold,
                                         !.challengeBond = 0]]
        /\ escrow' = escrow - requests[r].challengeBond
        /\ UNCHANGED <<agentIdByOperator, limits, vault, params, record, provable>>

slashUnresolvedChallenge(r) ==
    /\ requests[r].status = "Challenged"
    /\ now > requests[r].escalationDeadline
    /\ Penalise(r, params.faultSlashBps)
    /\ CloseRequest(r, "Faulted")

\* Mistake: a challenged request can be finalized like a delivered one.
finalizeChallenged(r) ==
    /\ requests[r].status \in {"Delivered", "Challenged"}
    /\ now >= requests[r].finalizeAt
    /\ requests' = [requests EXCEPT ![r].status = "Finalized"]
    /\ UNCHANGED <<registryVars, params, escrow, record, provable>>

finalize(r) ==
    /\ requests[r].status = "Delivered"
    /\ now >= requests[r].finalizeAt
    /\ requests' = [requests EXCEPT ![r].status = "Finalized"]
    /\ UNCHANGED <<registryVars, params, escrow, record, provable>>

-----------------------------------------------------------------------------
(* Phase E: settle *)

\* _settle: the fee leaves in two parts, the protocol's cut and the owner's rest.
\* The weight of the report bears on the score only, which is ReputationEngine's.
SettleRequest(r) ==
    LET a == requests[r].agent
    IN  /\ agents' = [agents EXCEPT ![a] = Released(@, requests[r].notional)]
        /\ CloseRequest(r, "Settled")
        /\ record' = [record EXCEPT ![a].settledExecutions = @ + 1]
        /\ UNCHANGED <<agentIdByOperator, limits, vault, params, provable>>

settle(r) ==
    /\ requests[r].status = "Finalized"
    /\ now <= requests[r].settleBy
    /\ SettleRequest(r)

settleDefault(r) ==
    /\ requests[r].status = "Finalized"
    /\ now > requests[r].settleBy
    /\ SettleRequest(r)

-----------------------------------------------------------------------------
(* The owner's setters, and circuits registered and withdrawn at the Gold adapter *)

setMinFeeBps(p) ==
    /\ LegalMinFeeBps(p)
    /\ params' = [params EXCEPT !.minFeeBps = p.minFeeBps]
    /\ UNCHANGED <<registryVars, requests, escrow, record, provable>>

setDeliveryWindows(p) ==
    /\ LegalDeliveryWindows(p)
    /\ params' = [params EXCEPT !.minDeliveryWindow = p.minDeliveryWindow,
                                !.rejectionWindow = p.rejectionWindow]
    /\ UNCHANGED <<registryVars, requests, escrow, record, provable>>

setParameters(p) ==
    /\ LegalParameters(p)
    /\ params' = [p EXCEPT !.minDeliveryWindow = params.minDeliveryWindow,
                           !.rejectionWindow = params.rejectionWindow,
                           !.minFeeBps = params.minFeeBps]
    /\ UNCHANGED <<registryVars, requests, escrow, record, provable>>

setVerifier(a) ==
    /\ provable' = IF a \in provable THEN provable \ {a} ELSE provable \cup {a}
    /\ UNCHANGED <<registryVars, routerVars>>

-----------------------------------------------------------------------------

Init ==
    /\ RegistryInit
    /\ requests = [r \in Requests |-> NoRequest]
    /\ params = InitialParams
    /\ escrow = 0
    /\ record = [a \in Agents |-> [faults |-> 0, settledExecutions |-> 0]]
    /\ provable = {}

ConsumerCall(r) ==
    \/ \E a \in Agents, n \in Notionals, f \in Fees, k \in DeliveryOffsets, s \in Scores :
         requestExecution(r, a, n, f, k, s)
    \/ settle(r)

OperatorCall(r) == deliver(r) \/ reject(r) \/ resolveChallenge(r)

\* Mistake: nobody takes over from a consumer that stays silent.
EnforceWithoutDefault(r) == markExpired(r) \/ slashUnresolvedChallenge(r) \/ finalize(r)

\* What anybody may call once its deadline has passed, and the watchtower does.
Enforce(r) ==
    markExpired(r) \/ slashUnresolvedChallenge(r) \/ finalize(r) \/ settleDefault(r)

GovernanceCall ==
    \/ \E p \in ParamChoices : setMinFeeBps(p) \/ setDeliveryWindows(p) \/ setParameters(p)
    \/ \E a \in Agents : setVerifier(a)

Next ==
    \/ /\ \/ \E r \in Requests :
               ConsumerCall(r) \/ OperatorCall(r) \/ challenge(r) \/ Enforce(r)
          \/ OwnerCall /\ UNCHANGED <<routerVars, provable>>
          \/ GovernanceCall
       /\ UNCHANGED now
    \/ Tick /\ UNCHANGED <<registryVars, routerVars, provable>>

Spec == Init /\ [][Next]_vars

\* Every expired deadline is eventually acted on by somebody, and time passes:
\* relayer/src/watchtower.js calls all four for every live request, on every
\* pass, and any address may.  Nothing else is fair: consumers, operators and
\* challengers may stay silent for ever.
Fairness ==
    /\ WF_vars(Tick /\ UNCHANGED <<registryVars, routerVars, provable>>)
    /\ \A r \in Requests : WF_vars(Enforce(r) /\ UNCHANGED now)

FairSpec == Spec /\ Fairness

-----------------------------------------------------------------------------
(* Safety *)

TypeOK ==
    /\ RegistryTypeOK
    /\ requests \in [Requests -> Request]
    /\ params \in Params
    /\ escrow \in Nat
    /\ record \in [Agents -> [faults : Nat, settledExecutions : Nat]]
    /\ provable \in SUBSET Agents

NotionalOf == [r \in Requests |-> requests[r].notional]
FeeOf == [r \in Requests |-> requests[r].fee]
ChallengeBondOf == [r \in Requests |-> requests[r].challengeBond]

\* The registry holds the recorded bonds and nothing else: under this router every
\* bounty has somebody to go to, and no slash leaves tokens behind.
VaultIsBonds == vault = SumOver(BondOf, Agents)

\* openNotional is the notional of the agent's live requests, to the unit: what
\* requestExecution reserves is released exactly once, on every one of the four
\* ways out, so the clamp in `release` never hides a double release and
\* `openNotional == 0` means there is nothing outstanding.
ExposureExact ==
    \A a \in Agents : agents[a].openNotional = SumOver(NotionalOf, LiveOf(a))

\* The router holds the fee of every live request and the bond of every open
\* challenge, and nothing else: no path pays out twice or strands a token.
EscrowExact ==
    escrow = SumOver(FeeOf, LiveRequests) + SumOver(ChallengeBondOf, In("Challenged"))

\* The reputation engine has been told of each ending once: one fault for every
\* request that expired or lost its challenge, one settlement for every settled one.
RecordMatchesEndings ==
    \A a \in Agents :
      /\ record[a].faults = Cardinality(Of(a) \cap (In("Expired") \cup In("Faulted")))
      /\ record[a].settledExecutions = Cardinality(Of(a) \cap In("Settled"))

\* The books agree: bonds in the registry, fees and challenge bonds in the
\* router, exposure and the engine's counters, each kept by increments of its
\* own in a contract of its own, are all what the requests' statuses say.
AccountsExact ==
    TypeOK /\ VaultIsBonds /\ ExposureExact /\ EscrowExact /\ RecordMatchesEndings

\* A challenge is over while the consumer can still report: answering at the
\* last moment does not push the request past its settlement window, where the
\* outcome could only be the default one.
ChallengeEndsBeforeSettleBy ==
    \A r \in In("Challenged") : requests[r].escalationDeadline <= requests[r].settleBy

\* Bond leaves ahead of UNBONDING_PERIOD, other than in a slash, only from an
\* agent with no live request: withdrawEarly's `openNotional == 0` is a faithful
\* proxy for "no outstanding liability".
EarlyExitOwesNothing ==
    [][\A a \in Agents :
         agents'[a].bond < agents[a].bond /\ record'[a] = record[a]
           /\ now < agents[a].unbondingAt
         => LiveOf(a) = {}]_vars

\* An agent's demonstrated tier rises at most twice in its life: the second rise
\* is to Gold, whatever it delivers and however often it answers a challenge.
SecondTierRiseIsGold ==
    [][\A a \in Agents :
         agents[a].demonstratedTier \notin {None, agents'[a].demonstratedTier}
         => agents'[a].demonstratedTier = Gold]_agents

\* A request whose delivery deadline has passed has one way out, the liveness
\* fault, whatever the windows have been set to since it was made.
BlownDeadlineIsFaulted ==
    [][\A r \in Requests :
         requests[r].status = "Pending" /\ now > requests[r].deliverBy
           /\ requests'[r].status # "Pending"
         => requests'[r].status = "Expired"]_vars

-----------------------------------------------------------------------------
(* What the comments of the contracts say, and the code does not do *)

\* AgentRegistry.sol, on UNBONDING_PERIOD: "an agent cannot exit ahead of the
\* settlement of its own outstanding executions".
NoExitAheadOfSettlement ==
    \A a \in Agents : LiveOf(a) # {} => agents[a].bond > 0

-----------------------------------------------------------------------------
(* Refinement and liveness *)

\* What the consumer and the agent's owner see of a status.
phaseOf(status) ==
    CASE status = "None" -> "idle"
      [] status \in {"Pending", "Delivered"} -> "open"
      [] status = "Challenged" -> "disputed"
      [] status = "Finalized" -> "accepted"
      [] status = "Settled" -> "paid"
      [] status = "Rejected" -> "refunded"
      [] status \in {"Expired", "Faulted"} -> "forfeited"

Book == INSTANCE RequestBook WITH
    phase <- [r \in Requests |-> phaseOf(requests[r].status)],
    terms <- [r \in Requests |-> [agent |-> requests[r].agent,
                                  notional |-> requests[r].notional,
                                  fee |-> requests[r].fee]],
    stake <- ChallengeBondOf,
    pot <- escrow,
    exposure <- [a \in Agents |-> agents[a].openNotional],
    faults <- [a \in Agents |-> record[a].faults]

\* Router and registry together implement the book: their incremental updates,
\* spread over two contracts and nine handlers, keep its totals, and a request
\* only moves along the book's edges, its terms fixed from the first.
ImplementsBook == Book!Spec

ChainView(q) == [status |-> q.status, createdAt |-> q.createdAt, deliverBy |-> q.deliverBy,
                 finalizeAt |-> q.finalizeAt, escalationDeadline |-> q.escalationDeadline,
                 settleBy |-> q.settleBy]

Chain == INSTANCE RequestChain WITH
    requests <- [r \in Requests |-> ChainView(requests[r])],
    tip <- 0, behind <- 0, MaxLag <- 0,
    DeliverWindows <- DeliveryOffsets, Outright <- BOOLEAN,
    RejectionWindow <- InitialParams.rejectionWindow,
    ChallengeWindow <- InitialParams.challengeWindow,
    EscalationWindow <- InitialParams.escalationWindow,
    SettlementWindow <- InitialParams.settlementWindow

\* While its parameters stay, the router moves statuses and deadlines exactly as
\* RequestChain says, the chain that the models of the off-chain programs run
\* on: what watchtower, agent and arena are shown to do, they do on this router.
FollowsRequestChain ==
    [][\A r \in Requests :
         requests'[r] # requests[r] =>
           \/ Chain!requestExecution(r) \/ Chain!challenge(r)
           \/ \E call \in Chain!Calls : Chain!Mined(call, r)]_requests

\* Every request that is made ends, with no cooperation from the consumer, the
\* operator or a challenger: neither can hold exposure or fee hostage.
EveryRequestEnds ==
    \A r \in Requests :
      requests[r].status \in Live ~> requests[r].status \in Terminal

=============================================================================
