# BotID, modelled

TLA+ models of the BotID protocol: bonded agents that execute requests for
consumers, are challenged, slashed and scored.  The contracts under
`src/contracts/src` hold the money and are the core; the relayer
(`src/relayer`) is what makes time-driven transitions happen, serves agents,
hires them and sends alerts; the interface reads.  Every definition names its
source in `PROJECT.json` ("map").

## 1. The system

| component | state | operations | what makes it correct |
|---|---|---|---|
| `AgentRegistry.sol` | agent records (operator, declared and demonstrated tier, bond, openNotional, unbonding), operator index, limits, tokens held | register, rotate, top up, (de)activate, unbond, withdraw at two doors; for the router: reserve, release, slash, recordDelivery | tokens cover the bonds; unbonding never above bond; index is an inverse; tier ratchets |
| `ExecutionRouter.sol` | requests, parameters, escrowed fees and challenge bonds | request, deliver, reject, expire, challenge, resolve, slash, finalize, settle (by report or by default) | exposure = notional of live requests; escrow exact; one ending each, recorded once; nobody can hold a request open |
| `ReputationEngine.sol`, `ScoreMath.sol` | score record per agent, spent budget per (agent, consumer), bought voice per consumer | init, outcome, fault | a report never weighs more than was paid for and than one party may; a fault never pays; time improves nothing |
| `Utils.sol` (Timelocked, two-step Ownable) | queue of etas, bootstrap flag, owner | queue, cancel, execute, finalizeBootstrap, hand over | nothing is rewired without the notice |
| `InputAttestor.sol` | publisher set and its counter, quorum, age limit | list, set quorum, verify a bundle | a quorum of different publishers behind every reading |
| adapters | Gold: circuit per model, first presenter per proof | verify and attribute | the first presenter keeps the credit |
| `deploy.js` | the list of owner calls, the manifest file | wire, set, arm, or defer to the owner | nothing is armed before its settings are in; the manifest is true |
| watchtower | cursor, tracked requests (memory only) | scan logs, enforce deadlines | every overdue live request is enforced |
| agent relayer | backlog (memory only) | deliver, decline, answer challenges | a request is answered once, and not forgotten |
| alerts daemon and API | database rows, signed nonces | subscribe, queue, sweep, deliver | an alert lost or repeated has a cause; a standing score is not announced again; a signature acts once |
| arena | job ledger file | hire, settle | budget; one job per agent; a job ends |
| interface | polled answers | read | an old answer never overwrites a newer one |

Contracts call each other inside one transaction: router -> registry
(reserve, release, slash, recordDelivery), router -> engine (recordOutcome,
recordFault), registry -> engine (initAgent, getScore), router -> adapter
(verifyAndAttribute, canVerify).  The relayer and the interface only see the
chain through logs, reads and transactions that may be lost, late or lose a
race.  Transactions are atomic, so on chain the hard part is which calls
interleave, when, and under which parameters; off chain it is restarts, nodes
behind the head, lost answers and retries.

## 2. Modules

### On chain

* `Amounts` - basis points and sums.  A sum is the cardinality of the set of
  units it counts, so that the proofs can use the cardinality theorems.
* `AgentRegistry` - the registry under any router.  `Reserved`, `Released`,
  `Slashed`, `Delivered` are functions on an agent's record; the router's module
  composes several of them into one transaction, and `RouterCall` makes each an
  action with arbitrary arguments.  A slash that names nobody for its bounty leaves
  the bounty in the registry, and no record has it (`SlashPaid`,
  `AgentRegistry.sol:387`): under any router the tokens are at least the bonds
  (`VaultBacksBonds`).  This router always names somebody or offers nothing, and with
  it they are equal (`VaultIsBonds`, a part of `AccountsExact`).
* `ExecutionRouter` - EXTENDS the registry; one action per handler, in the
  order of the contract's phases B to E.  A caller's identity changes no state
  and is left out: each action is that party's call.  `Penalise` is `_slash`,
  `recordFault` and `release`; `CloseRequest` is what every ending does to the
  request and the escrow.  `record` holds the engine's two counters.
* `RequestBook` - the abstract specification: a book with one line per request
  and totals that are by definition sums over its lines, and the edges along
  which a line may move.  `ImplementsBook` is the refinement: incremental
  updates across two contracts keep the book's totals.
* `ScoreMath` - decay, fade, observe, haircut and quality as operators, with the
  code's roundings in the code's order.  `decay` and `fade` are the same curve
  to different ends, so both are `Shrunk`.
* `ReputationEngine` - EXTENDS it; the engine under any writer.  `Granted` is
  what `_spend` returns, `Spend` what it and `_earnVoice` write.
* `ReputationHistory` - the engine with two history variables: every report made,
  and `blameless`, what each agent would score without its faults.
* `Timelock` - `Ownable` and `Timelocked` on several contracts, with the guarded
  setters as writes of a wire to a slot; `TimelockHistory` adds the log of
  announcements, withdrawals and executions.
* `InputAttestor` - publishers, quorum and the acceptance of a bundle.
  `AcceptedByQuorum` asks it for every bundle as of the present; the router asks as of
  the request's creation (`ExecutionRouter.sol:375`), a bundle that may since have
  aged, with the publishers and the quorum of the delivery.
* `Deployment` - EXTENDS the last two: `deploy.js` going through its list of
  calls, which may die at any of them or defer them all to another owner, the
  manifest, and then the owner who works the list off and governs.

### Off chain

* `RequestChain` - the chain as the off-chain programs see it: a request is its
  status and its deadlines, a call is a guard and the writes of its namesake in
  the router, a block takes one unit of time, and a node answers every read
  either from the newest block (`tip`) or from an older one (`behind`).  It
  stands between the two halves: `FollowsRequestChain` shows that the router, with
  the registry, moves requests by exactly these calls, so what the programs below
  are shown to do they do over the contracts.  Everything that a request needs besides (bonds, funds,
  attestations) only makes a call revert that `RequestChain` would accept.  The
  models let every call fail, transiently, however often the retries allow; that
  one fails for good, for want of gas or of an attestation, is the `exhausted` of
  `AgentRelayer` and an error the watchtower swallows.
* `Watchtower` - `watchtower.js`: one iteration is a `Scan` and an `Attend` for
  every tracked request, each await a step.  `misread` is history: the requests a
  lagging node hid from it.
* `AgentRelayer` - `agent.js` and `util.js`: both event handlers, the backfill,
  `Backlog.once`, and a job await by await through `retry`.  `cause` is history:
  what went wrong with serving each request, other than the bookkeeping.  Two reads
  of `getRequest` are not retried (`agent.js:101` and 169): when one throws, the order
  or the challenge is dropped, against the comment at 54-55 that a delivery which
  fails transiently is "retried rather than lost"; the cause is then `unread`.
* `Alerts` - the tables of `db/*.sql`, the writes of `api/alerts/route.ts` and the
  daemon of `alerts.js` on top of them, a SQL statement or an await per step, with
  any number of daemons.  Each read of the chain (the head, the logs of a window, the
  sweep's block, the score) is answered by a node of its own, up to `MaxLag` blocks
  behind.  `owed`, `missed` and `highs` are history: the faults somebody should hear
  of, those a pass left behind and why, and the sweeps that read the score above the
  threshold.
* `Arena` - `relayer/src/arena`: the order and the settle loop of one process on
  one ledger file, a ledger operation being one step.
* `Explorer` - `useChain.ts` (`usePolled`) over `activity.ts` (`foldExecutions`): a page
  that polls, is switched and gets answers late, in part or never.

### Theorems and runs

* `ExecutionRouterProofs` (registry and router), `DeploymentProofs`, `ReputationProofs`,
  `WatchtowerProofs`, `AgentRelayerProofs`, `ArenaProofs`, `InterfaceProofs` (alerts and
  `Explorer`) - the theorems, section 5.  `RequestChainTheorems` holds what the three
  over the chain need.
* `MC*` - the constants of the runs.

Definitions named after a mistake (`SlashedUnclamped`, `OnceForgetsInflight`,
`NextCursorSkips`...) stand next to the one they would replace.  They are what the
properties are tested against: with any of them in place TLC finds the property
violated.

## 3. Runs

| run | question | bounds |
|---|---|---|
| `router` | do the accounting of exposure, escrow, bonds and faults and the challenge window hold; does the router implement the book, and follow `RequestChain`? | 1 agent, 2 requests, 2 bond amounts, bronze or gold, 2 scores, clock to 6 |
| `registry` | do the registry's promises hold whatever the router does? | 2 agents, 3 keys (interchangeable: symmetry), bonds 1 or 2 |
| `governance` | and when the owner moves windows, bonds and limits under a live request, which ends all the same? | 1 agent, 1 request, 2 parameter sets, 2 limit sets |
| `reports` | what can one consumer, governance, and time, do to scores? | 2 agents, 1 consumer, 3 reports or faults, 3 parameter sets, clock to 6 |
| `deployment` | what is armed, wired and believed when the script dies, defers or succeeds, and afterwards? | 2 timelocked contracts, 2 addresses, 2 publishers, 3 events, delay 1, grace 0, clock to 3 |
| `watchtower` | does the watchtower end what everybody else leaves open, and lose nothing but races? | 1 request that lives at most 5 blocks, lookback 7, a node 1 block behind, 2 attempts, 1 crash |
| `agent` | can the agent's bookkeeping alone cost it a fault, or answer twice? | 1 request, order and challenge, each handled twice at once, 2 attempts, 1 crash, a node 1 block behind |
| `alerts` | are alerts lost, repeated or starved? | 2 subscriptions, 1 or 2 daemons, 1 or 2 blocks, nodes 1 block behind, 1 kill or failed statement, 2 failures disable, batch of 1; eight uses, below |
| `arena` | are budget, jobs and rows kept through lost answers and crashes, and closed in the end? | 1 agent, 2 jobs, budget of 1 or 2, 1 failure or crash, a node 1 block behind |
| `explorer` | is what the page shows of that page, exact, and in the end up to date? | 2 networks, 2 requests of 2 agents, 5 transactions, windows of 2, one switch of page, 1 failure |
| `exit_ahead`, `late_flag` | two things the comments and docs say and the code does not do | smallest instance showing it |

Wherever the clock or the callers stop at a bound, the run sets
`CHECK_DEADLOCK FALSE`: once every request has ended nothing has to happen.

The two disagreements:

* `exit_ahead`: an agent can exit ahead of the settlement of a live request,
  after a slash has eaten what it left behind (`AgentRegistry.sol:261`, against the
  comment at 38-39).
* `late_flag`: the arena takes `finalizeAt` for the time of delivery
  (`arena/index.js:384`).  Below Gold that is the end of the challenge window, so a
  delivery inside its deadline is recorded as `slaBreached`, and the report lowers
  the agent's score.

Seen while reading, and not runs:

* a challenge answered with somebody else's proof leaves the request attributed
  to the agent (`ExecutionRouter.sol:520`, against the comment at 415);
* linear interpolation is further than "a basis point" from the curve
  (`ScoreMath.sol:16`);
* notice and unbonding are both 21 days, so an agent with a request outstanding
  that starts to leave at the announcement is free no earlier than the rewiring
  (`Utils.sol:94`, `AgentRegistry.sol:121`);
* a request in flight when the registry's router is replaced can no longer be
  expired, so its exposure is never released (`AgentRegistry.sol:127` and 304);
* `reject` is a fourth place where exposure is released (`AgentRegistry.sol:291`
  names three); `setParameters` bounds settlement and escalation but not the challenge
  window (`AgentRegistry.sol:300`); a report of no weight restarts the linear stretch
  of decay (`ReputationEngine.sol:262`); two reports of half a budget move a score
  36% of the way, not a third (`ReputationEngine.sol:48`); an action executed during
  the bootstrap keeps its queue entry and can be executed once more (`Utils.sol:152`);
* `STATUS_ORDER` (`activity.ts:170`), `STATUS_NAMES` (`execution.ts:32`), the arena's
  `TERMINAL` (`arena/index.js:60`) and the consumer's list (`consumer.js:186`) all lack
  `Rejected`: a declined request is shown as pending, waited for, and its agent not
  hired again, for ever;
* with no publisher listed, the default quorum of 1 leaves nothing deliverable; a
  `PUBLISHER_QUORUM` above the number of publishers stops `deploy.js` before any
  timelock is armed (449);
* the claim of an alert matches any row that is not delivered, so two daemons that
  picked the same row both post it (`alerts.js:327`, against the comment at 307-309):
  `PostedAgainForACause` is therefore of each daemon;
* the head and the logs up to it are two reads, which two nodes may answer
  (`alerts.js:173` and 193): the cursor then passes events nobody has seen.  And a
  sweep by a node that is behind shows a score from before the last sweep, after
  which the same fall is announced again, under the key of another block
  (`alerts.js:258`, 288); so do two daemons, against `alerts.js:286-287` and
  `001_alerts.sql:104-108`, if they read different heights;
* a range of logs that the node refuses makes the pass throw, and the next pass asks
  for it again, for ever (`alerts.js:443`); the warning says "missed, not retried"
  (420-421).  Alerts that are queued wait meanwhile, because every pass ends before
  it sends them;
* the events between a subscription and the next select are skipped
  (`alerts.js:441`), where the comment at 451-452 has it that a subscription "is about
  what happens next".

Hazards of the code with no property, beside those: the circuit is read live at
challenge time, so that a model de-registered meanwhile leaves the agent no answer
(`ExecutionRouter.sol:487`; the behaviour is in `router`, but no promise to check it
against); `challengeBondAmount` is recorded in 128 bits (`ExecutionRouter.sol:256`;
`setParameters` refuses more); publishers removed below the quorum
(`InputAttestor.sol:35`; reached in `deployment`, no comment says otherwise); a bundle
that cannot be fetched is declined like a wrong one, on purpose (`agent.js:115`);
order and settle loop as two processes on one ledger file, where the later write
wins (`ledger.js:53`); the fee floor read twice (`arena/index.js:150`); the wallet
session and the pages' refresh of balances (`wallet.tsx:149`, `ExecutionActions.tsx:139`).

### Why the bounds suffice

Requests interact only through their agent's record and the common escrow, so two
of them show every pairwise interleaving; with `UnbondingPeriod` 4, challenge 2,
escalation 1 and settlement 2 every ordering of the deadlines is reached before
the clock stops at 6, on both sides of each comparison.  Amounts are small, but
chosen so that every percentage taken is positive: a slash, a toll and a fee floor
really move something.  Two parameter sets per setter are enough for `governance`
because only the relation between the value at collection and at refund, and
between the window at creation and at rejection, matters.

In `reports` the half-life is four instants or two, so spending meets every phase
of the interpolation and its step at a whole half-life; three reports of up to
twelve are more than any budget.  `FaultNeverPays` needs the haircuts to outweigh
what restarting the interpolation is worth, at most an eighth of the distance
from neutral: the run has the deployed ones (15% and 60%), the proof needs a tenth,
and a `setParameters` with a haircut of nothing would break it.

In `deployment` one setting is the deployer's own, with a Gold deployment, two
publishers and their quorum; the other is for another owner, whose quorum its one
publisher cannot reach.  Delay and grace differ, and the clock passes both.

One request is enough for `watchtower` and `agent`: neither program relates one
request to another, except in the cursor, which a request made in any block
relates to.  A lookback of seven is longer than a request of that configuration lives; with a
shorter one `NothingForgotten` is false.  The deployed lookback of 5000 blocks, about
an hour, does not cover a request with seven days to settle: the run and the proof
assume that hazard away, they do not catch it.  One block of lag, one lost
answer on each attempt and one restart are the smallest that each take part in a
failure; two handlers per key are what an event received twice needs.

In `alerts` a behaviour is one of eight uses of the service (`MCAlerts`), because all
at once are too many states.  To faults: two copies of a POST race for the nonce
while a DELETE comes anywhere in the pass; one daemon with a kill or an error over
two blocks, while the subscription is dropped and made again; two daemons and an
endpoint that may fail for ever; two daemons and a failure between any two
statements.  To scores: one daemon with a failure over two blocks, so that the score
may fall, rise and fall; one whose subscription is dropped; two daemons.  And both
kinds together, where a batch of one makes a dead endpoint stand before another
alert.  Every use has nodes a block behind.  Two failures disable a subscription, so
one is counted, posted again and reset by a success.  In `arena` the
two jobs are of one agent, so that `OneOpenJob` is about the same one; the
challenge window is zero to let a job be held and settled before the bound, and
one in `late_flag`, where it matters.  In `explorer` a request may go through all its events, loose and
own, across two windows of logs; a second network and a second agent are the
smallest to be confused with.

## 4. Fairness

`EveryRequestEnds` assumes that time passes and that for every request somebody
eventually makes an enforcement call that stays possible: `markExpired`,
`finalize`, `slashUnresolvedChallenge` and `settleDefault` may be called by any
address.  Nothing is assumed of consumers, operators and challengers.

`EndsUnlessMisread` shows where that call comes from: blocks are built and no
node stays behind for ever, the watchtower is restarted when it died, its loop
goes on, and no await fails every time (weak fairness of `Start`, `Scan` and the
loop, strong fairness of `Attend` for each request and of a transaction being
mined, since failures in between may disable both again and again).  Requests a
lagging node hid from it are excepted.  `retry` in `util.js` and the `try` around
each request are what justify the rest.

`JobsEnd` assumes that an await ends, with or without success: reads and `fetch` time
out, but `tx.wait` has no timeout of its own (`agent.js:160`), so that a transaction
which was sent is in the end mined or fails is assumed of the chain.  `QueueDrains` assumes that the daemon is run again after each of at
most `MaxCuts` interruptions, and nothing of the endpoints, which may refuse or time
out for ever; nodes do not fail for ever.  `JobsCloseUnlessRejected` assumes blocks, the settle
loop, and a watchtower, the arena's own "hard dependency".  `CatchesUp` assumes
that reads are answered or time out and that timers fire.

## 5. Proofs

All theorems are for every value of the constants that satisfies the named
assumptions of the modules: any number of agents, requests, consumers, keys and
contracts, all amounts, windows and delays.  All twenty-six invariants of the
passing runs and all eight of their action properties and refinements are proved so,
under the hypotheses named here.  Few are inductive as they stand: each paragraph
says what had to be carried along.

**`ExecutionRouterProofs`, the registry** (under any router): `RegistryTypeCorrect`,
`VaultBacksBondsAlways`, `UnbondingWithinBondAlways`, `OperatorIndexAlwaysExact`,
`TierRatchetsAlways`.  The inductive invariant is `RegistryInv`.  The vault's type
cannot be shown on its own: `vault - amount` is a natural number only because the
vault covers the sum of the bonds and the amount is within one of them.  That it
still does after a registration needs `BlankUntilRegistered`.  The argument: every
call is a `MovesBond` step or leaves records and vault alone; `SumUpdate` then gives
the sum.

**`ExecutionRouterProofs`, the router** (with registry and counters): one
invariant, `RouterInv` (`RouterInvariance`): a request that was made belongs to a
registered agent, has a notional and holds a challenge bond only while challenged;
an agent's open notional is the sum over its live requests, the escrow is the sum of
what live requests and open challenges hold, and each counter is the number of its
endings.  `release`, `_slash` and the refunds subtract, so that again types and
accounts have to be carried together.  The argument: every call about a request is a
`MovesRequest` step, which changes one request's record and the totals by the
difference of what that request stands for in each; the lemmas about sums do the rest.
From it `AccountsAlwaysExact`, `EscrowAlwaysExact`, `EarlyExitNeverOwes`,
`BlownDeadlineAlwaysFaulted`, `SecondTierRiseAlwaysGold`, and the two step
simulations, `RouterImplementsBook` and `RouterFollowsRequestChain`.  Two need a
hypothesis on the parameters:

* `ChallengeAlwaysEndsInTime` (from `ChallengeInv`: windows are always those of one
  choice, a delivered request has room to escalate) assumes `ChallengeFits`: the longest challenge ends
  within the shortest settlement window.  `setParameters` does not check that; the
  deployed windows (an hour, six hours, seven days) satisfy it, and so do the runs'.
* `RouterFollowsRequestChain` assumes `WindowsStay`: `RequestChain` has its windows
  as constants.

**`DeploymentProofs`** (any environment, list, publishers and owners):
`CountAlways` (a decrement yields a natural number only because a publisher who is
removed was counted), `AcceptedAlways` (a strictly ascending sequence of signers is
injective, so its length counts publishers), `RewiringAlwaysAnnounced` (an entry of
the queue has a notice in the log that nothing has withdrawn since, nor used after the
bootstrap; an execution in the bootstrap leaves the entry, `Utils.sol:154`, which the
property excepts against the comment at 152),
`ArmedAlwaysSettled` and `ManifestAlwaysTrue` (`ListInv`: what is pending is of the
list, in its order, and as long as the owner only works it off, every call that was
sent has landed).  The last two rest on `WiringAssumption`: the list gives a slot one value.

**`ReputationProofs`**: `VoiceAlwaysPays`, `InfluenceAlwaysBounded`,
`TimeIsNeverMerit`, `NoFaultEverPays`.  `InfluenceInv` says of every earlier report since which the
terms stayed that the budget still stands for the weight granted from it on, less
what of the cap has faded (`StandsFor`): an interpolation inside a half-life loses
`elapsed / (2 halfLife)` of a value, at each report anew, and rounding goes the safe
way.  All four assume `PowersOfTwo` (`2 ^ 0` is one, `2 ^ n` is positive and doubles
with `n`): true arithmetic, which none of the provers has an axiom for.

`NoFaultEverPays` assumes `HaircutsOutweigh`: every haircut the owner may choose takes
a tenth at least.  What is inductive (`FaultInv`) compares the two scores at every
instant to come, not at the present one: a fault restates the score from which the
interpolation goes on.  Below neutral, beginning anew from a larger distance leaves
more of it (`RestartLeavesMore`); above, it leaves less of the distance than it would
without the fault, because the tenth of the whole score outweighs the sixteenth of the
distance that the restart is worth at most (`HaircutCovers`, `RestartLeavesLess`); and
an observation moves both scores the same part of the way (`ObserveInOrder`).  The
addition of exponents (`PowersAdd`) is proved with a least counterexample, because the
library's induction is out of reach.

Looking for these invariants showed that the property was false twice as first
stated.  Where governance changes the half-life, the new one restates every score that
is not being touched, so that a record with faults can gain on one without:
`blameless` therefore starts over with a new half-life.  And the roundings may favour
the agent with a fault by one basis point, which the run's instance is too small to
show: with a half-life of 4 a score of zero is 625 after one instant, a fault leaves
531 of it, and 28 instants later that is 4966 and would have been 4965 without.

**`RequestChainTheorems`**, for what runs over the chain: a request only moves
forward, and whichever node answers, the answer was true of some block and is what
the request became since (`ChainInv`, `Became`).

**`WatchtowerProofs`**: `OnlyRacesAreEverLost`: what is being sent is due, or the
request is past it (`SendInv`), although the loop's clock and its answers are of
different, older blocks.  `NothingIsForgotten` assumes `StartsReachBack`: at every
start the lookback (5000 blocks, or `START_BLOCK`) covers the oldest live request.
In the run it always does.

**`AgentRelayerProofs`**: `AnsweredAtMostOnce` from `AnswerInv` (where a job runs,
the request is at a status only the job answers); `DoneAlwaysAnswered` from
`DoneInv`; `FaultsHaveACause` from `ServedInv`: a request that waits, with nothing
gone wrong, is being served or its event comes with the next block, and its time has
not passed.  That needs `KnownInv` (no key is heard or done before its event),
`SealedInv` (what waits since an earlier block is as the newest sealed block has it,
so that its event is owed) and `OneHandler`.  Among the causes is `unread`, the reads
that are not retried.  `FaultsHaveACause` assumes `EscalationExists`: with an
escalation window of zero the answer to a challenge is late when its event arrives.  The router accepts zero; it deploys with six hours.

**`ArenaProofs`**: `SpendAlwaysHasACause`, `OneOpenJobAlways`, `ClosedAlwaysHasACause`
from one invariant, `ArenaInv` (`ArenaInvariance`).  It relates the ledger to what is
not in it yet: a transaction in flight or mined belongs to a job whose row comes later
or never, and that job is the order loop's (`RowsAreHired`, `PickedAreFree`: an agent
that was picked has no open job until its row is written, although the pick is several
awaits old by then).  The budget holds of open jobs and the one in flight together, up
to the jobs that were lost (`BudgetHolds`).  What the settle loop is about to record
was true of the chain (`SettlingIsRecorded`) and stays so (`ClosedForGood`): a request
only moves forward.

**`InterfaceProofs`, the alerts**: `SignatureAlwaysActsOnce` from `NonceInv` (a copy of
a request that writes has used up its nonce, and no two have);
all the others are for any number of daemons and any lag.  `CursorAlwaysPassesForACause`
from `ServiceInv`: a row of the queue has a subscription, serial numbers only grow,
and what a stored cursor, or one in a daemon's memory, has passed is queued, or its
subscription is gone, or it is recorded among the `missed` (`CursorInv`).
`PostedAgainAlwaysForACause` from `PostInv`: a daemon that picks a row again after
posting it has lost the answer or the record.  `CrossingAlwaysNotCondition` from
`CrossInv`: the crossings a daemon queued for a subscription, and the one it may be
about to queue, are no more than the sweeps that read a high score, because each
started from a state that was stored as high.

**`InterfaceProofs`, the explorer**: `RowsAreAlwaysOfThisPage` and
`WholeReadsAreAlwaysExact` from `PageInv`: the logs are histories of their requests, a
read belongs to one generation of the page and an older one is dropped, and what is
shown is the fold of a part of the logs, all of it up to the head if nothing was lost.

Each of these inductive invariants also holds of every state of its run's instance,
checked with TLC (`FaultInv` for the six instants to come).

Only model-checked: liveness (`EveryRequestEnds`, `EndsUnlessMisread`, `JobsEnd`,
`QueueDrains`, `JobsCloseUnlessRejected`, `CatchesUp`); the prover has no rule for
fairness.

## 6. Not modelled

* On chain: the split of what leaves (bounty, treasury, protocol cut), events and
  views; caller identities; digests, signatures and circuits; `ZkAdapter.provenBy`;
  reentrancy (guarded, and the tokens used have no hooks); integer widths
  (amounts stay far below 2^128).  The generated ABIs under `src/contracts/abi`
  are the contracts' interfaces as data.
* `deploy.js`: the deployment of the code and the capital values; the other
  scripts are a few calls made once by hand.
* Relayer: model evaluation, attestation, digests and market prices are pure
  computations on one input; of a graded job the models keep only that it could be
  graded and the late flag.  `consumer.js` and `publisher.js` are a poll loop for one request and a
  file server.  In `Alerts` one threshold and one source of events stand for
  several of each, and a node that has not a block gives none of its faults.  In `Arena` fees are counted in jobs, and the two
  loops run in one process, as `run()` starts them by default.
* Interface: pages, formatting and wallet session.  Pages show reads and send
  one transaction per click, which the contract models have as that party's call.
  Moving a page to another network or agent is one step with the effect that
  follows it, which React runs after the same render (`useChain.ts:106-113`): the rows
  of the page before are on the screen between the two.

Much the larger part of the repository's lines is of these kinds (generated ABIs,
pages, documentation, tests of single functions): the models cover the parts that
keep state and act on it.

## 7. Plan

1. `Arena` as two processes; the wallet session.
2. `ZkAdapter` (first presenter), composed with the router in place of
   `Attributions`.
3. The engine under the real router: `recordOutcome` with the weights `_settle`
   passes, in place of `record` and of arbitrary scores.
4. `RequestChain` refined by the router with its nodes, so that the off-chain
   properties are stated of both together.
5. Proofs of what 1 to 4 add; `NoFaultEverPays` with the least haircut for which it
   holds, between the tenth assumed and nothing.
