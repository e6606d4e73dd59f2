---------------------------- MODULE AgentRelayer ----------------------------
(***************************************************************************)
(* relayer/src/agent.js and util.js: the process that serves one agent,    *)
(* over RequestChain.  Events reach two handlers, live or (for orders) by  *)
(* the backfill of a start, possibly more than once; a Backlog runs at     *)
(* most one job per key, and a job is a sequence of awaits that may each   *)
(* fail.  A key is <<request, kind>>; every request is the agent's own.    *)
(* Nothing is persisted: a restart knows only what the chain tells it.     *)
(***************************************************************************)
EXTENDS RequestChain

CONSTANTS
    Lookback,                        \* blocks the backfill covers
    DeliverAttempts, RejectAttempts, \* of retry, for its two kinds of callers
    GoldDeployed,                    \* manifest.contracts.ZkAdapter
    Invocations,                     \* bound: handlers of one key running at once
    MaxCrashes                       \* bound

VARIABLES
    up, crashes,
    since,      \* first block the live listeners hear of
    backfill,   \* requests a start found and has not handed on
    heard,      \* keys whose event this process has handled
    stage,      \* of each job: where its handler awaits, and its attempt
    done,       \* Backlog.done
    cause,      \* history: of each request, what went wrong with serving it
    lost,       \* history: requests with a transaction whose answer was lost
    wasted      \* history: requests the process answered twice

workVars == <<since, backfill, heard, stage, done>>
history == <<cause, lost, wasted>>
vars == <<chainVars, up, crashes, workVars, history>>

Kinds == {"order", "challenge"}
Keys == Requests \X Kinds       \* of the Backlog
Jobs == Requests \X Kinds \X (1 .. Invocations)

Stages == {"none", "status", "inputs", "decline", "rejecting", "work", "delivering",
           "prove", "resolving"}
None == [at |-> "none", tries |-> 0]
At(s) == [at |-> s, tries |-> 0]

Causes == {"down", "late", "unread", "stale", "slow", "failed", "undeclinable",
           "exhausted", "unprovable"}

ASSUME RelayerAssumption ==
    /\ {Lookback, MaxCrashes} \subseteq Nat /\ GoldDeployed \in BOOLEAN
    /\ {DeliverAttempts, RejectAttempts, Invocations} \subseteq Nat \ {0}

Blame(r, why) == cause' = [cause EXCEPT ![r] = @ \cup {why}]

Running == {j \in Jobs : stage[j].at # "none"}

-----------------------------------------------------------------------------
(* Backlog.once *)

Key(j) == <<j[1], j[2]>>
Invoked(k, i, first) == [stage EXCEPT ![<<k[1], k[2], i>>] = At(first)]
RunningOf(k) == {j \in Running : Key(j) = k}

\* Mistake: a key that is running is run again.
OnceForgetsInflight(k, first) ==
    IF k \in done \/ Cardinality(RunningOf(k)) = Invocations THEN stage
    ELSE Invoked(k, Cardinality(RunningOf(k)) + 1, first)

Once(k, first) == IF k \in done \/ RunningOf(k) # {} THEN stage ELSE Invoked(k, 1, first)

Go(j, s) == stage' = [stage EXCEPT ![j] = At(s)] /\ UNCHANGED <<since, backfill, heard, done>>

\* The handler returned, whatever it did: the key is done.
Finish(j) ==
    /\ stage' = [stage EXCEPT ![j] = None]
    /\ done' = done \cup {Key(j)}
    /\ UNCHANGED <<since, backfill, heard>>

\* Mistake: the key is marked done in the `finally`.
ThrowDone(j) == Finish(j)

\* It threw: the key may be tried again, should anybody hand the event on again.
Throw(j) ==
    /\ stage' = [stage EXCEPT ![j] = None]
    /\ UNCHANGED <<since, backfill, heard, done>>

-----------------------------------------------------------------------------
(* Events *)

Ordered == RequestedIn(tip, since, tip.height)

Challenged == {r \in Requests :
    /\ tip.requests[r].status = "Challenged"
    /\ tip.requests[r].escalationDeadline - EscalationWindow >= since}

\* Events the process has been sent and not yet handled.
Owed == {k \in Keys : k \notin heard /\
           IF k[2] = "order" THEN k[1] \in Ordered \cup backfill ELSE k[1] \in Challenged}

handleRequest(r) ==
    LET k == <<r, "order">>
    IN  /\ up /\ r \in Ordered \cup backfill
        /\ heard' = heard \cup {k}
        /\ backfill' = backfill \ {r}
        /\ IF tip.requests[r].deliverBy <= now
           THEN stage' = stage /\ Blame(r, "late")
           ELSE stage' = Once(k, "status") /\ UNCHANGED cause
        /\ UNCHANGED <<chainVars, up, crashes, since, done, lost, wasted>>

\* Mistake: the defence shares the key of the delivery.
handleChallengeSharesKey(r) ==
    /\ up /\ r \in Challenged
    /\ heard' = heard \cup {<<r, "challenge">>}
    /\ \/ \E v \in Answers :
            /\ stage' = IF v.requests[r].status = "Challenged" /\ <<r, "order">> \notin done
                        THEN Once(<<r, "challenge">>, "inputs") ELSE stage
            /\ IF v.requests[r].status = requests[r].status THEN UNCHANGED cause
               ELSE Blame(r, "stale")
       \/ stage' = stage /\ Blame(r, "unread")
    /\ UNCHANGED <<chainVars, up, crashes, since, backfill, done, lost, wasted>>

\* The request is read before the key is claimed, and once: when the read throws,
\* the event is gone.
handleChallenge(r) ==
    LET k == <<r, "challenge">>
    IN  /\ up /\ r \in Challenged
        /\ heard' = heard \cup {k}
        /\ \/ \E v \in Answers :
                /\ stage' = IF v.requests[r].status = "Challenged" /\ GoldDeployed
                            THEN Once(k, "inputs") ELSE stage
                /\ cause' = [cause EXCEPT ![r] = @
                     \cup (IF v.requests[r].status = requests[r].status THEN {} ELSE {"stale"})
                     \cup (IF GoldDeployed THEN {} ELSE {"unprovable"})]
           \/ stage' = stage /\ Blame(r, "unread")
        /\ UNCHANGED <<chainVars, up, crashes, since, backfill, done, lost, wasted>>

-----------------------------------------------------------------------------
(* A job, await by await *)

\* This read is not retried either: it throws, and nobody hands the order on again.
ReadStatus(j) ==
    LET r == j[1]
    IN  /\ j[2] = "order" /\ stage[j].at = "status"
        /\ \/ \E v \in Answers :
                /\ IF v.requests[r].status = "Pending" THEN Go(j, "inputs") ELSE Finish(j)
                /\ IF v.requests[r].status = requests[r].status THEN UNCHANGED cause
                   ELSE Blame(r, "stale")
           \/ Throw(j) /\ Blame(r, "unread")
        /\ UNCHANGED <<chainVars, lost, wasted>>

\* fetchBundle, verify and open: they throw on inputs that are wrong and on
\* inputs that cannot be had; the code does not tell the two apart.
Inputs(j) ==
    /\ stage[j].at = "inputs"
    /\ \/ Go(j, "work") /\ UNCHANGED cause
       \/ IF j[2] = "order" THEN Go(j, "decline") /\ UNCHANGED cause
          ELSE Throw(j) /\ Blame(j[1], "failed")
    /\ UNCHANGED <<chainVars, lost, wasted>>

\* declineRequest never throws: too late, and it has nothing left to do.
Decline(j) ==
    LET r == j[1]
    IN  /\ j[2] = "order" /\ stage[j].at = "decline"
        /\ \/ /\ \E v \in Answers : v.height <= tip.requests[r].createdAt + RejectionWindow
              /\ Go(j, "rejecting") /\ UNCHANGED cause
           \/ Finish(j) /\ Blame(r, "undeclinable")
        /\ UNCHANGED <<chainVars, lost, wasted>>

\* Running the model, attesting at the agent's tier, or proving at Gold.
Work(j) ==
    /\ stage[j].at = "work"
    /\ \/ Go(j, IF j[2] = "order" THEN "delivering" ELSE "prove") /\ UNCHANGED cause
       \/ Throw(j) /\ Blame(j[1], "failed")
    /\ UNCHANGED <<chainVars, lost, wasted>>

\* An output that does not reproduce is not contested.
Prove(j) ==
    LET r == j[1]
    IN  /\ j[2] = "challenge" /\ stage[j].at = "prove"
        /\ \/ Go(j, "resolving") /\ UNCHANGED cause
           \/ Finish(j) /\ Blame(r, "unprovable")
           \/ Throw(j) /\ Blame(r, "failed")
        /\ UNCHANGED <<chainVars, lost, wasted>>

\* Mistake: the count of attempts starts over.
NextTriesForEver(j, attempts) == {(stage[j].tries + 1) % attempts}

\* The attempt that follows a transient failure, if one is left.
NextTries(j, attempts) == {stage[j].tries + 1} \cap 0 .. attempts - 1

CallOf(at) == CASE at = "delivering" -> "deliver" [] at = "rejecting" -> "reject"
                [] OTHER -> "resolveChallenge"

\* Where only the operator's earlier answer can have brought the request.
OwnDoing(call) ==
    IF call = "resolveChallenge" THEN {"Finalized", "Settled"}
    ELSE {"Delivered", "Challenged", "Finalized", "Settled", "Faulted", "Rejected"}

GiveUp(j) ==
    IF stage[j].at = "rejecting" THEN Finish(j) /\ Blame(j[1], "undeclinable")
    ELSE Throw(j) /\ Blame(j[1], "exhausted")

\* A transient failure.
Retry(j) ==
    LET next == NextTries(j, IF stage[j].at = "rejecting" THEN RejectAttempts
                             ELSE DeliverAttempts)
    IN  \/ \E n \in next : /\ stage' = [stage EXCEPT ![j].tries = n]
                          /\ UNCHANGED <<since, backfill, heard, done, cause>>
        \/ next = {} /\ GiveUp(j)

\* retry around a transaction, and the wait for its receipt.  A refusal is final;
\* any other error is worth another attempt, also when the transaction was mined
\* and only the answer was lost.
Send(j) ==
    LET r == j[1]
        call == CallOf(stage[j].at)
    IN  /\ stage[j].at \in {"delivering", "rejecting", "resolving"}
        /\ \/ Mined(call, r) /\ Finish(j) /\ UNCHANGED history
           \/ Mined(call, r) /\ Retry(j) /\ lost' = lost \cup {r} /\ UNCHANGED wasted
           \/ Requires(call, r) /\ Retry(j) /\ UNCHANGED <<chainVars, lost, wasted>>
           \/ /\ Reverts(call, r)
              /\ GiveUp(j)
              /\ wasted' = IF requests[r].status \in OwnDoing(call)
                              /\ r \notin lost /\ "stale" \notin cause[r]
                           THEN wasted \cup {r} ELSE wasted
              /\ UNCHANGED lost

Step(j) ==
    /\ up
    /\ ReadStatus(j) \/ Inputs(j) \/ Decline(j) \/ Work(j) \/ Prove(j) \/ Send(j)
    /\ UNCHANGED <<up, crashes>>

-----------------------------------------------------------------------------
(* The process, and the world around it *)

\* The listeners are attached first, then the head is read for the backfill:
\* orders only, not challenges.
Start ==
    /\ ~up
    /\ up' = TRUE
    /\ \E on \in Answers, v \in Answers :
         LET from == IF v.height > Lookback THEN v.height - Lookback ELSE 0
         IN  /\ since' = on.height + 1
             /\ backfill' = RequestedIn(v, from, v.height)
             /\ cause' = [r \in Requests |->
                  IF r \in RequestedIn(tip, v.height + 1, on.height)
                  THEN cause[r] \cup {"stale"} ELSE cause[r]]
    /\ UNCHANGED <<chainVars, crashes, heard, stage, done, lost, wasted>>

Crash ==
    /\ up /\ crashes < MaxCrashes
    /\ up' = FALSE /\ crashes' = crashes + 1
    /\ since' = 0 /\ backfill' = {} /\ heard' = {} /\ done' = {}
    /\ stage' = [j \in Jobs |-> None]
    /\ cause' = [r \in Requests |-> IF requests[r].status \in Live
                                    THEN cause[r] \cup {"down"} ELSE cause[r]]
    /\ UNCHANGED <<chainVars, lost, wasted>>

\* What others do to the request: nobody but the operator answers it.  A request
\* made, or challenged, while the process is down may be missed for it.
World ==
    /\ \E r \in Requests :
         \/ (requestExecution(r) \/ challenge(r))
              /\ IF up THEN UNCHANGED cause ELSE Blame(r, "down")
         \/ \E call \in Calls \ {"deliver", "reject", "resolveChallenge"} :
              Mined(call, r) /\ UNCHANGED cause
    /\ UNCHANGED <<up, crashes, workVars, lost, wasted>>

\* Polling for logs is quicker than blocks; the rest of the work need not be: a
\* job still running at its deadline was too slow.
Overrun(t) == {r \in Requests :
    \/ RunningOf(<<r, "order">>) # {} /\ requests[r].deliverBy < t
    \/ RunningOf(<<r, "challenge">>) # {} /\ requests[r].escalationDeadline < t}

Clock ==
    /\ up => Owed = {}
    /\ Seal
    /\ cause' = [r \in Requests |-> IF r \in Overrun(now') THEN cause[r] \cup {"slow"}
                                    ELSE cause[r]]
    /\ UNCHANGED <<up, crashes, workVars, lost, wasted>>

Init ==
    /\ ChainInit
    /\ up = FALSE /\ crashes = 0
    /\ since = 0 /\ backfill = {} /\ heard = {} /\ done = {}
    /\ stage = [j \in Jobs |-> None]
    /\ cause = [r \in Requests |-> {}] /\ lost = {} /\ wasted = {}

Next ==
    \/ World \/ Clock \/ Start \/ Crash
    \/ \E r \in Requests : (handleRequest(r) \/ handleChallenge(r))
    \/ \E j \in Jobs : Step(j)

Spec == Init /\ [][Next]_vars

\* An await ends, one way or the other (ethers and fetch time out).
FairSpec == Spec /\ \A j \in Jobs : WF_vars(Step(j))

-----------------------------------------------------------------------------

TypeOK ==
    /\ ChainTypeOK
    /\ up \in BOOLEAN /\ crashes \in 0 .. MaxCrashes
    /\ since \in Nat
    /\ backfill \subseteq Requests /\ heard \subseteq Keys /\ done \subseteq Keys
    /\ stage \in [Jobs -> [at : Stages, tries : Nat]]
    /\ \A j \in Jobs :
         stage[j].tries < (IF stage[j].at = "rejecting" THEN RejectAttempts ELSE DeliverAttempts)
    /\ cause \in [Requests -> SUBSET Causes]
    /\ lost \subseteq Requests /\ wasted \subseteq Requests

\* A request that ends in a fault, for a delivery that never came or a challenge
\* nobody answered, ends so for a reason the process could name: it was down, the
\* order came late or the work was too slow, every attempt failed, the inputs or the
\* proof could not be had, or one of the two reads that are made once (agent.js:101
\* and 169) failed or was answered for an older block, which drops the order or the
\* challenge for good.  The handlers' bookkeeping alone never drops one.
FaultHasACause ==
    /\ TypeOK
    /\ \A r \in Requests : requests[r].status \in {"Expired", "Faulted"} => cause[r] # {}

\* The Backlog marks an order done only when the request is answered on chain, or
\* was given up on: it could not be declined in time, or an old block was read.
DoneIsAnswered ==
    \A r \in Requests :
      <<r, "order">> \in done /\ requests[r].status = "Pending"
      => cause[r] \cap {"undeclinable", "stale"} # {}

\* However often an event arrives (live, backfill, reorg), the process answers it
\* once: it sends no transaction that reverts on its own earlier success, except
\* when it could not know of that success.
AnsweredOnce == wasted = {}

\* Retries are bounded: a job that has begun ends.
JobsEnd == \A j \in Jobs : (j \in Running) ~> (j \notin Running)

=============================================================================
