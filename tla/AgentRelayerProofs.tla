------------------------- MODULE AgentRelayerProofs -------------------------
(***************************************************************************)
(* For every set of requests, all windows, lags, retries and any number of *)
(* crashes: the agent's bookkeeping drops no request, marks none done that *)
(* waits for it, and answers none twice.                                   *)
(***************************************************************************)
EXTENDS AgentRelayer, RequestChainTheorems

\* The status that waits for a job of the kind, since when, and until when.
WaitsAt(kind) == IF kind = "order" THEN "Pending" ELSE "Challenged"
Waits(r, kind) == requests[r].status = WaitsAt(kind)
WaitsSince(r, kind) == IF kind = "order" THEN requests[r].createdAt
                       ELSE requests[r].escalationDeadline - EscalationWindow
WaitsUntil(r, kind) == IF kind = "order" THEN requests[r].deliverBy
                       ELSE requests[r].escalationDeadline

StagesOf(kind) ==
    IF kind = "order"
    THEN {"none", "status", "inputs", "decline", "rejecting", "work", "delivering"}
    ELSE {"none", "inputs", "work", "prove", "resolving"}

Attempts(at) == IF at = "rejecting" THEN RejectAttempts ELSE DeliverAttempts

\* Where a job of the kind may be.
JobState(kind) ==
    {s \in [at : StagesOf(kind), tries : Nat] : s.tries < Attempts(s.at)}

WorkType ==
    /\ up \in BOOLEAN /\ crashes \in 0 .. MaxCrashes
    /\ since \in Nat /\ since <= now
    /\ backfill \subseteq Requests /\ heard \subseteq Keys /\ done \subseteq Keys
    /\ stage \in [Jobs -> [at : Stages, tries : Nat]]
    /\ \A j \in Jobs : stage[j] \in JobState(j[2])
    /\ cause \in [Requests -> SUBSET Causes]
    /\ lost \subseteq Requests /\ wasted \subseteq Requests

\* The Backlog runs one handler of a key, and only the first.
OneHandler == \A j \in Jobs : stage[j].at # "none" => j[3] = 1

\* No key is known before its event.
KnownInv ==
    \A r \in Requests :
      /\ r \in backfill => 1 <= Rank(requests[r].status)
      /\ \A kind \in Kinds :
           <<r, kind>> \in heard \cup done \/ stage[<<r, kind, 1>>].at # "none"
           => Rank(WaitsAt(kind)) <= Rank(requests[r].status)

\* What waits since an earlier block is as the newest sealed block has it.
SealedInv ==
    \A r \in Requests, kind \in Kinds : Waits(r, kind) =>
      /\ WaitsSince(r, kind) \in Nat /\ WaitsSince(r, kind) <= now
      /\ WaitsSince(r, kind) < WaitsUntil(r, kind)
      /\ WaitsSince(r, kind) < now => tip.requests[r] = requests[r]

\* Why a handler that returns may leave its request waiting.
GaveUp(kind) == IF kind = "order" THEN {"undeclinable", "stale"} ELSE Causes

DoneInv ==
    \A r \in Requests, kind \in Kinds :
      <<r, kind>> \in done /\ Waits(r, kind) => cause[r] \cap GaveUp(kind) # {}

\* A request that waits, with nothing gone wrong, is being served, or its event
\* comes with the next block at the latest; and its time has not passed.
ServedInv ==
    \A r \in Requests, kind \in Kinds : Waits(r, kind) /\ cause[r] = {} =>
      /\ up /\ since <= WaitsSince(r, kind) /\ now <= WaitsUntil(r, kind)
      /\ IF <<r, kind>> \in heard THEN stage[<<r, kind, 1>>].at # "none"
         ELSE now <= WaitsSince(r, kind) + 1

\* Where a job runs, nobody but the job has answered, or it may not know.
AnswersFrom(kind, at) ==
    IF kind = "challenge" THEN {"Challenged", "Faulted"}
    ELSE IF at = "status" THEN Status ELSE {"Pending", "Expired"}

AnswerInv ==
    \A j \in Jobs : stage[j].at # "none" /\ j[1] \notin lost /\ "stale" \notin cause[j[1]]
      => requests[j[1]].status \in AnswersFrom(j[2], stage[j].at)

FaultInv ==
    \A r \in Requests : requests[r].status \in {"Expired", "Faulted"} => cause[r] # {}

BookInv == ChainInv /\ WorkType /\ OneHandler /\ KnownInv

-----------------------------------------------------------------------------
(* The chain under the agent *)

LEMMA MinedFrom ==
    ASSUME ChainInv, NEW r \in Requests, NEW call \in Calls, Mined(call, r)
    PROVE  /\ call \in {"deliver", "reject", "markExpired"} => requests[r].status = "Pending"
           /\ call \in {"resolveChallenge", "slashUnresolvedChallenge"}
                => requests[r].status = "Challenged"
           /\ call = "finalize" => requests[r].status = "Delivered"
           /\ call \in {"settle", "settleDefault"} => requests[r].status = "Finalized"
           /\ call = "markExpired" => now > requests[r].deliverBy
           /\ call = "slashUnresolvedChallenge" => now > requests[r].escalationDeadline
BY DEF Mined, Requires

LEMMA MinedTo ==
    ASSUME ChainInv, NEW r \in Requests, NEW call \in Calls, Mined(call, r)
    PROVE  /\ requests'[r].status \in {"Delivered", "Finalized", "Settled", "Expired",
                                       "Faulted", "Rejected"}
           /\ requests'[r].status = "Expired" <=> call = "markExpired"
           /\ requests'[r].status = "Faulted" <=> call = "slashUnresolvedChallenge"
<1>1. PICK q : q \in Writes(call, requests[r]) /\ requests' = [requests EXCEPT ![r] = q]
  BY DEF Mined
<1>2. PICK p \in Request : p = requests[r]
  BY DEF ChainInv, ChainTypeOK
<1>3. requests'[r] = q
  BY <1>1 DEF ChainInv, ChainTypeOK
<1>4. CASE call = "deliver"
  <2>1. PICK outright : q = [p EXCEPT !.status = IF outright THEN "Finalized" ELSE "Delivered",
                    !.finalizeAt = IF outright THEN now ELSE now + ChallengeWindow,
                    !.settleBy = now + SettlementWindow]
    BY <1>1, <1>2, <1>4 DEF Writes
  <2>2. PICK status, at, by : /\ status = (IF outright THEN "Finalized" ELSE "Delivered")
                              /\ at = (IF outright THEN now ELSE now + ChallengeWindow)
                              /\ by = now + SettlementWindow
    OBVIOUS
  <2>3. q = [p EXCEPT !.status = status, !.finalizeAt = at, !.settleBy = by]
    BY <2>1, <2>2, Zenon
  <2>4. q.status = status
    BY <1>2, <2>3 DEF Request
  <2> QED
    BY <1>3, <1>4, <2>2, <2>4
<1>5. CASE call # "deliver"
  BY <1>1, <1>2, <1>3, <1>5 DEF Writes, Calls, Request
<1> QED
  BY <1>4, <1>5

\* A request that waits was waiting as it is, or begins to in the block being built.
LEMMA BeginsToWait ==
    ASSUME ChainInv, ChainStep,
           NEW r \in Requests, NEW kind \in Kinds, Waits(r, kind)'
    PROVE  \/ requests'[r] = requests[r]
           \/ /\ Rank(requests[r].status) < Rank(WaitsAt(kind))
              /\ WaitsSince(r, kind)' = now
              /\ EscalationWindow # 0 => now < WaitsUntil(r, kind)'
              /\ \/ requestExecution(r) \/ challenge(r)
<1>1. requests \in [Requests -> Request] /\ now \in Nat
  BY DEF ChainInv, ChainTypeOK
<1>2. ASSUME NEW s \in Requests, NEW call \in Calls, Mined(call, s) PROVE requests'[r] = requests[r]
  <2>1. CASE s = r
    BY <1>2, <2>1, MinedTo DEF Waits, WaitsAt
  <2>2. CASE s # r
    BY <1>2, <2>2, MinedMoves
  <2> QED
    BY <2>1, <2>2
<1>3. ASSUME requestExecution(r)
      PROVE  /\ Rank(requests[r].status) < Rank(WaitsAt(kind))
             /\ WaitsSince(r, kind)' = now /\ now < WaitsUntil(r, kind)'
  <2>1. PICK window \in DeliverWindows :
          requests' = [requests EXCEPT ![r] = [NoRequest EXCEPT
             !.status = "Pending", !.createdAt = now, !.deliverBy = now + window]]
    BY <1>3 DEF requestExecution
  <2>2. PICK by \in Nat : by = now + window /\ now < by
    BY <1>1, WindowsAssumption
  <2>3. PICK q : q = [NoRequest EXCEPT !.status = "Pending", !.createdAt = now, !.deliverBy = by]
    OBVIOUS
  <2>4. q.status = "Pending" /\ q.createdAt = now /\ q.deliverBy = by
    BY <2>3 DEF NoRequest
  <2>5. requests'[r] = q /\ requests[r].status = "None"
    BY <1>1, <1>3, <2>1, <2>2, <2>3 DEF requestExecution
  <2>6. kind = "order"
    BY <2>4, <2>5 DEF Waits, WaitsAt
  <2> QED
    BY <2>2, <2>4, <2>5, <2>6 DEF WaitsSince, WaitsUntil, WaitsAt, Rank
<1>4. ASSUME challenge(r)
      PROVE  /\ Rank(requests[r].status) < Rank(WaitsAt(kind))
             /\ WaitsSince(r, kind)' = now
             /\ EscalationWindow # 0 => now < WaitsUntil(r, kind)'
  <2>1. PICK p \in Request : p = requests[r]
    BY <1>1
  <2>2. PICK by \in Nat : by = now + EscalationWindow /\ (EscalationWindow # 0 => now < by)
                          /\ by - EscalationWindow = now
    BY <1>1, WindowsAssumption
  <2>3. PICK q : q = [p EXCEPT !.status = "Challenged", !.escalationDeadline = by]
    OBVIOUS
  <2>4. q.status = "Challenged" /\ q.escalationDeadline = by
    BY <2>1, <2>3 DEF Request
  <2>5. requests'[r] = q /\ requests[r].status = "Delivered"
    BY <1>1, <1>4, <2>1, <2>2, <2>3 DEF challenge
  <2>6. kind = "challenge"
    BY <2>4, <2>5 DEF Waits, WaitsAt, Kinds
  <2> QED
    BY <2>2, <2>4, <2>5, <2>6 DEF WaitsSince, WaitsUntil, WaitsAt, Rank
<1>5. ASSUME NEW s \in Requests, s # r, requestExecution(s) \/ challenge(s)
      PROVE  requests'[r] = requests[r]
  BY <1>1, <1>5 DEF requestExecution, challenge
<1>6. CASE UNCHANGED requests
  BY <1>6
<1> QED
  BY <1>2, <1>3, <1>4, <1>5, <1>6 DEF ChainStep, Seal, chainVars

-----------------------------------------------------------------------------
(* The Backlog *)

LEMMA JobIs ==
    /\ \A j \in Jobs : /\ j[1] \in Requests /\ j[2] \in Kinds /\ j[3] \in 1 .. Invocations
                       /\ j = <<j[1], j[2], j[3]>> /\ Key(j) = <<j[1], j[2]>>
    /\ \A r \in Requests, kind \in Kinds : <<r, kind, 1>> \in Jobs /\ <<r, kind>> \in Keys
<1>1. 1 \in 1 .. Invocations
  BY RelayerAssumption
<1> QED
  BY <1>1 DEF Jobs, Keys, Key

\* A key runs exactly when its first handler does.
LEMMA InFlight ==
    ASSUME OneHandler, NEW r \in Requests, NEW kind \in Kinds
    PROVE  (RunningOf(<<r, kind>>) # {}) <=> (stage[<<r, kind, 1>>].at # "none")
<1>1. ASSUME NEW j \in RunningOf(<<r, kind>>) PROVE stage[<<r, kind, 1>>].at # "none"
  <2>1. j \in Jobs /\ stage[j].at # "none" /\ Key(j) = <<r, kind>>
    BY <1>1 DEF RunningOf, Running
  <2>2. j[3] = 1
    BY <2>1 DEF OneHandler
  <2>3. j[1] = r /\ j[2] = kind
    BY <2>1 DEF Key
  <2>4. j = <<r, kind, 1>>
    BY <2>1, <2>2, <2>3, JobIs
  <2> QED
    BY <2>1, <2>4
<1>2. ASSUME stage[<<r, kind, 1>>].at # "none" PROVE <<r, kind, 1>> \in RunningOf(<<r, kind>>)
  <2>1. Key(<<r, kind, 1>>) = <<r, kind>>
    BY DEF Key
  <2> QED
    BY <1>2, <2>1, JobIs DEF RunningOf, Running
<1> QED
  BY <1>1, <1>2

LEMMA FreshJob ==
    ASSUME NEW kind \in Kinds, NEW at \in StagesOf(kind)
    PROVE  /\ At(at) \in JobState(kind) /\ At(at).at = at
           /\ At(at) \in [at : Stages, tries : Nat]
           /\ None \in JobState(kind) /\ None.at = "none" /\ None \in [at : Stages, tries : Nat]
<1>1. StagesOf(kind) \subseteq Stages /\ "none" \in StagesOf(kind)
  BY DEF StagesOf, Stages
<1>2. \A s \in StagesOf(kind) : 0 < Attempts(s)
  BY RelayerAssumption DEF Attempts
<1> QED
  BY <1>1, <1>2 DEF At, None, JobState

LEMMA JobStateType ==
    ASSUME NEW kind \in Kinds, NEW s \in JobState(kind)
    PROVE  /\ s.at \in StagesOf(kind) /\ s.tries \in Nat /\ s.tries < Attempts(s.at)
           /\ s \in [at : Stages, tries : Nat]
BY DEF JobState, StagesOf, Stages

\* Of a key that does not run and is not done, Once runs the first handler.
LEMMA OnceRuns ==
    ASSUME OneHandler, WorkType, NEW r \in Requests, NEW kind \in Kinds,
           NEW first \in StagesOf(kind), first # "none",
           NEW next, next = Once(<<r, kind>>, first)
    PROVE  /\ next \in [Jobs -> [at : Stages, tries : Nat]]
           /\ \A j \in Jobs : next[j] \in JobState(j[2])
           /\ \A j \in Jobs : next[j].at # "none" => j[3] = 1
           /\ \A j \in Jobs : next[j] = stage[j] \/ (j = <<r, kind, 1>> /\ next[j].at = first)
           /\ <<r, kind>> \in done \/ next[<<r, kind, 1>>].at # "none"
<1>1. next = Once(<<r, kind>>, first)
  OBVIOUS
<1>2. PICK s : s = At(first) /\ s.at = first /\ s \in JobState(kind)
              /\ s \in [at : Stages, tries : Nat]
  BY FreshJob
<1>3. stage \in [Jobs -> [at : Stages, tries : Nat]]
      /\ \A j \in Jobs : stage[j] \in JobState(j[2])
  BY DEF WorkType
<1>4. CASE <<r, kind>> \in done \/ RunningOf(<<r, kind>>) # {}
  <2>1. next = stage
    BY <1>1, <1>4 DEF Once
  <2>2. <<r, kind>> \in done \/ stage[<<r, kind, 1>>].at # "none"
    BY <1>4, InFlight
  <2> QED
    BY <1>1, <1>3, <2>1, <2>2 DEF OneHandler
<1>5. CASE ~(<<r, kind>> \in done \/ RunningOf(<<r, kind>>) # {})
  <2>1. next = [stage EXCEPT ![<<r, kind, 1>>] = s]
    BY <1>1, <1>2, <1>5 DEF Once, Invoked
  <2>2. <<r, kind, 1>> \in Jobs /\ <<r, kind, 1>>[2] = kind /\ <<r, kind, 1>>[3] = 1
    BY JobIs
  <2>3. next[<<r, kind, 1>>] = s /\ \A j \in Jobs : j # <<r, kind, 1>> => next[j] = stage[j]
    BY <1>3, <2>1, <2>2
  <2>4. next \in [Jobs -> [at : Stages, tries : Nat]]
    BY <1>2, <1>3, <2>1
  <2>5. ASSUME NEW j \in Jobs
        PROVE  /\ next[j] \in JobState(j[2]) /\ (next[j].at # "none" => j[3] = 1)
               /\ next[j] = stage[j] \/ (j = <<r, kind, 1>> /\ next[j].at = first)
    <3>1. CASE j = <<r, kind, 1>>
      BY <1>2, <2>2, <2>3, <3>1
    <3>2. CASE j # <<r, kind, 1>>
      BY <1>3, <2>3, <3>2 DEF OneHandler
    <3> QED
      BY <3>1, <3>2
  <2>6. next[<<r, kind, 1>>].at # "none"
    BY <1>2, <2>3
  <2> QED
    BY <1>1, <2>4, <2>5, <2>6
<1> QED
  BY <1>4, <1>5

-----------------------------------------------------------------------------
(* A job's step *)

LEMMA CallsOf ==
    /\ \A at : CallOf(at) \in Calls
    /\ \A at : CallOf(at) \in {"deliver", "reject", "resolveChallenge"}
BY DEF CallOf, Calls

LEMMA NextMovesChain == [Next]_vars => ChainStep
<1> SUFFICES ASSUME [Next]_vars PROVE ChainStep
  OBVIOUS
<1>1. ASSUME NEW j \in Jobs, Step(j) PROVE ChainStep
  <2>1. CASE Send(j)
    BY <2>1, CallsOf, JobIs DEF Send, ChainStep, Reverts
  <2>2. CASE UNCHANGED chainVars
    BY <2>2 DEF ChainStep
  <2> QED
    BY <1>1, <2>1, <2>2 DEF Step, ReadStatus, Inputs, Decline, Work, Prove
<1>2. CASE World
  BY <1>2 DEF World, ChainStep
<1>3. CASE Clock
  BY <1>3 DEF Clock, ChainStep
<1>4. CASE UNCHANGED chainVars
  BY <1>4 DEF ChainStep
<1> QED
  BY <1>1, <1>2, <1>3, <1>4 DEF Next, Start, Crash, handleRequest, handleChallenge, vars

\* What a job may do with itself: go on to s, or return and, unless it threw, be done.
Goes(j, s) ==
    /\ s \in JobState(j[2])
    /\ stage' = [stage EXCEPT ![j] = s]
    /\ UNCHANGED <<since, backfill, heard>>
    /\ \/ done' = done
       \/ s.at = "none" /\ done' = done \cup {Key(j)}

LEMMA WaysOut ==
    ASSUME WorkType, NEW j \in Jobs
    PROVE  /\ \A at \in StagesOf(j[2]) : Go(j, at) => Goes(j, At(at)) /\ At(at).at = at /\ done' = done
           /\ Finish(j) => Goes(j, None) /\ None.at = "none"
           /\ Throw(j) => Goes(j, None) /\ None.at = "none" /\ done' = done
<1>1. j[2] \in Kinds
  BY JobIs
<1>2. \A at \in StagesOf(j[2]) : Go(j, at) => Goes(j, At(at)) /\ At(at).at = at /\ done' = done
  BY <1>1, FreshJob DEF Go, Goes
<1>3. "status" \in StagesOf("order") /\ "inputs" \in StagesOf("challenge")
  BY DEF StagesOf
<1>4. None \in JobState(j[2]) /\ None.at = "none"
  BY <1>1, <1>3, FreshJob DEF Kinds
<1> QED
  BY <1>2, <1>4 DEF Finish, Throw, Goes

LEMMA BlameAdds ==
    ASSUME WorkType, NEW r \in Requests, NEW why \in Causes, Blame(r, why)
    PROVE  /\ cause' \in [Requests -> SUBSET Causes]
           /\ \A s \in Requests : cause[s] \subseteq cause'[s]
           /\ why \in cause'[r]
           /\ \A s \in Requests : s # r => cause'[s] = cause[s]
BY DEF WorkType, Blame

\* After a transient failure the job is at the same stage, or has given up and said so.
LEMMA RetryGoes ==
    ASSUME WorkType, NEW j \in Jobs, Retry(j), stage[j].at \in {"delivering", "rejecting", "resolving"}
    PROVE  /\ \E s : Goes(j, s) /\ s.at \in {stage[j].at, "none"}
           /\ cause' \in [Requests -> SUBSET Causes]
           /\ \A r \in Requests : cause[r] \subseteq cause'[r]
           /\ \/ stage'[j].at = stage[j].at /\ UNCHANGED <<done, cause>>
              \/ /\ stage[j].at = "rejecting" => "undeclinable" \in cause'[j[1]]
                 /\ stage[j].at # "rejecting" => done' = done /\ "exhausted" \in cause'[j[1]]
<1>1. /\ j[1] \in Requests /\ j[2] \in Kinds
      /\ stage \in [Jobs -> [at : Stages, tries : Nat]] /\ stage[j] \in JobState(j[2])
      /\ cause \in [Requests -> SUBSET Causes]
  BY JobIs DEF WorkType
<1>2. PICK at, tries : /\ at = stage[j].at /\ tries = stage[j].tries /\ stage[j] = [at |-> at, tries |-> tries]
                       /\ at \in StagesOf(j[2]) /\ at \in Stages /\ tries \in Nat /\ tries < Attempts(at)
  BY <1>1 DEF JobState
<1>3. ASSUME NEW n \in NextTries(j, Attempts(at)),
             stage' = [stage EXCEPT ![j].tries = n], UNCHANGED <<since, backfill, heard, done, cause>>
      PROVE  /\ \E s : Goes(j, s) /\ s.at \in {stage[j].at, "none"}
             /\ stage'[j].at = stage[j].at /\ UNCHANGED <<done, cause>>
  <2>1. n \in 0 .. Attempts(at) - 1
    BY <1>3 DEF NextTries
  <2>2. n \in Nat /\ n < Attempts(at)
    BY <2>1, RelayerAssumption DEF Attempts
  <2>3. PICK s : s = [at |-> at, tries |-> n]
    OBVIOUS
  <2>4. s \in JobState(j[2]) /\ s.at = at
    BY <1>2, <2>2, <2>3 DEF JobState
  <2>5. stage' = [stage EXCEPT ![j] = s] /\ stage'[j] = s
    <3>1. [stage[j] EXCEPT !.tries = n] = s
      BY <1>2, <2>3
    <3>2. stage' = [stage EXCEPT ![j] = [stage[j] EXCEPT !.tries = n]]
      BY <1>3
    <3>3. stage' = [stage EXCEPT ![j] = s]
      BY <3>1, <3>2, Zenon
    <3> QED
      BY <1>1, <3>3
  <2> QED
    BY <1>2, <1>3, <2>4, <2>5 DEF Goes
<1>4. ASSUME GiveUp(j)
      PROVE  /\ \E s : Goes(j, s) /\ s.at \in {stage[j].at, "none"}
             /\ cause' \in [Requests -> SUBSET Causes]
             /\ \A r \in Requests : cause[r] \subseteq cause'[r]
             /\ stage[j].at = "rejecting" => "undeclinable" \in cause'[j[1]]
             /\ stage[j].at # "rejecting" => done' = done /\ "exhausted" \in cause'[j[1]]
  <2>1. CASE stage[j].at = "rejecting"
    <3>1. Finish(j) /\ Blame(j[1], "undeclinable") /\ "undeclinable" \in Causes
      BY <1>4, <2>1 DEF GiveUp, Causes
    <3> QED
      BY <1>1, <2>1, <3>1, WaysOut, BlameAdds
  <2>2. CASE stage[j].at # "rejecting"
    <3>1. Throw(j) /\ Blame(j[1], "exhausted") /\ "exhausted" \in Causes
      BY <1>4, <2>2 DEF GiveUp, Causes
    <3> QED
      BY <1>1, <2>2, <3>1, WaysOut, BlameAdds
  <2> QED
    BY <2>1, <2>2
<1>5. \/ \E n \in NextTries(j, Attempts(at)) :
           stage' = [stage EXCEPT ![j].tries = n] /\ UNCHANGED <<since, backfill, heard, done, cause>>
      \/ GiveUp(j)
  BY <1>2 DEF Retry, Attempts
<1>6. CASE GiveUp(j)
  BY <1>4, <1>6
<1>7. CASE ~GiveUp(j)
  <2>1. UNCHANGED cause
    BY <1>5, <1>7
  <2> QED
    BY <1>1, <1>3, <1>5, <1>7, <2>1
<1> QED
  BY <1>6, <1>7

\* A job acts on its own request and says why, if it leaves it waiting.
Serves(j) ==
    /\ UNCHANGED <<now, tip, behind, up, crashes>>
    /\ \E s : Goes(j, s)
    /\ cause' \in [Requests -> SUBSET Causes]
    /\ \A r \in Requests : cause[r] \subseteq cause'[r]
    /\ \/ stage'[j].at # "none" /\ done' = done
       \/ ~Waits(j[1], j[2])'
       \/ cause'[j[1]] \cap GaveUp(j[2]) # {}
       \/ cause'[j[1]] # {} /\ done' = done

LEMMA GoesTo ==
    ASSUME WorkType, NEW j \in Jobs, NEW s, Goes(j, s)
    PROVE  stage'[j] = s /\ (s.at # "none" => done' = done)
BY DEF WorkType, Goes

LEMMA Goes1 ==
    ASSUME WorkType, NEW j \in Jobs, NEW at \in StagesOf(j[2]), at # "none", Go(j, at)
    PROVE  (\E s : Goes(j, s)) /\ stage'[j].at # "none" /\ done' = done
<1>1. Goes(j, At(at)) /\ At(at).at = at /\ done' = done
  BY WaysOut
<1>2. stage'[j] = At(at)
  BY <1>1, GoesTo
<1> QED
  BY <1>1, <1>2

LEMMA StepServes ==
    ASSUME BookInv, NEW j \in Jobs, Step(j)
    PROVE  Serves(j) /\ up /\ stage[j].at # "none"
<1>1. /\ j[1] \in Requests /\ j[2] \in Kinds /\ WorkType /\ ChainInv
      /\ cause \in [Requests -> SUBSET Causes]
      /\ stage[j].at \in StagesOf(j[2])
  BY JobIs, JobStateType DEF BookInv, WorkType
<1>2. UNCHANGED cause => /\ cause' \in [Requests -> SUBSET Causes]
                         /\ \A r \in Requests : cause[r] \subseteq cause'[r]
  BY <1>1
<1>3. /\ "stale" \in Causes /\ "failed" \in Causes /\ "undeclinable" \in Causes
      /\ "unprovable" \in Causes /\ "unread" \in Causes
  BY DEF Causes
<1>4. ASSUME ReadStatus(j) PROVE Serves(j)
  <2>1. j[2] = "order" /\ stage[j].at = "status"
    BY <1>4 DEF ReadStatus
  <2>2. UNCHANGED <<now, tip, behind, up, crashes, requests>>
    BY <1>4 DEF ReadStatus, Step, chainVars
  <2>3. CASE Throw(j) /\ Blame(j[1], "unread")
    BY <1>1, <1>3, <2>2, <2>3, WaysOut, BlameAdds DEF Serves
  <2>4. CASE \E v \in Answers :
          /\ IF v.requests[j[1]].status = "Pending" THEN Go(j, "inputs") ELSE Finish(j)
          /\ IF v.requests[j[1]].status = requests[j[1]].status THEN UNCHANGED cause
             ELSE Blame(j[1], "stale")
    <3>1. PICK v \in Answers :
            /\ IF v.requests[j[1]].status = "Pending" THEN Go(j, "inputs") ELSE Finish(j)
            /\ IF v.requests[j[1]].status = requests[j[1]].status THEN UNCHANGED cause
               ELSE Blame(j[1], "stale")
      BY <2>4
    <3>2. /\ cause' \in [Requests -> SUBSET Causes]
          /\ \A r \in Requests : cause[r] \subseteq cause'[r]
          /\ \/ v.requests[j[1]].status = requests[j[1]].status
             \/ "stale" \in cause'[j[1]]
      BY <1>1, <1>2, <1>3, <3>1, BlameAdds
    <3>3. CASE v.requests[j[1]].status = "Pending"
      <4>1. "inputs" \in StagesOf(j[2])
        BY <2>1 DEF StagesOf
      <4> QED
        BY <1>1, <2>2, <3>1, <3>2, <3>3, <4>1, Goes1 DEF Serves
    <3>4. CASE v.requests[j[1]].status # "Pending"
      <4>1. (\E s : Goes(j, s))
        BY <1>1, <3>1, <3>4, WaysOut
      <4>2. ~Waits(j[1], j[2])' \/ cause'[j[1]] \cap GaveUp(j[2]) # {}
        <5>1. CASE v.requests[j[1]].status = requests[j[1]].status
          BY <2>1, <2>2, <3>4, <5>1 DEF Waits, WaitsAt
        <5>2. CASE "stale" \in cause'[j[1]]
          BY <2>1, <5>2 DEF GaveUp
        <5> QED
          BY <3>2, <5>1, <5>2
      <4> QED
        BY <2>2, <3>2, <4>1, <4>2 DEF Serves
    <3> QED
      BY <3>3, <3>4
  <2> QED
    BY <1>4, <2>3, <2>4 DEF ReadStatus
<1>5. ASSUME Inputs(j) PROVE Serves(j)
  <2>1. UNCHANGED <<now, tip, behind, up, crashes>>
    BY <1>5 DEF Inputs, Step, chainVars
  <2>2. "work" \in StagesOf(j[2]) /\ (j[2] = "order" => "decline" \in StagesOf(j[2]))
    BY DEF StagesOf
  <2>3. CASE (Go(j, "work") \/ (j[2] = "order" /\ Go(j, "decline"))) /\ UNCHANGED cause
    BY <1>1, <1>2, <2>1, <2>2, <2>3, Goes1 DEF Serves
  <2>4. CASE Throw(j) /\ Blame(j[1], "failed")
    BY <1>1, <1>3, <2>1, <2>4, WaysOut, BlameAdds DEF Serves
  <2>5. \/ Go(j, "work") /\ UNCHANGED cause
        \/ j[2] = "order" /\ Go(j, "decline") /\ UNCHANGED cause
        \/ Throw(j) /\ Blame(j[1], "failed")
    BY ONLY <1>5, Zenon DEF Inputs
  <2> QED
    BY <2>3, <2>4, <2>5
<1>6. ASSUME Decline(j) PROVE Serves(j)
  <2>1. UNCHANGED <<now, tip, behind, up, crashes>> /\ j[2] = "order"
    BY <1>6 DEF Decline, Step, chainVars
  <2>2. "rejecting" \in StagesOf(j[2])
    BY <2>1 DEF StagesOf
  <2>3. CASE Go(j, "rejecting") /\ UNCHANGED cause
    BY <1>1, <1>2, <2>1, <2>2, <2>3, Goes1 DEF Serves
  <2>4. CASE Finish(j) /\ Blame(j[1], "undeclinable")
    <3>1. cause'[j[1]] \cap GaveUp(j[2]) # {}
      BY <1>1, <1>3, <2>1, <2>4, BlameAdds DEF GaveUp
    <3> QED
      BY <1>1, <1>3, <2>1, <2>4, <3>1, WaysOut, BlameAdds DEF Serves
  <2> QED
    BY <1>6, <2>3, <2>4 DEF Decline
<1>7. ASSUME Work(j) PROVE Serves(j)
  <2>1. UNCHANGED <<now, tip, behind, up, crashes>>
    BY <1>7 DEF Work, Step, chainVars
  <2>2. j[2] = "order" => "delivering" \in StagesOf(j[2])
    BY DEF StagesOf
  <2>3. j[2] # "order" => "prove" \in StagesOf(j[2])
    BY DEF StagesOf
  <2>4. CASE Go(j, IF j[2] = "order" THEN "delivering" ELSE "prove") /\ UNCHANGED cause
    <3>1. CASE j[2] = "order"
      BY <1>1, <1>2, <2>1, <2>2, <2>4, <3>1, Goes1 DEF Serves
    <3>2. CASE j[2] # "order"
      BY <1>1, <1>2, <2>1, <2>3, <2>4, <3>2, Goes1 DEF Serves
    <3> QED
      BY <3>1, <3>2
  <2>5. CASE Throw(j) /\ Blame(j[1], "failed")
    BY <1>1, <1>3, <2>1, <2>5, WaysOut, BlameAdds DEF Serves
  <2> QED
    BY <1>7, <2>4, <2>5 DEF Work
<1>8. ASSUME Prove(j) PROVE Serves(j)
  <2>1. UNCHANGED <<now, tip, behind, up, crashes>> /\ j[2] = "challenge"
    BY <1>8 DEF Prove, Step, chainVars
  <2>2. "resolving" \in StagesOf(j[2])
    BY <2>1 DEF StagesOf
  <2>3. CASE Go(j, "resolving") /\ UNCHANGED cause
    BY <1>1, <1>2, <2>1, <2>2, <2>3, Goes1 DEF Serves
  <2>4. CASE Finish(j) /\ Blame(j[1], "unprovable")
    <3>1. cause'[j[1]] \cap GaveUp(j[2]) # {}
      BY <1>1, <1>3, <2>1, <2>4, BlameAdds DEF GaveUp
    <3> QED
      BY <1>1, <1>3, <2>1, <2>4, <3>1, WaysOut, BlameAdds DEF Serves
  <2>5. CASE Throw(j) /\ Blame(j[1], "failed")
    BY <1>1, <1>3, <2>1, <2>5, WaysOut, BlameAdds DEF Serves
  <2> QED
    BY <1>8, <2>3, <2>4, <2>5 DEF Prove
<1>9. ASSUME Send(j) PROVE Serves(j)
  <2>1. PICK call : call = CallOf(stage[j].at)
    OBVIOUS
  <2>2. call \in Calls /\ stage[j].at \in {"delivering", "rejecting", "resolving"}
    BY <1>9, <2>1, CallsOf DEF Send
  <2>3. \/ Mined(call, j[1]) /\ Finish(j) /\ UNCHANGED history
        \/ Retry(j) /\ (Mined(call, j[1]) \/ UNCHANGED chainVars)
        \/ GiveUp(j) /\ UNCHANGED chainVars
    BY <1>9, <2>1 DEF Send, Reverts
  <2>4. UNCHANGED <<now, tip, behind, up, crashes>>
    BY <1>9, <2>3 DEF Step, Mined, chainVars
  <2>5. CASE Mined(call, j[1]) /\ Finish(j) /\ UNCHANGED history
    <3>1. ~Waits(j[1], j[2])'
      BY <1>1, <2>2, <2>5, MinedTo DEF Waits, WaitsAt
    <3> QED
      BY <1>1, <1>2, <2>4, <2>5, <3>1, WaysOut DEF Serves, history
  <2>6. CASE Retry(j)
    <3>1. /\ \E s : Goes(j, s)
          /\ cause' \in [Requests -> SUBSET Causes]
          /\ \A r \in Requests : cause[r] \subseteq cause'[r]
          /\ \/ stage'[j].at = stage[j].at /\ UNCHANGED <<done, cause>>
             \/ /\ stage[j].at = "rejecting" => "undeclinable" \in cause'[j[1]]
                /\ stage[j].at # "rejecting" => done' = done /\ "exhausted" \in cause'[j[1]]
      BY <1>1, <2>2, <2>6, RetryGoes
    <3>2. stage[j].at = "rejecting" => j[2] = "order"
      BY <1>1 DEF StagesOf
    <3> QED
      BY <2>2, <2>4, <3>1, <3>2 DEF Serves, GaveUp
  <2>7. CASE GiveUp(j)
    <3>1. CASE stage[j].at = "rejecting"
      <4>1. Finish(j) /\ Blame(j[1], "undeclinable") /\ j[2] = "order"
        BY <1>1, <2>7, <3>1 DEF GiveUp, StagesOf
      <4>2. cause'[j[1]] \cap GaveUp(j[2]) # {}
        BY <1>1, <1>3, <4>1, BlameAdds DEF GaveUp
      <4> QED
        BY <1>1, <1>3, <2>4, <4>1, <4>2, WaysOut, BlameAdds DEF Serves
    <3>2. CASE stage[j].at # "rejecting"
      <4>1. Throw(j) /\ Blame(j[1], "exhausted") /\ "exhausted" \in Causes
        BY <2>7, <3>2 DEF GiveUp, Causes
      <4> QED
        BY <1>1, <2>4, <4>1, WaysOut, BlameAdds DEF Serves
    <3> QED
      BY <3>1, <3>2
  <2> QED
    BY <2>3, <2>5, <2>6, <2>7
<1>10. stage[j].at # "none" /\ up
  BY DEF Step, ReadStatus, Inputs, Decline, Work, Prove, Send
<1> QED
  BY <1>4, <1>5, <1>6, <1>7, <1>8, <1>9, <1>10 DEF Step

-----------------------------------------------------------------------------
(* The bookkeeping is of requests that are there *)

LEMMA RankStays ==
    ASSUME ChainInv, ChainStep, NEW r \in Requests
    PROVE  /\ Rank(requests[r].status) <= Rank(requests'[r].status)
           /\ Rank(requests[r].status) \in Nat /\ Rank(requests'[r].status) \in Nat
<1>1. \A status : Rank(status) \in Nat
  BY RankType
<1> QED
  BY <1>1, ChainMoves DEF Became

LEMMA StepMemory ==
    ASSUME WorkType, NEW j \in Jobs, Step(j)
    PROVE  /\ lost \subseteq lost' /\ lost' \subseteq Requests
           /\ wasted' \subseteq Requests
<1>1. j[1] \in Requests /\ lost \subseteq Requests /\ wasted \subseteq Requests
  BY JobIs DEF WorkType
<1>2. CASE Send(j)
  BY <1>1, <1>2 DEF Send, history
<1>3. CASE UNCHANGED <<lost, wasted>>
  BY <1>1, <1>3
<1> QED
  BY <1>2, <1>3 DEF Step, ReadStatus, Inputs, Decline, Work, Prove

LEMMA StepBook == ASSUME BookInv, NEW j \in Jobs, Step(j) PROVE (WorkType /\ OneHandler /\ KnownInv)'
<1>1. /\ WorkType /\ OneHandler /\ KnownInv /\ ChainInv /\ ChainStep
      /\ now \in Nat /\ now' = now /\ UNCHANGED <<up, crashes>>
  BY NextMovesChain, StepServes DEF BookInv, Next, ChainInv, ChainTypeOK, Serves
<1>2. /\ j[1] \in Requests /\ j[2] \in Kinds /\ Key(j) = <<j[1], j[2]>> /\ j = <<j[1], j[2], 1>>
      /\ stage[j].at # "none"
  <2>1. stage[j].at # "none"
    BY StepServes
  <2>2. j[3] = 1
    BY <1>1, <2>1 DEF OneHandler
  <2> QED
    BY <2>1, <2>2, JobIs
<1>3. PICK s : Goes(j, s)
  BY StepServes DEF Serves
<1>4. /\ s \in JobState(j[2]) /\ s \in [at : Stages, tries : Nat]
      /\ stage' = [stage EXCEPT ![j] = s] /\ UNCHANGED <<since, backfill, heard>>
      /\ done' \subseteq done \cup {Key(j)}
  BY <1>2, <1>3, JobStateType DEF Goes
<1>5. stage \in [Jobs -> [at : Stages, tries : Nat]] /\ \A i \in Jobs : stage[i] \in JobState(i[2])
  BY <1>1 DEF WorkType
<1>6. /\ stage' \in [Jobs -> [at : Stages, tries : Nat]] /\ stage'[j] = s
      /\ \A i \in Jobs : i # j => stage'[i] = stage[i]
  BY <1>4, <1>5
<1>7. \A i \in Jobs : stage'[i] \in JobState(i[2])
  BY <1>4, <1>5, <1>6
<1>8. WorkType'
  <2>1. cause' \in [Requests -> SUBSET Causes]
    BY StepServes DEF Serves
  <2>2. lost' \subseteq Requests /\ wasted' \subseteq Requests
    BY <1>1, StepMemory
  <2>3. done' \subseteq Keys
    BY <1>1, <1>2, <1>4, JobIs DEF WorkType
  <2>4. since' \in Nat /\ since' <= now'
    BY <1>1, <1>4 DEF WorkType
  <2>5. /\ up' \in BOOLEAN /\ crashes' \in 0 .. MaxCrashes
        /\ backfill' \subseteq Requests /\ heard' \subseteq Keys
    BY <1>1, <1>4 DEF WorkType
  <2> QED
    BY <1>6, <1>7, <2>1, <2>2, <2>3, <2>4, <2>5 DEF WorkType
<1>9. OneHandler'
  BY <1>1, <1>2, <1>6, JobIs DEF OneHandler
<1>10. KnownInv'
  <2> SUFFICES ASSUME NEW r \in Requests
               PROVE  /\ r \in backfill' => 1 <= Rank(requests'[r].status)
                      /\ \A kind \in Kinds :
                           <<r, kind>> \in heard' \cup done' \/ stage'[<<r, kind, 1>>].at # "none"
                           => Rank(WaitsAt(kind)) <= Rank(requests'[r].status)
    BY DEF KnownInv
  <2>1. /\ Rank(requests[r].status) <= Rank(requests'[r].status)
        /\ Rank(requests[r].status) \in Nat /\ Rank(requests'[r].status) \in Nat
    BY <1>1, RankStays
  <2>2. r \in backfill' => 1 <= Rank(requests'[r].status)
    BY <1>1, <1>4, <2>1 DEF KnownInv
  <2>3. ASSUME NEW kind \in Kinds,
               <<r, kind>> \in heard' \cup done' \/ stage'[<<r, kind, 1>>].at # "none"
        PROVE  Rank(WaitsAt(kind)) <= Rank(requests'[r].status)
    <3>1. Rank(WaitsAt(kind)) \in Nat
      BY RankType
    <3>2. CASE <<r, kind>> \in heard \cup done \/ stage[<<r, kind, 1>>].at # "none"
      BY <1>1, <2>1, <3>1, <3>2 DEF KnownInv
    <3>3. CASE <<r, kind>> = Key(j) \/ <<r, kind, 1>> = j
      <4>1. <<r, kind, 1>> = j
        BY <1>2, <3>3
      <4>2. stage[<<r, kind, 1>>].at # "none"
        BY <1>2, <4>1
      <4> QED
        BY <3>2, <4>2
    <3> QED
      BY <1>4, <1>6, <2>3, <3>2, <3>3, JobIs
  <2> QED
    BY <2>2, <2>3
<1> QED
  BY <1>8, <1>9, <1>10

\* What a handler of an event does to the Backlog.
LEMMA OnceBook ==
    ASSUME BookInv, ChainStep, NEW r \in Requests, NEW kind \in Kinds,
           NEW first \in StagesOf(kind), first # "none",
           stage' = stage \/ stage' = Once(<<r, kind>>, first),
           heard' = heard \cup {<<r, kind>>}, backfill' \subseteq backfill,
           UNCHANGED <<chainVars, up, crashes, since, done, lost, wasted>>,
           cause' \in [Requests -> SUBSET Causes],
           Rank(WaitsAt(kind)) <= Rank(requests[r].status)
    PROVE  (WorkType /\ OneHandler /\ KnownInv)'
<1>1. WorkType /\ OneHandler /\ KnownInv /\ requests' = requests /\ now' = now
  BY DEF BookInv, chainVars
<1>2. /\ stage' \in [Jobs -> [at : Stages, tries : Nat]]
      /\ \A j \in Jobs : /\ stage'[j] \in JobState(j[2])
                         /\ stage'[j].at # "none" => j[3] = 1
                         /\ stage'[j] = stage[j] \/ j = <<r, kind, 1>>
  <2>1. CASE stage' = stage
    BY <1>1, <2>1 DEF WorkType, OneHandler
  <2>2. CASE stage' = Once(<<r, kind>>, first)
    <3>1. PICK next : next = Once(<<r, kind>>, first)
      OBVIOUS
    <3>2. /\ next \in [Jobs -> [at : Stages, tries : Nat]]
          /\ \A j \in Jobs : next[j] \in JobState(j[2])
          /\ \A j \in Jobs : next[j].at # "none" => j[3] = 1
          /\ \A j \in Jobs : next[j] = stage[j] \/ (j = <<r, kind, 1>> /\ next[j].at = first)
          /\ <<r, kind>> \in done \/ next[<<r, kind, 1>>].at # "none"
      BY <1>1, <3>1, OnceRuns
    <3> QED
      BY <2>2, <3>1, <3>2
  <2> QED
    BY <2>1, <2>2
<1>3. WorkType' /\ OneHandler'
  <2>1. <<r, kind>> \in Keys
    BY JobIs
  <2> QED
    BY <1>1, <1>2, <2>1 DEF WorkType, OneHandler
<1>4. ASSUME NEW s \in Requests PROVE s \in backfill' => 1 <= Rank(requests'[s].status)
  BY <1>1 DEF KnownInv
<1>5. ASSUME NEW s \in Requests, NEW k \in Kinds,
             <<s, k>> \in heard' \cup done' \/ stage'[<<s, k, 1>>].at # "none"
      PROVE  Rank(WaitsAt(k)) <= Rank(requests'[s].status)
  <2>1. CASE s = r /\ k = kind
    BY <1>1, <2>1
  <2>2. CASE ~(s = r /\ k = kind)
    <3>1. <<s, k>> # <<r, kind>> /\ <<s, k, 1>> # <<r, kind, 1>> /\ <<s, k, 1>> \in Jobs
      BY <2>2, JobIs
    <3>2. <<s, k>> \in heard \cup done \/ stage[<<s, k, 1>>].at # "none"
      BY <1>2, <1>5, <3>1
    <3> QED
      BY <1>1, <3>2 DEF KnownInv
  <2> QED
    BY <2>1, <2>2
<1>6. KnownInv'
  BY <1>4, <1>5 DEF KnownInv
<1> QED
  BY <1>3, <1>6

LEMMA OrderedThere ==
    ASSUME ChainInv, NEW v \in Answers, NEW from, NEW to, NEW r \in RequestedIn(v, from, to)
    PROVE  r \in Requests /\ 1 <= Rank(requests[r].status)
<1>1. r \in Requests /\ v.requests[r].status # "None"
  BY DEF RequestedIn
<1>2. /\ Became(v.requests[r], requests[r])
      /\ v.requests[r] \in Request /\ requests[r] \in Request
  BY <1>1, Answered
<1>3. v.requests[r].status \in Status /\ requests[r].status \in Status
  BY <1>2 DEF Request
<1>4. \A status : Rank(status) \in Nat
  BY RankType
<1>5. 1 <= Rank(v.requests[r].status)
  <2>1. Rank(v.requests[r].status) # 0
    BY <1>1, <1>3, RankType
  <2> QED
    BY <1>4, <2>1
<1> QED
  BY <1>1, <1>2, <1>4, <1>5 DEF Became

LEMMA ChallengedThere ==
    ASSUME ChainInv, NEW r \in Challenged
    PROVE  r \in Requests /\ Rank("Challenged") <= Rank(requests[r].status)
<1>1. r \in Requests /\ tip.requests[r].status = "Challenged"
  BY DEF Challenged
<1>2. Became(tip.requests[r], requests[r])
  BY <1>1, Answered DEF Answers
<1>3. \A status : Rank(status) \in Nat
  BY RankType
<1> QED
  BY <1>1, <1>2, <1>3 DEF Became

\* What an event's handler does: its effect on the Backlog, and whom it blames.
LEMMA OrderHandled ==
    ASSUME BookInv, NEW r \in Requests, handleRequest(r)
    PROVE  /\ up /\ heard' = heard \cup {<<r, "order">>} /\ backfill' = backfill \ {r}
           /\ UNCHANGED <<chainVars, up, crashes, since, done, lost, wasted>>
           /\ \/ stage' = stage /\ Blame(r, "late")
              \/ stage' = Once(<<r, "order">>, "status") /\ UNCHANGED cause
           /\ cause' \in [Requests -> SUBSET Causes]
           /\ \A s \in Requests : cause[s] \subseteq cause'[s]
           /\ 1 <= Rank(requests[r].status)
<1>1. WorkType /\ ChainInv /\ "late" \in Causes
  BY DEF BookInv, Causes
<1>2. /\ up /\ heard' = heard \cup {<<r, "order">>} /\ backfill' = backfill \ {r}
      /\ UNCHANGED <<chainVars, up, crashes, since, done, lost, wasted>>
      /\ \/ stage' = stage /\ Blame(r, "late")
         \/ stage' = Once(<<r, "order">>, "status") /\ UNCHANGED cause
      /\ r \in Ordered \cup backfill
  BY DEF handleRequest
<1>3. 1 <= Rank(requests[r].status)
  <2>1. tip \in Answers
    BY DEF Answers
  <2>2. CASE r \in Ordered
    BY <1>1, <2>1, <2>2, OrderedThere DEF Ordered
  <2>3. CASE r \in backfill
    BY <2>3 DEF BookInv, KnownInv
  <2> QED
    BY <1>2, <2>2, <2>3
<1>4. /\ cause' \in [Requests -> SUBSET Causes]
      /\ \A s \in Requests : cause[s] \subseteq cause'[s]
  <2>1. CASE Blame(r, "late")
    BY <1>1, <2>1, BlameAdds
  <2>2. CASE UNCHANGED cause
    BY <1>1, <2>2 DEF WorkType
  <2> QED
    BY <1>2, <2>1, <2>2
<1> QED
  BY <1>2, <1>3, <1>4

LEMMA ChallengeHandled ==
    ASSUME BookInv, NEW r \in Requests, handleChallenge(r)
    PROVE  /\ up /\ heard' = heard \cup {<<r, "challenge">>} /\ backfill' = backfill
           /\ UNCHANGED <<chainVars, up, crashes, since, done, lost, wasted>>
           /\ stage' = stage \/ stage' = Once(<<r, "challenge">>, "inputs")
           /\ \/ cause'[r] # {}
              \/ requests[r].status = "Challenged" => stage' = Once(<<r, "challenge">>, "inputs")
           /\ \/ "stale" \in cause'[r] \/ stage' = stage \/ requests[r].status = "Challenged"
           /\ cause' \in [Requests -> SUBSET Causes]
           /\ \A s \in Requests : cause[s] \subseteq cause'[s]
           /\ Rank("Challenged") <= Rank(requests[r].status)
<1>1. /\ cause \in [Requests -> SUBSET Causes] /\ ChainInv
      /\ "stale" \in Causes /\ "unprovable" \in Causes /\ "unread" \in Causes
  BY DEF BookInv, WorkType, Causes
<1>2. /\ up /\ heard' = heard \cup {<<r, "challenge">>}
      /\ UNCHANGED <<chainVars, up, crashes, since, backfill, done, lost, wasted>>
      /\ r \in Challenged
  BY DEF handleChallenge
<1>3. Rank("Challenged") <= Rank(requests[r].status)
  BY <1>1, <1>2, ChallengedThere
<1>4. CASE stage' = stage /\ Blame(r, "unread")
  <2>1. "unread" \in cause'[r] /\ cause' \in [Requests -> SUBSET Causes]
        /\ \A s \in Requests : cause[s] \subseteq cause'[s]
    BY <1>1, <1>4, BlameAdds DEF BookInv
  <2> QED
    BY <1>2, <1>4, <1>3, <2>1
<1>5. CASE \E v \in Answers :
        /\ stage' = IF v.requests[r].status = "Challenged" /\ GoldDeployed
                    THEN Once(<<r, "challenge">>, "inputs") ELSE stage
        /\ cause' = [cause EXCEPT ![r] = @
             \cup (IF v.requests[r].status = requests[r].status THEN {} ELSE {"stale"})
             \cup (IF GoldDeployed THEN {} ELSE {"unprovable"})]
  <2>1. PICK v, why :
          /\ v \in Answers
          /\ stage' = IF v.requests[r].status = "Challenged" /\ GoldDeployed
                      THEN Once(<<r, "challenge">>, "inputs") ELSE stage
          /\ cause' = [cause EXCEPT ![r] = @ \cup why]
          /\ why = (IF v.requests[r].status = requests[r].status THEN {} ELSE {"stale"})
                   \cup (IF GoldDeployed THEN {} ELSE {"unprovable"})
    <3>1. PICK v \in Answers :
          /\ stage' = IF v.requests[r].status = "Challenged" /\ GoldDeployed
                      THEN Once(<<r, "challenge">>, "inputs") ELSE stage
          /\ cause' = [cause EXCEPT ![r] = @
               \cup (IF v.requests[r].status = requests[r].status THEN {} ELSE {"stale"})
               \cup (IF GoldDeployed THEN {} ELSE {"unprovable"})]
      BY <1>5
    <3>2. PICK why : why = (IF v.requests[r].status = requests[r].status THEN {} ELSE {"stale"})
                   \cup (IF GoldDeployed THEN {} ELSE {"unprovable"})
      OBVIOUS
    <3>3. cause' = [cause EXCEPT ![r] = cause[r] \cup why]
      BY <1>1, <3>1, <3>2
    <3> QED
      BY <3>1, <3>2, <3>3
  <2>2. why \subseteq Causes
    BY <1>1, <2>1
  <2>3. /\ cause' \in [Requests -> SUBSET Causes]
        /\ \A s \in Requests : cause[s] \subseteq cause'[s]
        /\ why \subseteq cause'[r]
    BY <1>1, <2>1, <2>2
  <2>4. CASE v.requests[r].status = requests[r].status /\ GoldDeployed
    BY <1>2, <2>1, <2>3, <1>3, <2>4
  <2>5. CASE v.requests[r].status # requests[r].status
    <3>1. "stale" \in cause'[r]
      BY <2>1, <2>3, <2>5
    <3> QED
      BY <1>2, <2>1, <2>3, <1>3, <3>1
  <2>6. CASE ~GoldDeployed
    <3>1. "unprovable" \in cause'[r] /\ stage' = stage
      BY <2>1, <2>3, <2>6
    <3> QED
      BY <1>2, <2>1, <2>3, <1>3, <3>1
  <2> QED
    BY <2>4, <2>5, <2>6
<1> QED
  BY <1>4, <1>5 DEF handleChallenge

\* A start, a crash and the world's part: no job begins, and none is made known that
\* has no event.
LEMMA OthersBook ==
    ASSUME BookInv, Start \/ Crash \/ World \/ Clock
    PROVE  /\ (WorkType /\ OneHandler /\ KnownInv)'
           /\ \A r \in Requests : cause[r] \subseteq cause'[r]
           /\ \A j \in Jobs : stage'[j] = stage[j] \/ stage'[j].at = "none"
           /\ UNCHANGED <<lost, wasted>>
           /\ UNCHANGED stage \/ Crash
<1>1. /\ WorkType /\ OneHandler /\ KnownInv /\ ChainInv /\ ChainStep
      /\ now \in Nat /\ now' \in Nat /\ now <= now'
      /\ cause \in [Requests -> SUBSET Causes]
  <2>1. ChainInv /\ ChainStep
    BY NextMovesChain DEF BookInv, Next
  <2> QED
    BY <2>1, ChainMoves DEF BookInv, ChainInv, ChainTypeOK, WorkType
<1>2. "stale" \in Causes /\ "down" \in Causes /\ "slow" \in Causes
  BY DEF Causes
<1>3. ASSUME NEW Some, NEW why \in Causes,
             cause' = [r \in Requests |-> IF r \in Some THEN cause[r] \cup {why} ELSE cause[r]]
      PROVE  cause' \in [Requests -> SUBSET Causes] /\ \A r \in Requests : cause[r] \subseteq cause'[r]
  BY <1>1, <1>3
<1>4. ASSUME NEW r \in Requests PROVE Rank(requests[r].status) <= Rank(requests'[r].status)
                                      /\ Rank(requests[r].status) \in Nat /\ Rank(requests'[r].status) \in Nat
                                      /\ \A kind : Rank(WaitsAt(kind)) \in Nat
  BY <1>1, RankStays, RankType
<1>5. CASE Start
  <2>1. PICK on, v, from :
          /\ on \in Answers /\ v \in Answers
          /\ since' = on.height + 1
          /\ backfill' = RequestedIn(v, from, v.height)
          /\ cause' = [r \in Requests |-> IF r \in RequestedIn(tip, v.height + 1, on.height)
                                          THEN cause[r] \cup {"stale"} ELSE cause[r]]
    BY <1>5 DEF Start
  <2>2. /\ UNCHANGED <<chainVars, crashes, heard, stage, done, lost, wasted>> /\ up' = TRUE
    BY <1>5 DEF Start
  <2>3. /\ cause' \in [Requests -> SUBSET Causes]
        /\ \A r \in Requests : cause[r] \subseteq cause'[r]
    BY <1>2, <1>3, <2>1
  <2>4. since' \in Nat /\ since' <= now'
    <3>1. on.height \in Nat /\ on.height < now
      BY <1>1, <2>1 DEF Answers, ChainInv, ChainTypeOK, ViewOf, View
    <3> QED
      BY <1>1, <2>1, <2>2, <3>1 DEF chainVars
  <2>5. \A r \in backfill' : r \in Requests /\ 1 <= Rank(requests[r].status)
    BY <1>1, <2>1, OrderedThere
  <2>6. backfill' \subseteq Requests
    BY <2>5
  <2>7. WorkType'
    BY <1>1, <2>2, <2>3, <2>4, <2>6 DEF WorkType
  <2>8. KnownInv'
    BY <1>1, <2>2, <2>5 DEF KnownInv, chainVars
  <2>9. OneHandler'
    BY <1>1, <2>2 DEF OneHandler
  <2> QED
    BY <2>2, <2>3, <2>7, <2>8, <2>9
<1>6. CASE Crash
  <2>1. /\ up' = FALSE /\ crashes' = crashes + 1 /\ crashes < MaxCrashes
        /\ since' = 0 /\ backfill' = {} /\ heard' = {} /\ done' = {}
        /\ stage' = [j \in Jobs |-> None]
        /\ UNCHANGED <<chainVars, lost, wasted>>
    BY <1>6 DEF Crash
  <2>2. cause' = [r \in Requests |-> IF r \in {s \in Requests : requests[s].status \in Live}
                                     THEN cause[r] \cup {"down"} ELSE cause[r]]
    BY <1>6 DEF Crash
  <2>3. /\ cause' \in [Requests -> SUBSET Causes]
        /\ \A r \in Requests : cause[r] \subseteq cause'[r]
    BY <1>2, <1>3, <2>2
  <2>4. \A j \in Jobs : stage'[j] = None
    BY <2>1
  <2>5. /\ \A j \in Jobs : None \in JobState(j[2])
        /\ None.at = "none" /\ None \in [at : Stages, tries : Nat]
    <3>1. "inputs" \in StagesOf("order") /\ "inputs" \in StagesOf("challenge")
      BY DEF StagesOf
    <3> QED
      BY <3>1, FreshJob, JobIs DEF Kinds
  <2>6. crashes' \in 0 .. MaxCrashes
    BY <1>1, <2>1, RelayerAssumption DEF WorkType
  <2>7. since' \in Nat /\ since' <= now'
    BY <1>1, <2>1
  <2>8. stage' \in [Jobs -> [at : Stages, tries : Nat]]
    BY <2>1, <2>5
  <2>9. WorkType'
    BY <1>1, <2>1, <2>3, <2>4, <2>5, <2>6, <2>7, <2>8 DEF WorkType
  <2>10. OneHandler' /\ KnownInv'
    BY <2>1, <2>4, <2>5, JobIs DEF OneHandler, KnownInv
  <2> QED
    BY <1>6, <2>1, <2>3, <2>4, <2>5, <2>9, <2>10
<1>7. ASSUME UNCHANGED <<up, crashes, workVars, lost, wasted>>,
             cause' \in [Requests -> SUBSET Causes]
      PROVE  /\ (WorkType /\ OneHandler /\ KnownInv)'
             /\ \A j \in Jobs : stage'[j] = stage[j] \/ stage'[j].at = "none"
             /\ UNCHANGED <<lost, wasted>>
             /\ UNCHANGED stage
  <2>1. since' \in Nat /\ since' <= now'
    BY <1>1, <1>7 DEF workVars, WorkType
  <2>2. WorkType' /\ OneHandler'
    BY <1>1, <1>7, <2>1 DEF WorkType, OneHandler, workVars
  <2>3. KnownInv'
    <3> SUFFICES ASSUME NEW r \in Requests
                 PROVE  /\ r \in backfill' => 1 <= Rank(requests'[r].status)
                        /\ \A kind \in Kinds :
                             <<r, kind>> \in heard' \cup done' \/ stage'[<<r, kind, 1>>].at # "none"
                             => Rank(WaitsAt(kind)) <= Rank(requests'[r].status)
      BY DEF KnownInv
    <3>1. /\ r \in backfill => 1 <= Rank(requests[r].status)
          /\ \A kind \in Kinds :
               <<r, kind>> \in heard \cup done \/ stage[<<r, kind, 1>>].at # "none"
               => Rank(WaitsAt(kind)) <= Rank(requests[r].status)
      BY <1>1 DEF KnownInv
    <3>2. UNCHANGED <<backfill, heard, done, stage>>
      BY <1>7 DEF workVars
    <3> QED
      BY <1>4, <3>1, <3>2
  <2> QED
    BY <1>7, <2>2, <2>3 DEF workVars
<1>8. CASE World
  <2>1. UNCHANGED <<up, crashes, workVars, lost, wasted>>
    BY <1>8 DEF World
  <2>2. PICK r \in Requests : UNCHANGED cause \/ Blame(r, "down")
    BY <1>8 DEF World
  <2>3. /\ cause' \in [Requests -> SUBSET Causes]
        /\ \A s \in Requests : cause[s] \subseteq cause'[s]
    BY <1>1, <1>2, <2>2, BlameAdds
  <2> QED
    BY <1>7, <2>1, <2>3
<1>9. CASE Clock
  <2>1. UNCHANGED <<up, crashes, workVars, lost, wasted>>
    BY <1>9 DEF Clock
  <2>2. cause' = [r \in Requests |-> IF r \in Overrun(now') THEN cause[r] \cup {"slow"}
                                     ELSE cause[r]]
    BY <1>9 DEF Clock
  <2>3. /\ cause' \in [Requests -> SUBSET Causes]
        /\ \A s \in Requests : cause[s] \subseteq cause'[s]
    BY <1>2, <1>3, <2>2
  <2> QED
    BY <1>7, <2>1, <2>3
<1> QED
  BY <1>5, <1>6, <1>8, <1>9

LEMMA BookInit == Init => BookInv
<1> SUFFICES ASSUME Init PROVE BookInv
  OBVIOUS
<1>1. ChainInv /\ now = 1
  BY ChainInvInit DEF Init, ChainInit
<1>2. /\ up = FALSE /\ crashes = 0 /\ since = 0 /\ backfill = {} /\ heard = {} /\ done = {}
      /\ lost = {} /\ wasted = {} /\ cause = [r \in Requests |-> {}]
      /\ stage = [j \in Jobs |-> None]
  BY DEF Init
<1>3. /\ \A j \in Jobs : None \in JobState(j[2])
      /\ None.at = "none" /\ None \in [at : Stages, tries : Nat]
  <2>1. "inputs" \in StagesOf("order") /\ "inputs" \in StagesOf("challenge")
    BY DEF StagesOf
  <2> QED
    BY <2>1, FreshJob, JobIs DEF Kinds
<1>4. 0 \in 0 .. MaxCrashes
  BY RelayerAssumption
<1>5. WorkType
  <2>1. up \in BOOLEAN /\ crashes \in 0 .. MaxCrashes /\ since \in Nat /\ since <= now
    <3>1. up \in BOOLEAN
      BY <1>2
    <3>2. crashes \in 0 .. MaxCrashes /\ since \in Nat /\ since <= now
      BY <1>1, <1>2, <1>4
    <3> QED
      BY <3>1, <3>2
  <2>2. /\ stage \in [Jobs -> [at : Stages, tries : Nat]]
        /\ \A j \in Jobs : stage[j] \in JobState(j[2])
    BY <1>2, <1>3
  <2>3. cause \in [Requests -> SUBSET Causes]
    BY <1>2
  <2> QED
    BY <1>2, <2>1, <2>2, <2>3 DEF WorkType
<1>6. OneHandler /\ KnownInv
  BY <1>2, <1>3, JobIs DEF OneHandler, KnownInv
<1> QED
  BY <1>1, <1>5, <1>6 DEF BookInv

LEMMA BookNext ==
    ASSUME BookInv, [Next]_vars
    PROVE  BookInv' /\ \A r \in Requests : cause[r] \subseteq cause'[r]
<1>1. ChainInv /\ ChainStep
  BY NextMovesChain DEF BookInv
<1>2. ChainInv'
  BY <1>1, ChainInvNext
<1>3. ASSUME NEW j \in Jobs, Step(j)
      PROVE  (WorkType /\ OneHandler /\ KnownInv)' /\ \A r \in Requests : cause[r] \subseteq cause'[r]
  BY <1>3, StepBook, StepServes DEF Serves
<1>4. ASSUME NEW r \in Requests, handleRequest(r)
      PROVE  (WorkType /\ OneHandler /\ KnownInv)' /\ \A s \in Requests : cause[s] \subseteq cause'[s]
  <2>1. PICK kind, first : kind = "order" /\ first = "status"
    OBVIOUS
  <2>2. kind \in Kinds /\ first \in StagesOf(kind) /\ first # "none" /\ Rank(WaitsAt(kind)) = 1
    BY <2>1 DEF Kinds, StagesOf, WaitsAt, Rank
  <2>3. /\ heard' = heard \cup {<<r, kind>>} /\ backfill' = backfill \ {r}
        /\ UNCHANGED <<chainVars, up, crashes, since, done, lost, wasted>>
        /\ stage' = stage \/ stage' = Once(<<r, kind>>, first)
        /\ cause' \in [Requests -> SUBSET Causes]
        /\ \A s \in Requests : cause[s] \subseteq cause'[s]
        /\ Rank(WaitsAt(kind)) <= Rank(requests[r].status)
    BY <1>4, <2>1, <2>2, OrderHandled
  <2>4. backfill' \subseteq backfill
    BY <2>3
  <2> QED
    BY <1>1, <2>2, <2>3, <2>4, OnceBook
<1>5. ASSUME NEW r \in Requests, handleChallenge(r)
      PROVE  (WorkType /\ OneHandler /\ KnownInv)' /\ \A s \in Requests : cause[s] \subseteq cause'[s]
  <2>1. PICK kind, first : kind = "challenge" /\ first = "inputs"
    OBVIOUS
  <2>2. /\ kind \in Kinds /\ first \in StagesOf(kind) /\ first # "none"
        /\ WaitsAt(kind) = "Challenged"
    BY <2>1 DEF Kinds, StagesOf, WaitsAt
  <2>3. /\ heard' = heard \cup {<<r, kind>>} /\ backfill' = backfill
        /\ UNCHANGED <<chainVars, up, crashes, since, done, lost, wasted>>
        /\ stage' = stage \/ stage' = Once(<<r, kind>>, first)
        /\ cause' \in [Requests -> SUBSET Causes]
        /\ \A s \in Requests : cause[s] \subseteq cause'[s]
        /\ Rank(WaitsAt(kind)) <= Rank(requests[r].status)
    BY <1>5, <2>1, <2>2, ChallengeHandled
  <2>4. backfill' \subseteq backfill
    BY <2>3
  <2> QED
    BY <1>1, <2>2, <2>3, <2>4, OnceBook
<1>6. CASE UNCHANGED vars
  <2>1. /\ UNCHANGED <<up, crashes, since, backfill, heard, stage, done, cause, lost, wasted>>
        /\ now' = now /\ requests' = requests
    BY <1>6 DEF vars, chainVars, workVars, history
  <2>2. WorkType' /\ OneHandler' /\ KnownInv'
    BY <2>1 DEF BookInv, WorkType, OneHandler, KnownInv
  <2> QED
    BY <1>2, <2>1, <2>2 DEF BookInv
<1>7. CASE Start \/ Crash \/ World \/ Clock
  BY <1>2, <1>7, OthersBook DEF BookInv
<1> QED
  BY <1>2, <1>3, <1>4, <1>5, <1>6, <1>7 DEF Next, BookInv

LEMMA SealedNext ==
    ASSUME ChainInv, SealedInv, ChainStep, EscalationWindow # 0
    PROVE  SealedInv'
<1> SUFFICES ASSUME NEW r \in Requests, NEW kind \in Kinds, Waits(r, kind)'
             PROVE  /\ WaitsSince(r, kind)' \in Nat /\ WaitsSince(r, kind)' <= now'
                    /\ WaitsSince(r, kind)' < WaitsUntil(r, kind)'
                    /\ WaitsSince(r, kind)' < now' => tip'.requests[r] = requests'[r]
  BY DEF SealedInv
<1>1. now' \in Nat /\ now <= now' /\ now \in Nat
  BY ChainMoves DEF ChainInv, ChainTypeOK
<1>2. Seal \/ UNCHANGED <<now, tip>>
  BY DEF ChainStep, requestExecution, challenge, Mined, chainVars
<1>3. CASE requests'[r] = requests[r]
  <2>1. /\ Waits(r, kind) /\ WaitsSince(r, kind)' = WaitsSince(r, kind)
        /\ WaitsUntil(r, kind)' = WaitsUntil(r, kind)
    BY <1>3 DEF Waits, WaitsSince, WaitsUntil
  <2>2. /\ WaitsSince(r, kind) \in Nat /\ WaitsSince(r, kind) <= now
        /\ WaitsSince(r, kind) < WaitsUntil(r, kind)
        /\ WaitsSince(r, kind) < now => tip.requests[r] = requests[r]
    BY <2>1 DEF SealedInv
  <2>3. CASE Seal
    <3>1. tip'.requests = requests
      BY <2>3 DEF Seal
    <3> QED
      BY <1>1, <1>3, <2>1, <2>2, <3>1
  <2>4. CASE UNCHANGED <<now, tip>>
    <3>1. tip'.requests[r] = tip.requests[r]
      BY <2>4
    <3> QED
      BY <1>1, <1>3, <2>1, <2>2, <2>4, <3>1
  <2> QED
    BY <1>2, <2>3, <2>4
<1>4. CASE requests'[r] # requests[r]
  <2>1. /\ WaitsSince(r, kind)' = now /\ now < WaitsUntil(r, kind)'
        /\ requestExecution(r) \/ challenge(r)
    BY <1>4, BeginsToWait
  <2>2. now' = now
    BY <2>1 DEF requestExecution, challenge
  <2> QED
    BY <1>1, <2>1, <2>2
<1> QED
  BY <1>3, <1>4

-----------------------------------------------------------------------------
(* What is done is answered *)

\* Who waits for a job of a key that is done does so from before.
LEMMA DoneNext ==
    ASSUME BookInv, DoneInv, [Next]_vars
    PROVE  DoneInv'
<1> SUFFICES ASSUME NEW r \in Requests, NEW kind \in Kinds, <<r, kind>> \in done', Waits(r, kind)'
             PROVE  cause'[r] \cap GaveUp(kind) # {}
  BY DEF DoneInv
<1>1. ChainInv /\ ChainStep /\ cause[r] \subseteq cause'[r]
  BY NextMovesChain, BookNext DEF BookInv
<1>2. ASSUME <<r, kind>> \in done PROVE cause'[r] \cap GaveUp(kind) # {}
  <2>1. Rank(WaitsAt(kind)) <= Rank(requests[r].status)
    BY <1>2 DEF BookInv, KnownInv
  <2>2. Rank(WaitsAt(kind)) \in Nat /\ Rank(requests[r].status) \in Nat
    BY RankType
  <2>3. requests'[r] = requests[r]
    BY <1>1, <2>1, <2>2, BeginsToWait
  <2>4. Waits(r, kind)
    BY <2>3 DEF Waits
  <2>5. cause[r] \cap GaveUp(kind) # {}
    BY <1>2, <2>4 DEF DoneInv
  <2> QED
    BY <1>1, <2>5
<1>3. ASSUME NEW j \in Jobs, Step(j), <<r, kind>> \notin done
      PROVE  cause'[r] \cap GaveUp(kind) # {}
  <2>1. Serves(j)
    BY <1>3, StepServes
  <2>2. done' = done \/ done' = done \cup {Key(j)}
    BY <2>1 DEF Serves, Goes
  <2>3. <<r, kind>> = Key(j) /\ done' # done
    BY <1>3, <2>2
  <2>4. r = j[1] /\ kind = j[2]
    BY <2>3 DEF Key
  <2> QED
    BY <2>1, <2>3, <2>4 DEF Serves
<1>4. CASE done' \subseteq done
  BY <1>2, <1>4
<1>5. done' \subseteq done \/ \E j \in Jobs : Step(j)
  BY DEF Next, World, Clock, Start, Crash, handleRequest, handleChallenge, workVars, vars
<1> QED
  BY <1>2, <1>3, <1>4, <1>5

-----------------------------------------------------------------------------
(* What waits is served *)

\* A request begins to wait by others' doing only.
LEMMA WorldBegins ==
    ASSUME BookInv, EscalationWindow # 0, [Next]_vars, NEW r \in Requests, NEW kind \in Kinds,
           Waits(r, kind)', requests'[r] # requests[r]
    PROVE  /\ World /\ WaitsSince(r, kind)' = now /\ now < WaitsUntil(r, kind)' /\ now' = now
           /\ <<r, kind>> \notin heard /\ (up \/ cause'[r] # {})
<1>1. ChainInv /\ ChainStep /\ WorkType /\ KnownInv
  BY NextMovesChain DEF BookInv
<1>2. /\ Rank(requests[r].status) < Rank(WaitsAt(kind))
      /\ WaitsSince(r, kind)' = now /\ now < WaitsUntil(r, kind)'
      /\ requestExecution(r) \/ challenge(r)
  BY <1>1, BeginsToWait
<1>3. now' = now
  BY <1>2 DEF requestExecution, challenge
<1>4. ASSUME NEW j \in Jobs, Step(j) PROVE FALSE
  <2>1. CASE UNCHANGED chainVars
    BY <2>1 DEF chainVars
  <2>2. CASE Send(j)
    <3>1. PICK call \in Calls : Mined(call, j[1]) \/ UNCHANGED chainVars
      BY <2>2, CallsOf DEF Send, Reverts
    <3>2. CASE Mined(call, j[1])
      <4>1. CASE j[1] = r
        BY <1>1, <3>2, <4>1, MinedTo DEF Waits, WaitsAt
      <4>2. CASE j[1] # r
        BY <1>1, <3>2, <4>2, MinedMoves, JobIs
      <4> QED
        BY <4>1, <4>2
    <3> QED
      BY <2>1, <3>1, <3>2
  <2> QED
    BY <1>4, <2>1, <2>2 DEF Step, ReadStatus, Inputs, Decline, Work, Prove
<1>5. requests' # requests
  OBVIOUS
<1>6. World
  BY <1>4, <1>5 DEF Next, Clock, Seal, Start, Crash, handleRequest, handleChallenge, chainVars, vars
<1>7. PICK s \in Requests :
        \/ (requestExecution(s) \/ challenge(s)) /\ IF up THEN UNCHANGED cause ELSE Blame(s, "down")
        \/ \E call \in Calls \ {"deliver", "reject", "resolveChallenge"} :
             Mined(call, s) /\ UNCHANGED cause
  BY <1>6 DEF World
<1>8. CASE \E call \in Calls : Mined(call, s)
  <2>1. CASE s = r
    BY <1>1, <1>8, <2>1, MinedTo DEF Waits, WaitsAt
  <2>2. CASE s # r
    BY <1>1, <1>8, <2>2, MinedMoves
  <2> QED
    BY <2>1, <2>2
<1>9. CASE (requestExecution(s) \/ challenge(s)) /\ IF up THEN UNCHANGED cause ELSE Blame(s, "down")
  <2>1. s = r
    <3>1. requests \in [Requests -> Request]
      BY <1>1 DEF ChainInv, ChainTypeOK
    <3> QED
      BY <1>9, <3>1 DEF requestExecution, challenge
  <2>2. <<r, kind>> \notin heard
    <3>1. Rank(requests[r].status) \in Nat /\ Rank(WaitsAt(kind)) \in Nat
      BY RankType
    <3>2. ~(Rank(WaitsAt(kind)) <= Rank(requests[r].status))
      BY <1>2, <3>1
    <3> QED
      BY <1>1, <3>2 DEF KnownInv
  <2>3. up \/ cause'[r] # {}
    <3>1. CASE ~up
      <4>1. Blame(r, "down") /\ "down" \in Causes
        BY <1>9, <2>1, <3>1 DEF Causes
      <4> QED
        BY <1>1, <4>1, BlameAdds
    <3> QED
      BY <3>1
  <2> QED
    BY <1>2, <1>3, <1>6, <2>2, <2>3
<1> QED
  BY <1>7, <1>8, <1>9

\* Handling an event runs its key's job, unless it is done; other jobs go on.
LEMMA OnceServes ==
    ASSUME BookInv, NEW r \in Requests, NEW kind \in Kinds,
           NEW s \in Requests, NEW k \in Kinds, NEW first \in StagesOf(k), first # "none",
           stage' = Once(<<s, k>>, first)
    PROVE  /\ stage[<<r, kind, 1>>].at # "none" => stage'[<<r, kind, 1>>].at # "none"
           /\ <<r, kind>> = <<s, k>> /\ <<r, kind>> \notin done => stage'[<<r, kind, 1>>].at # "none"
<1>1. OneHandler /\ WorkType
  BY DEF BookInv
<1>2. PICK next : next = Once(<<s, k>>, first)
  OBVIOUS
<1>3. /\ next \in [Jobs -> [at : Stages, tries : Nat]]
      /\ \A j \in Jobs : next[j] \in JobState(j[2])
      /\ \A j \in Jobs : next[j].at # "none" => j[3] = 1
      /\ \A j \in Jobs : next[j] = stage[j] \/ (j = <<s, k, 1>> /\ next[j].at = first)
      /\ <<s, k>> \in done \/ next[<<s, k, 1>>].at # "none"
  BY <1>1, <1>2, OnceRuns
<1>4. <<r, kind, 1>> \in Jobs
  BY JobIs
<1>5. stage' = next
  BY <1>2
<1> QED
  BY <1>3, <1>4, <1>5

LEMMA ServedNext ==
    ASSUME BookInv, SealedInv, DoneInv, ServedInv, EscalationWindow # 0, [Next]_vars
    PROVE  ServedInv'
<1> SUFFICES ASSUME NEW r \in Requests, NEW kind \in Kinds, Waits(r, kind)', cause'[r] = {}
             PROVE  /\ up' /\ since' <= WaitsSince(r, kind)' /\ now' <= WaitsUntil(r, kind)'
                    /\ IF <<r, kind>> \in heard' THEN stage'[<<r, kind, 1>>].at # "none"
                       ELSE now' <= WaitsSince(r, kind)' + 1
  BY DEF ServedInv
<1>1. /\ ChainInv /\ ChainStep /\ WorkType /\ OneHandler /\ KnownInv /\ cause[r] = {}
      /\ now \in Nat /\ now' \in Nat /\ now <= now' /\ since \in Nat /\ since <= now
  <2>1. ChainInv /\ ChainStep /\ WorkType /\ OneHandler /\ KnownInv /\ cause[r] \subseteq cause'[r]
    BY NextMovesChain, BookNext DEF BookInv
  <2> QED
    BY <2>1, ChainMoves DEF ChainInv, ChainTypeOK, WorkType
<1>2. CASE requests'[r] # requests[r]
  <2>1. /\ World /\ WaitsSince(r, kind)' = now /\ now < WaitsUntil(r, kind)' /\ now' = now
        /\ <<r, kind>> \notin heard /\ up
    BY <1>2, WorldBegins
  <2>2. UNCHANGED <<up, since, heard>>
    BY <2>1 DEF World, workVars
  <2>3. up' /\ <<r, kind>> \notin heard'
    BY <2>1, <2>2
  <2>4. since' <= now /\ now' <= WaitsUntil(r, kind)' /\ now' <= now + 1
    <3>1. WaitsUntil(r, kind)' \in Nat
      <4>1. requests' \in [Requests -> Request]
        BY <1>1, ChainMoves
      <4> QED
        BY <4>1 DEF WaitsUntil, Request
    <3> QED
      BY <1>1, <2>1, <2>2, <3>1
  <2> QED
    BY <2>1, <2>3, <2>4
<1>3. CASE requests'[r] = requests[r]
  <2>1. /\ Waits(r, kind)
        /\ WaitsSince(r, kind)' = WaitsSince(r, kind) /\ WaitsUntil(r, kind)' = WaitsUntil(r, kind)
    BY <1>3 DEF Waits, WaitsSince, WaitsUntil
  <2>2. PICK from, to : from = WaitsSince(r, kind) /\ to = WaitsUntil(r, kind)
    OBVIOUS
  <2>3. /\ from \in Nat /\ from <= now /\ from < to
        /\ from < now => tip.requests[r] = requests[r]
    BY <2>1, <2>2 DEF SealedInv
  <2>4. to \in Nat
    BY <1>1, <2>2 DEF WaitsUntil, ChainInv, ChainTypeOK, Request
  <2>5. /\ up /\ since <= from /\ now <= to
        /\ IF <<r, kind>> \in heard THEN stage[<<r, kind, 1>>].at # "none" ELSE now <= from + 1
    BY <1>1, <2>1, <2>2 DEF ServedInv
  <2>6. <<r, kind>> \notin done
    BY <1>1, <2>1 DEF DoneInv
  <2> SUFFICES /\ up' /\ since' <= from /\ now' <= to
               /\ IF <<r, kind>> \in heard' THEN stage'[<<r, kind, 1>>].at # "none"
                  ELSE now' <= from + 1
    BY <2>1, <2>2
  <2>7. CASE Clock
    <3>1. /\ Owed = {} /\ Seal /\ UNCHANGED <<up, since, heard, stage>> /\ r \notin Overrun(now')
      <4>1. cause' = [s \in Requests |-> IF s \in Overrun(now') THEN cause[s] \cup {"slow"} ELSE cause[s]]
        BY <2>7 DEF Clock
      <4> QED
        BY <2>5, <2>7, <4>1 DEF Clock, workVars
    <3>2. now' <= now + 1
      BY <1>1, <3>1 DEF Seal
    <3>3. CASE <<r, kind>> \in heard
      <4>1. RunningOf(<<r, kind>>) # {}
        BY <1>1, <2>5, <3>3, InFlight
      <4>2. ~(to < now')
        <5>1. CASE kind = "order"
          BY <2>2, <3>1, <4>1, <5>1 DEF Overrun, WaitsUntil
        <5>2. CASE kind = "challenge"
          BY <2>2, <3>1, <4>1, <5>2 DEF Overrun, WaitsUntil
        <5> QED
          BY <5>1, <5>2 DEF Kinds
      <4> QED
        BY <1>1, <2>4, <2>5, <3>1, <3>3, <4>2
    <3>4. CASE <<r, kind>> \notin heard
      <4>1. from = now
        <5>1. SUFFICES ASSUME from < now PROVE FALSE
          BY <1>1, <2>3
        <5>2. tip.requests[r] = requests[r] /\ tip.height \in Nat /\ tip.height + 1 = now
          BY <2>3, <5>1, <1>1 DEF ChainInv, ChainTypeOK, View
        <5>3. <<r, kind>> \notin Owed /\ <<r, kind>> \in Keys
          BY <3>1, JobIs
        <5>4. CASE kind = "order"
          <6>1. from = requests[r].createdAt /\ requests[r].status = "Pending"
            BY <2>1, <2>2, <5>4 DEF WaitsSince, Waits, WaitsAt
          <6>2. tip.requests[r].createdAt \in since .. tip.height
            BY <1>1, <2>3, <2>5, <5>1, <5>2, <6>1
          <6>3. r \in Ordered
            BY <5>2, <6>1, <6>2 DEF Ordered, RequestedIn
          <6> QED
            BY <3>4, <5>3, <5>4, <6>3 DEF Owed
        <5>5. CASE kind = "challenge"
          <6>1. from = requests[r].escalationDeadline - EscalationWindow /\ requests[r].status = "Challenged"
            BY <2>1, <2>2, <5>5 DEF WaitsSince, Waits, WaitsAt
          <6>2. r \in Challenged
            BY <1>1, <2>3, <2>5, <5>2, <6>1 DEF Challenged
          <6> QED
            BY <3>4, <5>3, <5>5, <6>2 DEF Owed
        <5> QED
          BY <5>4, <5>5 DEF Kinds
      <4> QED
        BY <1>1, <2>3, <2>4, <2>5, <3>1, <3>2, <3>4, <4>1
    <3> QED
      BY <3>3, <3>4
  <2>8. CASE Crash
    <3>1. cause' = [s \in Requests |-> IF requests[s].status \in Live THEN cause[s] \cup {"down"}
                                       ELSE cause[s]]
      BY <2>8 DEF Crash
    <3>2. requests[r].status \in Live
      BY <2>1 DEF Waits, WaitsAt, Live
    <3> QED
      BY <3>1, <3>2
  <2>9. CASE Start
    BY <2>5, <2>9 DEF Start
  <2>10. ASSUME NEW s \in Requests, NEW kk \in Kinds, NEW first \in StagesOf(kk), first # "none",
                stage' = stage \/ stage' = Once(<<s, kk>>, first),
                <<r, kind>> = <<s, kk>> => stage' = Once(<<s, kk>>, first),
                heard' = heard \cup {<<s, kk>>},
                UNCHANGED <<chainVars, up, crashes, since, done, lost, wasted>>
         PROVE  /\ up' /\ since' <= from /\ now' <= to
                /\ IF <<r, kind>> \in heard' THEN stage'[<<r, kind, 1>>].at # "none"
                   ELSE now' <= from + 1
    <3>1. UNCHANGED <<up, since, now>>
      BY <2>10 DEF chainVars
    <3>2. ASSUME <<r, kind>> \in heard' PROVE stage'[<<r, kind, 1>>].at # "none"
      <4>1. CASE stage' = stage
        BY <2>5, <2>10, <3>2, <4>1, OnceServes, <2>6
      <4>2. CASE stage' = Once(<<s, kk>>, first)
        BY <2>5, <2>6, <2>10, <3>2, <4>2, OnceServes
      <4> QED
        BY <2>10, <4>1, <4>2
    <3>3. <<r, kind>> \notin heard' => <<r, kind>> \notin heard
      BY <2>10
    <3> QED
      BY <2>5, <3>1, <3>2, <3>3
  <2>11. ASSUME NEW s \in Requests, handleRequest(s)
         PROVE  /\ up' /\ since' <= from /\ now' <= to
                /\ IF <<r, kind>> \in heard' THEN stage'[<<r, kind, 1>>].at # "none"
                   ELSE now' <= from + 1
    <3>1. PICK kk, first : kk = "order" /\ first = "status"
      OBVIOUS
    <3>2. kk \in Kinds /\ first \in StagesOf(kk) /\ first # "none"
      BY <3>1 DEF Kinds, StagesOf
    <3>3. /\ heard' = heard \cup {<<s, kk>>}
          /\ UNCHANGED <<chainVars, up, crashes, since, done, lost, wasted>>
          /\ \/ stage' = stage /\ Blame(s, "late")
             \/ stage' = Once(<<s, kk>>, first)
      BY <2>11, <3>1, OrderHandled
    <3>4. <<r, kind>> = <<s, kk>> => stage' = Once(<<s, kk>>, first)
      <4>1. CASE Blame(s, "late")
        <5>1. "late" \in cause'[s]
          BY <1>1, <4>1, BlameAdds DEF Causes
        <5> QED
          BY <5>1
      <4> QED
        BY <3>3, <4>1
    <3> QED
      BY <2>10, <3>2, <3>3, <3>4
  <2>12. ASSUME NEW s \in Requests, handleChallenge(s)
         PROVE  /\ up' /\ since' <= from /\ now' <= to
                /\ IF <<r, kind>> \in heard' THEN stage'[<<r, kind, 1>>].at # "none"
                   ELSE now' <= from + 1
    <3>1. PICK kk, first : kk = "challenge" /\ first = "inputs"
      OBVIOUS
    <3>2. kk \in Kinds /\ first \in StagesOf(kk) /\ first # "none"
      BY <3>1 DEF Kinds, StagesOf
    <3>3. /\ heard' = heard \cup {<<s, kk>>}
          /\ UNCHANGED <<chainVars, up, crashes, since, done, lost, wasted>>
          /\ stage' = stage \/ stage' = Once(<<s, kk>>, first)
          /\ \/ cause'[s] # {}
             \/ requests[s].status = "Challenged" => stage' = Once(<<s, kk>>, first)
      BY <2>12, <3>1, ChallengeHandled
    <3>4. <<r, kind>> = <<s, kk>> => stage' = Once(<<s, kk>>, first)
      <4>1. SUFFICES ASSUME r = s, kind = kk PROVE stage' = Once(<<s, kk>>, first)
        OBVIOUS
      <4>2. requests[s].status = "Challenged"
        BY <2>1, <3>1, <4>1 DEF Waits, WaitsAt
      <4> QED
        BY <3>3, <4>1, <4>2
    <3> QED
      BY <2>10, <3>2, <3>3, <3>4
  <2>13. ASSUME NEW j \in Jobs, Step(j)
         PROVE  /\ up' /\ since' <= from /\ now' <= to
                /\ IF <<r, kind>> \in heard' THEN stage'[<<r, kind, 1>>].at # "none"
                   ELSE now' <= from + 1
    <3>1. Serves(j)
      BY <2>13, StepServes
    <3>2. UNCHANGED <<up, since, now, heard>>
      BY <3>1 DEF Serves, Goes
    <3>3. CASE j = <<r, kind, 1>>
      <4>1. j[1] = r /\ j[2] = kind
        BY <3>3
      <4>2. stage'[j].at # "none"
        BY <3>1, <4>1 DEF Serves
      <4> QED
        BY <2>5, <3>2, <3>3, <4>2
    <3>4. CASE j # <<r, kind, 1>>
      <4>1. PICK s : stage' = [stage EXCEPT ![j] = s]
        BY <3>1 DEF Serves, Goes
      <4>2. stage'[<<r, kind, 1>>] = stage[<<r, kind, 1>>]
        BY <1>1, <3>4, <4>1, JobIs DEF WorkType
      <4> QED
        BY <2>5, <3>2, <4>2
    <3> QED
      BY <3>3, <3>4
  <2>14. CASE UNCHANGED <<up, since, now, heard, stage>>
    BY <2>5, <2>14
  <2>15. CASE World
    <3>1. UNCHANGED <<up, since, heard, stage, now>>
      BY <2>15 DEF World, workVars, requestExecution, challenge, Mined
    <3> QED
      BY <2>14, <3>1
  <2> QED
    BY <2>7, <2>8, <2>9, <2>11, <2>12, <2>13, <2>14, <2>15 DEF Next, vars, chainVars, workVars
<1> QED
  BY <1>2, <1>3

LEMMA FaultNext ==
    ASSUME BookInv, ServedInv, FaultInv, [Next]_vars
    PROVE  FaultInv'
<1> SUFFICES ASSUME NEW r \in Requests, requests'[r].status \in {"Expired", "Faulted"}
             PROVE  cause'[r] # {}
  BY DEF FaultInv
<1>1. ChainInv /\ ChainStep /\ cause[r] \subseteq cause'[r]
  BY NextMovesChain, BookNext DEF BookInv
<1>2. CASE requests'[r] = requests[r]
  BY <1>1, <1>2 DEF FaultInv
<1>3. ASSUME NEW s \in Requests, NEW call \in Calls, Mined(call, s), requests'[r] # requests[r]
      PROVE  cause[r] # {}
  <2>1. s = r
    BY <1>1, <1>3, MinedMoves
  <2>2. call \in {"markExpired", "slashUnresolvedChallenge"}
    BY <1>1, <1>3, <2>1, MinedTo
  <2>3. PICK kind \in Kinds : kind = IF call = "markExpired" THEN "order" ELSE "challenge"
    BY DEF Kinds
  <2>4. Waits(r, kind) /\ now > WaitsUntil(r, kind)
    BY <1>1, <1>3, <2>1, <2>2, <2>3, MinedFrom DEF Waits, WaitsAt, WaitsUntil
  <2>5. now \in Nat /\ WaitsUntil(r, kind) \in Nat
    BY <1>1 DEF ChainInv, ChainTypeOK, Request, WaitsUntil
  <2>6. ASSUME cause[r] = {} PROVE now <= WaitsUntil(r, kind)
    BY <2>4, <2>6 DEF ServedInv
  <2> QED
    BY <2>4, <2>5, <2>6
<1>4. ASSUME NEW s \in Requests, requestExecution(s) \/ challenge(s), requests'[r] # requests[r]
      PROVE  FALSE
  <2>1. requests \in [Requests -> Request]
    BY <1>1 DEF ChainInv, ChainTypeOK
  <2>2. CASE requestExecution(s)
    BY <1>4, <2>1, <2>2 DEF requestExecution, NoRequest
  <2>3. CASE challenge(s)
    <3>1. s = r
      BY <1>4, <2>1, <2>3 DEF challenge
    <3>2. PICK p \in Request : p = requests[r]
      BY <2>1
    <3>3. requests' = [requests EXCEPT ![r] = [p EXCEPT !.status = "Challenged",
                                         !.escalationDeadline = now + EscalationWindow]]
      BY <2>3, <3>1, <3>2 DEF challenge
    <3>4. requests'[r].status = "Challenged"
      BY <2>1, <3>2, <3>3 DEF Request
    <3> QED
      BY <3>4
  <2> QED
    BY <1>4, <2>2, <2>3
<1>5. requests'[r] # requests[r] => \/ \E s \in Requests, call \in Calls : Mined(call, s)
                                    \/ \E s \in Requests : requestExecution(s) \/ challenge(s)
  BY <1>1 DEF ChainStep, Seal, chainVars
<1> QED
  BY <1>1, <1>2, <1>3, <1>4, <1>5

-----------------------------------------------------------------------------
(* What was answered is not answered again *)

\* A job that goes on has the request as it was, unless it cannot know.
LEMMA StepGoesOn ==
    ASSUME BookInv, NEW j \in Jobs, Step(j), stage'[j].at # "none"
    PROVE  \/ requests' = requests /\ stage[j].at # "status"
           \/ requests' = requests /\ j[2] = "order" /\ requests[j[1]].status = "Pending"
           \/ "stale" \in cause'[j[1]]
           \/ j[1] \in lost'
<1>1. WorkType /\ j[1] \in Requests /\ None.at = "none" /\ "stale" \in Causes
  BY JobIs DEF BookInv, None, Causes
<1>2. Finish(j) \/ Throw(j) => FALSE
  BY <1>1, WaysOut, GoesTo
<1>3. CASE ReadStatus(j)
  <2>1. PICK v \in Answers :
          /\ IF v.requests[j[1]].status = "Pending" THEN Go(j, "inputs") ELSE Finish(j)
          /\ IF v.requests[j[1]].status = requests[j[1]].status THEN UNCHANGED cause
             ELSE Blame(j[1], "stale")
    BY <1>2, <1>3 DEF ReadStatus
  <2>2. requests' = requests /\ j[2] = "order"
    BY <1>3 DEF ReadStatus, chainVars
  <2>3. v.requests[j[1]].status = "Pending"
    BY <1>2, <2>1
  <2>4. CASE Blame(j[1], "stale")
    BY <1>1, <2>4, BlameAdds
  <2> QED
    BY <2>1, <2>2, <2>3, <2>4
<1>4. CASE Send(j)
  <2>1. \/ Finish(j)
        \/ Retry(j) /\ (j[1] \in lost' \/ UNCHANGED chainVars)
        \/ GiveUp(j)
    BY <1>4 DEF Send
  <2>2. GiveUp(j) => Finish(j) \/ Throw(j)
    BY DEF GiveUp
  <2> QED
    BY <1>2, <1>4, <2>1, <2>2 DEF Send, chainVars
<1>5. CASE Inputs(j) \/ Decline(j) \/ Work(j) \/ Prove(j)
  BY <1>5 DEF Inputs, Decline, Work, Prove, chainVars
<1> QED
  BY <1>3, <1>4, <1>5 DEF Step

\* What a job sends, it sends for its own request, from the status that waits for it.
LEMMA StepAnswers ==
    ASSUME BookInv, NEW j \in Jobs, Step(j)
    PROVE  \/ requests' = requests
           \/ /\ Waits(j[1], j[2])
              /\ \A r \in Requests : r # j[1] => requests'[r] = requests[r]
<1>1. /\ ChainInv /\ WorkType /\ j[1] \in Requests /\ j[2] \in Kinds
      /\ stage[j].at \in StagesOf(j[2])
  BY JobIs, JobStateType DEF BookInv, WorkType
<1>2. CASE Send(j)
  <2>1. PICK call : call = CallOf(stage[j].at)
    OBVIOUS
  <2>2. /\ call \in Calls /\ stage[j].at \in {"delivering", "rejecting", "resolving"}
        /\ Mined(call, j[1]) \/ UNCHANGED chainVars
    BY <1>2, <2>1, CallsOf DEF Send, Reverts
  <2>3. CASE Mined(call, j[1])
    <3>1. \A r \in Requests : r # j[1] => requests'[r] = requests[r]
      BY <1>1, <2>2, <2>3, MinedMoves
    <3>2. \/ j[2] = "order" /\ call \in {"deliver", "reject"}
          \/ j[2] = "challenge" /\ call = "resolveChallenge"
      BY <1>1, <2>1, <2>2 DEF StagesOf, CallOf, Kinds
    <3>3. Waits(j[1], j[2])
      BY <1>1, <2>2, <2>3, <3>2, MinedFrom DEF Waits, WaitsAt
    <3> QED
      BY <3>1, <3>3
  <2> QED
    BY <2>2, <2>3 DEF chainVars
<1>3. CASE UNCHANGED chainVars
  BY <1>3 DEF chainVars
<1> QED
  BY <1>2, <1>3 DEF Step, ReadStatus, Inputs, Decline, Work, Prove

LEMMA AnswerStep ==
    ASSUME BookInv, AnswerInv, NEW i \in Jobs, Step(i)
    PROVE  AnswerInv'
<1> SUFFICES ASSUME NEW j \in Jobs, stage'[j].at # "none", j[1] \notin lost', "stale" \notin cause'[j[1]]
             PROVE  requests'[j[1]].status \in AnswersFrom(j[2], stage'[j].at)
  BY DEF AnswerInv
<1>1. /\ WorkType /\ OneHandler /\ OneHandler' /\ lost \subseteq lost' /\ cause[j[1]] \subseteq cause'[j[1]]
      /\ j[1] \in Requests /\ j[2] \in Kinds /\ i[1] \in Requests /\ i[2] \in Kinds
      /\ stage[i].at # "none"
  BY StepServes, StepMemory, StepBook, JobIs DEF BookInv, Serves
<1>2. PICK s : stage' = [stage EXCEPT ![i] = s]
  BY StepServes DEF Serves, Goes
<1>3. CASE j = i
  <2>1. CASE requests' = requests /\ stage[j].at # "status"
    <3>1. requests[j[1]].status \in AnswersFrom(j[2], stage[j].at)
      BY <1>1, <1>3 DEF AnswerInv
    <3>2. requests'[j[1]].status = requests[j[1]].status
      BY <2>1
    <3>3. requests'[j[1]].status \in {"Pending", "Expired"} => requests'[j[1]].status \in Status
      BY DEF Status, Live, Terminal
    <3> QED
      BY <2>1, <3>1, <3>2, <3>3 DEF AnswersFrom
  <2>2. CASE requests' = requests /\ j[2] = "order" /\ requests[j[1]].status = "Pending"
    BY <2>2 DEF AnswersFrom, Status, Live
  <2> QED
    BY <1>3, <2>1, <2>2, StepGoesOn
<1>4. CASE j # i
  <2>1. stage'[j] = stage[j] /\ stage[j].at # "none"
    BY <1>1, <1>2, <1>4 DEF WorkType
  <2>2. requests[j[1]].status \in AnswersFrom(j[2], stage[j].at)
    BY <1>1, <2>1 DEF AnswerInv
  <2>3. CASE requests'[j[1]] = requests[j[1]]
    BY <2>1, <2>2, <2>3
  <2>4. CASE requests'[j[1]] # requests[j[1]]
    <3>1. Waits(i[1], i[2]) /\ i[1] = j[1]
      BY <1>1, <2>4, StepAnswers
    <3>2. i[2] # j[2]
      <4>1. i[3] = 1 /\ j[3] = 1
        BY <1>1, <2>1 DEF OneHandler
      <4>2. i = <<i[1], i[2], i[3]>> /\ j = <<j[1], j[2], j[3]>>
        BY JobIs
      <4>3. ASSUME i[2] = j[2] PROVE FALSE
        BY <1>4, <3>1, <4>1, <4>2, <4>3
      <4> QED
        BY <4>3
    <3>3. j[2] = "order" /\ stage[j].at = "status"
      BY <1>1, <2>2, <3>1, <3>2 DEF Kinds, Waits, WaitsAt, AnswersFrom
    <3>4. requests'[j[1]].status \in Status
      <4>1. requests' \in [Requests -> Request]
        BY NextMovesChain, ChainMoves DEF BookInv, Next
      <4> QED
        BY <1>1, <4>1 DEF Request
    <3> QED
      BY <2>1, <3>3, <3>4 DEF AnswersFrom
  <2> QED
    BY <2>3, <2>4
<1> QED
  BY <1>3, <1>4

LEMMA WastedStep ==
    ASSUME BookInv, AnswerInv, wasted = {}, NEW j \in Jobs, Step(j)
    PROVE  wasted' = {}
<1>1. /\ j[1] \in Requests /\ j[2] \in Kinds /\ stage[j].at \in StagesOf(j[2])
  BY JobIs, JobStateType DEF BookInv, WorkType
<1>2. CASE Send(j)
  <2>1. PICK call : call = CallOf(stage[j].at)
    OBVIOUS
  <2>2. \/ UNCHANGED wasted
        \/ wasted' = IF requests[j[1]].status \in OwnDoing(call)
                        /\ j[1] \notin lost /\ "stale" \notin cause[j[1]]
                     THEN wasted \cup {j[1]} ELSE wasted
    BY <1>2, <2>1 DEF Send, history
  <2>3. ASSUME j[1] \notin lost, "stale" \notin cause[j[1]]
        PROVE  requests[j[1]].status \notin OwnDoing(call)
    <3>1. stage[j].at \in {"delivering", "rejecting", "resolving"}
      BY <1>2 DEF Send
    <3>2. requests[j[1]].status \in AnswersFrom(j[2], stage[j].at)
      BY <2>3, <3>1 DEF AnswerInv
    <3>3. CASE j[2] = "order"
      <4>1. requests[j[1]].status \in {"Pending", "Expired"} /\ call # "resolveChallenge"
        BY <1>1, <2>1, <3>1, <3>2, <3>3 DEF AnswersFrom, StagesOf, CallOf
      <4> QED
        BY <4>1 DEF OwnDoing
    <3>4. CASE j[2] = "challenge"
      <4>1. requests[j[1]].status \in {"Challenged", "Faulted"} /\ call = "resolveChallenge"
        BY <1>1, <2>1, <3>1, <3>2, <3>4 DEF AnswersFrom, StagesOf, CallOf
      <4> QED
        BY <4>1 DEF OwnDoing
    <3> QED
      BY <1>1, <3>3, <3>4 DEF Kinds
  <2> QED
    BY <2>2, <2>3
<1>3. CASE UNCHANGED wasted
  BY <1>3
<1> QED
  BY <1>2, <1>3 DEF Step, ReadStatus, Inputs, Decline, Work, Prove

LEMMA AnswerNext ==
    ASSUME BookInv, AnswerInv, wasted = {}, [Next]_vars
    PROVE  AnswerInv' /\ wasted' = {}
<1>1. /\ ChainInv /\ ChainStep /\ WorkType /\ OneHandler /\ KnownInv
      /\ \A r \in Requests : cause[r] \subseteq cause'[r]
  BY NextMovesChain, BookNext DEF BookInv
<1>2. requests \in [Requests -> Request] /\ requests' \in [Requests -> Request]
  BY <1>1, ChainMoves DEF ChainInv, ChainTypeOK
\* Nobody else answers a request that a job serves.
<1>3. ASSUME NEW j \in Jobs, stage[j].at # "none", World,
             requests[j[1]].status \in AnswersFrom(j[2], stage[j].at)
      PROVE  requests'[j[1]].status \in AnswersFrom(j[2], stage[j].at)
  <2>1. j[1] \in Requests /\ j[2] \in Kinds /\ j = <<j[1], j[2], 1>>
    BY <1>1, <1>3, JobIs DEF OneHandler
  <2>2. CASE requests'[j[1]] = requests[j[1]]
    BY <1>3, <2>2
  <2>3. CASE j[2] = "order" /\ stage[j].at = "status"
    BY <1>2, <2>1, <2>3 DEF AnswersFrom, Request
  <2>4. ASSUME ~(j[2] = "order" /\ stage[j].at = "status"), requests'[j[1]] # requests[j[1]]
        PROVE  requests'[j[1]].status \in AnswersFrom(j[2], stage[j].at)
    <3>1. requests[j[1]].status \in IF j[2] = "order" THEN {"Pending", "Expired"}
                                    ELSE {"Challenged", "Faulted"}
      BY <1>3, <2>1, <2>4 DEF AnswersFrom, Kinds
    <3>2. PICK s \in Requests :
            \/ requestExecution(s) \/ challenge(s)
            \/ \E call \in Calls \ {"deliver", "reject", "resolveChallenge"} : Mined(call, s)
      BY <1>3 DEF World
    <3>3. CASE requestExecution(s) \/ challenge(s)
      BY <1>2, <2>1, <2>4, <3>1, <3>3 DEF requestExecution, challenge
    <3>4. ASSUME NEW call \in Calls \ {"deliver", "reject", "resolveChallenge"}, Mined(call, s)
          PROVE  requests'[j[1]].status \in AnswersFrom(j[2], stage[j].at)
      <4>1. s = j[1] /\ call \in Calls
        BY <1>1, <2>1, <2>4, <3>4, MinedMoves
      <4>2. \/ call = "markExpired" /\ requests[s].status = "Pending"
            \/ call = "slashUnresolvedChallenge" /\ requests[s].status = "Challenged"
        BY <1>1, <3>1, <3>4, <4>1, MinedFrom DEF Calls
      <4>3. \/ requests[s].status = "Pending" /\ requests'[s].status = "Expired"
            \/ requests[s].status = "Challenged" /\ requests'[s].status = "Faulted"
        BY <1>1, <3>4, <4>1, <4>2, MinedTo
      <4>4. AnswersFrom(j[2], stage[j].at) = IF j[2] = "order" THEN {"Pending", "Expired"}
                                             ELSE {"Challenged", "Faulted"}
        BY <2>1, <2>4 DEF AnswersFrom, Kinds
      <4>5. CASE j[2] = "order"
        BY <3>1, <4>1, <4>3, <4>4, <4>5
      <4>6. CASE j[2] # "order"
        BY <3>1, <4>1, <4>3, <4>4, <4>6
      <4> QED
        BY <4>5, <4>6
    <3> QED
      BY <3>2, <3>3, <3>4
  <2> QED
    BY <2>2, <2>3, <2>4
<1>4. CASE Start \/ Crash \/ World \/ Clock
  <2>1. /\ \A j \in Jobs : stage'[j] = stage[j] \/ stage'[j].at = "none"
        /\ UNCHANGED <<lost, wasted>>
    BY <1>4, OthersBook
  <2>2. ASSUME NEW j \in Jobs, stage'[j].at # "none", j[1] \notin lost', "stale" \notin cause'[j[1]]
        PROVE  requests'[j[1]].status \in AnswersFrom(j[2], stage'[j].at)
    <3>1. stage'[j] = stage[j] /\ j[1] \notin lost /\ "stale" \notin cause[j[1]]
      BY <1>1, <2>1, <2>2, JobIs
    <3>2. requests[j[1]].status \in AnswersFrom(j[2], stage[j].at)
      BY <2>2, <3>1 DEF AnswerInv
    <3>3. CASE World
      BY <1>3, <2>2, <3>1, <3>2, <3>3
    <3>4. CASE ~World
      <4>1. requests' = requests
        BY <1>4, <3>4 DEF Start, Crash, Clock, Seal, chainVars
      <4> QED
        BY <3>1, <3>2, <4>1
    <3> QED
      BY <3>3, <3>4
  <2> QED
    BY <2>1, <2>2 DEF AnswerInv
<1>5. ASSUME NEW r \in Requests, NEW kind \in Kinds, NEW first \in StagesOf(kind), first # "none",
             stage' = stage \/ stage' = Once(<<r, kind>>, first),
             UNCHANGED <<chainVars, lost, wasted>>,
             \/ "stale" \in cause'[r] \/ stage' = stage
             \/ requests[r].status \in AnswersFrom(kind, first)
      PROVE  AnswerInv' /\ wasted' = {}
  <2>1. PICK next : next = Once(<<r, kind>>, first)
    OBVIOUS
  <2>2. /\ next \in [Jobs -> [at : Stages, tries : Nat]]
        /\ \A j \in Jobs : next[j] \in JobState(j[2])
        /\ \A j \in Jobs : next[j].at # "none" => j[3] = 1
        /\ \A j \in Jobs : next[j] = stage[j] \/ (j = <<r, kind, 1>> /\ next[j].at = first)
        /\ <<r, kind>> \in done \/ next[<<r, kind, 1>>].at # "none"
    BY <1>1, <1>5, <2>1, OnceRuns
  <2>3. requests' = requests /\ lost' = lost
    BY <1>5 DEF chainVars
  <2>4. ASSUME NEW j \in Jobs, stage'[j].at # "none", j[1] \notin lost', "stale" \notin cause'[j[1]]
        PROVE  requests'[j[1]].status \in AnswersFrom(j[2], stage'[j].at)
    <3>1. CASE stage'[j] = stage[j]
      <4>1. "stale" \notin cause[j[1]]
        BY <1>1, <2>4, JobIs
      <4> QED
        BY <2>3, <2>4, <3>1, <4>1 DEF AnswerInv
    <3>2. CASE stage'[j] # stage[j]
      <4>1. j = <<r, kind, 1>> /\ stage'[j].at = first /\ stage' # stage
        BY <1>5, <2>1, <2>2, <3>2
      <4>2. j[1] = r /\ j[2] = kind
        BY <4>1
      <4>3. requests[r].status \in AnswersFrom(kind, first)
        BY <1>5, <2>4, <4>1, <4>2
      <4> QED
        BY <2>3, <4>1, <4>2, <4>3
    <3> QED
      BY <3>1, <3>2
  <2> QED
    BY <1>5, <2>4 DEF AnswerInv
<1>6. ASSUME NEW r \in Requests, handleRequest(r) PROVE AnswerInv' /\ wasted' = {}
  <2>1. /\ stage' = stage \/ stage' = Once(<<r, "order">>, "status")
        /\ UNCHANGED <<chainVars, lost, wasted>>
    BY <1>6, OrderHandled
  <2>2. "order" \in Kinds /\ "status" \in StagesOf("order")
    BY DEF Kinds, StagesOf
  <2>3. requests[r].status \in AnswersFrom("order", "status")
    BY <1>2 DEF AnswersFrom, Request
  <2> QED
    BY <1>5, <2>1, <2>2, <2>3
<1>7. ASSUME NEW r \in Requests, handleChallenge(r) PROVE AnswerInv' /\ wasted' = {}
  <2>1. /\ stage' = stage \/ stage' = Once(<<r, "challenge">>, "inputs")
        /\ UNCHANGED <<chainVars, lost, wasted>>
        /\ \/ "stale" \in cause'[r] \/ stage' = stage \/ requests[r].status = "Challenged"
    BY <1>7, ChallengeHandled
  <2>2. "challenge" \in Kinds /\ "inputs" \in StagesOf("challenge")
    BY DEF Kinds, StagesOf
  <2>3. "Challenged" \in AnswersFrom("challenge", "inputs")
    BY DEF AnswersFrom
  <2> QED
    BY <1>5, <2>1, <2>2, <2>3
<1>8. ASSUME NEW j \in Jobs, Step(j) PROVE AnswerInv' /\ wasted' = {}
  BY <1>8, AnswerStep, WastedStep
<1>9. CASE UNCHANGED vars
  <2>1. UNCHANGED <<requests, stage, lost, cause, wasted>>
    BY <1>9 DEF vars, chainVars, workVars, history
  <2> QED
    BY <2>1 DEF AnswerInv
<1> QED
  BY <1>4, <1>6, <1>7, <1>8, <1>9 DEF Next

-----------------------------------------------------------------------------

LEMMA RelayerInit == Init => SealedInv /\ DoneInv /\ ServedInv /\ FaultInv /\ AnswerInv /\ wasted = {}
<1> SUFFICES ASSUME Init PROVE SealedInv /\ DoneInv /\ ServedInv /\ FaultInv /\ AnswerInv /\ wasted = {}
  OBVIOUS
<1>1. \A r \in Requests : requests[r].status = "None"
  BY DEF Init, ChainInit, NoRequest
<1>2. \A r \in Requests, kind \in Kinds : ~Waits(r, kind)
  BY <1>1 DEF Waits, WaitsAt
<1>3. \A j \in Jobs : stage[j].at = "none"
  BY DEF Init, None
<1>4. wasted = {}
  BY DEF Init
<1> QED
  BY <1>1, <1>2, <1>3, <1>4 DEF SealedInv, DoneInv, ServedInv, FaultInv, AnswerInv

LEMMA AnswersInductive ==
    BookInv /\ AnswerInv /\ wasted = {} /\ [Next]_vars => (BookInv /\ AnswerInv /\ wasted = {})'
BY BookNext, AnswerNext

\* However often an order or a challenge reaches the process, by its listeners, a
\* reorg or the backfill of a start, and whatever node, crash or retry comes between:
\* no transaction of its reverts on its own earlier answer, save one whose receipt was
\* lost or whose check a node answered for an older block.
THEOREM AnsweredAtMostOnce == Spec => []AnsweredOnce
<1>1. Init => BookInv /\ AnswerInv /\ wasted = {}
  BY BookInit, RelayerInit
<1>2. BookInv /\ AnswerInv /\ wasted = {} => AnsweredOnce
  BY DEF AnsweredOnce
<1> QED
  BY <1>1, <1>2, AnswersInductive, PTL DEF Spec

\* An order the Backlog marks done is answered on chain, or the process said why it
\* gave it up: no job, live or backfilled, ends in done on a request that waits.
THEOREM DoneAlwaysAnswered == Spec => []DoneIsAnswered
<1>1. BookInv /\ DoneInv => DoneIsAnswered
  <2>1. "order" \in Kinds /\ WaitsAt("order") = "Pending" /\ GaveUp("order") = {"undeclinable", "stale"}
    BY DEF Kinds, WaitsAt, GaveUp
  <2> QED
    BY <2>1 DEF DoneInv, DoneIsAnswered, Waits
<1>2. Init => BookInv /\ DoneInv
  BY BookInit, RelayerInit
<1>3. BookInv /\ DoneInv /\ [Next]_vars => (BookInv /\ DoneInv)'
  BY BookNext, DoneNext
<1> QED
  BY <1>1, <1>2, <1>3, PTL DEF Spec

\* The escalation window is there at all: with none the answer to a challenge is late
\* when the event arrives (the deployment's is six hours).
EscalationExists == EscalationWindow # 0

ServingInv == BookInv /\ SealedInv /\ DoneInv /\ ServedInv /\ FaultInv

LEMMA ServingInductive ==
    ASSUME EscalationExists
    PROVE  /\ Init => ServingInv
           /\ ServingInv /\ [Next]_vars => ServingInv'
<1>1. Init => ServingInv
  BY BookInit, RelayerInit DEF ServingInv
<1>2. ASSUME ServingInv, [Next]_vars PROVE ServingInv'
  <2>1. /\ BookInv /\ SealedInv /\ DoneInv /\ ServedInv /\ FaultInv
        /\ EscalationWindow # 0 /\ ChainInv /\ ChainStep
    BY <1>2, NextMovesChain DEF ServingInv, EscalationExists, BookInv
  <2>2. BookInv'
    BY <1>2, <2>1, BookNext
  <2>3. SealedInv'
    BY <2>1, SealedNext
  <2>4. DoneInv'
    BY <1>2, <2>1, DoneNext
  <2>5. ServedInv'
    BY <1>2, <2>1, ServedNext
  <2>6. FaultInv'
    BY <1>2, <2>1, FaultNext
  <2> QED
    BY <2>2, <2>3, <2>4, <2>5, <2>6 DEF ServingInv
<1> QED
  BY <1>1, <1>2

\* A request that ends in a fault, undelivered or unanswered, ends so for a reason the
\* process could name: the handlers, the Backlog and the backfill drop none between
\* them, however many requests, crashes and starts there are.
THEOREM FaultsHaveACause == ASSUME EscalationExists PROVE Spec => []FaultHasACause
<1>1. ServingInv => FaultHasACause
  <2>1. ASSUME ServingInv PROVE TypeOK
    <3>1. /\ ChainTypeOK /\ WorkType
      BY <2>1 DEF ServingInv, BookInv, ChainInv
    <3>2. \A j \in Jobs : stage[j].tries < Attempts(stage[j].at)
      BY <3>1, JobStateType, JobIs DEF WorkType
    <3> QED
      BY <3>1, <3>2 DEF TypeOK, WorkType, Attempts
  <2> QED
    BY <2>1 DEF ServingInv, FaultInv, FaultHasACause
<1> QED
  BY <1>1, ServingInductive, PTL DEF Spec

=============================================================================
