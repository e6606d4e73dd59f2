-------------------------- MODULE WatchtowerProofs --------------------------
(***************************************************************************)
(* For every set of requests, all windows, lags and retries: what the      *)
(* watchtower sends is only ever refused because somebody was quicker, and *)
(* it forgets no request.                                                  *)
(***************************************************************************)
EXTENDS Watchtower, RequestChainTheorems

\* The process's memory: its cursor and its clock are of sealed blocks.
MemoryInv ==
    /\ up \in BOOLEAN /\ crashes \in 0 .. MaxCrashes
    /\ cursor \in Nat /\ cursor <= now
    /\ nowSec \in Nat /\ nowSec < now
    /\ tracked \subseteq Requests /\ todo \subseteq tracked
    /\ acting \in Acting
    /\ misread \subseteq Requests

\* A call is due, or the request has gone past the status it starts from.
DueOrPast(call, r) ==
    Requires(call, r) \/ Rank(StartsFrom[call]) < Rank(requests[r].status)

SendInv == acting # Idle => DueOrPast(acting.call, acting.on)

LEMMA ActingType ==
    ASSUME MemoryInv, acting # Idle
    PROVE  /\ acting.call \in Enforcements /\ acting.on \in Requests
           /\ acting.tries \in 0 .. Attempts - 1
           /\ acting = [call |-> acting.call, on |-> acting.on, tries |-> acting.tries]
BY DEF MemoryInv, Acting

LEMMA EnforcementCalls == Enforcements \subseteq Calls
BY DEF Enforcements, Calls

LEMMA Starts ==
    /\ StartsFrom["markExpired"] = "Pending" /\ StartsFrom["finalize"] = "Delivered"
    /\ StartsFrom["slashUnresolvedChallenge"] = "Challenged"
    /\ StartsFrom["settleDefault"] = "Finalized"
BY DEF StartsFrom, Enforcements

LEMMA NextMovesChain == MemoryInv /\ [Next]_vars => ChainStep
<1> SUFFICES ASSUME MemoryInv, [Next]_vars PROVE ChainStep
  OBVIOUS
<1>1. CASE World
  BY <1>1 DEF World, ChainStep
<1>2. CASE ActMined
  <2>1. acting.call \in Calls /\ acting.on \in Requests
    BY <1>2, ActingType, EnforcementCalls DEF ActMined
  <2> QED
    BY <1>2, <2>1 DEF ActMined, ChainStep
<1>3. CASE UNCHANGED chainVars
  BY <1>3 DEF ChainStep
<1> QED
  BY <1>1, <1>2, <1>3 DEF Next, Loop, Start, Scan, PassFails, Attend, ActFails, Crash, vars

-----------------------------------------------------------------------------

\* What was due stays due until the request moves: deadlines only pass.
LEMMA StillDue ==
    ASSUME ChainInv, ChainStep, NEW call \in Enforcements, NEW r \in Requests, DueOrPast(call, r)
    PROVE  DueOrPast(call, r)'
<1>1. /\ Became(requests[r], requests'[r]) /\ now' \in Nat /\ now <= now' /\ now \in Nat
      /\ requests[r] \in Request
  BY ChainMoves DEF ChainInv, ChainTypeOK
<1>2. PICK p : p = requests[r] /\ p \in Request
  BY <1>1
<1>3. /\ p.createdAt \in Nat /\ p.deliverBy \in Nat /\ p.finalizeAt \in Nat
      /\ p.escalationDeadline \in Nat /\ p.settleBy \in Nat
  BY <1>2 DEF Request
<1>4. CASE requests'[r] = requests[r]
  <2>1. Requires(call, r) => Requires(call, r)'
    <3>1. CASE call = "markExpired"
      BY <1>1, <1>2, <1>3, <1>4, <3>1 DEF Requires
    <3>2. CASE call = "finalize"
      BY <1>1, <1>2, <1>3, <1>4, <3>2 DEF Requires
    <3>3. CASE call = "slashUnresolvedChallenge"
      BY <1>1, <1>2, <1>3, <1>4, <3>3 DEF Requires
    <3>4. CASE call = "settleDefault"
      BY <1>1, <1>2, <1>3, <1>4, <3>4 DEF Requires
    <3> QED
      BY <3>1, <3>2, <3>3, <3>4 DEF Enforcements
  <2> QED
    BY <1>4, <2>1 DEF DueOrPast
<1>5. CASE Rank(requests[r].status) < Rank(requests'[r].status)
  <2>1. Requires(call, r) => requests[r].status = StartsFrom[call]
    BY Starts DEF Requires, Enforcements
  <2>2. \A status : Rank(status) \in Nat
    BY RankType
  <2>3. Rank(StartsFrom[call]) < Rank(requests'[r].status)
    BY <1>5, <2>1, <2>2 DEF DueOrPast
  <2> QED
    BY <2>3 DEF DueOrPast
<1> QED
  BY <1>1, <1>4, <1>5 DEF Became

\* A call found due in an answer, by the clock of an older block, is due or past.
LEMMA DueWhenRead ==
    ASSUME ChainInv, MemoryInv, NEW v \in Answers, NEW r \in Requests,
           NEW call \in Due(v.requests[r])
    PROVE  call \in Enforcements /\ DueOrPast(call, r)
<1>1. PICK q : q = v.requests[r]
  OBVIOUS
<1>2. q \in Request /\ Became(q, requests[r]) /\ now \in Nat /\ nowSec \in Nat /\ nowSec < now
  BY <1>1, Answered DEF MemoryInv
<1>3. /\ q.deliverBy \in Nat /\ q.finalizeAt \in Nat
      /\ q.escalationDeadline \in Nat /\ q.settleBy \in Nat
  BY <1>2 DEF Request
<1>4. \/ call = "markExpired" /\ q.status = "Pending" /\ nowSec > q.deliverBy
      \/ call = "finalize" /\ q.status = "Delivered" /\ nowSec >= q.finalizeAt
      \/ call = "slashUnresolvedChallenge" /\ q.status = "Challenged"
           /\ nowSec > q.escalationDeadline
      \/ call = "settleDefault" /\ q.status = "Finalized" /\ nowSec > q.settleBy
  BY <1>1 DEF Due
<1>5. call \in Enforcements /\ q.status = StartsFrom[call]
  BY <1>4, Starts DEF Enforcements
<1>6. CASE requests[r] = q
  <2>1. Requires(call, r)
    <3>1. CASE call = "markExpired"
      BY <1>2, <1>3, <1>4, <1>6, <3>1 DEF Requires
    <3>2. CASE call = "finalize"
      BY <1>2, <1>3, <1>4, <1>6, <3>2 DEF Requires
    <3>3. CASE call = "slashUnresolvedChallenge"
      BY <1>2, <1>3, <1>4, <1>6, <3>3 DEF Requires
    <3>4. CASE call = "settleDefault"
      BY <1>2, <1>3, <1>4, <1>6, <3>4 DEF Requires
    <3> QED
      BY <1>5, <3>1, <3>2, <3>3, <3>4 DEF Enforcements
  <2> QED
    BY <1>5, <2>1 DEF DueOrPast
<1>7. CASE Rank(q.status) < Rank(requests[r].status)
  BY <1>5, <1>7 DEF DueOrPast
<1> QED
  BY <1>2, <1>6, <1>7 DEF Became

LEMMA NextAttemptType ==
    ASSUME MemoryInv, acting # Idle
    PROVE  /\ NextAttempt \in Acting
           /\ NextAttempt # Idle => NextAttempt.call = acting.call /\ NextAttempt.on = acting.on
<1>1. /\ acting.call \in Enforcements /\ acting.on \in Requests
      /\ acting.tries \in 0 .. Attempts - 1
      /\ acting = [call |-> acting.call, on |-> acting.on, tries |-> acting.tries]
  BY ActingType
<1>2. PICK call \in Enforcements, on \in Requests, tries \in Nat :
        acting = [call |-> call, on |-> on, tries |-> tries]
  BY <1>1, WatchtowerAssumption
<1>3. CASE tries + 1 < Attempts
  <2>1. PICK n : n = tries + 1 /\ n \in 0 .. Attempts - 1
    BY <1>3, WatchtowerAssumption
  <2>2. NextAttempt = [call |-> call, on |-> on, tries |-> n]
    BY <1>2, <1>3, <2>1 DEF NextAttempt
  <2> QED
    BY <1>2, <2>1, <2>2 DEF Acting
<1>4. CASE ~(tries + 1 < Attempts)
  <2>1. NextAttempt = Idle
    BY <1>2, <1>4 DEF NextAttempt
  <2> QED
    BY <2>1 DEF Acting
<1> QED
  BY <1>3, <1>4

\* The parts of MemoryInv that are about the clocks.
LEMMA StartBehind ==
    ASSUME ChainInv, NEW v \in Answers
    PROVE  /\ StartCursor(v.height) \in Nat /\ StartCursor(v.height) <= now
           /\ NextCursor(v.height) \in Nat /\ NextCursor(v.height) <= now
           /\ v.height \in Nat /\ v.height < now
<1>1. v.height \in Nat /\ v.height < now /\ now \in Nat
  BY DEF Answers, ChainInv, ChainTypeOK, ViewOf, View
<1>2. Lookback \in Nat
  BY WatchtowerAssumption
<1> QED
  BY <1>1, <1>2 DEF StartCursor, NextCursor

LEMMA MemoryNext == ChainInv /\ MemoryInv /\ [Next]_vars => MemoryInv'
<1> SUFFICES ASSUME ChainInv, MemoryInv, [Next]_vars PROVE MemoryInv'
  OBVIOUS
<1>1. now' \in Nat /\ now <= now' /\ now \in Nat
  BY NextMovesChain, ChainMoves DEF ChainInv, ChainTypeOK
<1>2. /\ cursor \in Nat /\ cursor <= now' /\ nowSec \in Nat /\ nowSec < now'
  BY <1>1 DEF MemoryInv
<1>3. CASE Start
  <2>1. PICK v \in Answers : cursor' = StartCursor(v.height)
    BY <1>3 DEF Start
  <2>2. cursor' \in Nat /\ cursor' <= now'
    BY <1>1, <2>1, StartBehind
  <2> QED
    BY <1>2, <1>3, <2>2 DEF Start, MemoryInv
<1>4. CASE Scan
  <2>1. PICK head \in {v.height : v \in Answers}, logs \in Answers, latest \in Answers :
          LET found == RequestedIn(logs, cursor, head)
          IN  /\ IF head >= cursor
                 THEN /\ tracked' = tracked \cup found
                      /\ cursor' = NextCursor(head)
                      /\ misread' = (misread \ found)
                                    \cup (RequestedIn(tip, cursor, head) \ found)
                 ELSE UNCHANGED <<tracked, cursor, misread>>
              /\ todo' = tracked'
              /\ nowSec' = latest.height
    BY <1>4 DEF Scan
  <2>2. UNCHANGED <<chainVars, up, crashes, acting>>
    BY <1>4 DEF Scan
  <2>3. nowSec' \in Nat /\ nowSec' < now'
    BY <1>1, <2>1, <2>2, StartBehind DEF chainVars
  <2>4. cursor' \in Nat /\ cursor' <= now'
    BY <1>1, <1>2, <2>1, <2>2, StartBehind DEF chainVars
  <2>5. RequestedIn(logs, cursor, head) \subseteq Requests
        /\ RequestedIn(tip, cursor, head) \subseteq Requests
    BY DEF RequestedIn
  <2>6. tracked' \subseteq Requests /\ misread' \subseteq Requests /\ todo' \subseteq tracked'
    BY <2>1, <2>5 DEF MemoryInv
  <2> QED
    BY <2>2, <2>3, <2>4, <2>6 DEF MemoryInv
<1>5. CASE PassFails
  BY <1>2, <1>5 DEF PassFails, MemoryInv
<1>6. ASSUME NEW r \in Requests, Attend(r) PROVE MemoryInv'
  <2>1. PICK v \in Answers :
          LET q == v.requests[r]
          IN  /\ tracked' = IF q.status \in Over THEN tracked \ {r} ELSE tracked
              /\ misread' = IF q.status = "None" THEN misread \cup {r} ELSE misread
              /\ acting' \in IF q.status \notin Over /\ Due(q) # {}
                             THEN [call : Due(q), on : {r}, tries : {0}]
                             ELSE {Idle}
    BY <1>6 DEF Attend
  <2>2. acting' \in Acting
    <3>1. CASE acting' = Idle
      BY <3>1 DEF Acting
    <3>2. CASE acting' \in [call : Due(v.requests[r]), on : {r}, tries : {0}]
      <4>1. Due(v.requests[r]) \subseteq Enforcements
        BY DEF Due, Enforcements
      <4>2. 0 \in 0 .. Attempts - 1
        BY WatchtowerAssumption
      <4> QED
        BY <3>2, <4>1, <4>2 DEF Acting
    <3> QED
      BY <2>1, <3>1, <3>2
  <2>3. todo' \subseteq tracked' /\ tracked' \subseteq Requests /\ misread' \subseteq Requests
    BY <1>6, <2>1 DEF Attend, MemoryInv
  <2> QED
    BY <1>2, <1>6, <2>2, <2>3 DEF Attend, MemoryInv
<1>7. CASE ActMined
  <2>1. acting' \in Acting
    BY <1>7, NextAttemptType DEF ActMined, Acting
  <2> QED
    BY <1>2, <1>7, <2>1 DEF ActMined, MemoryInv
<1>8. CASE ActFails
  <2>1. acting' \in Acting
    BY <1>8, NextAttemptType DEF ActFails, Acting
  <2> QED
    BY <1>2, <1>8, <2>1 DEF ActFails, MemoryInv
<1>9. CASE Crash
  <2>1. crashes' \in 0 .. MaxCrashes
    BY <1>9, WatchtowerAssumption DEF Crash, MemoryInv
  <2>2. cursor' \in Nat /\ cursor' <= now' /\ nowSec' \in Nat /\ nowSec' < now'
    BY <1>1, <1>9 DEF Crash, MemoryInv
  <2>3. acting' \in Acting
    BY <1>9 DEF Crash, Acting
  <2> QED
    BY <1>9, <2>1, <2>2, <2>3 DEF Crash, MemoryInv
<1>10. CASE UNCHANGED processVars
  BY <1>2, <1>10 DEF processVars, MemoryInv
<1> QED
  BY <1>3, <1>4, <1>5, <1>6, <1>7, <1>8, <1>9, <1>10 DEF Next, World, Loop, vars

LEMMA SendNext == ChainInv /\ MemoryInv /\ SendInv /\ [Next]_vars => SendInv'
<1> SUFFICES ASSUME ChainInv, MemoryInv, SendInv, [Next]_vars, acting' # Idle
             PROVE  DueOrPast(acting.call, acting.on)'
  BY DEF SendInv
<1>1. ChainStep
  BY NextMovesChain
<1>2. ASSUME acting # Idle, acting'.call = acting.call, acting'.on = acting.on
      PROVE  DueOrPast(acting.call, acting.on)'
  <2>1. PICK call \in Enforcements, r \in Requests : call = acting.call /\ r = acting.on
    BY <1>2, ActingType
  <2>2. DueOrPast(call, r)
    BY <1>2, <2>1 DEF SendInv
  <2>3. DueOrPast(call, r)'
    BY <1>1, <2>2, StillDue
  <2> QED
    BY <1>2, <2>1, <2>3
<1>3. ASSUME NEW r \in Requests, Attend(r) PROVE DueOrPast(acting.call, acting.on)'
  <2>1. PICK v \in Answers :
          acting' \in IF v.requests[r].status \notin Over /\ Due(v.requests[r]) # {}
                      THEN [call : Due(v.requests[r]), on : {r}, tries : {0}] ELSE {Idle}
    BY <1>3 DEF Attend
  <2>2. PICK call \in Due(v.requests[r]) : call = acting'.call /\ acting'.on = r
    BY <2>1
  <2>3. call \in Enforcements /\ DueOrPast(call, r)
    BY DueWhenRead
  <2>4. DueOrPast(call, r)'
    BY <1>1, <2>3, StillDue
  <2> QED
    BY <2>2, <2>4
<1>4. CASE ActMined \/ ActFails
  <2>1. acting' = NextAttempt /\ acting # Idle
    BY <1>4 DEF ActMined, ActFails
  <2> QED
    BY <1>2, <2>1, NextAttemptType
<1>5. CASE UNCHANGED acting
  BY <1>2, <1>5
<1>6. CASE Crash
  BY <1>6 DEF Crash
<1> QED
  BY <1>3, <1>4, <1>5, <1>6 DEF Next, World, Loop, Start, Scan, PassFails, processVars, vars

-----------------------------------------------------------------------------

LEMMA WatchtowerInit == Init => ChainInv /\ MemoryInv /\ SendInv /\ NothingForgotten
<1> SUFFICES ASSUME Init PROVE ChainInv /\ MemoryInv /\ SendInv /\ NothingForgotten
  OBVIOUS
<1>1. ChainInv /\ now = 1
  BY ChainInvInit DEF Init, ChainInit
<1>2. crashes \in 0 .. MaxCrashes /\ acting \in Acting
  BY WatchtowerAssumption DEF Init, Acting
<1>3. MemoryInv
  <2>1. up \in BOOLEAN /\ cursor = 0 /\ nowSec = 0 /\ now = 1 /\ tracked = {} /\ todo = {}
        /\ misread = {}
    BY <1>1 DEF Init
  <2> QED
    BY <1>2, <2>1 DEF MemoryInv
<1> QED
  BY <1>1, <1>3 DEF Init, SendInv, NothingForgotten

LEMMA WatchtowerNext ==
    ChainInv /\ MemoryInv /\ SendInv /\ [Next]_vars => (ChainInv /\ MemoryInv /\ SendInv)'
BY NextMovesChain, ChainInvNext, MemoryNext, SendNext

\* The clock the loop runs by may be of an older block than the request, and both
\* of an older one than that the transaction lands in: it is refused only when
\* another call came first, whatever the windows and however far nodes lag.
THEOREM OnlyRacesAreEverLost == Spec => []OnlyRacesAreLost
<1>1. ChainInv /\ MemoryInv /\ SendInv => OnlyRacesAreLost
  <2> SUFFICES ASSUME ChainInv, MemoryInv, SendInv PROVE OnlyRacesAreLost
    OBVIOUS
  <2>1. TypeOK
    BY DEF TypeOK, ChainInv, MemoryInv
  <2>2. ASSUME acting # Idle
        PROVE  \/ Requires(acting.call, acting.on)
               \/ requests[acting.on].status # StartsFrom[acting.call]
    <3>1. \A status : Rank(status) \in Nat
      BY RankType
    <3>2. DueOrPast(acting.call, acting.on)
      BY <2>2 DEF SendInv
    <3> QED
      BY <3>1, <3>2 DEF DueOrPast
  <2> QED
    BY <2>1, <2>2 DEF OnlyRacesAreLost
<1> QED
  BY WatchtowerInit, WatchtowerNext, <1>1, PTL DEF Spec

\* The blocks a start goes back over hold every request that is not over: what the
\* 5000 blocks, or START_BLOCK, are for (watchtower.js:32).
StartsReachBack ==
    ~up => \A r \in Requests :
             requests[r].status \in Live => requests[r].createdAt >= StartCursor(tip.height)

LEMMA ForgetNext ==
    ChainInv /\ MemoryInv /\ StartsReachBack /\ NothingForgotten /\ [Next]_vars
      => NothingForgotten'
<1> SUFFICES ASSUME ChainInv, MemoryInv, StartsReachBack, NothingForgotten, [Next]_vars, up',
                    NEW r \in Requests,
                    requests'[r].status \in Live, requests'[r].createdAt < cursor'
             PROVE  r \in tracked' \cup misread'
  BY DEF NothingForgotten
<1>1. ChainStep
  BY NextMovesChain
<1>2. /\ Became(requests[r], requests'[r]) /\ requests[r] \in Request /\ requests'[r] \in Request
      /\ now \in Nat /\ cursor \in Nat /\ cursor <= now
  BY <1>1, ChainMoves DEF ChainInv, ChainTypeOK, MemoryInv
<1>3. requests[r].createdAt \in Nat /\ requests'[r].createdAt \in Nat
      /\ requests[r].status \in Status /\ requests'[r].status \in Status
  BY <1>2 DEF Request
\* While the cursor stays, a request it has passed was there before.
<1>4. ASSUME up, cursor' = cursor PROVE r \in tracked \cup misread
  <2>1. requests[r].status # "None"
    <3>1. SUFFICES ASSUME requests[r].status = "None" PROVE FALSE
      OBVIOUS
    <3>2. requests'[r].createdAt = now
      BY <1>1, <3>1, MadeNow DEF Live
    <3> QED
      BY <1>2, <1>4, <3>2
  <2>2. requests[r].status \in Live /\ requests'[r].createdAt = requests[r].createdAt
    <3>1. CASE requests'[r] = requests[r]
      BY <3>1
    <3>2. CASE Rank(requests[r].status) < Rank(requests'[r].status)
      <4>1. Rank(requests'[r].status) \in 1 .. 4 /\ Rank(requests[r].status) \in 0 .. 5
        BY <1>3, RankType
      <4>2. Rank(requests[r].status) # 0
        BY <1>3, <2>1, RankType
      <4>3. Rank(requests[r].status) \in 1 .. 4
        BY <3>2, <4>1, <4>2
      <4> QED
        BY <1>2, <1>3, <2>1, <3>2, <4>3, RankType DEF Became
    <3> QED
      BY <1>2, <3>1, <3>2 DEF Became
  <2> QED
    BY <1>4, <2>2 DEF NothingForgotten
<1>5. CASE Start
  <2>1. PICK v \in Answers : cursor' = StartCursor(v.height)
    BY <1>5 DEF Start
  <2>2. requests' = requests /\ ~up
    BY <1>5 DEF Start, chainVars
  <2>3. requests[r].createdAt >= StartCursor(tip.height)
    BY <2>2 DEF StartsReachBack
  <2>4. /\ v.height \in Nat /\ tip.height \in Nat /\ v.height <= tip.height
        /\ Lookback \in Nat
    BY WatchtowerAssumption, Answered
  <2>5. StartCursor(v.height) <= StartCursor(tip.height)
        /\ StartCursor(v.height) \in Nat /\ StartCursor(tip.height) \in Nat
    BY <2>4 DEF StartCursor
  <2> QED
    BY <1>3, <2>1, <2>2, <2>3, <2>5
<1>6. CASE Scan
  <2>1. PICK w \in Answers, logs \in Answers :
          LET found == RequestedIn(logs, cursor, w.height)
          IN  IF w.height >= cursor
              THEN /\ tracked' = tracked \cup found
                   /\ cursor' = NextCursor(w.height)
                   /\ misread' = (misread \ found) \cup (RequestedIn(tip, cursor, w.height) \ found)
              ELSE UNCHANGED <<tracked, cursor, misread>>
    BY <1>6 DEF Scan
  <2>2. requests' = requests /\ up
    BY <1>6 DEF Scan, Between, chainVars
  <2>3. CASE ~(w.height >= cursor)
    BY <1>4, <2>1, <2>2, <2>3
  <2>4. CASE w.height >= cursor
    <3>1. PICK found, there : /\ found = RequestedIn(logs, cursor, w.height)
                              /\ there = RequestedIn(tip, cursor, w.height)
      OBVIOUS
    <3>2. /\ tracked' = tracked \cup found /\ cursor' = w.height + 1
          /\ misread' = (misread \ found) \cup (there \ found)
      BY <2>1, <2>4, <3>1 DEF NextCursor
    <3>3. CASE requests[r].createdAt < cursor
      <4>1. r \in tracked \cup misread
        BY <2>2, <3>3 DEF NothingForgotten
      <4> QED
        BY <3>2, <4>1
    <3>4. CASE ~(requests[r].createdAt < cursor)
      <4>1. /\ w.height \in Nat /\ tip.height \in Nat /\ w.height <= tip.height
            /\ Became(tip.requests[r], requests[r]) /\ requests[r].status # "None"
            /\ requests[r].createdAt <= tip.height => tip.requests[r].status # "None"
        <5>1. tip \in Answers /\ requests[r].status # "None"
          BY <2>2 DEF Answers, Live
        <5> QED
          BY <5>1, Answered
      <4>2. requests[r].createdAt \in cursor .. w.height
        BY <1>2, <1>3, <2>2, <3>2, <3>4, <4>1
      <4>3. tip.requests[r].status # "None" /\ tip.requests[r].createdAt = requests[r].createdAt
        BY <1>3, <4>1, <4>2 DEF Became
      <4>4. r \in there
        BY <3>1, <4>2, <4>3 DEF RequestedIn
      <4> QED
        BY <3>2, <4>4
    <3> QED
      BY <3>3, <3>4
  <2> QED
    BY <2>3, <2>4
<1>7. ASSUME NEW s \in Requests, Attend(s) PROVE r \in tracked' \cup misread'
  <2>1. PICK v \in Answers :
          /\ tracked' = IF v.requests[s].status \in Over THEN tracked \ {s} ELSE tracked
          /\ misread' = IF v.requests[s].status = "None" THEN misread \cup {s} ELSE misread
    BY <1>7 DEF Attend
  <2>2. up /\ cursor' = cursor /\ requests' = requests
    BY <1>7 DEF Attend, chainVars
  <2>3. r \in tracked \cup misread
    BY <1>4, <2>2
  <2>4. CASE s # r \/ v.requests[s].status \notin Terminal
    BY <2>1, <2>3, <2>4 DEF Over, Terminal
  <2>5. CASE s = r /\ v.requests[s].status \in Terminal
    <3>1. Became(v.requests[r], requests[r]) /\ v.requests[r] \in Request
      BY Answered
    <3>2. v.requests[r].status \in Status
      BY <3>1 DEF Request
    <3>3. Rank(v.requests[r].status) = 5 /\ Rank(requests[r].status) \in 1 .. 4
      BY <1>3, <2>2, <2>5, <3>2, RankType
    <3> QED
      BY <3>1, <3>3 DEF Became
  <2> QED
    BY <2>4, <2>5
<1>8. CASE UNCHANGED <<up, cursor, tracked, misread>>
  BY <1>4, <1>8
<1>9. CASE Crash
  BY <1>9 DEF Crash
<1> QED
  BY <1>5, <1>6, <1>7, <1>8, <1>9 DEF Next, World, Loop, PassFails, ActMined, ActFails,
     processVars, vars

\* Nothing the loop follows is dropped while it lives: not by a failed pass, a kill
\* and a start, a call that took effect unanswered or an answer of an older block.
\* What it never learns of, a node said was not there.
THEOREM NothingIsForgotten == Spec /\ []StartsReachBack => []NothingForgotten
BY WatchtowerInit, WatchtowerNext, ForgetNext, PTL DEF Spec

=============================================================================
