------------------------ MODULE RequestChainTheorems ------------------------
(***************************************************************************)
(* What the off-chain programs may rely on, whichever node answers them: a *)
(* request only moves forward, and what a node says of it was once true    *)
(* and is what it became since.                                            *)
(***************************************************************************)
EXTENDS RequestChain, TLAPS

\* How far a request has come.
Rank(status) ==
    CASE status = "None" -> 0 [] status = "Pending" -> 1 [] status = "Delivered" -> 2
      [] status = "Challenged" -> 3 [] status = "Finalized" -> 4 [] OTHER -> 5

\* p is what q is now: the same, or further on.
Became(q, p) ==
    \/ p = q
    \/ /\ Rank(q.status) < Rank(p.status)
       /\ q.status # "None" => p.createdAt = q.createdAt /\ p.deliverBy = q.deliverBy

\* A view is of the past, and whole up to its height.
ViewOf(v) ==
    /\ v \in View /\ v.height < now
    /\ \A r \in Requests :
         /\ Became(v.requests[r], requests[r])
         /\ requests[r].status # "None" /\ requests[r].createdAt <= v.height
              => v.requests[r].status # "None"

ChainInv ==
    /\ ChainTypeOK
    /\ ViewOf(tip) /\ ViewOf(behind)
    /\ \A r \in Requests : requests[r].status # "None" => requests[r].createdAt \in 1 .. now

\* Everything that moves the chain, or leaves it.
ChainStep ==
    \/ \E r \in Requests : requestExecution(r) \/ challenge(r)
    \/ \E r \in Requests, call \in Calls : Mined(call, r)
    \/ Seal
    \/ UNCHANGED chainVars

-----------------------------------------------------------------------------

LEMMA RankType ==
    /\ \A status : Rank(status) \in 0 .. 5
    /\ \A status \in Status : Rank(status) = 0 <=> status = "None"
    /\ \A status \in Status : Rank(status) = 5 <=> status \in Terminal
    /\ \A status \in Status : Rank(status) \in 1 .. 4 <=> status \in Live
<1>1. \A status : Rank(status) \in 0 .. 5
  BY DEF Rank
<1> QED
  BY <1>1 DEF Rank, Status, Live, Terminal

LEMMA BecameAgain ==
    \A q, p, s : Became(q, p) /\ Became(p, s) => Became(q, s)
<1>1. \A status : Rank(status) \in Nat
  BY RankType
<1>2. \A q, p, s : Rank(q.status) < Rank(p.status) => p.status # "None"
  BY <1>1, RankType DEF Rank
<1> QED
  BY <1>1, <1>2 DEF Became

LEMMA MinedMoves ==
    ASSUME ChainInv, NEW r \in Requests, NEW call \in Calls, Mined(call, r)
    PROVE  /\ requests' \in [Requests -> Request]
           /\ UNCHANGED <<now, tip, behind>>
           /\ \A s \in Requests : s # r => requests'[s] = requests[s]
           /\ Rank(requests[r].status) < Rank(requests'[r].status)
           /\ requests[r].status \in Live
           /\ requests'[r].createdAt = requests[r].createdAt
           /\ requests'[r].deliverBy = requests[r].deliverBy
<1>1. requests \in [Requests -> Request] /\ now \in Nat
  BY DEF ChainInv, ChainTypeOK
<1>2. /\ Requires(call, r)
      /\ UNCHANGED <<now, tip, behind>>
  BY DEF Mined
<1>3. PICK q : q \in Writes(call, requests[r]) /\ requests' = [requests EXCEPT ![r] = q]
  BY DEF Mined
<1>4. PICK p : p = requests[r] /\ p \in Request
  BY <1>1
<1>5. now + ChallengeWindow \in Nat /\ now + SettlementWindow \in Nat
  BY <1>1, WindowsAssumption
<1>6. q \in Request /\ q.createdAt = p.createdAt /\ q.deliverBy = p.deliverBy
      /\ Rank(p.status) < Rank(q.status) /\ p.status \in Live
  <2>1. CASE call = "deliver"
    <3>1. PICK outright : q = [p EXCEPT !.status = IF outright THEN "Finalized" ELSE "Delivered",
                      !.finalizeAt = IF outright THEN now ELSE now + ChallengeWindow,
                      !.settleBy = now + SettlementWindow]
      BY <1>3, <1>4, <2>1 DEF Writes
    <3>2. p.status = "Pending"
      BY <1>2, <1>4, <2>1 DEF Requires
    <3>3. PICK status, at, by : /\ status = (IF outright THEN "Finalized" ELSE "Delivered")
                                /\ at = (IF outright THEN now ELSE now + ChallengeWindow)
                                /\ by = now + SettlementWindow
      OBVIOUS
    <3>4. status \in {"Finalized", "Delivered"} /\ at \in Nat /\ by \in Nat
      BY <1>1, <1>5, <3>3
    <3>5. q = [p EXCEPT !.status = status, !.finalizeAt = at, !.settleBy = by]
      BY <3>1, <3>3, Zenon
    <3> QED
      <4>1. q \in Request /\ q.status = status /\ q.createdAt = p.createdAt /\ q.deliverBy = p.deliverBy
        BY <1>4, <3>4, <3>5 DEF Request, Status, Live
      <4>2. Rank(p.status) < Rank(status) /\ p.status \in Live
        BY <3>2, <3>4 DEF Rank, Live
      <4> QED
        BY <4>1, <4>2
  <2>2. CASE call = "reject"
    BY <1>2, <1>3, <1>4, <2>2 DEF Requires, Writes, Request, Status, Live, Terminal, Rank
  <2>3. CASE call = "markExpired"
    BY <1>2, <1>3, <1>4, <2>3 DEF Requires, Writes, Request, Status, Live, Terminal, Rank
  <2>4. CASE call = "resolveChallenge"
    BY <1>2, <1>3, <1>4, <2>4 DEF Requires, Writes, Request, Status, Live, Terminal, Rank
  <2>5. CASE call = "slashUnresolvedChallenge"
    BY <1>2, <1>3, <1>4, <2>5 DEF Requires, Writes, Request, Status, Live, Terminal, Rank
  <2>6. CASE call = "finalize"
    BY <1>2, <1>3, <1>4, <2>6 DEF Requires, Writes, Request, Status, Live, Terminal, Rank
  <2>7. CASE call = "settle"
    BY <1>2, <1>3, <1>4, <2>7 DEF Requires, Writes, Request, Status, Live, Terminal, Rank
  <2>8. CASE call = "settleDefault"
    BY <1>2, <1>3, <1>4, <2>8 DEF Requires, Writes, Request, Status, Live, Terminal, Rank
  <2> QED
    BY <2>1, <2>2, <2>3, <2>4, <2>5, <2>6, <2>7, <2>8 DEF Calls
<1> QED
  BY <1>1, <1>2, <1>3, <1>4, <1>6

LEMMA ChainMoves ==
    ASSUME ChainInv, ChainStep
    PROVE  /\ requests' \in [Requests -> Request]
           /\ \A r \in Requests : Became(requests[r], requests'[r])
           /\ now' \in Nat /\ now <= now'
<1>1. requests \in [Requests -> Request] /\ now \in Nat
  BY DEF ChainInv, ChainTypeOK
<1>2. ASSUME NEW r \in Requests, requestExecution(r)
      PROVE  requests' \in [Requests -> Request] /\ \A s \in Requests : Became(requests[s], requests'[s])
  <2>1. PICK window \in DeliverWindows :
          requests' = [requests EXCEPT ![r] = [NoRequest EXCEPT
             !.status = "Pending", !.createdAt = now, !.deliverBy = now + window]]
    BY <1>2 DEF requestExecution
  <2>2. PICK by \in Nat : by = now + window
    BY <1>1, WindowsAssumption
  <2>3. PICK q : q = [NoRequest EXCEPT !.status = "Pending", !.createdAt = now, !.deliverBy = by]
    OBVIOUS
  <2>4. q \in Request /\ q.status = "Pending"
    BY <1>1, <2>3 DEF NoRequest, Request, Status, Live
  <2>5. requests[r].status = "None" /\ requests' = [requests EXCEPT ![r] = q]
    BY <1>2, <2>1, <2>2, <2>3 DEF requestExecution
  <2> QED
    BY <1>1, <2>4, <2>5 DEF Became, Rank
<1>3. ASSUME NEW r \in Requests, challenge(r)
      PROVE  requests' \in [Requests -> Request] /\ \A s \in Requests : Became(requests[s], requests'[s])
  <2>1. PICK p \in Request : p = requests[r]
    BY <1>1
  <2>2. PICK by \in Nat : by = now + EscalationWindow
    BY <1>1, WindowsAssumption
  <2>3. PICK q : q = [p EXCEPT !.status = "Challenged", !.escalationDeadline = by]
    OBVIOUS
  <2>4. /\ q \in Request /\ q.status = "Challenged"
        /\ q.createdAt = p.createdAt /\ q.deliverBy = p.deliverBy
    BY <2>3 DEF Request, Status, Live
  <2>5. p.status = "Delivered" /\ requests' = [requests EXCEPT ![r] = q]
    BY <1>3, <2>1, <2>2, <2>3 DEF challenge
  <2> QED
    BY <1>1, <2>1, <2>4, <2>5 DEF Became, Rank
<1>4. ASSUME NEW r \in Requests, NEW call \in Calls, Mined(call, r)
      PROVE  requests' \in [Requests -> Request] /\ \A s \in Requests : Became(requests[s], requests'[s])
  BY <1>4, MinedMoves DEF Became
<1>5. ASSUME UNCHANGED requests
      PROVE  requests' \in [Requests -> Request] /\ \A s \in Requests : Became(requests[s], requests'[s])
  BY <1>1, <1>5 DEF Became
<1>6. requests' \in [Requests -> Request] /\ \A s \in Requests : Became(requests[s], requests'[s])
  BY <1>2, <1>3, <1>4, <1>5 DEF ChainStep, Seal, chainVars
<1>7. now' \in Nat /\ now <= now'
  <2>1. CASE Seal
    BY <1>1, <2>1 DEF Seal
  <2>2. CASE now' = now
    BY <1>1, <2>2
  <2> QED
    BY <2>1, <2>2 DEF ChainStep, requestExecution, challenge, Mined, chainVars
<1> QED
  BY <1>6, <1>7

\* A request is made in the block being built.
LEMMA MadeNow ==
    ASSUME ChainInv, ChainStep, NEW r \in Requests,
           requests[r].status = "None", requests'[r].status # "None"
    PROVE  requests'[r].createdAt = now
<1>1. requests \in [Requests -> Request]
  BY DEF ChainInv, ChainTypeOK
<1>2. ASSUME NEW s \in Requests, requestExecution(s) PROVE requests'[r].createdAt = now
  <2>1. PICK window : requests' = [requests EXCEPT ![s] = [NoRequest EXCEPT
             !.status = "Pending", !.createdAt = now, !.deliverBy = now + window]]
    BY <1>2 DEF requestExecution
  <2>2. s = r
    BY <1>1, <2>1
  <2> QED
    BY <1>1, <2>1, <2>2 DEF NoRequest
<1>3. ASSUME NEW s \in Requests, challenge(s) PROVE FALSE
  BY <1>1, <1>3 DEF challenge
<1>4. ASSUME NEW s \in Requests, NEW call \in Calls, Mined(call, s) PROVE FALSE
  <2>1. requests[s].status \in Live /\ \A q \in Requests : q # s => requests'[q] = requests[q]
    BY <1>4, MinedMoves
  <2> QED
    BY <2>1 DEF Live
<1>5. requests' # requests
  OBVIOUS
<1> QED
  BY <1>2, <1>3, <1>4, <1>5 DEF ChainStep, Seal, chainVars

\* The views stay true of what is not sealed yet.
LEMMA ViewStays ==
    ASSUME ChainInv, ChainStep, NEW v, ViewOf(v)
    PROVE  ViewOf(v)'
<1>1. /\ requests \in [Requests -> Request] /\ requests' \in [Requests -> Request]
      /\ \A r \in Requests : Became(requests[r], requests'[r])
      /\ now' \in Nat /\ now <= now' /\ now \in Nat
  BY ChainMoves DEF ChainInv, ChainTypeOK
<1>2. v \in View /\ v.height \in Nat /\ v.height < now /\ v.height < now'
  BY <1>1 DEF ViewOf, View
<1>3. ASSUME NEW r \in Requests PROVE Became(v.requests[r], requests'[r])
  BY <1>1, BecameAgain DEF ViewOf
<1>4. ASSUME NEW r \in Requests, requests'[r].status # "None", requests'[r].createdAt <= v.height
      PROVE  v.requests[r].status # "None"
  <2>1. CASE requests[r].status # "None"
    <3>1. requests'[r].createdAt = requests[r].createdAt
      BY <1>1, <2>1 DEF Became
    <3> QED
      BY <1>4, <2>1, <3>1 DEF ViewOf
  <2>2. CASE requests[r].status = "None"
    <3>1. requests'[r].createdAt = now
      BY <1>4, <2>2, MadeNow
    <3> QED
      BY <1>1, <1>2, <1>4, <3>1
  <2> QED
    BY <2>1, <2>2
<1> QED
  BY <1>2, <1>3, <1>4 DEF ViewOf

LEMMA ChainInvInit == ChainInit => ChainInv
<1> SUFFICES ASSUME ChainInit PROVE ChainInv
  OBVIOUS
<1>1. requests \in [Requests -> Request] /\ \A r \in Requests : requests[r].status = "None"
  BY DEF ChainInit, NoRequest, Request, Status
<1>2. /\ now = 1 /\ tip = [height |-> 0, requests |-> requests] /\ behind = tip
  BY DEF ChainInit
<1>3. tip \in View /\ tip.height = 0 /\ tip.requests = requests
  BY <1>1, <1>2 DEF View
<1> QED
  BY <1>1, <1>2, <1>3 DEF ChainInv, ChainTypeOK, ViewOf, Became

LEMMA ChainInvNext == ChainInv /\ ChainStep => ChainInv'
<1> SUFFICES ASSUME ChainInv, ChainStep PROVE ChainInv'
  OBVIOUS
<1>1. /\ requests \in [Requests -> Request] /\ requests' \in [Requests -> Request]
      /\ \A r \in Requests : Became(requests[r], requests'[r])
      /\ now' \in Nat /\ now <= now' /\ now \in Nat
  BY ChainMoves DEF ChainInv, ChainTypeOK
<1>2. PICK t, b : t = tip /\ b = behind
  OBVIOUS
<1>3. /\ t \in View /\ b \in View /\ b.height <= t.height /\ t.height + 1 = now
      /\ t.height \in Nat /\ b.height \in Nat
  BY <1>2 DEF ChainInv, ChainTypeOK, View
<1>4. ViewOf(t)' /\ ViewOf(b)'
  BY <1>2, ViewStays DEF ChainInv
<1>5. ASSUME NEW r \in Requests, requests'[r].status # "None" PROVE requests'[r].createdAt \in 1 .. now'
  <2>1. CASE requests[r].status # "None"
    BY <1>1, <1>3, <2>1 DEF Became, ChainInv
  <2>2. CASE requests[r].status = "None"
    <3>1. requests'[r].createdAt = now
      BY <1>5, <2>2, MadeNow
    <3> QED
      BY <1>1, <1>3, <3>1
  <2> QED
    BY <2>1, <2>2
<1>6. CASE Seal
  <2>1. PICK n : n = [height |-> now' - 1, requests |-> requests]
    OBVIOUS
  <2>2. /\ n = tip' /\ behind' \in {b, t, n} /\ requests' = requests
    BY <1>2, <1>6, <2>1 DEF Seal
  <2>3. /\ n \in View /\ n.height + 1 = now' /\ n.height \in Nat /\ n.requests = requests
        /\ t.height <= n.height
    <3>1. PICK h : h = now' - 1 /\ h \in Nat /\ h + 1 = now' /\ t.height <= h
      <4>1. \A x, y, z \in Nat : z + 1 = y /\ y <= x
                => x - 1 \in Nat /\ (x - 1) + 1 = x /\ z <= x - 1
        OBVIOUS
      <4> QED
        BY <1>1, <1>3, <4>1
    <3>2. n = [height |-> h, requests |-> requests]
      BY <2>1, <3>1
    <3> QED
      BY <1>1, <3>1, <3>2 DEF View
  <2>4. ViewOf(n)'
    BY <1>1, <2>2, <2>3 DEF ViewOf, Became
  <2> QED
    BY <1>1, <1>3, <1>4, <1>5, <2>2, <2>3, <2>4 DEF ChainInv, ChainTypeOK
<1>7. CASE tip' = tip /\ behind' = behind /\ now' = now
  BY <1>1, <1>2, <1>3, <1>4, <1>5, <1>7 DEF ChainInv, ChainTypeOK
<1> QED
  BY <1>6, <1>7 DEF ChainStep, requestExecution, challenge, Mined, chainVars

\* What a node answers, and what the request is.
LEMMA Answered ==
    ASSUME ChainInv, NEW v \in Answers, NEW r \in Requests
    PROVE  /\ v.requests[r] \in Request /\ requests[r] \in Request
           /\ Became(v.requests[r], requests[r])
           /\ v.height \in Nat /\ v.height < now /\ v.height <= tip.height
           /\ tip.height \in Nat /\ now \in Nat
           /\ requests[r].status # "None" /\ requests[r].createdAt <= v.height
                => v.requests[r].status # "None"
BY DEF Answers, ChainInv, ChainTypeOK, ViewOf, View

=============================================================================
