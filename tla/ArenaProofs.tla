----------------------------- MODULE ArenaProofs -----------------------------
(***************************************************************************)
(* For every set of agents and requests, all windows, holds, cooldowns,    *)
(* budgets, retries and lags: what the Arena spends, whom it hires twice   *)
(* and which jobs it stops following.                                      *)
(***************************************************************************)
EXTENDS Arena, RequestChainTheorems, FiniteSetTheorems

-----------------------------------------------------------------------------
(* The inductive invariant *)

OrderStates ==
    [at : {"idle", "batch", "send", "mined"}, picked : SUBSET Agents, since : Nat,
     tries : 0 .. Attempts - 1, job : SUBSET (Agents \cup (Agents \X Requests))]

SettleStates ==
    [at : {"idle", "pass", "settle", "settled"}, todo : SUBSET Requests, since : Nat,
     tries : 0 .. Attempts - 1, on : SUBSET Requests, late : BOOLEAN]

LoopsType ==
    /\ feeBudget \in Nat
    /\ rows \in [Requests -> Rows \cup {NoRow}]
    /\ DOMAIN hired = Requests
    /\ order \in OrderStates /\ settle \in SettleStates
    /\ faults \in 0 .. MaxFaults /\ misread \subseteq Requests
    /\ settle.since <= now

\* Whose job the order loop is on.
Hiring ==
    IF order.at = "mined" THEN {job[1] : job \in order.job}
    ELSE IF order.at = "send" THEN order.job ELSE {}

\* The order loop holds one job at most: an agent while it sends, the agent and
\* the request, which is its own and has no row yet, once that is mined.
JobsAreKnown ==
    /\ order.at \notin {"send", "mined"} => order.tries = 0 /\ order.job = {}
    /\ order.at = "send" => \E a \in Agents : order.job = {a}
    /\ order.at = "mined" =>
         \E a \in Agents, r \in Requests :
           /\ order.job = {<<a, r>>}
           /\ hired[r] = a /\ requests[r].status # "None" /\ r \notin Recorded

\* A row is of a request that was made, by the Arena, to that agent.
RowsAreHired ==
    \A r \in Recorded : hired[r] = rows[r].agent /\ requests[r].status # "None"

\* What the order loop has picked, or is hiring, has nothing open: the settle loop
\* only closes rows, and the one row the order loop opens is of an agent it is
\* through with.
PickedAreFree ==
    /\ order.picked \cap BusyAgents = {} /\ Hiring \cap BusyAgents = {}
    /\ order.picked \cap Hiring = {}

\* The budget was checked for the job in hand, and only its row is added since.
BudgetHolds ==
    /\ Cardinality(Recorded) <= feeBudget
    /\ order.at \in {"send", "mined"} => Cardinality(Recorded) + 1 <= feeBudget

\* What the settle loop works on is in the ledger; after its own transaction the
\* request is settled.
SettlingIsRecorded ==
    /\ settle.todo \cup settle.on \subseteq Recorded
    /\ IF settle.at \in {"settle", "settled"} THEN \E r \in Recorded : settle.on = {r}
       ELSE settle.on = {}
    /\ settle.at = "settled" => \A r \in settle.on : requests[r].status = "Settled"

\* Too late to be settled, whatever happens from here on: not what ~Requires says
\* of a request that is not final yet.
Missed(r) ==
    \/ requests[r].status \in Terminal
    \/ requests[r].status = "Finalized" /\ now > requests[r].settleBy

ClosedForGood ==
    \A r \in Recorded :
      /\ rows[r].state \in {"by chain", "settled"} =>
           requests[r].status \in Terminal \/ r \in misread
      /\ rows[r].state = "missed" => Missed(r)

ArenaInv ==
    /\ ChainInv /\ LoopsType
    /\ JobsAreKnown /\ RowsAreHired /\ PickedAreFree /\ OneOpenJob
    /\ BudgetHolds /\ SettlingIsRecorded /\ ClosedForGood

-----------------------------------------------------------------------------
(* What a step does *)

LEMMA NextMovesChain == ArenaInv /\ [Next]_vars => ChainStep
<1> SUFFICES ASSUME ArenaInv, [Next]_vars PROVE ChainStep
  OBVIOUS
<1>1. CASE World
  BY <1>1 DEF World, ChainStep
<1>2. CASE OrderMined
  BY <1>2 DEF OrderMined, ChainStep
<1>3. CASE SettleMined
  <2>1. PICK r \in settle.on : Mined("settle", r)
    BY <1>3 DEF SettleMined
  <2>2. r \in Requests /\ "settle" \in Calls
    BY DEF ArenaInv, LoopsType, SettleStates, Calls
  <2> QED
    BY <2>1, <2>2 DEF ChainStep
<1>4. CASE UNCHANGED chainVars
  BY <1>4 DEF ChainStep
<1> QED
  BY <1>1, <1>2, <1>3, <1>4
     DEF Next, Process, OrderLoop, SettleLoop, OrderPass, Batch, OrderFails, OrderReverts, Record,
         SettlePass, Visit, VisitFails, SettleFails, CloseSettled, Crash, vars

\* What is over stays as it is, what was made stays made, what is missed stays
\* missed.
LEMMA ChainKeeps ==
    ASSUME ArenaInv, [Next]_vars, NEW r \in Requests
    PROVE  /\ requests[r].status # "None" => requests'[r].status # "None"
           /\ requests[r].status \in Terminal => requests'[r] = requests[r]
           /\ Missed(r) => Missed(r)'
           /\ now \in Nat /\ now' \in Nat /\ now <= now'
<1>1. ChainStep /\ ChainInv
  BY NextMovesChain DEF ArenaInv
<1>2. /\ requests[r] \in Request /\ requests'[r] \in Request
      /\ Became(requests[r], requests'[r])
      /\ now \in Nat /\ now' \in Nat /\ now <= now'
  BY <1>1, ChainMoves DEF ChainInv, ChainTypeOK
<1>3. requests[r].status \in Status /\ requests'[r].status \in Status
  BY <1>2 DEF Request
<1>4. requests[r].status # "None" => requests'[r].status # "None"
  BY <1>2, <1>3, RankType DEF Became
<1>5. requests[r].status \in Terminal => requests'[r] = requests[r]
  BY <1>2, <1>3, RankType DEF Became
<1>6. ASSUME requests[r].status = "Finalized", now > requests[r].settleBy PROVE Missed(r)'
  <2>1. CASE requests'[r] = requests[r]
    <3>1. requests[r].settleBy \in Nat
      BY <1>2 DEF Request
    <3> QED
      BY <1>2, <1>6, <2>1, <3>1 DEF Missed
  <2>2. CASE Rank(requests[r].status) < Rank(requests'[r].status)
    <3>1. Rank("Finalized") = 4
      BY DEF Rank
    <3>2. Rank(requests'[r].status) = 5
      BY <1>6, <2>2, <3>1, RankType
    <3> QED
      BY <1>3, <3>2, RankType DEF Missed
  <2> QED
    BY <1>2, <2>1, <2>2 DEF Became
<1> QED
  BY <1>2, <1>4, <1>5, <1>6 DEF Missed

\* What the loops do to the ledger: nothing, close a row, or open one for the job in
\* hand.
Opens(a, r) ==
    /\ order.at = "mined" /\ order.job = {<<a, r>>} /\ Record
    /\ rows' = [rows EXCEPT ![r] = [state |-> "open", agent |-> a, orderedAt |-> order.since,
                                    holdUntil |-> order.since + Hold, late |-> FALSE]]

Closes(r, how) ==
    /\ how \in Closings
    /\ \E late \in BOOLEAN : Close(r, how, late)
    /\ UNCHANGED <<order, hired>>

LEMMA LedgerStep ==
    ASSUME ArenaInv, [Next]_vars
    PROVE  \/ UNCHANGED rows
           \/ \E a \in Agents, r \in Requests : Opens(a, r)
           \/ \E r \in Recorded, how \in Closings : Closes(r, how)
<1>1. CASE Record
  <2>1. order.at = "mined"
    BY <1>1 DEF Record
  <2>2. PICK a \in Agents, r \in Requests : order.job = {<<a, r>>}
    BY <2>1 DEF ArenaInv, JobsAreKnown
  <2>3. <<a, r>>[1] = a /\ <<a, r>>[2] = r
    OBVIOUS
  <2>4. \A job \in order.job : job = <<a, r>>
    BY <2>2
  <2> QED
    BY <1>1, <2>1, <2>2, <2>3, <2>4 DEF Record, Opens
<1>2. ASSUME NEW r \in Requests, Visit(r)
      PROVE  UNCHANGED rows \/ \E how \in Closings : Closes(r, how)
  BY <1>2 DEF Visit, Closes, Closings
<1>3. ASSUME NEW r \in Requests, Visit(r) PROVE r \in Recorded
  BY <1>3 DEF Visit, ArenaInv, SettlingIsRecorded
<1>4. CASE CloseSettled
  <2>1. settle.late \in BOOLEAN /\ settle.on \subseteq Recorded
    BY DEF ArenaInv, LoopsType, SettleStates, SettlingIsRecorded
  <2> QED
    BY <1>4, <2>1 DEF CloseSettled, Closes, Closings
<1>5. CASE \E r \in Requests : Visit(r)
  BY <1>2, <1>3, <1>5
<1> QED
  BY <1>1, <1>4, <1>5
     DEF Next, World, Process, OrderLoop, SettleLoop, OrderPass, Batch, OrderMined, OrderFails, OrderReverts,
         SettlePass, VisitFails, SettleMined, SettleFails, Crash, vars, processVars

\* A closed row keeps its agent.
LEMMA ClosedRows ==
    ASSUME ArenaInv, NEW r \in Recorded, NEW how \in Closings, Closes(r, how)
    PROVE  /\ rows' \in [Requests -> Rows \cup {NoRow}]
           /\ Recorded' = Recorded /\ Open' \subseteq Open
           /\ \A s \in Requests : rows'[s].agent = rows[s].agent
           /\ \A s \in Requests : s # r => rows'[s] = rows[s]
           /\ rows'[r].state = how
<1>1. PICK late \in BOOLEAN : rows' = [rows EXCEPT ![r].state = how, ![r].late = late]
  BY DEF Closes, Close
<1>2. /\ rows \in [Requests -> Rows \cup {NoRow}] /\ r \in Requests
      /\ rows[r].state # "none" /\ how # "none" /\ how # "open"
  BY DEF ArenaInv, LoopsType, Recorded, Closings
<1>3. rows[r] \in Rows
  BY <1>2 DEF NoRow
<1>4. /\ rows'[r] = [rows[r] EXCEPT !.state = how, !.late = late]
      /\ \A s \in Requests : s # r => rows'[s] = rows[s]
  BY <1>1, <1>2
<1>5. /\ rows'[r] \in Rows /\ rows'[r].state = how /\ rows'[r].agent = rows[r].agent
  BY <1>3, <1>4 DEF Rows
<1>6. rows' \in [Requests -> Rows \cup {NoRow}]
  BY <1>1, <1>2, <1>4, <1>5
<1> QED
  BY <1>2, <1>4, <1>5, <1>6 DEF Recorded, Open

\* An opened row is of a request that had none.
LEMMA OpenedRow ==
    ASSUME ArenaInv, NEW a \in Agents, NEW r \in Requests, Opens(a, r)
    PROVE  /\ rows' \in [Requests -> Rows \cup {NoRow}]
           /\ r \notin Recorded /\ hired[r] = a /\ requests[r].status # "None"
           /\ Recorded' = Recorded \cup {r} /\ Open' = Open \cup {r}
           /\ rows'[r].agent = a /\ rows'[r].state = "open"
           /\ \A s \in Requests : s # r => rows'[s] = rows[s]
           /\ UNCHANGED <<chainVars, settle, hired, misread>> /\ Hiring = {a}
<1>1. /\ rows \in [Requests -> Rows \cup {NoRow}] /\ order.since \in Nat /\ Hold \in Nat
  BY ArenaAssumption DEF ArenaInv, LoopsType, OrderStates
<1>2. PICK b \in Agents, s \in Requests :
        order.job = {<<b, s>>} /\ hired[s] = b /\ requests[s].status # "None" /\ s \notin Recorded
  BY DEF ArenaInv, JobsAreKnown, Opens
<1>3. b = a /\ s = r
  <2>1. <<b, s>> \in {<<a, r>>}
    BY <1>2 DEF Opens
  <2> QED
    BY <2>1
<1>4. rows'[r] = [state |-> "open", agent |-> a, orderedAt |-> order.since,
                  holdUntil |-> order.since + Hold, late |-> FALSE]
  BY <1>1 DEF Opens
<1>5. rows'[r] \in Rows /\ order.since + Hold \in Nat
  BY <1>1, <1>4 DEF Rows
<1>6. \A q \in Requests : q # r => rows'[q] = rows[q]
  BY <1>1 DEF Opens
<1>7. rows' \in [Requests -> Rows \cup {NoRow}]
  BY <1>1, <1>5, <1>6 DEF Opens
<1>8. UNCHANGED <<chainVars, settle, hired, misread>>
  BY DEF Opens, Record
<1>9. Hiring = {a}
  BY DEF Opens, Hiring
<1>10. Recorded' = Recorded \cup {r} /\ Open' = Open \cup {r}
  BY <1>4, <1>6 DEF Recorded, Open
<1> QED
  BY <1>2, <1>3, <1>4, <1>6, <1>7, <1>8, <1>9, <1>10

-----------------------------------------------------------------------------
(* Types *)

LEMMA OrderTyped ==
    ASSUME ArenaInv, [Next]_vars
    PROVE  order' \in OrderStates
<1> USE DEF OrderStates
<1>1. order \in OrderStates /\ Attempts \in Nat \ {0} /\ now \in Nat
  BY ArenaAssumption DEF ArenaInv, LoopsType, ChainInv, ChainTypeOK
<1>2. OrderIdle \in OrderStates
  BY <1>1 DEF OrderIdle
<1>3. GiveUpOrder \in OrderStates
  <2>1. 0 \in 0 .. Attempts - 1 /\ {} \in SUBSET (Agents \cup (Agents \X Requests))
    BY <1>1
  <2>2. [order EXCEPT !.at = "batch", !.tries = 0, !.job = {}] \in OrderStates
    BY <1>1, <2>1
  <2> QED
    BY <1>2, <2>2 DEF GiveUpOrder
<1>4. RetryOrder \in OrderStates
  <2>1. CASE order.tries + 1 < Attempts
    BY <1>1, <2>1 DEF RetryOrder
  <2> QED
    BY <2>1, <1>3 DEF RetryOrder
<1>5. CASE OrderPass
  <2>1. PICK picked \in SUBSET {a \in Agents : Eligible(a, now)} :
           order' = [OrderIdle EXCEPT !.at = "batch", !.picked = picked, !.since = now]
    BY <1>5 DEF OrderPass
  <2>2. picked \in SUBSET Agents /\ 0 \in 0 .. Attempts - 1
    BY <1>1
  <2>3. order' = [at |-> "batch", picked |-> picked, since |-> now, tries |-> 0, job |-> {}]
    BY <2>1 DEF OrderIdle
  <2> QED
    BY <1>1, <2>2, <2>3
<1>6. CASE Batch
  <2>1. \/ order' = OrderIdle
        \/ \E a \in LongestWaiting(order.picked) :
             order' = [order EXCEPT !.at = "send", !.picked = @ \ {a}, !.job = {a}]
    BY <1>6 DEF Batch
  <2>2. ASSUME NEW a \in LongestWaiting(order.picked),
               order' = [order EXCEPT !.at = "send", !.picked = @ \ {a}, !.job = {a}]
        PROVE  order' \in OrderStates
    <3>1. a \in Agents
      BY <1>1 DEF LongestWaiting
    <3> QED
      BY <1>1, <2>2, <3>1
  <2> QED
    BY <1>2, <2>1, <2>2
<1>7. CASE OrderMined
  <2>1. PICK r \in Requests, a \in order.job :
           \/ order' = [order EXCEPT !.at = "mined", !.job = {<<a, r>>}]
           \/ order' = RetryOrder
    BY <1>7 DEF OrderMined
  <2>2. a \in Agents
    BY <1>7 DEF OrderMined, ArenaInv, JobsAreKnown
  <2>3. CASE order' = [order EXCEPT !.at = "mined", !.job = {<<a, r>>}]
    <3>1. {<<a, r>>} \in SUBSET (Agents \cup (Agents \X Requests))
      BY <2>2
    <3> QED
      BY <1>1, <2>3, <3>1
  <2> QED
    BY <1>4, <2>1, <2>3
<1>8. CASE OrderFails \/ OrderReverts \/ Record \/ Crash
  BY <1>2, <1>3, <1>4, <1>8 DEF OrderFails, OrderReverts, Record, Crash
<1>9. CASE UNCHANGED order
  BY <1>1, <1>9
<1> QED
  BY <1>5, <1>6, <1>7, <1>8, <1>9
     DEF Next, World, Process, OrderLoop, SettleLoop, SettlePass, Visit, VisitFails,
         SettleMined, SettleFails, CloseSettled, vars, processVars

\* The settle loop is idle, or before a row of its pass.
BetweenRows(s) ==
    \/ s = SettleIdle
    \/ \E todo \in SUBSET Recorded, since \in 0 .. now :
         s = [SettleIdle EXCEPT !.at = "pass", !.todo = todo, !.since = since]

LEMMA AfterBetweenRows ==
    ASSUME ArenaInv, NEW todo \in SUBSET Recorded
    PROVE  BetweenRows(After(todo))
<1>1. settle.since \in 0 .. now
  BY DEF ArenaInv, LoopsType, SettleStates, ChainInv, ChainTypeOK
<1> QED
  BY <1>1 DEF After, BetweenRows

LEMMA BetweenRowsTyped ==
    ASSUME ArenaInv, NEW s, BetweenRows(s)
    PROVE  /\ s \in SettleStates /\ s.since <= now
           /\ s.todo \subseteq Recorded /\ s.on = {} /\ s.at \in {"idle", "pass"}
<1>1. now \in Nat /\ Attempts \in Nat \ {0} /\ Recorded \subseteq Requests
  BY ArenaAssumption DEF ArenaInv, ChainInv, ChainTypeOK, Recorded
<1>2. CASE s = SettleIdle
  BY <1>1, <1>2 DEF SettleIdle, SettleStates
<1>3. ASSUME NEW todo \in SUBSET Recorded, NEW since \in 0 .. now,
             s = [SettleIdle EXCEPT !.at = "pass", !.todo = todo, !.since = since]
      PROVE  /\ s \in SettleStates /\ s.since <= now
             /\ s.todo \subseteq Recorded /\ s.on = {} /\ s.at \in {"idle", "pass"}
  <2>1. s = [at |-> "pass", todo |-> todo, since |-> since, tries |-> 0, on |-> {}, late |-> FALSE]
    BY <1>3 DEF SettleIdle
  <2>2. todo \in SUBSET Requests /\ since \in Nat /\ since <= now /\ 0 \in 0 .. Attempts - 1
    BY <1>1
  <2> QED
    BY <2>1, <2>2 DEF SettleStates
<1> QED
  BY <1>2, <1>3 DEF BetweenRows

\* What a step makes of the settle loop: it stops or goes to a next row, sends a
\* settlement for a row of its pass, tries again, or has it mined.
LEMMA SettleStep ==
    ASSUME ArenaInv, [Next]_vars
    PROVE  \/ UNCHANGED settle
           \/ BetweenRows(settle')
           \/ \E r \in settle.todo, late \in BOOLEAN :
                settle' = [settle EXCEPT !.at = "settle", !.todo = @ \ {r}, !.on = {r}, !.late = late]
           \/ settle.at = "settle" /\ settle.tries + 1 < Attempts
              /\ settle' = [settle EXCEPT !.tries = @ + 1]
           \/ settle.at = "settle" /\ SettleMined /\ settle' = [settle EXCEPT !.at = "settled"]
<1>1. settle.todo \in SUBSET Recorded
  BY DEF ArenaInv, SettlingIsRecorded
<1>2. BetweenRows(NextRow) /\ \A r : BetweenRows(After(settle.todo \ {r}))
  BY <1>1, AfterBetweenRows DEF NextRow
<1>3. CASE SettlePass
  <2>1. settle' = [SettleIdle EXCEPT !.at = "pass", !.todo = Open, !.since = now]
    BY <1>3 DEF SettlePass
  <2>2. Open \in SUBSET Recorded /\ now \in 0 .. now
    BY DEF Open, Recorded, ArenaInv, ChainInv, ChainTypeOK
  <2>3. \E todo \in SUBSET Recorded, since \in 0 .. now :
           settle' = [SettleIdle EXCEPT !.at = "pass", !.todo = todo, !.since = since]
    BY <2>1, <2>2
  <2> QED
    BY <2>3 DEF BetweenRows
<1>4. ASSUME NEW r \in Requests, Visit(r)
      PROVE  \/ BetweenRows(settle')
             \/ \E s \in settle.todo, late \in BOOLEAN :
                  settle' = [settle EXCEPT !.at = "settle", !.todo = @ \ {s}, !.on = {s}, !.late = late]
  <2>1. r \in settle.todo
    BY <1>4 DEF Visit
  <2>2. \A v \in Answers : v.requests[r].finalizeAt \in Nat /\ v.requests[r].deliverBy \in Nat
    BY Answered DEF ArenaInv, Request
  <2>3. \A v \in Answers : Late(v.requests[r]) \in BOOLEAN
    BY <2>2 DEF Late
  <2>4. \/ Skip(r)
        \/ \E v \in Answers : LET q == v.requests[r] IN
             settle' = [settle EXCEPT !.at = "settle", !.todo = @ \ {r}, !.on = {r},
                                           !.late = Late(q)]
    BY <1>4 DEF Visit
  <2> QED
    BY <1>2, <2>1, <2>3, <2>4 DEF Skip
<1>5. ASSUME NEW r \in Requests, VisitFails(r) PROVE BetweenRows(settle')
  BY <1>2, <1>5 DEF VisitFails, Skip
<1>6. CASE SettleMined \/ SettleFails
  BY <1>2, <1>6 DEF SettleMined, SettleFails, RetrySettle
<1>7. CASE CloseSettled
  BY <1>2, <1>7 DEF CloseSettled
<1>8. CASE Crash
  BY <1>8 DEF Crash, BetweenRows
<1>9. CASE UNCHANGED settle
  BY <1>9
<1> QED
  BY <1>3, <1>4, <1>5, <1>6, <1>7, <1>8, <1>9
     DEF Next, World, Process, OrderLoop, SettleLoop, OrderPass, Batch, OrderMined, OrderFails,
         OrderReverts, Record, vars, processVars

LEMMA LoopsTyped ==
    ASSUME ArenaInv, [Next]_vars
    PROVE  LoopsType'
<1>1. LoopsType /\ order' \in OrderStates
  BY OrderTyped DEF ArenaInv
<1>2. now \in Nat /\ now' \in Nat /\ now <= now'
  <2>1. ChainInv /\ ChainStep
    BY NextMovesChain DEF ArenaInv
  <2> QED
    BY <2>1, ChainMoves DEF ChainInv, ChainTypeOK
<1>3. rows' \in [Requests -> Rows \cup {NoRow}]
  <2>1. CASE UNCHANGED rows
    BY <1>1, <2>1 DEF LoopsType
  <2> QED
    BY <2>1, LedgerStep, OpenedRow, ClosedRows
<1>4. settle' \in SettleStates /\ settle'.since <= now'
  <2>0. settle \in SettleStates /\ settle.since \in Nat /\ settle.since <= now
    BY <1>1 DEF LoopsType, SettleStates
  <2>1. CASE BetweenRows(settle')
    <3>1. settle' \in SettleStates /\ settle'.since <= now
      BY <2>1, BetweenRowsTyped
    <3>2. settle'.since \in Nat
      BY <3>1 DEF SettleStates
    <3> QED
      BY <1>2, <3>1, <3>2
  <2>2. ASSUME NEW r \in settle.todo, NEW late \in BOOLEAN,
               settle' = [settle EXCEPT !.at = "settle", !.todo = @ \ {r}, !.on = {r}, !.late = late]
        PROVE  settle' \in SettleStates /\ settle'.since = settle.since
    BY <2>0, <2>2 DEF SettleStates
  <2>3. ASSUME settle.tries + 1 < Attempts, settle' = [settle EXCEPT !.tries = @ + 1]
        PROVE  settle' \in SettleStates /\ settle'.since = settle.since
    BY <2>0, <2>3, ArenaAssumption DEF SettleStates
  <2>4. ASSUME settle' = [settle EXCEPT !.at = "settled"]
        PROVE  settle' \in SettleStates /\ settle'.since = settle.since
    BY <2>0, <2>4 DEF SettleStates
  <2>5. settle' \in SettleStates /\ (settle'.since = settle.since \/ BetweenRows(settle'))
    BY <2>0, <2>1, <2>2, <2>3, <2>4, SettleStep
  <2> QED
    BY <1>2, <2>0, <2>1, <2>5
<1>5. faults' \in 0 .. MaxFaults
  <2>1. \/ UNCHANGED faults
        \/ faults < MaxFaults /\ faults' = faults + 1
    BY DEF Next, World, Process, OrderLoop, SettleLoop, OrderPass, Batch, OrderMined, OrderFails,
           OrderReverts, Record, SettlePass, Visit, VisitFails, SettleMined, SettleFails,
           CloseSettled, Crash, vars, processVars, Fault
  <2>2. faults \in 0 .. MaxFaults /\ MaxFaults \in Nat
    BY <1>1, ArenaAssumption DEF LoopsType
  <2> QED
    BY <2>1, <2>2
<1>6. misread' \subseteq Requests
  BY <1>1 DEF LoopsType, Next, World, Process, OrderLoop, SettleLoop, OrderPass, Batch, OrderMined,
           OrderFails, OrderReverts, Record, SettlePass, Visit, VisitFails, SettleMined, SettleFails,
           CloseSettled, Crash, vars, processVars
<1>7. DOMAIN hired' = Requests
  <2>1. \/ UNCHANGED hired
        \/ \E r, a : hired' = [hired EXCEPT ![r] = a]
    BY DEF Next, World, Process, OrderLoop, SettleLoop, OrderPass, Batch, OrderMined, OrderFails,
           OrderReverts, Record, SettlePass, Visit, VisitFails, SettleMined, SettleFails,
           CloseSettled, Crash, vars, processVars
  <2> QED
    BY <1>1, <2>1 DEF LoopsType
<1>8. feeBudget' \in Nat
  BY <1>1 DEF LoopsType, Next, World, Process, vars, processVars
<1> QED
  BY <1>1, <1>3, <1>4, <1>5, <1>6, <1>7, <1>8 DEF LoopsType

-----------------------------------------------------------------------------
(* The order loop *)

LEMMA OrderStep ==
    ASSUME ArenaInv, [Next]_vars
    PROVE  \/ OrderPass \/ Batch \/ OrderMined
           \/ UNCHANGED hired /\ UNCHANGED order
           \/ UNCHANGED hired /\ order.at = "send" /\ order' = RetryOrder /\ UNCHANGED rows
           \/ UNCHANGED hired /\ order' \in {GiveUpOrder, OrderIdle}
BY DEF Next, World, Process, OrderLoop, SettleLoop, OrderFails, OrderReverts, Record, SettlePass,
       Visit, VisitFails, SettleMined, SettleFails, CloseSettled, Crash, vars, processVars

\* An order loop between two jobs has none in hand.
LEMMA BetweenJobs ==
    ASSUME ArenaInv
    PROVE  \A o \in {GiveUpOrder, OrderIdle} :
             /\ o.at \in {"idle", "batch"} /\ o.tries = 0 /\ o.job = {}
             /\ o.picked \subseteq order.picked
<1>1. order \in OrderStates
  BY DEF ArenaInv, LoopsType
<1>2. /\ OrderIdle.at = "idle" /\ OrderIdle.tries = 0 /\ OrderIdle.job = {}
      /\ OrderIdle.picked = {}
  BY DEF OrderIdle
<1>3. LET o == [order EXCEPT !.at = "batch", !.tries = 0, !.job = {}]
      IN  o.at = "batch" /\ o.tries = 0 /\ o.job = {} /\ o.picked = order.picked
  BY <1>1 DEF OrderStates
<1> QED
  BY <1>2, <1>3 DEF GiveUpOrder

\* Another attempt is for the same job.
LEMMA AnotherAttempt ==
    ASSUME ArenaInv, order.at = "send"
    PROVE  \/ RetryOrder = GiveUpOrder
           \/ /\ RetryOrder.at = "send" /\ RetryOrder.job = order.job
              /\ RetryOrder.picked = order.picked
<1>1. order \in OrderStates
  BY DEF ArenaInv, LoopsType
<1>2. LET o == [order EXCEPT !.tries = @ + 1]
      IN  o.at = "send" /\ o.job = order.job /\ o.picked = order.picked
  BY <1>1 DEF OrderStates
<1> QED
  BY <1>2 DEF RetryOrder

\* The job of a request that is mined is the one that was sent.
LEMMA MinedJob ==
    ASSUME ArenaInv, OrderMined
    PROVE  \E a \in Agents, r \in Requests :
             /\ order.at = "send" /\ order.job = {a}
             /\ requestExecution(r) /\ r \notin Recorded
             /\ hired' = [hired EXCEPT ![r] = a] /\ UNCHANGED rows
             /\ \/ order' = [order EXCEPT !.at = "mined", !.job = {<<a, r>>}]
                \/ order' = RetryOrder
<1>1. PICK r \in Requests, a \in order.job :
        /\ requestExecution(r) /\ hired' = [hired EXCEPT ![r] = a]
        /\ \/ order' = [order EXCEPT !.at = "mined", !.job = {<<a, r>>}]
           \/ order' = RetryOrder
  BY DEF OrderMined
<1>2. PICK b \in Agents : order.job = {b}
  BY DEF OrderMined, ArenaInv, JobsAreKnown
<1>3. requests[r].status = "None"
  BY <1>1 DEF requestExecution
<1>4. r \notin Recorded
  BY <1>3 DEF ArenaInv, RowsAreHired
<1> QED
  BY <1>1, <1>2, <1>4 DEF OrderMined

LEMMA JobsKept ==
    ASSUME ArenaInv, [Next]_vars
    PROVE  JobsAreKnown'
<1>1. order \in OrderStates /\ JobsAreKnown /\ DOMAIN hired = Requests
  BY DEF ArenaInv, LoopsType
<1>2. CASE OrderPass
  <2>1. PICK picked : order' = [OrderIdle EXCEPT !.at = "batch", !.picked = picked, !.since = now]
    BY <1>2 DEF OrderPass
  <2> QED
    BY <2>1 DEF OrderIdle, JobsAreKnown
<1>3. CASE Batch
  <2>1. \/ order' = OrderIdle
        \/ \E a \in LongestWaiting(order.picked) :
             order' = [order EXCEPT !.at = "send", !.picked = @ \ {a}, !.job = {a}]
    BY <1>3 DEF Batch
  <2>2. ASSUME NEW a \in LongestWaiting(order.picked),
               order' = [order EXCEPT !.at = "send", !.picked = @ \ {a}, !.job = {a}]
        PROVE  JobsAreKnown'
    <3>1. a \in Agents
      BY <1>1 DEF LongestWaiting, OrderStates
    <3>2. order'.at = "send" /\ order'.job = {a}
      BY <1>1, <2>2 DEF OrderStates
    <3> QED
      BY <3>1, <3>2 DEF JobsAreKnown
  <2>3. order' = OrderIdle => JobsAreKnown'
    BY BetweenJobs DEF JobsAreKnown
  <2> QED
    BY <2>1, <2>2, <2>3
<1>4. ASSUME order' \in {GiveUpOrder, OrderIdle} PROVE JobsAreKnown'
  BY <1>4, BetweenJobs DEF JobsAreKnown
<1>5. ASSUME order.at = "send", order' = RetryOrder PROVE JobsAreKnown'
  <2>1. CASE order' = GiveUpOrder
    BY <1>4, <2>1
  <2>2. CASE order'.at = "send" /\ order'.job = order.job
    BY <1>1, <1>5, <2>2 DEF JobsAreKnown
  <2> QED
    BY <1>5, <2>1, <2>2, AnotherAttempt
<1>6. CASE OrderMined
  <2>1. PICK a \in Agents, r \in Requests :
             /\ order.at = "send" /\ requestExecution(r) /\ r \notin Recorded
             /\ hired' = [hired EXCEPT ![r] = a] /\ UNCHANGED rows
             /\ \/ order' = [order EXCEPT !.at = "mined", !.job = {<<a, r>>}]
                \/ order' = RetryOrder
    BY <1>6, MinedJob
  <2>2. CASE order' = [order EXCEPT !.at = "mined", !.job = {<<a, r>>}]
    <3>1. order'.at = "mined" /\ order'.job = {<<a, r>>}
      BY <1>1, <2>2 DEF OrderStates
    <3>2. hired'[r] = a /\ r \notin Recorded'
      BY <1>1, <2>1 DEF Recorded
    <3>3. requests'[r].status # "None"
      BY <2>1 DEF requestExecution, NoRequest, ArenaInv, ChainInv, ChainTypeOK
    <3> QED
      BY <3>1, <3>2, <3>3 DEF JobsAreKnown
  <2> QED
    BY <1>5, <2>1, <2>2
<1>7. CASE UNCHANGED hired /\ UNCHANGED order
  <2>1. CASE order.at = "mined"
    <3>1. PICK a \in Agents, r \in Requests :
            /\ order.job = {<<a, r>>}
            /\ hired[r] = a /\ requests[r].status # "None" /\ r \notin Recorded
      BY <1>1, <2>1 DEF JobsAreKnown
    <3>2. requests'[r].status # "None"
      BY <3>1, ChainKeeps
    <3>3. r \notin Recorded'
      <4>1. CASE UNCHANGED rows
        BY <3>1, <4>1 DEF Recorded
      <4>2. ASSUME NEW b \in Agents, NEW s \in Requests, Opens(b, s) PROVE FALSE
        <5>1. order' \in {GiveUpOrder, OrderIdle}
          BY <4>2 DEF Opens, Record
        <5> QED
          BY <1>7, <2>1, <5>1, BetweenJobs
      <4> QED
        BY <3>1, <4>1, <4>2, LedgerStep, ClosedRows
    <3> QED
      BY <1>7, <2>1, <3>1, <3>2, <3>3 DEF JobsAreKnown
  <2> QED
    BY <1>1, <1>7, <2>1 DEF JobsAreKnown
<1> QED
  BY <1>2, <1>3, <1>4, <1>5, <1>6, <1>7, OrderStep

LEMMA RowsStayHired ==
    ASSUME ArenaInv, [Next]_vars
    PROVE  RowsAreHired'
<1>1. RowsAreHired /\ DOMAIN hired = Requests /\ Recorded \subseteq Requests
  BY DEF ArenaInv, LoopsType, Recorded
<1>2. \A r \in Requests : requests[r].status # "None" => requests'[r].status # "None"
  BY ChainKeeps
<1>3. CASE UNCHANGED rows
  <2>1. Recorded' = Recorded
    BY <1>3 DEF Recorded
  <2>2. \A r \in Recorded : hired'[r] = hired[r]
    <3>1. CASE OrderMined
      BY <1>1, <3>1, MinedJob
    <3>2. CASE UNCHANGED hired
      BY <3>2
    <3> QED
      BY <3>1, <3>2, OrderStep DEF OrderPass, Batch
  <2> QED
    BY <1>1, <1>2, <1>3, <2>1, <2>2 DEF RowsAreHired
<1>4. ASSUME NEW a \in Agents, NEW r \in Requests, Opens(a, r) PROVE RowsAreHired'
  BY <1>1, <1>2, <1>4, OpenedRow DEF RowsAreHired
<1>5. ASSUME NEW r \in Recorded, NEW how \in Closings, Closes(r, how) PROVE RowsAreHired'
  <2>1. UNCHANGED hired
    BY <1>5 DEF Closes
  <2> QED
    BY <1>1, <1>2, <1>5, <2>1, ClosedRows DEF RowsAreHired
<1> QED
  BY <1>3, <1>4, <1>5, LedgerStep

\* Whose job is in hand, and who is left, before and after a step.
LEMMA WhoIsPicked ==
    ASSUME ArenaInv, [Next]_vars
    PROVE  \/ order'.picked \cup Hiring' \subseteq order.picked \cup Hiring
              /\ order'.picked \cap Hiring' = {}
           \/ OrderPass /\ UNCHANGED rows /\ Hiring' = {} /\ order'.picked \cap BusyAgents = {}
<1>1. /\ order \in OrderStates /\ JobsAreKnown
      /\ order.picked \cap Hiring = {} /\ order.picked \subseteq Agents
  BY DEF ArenaInv, LoopsType, PickedAreFree, OrderStates
<1>2. CASE OrderPass
  <2>1. PICK picked \in SUBSET {a \in Agents : Eligible(a, now)} :
           order' = [OrderIdle EXCEPT !.at = "batch", !.picked = picked, !.since = now]
    BY <1>2 DEF OrderPass
  <2>2. order'.at = "batch" /\ order'.picked = picked
    BY <2>1 DEF OrderIdle
  <2> QED
    BY <1>2, <2>2 DEF OrderPass, Hiring, Eligible
<1>3. ASSUME order' \in {GiveUpOrder, OrderIdle}
      PROVE  order'.picked \subseteq order.picked /\ Hiring' = {}
  BY <1>3, BetweenJobs DEF Hiring
<1>4. CASE Batch
  <2>1. CASE order' = OrderIdle
    BY <1>1, <1>3, <2>1
  <2>2. ASSUME NEW a \in LongestWaiting(order.picked),
               order' = [order EXCEPT !.at = "send", !.picked = @ \ {a}, !.job = {a}]
        PROVE  /\ order'.picked = order.picked \ {a} /\ Hiring' = {a} /\ a \in order.picked
    <3>1. order'.at = "send" /\ order'.picked = order.picked \ {a} /\ order'.job = {a}
      BY <1>1, <2>2 DEF OrderStates
    <3> QED
      BY <3>1 DEF Hiring, LongestWaiting
  <2> QED
    BY <1>4, <2>1, <2>2 DEF Batch
<1>5. ASSUME order.at = "send", order' = RetryOrder
      PROVE  order'.picked \subseteq order.picked /\ Hiring' \subseteq Hiring
  <2>1. CASE order' = GiveUpOrder
    BY <1>3, <2>1
  <2>2. CASE order'.at = "send" /\ order'.job = order.job /\ order'.picked = order.picked
    BY <1>5, <2>2 DEF Hiring
  <2> QED
    BY <1>5, <2>1, <2>2, AnotherAttempt
<1>6. CASE OrderMined
  <2>1. PICK a \in Agents, r \in Requests :
             /\ order.at = "send" /\ order.job = {a}
             /\ \/ order' = [order EXCEPT !.at = "mined", !.job = {<<a, r>>}]
                \/ order' = RetryOrder
    BY <1>6, MinedJob
  <2>2. CASE order' = [order EXCEPT !.at = "mined", !.job = {<<a, r>>}]
    <3>1. order'.at = "mined" /\ order'.job = {<<a, r>>} /\ order'.picked = order.picked
      BY <1>1, <2>2 DEF OrderStates
    <3>2. Hiring' = {a} /\ Hiring = {a}
      BY <2>1, <3>1 DEF Hiring
    <3> QED
      BY <1>1, <3>1, <3>2
  <2> QED
    BY <1>1, <1>5, <2>1, <2>2
<1>7. CASE UNCHANGED order
  BY <1>1, <1>7 DEF Hiring
<1> QED
  BY <1>1, <1>2, <1>3, <1>4, <1>5, <1>6, <1>7, OrderStep

LEMMA PickedStayFree ==
    ASSUME ArenaInv, [Next]_vars
    PROVE  PickedAreFree' /\ OneOpenJob'
<1>1. PickedAreFree /\ OneOpenJob
  BY DEF ArenaInv
<1>2. CASE UNCHANGED rows
  <2>1. BusyAgents' = BusyAgents
    BY <1>2 DEF BusyAgents, Open
  <2> QED
    BY <1>1, <1>2, <2>1, WhoIsPicked DEF PickedAreFree, OneOpenJob, Open
<1>3. ASSUME NEW r \in Recorded, NEW how \in Closings, Closes(r, how)
      PROVE  PickedAreFree' /\ OneOpenJob'
  <2>1. /\ Open' \subseteq Open /\ Open \subseteq Requests
        /\ \A s \in Requests : rows'[s].agent = rows[s].agent
    BY <1>3, ClosedRows DEF Open
  <2>2. BusyAgents' \subseteq BusyAgents
    BY <2>1 DEF BusyAgents
  <2>3. order' = order /\ Hiring' = Hiring
    BY <1>3 DEF Closes, Hiring
  <2> QED
    BY <1>1, <2>1, <2>2, <2>3 DEF PickedAreFree, OneOpenJob
<1>4. ASSUME NEW a \in Agents, NEW r \in Requests, Opens(a, r)
      PROVE  PickedAreFree' /\ OneOpenJob'
  <2>1. /\ Open' = Open \cup {r} /\ r \notin Open /\ Open \subseteq Requests
        /\ rows'[r].agent = a /\ \A s \in Requests : s # r => rows'[s] = rows[s]
        /\ Hiring = {a}
    BY <1>4, OpenedRow DEF Open, Recorded
  <2>2. BusyAgents' = BusyAgents \cup {a}
    BY <2>1 DEF BusyAgents
  <2>3. order' \in {GiveUpOrder, OrderIdle}
    BY <1>4 DEF Opens, Record
  <2>4. order'.picked \subseteq order.picked /\ Hiring' = {}
    BY <2>3, BetweenJobs DEF Hiring
  <2>5. a \notin BusyAgents /\ a \notin order.picked
    BY <1>1, <2>1 DEF PickedAreFree
  <2>6. PickedAreFree'
    BY <1>1, <2>2, <2>4, <2>5 DEF PickedAreFree
  <2>7. \A s \in Open : rows'[s] = rows[s] /\ rows[s].agent # a
    BY <2>1, <2>5 DEF BusyAgents
  <2>8. OneOpenJob'
    BY <1>1, <2>1, <2>7 DEF OneOpenJob
  <2> QED
    BY <2>6, <2>8
<1> QED
  BY <1>2, <1>3, <1>4, LedgerStep

LEMMA FiniteLedger ==
    ASSUME NEW S \in SUBSET Requests
    PROVE  IsFiniteSet(S) /\ Cardinality(S) \in Nat
BY ArenaAssumption, FS_Subset, FS_CardinalityType

LEMMA BudgetStays ==
    ASSUME ArenaInv, [Next]_vars
    PROVE  BudgetHolds'
<1>1. BudgetHolds /\ feeBudget' = feeBudget /\ feeBudget \in Nat
  BY DEF ArenaInv, LoopsType, Next, World, Process, vars, processVars
<1>2. Recorded \subseteq Requests /\ Cardinality(Recorded) \in Nat
  BY FiniteLedger DEF Recorded
<1>3. ASSUME Recorded' = Recorded PROVE BudgetHolds'
  <2>1. CASE Batch
    <3>1. ASSUME Cardinality(Recorded) + 1 > feeBudget PROVE order' = OrderIdle
      BY <2>1, <3>1 DEF Batch, FeesSpent
    <3>3. Cardinality(Recorded) + 1 <= feeBudget \/ Cardinality(Recorded) + 1 > feeBudget
      BY <1>1, <1>2
    <3>2. order' = OrderIdle => order'.at = "idle"
      BY DEF OrderIdle
    <3> QED
      BY <1>1, <1>3, <3>1, <3>2, <3>3 DEF BudgetHolds
  <2>2. CASE OrderPass
    <3>1. order'.at = "batch"
      BY <2>2 DEF OrderPass, OrderIdle
    <3> QED
      BY <1>1, <1>3, <3>1 DEF BudgetHolds
  <2>3. CASE order' \in {GiveUpOrder, OrderIdle}
    BY <1>1, <1>3, <2>3, BetweenJobs DEF BudgetHolds
  <2>4. CASE order.at = "send" \/ UNCHANGED order
    BY <1>1, <1>3, <2>4 DEF BudgetHolds
  <2>5. OrderMined => order.at = "send"
    BY DEF OrderMined
  <2> QED
    BY <2>1, <2>2, <2>3, <2>4, <2>5, OrderStep
<1>4. CASE UNCHANGED rows
  BY <1>3, <1>4 DEF Recorded
<1>5. ASSUME NEW r \in Recorded, NEW how \in Closings, Closes(r, how) PROVE BudgetHolds'
  BY <1>3, <1>5, ClosedRows
<1>6. ASSUME NEW a \in Agents, NEW r \in Requests, Opens(a, r) PROVE BudgetHolds'
  <2>1. Recorded' = Recorded \cup {r} /\ r \notin Recorded
    BY <1>6, OpenedRow
  <2>2. Cardinality(Recorded') = Cardinality(Recorded) + 1
    BY <1>2, <2>1, FS_AddElement, FiniteLedger
  <2>3. order'.at \in {"idle", "batch"}
    BY <1>6, BetweenJobs DEF Opens, Record
  <2>4. Cardinality(Recorded) + 1 <= feeBudget
    BY <1>1, <1>6 DEF BudgetHolds, Opens
  <2> QED
    BY <1>1, <2>2, <2>3, <2>4 DEF BudgetHolds
<1> QED
  BY <1>4, <1>5, <1>6, LedgerStep

-----------------------------------------------------------------------------
(* The settle loop *)

LEMMA SettlingStaysRecorded ==
    ASSUME ArenaInv, [Next]_vars
    PROVE  SettlingIsRecorded'
<1>1. SettlingIsRecorded /\ settle \in SettleStates /\ Recorded \subseteq Requests
  BY DEF ArenaInv, LoopsType, Recorded
<1>2. Recorded \subseteq Recorded'
  <2>1. CASE UNCHANGED rows
    BY <2>1 DEF Recorded
  <2> QED
    BY <2>1, LedgerStep, OpenedRow, ClosedRows
<1>3. \A r \in Requests : requests[r].status = "Settled" => requests'[r].status = "Settled"
  BY ChainKeeps DEF Terminal
<1>4. CASE UNCHANGED settle
  BY <1>1, <1>2, <1>3, <1>4 DEF SettlingIsRecorded
<1>5. CASE BetweenRows(settle')
  <2>1. settle'.todo \subseteq Recorded /\ settle'.on = {} /\ settle'.at \in {"idle", "pass"}
    BY <1>5, BetweenRowsTyped
  <2> QED
    BY <1>2, <2>1 DEF SettlingIsRecorded
<1>6. ASSUME NEW r \in settle.todo, NEW late \in BOOLEAN,
             settle' = [settle EXCEPT !.at = "settle", !.todo = @ \ {r}, !.on = {r}, !.late = late]
      PROVE  SettlingIsRecorded'
  <2>1. settle'.at = "settle" /\ settle'.todo = settle.todo \ {r} /\ settle'.on = {r}
    BY <1>1, <1>6 DEF SettleStates
  <2> QED
    BY <1>1, <1>2, <2>1 DEF SettlingIsRecorded
<1>7. ASSUME settle.at = "settle", settle' = [settle EXCEPT !.tries = @ + 1]
      PROVE  SettlingIsRecorded'
  <2>1. settle'.at = "settle" /\ settle'.todo = settle.todo /\ settle'.on = settle.on
    BY <1>1, <1>7 DEF SettleStates
  <2>2. PICK r \in Recorded : settle.on = {r}
    BY <1>1, <1>7 DEF SettlingIsRecorded
  <2> QED
    BY <1>1, <1>2, <2>1, <2>2 DEF SettlingIsRecorded
<1>8. ASSUME settle.at = "settle", SettleMined, settle' = [settle EXCEPT !.at = "settled"]
      PROVE  SettlingIsRecorded'
  <2>1. settle'.at = "settled" /\ settle'.todo = settle.todo /\ settle'.on = settle.on
    BY <1>1, <1>8 DEF SettleStates
  <2>2. PICK r \in Recorded : settle.on = {r}
    BY <1>1, <1>8 DEF SettlingIsRecorded
  <2>3. Requires("settle", r) /\ \E q \in Writes("settle", requests[r]) :
           requests' = [requests EXCEPT ![r] = q]
    BY <1>8, <2>2 DEF SettleMined, Mined
  <2>4. requests \in [Requests -> Request] /\ r \in Requests
    BY <1>1 DEF ArenaInv, ChainInv, ChainTypeOK
  <2>5. \A q \in Writes("settle", requests[r]) : q.status = "Settled"
    BY <2>4 DEF Writes, Request
  <2>6. requests'[r].status = "Settled"
    BY <2>3, <2>4, <2>5
  <2> QED
    BY <1>1, <1>2, <2>1, <2>2, <2>6 DEF SettlingIsRecorded
<1> QED
  BY <1>4, <1>5, <1>6, <1>7, <1>8, SettleStep

\* Whichever node answers for a request: what is over there is over, what was final
\* and past its window there can not be settled any more.
LEMMA ReadIsStillTrue ==
    ASSUME ArenaInv, NEW v \in Answers, NEW r \in Requests
    PROVE  /\ v.requests[r].status \in TERMINAL \ {"None"} => requests[r].status \in Terminal
           /\ /\ v.requests[r].status = "Finalized"
              /\ settle.since > v.requests[r].settleBy
              => Missed(r)
<1>1. /\ v.requests[r] \in Request /\ requests[r] \in Request
      /\ Became(v.requests[r], requests[r])
      /\ now \in Nat /\ settle.since \in Nat /\ settle.since <= now
  BY Answered DEF ArenaInv, LoopsType, SettleStates
<1>2. v.requests[r].status \in Status /\ requests[r].status \in Status
  BY <1>1 DEF Request
<1>3. ASSUME v.requests[r].status \in TERMINAL \ {"None"} PROVE requests[r].status \in Terminal
  <2>1. v.requests[r].status \in Terminal
    BY <1>3 DEF TERMINAL, Terminal
  <2> QED
    BY <1>1, <1>2, <2>1, RankType DEF Became
<1>4. ASSUME v.requests[r].status = "Finalized", settle.since > v.requests[r].settleBy
      PROVE  Missed(r)
  <2>1. CASE v.requests[r] = requests[r]
    <3>1. requests[r].settleBy \in Nat
      BY <1>1 DEF Request
    <3>2. now > requests[r].settleBy
      BY <1>1, <1>4, <2>1, <3>1
    <3> QED
      BY <1>4, <2>1, <3>2 DEF Missed
  <2>2. CASE Rank(v.requests[r].status) < Rank(requests[r].status)
    <3>1. Rank("Finalized") = 4
      BY DEF Rank
    <3>2. Rank(requests[r].status) = 5
      BY <1>4, <2>2, <3>1, RankType
    <3> QED
      BY <1>2, <3>2, RankType DEF Missed
  <2> QED
    BY <1>1, <2>1, <2>2 DEF Became
<1> QED
  BY <1>3, <1>4

\* Why a row is closed, at the step that closes it.
Reason(r, how) ==
    /\ how = "by chain" => requests[r].status \in Terminal \/ r \in misread'
    /\ how = "settled" => requests[r].status \in Terminal
    /\ how = "missed" => Missed(r)

LEMMA VisitHasAReason ==
    ASSUME ArenaInv, NEW r \in Requests, Visit(r)
    PROVE  UNCHANGED rows \/ \E how \in Closings : Closes(r, how) /\ Reason(r, how)
<1>1. PICK v \in Answers : LET q == v.requests[r] IN
         \/ /\ q.status \in TERMINAL
            /\ Close(r, "by chain", FALSE)
            /\ misread' = IF q.status = "None" THEN misread \cup {r} ELSE misread
         \/ UNCHANGED rows
         \/ /\ q.status = "Finalized"
            /\ settle.since > q.settleBy
            /\ Close(r, "missed", FALSE)
         \/ Close(r, "ungradeable", FALSE)
  BY DEF Visit
<1>2. UNCHANGED <<order, hired>>
  BY DEF Visit
<1>3. ASSUME v.requests[r].status \in TERMINAL, Close(r, "by chain", FALSE),
             misread' = IF v.requests[r].status = "None" THEN misread \cup {r} ELSE misread
      PROVE  Closes(r, "by chain") /\ Reason(r, "by chain")
  BY <1>2, <1>3, ReadIsStillTrue DEF Closes, Closings, Reason
<1>4. ASSUME v.requests[r].status = "Finalized", settle.since > v.requests[r].settleBy,
             Close(r, "missed", FALSE)
      PROVE  Closes(r, "missed") /\ Reason(r, "missed")
  BY <1>2, <1>4, ReadIsStillTrue DEF Closes, Closings, Reason
<1>5. ASSUME Close(r, "ungradeable", FALSE)
      PROVE  Closes(r, "ungradeable") /\ Reason(r, "ungradeable")
  BY <1>2, <1>5 DEF Closes, Closings, Reason
<1>6. {"by chain", "missed", "ungradeable"} \subseteq Closings
  BY DEF Closings
<1> QED
  BY <1>1, <1>3, <1>4, <1>5, <1>6

LEMMA CloseSettledHasAReason ==
    ASSUME ArenaInv, CloseSettled
    PROVE  \/ UNCHANGED rows
           \/ \E r \in Recorded : Closes(r, "settled") /\ Reason(r, "settled")
<1>1. /\ settle.on \subseteq Recorded /\ settle.late \in BOOLEAN
      /\ \A r \in settle.on : requests[r].status = "Settled"
  BY DEF CloseSettled, ArenaInv, LoopsType, SettleStates, SettlingIsRecorded
<1>2. UNCHANGED rows \/ \E r \in settle.on : Close(r, "settled", settle.late)
  BY DEF CloseSettled
<1>3. UNCHANGED <<order, hired>>
  BY DEF CloseSettled
<1> QED
  BY <1>1, <1>2, <1>3 DEF Closes, Closings, Reason, Terminal

LEMMA StaysClosedForGood ==
    ASSUME ArenaInv, [Next]_vars
    PROVE  ClosedForGood'
<1>1. ClosedForGood /\ Recorded \subseteq Requests
  BY DEF ArenaInv, Recorded
<1>2. \A r \in Requests : requests[r].status \in Terminal => requests'[r].status \in Terminal
  BY ChainKeeps
<1>3. \A r \in Requests : Missed(r) => Missed(r)'
  BY ChainKeeps
<1>4. misread \subseteq misread'
  BY DEF Next, World, Process, OrderLoop, OrderPass, Batch, OrderMined, OrderFails, OrderReverts, Record,
         SettleLoop, SettlePass, Visit, VisitFails, SettleMined, SettleFails, CloseSettled,
         Crash, vars, processVars
<1>5. CASE UNCHANGED rows
  BY <1>1, <1>2, <1>3, <1>4, <1>5 DEF ClosedForGood, Recorded
<1>6. ASSUME NEW r \in Recorded, NEW how \in Closings, Closes(r, how), Reason(r, how)
      PROVE  ClosedForGood'
  <2>1. /\ Recorded' = Recorded /\ rows'[r].state = how
        /\ \A s \in Requests : s # r => rows'[s] = rows[s]
    BY <1>6, ClosedRows
  <2>2. /\ how \in {"by chain", "settled"} => requests'[r].status \in Terminal \/ r \in misread'
        /\ how = "missed" => Missed(r)'
    BY <1>1, <1>2, <1>3, <1>6 DEF Reason
  <2>3. ASSUME NEW s \in Recorded, s # r
        PROVE  /\ rows'[s].state \in {"by chain", "settled"} =>
                    requests'[s].status \in Terminal \/ s \in misread'
               /\ rows'[s].state = "missed" => Missed(s)'
    BY <1>1, <1>2, <1>3, <1>4, <2>1, <2>3 DEF ClosedForGood
  <2>4. ASSUME NEW s \in Recorded
        PROVE  /\ rows'[s].state \in {"by chain", "settled"} =>
                    requests'[s].status \in Terminal \/ s \in misread'
               /\ rows'[s].state = "missed" => Missed(s)'
    BY <2>1, <2>2, <2>3
  <2> QED
    BY <2>1, <2>4 DEF ClosedForGood
<1>7. ASSUME NEW a \in Agents, NEW r \in Requests, Opens(a, r) PROVE ClosedForGood'
  <2>1. /\ Recorded' = Recorded \cup {r} /\ rows'[r].state = "open"
        /\ \A s \in Requests : s # r => rows'[s] = rows[s]
    BY <1>7, OpenedRow
  <2>2. ASSUME NEW s \in Recorded', s # r
        PROVE  /\ rows'[s].state \in {"by chain", "settled"} =>
                    requests'[s].status \in Terminal \/ s \in misread'
               /\ rows'[s].state = "missed" => Missed(s)'
    BY <1>1, <1>2, <1>3, <1>4, <2>1, <2>2 DEF ClosedForGood
  <2>3. ASSUME NEW s \in Recorded'
        PROVE  /\ rows'[s].state \in {"by chain", "settled"} =>
                    requests'[s].status \in Terminal \/ s \in misread'
               /\ rows'[s].state = "missed" => Missed(s)'
    BY <2>1, <2>2, <2>3
  <2> QED
    BY <2>3 DEF ClosedForGood
<1>8. ASSUME NEW r \in Requests, Visit(r) PROVE ClosedForGood'
  <2>1. r \in Recorded
    BY <1>8 DEF Visit, ArenaInv, SettlingIsRecorded
  <2> QED
    BY <1>5, <1>6, <1>8, <2>1, VisitHasAReason
<1>9. CASE CloseSettled
  <2>1. "settled" \in Closings
    BY DEF Closings
  <2> QED
    BY <1>5, <1>6, <1>9, <2>1, CloseSettledHasAReason
<1>10. CASE Record
  <2>1. ASSUME NEW r \in Recorded, NEW how \in Closings, Closes(r, how) PROVE FALSE
    <3>1. order' \in {GiveUpOrder, OrderIdle} /\ order.at = "mined" /\ order' = order
      BY <1>10, <2>1 DEF Record, Closes
    <3> QED
      BY <3>1, BetweenJobs
  <2> QED
    BY <1>5, <1>7, <2>1, LedgerStep
<1> QED
  BY <1>5, <1>8, <1>9, <1>10
     DEF Next, World, Process, OrderLoop, SettleLoop, OrderPass, Batch, OrderMined, OrderFails,
         OrderReverts, SettlePass, VisitFails, SettleMined, SettleFails, Crash, vars, processVars

-----------------------------------------------------------------------------
(* Theorems *)

LEMMA ArenaInvInit == Init => ArenaInv
<1> SUFFICES ASSUME Init PROVE ArenaInv
  OBVIOUS
<1>1. ChainInv /\ now = 1
  BY ChainInvInit DEF Init, ChainInit
<1>2. \A r \in Requests : rows[r] = NoRow
  BY DEF Init
<1>3. Recorded = {} /\ Open = {} /\ BusyAgents = {}
  BY <1>2 DEF Recorded, Open, NoRow, BusyAgents
<1>4. order = OrderIdle /\ settle = SettleIdle /\ feeBudget \in Nat
  BY ArenaAssumption DEF Init
<1>5. /\ OrderIdle.at = "idle" /\ OrderIdle.tries = 0 /\ OrderIdle.job = {} /\ OrderIdle.picked = {}
      /\ SettleIdle.at = "idle" /\ SettleIdle.todo = {} /\ SettleIdle.on = {}
      /\ SettleIdle.since = 0
  BY DEF OrderIdle, SettleIdle
<1>6. 0 \in 0 .. Attempts - 1 /\ 0 \in 0 .. MaxFaults
  BY ArenaAssumption
<1>7. OrderIdle \in OrderStates /\ SettleIdle \in SettleStates
  BY <1>6 DEF OrderIdle, OrderStates, SettleIdle, SettleStates
<1>8. LoopsType
  BY <1>1, <1>4, <1>5, <1>6, <1>7 DEF Init, LoopsType
<1>9. JobsAreKnown
  BY <1>4, <1>5 DEF JobsAreKnown
<1>10. RowsAreHired /\ OneOpenJob /\ ClosedForGood
  BY <1>3 DEF RowsAreHired, OneOpenJob, ClosedForGood
<1>11. PickedAreFree
  BY <1>3, <1>4, <1>5 DEF PickedAreFree
<1>12. BudgetHolds
  BY <1>3, <1>4, <1>5, FS_EmptySet DEF BudgetHolds
<1>13. SettlingIsRecorded
  BY <1>4, <1>5 DEF SettlingIsRecorded
<1> QED
  BY <1>1, <1>8, <1>9, <1>10, <1>11, <1>12, <1>13 DEF ArenaInv

LEMMA ArenaInvNext == ArenaInv /\ [Next]_vars => ArenaInv'
<1> SUFFICES ASSUME ArenaInv, [Next]_vars PROVE ArenaInv'
  OBVIOUS
<1>1. ChainInv'
  BY NextMovesChain, ChainInvNext DEF ArenaInv
<1> QED
  BY <1>1, LoopsTyped, JobsKept, RowsStayHired, PickedStayFree, BudgetStays,
     SettlingStaysRecorded, StaysClosedForGood DEF ArenaInv

THEOREM ArenaInvariance == Spec => []ArenaInv
BY ArenaInvInit, ArenaInvNext, PTL DEF Spec

LEMMA ArenaTyped == ArenaInv => TypeOK
<1> SUFFICES ASSUME ArenaInv PROVE TypeOK
  OBVIOUS
<1>1. /\ order \in OrderStates /\ settle \in SettleStates /\ Attempts \in Nat \ {0}
      /\ LoopsType /\ ChainTypeOK
  BY ArenaAssumption DEF ArenaInv, LoopsType, ChainInv
<1>2. order.tries < Attempts /\ settle.tries < Attempts
  <2>1. order.tries \in 0 .. Attempts - 1 /\ settle.tries \in 0 .. Attempts - 1
    BY <1>1 DEF OrderStates, SettleStates
  <2> QED
    BY <1>1, <2>1
<1>3. /\ order.at \in {"idle", "batch", "send", "mined"} /\ order.picked \subseteq Agents
      /\ settle.at \in {"idle", "pass", "settle", "settled"}
  BY <1>1 DEF OrderStates, SettleStates
<1>4. /\ \A r \in Recorded : hired[r] = rows[r].agent
      /\ order.at # "send" => order.tries = 0 \/ order.at = "mined"
      /\ settle.todo \cup settle.on \subseteq Recorded
  BY <1>3 DEF ArenaInv, RowsAreHired, JobsAreKnown, SettlingIsRecorded
<1> QED
  BY <1>1, <1>2, <1>3, <1>4 DEF LoopsType, TypeOK

\* The Arena never records more jobs than its budget buys, whatever it pays for and
\* never hears of: the budget is checked once per job, and between the check and the
\* row nothing else enters the ledger (index.js, the order loop).
THEOREM SpendAlwaysHasACause == Spec => []SpendHasACause
<1>1. ASSUME ArenaInv PROVE SpendHasACause
  <2>1. Hired \cap Recorded \subseteq Recorded /\ Recorded \subseteq Requests
    BY DEF Recorded
  <2>2. Cardinality(Hired \cap Recorded) <= Cardinality(Recorded)
    BY <2>1, FiniteLedger, FS_Subset
  <2>3. /\ Cardinality(Hired \cap Recorded) \in Nat /\ Cardinality(Recorded) \in Nat
        /\ Cardinality(Recorded) <= feeBudget /\ feeBudget \in Nat
    BY <1>1, <2>1, FiniteLedger DEF ArenaInv, BudgetHolds, LoopsType
  <2>4. Cardinality(Hired \cap Recorded) <= feeBudget
    BY <2>2, <2>3
  <2> QED
    BY <1>1, <2>4, ArenaTyped DEF SpendHasACause
<1> QED
  BY <1>1, ArenaInvariance, PTL

\* No agent has two jobs open, however the two loops interleave on the one ledger
\* file: an agent picked before an await is still free after it.
THEOREM OneOpenJobAlways == Spec => []OneOpenJob
<1>1. ArenaInv => OneOpenJob
  BY DEF ArenaInv
<1> QED
  BY <1>1, ArenaInvariance, PTL

\* A row is closed for a reason that stays one, although the node that was asked may
\* be behind and the request moves while the answer is on its way.
THEOREM ClosedAlwaysHasACause == Spec => []ClosedHasACause
<1>1. ASSUME ArenaInv, NEW r \in Recorded
      PROVE  CASE rows[r].state \in {"by chain", "settled"} ->
                    requests[r].status \in Terminal \/ r \in misread
               [] rows[r].state = "missed" -> ~Requires("settle", r)
               [] OTHER -> TRUE
  <2>1. ASSUME Missed(r) PROVE ~Requires("settle", r)
    <3>1. now \in Nat /\ r \in Requests /\ requests[r] \in Request
      BY <1>1 DEF ArenaInv, ChainInv, ChainTypeOK, Recorded
    <3>2. requests[r].settleBy \in Nat
      BY <3>1 DEF Request
    <3>3. Requires("settle", r) <=> requests[r].status = "Finalized" /\ now <= requests[r].settleBy
      BY DEF Requires
    <3>4. now > requests[r].settleBy => ~(now <= requests[r].settleBy)
      BY <3>1, <3>2
    <3> QED
      BY <2>1, <3>3, <3>4 DEF Missed, Terminal
  <2> QED
    BY <1>1, <2>1 DEF ArenaInv, ClosedForGood
<1>2. ArenaInv => ClosedHasACause
  BY <1>1 DEF ClosedHasACause
<1> QED
  BY <1>2, ArenaInvariance, PTL

=============================================================================
