-------------------------------- MODULE Arena --------------------------------
(***************************************************************************)
(* relayer/src/arena: the first-party consumer, over RequestChain.  The    *)
(* order loop hires agents and writes a ledger row for each job, the       *)
(* settle loop grades the jobs that are final and held long enough; "they  *)
(* share a file and nothing else".  Both run in one process, where a       *)
(* ledger operation (read, change, rename into place) is one step and      *)
(* every await between two of them may fail or be cut off by a crash.      *)
(* Fees are counted in jobs.  The rest of the world (operators, the        *)
(* watchtower, challengers) makes any call the chain accepts.              *)
(***************************************************************************)
EXTENDS RequestChain, FiniteSetsExt

CONSTANTS
    Agents,
    Hold,            \* ARENA_HOLD_HOURS
    Cooldown,        \* ARENA_COOLDOWN_SEC
    FeeBudgets,      \* values of ARENA_FEE_BUDGET, in jobs
    Attempts,        \* of retry
    MaxFaults        \* bound: failed calls and crashes

VARIABLES
    feeBudget,       \* of this process
    rows,            \* the ledger file
    order, settle,   \* the two loops
    faults,
    hired,           \* history: whose job a request of the Arena's is
    misread          \* history: requests closed because a node did not know them

processVars == <<feeBudget, rows, order, settle, faults, hired, misread>>
vars == <<chainVars, processVars>>

Closings == {"settled", "ungradeable", "by chain", "missed"}

NoRow == [state |-> "none", agent |-> "none", orderedAt |-> 0, holdUntil |-> 0, late |-> FALSE]
Rows == [state : {"open"} \cup Closings, agent : Agents, orderedAt : Nat, holdUntil : Nat,
         late : BOOLEAN]

OrderIdle == [at |-> "idle", picked |-> {}, since |-> 0, tries |-> 0, job |-> {}]
SettleIdle == [at |-> "idle", todo |-> {}, since |-> 0, tries |-> 0, on |-> {}, late |-> FALSE]

\* preflight refuses anything else.
ASSUME ArenaAssumption ==
    /\ IsFiniteSet(Requests) /\ Requests = 1 .. Cardinality(Requests)
    /\ ChallengeWindow < Hold /\ Hold < SettlementWindow
    /\ {Hold, Cooldown, MaxFaults} \cup FeeBudgets \subseteq Nat /\ Attempts \in Nat \ {0}

Fault == faults < MaxFaults /\ faults' = faults + 1

-----------------------------------------------------------------------------
(* The ledger *)

Recorded == {r \in Requests : rows[r].state # "none"}
Open == {r \in Requests : rows[r].state = "open"}
BusyAgents == {rows[r].agent : r \in Open}

\* The last order from an agent, 0 when there has been none.
LastOrderedAt(a) == Max({0} \cup {rows[r].orderedAt : r \in {q \in Recorded : rows[q].agent = a}})

\* Mistake: a job that is over no longer counts against the budget.
FeesOfOpen == Cardinality(Open)

FeesSpent == Cardinality(Recorded)

Close(r, how, late) == rows' = [rows EXCEPT ![r].state = how, ![r].late = late]

-----------------------------------------------------------------------------
(* The order loop *)

CooledDown(a, nowSec) == LastOrderedAt(a) = 0 \/ nowSec >= LastOrderedAt(a) + Cooldown

\* Mistake: agents are told apart by their cooldown only.
EligibleAfterCooldown(a, nowSec) == CooledDown(a, nowSec)

Eligible(a, nowSec) == a \notin BusyAgents /\ CooledDown(a, nowSec)

\* Any of the eligible agents may be inactive, out of credit, or in a window of
\* logs or a read that was refused.  One market read serves the whole pass; a price
\* outside the circuit's domain, or none, ends it (and changes nothing).
OrderPass ==
    /\ order.at = "idle"
    /\ \E picked \in SUBSET {a \in Agents : Eligible(a, now)} :
         /\ picked # {}
         /\ order' = [OrderIdle EXCEPT !.at = "batch", !.picked = picked, !.since = now]
    /\ UNCHANGED <<chainVars, rows, settle, faults, hired, misread>>

LongestWaiting(picked) ==
    {a \in picked : \A b \in picked : LastOrderedAt(a) <= LastOrderedAt(b)}

\* The budget is checked before each order.
Batch ==
    /\ order.at = "batch"
    /\ IF FeesSpent + 1 > feeBudget THEN order' = OrderIdle
       ELSE \E a \in LongestWaiting(order.picked) :
              order' = [order EXCEPT !.at = "send", !.picked = @ \ {a}, !.job = {a}]
    /\ UNCHANGED <<chainVars, rows, settle, faults, hired, misread>>

Hired == {r \in Requests : hired[r] # "none"}

GiveUpOrder == IF order.picked = {} THEN OrderIdle
               ELSE [order EXCEPT !.at = "batch", !.tries = 0, !.job = {}]
RetryOrder == IF order.tries + 1 < Attempts THEN [order EXCEPT !.tries = @ + 1] ELSE GiveUpOrder

\* The request is mined, under the next id; its answer may be lost, and then it is
\* sent again.
OrderMined ==
    /\ order.at = "send"
    /\ \E r \in Requests, a \in order.job :
         /\ r = Cardinality(Hired) + 1 /\ requestExecution(r)
         /\ hired' = [hired EXCEPT ![r] = a]
         /\ \/ order' = [order EXCEPT !.at = "mined", !.job = {<<a, r>>}] /\ UNCHANGED faults
            \/ order' = RetryOrder /\ Fault
    /\ UNCHANGED <<rows, settle, misread>>

OrderFails ==
    /\ order.at = "send"
    /\ order' = RetryOrder /\ Fault
    /\ UNCHANGED <<chainVars, rows, settle, hired, misread>>

\* The order is refused: no credit left, or too slow for the delivery window.
OrderReverts ==
    /\ order.at = "send"
    /\ order' = GiveUpOrder
    /\ UNCHANGED <<chainVars, rows, settle, faults, hired, misread>>

\* The receipt is there once the block is sealed; then the row is written.
Record ==
    /\ order.at = "mined"
    /\ \E job \in order.job :
         /\ tip.requests[job[2]].status # "None"
         /\ \/ /\ rows' = [rows EXCEPT ![job[2]] =
                     [state |-> "open", agent |-> job[1], orderedAt |-> order.since,
                      holdUntil |-> order.since + Hold, late |-> FALSE]]
               /\ UNCHANGED faults
            \/ UNCHANGED rows /\ Fault
    /\ order' = GiveUpOrder
    /\ UNCHANGED <<chainVars, settle, hired, misread>>

-----------------------------------------------------------------------------
(* The settle loop *)

SettlePass ==
    /\ settle.at = "idle" /\ Open # {}
    /\ settle' = [SettleIdle EXCEPT !.at = "pass", !.todo = Open, !.since = now]
    /\ UNCHANGED <<chainVars, rows, order, faults, hired, misread>>

\* Mistake: any ending but the Arena's own.
TERMINALFinalized == {"None", "Finalized", "Settled", "Expired", "Faulted"}

\* Mistake: one more ending is not listed.
TERMINALUnexpired == {"None", "Settled", "Faulted"}

TERMINAL == {"None", "Settled", "Expired", "Faulted"}

After(todo) == IF todo = {} THEN SettleIdle
               ELSE [SettleIdle EXCEPT !.at = "pass", !.todo = todo, !.since = settle.since]
NextRow == After(settle.todo)
Skip(r) == settle' = After(settle.todo \ {r})

\* What outcomeFor is given for the time of delivery is finalizeAt.
Late(q) == q.finalizeAt > q.deliverBy

\* A row, judged by the request as one node knows it.
Visit(r) ==
    /\ settle.at = "pass" /\ r \in settle.todo
    /\ \E v \in Answers : LET q == v.requests[r] IN
         \/ /\ q.status \in TERMINAL
            /\ Close(r, "by chain", FALSE) /\ Skip(r)
            /\ misread' = IF q.status = "None" THEN misread \cup {r} ELSE misread
         \/ /\ q.status \notin TERMINAL
            /\ q.status # "Finalized" \/ settle.since < rows[r].holdUntil
            /\ Skip(r) /\ UNCHANGED <<rows, misread>>
         \/ /\ q.status \notin TERMINAL /\ q.status = "Finalized"
            /\ settle.since >= rows[r].holdUntil
            /\ settle.since > q.settleBy
            /\ Close(r, "missed", FALSE) /\ Skip(r) /\ UNCHANGED misread
         \/ /\ q.status \notin TERMINAL /\ q.status = "Finalized"
            /\ settle.since \in rows[r].holdUntil .. q.settleBy
            /\ UNCHANGED misread
            /\ \/ Close(r, "ungradeable", FALSE) /\ Skip(r)
               \/ UNCHANGED rows
                  /\ settle' = [settle EXCEPT !.at = "settle", !.todo = @ \ {r}, !.on = {r},
                                              !.late = Late(q)]
    /\ UNCHANGED <<chainVars, order, faults, hired>>

\* A read or a price that fails leaves the row open.
VisitFails(r) ==
    /\ settle.at = "pass" /\ r \in settle.todo
    /\ Skip(r) /\ Fault
    /\ UNCHANGED <<chainVars, rows, order, hired, misread>>

RetrySettle == IF settle.tries + 1 < Attempts THEN [settle EXCEPT !.tries = @ + 1] ELSE NextRow

SettleMined ==
    /\ settle.at = "settle"
    /\ \E r \in settle.on : Mined("settle", r)
    /\ \/ settle' = [settle EXCEPT !.at = "settled"] /\ UNCHANGED faults
       \/ settle' = RetrySettle /\ Fault
    /\ UNCHANGED <<rows, order, hired, misread>>

SettleFails ==
    /\ settle.at = "settle"
    /\ UNCHANGED chainVars
    /\ IF \E r \in settle.on : Requires("settle", r)
       THEN settle' = RetrySettle /\ Fault
       ELSE settle' = NextRow /\ UNCHANGED faults
    /\ UNCHANGED <<rows, order, hired, misread>>

\* The score is read, then the row closed and its legs added.
CloseSettled ==
    /\ settle.at = "settled"
    /\ \E r \in settle.on :
         \/ Close(r, "settled", settle.late) /\ UNCHANGED faults
         \/ UNCHANGED rows /\ Fault
    /\ settle' = NextRow
    /\ UNCHANGED <<chainVars, order, hired, misread>>

-----------------------------------------------------------------------------

Crash ==
    /\ order # OrderIdle \/ settle # SettleIdle
    /\ Fault
    /\ order' = OrderIdle /\ settle' = SettleIdle
    /\ UNCHANGED <<chainVars, rows, hired, misread>>

\* Only the consumer may settle.
World ==
    /\ \/ \E r \in Requests : challenge(r)
       \/ \E r \in Requests, call \in Calls \ {"settle"} : Mined(call, r)
       \/ Seal
    /\ UNCHANGED processVars

OrderLoop == OrderPass \/ Batch \/ OrderMined \/ OrderFails \/ OrderReverts \/ Record

SettleLoop ==
    \/ SettlePass \/ (\E r \in Requests : Visit(r) \/ VisitFails(r))
    \/ SettleMined \/ SettleFails \/ CloseSettled

Process == (OrderLoop \/ SettleLoop \/ Crash) /\ UNCHANGED feeBudget

Init ==
    /\ ChainInit
    /\ feeBudget \in FeeBudgets
    /\ rows = [r \in Requests |-> NoRow]
    /\ order = OrderIdle /\ settle = SettleIdle
    /\ faults = 0
    /\ hired = [r \in Requests |-> "none"]
    /\ misread = {}

Next == World \/ Process

Spec == Init /\ [][Next]_vars

\* Blocks are built, no node stays behind, a watchtower enforces the deadlines (the
\* Arena's hard dependency, index.js), and the settle loop goes on.
Watchtower == {"markExpired", "finalize", "slashUnresolvedChallenge", "settleDefault"}

FairSpec ==
    /\ Spec
    /\ WF_vars(CatchUp /\ UNCHANGED processVars)
    /\ WF_vars(SettleLoop /\ UNCHANGED feeBudget)
    /\ \A r \in Requests :
         WF_vars((\E call \in Watchtower : Mined(call, r)) /\ UNCHANGED processVars)

-----------------------------------------------------------------------------

TypeOK ==
    /\ ChainTypeOK
    /\ rows \in [Requests -> Rows \cup {NoRow}]
    /\ \A r \in Recorded : hired[r] = rows[r].agent
    /\ order.at \in {"idle", "batch", "send", "mined"}
    /\ order.picked \subseteq Agents /\ order.tries < Attempts
    /\ order.at # "send" => order.tries = 0 \/ order.at = "mined"
    /\ settle.at \in {"idle", "pass", "settle", "settled"}
    /\ settle.todo \cup settle.on \subseteq Recorded /\ settle.tries < Attempts
    /\ faults \in 0 .. MaxFaults /\ misread \subseteq Requests

\* What the Arena spends on chain stays within its budget, but for the jobs it was
\* never told of: the answer was lost or the process killed before the row was
\* written.
SpendHasACause == TypeOK /\ Cardinality(Hired \cap Recorded) <= feeBudget

\* No agent has two jobs open in the ledger, whatever the settle loop closes while
\* the order loop works through its batch.
OneOpenJob ==
    \A r, s \in Open : rows[r].agent = rows[s].agent => r = s

\* The Arena stops following a request only when it is over, or can no longer be
\* settled by it, or cannot be graded - or because a node did not know it yet.
ClosedHasACause ==
    \A r \in Recorded :
        CASE rows[r].state \in {"by chain", "settled"} ->
                requests[r].status \in Terminal \/ r \in misread
          [] rows[r].state = "missed" -> ~Requires("settle", r)
          [] OTHER -> TRUE

\* Every recorded job is closed in the end, except one the agent declined: Rejected
\* is not among TERMINAL.  (Orders are bounded, so there is an end.)
JobsCloseUnlessRejected ==
    <>[](\A r \in Open : requests[r].status = "Rejected")

\* docs/arena.md on slaBreached: "did the delivery land inside deliverBy? The chain
\* knows; no opinion".
OnTimeIsNotLate ==
    \A r \in Recorded :
        rows[r].late => requests[r].settleBy > requests[r].deliverBy + SettlementWindow

=============================================================================
