----------------------------- MODULE Watchtower -----------------------------
(***************************************************************************)
(* relayer/src/watchtower.js: the loop that follows ExecutionRequested and *)
(* calls whatever a passed deadline allows, over RequestChain.  The rest   *)
(* of the world (consumers, operators, challengers, other watchtowers)     *)
(* makes any call the chain accepts.  An iteration of the loop is a Scan   *)
(* and one Attend for each tracked request; every await in it may fail,    *)
(* and the process may be killed and started again.                        *)
(***************************************************************************)
EXTENDS RequestChain

CONSTANTS
    Lookback,      \* blocks scanned on start: 5000, or as far as START_BLOCK
    Attempts,      \* of retry, around every transaction
    MaxCrashes     \* bound

VARIABLES
    up, crashes,
    cursor, tracked,   \* the process's memory
    nowSec, todo,      \* of the running iteration: its clock, what it has left
    acting,            \* the transaction it waits for
    misread            \* history: requests a lagging node hid from it

processVars == <<up, crashes, cursor, tracked, nowSec, todo, acting, misread>>
vars == <<chainVars, processVars>>

Idle == [call |-> "none"]

Enforcements == {"markExpired", "finalize", "slashUnresolvedChallenge", "settleDefault"}

Acting == [call : Enforcements, on : Requests, tries : 0 .. Attempts - 1] \cup {Idle}

ASSUME WatchtowerAssumption == Lookback \in Nat /\ Attempts \in Nat \ {0} /\ MaxCrashes \in Nat

Between == up /\ todo = {} /\ acting = Idle

-----------------------------------------------------------------------------

StartCursor(head) == IF head > Lookback THEN head - Lookback ELSE 0

Start ==
    /\ ~up
    /\ up' = TRUE
    /\ \E v \in Answers : cursor' = StartCursor(v.height)
    /\ UNCHANGED <<chainVars, crashes, tracked, nowSec, todo, acting, misread>>

\* Mistake: one block is skipped between two scans.
NextCursorSkips(head) == head + 2

NextCursor(head) == head + 1

\* The head, the logs up to it and the latest block are three calls.
Scan ==
    /\ Between
    /\ \E head \in {v.height : v \in Answers}, logs \in Answers, latest \in Answers :
         LET found == RequestedIn(logs, cursor, head)
         IN  /\ IF head >= cursor
                THEN /\ tracked' = tracked \cup found
                     /\ cursor' = NextCursor(head)
                     /\ misread' = (misread \ found)
                                   \cup (RequestedIn(tip, cursor, head) \ found)
                ELSE UNCHANGED <<tracked, cursor, misread>>
             /\ todo' = tracked'
             /\ nowSec' = latest.height
    /\ UNCHANGED <<chainVars, up, crashes, acting>>

\* A read that throws, or a restart of the RPC connection, ends the iteration.
PassFails ==
    /\ up /\ todo # {} /\ acting = Idle
    /\ todo' = {}
    /\ UNCHANGED <<chainVars, up, crashes, cursor, tracked, nowSec, acting, misread>>

Over == {"None", "Settled", "Expired", "Faulted", "Rejected"}

\* Mistake: an open challenge measured against its challenge window.
DueEarly(q) ==
    CASE q.status = "Pending" /\ nowSec > q.deliverBy -> {"markExpired"}
      [] q.status \in {"Delivered", "Challenged"} /\ nowSec < q.finalizeAt -> {}
      [] q.status = "Delivered" -> {"finalize"}
      [] q.status = "Challenged" -> {"slashUnresolvedChallenge"}
      [] q.status = "Finalized" /\ nowSec > q.settleBy -> {"settleDefault"}
      [] OTHER -> {}

\* Mistake: a silent consumer is left alone.
DueNoDefault(q) ==
    CASE q.status = "Pending" /\ nowSec > q.deliverBy -> {"markExpired"}
      [] q.status = "Delivered" /\ nowSec >= q.finalizeAt -> {"finalize"}
      [] q.status = "Challenged" /\ nowSec > q.escalationDeadline -> {"slashUnresolvedChallenge"}
      [] OTHER -> {}

Due(q) ==
    CASE q.status = "Pending" /\ nowSec > q.deliverBy -> {"markExpired"}
      [] q.status = "Delivered" /\ nowSec >= q.finalizeAt -> {"finalize"}
      [] q.status = "Challenged" /\ nowSec > q.escalationDeadline -> {"slashUnresolvedChallenge"}
      [] q.status = "Finalized" /\ nowSec > q.settleBy -> {"settleDefault"}
      [] OTHER -> {}

Attend(r) ==
    /\ up /\ r \in todo /\ acting = Idle
    /\ todo' = todo \ {r}
    /\ \E v \in Answers :
         LET q == v.requests[r]
         IN  /\ tracked' = IF q.status \in Over THEN tracked \ {r} ELSE tracked
             /\ misread' = IF q.status = "None" THEN misread \cup {r} ELSE misread
             /\ acting' \in IF q.status \notin Over /\ Due(q) # {}
                            THEN [call : Due(q), on : {r}, tries : {0}]
                            ELSE {Idle}
    /\ UNCHANGED <<chainVars, up, crashes, cursor, nowSec>>

\* retry: another attempt, or the last error swallowed by `act`.
NextAttempt == IF acting.tries + 1 < Attempts THEN [acting EXCEPT !.tries = @ + 1] ELSE Idle

ActMined ==
    /\ acting # Idle
    /\ Mined(acting.call, acting.on)
    /\ acting' \in {Idle, NextAttempt}      \* the second when the answer is lost
    /\ UNCHANGED <<up, crashes, cursor, tracked, nowSec, todo, misread>>

ActFails ==
    /\ acting # Idle
    /\ UNCHANGED chainVars
    /\ acting' = IF Requires(acting.call, acting.on) THEN NextAttempt ELSE Idle
    /\ UNCHANGED <<up, crashes, cursor, tracked, nowSec, todo, misread>>

Crash ==
    /\ up /\ crashes < MaxCrashes
    /\ up' = FALSE
    /\ crashes' = crashes + 1
    /\ cursor' = 0 /\ tracked' = {} /\ nowSec' = 0 /\ todo' = {} /\ acting' = Idle
    /\ UNCHANGED <<chainVars, misread>>

-----------------------------------------------------------------------------

Init ==
    /\ ChainInit
    /\ up = FALSE /\ crashes = 0
    /\ cursor = 0 /\ tracked = {} /\ nowSec = 0 /\ todo = {} /\ acting = Idle
    /\ misread = {}

World ==
    /\ \/ \E r \in Requests : requestExecution(r) \/ challenge(r)
       \/ \E r \in Requests, call \in Calls : Mined(call, r)
       \/ Seal
    /\ UNCHANGED processVars

Loop == Start \/ Scan \/ PassFails \/ (\E r \in Requests : Attend(r)) \/ ActMined \/ ActFails

Next == World \/ Loop \/ Crash

Spec == Init /\ [][Next]_vars

\* Blocks are built, no node stays behind, a killed process is started again and
\* its loop goes on; no await fails every time.  Nobody else owes a call.
Fairness ==
    /\ WF_vars(CatchUp /\ UNCHANGED processVars)
    /\ WF_vars(Start) /\ WF_vars(Scan) /\ WF_vars(Loop)
    /\ \A r \in Requests : SF_vars(Attend(r))
    /\ \A r \in Requests : SF_vars(acting # Idle /\ acting.on = r /\ ActMined)

FairSpec == Spec /\ Fairness

-----------------------------------------------------------------------------

TypeOK ==
    /\ ChainTypeOK
    /\ up \in BOOLEAN /\ crashes \in 0 .. MaxCrashes
    /\ cursor \in Nat /\ nowSec \in Nat
    /\ tracked \subseteq Requests /\ todo \subseteq tracked
    /\ acting \in Acting
    /\ misread \subseteq Requests

StartsFrom == [call \in Enforcements |->
    CASE call = "markExpired" -> "Pending" [] call = "finalize" -> "Delivered"
      [] call = "slashUnresolvedChallenge" -> "Challenged" [] OTHER -> "Finalized"]

\* A transaction the watchtower sends is refused only because somebody else moved
\* the request first: its clock, the status it read and the chain's own deadlines
\* never disagree, however old they are by the time the transaction is mined.
OnlyRacesAreLost ==
    /\ TypeOK
    /\ acting # Idle =>
         \/ Requires(acting.call, acting.on)
         \/ requests[acting.on].status # StartsFrom[acting.call]

\* With a lookback as long as a request can live, a running watchtower that has
\* scanned a block tracks every request of it that is not over, whatever crashed
\* or failed in between, unless a lagging node hid the request from it.
NothingForgotten ==
    up => \A r \in Requests :
            requests[r].status \in Live /\ requests[r].createdAt < cursor
            => r \in tracked \cup misread

\* Every request a lagging node never hid ends, though consumer, operator and
\* challenger may all stay silent.
EndsUnlessMisread ==
    \A r \in Requests :
      requests[r].status \in Live ~> requests[r].status \in Terminal \/ r \in misread

=============================================================================
