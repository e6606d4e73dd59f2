------------------------------- MODULE Alerts -------------------------------
(***************************************************************************)
(* The alert service: the Postgres tables of db/*.sql, the signed writes   *)
(* of interface/app/api/alerts/route.ts and the passes of                  *)
(* relayer/src/alerts.js, as many daemons of it as Daemons has.  A SQL     *)
(* statement is one step (external: Postgres); everything between two      *)
(* statements may interleave, fail or be cut off.  The chain is a head,    *)
(* the blocks with a fault of the one agent watched, and at each block its *)
(* score, on either side of the one threshold; every read of it may be     *)
(* answered by another node, up to MaxLag blocks behind.                   *)
(***************************************************************************)
EXTENDS Naturals, FiniteSets, Functions

CONSTANTS
    Keys,            \* what alert_subscription_unique tells apart
    ScoreKeys,       \* those of kind score_below; the others are of kind fault
    Already,         \* those that may be subscribed before the first daemon starts
    Signatures,      \* signed requests: [nonce, op, key, copies], posted that often
    Daemons,
    Scores,          \* on which sides of the threshold the score may be
    LogWindow, BatchSize, MaxFailures,
    MaxLag,          \* blocks a node may be behind
    MaxHead, MaxCuts  \* bounds

VARIABLES
    head, faults, score,                \* the chain
    subscription, delivery, cursorRow,  \* tables; delivery is keyed as its unique index
    agentState, nonces,
    http,                               \* of each posted request: where its handler is
    mem, cuts,                          \* of each daemon: its memory
    applied,     \* history: how often each signature acted
    owed,        \* history: faults, each for a subscription live at its block
    missed,      \* history: those a pass left behind for a cause, and the cause
    highs        \* history: sweeps that read the score above the threshold

chain == <<head, faults, score>>
tables == <<subscription, delivery, cursorRow, agentState, nonces>>
history == <<applied, owed, missed, highs>>
vars == <<chain, tables, http, mem, cuts, history>>

NoSub == [serial |-> 0, made |-> FALSE, disabled |-> FALSE, failures |-> 0]
NoRow == "none"

\* bigserial ids: a subscription deleted and made again is another one.
IdsOf(k) == {<<k, n>> : n \in 1 .. Cardinality({s \in Signatures : s.op = "POST"}) + Cardinality(Already)}
Ids == UNION {IdsOf(k) : k \in Keys}
Exists(id) == subscription[id[1]].made /\ subscription[id[1]].serial = id[2]
LiveIds == {id \in Ids : Exists(id) /\ ~subscription[id[1]].disabled}

EventKeys == (IF ScoreKeys = Keys THEN {} ELSE {"fault"} \X (1 .. MaxHead))
             \cup IF ScoreKeys = {} THEN {} ELSE {"cross"} \X (0 .. MaxHead)

Asleep == [at |-> "down", subs |-> {}, cursor |-> 0, written |-> {}, head |-> 0,
           short |-> {}, prev |-> NoRow, score |-> "high", batch |-> {}, row |-> <<>>]

Causes == {"first start", "not selected", "behind"}

ASSUME AlertsAssumption ==
    /\ ScoreKeys \subseteq Keys /\ Already \subseteq Keys
    /\ IsFiniteSet(Already) /\ IsFiniteSet(Signatures)
    /\ \A s \in Signatures : s.op \in {"POST", "DELETE"} /\ s.key \in Keys
    /\ Scores \subseteq {"high", "low"}
    /\ {LogWindow, MaxLag, MaxHead, MaxCuts} \subseteq Nat
    /\ {BatchSize, MaxFailures} \subseteq Nat \ {0}

Requests == UNION {{s.nonce} \X (1 .. s.copies) : s \in Signatures}
SignedOf(q) == CHOOSE s \in Signatures : s.nonce = q[1]

-----------------------------------------------------------------------------
(* The API: what a request checks before burning its nonce writes nothing *)

\* Mistake: the nonce is looked up, and inserted with the row it pays for.
BurnNonceLater(q) == q[1] \notin nonces /\ nonces' = nonces

BurnNonce(q) == q[1] \notin nonces /\ nonces' = nonces \cup {q[1]}

Burn(q) ==
    /\ http[q] = "checked"
    /\ \/ BurnNonce(q) /\ http' = [http EXCEPT ![q] = "burned"]
       \/ q[1] \in nonces /\ nonces' = nonces /\ http' = [http EXCEPT ![q] = "answered"]
    /\ UNCHANGED <<chain, subscription, delivery, cursorRow, agentState, mem, cuts, history>>

Subscribed(s) ==
    IF s.made THEN [s EXCEPT !.disabled = FALSE, !.failures = 0]
    ELSE [NoSub EXCEPT !.made = TRUE, !.serial = s.serial + 1]

Cascade(k) == {p \in DOMAIN delivery : p[1][1] # k}

\* The upsert of POST, or the delete of DELETE with its cascade.
Apply(q) ==
    LET s == SignedOf(q)
    IN  /\ http[q] = "burned"
        /\ http' = [http EXCEPT ![q] = "answered"]
        /\ applied' = [applied EXCEPT ![q[1]] = @ + 1]
        /\ \/ /\ s.op = "POST"
              /\ subscription' = [subscription EXCEPT ![s.key] = Subscribed(@)]
              /\ UNCHANGED delivery
           \/ /\ s.op = "DELETE"
              /\ subscription' = [subscription EXCEPT ![s.key].made = FALSE]
              /\ delivery' = Restrict(delivery, Cascade(s.key))
        /\ UNCHANGED <<chain, cursorRow, agentState, nonces, mem, cuts, owed, missed, highs>>

\* The database fails between the two statements.
ApplyFails(q) ==
    /\ http[q] = "burned"
    /\ http' = [http EXCEPT ![q] = "answered"]
    /\ UNCHANGED <<chain, tables, mem, cuts, history>>

-----------------------------------------------------------------------------
(* A daemon's pass *)

Enter(d, m) == mem' = [mem EXCEPT ![d] = m]
Goto(d, at) == Enter(d, [mem[d] EXCEPT !.at = at])

\* From one phase to the next only the cursor is kept, as read and as written.
Turn(d, at) ==
    Enter(d, [Asleep EXCEPT !.at = at, !.cursor = mem[d].cursor, !.written = mem[d].written])

\* The blocks the node that answers may have reached.
Answers == {h \in 0 .. head : h + MaxLag >= head}

\* queue(): insert ... on conflict do nothing.
Queued(d, id, event) ==
    IF <<id, event>> \in DOMAIN delivery THEN delivery
    ELSE [p \in DOMAIN delivery \cup {<<id, event>>} |->
            IF p \in DOMAIN delivery THEN delivery[p]
            ELSE [order |-> Cardinality(DOMAIN delivery), by |-> d, delivered |-> FALSE,
                  received |-> [e \in Daemons |-> 0], lost |-> {}]]

Missed(why, os) == missed' = missed \cup os \X {why}

\* Without a cursor row, from one window back.
Boot(d) ==
    /\ mem[d].at = "down"
    /\ \E h \in Answers :
       \E from \in IF cursorRow # {} THEN cursorRow
                   ELSE {IF h > LogWindow THEN h - LogWindow ELSE 0} :
         /\ Enter(d, [Asleep EXCEPT !.at = "select", !.cursor = from])
         /\ Missed("first start", IF cursorRow # {} THEN {} ELSE {o \in owed : o[2] < from})
    /\ UNCHANGED <<chain, tables, http, cuts, applied, owed, highs>>

SelectLive(d) ==
    /\ mem[d].at = "select"
    /\ Enter(d, [mem[d] EXCEPT !.subs = LiveIds, !.at = IF LiveIds = {} THEN "skip" ELSE "head"])
    /\ UNCHANGED <<chain, tables, http, cuts, history>>

\* What is owed in the blocks up to "to", to subscriptions the select saw and others.
Owing(d, to) == {o \in owed : o[2] \in mem[d].cursor .. to}
OwingSeen(d, to) == {o \in Owing(d, to) : o[1] \in mem[d].subs}

\* Nothing watched: the cursor stays at the head.
SkipToHead(d) ==
    /\ mem[d].at = "skip"
    /\ \E h \in Answers :
         /\ Enter(d, [mem[d] EXCEPT !.cursor = h + 1, !.at = "save"])
         /\ Missed("not selected", Owing(d, h))
    /\ UNCHANGED <<chain, tables, http, cuts, applied, owed, highs>>

ReadHead(d) ==
    /\ mem[d].at = "head"
    /\ \E h \in Answers :
         Enter(d, [mem[d] EXCEPT !.head = h, !.at = IF h < mem[d].cursor THEN "save" ELSE "logs"])
    /\ UNCHANGED <<chain, tables, http, cuts, history>>

\* The logs of each window come from a node of its own: the faults of any block that
\* one of them has not reached may be missing, and nothing tells that they are.
ReadLogs(d) ==
    /\ mem[d].at = "logs"
    /\ \E short \in SUBSET {b \in faults \cap mem[d].cursor .. mem[d].head : \E h \in Answers : h < b} :
         Enter(d, [mem[d] EXCEPT !.short = short, !.at = "queue"])
    /\ UNCHANGED <<chain, tables, http, cuts, history>>

FaultSubs(d) == {id \in mem[d].subs : id[1] \notin ScoreKeys}

Unqueued(d) ==
    (FaultSubs(d) \X {<<"fault", b>> : b \in (faults \cap mem[d].cursor .. mem[d].head) \ mem[d].short})
    \ DOMAIN delivery

\* One insert at a time, for every event of the range and every match.  A row for
\* a subscription deleted meanwhile breaks the foreign key, and the pass with it.
QueueEvent(d) ==
    /\ mem[d].at = "queue"
    /\ \E p \in Unqueued(d) :
         IF Exists(p[1]) THEN delivery' = Queued(d, p[1], p[2]) /\ UNCHANGED mem
         ELSE Turn(d, "select") /\ UNCHANGED delivery
    /\ UNCHANGED <<chain, subscription, cursorRow, agentState, nonces, http, cuts, history>>

FollowedTo(d) ==
    LET range == Owing(d, mem[d].head)
        seen == OwingSeen(d, mem[d].head)
    IN  /\ Enter(d, [mem[d] EXCEPT !.cursor = mem[d].head + 1, !.head = 0, !.short = {}, !.at = "save"])
        /\ missed' = missed \cup (range \ seen) \X {"not selected"}
                            \cup {o \in seen : o[2] \in mem[d].short} \X {"behind"}
        /\ UNCHANGED <<chain, tables, http, cuts, applied, owed, highs>>

\* Mistake: the range counts as followed once its first event is queued.
FollowedEarly(d) == mem[d].at = "queue" /\ FollowedTo(d)

Followed(d) == mem[d].at = "queue" /\ Unqueued(d) = {} /\ FollowedTo(d)

\* What the row already says is not written again.  The sweep runs on its timer,
\* when anything was watched at all.
SaveCursor(d) ==
    LET saved == [mem[d] EXCEPT !.written = {mem[d].cursor}] IN
    /\ mem[d].at = "save"
    /\ cursorRow' = IF mem[d].written = {mem[d].cursor} THEN cursorRow ELSE {mem[d].cursor}
    /\ \/ Enter(d, [Asleep EXCEPT !.at = "pick", !.cursor = saved.cursor, !.written = saved.written])
       \/ mem[d].subs # {} /\ Enter(d, [saved EXCEPT !.at = "sweep"])
    /\ UNCHANGED <<chain, subscription, delivery, agentState, nonces, http, cuts, history>>

ScoreSubs(d) == {id \in mem[d].subs : id[1] \in ScoreKeys}

\* The block, the score and the state stored before are read one after the other.
SweepBlock(d) ==
    /\ mem[d].at = "sweep"
    /\ IF ScoreSubs(d) = {} THEN Turn(d, "pick")
       ELSE \E h \in Answers : Enter(d, [mem[d] EXCEPT !.head = h, !.at = "score"])
    /\ UNCHANGED <<chain, tables, http, cuts, history>>

\* An agent that cannot be read is passed over.
SweepScore(d) ==
    /\ mem[d].at = "score"
    /\ \/ \E h \in Answers : Enter(d, [mem[d] EXCEPT !.score = score[h], !.at = "prev"])
       \/ Turn(d, "pick")
    /\ UNCHANGED <<chain, tables, http, cuts, history>>

SweepPrevious(d) ==
    /\ mem[d].at = "prev"
    /\ Enter(d, [mem[d] EXCEPT !.prev = agentState, !.at = "store"])
    /\ UNCHANGED <<chain, tables, http, cuts, history>>

\* Mistake: a state that was stored before is not stored again.
StoredKeepsFirst(prev, now) == IF prev = NoRow THEN now ELSE prev

Stored(prev, now) == now

\* The new state is stored first; an alert is due when it crossed the threshold.
\* There are no more than MaxHead + 1 blocks to notice one in, and highs counts no further.
SweepStore(d) ==
    /\ mem[d].at = "store"
    /\ agentState' = Stored(mem[d].prev, mem[d].score)
    /\ highs' = IF mem[d].score = "high" /\ highs <= MaxHead THEN highs + 1 ELSE highs
    /\ IF mem[d].prev = "high" /\ mem[d].score = "low" THEN Goto(d, "cross") ELSE Turn(d, "pick")
    /\ UNCHANGED <<chain, subscription, delivery, cursorRow, nonces, http, cuts, applied, owed, missed>>

SweepCross(d) ==
    LET crossing == <<"cross", mem[d].head>> IN
    /\ mem[d].at = "cross"
    /\ \E id \in ScoreSubs(d) :
         IF ~Exists(id) THEN Turn(d, "select") /\ UNCHANGED delivery
         ELSE /\ delivery' = Queued(d, id, crossing)
              /\ IF \A o \in ScoreSubs(d) : <<o, crossing>> \in DOMAIN delivery'
                 THEN Turn(d, "pick") ELSE UNCHANGED mem
    /\ UNCHANGED <<chain, subscription, cursorRow, agentState, nonces, http, cuts, history>>

-----------------------------------------------------------------------------
(* deliverPending *)

Pending == {p \in DOMAIN delivery : ~delivery[p].delivered /\ p[1] \in LiveIds}

Oldest(ps) == {p \in ps :
    Cardinality({o \in ps : delivery[o].order < delivery[p].order}) < BatchSize}

Pick(d) ==
    /\ mem[d].at = "pick"
    /\ Enter(d, [mem[d] EXCEPT !.batch = Oldest(Pending),
                               !.at = IF Pending = {} THEN "select" ELSE "claim"])
    /\ UNCHANGED <<chain, tables, http, cuts, history>>

\* The next row of the batch, or the end of the pass.
NextRow(d) ==
    Enter(d, [mem[d] EXCEPT !.row = <<>>, !.at = IF mem[d].batch = {} THEN "select" ELSE "claim"])

\* The claim matches any row that is not delivered, claimed by another or not.
Claim(d) ==
    /\ mem[d].at = "claim"
    /\ \E p \in mem[d].batch :
         LET m == [mem[d] EXCEPT !.batch = @ \ {p}] IN
         IF p \in DOMAIN delivery /\ ~delivery[p].delivered
         THEN /\ Enter(d, [m EXCEPT !.row = p, !.at = "post"])
         ELSE Enter(d, [m EXCEPT !.at = IF m.batch = {} THEN "select" ELSE "claim"])
    /\ UNCHANGED <<chain, tables, http, cuts, history>>

\* The endpoint has the alert (counted up to twice from each daemon); "lost": and
\* the daemon not its answer.
Receive(d, p, lost) ==
    delivery' = IF p \in DOMAIN delivery
                THEN [delivery EXCEPT ![p].received[d] = IF @ < 2 THEN @ + 1 ELSE @,
                                      ![p].lost = IF lost THEN @ \cup {d} ELSE @]
                ELSE delivery

\* A private or unresolvable host and a refusal are failures; so is an answer
\* that comes after the timeout.
Post(d) ==
    /\ mem[d].at = "post"
    /\ \/ Receive(d, mem[d].row, FALSE) /\ Goto(d, "ok")
       \/ Receive(d, mem[d].row, TRUE) /\ Goto(d, "bad")
       \/ UNCHANGED delivery /\ Goto(d, "bad")
    /\ UNCHANGED <<chain, subscription, cursorRow, agentState, nonces, http, cuts, history>>

\* Mistake: an accepted alert is left to the next pass to mark.
MarkDeliveredForgets(p) == delivery

MarkDelivered(p) ==
    IF p \in DOMAIN delivery THEN [delivery EXCEPT ![p].delivered = TRUE] ELSE delivery

RecordOk(d) ==
    LET p == mem[d].row IN
    /\ mem[d].at = "ok"
    /\ delivery' = MarkDelivered(p)
    /\ Goto(d, "reset")
    /\ UNCHANGED <<chain, subscription, cursorRow, agentState, nonces, http, cuts, history>>

ResetFailures(d) ==
    LET id == mem[d].row[1] IN
    /\ mem[d].at = "reset"
    /\ subscription' = IF Exists(id) THEN [subscription EXCEPT ![id[1]].failures = 0]
                       ELSE subscription
    /\ NextRow(d)
    /\ UNCHANGED <<chain, delivery, cursorRow, agentState, nonces, http, cuts, history>>

\* Mistake: a subscription that keeps failing is never given up on.
FailedForEver(s) == [s EXCEPT !.failures = IF @ + 1 < MaxFailures THEN @ + 1 ELSE @]

Failed(s) == [s EXCEPT !.failures = IF @ < MaxFailures THEN @ + 1 ELSE @,
                       !.disabled = @ \/ s.failures + 1 >= MaxFailures]

\* The count is returned by the update: for a subscription deleted meanwhile there
\* is none to read, and the pass breaks off.
RecordFailure(d) ==
    LET id == mem[d].row[1] IN
    /\ mem[d].at = "bad"
    /\ IF Exists(id)
       THEN subscription' = [subscription EXCEPT ![id[1]] = Failed(@)] /\ NextRow(d)
       ELSE UNCHANGED subscription /\ Turn(d, "select")
    /\ UNCHANGED <<chain, delivery, cursorRow, agentState, nonces, http, cuts, history>>

-----------------------------------------------------------------------------
(* What may go wrong with a daemon: a statement or a call throws, or it is killed *)

\* The record of an accepted post is lost with the step that was to make it.
Forgets(d) ==
    /\ delivery' = IF mem[d].at = "ok" /\ mem[d].row \in DOMAIN delivery
                   THEN [delivery EXCEPT ![mem[d].row].lost = @ \cup {d}] ELSE delivery
    /\ UNCHANGED <<chain, subscription, cursorRow, agentState, nonces, http, history>>

\* In the send itself an error is a failure to record, elsewhere it ends the pass.
Throws(d) ==
    /\ mem[d].at \notin {"down", "select", "post"} /\ cuts < MaxCuts
    /\ cuts' = cuts + 1
    /\ Forgets(d)
    /\ IF mem[d].at \in {"ok", "reset"} THEN Goto(d, "bad") ELSE Turn(d, "select")

Crash(d) ==
    /\ mem[d].at # "down" /\ cuts < MaxCuts
    /\ Forgets(d)
    /\ Enter(d, Asleep)
    /\ cuts' = cuts + 1

Pass(d) ==
    \/ Boot(d) \/ SelectLive(d) \/ SkipToHead(d) \/ ReadHead(d) \/ ReadLogs(d) \/ QueueEvent(d)
    \/ Followed(d) \/ SaveCursor(d)
    \/ SweepBlock(d) \/ SweepScore(d) \/ SweepPrevious(d) \/ SweepStore(d) \/ SweepCross(d)
    \/ Pick(d) \/ Claim(d) \/ Post(d) \/ RecordOk(d) \/ ResetFailures(d) \/ RecordFailure(d)

Block ==
    /\ head < MaxHead
    /\ head' = head + 1
    /\ \/ /\ faults' = faults \cup {head + 1}
          /\ owed' = owed \cup {<<id, head + 1>> : id \in {i \in LiveIds : i[1] \notin ScoreKeys}}
       \/ UNCHANGED <<faults, owed>>
    /\ \E now \in Scores : score' = [b \in 0 .. head' |-> IF b = head' THEN now ELSE score[b]]
    /\ UNCHANGED <<tables, http, mem, cuts, applied, missed, highs>>

Init ==
    /\ head = 0 /\ faults = {} /\ score = [b \in {0} |-> "high"]
    /\ \E already \in SUBSET Already :
         subscription = [k \in Keys |-> IF k \in already THEN Subscribed(NoSub) ELSE NoSub]
    /\ delivery = <<>>
    /\ cursorRow = {} /\ agentState = NoRow /\ nonces = {}
    /\ http = [q \in Requests |-> "checked"]
    /\ mem = [d \in Daemons |-> Asleep] /\ cuts = 0
    /\ applied = [n \in {s.nonce : s \in Signatures} |-> 0]
    /\ owed = {} /\ missed = {} /\ highs = 0

Next ==
    \/ Block
    \/ \E q \in Requests : Burn(q) \/ Apply(q) \/ ApplyFails(q)
    \/ \E d \in Daemons : Pass(d) \/ Throws(d) \/ Crash(d)

Spec == Init /\ [][Next]_vars

\* A daemon is restarted and its loop goes on: beyond the MaxCuts failures that
\* interrupt it, only endpoints may go on failing.
FairSpec == Spec /\ \A d \in Daemons : WF_vars(Pass(d))

-----------------------------------------------------------------------------

Row == [order : Nat, by : Daemons, delivered : BOOLEAN,
        received : [Daemons -> 0 .. 2], lost : SUBSET Daemons]

TypeOK ==
    /\ head \in 0 .. MaxHead /\ faults \subseteq 1 .. head
    /\ score \in [0 .. head -> {"high", "low"}]
    /\ subscription \in [Keys -> [serial : Nat, made : BOOLEAN,
                                  disabled : BOOLEAN, failures : 0 .. MaxFailures]]
    /\ DOMAIN delivery \subseteq Ids \X EventKeys
    /\ \A p \in DOMAIN delivery : delivery[p] \in Row /\ Exists(p[1])
    /\ cursorRow \subseteq 0 .. head + 1 /\ Cardinality(cursorRow) <= 1
    /\ agentState \in {"high", "low", NoRow}
    /\ missed \subseteq owed \X Causes /\ highs \in 0 .. MaxHead + 1
    /\ \A d \in Daemons : mem[d].subs \subseteq Ids /\ mem[d].cursor <= head + 1

\* The stored cursor passes a fault that a subscription live at the time is owed, and
\* that was never queued, for three causes only: it came before the service's first
\* window, the subscription was made or re-enabled after the pass's select, or a
\* node that had not reached the block answered for its logs (alerts.js:173 and 193;
\* the cursor goes by what the other node called the head).  Then the alert is lost.
\* Passes that fail, crash or race with those of another daemon lose none.
PassedForACause ==
    /\ TypeOK
    /\ \A c \in cursorRow, o \in owed :
         /\ o[2] < c /\ Exists(o[1])
         /\ \A why \in Causes : <<o, why>> \notin missed
         => <<o[1], <<"fault", o[2]>>>> \in DOMAIN delivery

\* A daemon posts one alert twice only when an answer was lost: after a timeout, or
\* after a kill or an error between its post and its record of it.  Several daemons
\* may post it once each: the claim keeps none of them out (alerts.js:307-309 has it
\* that it does), and nothing but the record of the first does.
PostedAgainForACause ==
    \A p \in DOMAIN delivery, d \in Daemons :
      delivery[p].received[d] > 1 => d \in delivery[p].lost

\* "A crossing, not a condition" (alerts.js:236): however often a daemon is started
\* again, fails or sweeps, it announces a standing score to a subscription once;
\* before the next alert a sweep has read the score above the threshold.  That a
\* fall is announced at all is not promised (the state is stored first), nor that
\* it is announced by one daemon, or once: a node that is behind shows it again.
CrossingNotCondition ==
    \A id \in Ids, d \in Daemons :
      Cardinality({h \in 0 .. MaxHead : /\ <<id, <<"cross", h>>>> \in DOMAIN delivery
                                       /\ delivery[<<id, <<"cross", h>>>>].by = d}) <= highs

\* A signature acts once, however many copies of the request are handled at once.
SignatureActsOnce == \A n \in DOMAIN applied : applied[n] <= 1

\* Every queued alert is in the end delivered, or its subscription is disabled or
\* gone: one dead endpoint does not starve the others behind it in the queue.  The
\* bounds make the chain and the callers fall quiet, and then the queue empties.
QueueDrains == <>[](Pending = {})

=============================================================================
