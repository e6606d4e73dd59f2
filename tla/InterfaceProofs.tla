--------------------------- MODULE InterfaceProofs ---------------------------
(***************************************************************************)
(* What the users of the interface are told.  First the alert service, for *)
(* every set of keys, of signed requests and of daemons, any window, batch *)
(* and number of failures, and nodes that lag as far as they like: what a  *)
(* signature, the stored cursor, a post and a sweep promise.  Then the     *)
(* explorer's pages, for any networks, agents and requests.                *)
(***************************************************************************)
EXTENDS Alerts, Explorer, FiniteSetTheorems, WellFoundedInduction, TLAPS

-----------------------------------------------------------------------------
(* The inductive invariants *)

SignedNonces == {s.nonce : s \in Signatures}

\* A nonce is burned before the one request that burned it acts.
NonceInv ==
    /\ DOMAIN http = Requests /\ DOMAIN applied = SignedNonces
    /\ \A n \in SignedNonces : applied[n] \in {0, 1}
    /\ \A n \in SignedNonces \ nonces : applied[n] = 0
    /\ \A q \in Requests : http[q] = "burned" => q[1] \in nonces /\ applied[q[1]] = 0
    /\ \A q, p \in Requests :
         http[q] = "burned" /\ http[p] = "burned" /\ q[1] = p[1] => q = p

Phases == {"down", "select", "skip", "head", "logs", "queue", "save", "sweep", "score", "prev",
           "store", "cross", "pick", "claim", "post", "ok", "bad", "reset"}

Keyed == Ids \X EventKeys

\* A daemon's memory.
Memory ==
    [at : Phases, subs : SUBSET Ids, cursor : Nat, written : SUBSET Nat, head : 0 .. MaxHead,
     short : SUBSET (1 .. MaxHead), prev : {"high", "low", NoRow}, score : {"high", "low"},
     batch : SUBSET Keyed, row : Keyed \cup {<<>>}]

TablesType ==
    /\ head \in 0 .. MaxHead /\ faults \subseteq 1 .. head
    /\ score \in [0 .. head -> {"high", "low"}]
    /\ subscription \in [Keys -> [serial : Nat, made : BOOLEAN,
                                  disabled : BOOLEAN, failures : 0 .. MaxFailures]]
    /\ IsFiniteSet(DOMAIN delivery) /\ DOMAIN delivery \subseteq Keyed
    /\ \A p \in DOMAIN delivery : delivery[p] \in Row
    /\ cursorRow \subseteq 0 .. head + 1 /\ (cursorRow = {} \/ \E c \in 0 .. head + 1 : cursorRow = {c})
    /\ agentState \in {"high", "low", NoRow} /\ highs \in 0 .. MaxHead + 1

MemoryType ==
    /\ mem \in [Daemons -> Memory]
    /\ \A d \in Daemons :
         /\ mem[d].cursor <= head + 1 /\ mem[d].head <= head
         /\ mem[d].at = "skip" => mem[d].subs = {}
         /\ mem[d].at \in {"post", "ok", "bad", "reset"} => mem[d].row \in Keyed

\* A row of the queue is of a subscription that exists: the foreign key.
RowsExist == \A p \in DOMAIN delivery : Exists(p[1])

\* What is owed is owed for a fault, to a subscription of that kind which was made,
\* under the serial it has or an earlier one.
OwedIsDue ==
    \A o \in owed :
      /\ o \in Ids \X faults /\ o[1][1] \notin ScoreKeys
      /\ o[1][2] <= subscription[o[1][1]].serial

\* A cause is recorded of what is owed only.
CausesOwed == missed \subseteq owed \X Causes

\* All that is owed below a cursor is in the queue, was left behind for a cause, or its
\* subscription is gone.
Lost(o) == \E why \in Causes : <<o, why>> \in missed

CoveredBelow(c) ==
    \A o \in owed :
      o[2] < c /\ Exists(o[1]) => Lost(o) \/ <<o[1], <<"fault", o[2]>>>> \in DOMAIN delivery

\* The cursor a daemon goes on from, or stores, covers what is below it.
CursorInv ==
    /\ \A c \in cursorRow : CoveredBelow(c)
    /\ \A d \in Daemons : mem[d].at # "down" => CoveredBelow(mem[d].cursor)

ServiceInv == TablesType /\ MemoryType /\ RowsExist /\ OwedIsDue /\ CausesOwed /\ CursorInv

-----------------------------------------------------------------------------

\* An alert a daemon posted, and of whose answer nothing was lost, it posted once, and
\* has marked it so or is about to; what it goes on to post, it has not yet.
PostInv ==
    /\ \A p \in DOMAIN delivery, d \in Daemons :
         \/ delivery[p].received[d] = 0 \/ d \in delivery[p].lost
         \/ /\ delivery[p].received[d] = 1
            /\ delivery[p].delivered \/ (mem[d].at = "ok" /\ mem[d].row = p)
    /\ \A d \in Daemons : mem[d].at = "post" /\ mem[d].row \in DOMAIN delivery =>
         delivery[mem[d].row].received[d] = 0 \/ d \in delivery[mem[d].row].lost

\* The crossings a daemon announced to a subscription, by the block of its sweep, and
\* the one it is about to.
Announced(id, d) == {h \in 0 .. MaxHead : /\ <<id, <<"cross", h>>>> \in DOMAIN delivery
                                         /\ delivery[<<id, <<"cross", h>>>>].by = d}
Announcing(id, d) == Announced(id, d) \cup (IF mem[d].at = "cross" THEN {mem[d].head} ELSE {})

\* The score was read above the threshold at least once for each of them, or once more.
AtMost(S, n) == Cardinality(S) <= n
Spare(S, n) == Cardinality(S) < n \/ n = MaxHead + 1

\* A stored state above the threshold is one that no daemon has announced a crossing
\* from yet, and so is the one a sweep goes by.
CrossInv ==
    \A id \in Ids, d \in Daemons :
      /\ AtMost(Announcing(id, d), highs)
      /\ agentState = "high" => Spare(Announcing(id, d), highs)
      /\ mem[d].at = "store" /\ mem[d].prev = "high" => Spare(Announced(id, d), highs)

-----------------------------------------------------------------------------
(* A signature acts once *)

LEMMA NonceInvInit == Init => NonceInv
<1> SUFFICES ASSUME Init PROVE NonceInv
  OBVIOUS
<1>1. \A q \in Requests : http[q] = "checked"
  BY DEF Init
<1>2. DOMAIN http = Requests /\ DOMAIN applied = SignedNonces /\ \A n \in SignedNonces : applied[n] = 0
  BY DEF Init, SignedNonces
<1> QED
  BY <1>1, <1>2 DEF NonceInv

LEMMA NonceInvNext == NonceInv /\ [Next]_vars => NonceInv'
<1> SUFFICES ASSUME NonceInv, [Next]_vars PROVE NonceInv'
  OBVIOUS
<1>1. \A q \in Requests : q[1] \in SignedNonces
  BY DEF Requests, SignedNonces
<1>2. CASE UNCHANGED <<http, nonces, applied>>
  BY <1>2 DEF NonceInv
<1>3. ASSUME NEW q \in Requests, Burn(q) PROVE NonceInv'
  <2>1. applied' = applied /\ http[q] = "checked"
    BY <1>3 DEF Burn, history
  <2>2. CASE q[1] \notin nonces /\ nonces' = nonces \cup {q[1]} /\ http' = [http EXCEPT ![q] = "burned"]
    BY <1>1, <2>1, <2>2 DEF NonceInv
  <2>3. CASE nonces' = nonces /\ http' = [http EXCEPT ![q] = "answered"]
    BY <2>1, <2>3 DEF NonceInv
  <2> QED
    BY <1>3, <2>2, <2>3 DEF Burn, BurnNonce
<1>4. ASSUME NEW q \in Requests, Apply(q) PROVE NonceInv'
  <2>1. /\ http[q] = "burned" /\ http' = [http EXCEPT ![q] = "answered"]
        /\ applied' = [applied EXCEPT ![q[1]] = @ + 1] /\ nonces' = nonces
    BY <1>4 DEF Apply
  <2>2. applied[q[1]] = 0 /\ q[1] \in nonces /\ q[1] \in SignedNonces
    BY <1>1, <2>1 DEF NonceInv
  <2>3. applied'[q[1]] = 1 /\ \A n \in SignedNonces : n # q[1] => applied'[n] = applied[n]
    BY <2>1, <2>2 DEF NonceInv
  <2>4. \A p \in Requests : http'[p] = "burned" => http[p] = "burned" /\ p # q
    BY <2>1 DEF NonceInv
  <2>5. \A p \in Requests : http'[p] = "burned" => p[1] # q[1]
    BY <2>1, <2>4 DEF NonceInv
  <2> QED
    BY <1>1, <2>1, <2>2, <2>3, <2>4, <2>5 DEF NonceInv
<1>5. ASSUME NEW q \in Requests, ApplyFails(q) PROVE NonceInv'
  BY <1>5 DEF ApplyFails, NonceInv, tables, history
<1> QED
  BY <1>2, <1>3, <1>4, <1>5
     DEF Next, Block, Pass, Boot, SelectLive, SkipToHead, ReadHead, ReadLogs, QueueEvent, Followed, FollowedTo,
         SaveCursor, SweepBlock, SweepScore, SweepPrevious, SweepStore, SweepCross, Pick, Claim, Post,
         RecordOk, ResetFailures, RecordFailure, Throws, Crash, Forgets, vars, tables, history

\* A signed request acts once, however many copies of it are handled at once: the
\* insert of the nonce is what decides, and it commits before the write it guards
\* (api/alerts/route.ts).
THEOREM SignatureAlwaysActsOnce == Spec => []SignatureActsOnce
<1>1. NonceInv => SignatureActsOnce
  BY DEF NonceInv, SignatureActsOnce
<1> QED
  BY <1>1, NonceInvInit, NonceInvNext, PTL DEF Spec

-----------------------------------------------------------------------------
(* Types *)

LEMMA IdsTyped ==
    \A id \in Ids : id[1] \in Keys /\ id[2] \in Nat /\ id = <<id[1], id[2]>>
<1>1. {s \in Signatures : s.op = "POST"} \in SUBSET Signatures
  OBVIOUS
<1>2. /\ Cardinality({s \in Signatures : s.op = "POST"}) \in Nat
      /\ Cardinality(Already) \in Nat
  BY <1>1, AlertsAssumption, FS_Subset, FS_CardinalityType
<1> QED
  BY <1>2 DEF Ids, IdsOf

LEMMA FaultKey ==
    ASSUME NEW id \in Ids, id[1] \notin ScoreKeys, NEW b \in 1 .. MaxHead
    PROVE  <<id, <<"fault", b>>>> \in Keyed
<1>1. ScoreKeys # Keys
  BY IdsTyped
<1> QED
  BY <1>1 DEF Keyed, EventKeys

LEMMA CrossKey ==
    ASSUME NEW id \in Ids, id[1] \in ScoreKeys, NEW h \in 0 .. MaxHead
    PROVE  <<id, <<"cross", h>>>> \in Keyed
<1>1. ScoreKeys # {}
  OBVIOUS
<1> QED
  BY <1>1 DEF Keyed, EventKeys

\* What is queued enters the queue once, as a row that has not been posted.
LEMMA QueuedRow ==
    ASSUME TablesType, NEW d \in Daemons, NEW id, NEW event, <<id, event>> \in Keyed
    PROVE  /\ DOMAIN Queued(d, id, event) = DOMAIN delivery \cup {<<id, event>>}
           /\ IsFiniteSet(DOMAIN Queued(d, id, event))
           /\ \A p \in DOMAIN delivery : Queued(d, id, event)[p] = delivery[p]
           /\ \A p \in DOMAIN Queued(d, id, event) : Queued(d, id, event)[p] \in Row
           /\ <<id, event>> \notin DOMAIN delivery =>
                /\ Queued(d, id, event)[<<id, event>>].by = d
                /\ \A e \in Daemons : Queued(d, id, event)[<<id, event>>].received[e] = 0
<1> DEFINE p == <<id, event>>
           new == [order |-> Cardinality(DOMAIN delivery), by |-> d, delivered |-> FALSE,
                   received |-> [e \in Daemons |-> 0], lost |-> {}]
<1>1. IsFiniteSet(DOMAIN delivery) /\ \A o \in DOMAIN delivery : delivery[o] \in Row
  BY DEF TablesType
<1>2. Cardinality(DOMAIN delivery) \in Nat /\ IsFiniteSet(DOMAIN delivery \cup {p})
  BY <1>1, FS_CardinalityType, FS_AddElement
<1>3. new \in Row /\ new.by = d /\ \A e \in Daemons : new.received[e] = 0
  BY <1>2 DEF Row
<1>4. CASE p \in DOMAIN delivery
  <2>1. Queued(d, id, event) = delivery /\ DOMAIN delivery \cup {p} = DOMAIN delivery
    BY <1>4 DEF Queued
  <2> QED
    BY <1>1, <1>4, <2>1
<1>5. CASE p \notin DOMAIN delivery
  <2>1. Queued(d, id, event) = [o \in DOMAIN delivery \cup {p} |->
                               IF o \in DOMAIN delivery THEN delivery[o] ELSE new]
    BY <1>5 DEF Queued
  <2> HIDE DEF new
  <2> QED
    BY <1>1, <1>2, <1>3, <1>5, <2>1
<1> QED
  BY <1>4, <1>5

-----------------------------------------------------------------------------
(* What a step does to the subscriptions and to the queue *)

Sub == [serial : Nat, made : BOOLEAN, disabled : BOOLEAN, failures : 0 .. MaxFailures]

\* What a write makes of a subscription: it keeps its serial, or is a new one.
LEMMA SubWrites ==
    ASSUME NEW s \in Sub
    PROVE  /\ Subscribed(s) \in Sub /\ Failed(s) \in Sub /\ [s EXCEPT !.failures = 0] \in Sub
           /\ [s EXCEPT !.made = FALSE] \in Sub
           /\ s.made => Subscribed(s).made /\ Subscribed(s).serial = s.serial
           /\ ~s.made => Subscribed(s).serial = s.serial + 1
           /\ Failed(s).made = s.made /\ Failed(s).serial = s.serial
           /\ [s EXCEPT !.failures = 0].made = s.made /\ [s EXCEPT !.failures = 0].serial = s.serial
           /\ ~[s EXCEPT !.made = FALSE].made /\ [s EXCEPT !.made = FALSE].serial = s.serial
<1>1. MaxFailures \in Nat \ {0}
  BY AlertsAssumption
<1>2. s.failures \in 0 .. MaxFailures /\ s.serial \in Nat
  BY DEF Sub
<1>3. (IF s.failures < MaxFailures THEN s.failures + 1 ELSE s.failures) \in 0 .. MaxFailures
  BY <1>1, <1>2
<1>4. Failed(s) \in Sub /\ Failed(s).made = s.made /\ Failed(s).serial = s.serial
  <2>1. (s.disabled \/ s.failures + 1 >= MaxFailures) \in BOOLEAN
    BY DEF Sub
  <2> DEFINE n == IF s.failures < MaxFailures THEN s.failures + 1 ELSE s.failures
             off == s.disabled \/ s.failures + 1 >= MaxFailures
  <2>2. n \in 0 .. MaxFailures /\ off \in BOOLEAN
    BY <1>3, <2>1
  <2>3. Failed(s) = [s EXCEPT !.failures = n, !.disabled = off]
    BY DEF Failed, Sub
  <2> HIDE DEF n, off
  <2> QED
    BY <2>2, <2>3 DEF Sub
<1>5. 0 \in 0 .. MaxFailures
  BY <1>1
<1>6. /\ Subscribed(s) \in Sub
      /\ s.made => Subscribed(s).made /\ Subscribed(s).serial = s.serial
      /\ ~s.made => Subscribed(s).serial = s.serial + 1
  <2>1. CASE s.made
    <3>1. Subscribed(s) = [s EXCEPT !.disabled = FALSE, !.failures = 0]
      BY <2>1 DEF Subscribed
    <3> QED
      BY <1>5, <2>1, <3>1 DEF Sub
  <2>2. CASE ~s.made
    <3>1. Subscribed(s) = [serial |-> s.serial + 1, made |-> TRUE, disabled |-> FALSE, failures |-> 0]
      BY <2>2 DEF Subscribed, NoSub
    <3> QED
      BY <1>2, <1>5, <2>2, <3>1 DEF Sub
  <2> QED
    BY <2>1, <2>2
<1> QED
  BY <1>4, <1>5, <1>6 DEF Sub

\* A key whose subscription is written: by a request or by a daemon.
Rewrites(k, s) == k \in Keys /\ s \in Sub /\ subscription' = [subscription EXCEPT ![k] = s]

LEMMA SubscriptionStep ==
    ASSUME ServiceInv, [Next]_vars
    PROVE  \/ UNCHANGED subscription
           \/ \E k \in Keys, s \in Sub :
                /\ Rewrites(k, s) /\ UNCHANGED delivery
                /\ \/ s.made = subscription[k].made /\ s.serial = subscription[k].serial
                   \/ ~subscription[k].made /\ s.serial = subscription[k].serial + 1
           \/ \E k \in Keys, s \in Sub :
                /\ Rewrites(k, s) /\ delivery' = Restrict(delivery, Cascade(k))
                /\ ~s.made /\ s.serial = subscription[k].serial
<1>1. subscription \in [Keys -> Sub]
  BY DEF ServiceInv, TablesType, Sub
<1>2. ASSUME NEW q \in Requests, Apply(q)
      PROVE  \E k \in Keys, s \in Sub : Rewrites(k, s)
             /\ \/ /\ UNCHANGED delivery
                   /\ \/ s.made = subscription[k].made /\ s.serial = subscription[k].serial
                      \/ ~subscription[k].made /\ s.serial = subscription[k].serial + 1
                \/ /\ delivery' = Restrict(delivery, Cascade(k))
                   /\ ~s.made /\ s.serial = subscription[k].serial
  <2> DEFINE k == SignedOf(q).key
  <2>1. \E s \in Signatures : s.nonce = q[1]
    BY DEF Requests
  <2>2. k \in Keys /\ subscription[k] \in Sub
    BY <1>1, <2>1, AlertsAssumption DEF SignedOf
  <2> HIDE DEF k
  <2>3. \/ subscription' = [subscription EXCEPT ![k] = Subscribed(subscription[k])] /\ UNCHANGED delivery
        \/ /\ subscription' = [subscription EXCEPT ![k] = [subscription[k] EXCEPT !.made = FALSE]]
           /\ delivery' = Restrict(delivery, Cascade(k))
    BY <1>1, <1>2, <2>2 DEF Apply, k
  <2>4. CASE subscription' = [subscription EXCEPT ![k] = Subscribed(subscription[k])]
             /\ UNCHANGED delivery
    <3> DEFINE t == Subscribed(subscription[k])
    <3>1. t \in Sub /\ Rewrites(k, t)
      BY <2>2, <2>4, SubWrites DEF Rewrites
    <3>2. \/ t.made = subscription[k].made /\ t.serial = subscription[k].serial
          \/ ~subscription[k].made /\ t.serial = subscription[k].serial + 1
      <4>1. subscription[k].made \in BOOLEAN /\ t.made \in BOOLEAN
        BY <2>2, <3>1 DEF Sub
      <4> QED
        BY <2>2, <4>1, SubWrites
    <3> HIDE DEF t
    <3> QED
      BY <2>2, <2>4, <3>1, <3>2
  <2>5. CASE /\ subscription' = [subscription EXCEPT ![k] = [subscription[k] EXCEPT !.made = FALSE]]
             /\ delivery' = Restrict(delivery, Cascade(k))
    <3> DEFINE t == [subscription[k] EXCEPT !.made = FALSE]
    <3>1. t \in Sub /\ Rewrites(k, t) /\ ~t.made /\ t.serial = subscription[k].serial
      BY <2>2, <2>5, SubWrites DEF Rewrites
    <3> HIDE DEF t
    <3> QED
      BY <2>2, <2>5, <3>1
  <2> QED
    BY <2>3, <2>4, <2>5
<1>3. ASSUME NEW d \in Daemons, ResetFailures(d)
      PROVE  \/ UNCHANGED subscription
             \/ \E k \in Keys, s \in Sub : Rewrites(k, s) /\ UNCHANGED delivery
                  /\ s.made = subscription[k].made /\ s.serial = subscription[k].serial
  <2> DEFINE k == mem[d].row[1][1]
  <2>1. mem[d].row \in Keyed
    BY <1>3 DEF ServiceInv, MemoryType, ResetFailures
  <2>2. k \in Keys /\ subscription[k] \in Sub
    BY <1>1, <2>1, IdsTyped DEF Keyed
  <2>3. \/ UNCHANGED subscription
        \/ subscription' = [subscription EXCEPT ![k] = [subscription[k] EXCEPT !.failures = 0]]
    BY <1>1, <1>3, <2>2 DEF ResetFailures
  <2> HIDE DEF k
  <2>4. UNCHANGED delivery
    BY <1>3 DEF ResetFailures
  <2>5. CASE subscription' = [subscription EXCEPT ![k] = [subscription[k] EXCEPT !.failures = 0]]
    <3> DEFINE t == [subscription[k] EXCEPT !.failures = 0]
    <3>1. /\ t \in Sub /\ Rewrites(k, t)
          /\ t.made = subscription[k].made /\ t.serial = subscription[k].serial
      BY <2>2, <2>5, SubWrites DEF Rewrites
    <3> HIDE DEF t
    <3> QED
      BY <2>2, <2>4, <3>1
  <2> QED
    BY <2>3, <2>5
<1>4. ASSUME NEW d \in Daemons, RecordFailure(d)
      PROVE  \/ UNCHANGED subscription
             \/ \E k \in Keys, s \in Sub : Rewrites(k, s) /\ UNCHANGED delivery
                  /\ s.made = subscription[k].made /\ s.serial = subscription[k].serial
  <2> DEFINE k == mem[d].row[1][1]
  <2>1. mem[d].row \in Keyed
    BY <1>4 DEF ServiceInv, MemoryType, RecordFailure
  <2>2. k \in Keys /\ subscription[k] \in Sub
    BY <1>1, <2>1, IdsTyped DEF Keyed
  <2>3. \/ UNCHANGED subscription
        \/ subscription' = [subscription EXCEPT ![k] = Failed(subscription[k])]
    BY <1>1, <1>4, <2>2 DEF RecordFailure
  <2> HIDE DEF k
  <2>4. UNCHANGED delivery
    BY <1>4 DEF RecordFailure
  <2>5. CASE subscription' = [subscription EXCEPT ![k] = Failed(subscription[k])]
    <3> DEFINE t == Failed(subscription[k])
    <3>1. /\ t \in Sub /\ Rewrites(k, t)
          /\ t.made = subscription[k].made /\ t.serial = subscription[k].serial
      BY <2>2, <2>5, SubWrites DEF Rewrites
    <3> HIDE DEF t
    <3> QED
      BY <2>2, <2>4, <3>1
  <2> QED
    BY <2>3, <2>5
<1>5. CASE UNCHANGED subscription
  BY <1>5
<1>6. CASE \E q \in Requests : Apply(q)
  <2>1. PICK q \in Requests : Apply(q)
    BY <1>6
  <2> QED
    BY <1>2, <2>1
<1>7. CASE \E d \in Daemons : ResetFailures(d) \/ RecordFailure(d)
  <2>1. PICK d \in Daemons : ResetFailures(d) \/ RecordFailure(d)
    BY <1>7
  <2> QED
    BY <1>3, <1>4, <2>1
<1> QED
  BY <1>5, <1>6, <1>7
     DEF Next, Block, Burn, ApplyFails, Pass, Boot, SelectLive, SkipToHead, ReadHead, ReadLogs, QueueEvent,
         Followed, FollowedTo, SaveCursor, SweepBlock, SweepScore, SweepPrevious, SweepStore, SweepCross,
         Pick, Claim, Post, RecordOk, Throws, Crash, Forgets, vars, tables, history

\* Serials grow, and a subscription that is gone does not come back: made again, it
\* is another one.
LEMMA SubscriptionsAge ==
    ASSUME ServiceInv, [Next]_vars
    PROVE  /\ subscription' \in [Keys -> Sub]
           /\ \A k \in Keys : subscription[k].serial <= subscription'[k].serial
           /\ \A id \in Ids : id[2] <= subscription[id[1]].serial /\ Exists(id)' => Exists(id)
<1>1. subscription \in [Keys -> Sub] /\ \A k \in Keys : subscription[k].serial \in Nat
  BY DEF ServiceInv, TablesType, Sub
<1>2. CASE UNCHANGED subscription
  BY <1>1, <1>2 DEF Exists
<1>3. ASSUME NEW k \in Keys, NEW s \in Sub, Rewrites(k, s),
             \/ s.made = subscription[k].made /\ s.serial = subscription[k].serial
             \/ ~subscription[k].made /\ s.serial = subscription[k].serial + 1
             \/ ~s.made /\ s.serial = subscription[k].serial
      PROVE  /\ subscription' \in [Keys -> Sub]
             /\ \A l \in Keys : subscription[l].serial <= subscription'[l].serial
             /\ \A id \in Ids : id[2] <= subscription[id[1]].serial /\ Exists(id)' => Exists(id)
  <2>1. /\ subscription' \in [Keys -> Sub] /\ subscription'[k] = s
        /\ \A l \in Keys : l # k => subscription'[l] = subscription[l]
    BY <1>1, <1>3 DEF Rewrites
  <2>2. subscription[k].serial <= s.serial
    BY <1>1, <1>3
  <2>3. ASSUME NEW id \in Ids, id[2] <= subscription[id[1]].serial, Exists(id)' PROVE Exists(id)
    <3>1. id[1] \in Keys /\ id[2] \in Nat
      BY IdsTyped
    <3>2. CASE id[1] # k
      BY <2>1, <2>3, <3>1, <3>2 DEF Exists
    <3>3. CASE id[1] = k
      <4>1. s.made /\ s.serial = id[2]
        BY <2>1, <2>3, <3>3 DEF Exists
      <4>2. s.serial # subscription[k].serial + 1
        BY <1>1, <2>3, <3>1, <3>3, <4>1
      <4> QED
        BY <1>3, <3>3, <4>1, <4>2 DEF Exists
    <3> QED
      BY <3>2, <3>3
  <2> QED
    BY <1>1, <2>1, <2>2, <2>3
<1> QED
  BY <1>2, <1>3, SubscriptionStep

\* A delivery table with the rows it had, some of them written.
SameRows ==
    /\ DOMAIN delivery' = DOMAIN delivery
    /\ \A p \in DOMAIN delivery : delivery'[p] \in Row

LEMMA RowsReceived ==
    ASSUME TablesType, NEW d \in Daemons, NEW p, NEW lost \in BOOLEAN, Receive(d, p, lost)
    PROVE  /\ SameRows
           /\ \A o \in DOMAIN delivery : o # p => delivery'[o] = delivery[o]
           /\ p \in DOMAIN delivery =>
                /\ \A e \in Daemons : e # d => delivery'[p].received[e] = delivery[p].received[e]
                /\ delivery[p].received[d] = 0 => delivery'[p].received[d] = 1
                /\ delivery[p].lost \subseteq delivery'[p].lost /\ (lost => d \in delivery'[p].lost)
                /\ delivery'[p].delivered = delivery[p].delivered /\ delivery'[p].by = delivery[p].by
<1>1. \A o \in DOMAIN delivery : delivery[o] \in Row
  BY DEF TablesType
<1>2. CASE p \notin DOMAIN delivery
  BY <1>1, <1>2 DEF Receive, SameRows
<1>3. CASE p \in DOMAIN delivery
  <2> DEFINE was == delivery[p].received
             n == IF was[d] < 2 THEN was[d] + 1 ELSE was[d]
             now == [was EXCEPT ![d] = n]
             l == IF lost THEN delivery[p].lost \cup {d} ELSE delivery[p].lost
  <2>1. delivery' = [delivery EXCEPT ![p] = [delivery[p] EXCEPT !.received = now, !.lost = l]]
    BY <1>1, <1>3 DEF Receive, Row
  <2>2. was \in [Daemons -> 0 .. 2] /\ delivery[p].lost \subseteq Daemons
    BY <1>1, <1>3 DEF Row
  <2>3. n \in 0 .. 2 /\ (was[d] = 0 => n = 1)
    BY <2>2
  <2>4. /\ l \in SUBSET Daemons /\ delivery[p].lost \subseteq l /\ (lost => d \in l)
    BY <2>2
  <2> HIDE DEF n, l
  <2>5. /\ now \in [Daemons -> 0 .. 2] /\ now[d] = n
        /\ \A e \in Daemons : e # d => now[e] = was[e]
    BY <2>2, <2>3
  <2> HIDE DEF now
  <2> DEFINE row == [delivery[p] EXCEPT !.received = now, !.lost = l]
  <2>6. /\ row \in Row /\ row.received = now /\ row.lost = l
        /\ row.delivered = delivery[p].delivered /\ row.by = delivery[p].by
    BY <1>1, <1>3, <2>4, <2>5 DEF Row
  <2> HIDE DEF row
  <2>7. /\ DOMAIN delivery' = DOMAIN delivery /\ delivery'[p] = row
        /\ \A o \in DOMAIN delivery : o # p => delivery'[o] = delivery[o]
    BY <1>3, <2>1 DEF row
  <2>8. SameRows
    BY <1>1, <2>6, <2>7 DEF SameRows
  <2> QED
    BY <2>3, <2>4, <2>5, <2>6, <2>7, <2>8
<1> QED
  BY <1>2, <1>3

LEMMA RowsMarked ==
    ASSUME TablesType, NEW p, delivery' = MarkDelivered(p)
    PROVE  /\ SameRows
           /\ \A o \in DOMAIN delivery : o # p => delivery'[o] = delivery[o]
           /\ p \in DOMAIN delivery =>
                /\ delivery'[p].delivered /\ delivery'[p].received = delivery[p].received
                /\ delivery'[p].lost = delivery[p].lost /\ delivery'[p].by = delivery[p].by
<1>1. \A o \in DOMAIN delivery : delivery[o] \in Row
  BY DEF TablesType
<1>2. CASE p \notin DOMAIN delivery
  BY <1>1, <1>2 DEF MarkDelivered, SameRows
<1>3. CASE p \in DOMAIN delivery
  <2>1. delivery' = [delivery EXCEPT ![p] = [delivery[p] EXCEPT !.delivered = TRUE]]
    BY <1>1, <1>3 DEF MarkDelivered, Row
  <2> DEFINE row == [delivery[p] EXCEPT !.delivered = TRUE]
  <2>2. /\ row \in Row /\ row.delivered /\ row.received = delivery[p].received
        /\ row.lost = delivery[p].lost /\ row.by = delivery[p].by
    BY <1>1, <1>3 DEF Row
  <2> HIDE DEF row
  <2> QED
    BY <1>1, <1>3, <2>1, <2>2 DEF SameRows, row
<1> QED
  BY <1>2, <1>3

LEMMA RowsForgotten ==
    ASSUME TablesType, NEW d \in Daemons, Forgets(d)
    PROVE  /\ SameRows
           /\ \A o \in DOMAIN delivery :
                /\ delivery'[o].delivered = delivery[o].delivered /\ delivery'[o].by = delivery[o].by
                /\ delivery'[o].received = delivery[o].received
                /\ delivery[o].lost \subseteq delivery'[o].lost
           /\ mem[d].at = "ok" /\ mem[d].row \in DOMAIN delivery => d \in delivery'[mem[d].row].lost
<1> DEFINE p == mem[d].row
<1>1. \A o \in DOMAIN delivery : delivery[o] \in Row
  BY DEF TablesType
<1>2. CASE ~(mem[d].at = "ok" /\ p \in DOMAIN delivery)
  BY <1>1, <1>2 DEF Forgets, SameRows
<1>3. CASE mem[d].at = "ok" /\ p \in DOMAIN delivery
  <2> DEFINE l == delivery[p].lost \cup {d}
  <2>1. delivery' = [delivery EXCEPT ![p] = [delivery[p] EXCEPT !.lost = l]]
    BY <1>1, <1>3 DEF Forgets, Row
  <2>2. l \in SUBSET Daemons /\ delivery[p].lost \subseteq l /\ d \in l
    BY <1>1, <1>3 DEF Row
  <2> HIDE DEF l
  <2> DEFINE row == [delivery[p] EXCEPT !.lost = l]
  <2>3. /\ row \in Row /\ row.lost = l /\ row.delivered = delivery[p].delivered
        /\ row.by = delivery[p].by /\ row.received = delivery[p].received
    BY <1>1, <1>3, <2>2 DEF Row
  <2> HIDE DEF row
  <2>4. /\ DOMAIN delivery' = DOMAIN delivery /\ delivery'[p] = row
        /\ \A o \in DOMAIN delivery : o # p => delivery'[o] = delivery[o]
    BY <1>3, <2>1 DEF row
  <2> QED
    BY <1>1, <1>3, <2>2, <2>3, <2>4 DEF SameRows
<1> QED
  BY <1>2, <1>3

\* An event is queued for a subscription that exists: a fault to one of that kind, or
\* the fall of a sweep.
LEMMA QueuedKeys ==
    ASSUME ServiceInv, NEW d \in Daemons, QueueEvent(d) \/ SweepCross(d), delivery' # delivery
    PROVE  \E id \in Ids, event \in EventKeys :
             /\ delivery' = Queued(d, id, event) /\ Exists(id) /\ UNCHANGED subscription
             /\ <<id, event>> \in Keyed
             /\ \/ \E b : event = <<"fault", b>>
                \/ SweepCross(d) /\ mem[d].at = "cross" /\ event = <<"cross", mem[d].head>>
<1>1. TablesType /\ faults \subseteq 1 .. MaxHead /\ MaxHead \in Nat
  BY AlertsAssumption DEF ServiceInv, TablesType
<1>2. CASE QueueEvent(d)
  <2>1. PICK p \in Unqueued(d) : Exists(p[1]) /\ delivery' = Queued(d, p[1], p[2])
    BY <1>2 DEF QueueEvent
  <2>2. p \in FaultSubs(d) \X {<<"fault", b>> : b \in (faults \cap mem[d].cursor .. mem[d].head) \ mem[d].short}
    BY DEF Unqueued
  <2>3. PICK b \in faults : p[2] = <<"fault", b>>
    BY <2>2
  <2>4. mem[d] \in Memory
    BY DEF ServiceInv, MemoryType
  <2>5. p[1] \in Ids /\ p[1][1] \notin ScoreKeys
    BY <2>2, <2>4 DEF FaultSubs, Memory
  <2>6. <<p[1], p[2]>> \in Keyed
    BY <1>1, <2>3, <2>5, FaultKey
  <2>7. p[2] \in EventKeys
    BY <2>6 DEF Keyed
  <2>8. UNCHANGED subscription
    BY <1>2 DEF QueueEvent
  <2> QED
    BY <2>1, <2>3, <2>5, <2>6, <2>7, <2>8
<1>3. CASE SweepCross(d)
  <2>1. PICK id \in ScoreSubs(d) : Exists(id) /\ delivery' = Queued(d, id, <<"cross", mem[d].head>>)
    BY <1>3 DEF SweepCross
  <2>2. mem[d] \in Memory
    BY DEF ServiceInv, MemoryType
  <2>3. id \in Ids /\ id[1] \in ScoreKeys /\ mem[d].head \in 0 .. MaxHead
    BY <2>2 DEF ScoreSubs, Memory
  <2>4. <<id, <<"cross", mem[d].head>>>> \in Keyed
    BY <2>3, CrossKey
  <2>5. <<"cross", mem[d].head>> \in EventKeys
    BY <2>4 DEF Keyed
  <2>6. UNCHANGED subscription /\ mem[d].at = "cross"
    BY <1>3 DEF SweepCross
  <2> QED
    BY <1>3, <2>1, <2>3, <2>4, <2>5, <2>6
<1> QED
  BY <1>2, <1>3

\* What happens to the queue: an event is queued for a subscription that exists,
\* rows are written, or a subscription is dropped and takes its rows along.
LEMMA QueueStep ==
    ASSUME ServiceInv, [Next]_vars
    PROVE  \/ UNCHANGED delivery
           \/ \E d \in Daemons, id \in Ids, event \in EventKeys :
                delivery' = Queued(d, id, event) /\ Exists(id) /\ UNCHANGED subscription
           \/ SameRows /\ UNCHANGED subscription
           \/ \E k \in Keys : delivery' = Restrict(delivery, Cascade(k)) /\ ~subscription'[k].made
<1>1. TablesType
  BY DEF ServiceInv
<1>2. ASSUME NEW d \in Daemons, QueueEvent(d) \/ SweepCross(d), delivery' # delivery
      PROVE  \E id \in Ids, event \in EventKeys :
               delivery' = Queued(d, id, event) /\ Exists(id) /\ UNCHANGED subscription
  BY <1>2, QueuedKeys
<1>3. ASSUME NEW d \in Daemons, Post(d) PROVE UNCHANGED delivery \/ (SameRows /\ UNCHANGED subscription)
  BY <1>1, <1>3, RowsReceived DEF Post
<1>4. ASSUME NEW d \in Daemons, RecordOk(d) PROVE SameRows /\ UNCHANGED subscription
  BY <1>1, <1>4, RowsMarked DEF RecordOk
<1>5. ASSUME NEW d \in Daemons, Throws(d) \/ Crash(d) PROVE SameRows /\ UNCHANGED subscription
  BY <1>1, <1>5, RowsForgotten DEF Throws, Crash, Forgets
<1>6. ASSUME NEW q \in Requests, Apply(q)
      PROVE  \/ UNCHANGED delivery
             \/ \E k \in Keys : delivery' = Restrict(delivery, Cascade(k)) /\ ~subscription'[k].made
  <2>1. subscription \in [Keys -> Sub]
    BY DEF ServiceInv, TablesType, Sub
  <2>2. UNCHANGED delivery \/
        \E k \in Keys : /\ delivery' = Restrict(delivery, Cascade(k))
                        /\ subscription' = [subscription EXCEPT ![k].made = FALSE]
    <3>1. \E s \in Signatures : s.nonce = q[1]
      BY DEF Requests
    <3>2. SignedOf(q).key \in Keys
      BY <3>1, AlertsAssumption DEF SignedOf
    <3> QED
      BY <1>6, <3>2 DEF Apply
  <2>3. ASSUME NEW k \in Keys, subscription' = [subscription EXCEPT ![k].made = FALSE]
        PROVE  ~subscription'[k].made
    BY <2>1, <2>3 DEF Sub
  <2> QED
    BY <2>2, <2>3
<1>7. CASE UNCHANGED delivery
  BY <1>7
<1>8. CASE \E d \in Daemons : QueueEvent(d) \/ SweepCross(d)
  BY <1>2, <1>7, <1>8
<1>9. CASE \E d \in Daemons : Post(d) \/ RecordOk(d) \/ Throws(d) \/ Crash(d)
  BY <1>3, <1>4, <1>5, <1>9
<1>10. CASE \E q \in Requests : Apply(q)
  BY <1>6, <1>10
<1> QED
  BY <1>7, <1>8, <1>9, <1>10
     DEF Next, Block, Burn, ApplyFails, Pass, Boot, SelectLive, SkipToHead, ReadHead, ReadLogs,
         Followed, FollowedTo, SaveCursor, SweepBlock, SweepScore, SweepPrevious, SweepStore, Pick, Claim,
         ResetFailures, RecordFailure, vars, tables, history

\* The queue follows the subscriptions: what is in it is of one that exists, and what
\* leaves it is of one that is gone.
LEMMA QueueFollows ==
    ASSUME ServiceInv, [Next]_vars
    PROVE  /\ IsFiniteSet(DOMAIN delivery') /\ DOMAIN delivery' \subseteq Keyed
           /\ \A p \in DOMAIN delivery' : delivery'[p] \in Row
           /\ RowsExist'
           /\ \A p \in DOMAIN delivery : p \in DOMAIN delivery' \/ ~Exists(p[1])'
<1>1. /\ TablesType /\ IsFiniteSet(DOMAIN delivery) /\ DOMAIN delivery \subseteq Keyed
      /\ \A p \in DOMAIN delivery : delivery[p] \in Row
      /\ \A p \in DOMAIN delivery : Exists(p[1])
      /\ subscription \in [Keys -> Sub]
  BY DEF ServiceInv, TablesType, RowsExist, Sub
<1>2. ASSUME UNCHANGED subscription, SameRows \/ UNCHANGED delivery
      PROVE  /\ IsFiniteSet(DOMAIN delivery') /\ DOMAIN delivery' \subseteq Keyed
             /\ \A p \in DOMAIN delivery' : delivery'[p] \in Row
             /\ RowsExist'
             /\ \A p \in DOMAIN delivery : p \in DOMAIN delivery' \/ ~Exists(p[1])'
  BY <1>1, <1>2 DEF SameRows, RowsExist, Exists
<1>3. ASSUME NEW d \in Daemons, NEW id \in Ids, NEW event \in EventKeys,
             delivery' = Queued(d, id, event), Exists(id), UNCHANGED subscription
      PROVE  /\ IsFiniteSet(DOMAIN delivery') /\ DOMAIN delivery' \subseteq Keyed
             /\ \A p \in DOMAIN delivery' : delivery'[p] \in Row
             /\ RowsExist'
             /\ \A p \in DOMAIN delivery : p \in DOMAIN delivery' \/ ~Exists(p[1])'
  <2>1. <<id, event>> \in Keyed
    BY DEF Keyed
  <2>2. /\ DOMAIN delivery' = DOMAIN delivery \cup {<<id, event>>} /\ IsFiniteSet(DOMAIN delivery')
        /\ \A p \in DOMAIN delivery' : delivery'[p] \in Row
    BY <1>1, <1>3, <2>1, QueuedRow
  <2>3. \A p \in DOMAIN delivery' : Exists(p[1])
    BY <1>1, <1>3, <2>2
  <2> QED
    BY <1>1, <1>3, <2>1, <2>2, <2>3 DEF RowsExist, Exists
<1>4. ASSUME NEW k \in Keys, delivery' = Restrict(delivery, Cascade(k)), ~subscription'[k].made,
             \A l \in Keys : l # k => subscription'[l] = subscription[l]
      PROVE  /\ IsFiniteSet(DOMAIN delivery') /\ DOMAIN delivery' \subseteq Keyed
             /\ \A p \in DOMAIN delivery' : delivery'[p] \in Row
             /\ RowsExist'
             /\ \A p \in DOMAIN delivery : p \in DOMAIN delivery' \/ ~Exists(p[1])'
  <2>1. /\ DOMAIN delivery' = Cascade(k) /\ Cascade(k) \subseteq DOMAIN delivery
        /\ \A p \in Cascade(k) : delivery'[p] = delivery[p]
    BY <1>4 DEF Restrict, Cascade
  <2>2. \A p \in Cascade(k) : p[1][1] # k /\ p[1] \in Ids /\ p[1][1] \in Keys
    BY <1>1, IdsTyped DEF Cascade, Keyed
  <2>3. RowsExist'
    BY <1>1, <1>4, <2>1, <2>2 DEF RowsExist, Exists
  <2>4. \A p \in DOMAIN delivery : p \in DOMAIN delivery' \/ ~Exists(p[1])'
    BY <1>4, <2>1 DEF Cascade, Exists
  <2> QED
    BY <1>1, <2>1, <2>3, <2>4, FS_Subset
<1>5. ASSUME NEW k \in Keys, NEW s \in Sub, Rewrites(k, s), UNCHANGED delivery,
             \/ s.made = subscription[k].made /\ s.serial = subscription[k].serial
             \/ ~subscription[k].made /\ s.serial = subscription[k].serial + 1
      PROVE  /\ IsFiniteSet(DOMAIN delivery') /\ DOMAIN delivery' \subseteq Keyed
             /\ \A p \in DOMAIN delivery' : delivery'[p] \in Row
             /\ RowsExist'
             /\ \A p \in DOMAIN delivery : p \in DOMAIN delivery' \/ ~Exists(p[1])'
  <2>1. /\ subscription'[k] = s /\ \A l \in Keys : l # k => subscription'[l] = subscription[l]
    BY <1>1, <1>5 DEF Rewrites
  <2>2. ASSUME NEW p \in DOMAIN delivery PROVE Exists(p[1])'
    <3>1. Exists(p[1]) /\ p[1] \in Ids /\ p[1][1] \in Keys
      BY <1>1, <2>2, IdsTyped DEF Keyed
    <3> QED
      BY <1>5, <2>1, <3>1 DEF Exists
  <2> QED
    BY <1>1, <1>5, <2>2 DEF RowsExist
<1>6. CASE UNCHANGED subscription
  <2>1. ASSUME NEW k \in Keys, delivery' = Restrict(delivery, Cascade(k)), ~subscription'[k].made
        PROVE  \A l \in Keys : l # k => subscription'[l] = subscription[l]
    BY <1>6
  <2> QED
    BY <1>2, <1>3, <1>4, <1>6, <2>1, QueueStep
<1>7. ASSUME NEW k \in Keys, NEW s \in Sub, Rewrites(k, s), delivery' = Restrict(delivery, Cascade(k)),
             ~s.made
      PROVE  ~subscription'[k].made /\ \A l \in Keys : l # k => subscription'[l] = subscription[l]
  BY <1>1, <1>7 DEF Rewrites
<1> QED
  BY <1>4, <1>5, <1>6, <1>7, SubscriptionStep

-----------------------------------------------------------------------------
(* What a step does to a daemon's memory *)

Fits(m) ==
    /\ m \in Memory /\ m.cursor <= head + 1 /\ m.head <= head
    /\ m.at = "skip" => m.subs = {}
    /\ m.at \in {"post", "ok", "bad", "reset"} => m.row \in Keyed

\* Only daemon d moved, to a memory that fits the chain, and with the cursor it had.
Moved(d) == mem' = [mem EXCEPT ![d] = mem'[d]] /\ Fits(mem'[d])
KeptCursor(d) == mem'[d].cursor = mem[d].cursor

LEMMA MemoryFits ==
    ASSUME ServiceInv, NEW d \in Daemons
    PROVE  /\ Fits(mem[d]) /\ head \in 0 .. MaxHead /\ MaxHead \in Nat
           /\ \A m : mem' = [mem EXCEPT ![d] = m] /\ Fits(m) => Moved(d) /\ mem'[d] = m
           /\ mem' = mem => Moved(d) /\ KeptCursor(d)
<1>1. mem \in [Daemons -> Memory] /\ head \in 0 .. MaxHead /\ MaxHead \in Nat
  BY AlertsAssumption DEF ServiceInv, MemoryType, TablesType
<1>2. Fits(mem[d])
  BY <1>1 DEF ServiceInv, MemoryType, Fits
<1>3. ASSUME NEW m, mem' = [mem EXCEPT ![d] = m], Fits(m) PROVE Moved(d) /\ mem'[d] = m
  BY <1>1, <1>3 DEF Moved
<1>4. ASSUME mem' = mem PROVE Moved(d) /\ KeptCursor(d)
  <2>1. mem = [mem EXCEPT ![d] = mem[d]]
    BY <1>1
  <2> QED
    BY <1>2, <1>4, <2>1 DEF Moved, KeptCursor
<1> QED
  BY <1>1, <1>2, <1>3, <1>4

\* What a node answers is a block of the chain, and its score is one.
LEMMA AnswersFit ==
    ASSUME ServiceInv, NEW h \in Answers
    PROVE  h \in 0 .. MaxHead /\ h \in Nat /\ h <= head /\ score[h] \in {"high", "low"}
<1>1. head \in 0 .. MaxHead /\ MaxHead \in Nat /\ score \in [0 .. head -> {"high", "low"}]
  BY AlertsAssumption DEF ServiceInv, TablesType
<1>2. h \in 0 .. head
  BY DEF Answers
<1> QED
  BY <1>1, <1>2

\* A daemon's memory with nothing in it but the cursor.
AtRest(at, c, w) == [Asleep EXCEPT !.at = at, !.cursor = c, !.written = w]

LEMMA AsleepFits ==
    ASSUME ServiceInv, NEW at \in {"down", "select", "pick"}, NEW c \in Nat, c <= head + 1,
           NEW w \in SUBSET Nat
    PROVE  Fits(AtRest(at, c, w)) /\ AtRest(at, c, w).at = at /\ AtRest(at, c, w).cursor = c
<1>1. 0 \in 0 .. MaxHead /\ 0 <= head
  BY AlertsAssumption DEF ServiceInv, TablesType
<1> DEFINE z == 0
<1>2. Asleep = [at |-> "down", subs |-> {}, cursor |-> z, written |-> {}, head |-> z,
                short |-> {}, prev |-> NoRow, score |-> "high", batch |-> {}, row |-> <<>>]
  BY DEF Asleep
<1> HIDE DEF z
<1>3. z \in 0 .. MaxHead /\ z <= head
  BY <1>1 DEF z
<1> QED
  BY <1>2, <1>3 DEF AtRest, Fits, Memory, Phases

LEMMA BootFits ==
    ASSUME ServiceInv, NEW c \in Nat, c <= head + 1
    PROVE  Fits([Asleep EXCEPT !.at = "select", !.cursor = c])
<1>1. 0 \in 0 .. MaxHead /\ 0 <= head
  BY AlertsAssumption DEF ServiceInv, TablesType
<1> DEFINE z == 0
<1>2. Asleep = [at |-> "down", subs |-> {}, cursor |-> z, written |-> {}, head |-> z,
                short |-> {}, prev |-> NoRow, score |-> "high", batch |-> {}, row |-> <<>>]
  BY DEF Asleep
<1> HIDE DEF z
<1>3. z \in 0 .. MaxHead /\ z <= head
  BY <1>1 DEF z
<1> QED
  BY <1>2, <1>3 DEF Fits, Memory, Phases

LEMMA TurnMoves ==
    ASSUME ServiceInv, NEW d \in Daemons, NEW at \in {"select", "pick"}, Turn(d, at)
    PROVE  Moved(d) /\ KeptCursor(d) /\ mem'[d].at = at
<1> DEFINE c == mem[d].cursor
           w == mem[d].written
           m == AtRest(at, c, w)
<1>1. c \in Nat /\ c <= head + 1 /\ w \in SUBSET Nat
  BY MemoryFits DEF Fits, Memory
<1>2. Fits(m) /\ m.cursor = c /\ m.at = at
  <2>1. at \in {"down", "select", "pick"}
    OBVIOUS
  <2> HIDE DEF c, w
  <2> QED
    BY <1>1, <2>1, AsleepFits
<1>3. mem' = [mem EXCEPT ![d] = m]
  BY DEF Turn, Enter, AtRest
<1> HIDE DEF m
<1> QED
  BY <1>2, <1>3, MemoryFits DEF KeptCursor

LEMMA GotoMoves ==
    ASSUME ServiceInv, NEW d \in Daemons, NEW at \in Phases \ {"skip"}, Goto(d, at),
           at \in {"post", "ok", "bad", "reset"} => mem[d].row \in Keyed
    PROVE  Moved(d) /\ KeptCursor(d) /\ mem'[d] = [mem[d] EXCEPT !.at = at]
<1> DEFINE m == [mem[d] EXCEPT !.at = at]
<1>1. Fits(m) /\ m.cursor = mem[d].cursor
  BY MemoryFits DEF Fits, Memory, Phases
<1>2. mem' = [mem EXCEPT ![d] = m]
  BY DEF Goto, Enter
<1> HIDE DEF m
<1>3. Moved(d) /\ KeptCursor(d) /\ mem'[d] = m
  BY <1>1, <1>2, MemoryFits DEF KeptCursor
<1> QED
  BY <1>3 DEF m

LEMMA DaemonMoves ==
    ASSUME ServiceInv, NEW d \in Daemons, Pass(d) \/ Throws(d) \/ Crash(d)
    PROVE  /\ Moved(d) /\ UNCHANGED chain
           /\ \/ Boot(d) \/ SkipToHead(d) \/ Followed(d) \/ mem'[d].at = "down"
              \/ mem[d].at # "down" /\ KeptCursor(d)
<1> DEFINE Done == /\ Moved(d) /\ UNCHANGED chain
                   /\ \/ Boot(d) \/ SkipToHead(d) \/ Followed(d) \/ mem'[d].at = "down"
                      \/ mem[d].at # "down" /\ KeptCursor(d)
<1>1. /\ Fits(mem[d]) /\ head \in 0 .. MaxHead /\ MaxHead \in Nat
      /\ \A m : mem' = [mem EXCEPT ![d] = m] /\ Fits(m) => Moved(d) /\ mem'[d] = m
  BY MemoryFits
<1>2. Ids \in SUBSET Ids /\ LiveIds \subseteq Ids
  BY DEF LiveIds
<1>3. CASE Boot(d)
  <2>1. PICK h \in Answers :
        \E from \in IF cursorRow # {} THEN cursorRow
                    ELSE {IF h > LogWindow THEN h - LogWindow ELSE 0} :
          Enter(d, [Asleep EXCEPT !.at = "select", !.cursor = from])
    BY <1>3 DEF Boot
  <2>2. PICK from \in IF cursorRow # {} THEN cursorRow
                      ELSE {IF h > LogWindow THEN h - LogWindow ELSE 0} :
          Enter(d, [Asleep EXCEPT !.at = "select", !.cursor = from])
    BY <2>1
  <2>3. from \in Nat /\ from <= head + 1
    <3>1. CASE cursorRow # {}
      BY <2>2, <3>1 DEF ServiceInv, TablesType
    <3>2. CASE cursorRow = {}
      <4>1. h \in Nat /\ h <= head
        BY AnswersFit
      <4> QED
        BY <1>1, <2>2, <3>2, <4>1, AlertsAssumption
    <3> QED
      BY <3>1, <3>2
  <2> DEFINE m == [Asleep EXCEPT !.at = "select", !.cursor = from]
  <2>4. mem' = [mem EXCEPT ![d] = m]
    BY <2>2 DEF Enter
  <2>5. Fits(m)
    BY <2>3, BootFits
  <2> HIDE DEF m
  <2> QED
    BY <1>1, <1>3, <2>4, <2>5 DEF Boot
<1>4. CASE SelectLive(d)
  <2> DEFINE m == [mem[d] EXCEPT !.subs = LiveIds, !.at = IF LiveIds = {} THEN "skip" ELSE "head"]
  <2>1. Fits(m) /\ m.cursor = mem[d].cursor
    BY <1>1, <1>2 DEF Fits, Memory, Phases
  <2>2. mem' = [mem EXCEPT ![d] = m] /\ mem[d].at # "down" /\ UNCHANGED chain
    BY <1>4 DEF SelectLive, Enter
  <2> HIDE DEF m
  <2> QED
    BY <1>1, <2>1, <2>2 DEF KeptCursor
<1>5. CASE SkipToHead(d)
  <2>1. PICK h \in Answers : Enter(d, [mem[d] EXCEPT !.cursor = h + 1, !.at = "save"])
    BY <1>5 DEF SkipToHead
  <2> DEFINE c == h + 1
             m == [mem[d] EXCEPT !.cursor = c, !.at = "save"]
  <2>2. c \in Nat /\ c <= head + 1
    <3>1. h \in Nat /\ h <= head
      BY AnswersFit
    <3> QED
      BY <1>1, <3>1
  <2>3. mem' = [mem EXCEPT ![d] = m] /\ UNCHANGED chain
    BY <1>5, <2>1 DEF SkipToHead, Enter
  <2> HIDE DEF c
  <2>4. Fits(m)
    BY <1>1, <2>2 DEF Fits, Memory, Phases
  <2> HIDE DEF m
  <2> QED
    BY <1>1, <1>5, <2>3, <2>4
<1>6. CASE ReadHead(d)
  <2>1. PICK h \in Answers :
          Enter(d, [mem[d] EXCEPT !.head = h, !.at = IF h < mem[d].cursor THEN "save" ELSE "logs"])
    BY <1>6 DEF ReadHead
  <2> DEFINE at == IF h < mem[d].cursor THEN "save" ELSE "logs"
             m == [mem[d] EXCEPT !.head = h, !.at = at]
  <2>2. h \in 0 .. MaxHead /\ h <= head /\ at \in {"save", "logs"}
    BY AnswersFit
  <2>3. mem' = [mem EXCEPT ![d] = m] /\ mem[d].at # "down" /\ UNCHANGED chain
    BY <1>6, <2>1 DEF ReadHead, Enter
  <2> HIDE DEF at
  <2>4. Fits(m) /\ m.cursor = mem[d].cursor
    BY <1>1, <2>2 DEF Fits, Memory, Phases
  <2> HIDE DEF m
  <2> QED
    BY <1>1, <2>3, <2>4 DEF KeptCursor
<1>22. CASE ReadLogs(d)
  <2>1. PICK short \in SUBSET {b \in faults \cap mem[d].cursor .. mem[d].head : \E h \in Answers : h < b} :
          Enter(d, [mem[d] EXCEPT !.short = short, !.at = "queue"])
    BY <1>22 DEF ReadLogs
  <2> DEFINE m == [mem[d] EXCEPT !.short = short, !.at = "queue"]
  <2>2. short \subseteq 1 .. MaxHead
    <3>1. faults \subseteq 1 .. head /\ head \in 0 .. MaxHead /\ MaxHead \in Nat
      BY <1>1 DEF ServiceInv, TablesType
    <3>2. 1 .. head \subseteq 1 .. MaxHead
      BY <3>1
    <3> QED
      BY <3>1, <3>2
  <2>3. mem' = [mem EXCEPT ![d] = m] /\ mem[d].at # "down" /\ UNCHANGED chain
    BY <1>22, <2>1 DEF ReadLogs, Enter
  <2>4. Fits(m) /\ m.cursor = mem[d].cursor
    BY <1>1, <2>2 DEF Fits, Memory, Phases
  <2> HIDE DEF m
  <2> QED
    BY <1>1, <2>3, <2>4 DEF KeptCursor
<1>7. CASE QueueEvent(d)
  <2>1. mem' = mem \/ Turn(d, "select")
    BY <1>7 DEF QueueEvent
  <2> QED
    BY <1>7, <2>1, MemoryFits, TurnMoves DEF QueueEvent
<1>8. CASE Followed(d)
  <2> DEFINE c == mem[d].head + 1
             z == 0
             m == [mem[d] EXCEPT !.cursor = c, !.head = z, !.short = {}, !.at = "save"]
  <2>1. mem[d].head \in 0 .. MaxHead /\ mem[d].head <= head
    BY <1>1 DEF Fits, Memory
  <2>2. c \in Nat /\ c <= head + 1 /\ z \in 0 .. MaxHead /\ z <= head
    BY <1>1, <2>1
  <2>3. mem' = [mem EXCEPT ![d] = m] /\ UNCHANGED chain
    BY <1>8 DEF Followed, FollowedTo, Enter
  <2> HIDE DEF c, z
  <2>4. Fits(m)
    BY <1>1, <2>2 DEF Fits, Memory, Phases
  <2> HIDE DEF m
  <2> QED
    BY <1>1, <1>8, <2>3, <2>4
<1>9. CASE SaveCursor(d)
  <2> DEFINE c == mem[d].cursor
             w == {c}
             slept == AtRest("pick", c, w)
             swept == [mem[d] EXCEPT !.written = w, !.at = "sweep"]
  <2>1. c \in Nat /\ c <= head + 1 /\ w \in SUBSET Nat
    BY <1>1 DEF Fits, Memory
  <2>2. mem' = [mem EXCEPT ![d] = slept] \/ mem' = [mem EXCEPT ![d] = swept]
    BY <1>1, <1>9 DEF SaveCursor, Enter, AtRest, Fits, Memory
  <2>3. mem[d].at # "down" /\ UNCHANGED chain
    BY <1>9 DEF SaveCursor
  <2>4. Fits(slept) /\ slept.cursor = c
    <3> HIDE DEF c, w
    <3> QED
      BY <2>1, AsleepFits
  <2>5. Fits(swept) /\ swept.cursor = mem[d].cursor
    <3> HIDE DEF w
    <3> QED
      BY <1>1, <2>1 DEF Fits, Memory, Phases
  <2> HIDE DEF slept, swept
  <2> QED
    BY <1>1, <2>2, <2>3, <2>4, <2>5 DEF KeptCursor
<1>10. CASE SweepBlock(d)
  <2>1. \/ Turn(d, "pick")
        \/ \E h \in Answers : mem' = [mem EXCEPT ![d] = [mem[d] EXCEPT !.head = h, !.at = "score"]]
    BY <1>10 DEF SweepBlock, Enter
  <2>2. mem[d].at # "down" /\ UNCHANGED chain
    BY <1>10 DEF SweepBlock
  <2>3. ASSUME NEW h \in Answers, mem' = [mem EXCEPT ![d] = [mem[d] EXCEPT !.head = h, !.at = "score"]]
        PROVE  Moved(d) /\ KeptCursor(d)
    <3> DEFINE m == [mem[d] EXCEPT !.head = h, !.at = "score"]
    <3>1. h \in 0 .. MaxHead /\ h <= head
      BY AnswersFit
    <3>2. Fits(m) /\ m.cursor = mem[d].cursor
      BY <1>1, <3>1 DEF Fits, Memory, Phases
    <3>3. mem' = [mem EXCEPT ![d] = m]
      BY <2>3
    <3> HIDE DEF m
    <3> QED
      BY <1>1, <3>2, <3>3 DEF KeptCursor
  <2> QED
    BY <2>1, <2>2, <2>3, TurnMoves
<1>23. CASE SweepScore(d)
  <2>1. \/ Turn(d, "pick")
        \/ \E h \in Answers : mem' = [mem EXCEPT ![d] = [mem[d] EXCEPT !.score = score[h], !.at = "prev"]]
    BY <1>23 DEF SweepScore, Enter
  <2>2. mem[d].at # "down" /\ UNCHANGED chain
    BY <1>23 DEF SweepScore
  <2>3. ASSUME NEW h \in Answers,
               mem' = [mem EXCEPT ![d] = [mem[d] EXCEPT !.score = score[h], !.at = "prev"]]
        PROVE  Moved(d) /\ KeptCursor(d)
    <3> DEFINE now == score[h]
               m == [mem[d] EXCEPT !.score = now, !.at = "prev"]
    <3>1. now \in {"high", "low"}
      BY AnswersFit
    <3>2. mem' = [mem EXCEPT ![d] = m]
      BY <2>3
    <3> HIDE DEF now
    <3>3. Fits(m) /\ m.cursor = mem[d].cursor
      BY <1>1, <3>1 DEF Fits, Memory, Phases
    <3> HIDE DEF m
    <3> QED
      BY <1>1, <3>2, <3>3 DEF KeptCursor
  <2> QED
    BY <2>1, <2>2, <2>3, TurnMoves
<1>24. CASE SweepPrevious(d)
  <2> DEFINE m == [mem[d] EXCEPT !.prev = agentState, !.at = "store"]
  <2>1. agentState \in {"high", "low", NoRow}
    BY DEF ServiceInv, TablesType
  <2>2. mem' = [mem EXCEPT ![d] = m] /\ mem[d].at # "down" /\ UNCHANGED chain
    BY <1>24 DEF SweepPrevious, Enter
  <2>3. Fits(m) /\ m.cursor = mem[d].cursor
    BY <1>1, <2>1 DEF Fits, Memory, Phases
  <2> HIDE DEF m
  <2> QED
    BY <1>1, <2>2, <2>3 DEF KeptCursor
<1>11. CASE SweepStore(d)
  <2>1. Turn(d, "pick") \/ Goto(d, "cross")
    BY <1>11 DEF SweepStore
  <2>2. mem[d].at # "down" /\ UNCHANGED chain
    BY <1>11 DEF SweepStore
  <2> QED
    BY <2>1, <2>2, TurnMoves, GotoMoves DEF Phases
<1>12. CASE SweepCross(d)
  <2>1. mem' = mem \/ Turn(d, "select") \/ Turn(d, "pick")
    BY <1>12 DEF SweepCross
  <2>2. mem[d].at # "down" /\ UNCHANGED chain
    BY <1>12 DEF SweepCross
  <2> QED
    BY <2>1, <2>2, MemoryFits, TurnMoves
<1>13. CASE Pick(d)
  <2> DEFINE m == [mem[d] EXCEPT !.batch = Oldest(Pending),
                                 !.at = IF Pending = {} THEN "select" ELSE "claim"]
  <2>1. Oldest(Pending) \subseteq Keyed
    BY DEF Oldest, Pending, ServiceInv, TablesType
  <2>2. Fits(m) /\ m.cursor = mem[d].cursor
    BY <1>1, <2>1 DEF Fits, Memory, Phases
  <2>3. mem' = [mem EXCEPT ![d] = m] /\ mem[d].at # "down" /\ UNCHANGED chain
    BY <1>13 DEF Pick, Enter
  <2> HIDE DEF m
  <2> QED
    BY <1>1, <2>2, <2>3 DEF KeptCursor
<1>14. CASE Claim(d)
  <2>1. mem[d].at # "down" /\ UNCHANGED chain
    BY <1>14 DEF Claim
  <2>2. PICK p \in mem[d].batch :
          LET m == [mem[d] EXCEPT !.batch = @ \ {p}] IN
          \/ Enter(d, [m EXCEPT !.row = p, !.at = "post"])
          \/ Enter(d, [m EXCEPT !.at = IF m.batch = {} THEN "select" ELSE "claim"])
    BY <1>14 DEF Claim
  <2>3. mem[d].batch \subseteq Keyed /\ p \in Keyed
    BY <1>1 DEF Fits, Memory
  <2> DEFINE rest == mem[d].batch \ {p}
             taken == [mem[d] EXCEPT !.batch = rest, !.row = p, !.at = "post"]
             passed == [mem[d] EXCEPT !.batch = rest, !.at = IF rest = {} THEN "select" ELSE "claim"]
  <2>4. mem' = [mem EXCEPT ![d] = taken] \/ mem' = [mem EXCEPT ![d] = passed]
    BY <1>1, <2>2 DEF Enter, Fits, Memory
  <2>5. Fits(taken) /\ taken.cursor = mem[d].cursor
    BY <1>1, <2>3 DEF Fits, Memory, Phases
  <2>6. Fits(passed) /\ passed.cursor = mem[d].cursor
    BY <1>1, <2>3 DEF Fits, Memory, Phases
  <2> HIDE DEF taken, passed
  <2> QED
    BY <1>1, <2>1, <2>4, <2>5, <2>6 DEF KeptCursor
<1>15. CASE Post(d)
  <2>1. Goto(d, "ok") \/ Goto(d, "bad")
    BY <1>15 DEF Post
  <2>2. mem[d].at = "post" /\ UNCHANGED chain
    BY <1>15 DEF Post
  <2>3. mem[d].row \in Keyed
    BY <1>1, <2>2 DEF Fits
  <2> QED
    BY <2>1, <2>2, <2>3, GotoMoves DEF Phases
<1>16. CASE RecordOk(d)
  <2>1. mem[d].at = "ok" /\ Goto(d, "reset") /\ UNCHANGED chain
    BY <1>16 DEF RecordOk
  <2>2. mem[d].row \in Keyed
    BY <1>1, <2>1 DEF Fits
  <2> QED
    BY <2>1, <2>2, GotoMoves DEF Phases
<1>17. ASSUME NextRow(d), mem[d].at # "down", UNCHANGED chain PROVE Done
  <2> DEFINE m == [mem[d] EXCEPT !.row = <<>>, !.at = IF mem[d].batch = {} THEN "select" ELSE "claim"]
  <2>1. Fits(m) /\ m.cursor = mem[d].cursor
    BY <1>1 DEF Fits, Memory, Phases
  <2>2. mem' = [mem EXCEPT ![d] = m]
    BY <1>17 DEF NextRow, Enter
  <2> HIDE DEF m
  <2> QED
    BY <1>1, <1>17, <2>1, <2>2 DEF KeptCursor
<1>18. CASE ResetFailures(d)
  BY <1>17, <1>18 DEF ResetFailures
<1>19. CASE RecordFailure(d)
  <2>1. NextRow(d) \/ Turn(d, "select")
    BY <1>19 DEF RecordFailure
  <2>2. mem[d].at # "down" /\ UNCHANGED chain
    BY <1>19 DEF RecordFailure
  <2> QED
    BY <1>17, <2>1, <2>2, TurnMoves
<1>20. CASE Throws(d)
  <2>1. mem[d].at # "down" /\ UNCHANGED chain
    BY <1>20 DEF Throws, Forgets
  <2>2. (mem[d].at \in {"ok", "reset"} /\ Goto(d, "bad")) \/ Turn(d, "select")
    BY <1>20 DEF Throws
  <2>3. mem[d].at \in {"ok", "reset"} => mem[d].row \in Keyed
    BY <1>1 DEF Fits
  <2> QED
    BY <2>1, <2>2, <2>3, TurnMoves, GotoMoves DEF Phases
<1>21. CASE Crash(d)
  <2>1. mem' = [mem EXCEPT ![d] = Asleep] /\ UNCHANGED chain
    BY <1>21 DEF Crash, Forgets, Enter
  <2>2. Fits(Asleep) /\ Asleep.at = "down"
    BY <1>1 DEF Fits, Memory, Asleep, Phases
  <2> HIDE DEF Asleep
  <2> QED
    BY <1>1, <2>1, <2>2
<1> QED
  BY <1>3, <1>4, <1>5, <1>6, <1>7, <1>8, <1>9, <1>10, <1>11, <1>12, <1>13, <1>14, <1>15, <1>16,
     <1>18, <1>19, <1>20, <1>21, <1>22, <1>23, <1>24 DEF Pass

-----------------------------------------------------------------------------
(* The stored cursor passes nothing that is owed *)

LEMMA StepKinds ==
    ASSUME [Next]_vars
    PROVE  \/ Block
           \/ UNCHANGED <<chain, cursorRow, agentState, mem, owed, missed, highs>>
           \/ \E d \in Daemons : Pass(d) \/ Throws(d) \/ Crash(d)
BY DEF Next, Burn, Apply, ApplyFails, vars, chain, tables, history

LEMMA ChainGrows ==
    ASSUME ServiceInv, [Next]_vars
    PROVE  /\ head' \in 0 .. MaxHead /\ head <= head'
           /\ faults' \subseteq 1 .. head' /\ faults \subseteq faults'
           /\ score' \in [0 .. head' -> {"high", "low"}]
<1>1. /\ head \in 0 .. MaxHead /\ faults \subseteq 1 .. head /\ score \in [0 .. head -> {"high", "low"}]
      /\ MaxHead \in Nat /\ Scores \subseteq {"high", "low"}
  BY AlertsAssumption DEF ServiceInv, TablesType
<1>2. CASE Block
  <2>1. /\ head' = head + 1 /\ head < MaxHead
        /\ faults' = faults \cup {head + 1} \/ faults' = faults
        /\ \E now \in Scores : score' = [b \in 0 .. head' |-> IF b = head' THEN now ELSE score[b]]
    BY <1>2 DEF Block
  <2>2. head \in Nat /\ head' \in 0 .. MaxHead /\ head <= head'
    BY <1>1, <2>1
  <2>3. head + 1 \in 1 .. head' /\ \A b \in 1 .. head : b \in 1 .. head'
    BY <1>1, <2>1, <2>2
  <2>4. faults' \subseteq 1 .. head' /\ faults \subseteq faults'
    BY <1>1, <2>1, <2>3
  <2>5. \A b \in 0 .. head' : b # head' => b \in 0 .. head
    BY <2>1, <2>2
  <2>6. score' \in [0 .. head' -> {"high", "low"}]
    <3>1. PICK now \in Scores : score' = [b \in 0 .. head' |-> IF b = head' THEN now ELSE score[b]]
      BY <2>1
    <3>2. \A b \in 0 .. head' : (IF b = head' THEN now ELSE score[b]) \in {"high", "low"}
      BY <1>1, <2>5
    <3> QED
      BY <3>1, <3>2
  <2> QED
    BY <2>2, <2>4, <2>6
<1>3. CASE UNCHANGED chain
  BY <1>1, <1>3 DEF chain
<1> QED
  BY <1>2, <1>3, StepKinds, DaemonMoves

\* A daemon owes no more than it did, and stores the cursor it has.
LEMMA DaemonWrites ==
    ASSUME ServiceInv, NEW d \in Daemons, Pass(d) \/ Throws(d) \/ Crash(d)
    PROVE  /\ owed' = owed /\ missed \subseteq missed' /\ missed' \subseteq owed \X Causes
           /\ \/ UNCHANGED cursorRow
              \/ SaveCursor(d) /\ mem[d].at = "save" /\ cursorRow' = {mem[d].cursor}
           /\ \/ UNCHANGED <<agentState, highs>>
              \/ /\ SweepStore(d) /\ mem[d].at = "store" /\ agentState' = mem[d].score
                 /\ highs' = IF mem[d].score = "high" /\ highs <= MaxHead THEN highs + 1 ELSE highs
<1>1. missed \subseteq owed \X Causes
  BY DEF ServiceInv, CausesOwed
<1>2. CASE Boot(d)
  <2>1. \E from : Missed("first start", IF cursorRow # {} THEN {} ELSE {o \in owed : o[2] < from})
    BY <1>2 DEF Boot
  <2>2. missed \subseteq missed' /\ missed' \subseteq owed \X Causes
    BY <1>1, <2>1 DEF Missed, Causes
  <2> QED
    BY <1>2, <2>2 DEF Boot, tables
<1>3. CASE SkipToHead(d)
  <2>1. \E h : Missed("not selected", Owing(d, h))
    BY <1>3 DEF SkipToHead
  <2>2. missed \subseteq missed' /\ missed' \subseteq owed \X Causes
    BY <1>1, <2>1 DEF Missed, Causes, Owing
  <2> QED
    BY <1>3, <2>2 DEF SkipToHead, tables
<1>4. CASE Followed(d)
  <2>1. missed' = missed \cup (Owing(d, mem[d].head) \ OwingSeen(d, mem[d].head)) \X {"not selected"}
                         \cup {o \in OwingSeen(d, mem[d].head) : o[2] \in mem[d].short} \X {"behind"}
    BY <1>4 DEF Followed, FollowedTo
  <2>2. missed \subseteq missed' /\ missed' \subseteq owed \X Causes
    BY <1>1, <2>1 DEF Causes, Owing, OwingSeen
  <2> QED
    BY <1>4, <2>2 DEF Followed, FollowedTo, tables
<1>5. CASE SaveCursor(d)
  BY <1>1, <1>5 DEF SaveCursor, history
<1>6. CASE SweepStore(d)
  BY <1>1, <1>6 DEF SweepStore, Stored
<1>7. CASE UNCHANGED <<owed, missed, highs, cursorRow, agentState>>
  BY <1>1, <1>7
<1> QED
  BY <1>2, <1>3, <1>4, <1>5, <1>6, <1>7
     DEF Pass, SelectLive, ReadHead, ReadLogs, QueueEvent, SweepBlock, SweepScore, SweepPrevious,
         SweepCross, Pick, Claim, Post, RecordOk, ResetFailures, RecordFailure, Throws, Crash, Forgets,
         tables, history

LEMMA TablesKeepType ==
    ASSUME ServiceInv, [Next]_vars
    PROVE  TablesType'
<1>1. TablesType /\ head \in 0 .. MaxHead /\ MaxHead \in Nat
  BY AlertsAssumption DEF ServiceInv, TablesType
<1>2. /\ cursorRow' \subseteq 0 .. head' + 1
      /\ cursorRow' = {} \/ \E c \in 0 .. head' + 1 : cursorRow' = {c}
  <2>1. head \in Nat /\ head' \in Nat /\ head <= head'
    BY <1>1, ChainGrows
  <2>2. \A c \in Nat : c <= head + 1 => c \in 0 .. head' + 1
    <3>1. \A h, g, c \in Nat : h <= g /\ c <= h + 1 => c \in 0 .. g + 1
      OBVIOUS
    <3> QED
      BY <2>1, <3>1
  <2>3. CASE UNCHANGED cursorRow
    BY <1>1, <2>2, <2>3 DEF TablesType
  <2>4. ASSUME NEW d \in Daemons, cursorRow' = {mem[d].cursor} PROVE mem[d].cursor \in 0 .. head' + 1
    <3>1. mem[d].cursor \in Nat /\ mem[d].cursor <= head + 1
      BY MemoryFits DEF Fits, Memory
    <3> QED
      BY <1>1, <2>2, <3>1
  <2>5. CASE \E d \in Daemons : cursorRow' = {mem[d].cursor}
    BY <2>4, <2>5
  <2> QED
    BY <2>3, <2>5, StepKinds, DaemonWrites DEF Block, tables
<1>3. agentState' \in {"high", "low", NoRow}
  <2>1. \A d \in Daemons : mem[d].score \in {"high", "low"}
    BY MemoryFits DEF Fits, Memory
  <2> QED
    BY <1>1, <2>1, StepKinds, DaemonWrites DEF TablesType, Block, tables
<1>4. highs' \in 0 .. MaxHead + 1
  <2>1. highs \in 0 .. MaxHead + 1
    BY <1>1 DEF TablesType
  <2>2. highs <= MaxHead => highs + 1 \in 0 .. MaxHead + 1
    BY <1>1, <2>1
  <2>3. highs' = highs \/ highs' = IF highs <= MaxHead THEN highs + 1 ELSE highs
    <3>1. ASSUME NEW d \in Daemons, Pass(d) \/ Throws(d) \/ Crash(d)
          PROVE  highs' = highs \/ highs' = IF highs <= MaxHead THEN highs + 1 ELSE highs
      BY <3>1, DaemonWrites
    <3> QED
      BY <3>1, StepKinds DEF Block
  <2> QED
    BY <2>1, <2>2, <2>3
<1> QED
  BY <1>2, <1>3, <1>4, ChainGrows, SubscriptionsAge, QueueFollows DEF TablesType, Sub

LEMMA MemoryKeepsType ==
    ASSUME ServiceInv, [Next]_vars
    PROVE  MemoryType'
<1>1. /\ mem \in [Daemons -> Memory] /\ head \in 0 .. MaxHead /\ MaxHead \in Nat
      /\ \A d \in Daemons : Fits(mem[d])
  BY MemoryFits, AlertsAssumption DEF ServiceInv, MemoryType, TablesType
<1>2. head' \in 0 .. MaxHead /\ head <= head'
  BY ChainGrows
<1>3. mem' \in [Daemons -> Memory] /\ \A d \in Daemons : Fits(mem'[d])
  <2>1. CASE mem' = mem
    BY <1>1, <2>1
  <2>2. ASSUME NEW d \in Daemons, Moved(d)
        PROVE  mem' \in [Daemons -> Memory] /\ \A e \in Daemons : Fits(mem'[e])
    BY <1>1, <2>2 DEF Moved, Fits
  <2> QED
    BY <2>1, <2>2, StepKinds, DaemonMoves DEF Block
<1>4. ASSUME NEW d \in Daemons
      PROVE  /\ mem'[d].cursor <= head' + 1 /\ mem'[d].head <= head'
             /\ mem'[d].at = "skip" => mem'[d].subs = {}
             /\ mem'[d].at \in {"post", "ok", "bad", "reset"} => mem'[d].row \in Keyed
  <2>1. Fits(mem'[d]) /\ mem'[d].cursor \in Nat /\ mem'[d].head \in Nat
    BY <1>3 DEF Memory
  <2>2. mem'[d].cursor <= head + 1 /\ mem'[d].head <= head
    BY <2>1 DEF Fits
  <2>3. mem'[d].cursor <= head' + 1 /\ mem'[d].head <= head'
    BY <1>1, <1>2, <2>1, <2>2
  <2> QED
    BY <2>1, <2>3 DEF Fits
<1> QED
  BY <1>3, <1>4 DEF MemoryType, Memory

LEMMA OwedStaysDue ==
    ASSUME ServiceInv, [Next]_vars
    PROVE  OwedIsDue'
<1>1. /\ \A k \in Keys : subscription[k].serial \in Nat /\ subscription'[k].serial \in Nat
      /\ \A k \in Keys : subscription[k].serial <= subscription'[k].serial
  BY SubscriptionsAge DEF ServiceInv, TablesType, Sub
<1>2. ASSUME NEW o \in owed
      PROVE  /\ o \in Ids \X faults' /\ o[1][1] \notin ScoreKeys
             /\ o[1][2] <= subscription'[o[1][1]].serial
  <2>1. o \in Ids \X faults /\ o[1][1] \notin ScoreKeys /\ o[1][2] <= subscription[o[1][1]].serial
    BY <1>2 DEF ServiceInv, OwedIsDue
  <2>2. o[1][1] \in Keys /\ o[1][2] \in Nat
    BY <2>1, IdsTyped
  <2>3. o[1][2] <= subscription'[o[1][1]].serial
    BY <1>1, <2>1, <2>2
  <2> QED
    BY <2>1, <2>3, ChainGrows
<1>3. CASE owed' = owed
  BY <1>2, <1>3 DEF OwedIsDue
<1>4. ASSUME Block, NEW o \in owed', o \notin owed
      PROVE  /\ o \in Ids \X faults' /\ o[1][1] \notin ScoreKeys
             /\ o[1][2] <= subscription'[o[1][1]].serial
  <2>1. /\ faults' = faults \cup {head + 1} /\ subscription' = subscription
        /\ owed' = owed \cup {<<id, head + 1>> : id \in {i \in LiveIds : i[1] \notin ScoreKeys}}
    BY <1>4 DEF Block, tables
  <2>2. PICK id \in LiveIds : id[1] \notin ScoreKeys /\ o = <<id, head + 1>>
    BY <1>4, <2>1
  <2>3. id \in Ids /\ id[1] \in Keys /\ id[2] = subscription[id[1]].serial
    BY IdsTyped DEF LiveIds, Exists
  <2>4. id[2] <= subscription'[id[1]].serial
    BY <1>1, <2>1, <2>3
  <2> QED
    BY <2>1, <2>2, <2>3, <2>4
<1>5. CASE Block
  BY <1>2, <1>4, <1>5 DEF OwedIsDue
<1> QED
  BY <1>3, <1>5, StepKinds, DaemonWrites

\* A cause once recorded stays on record.
LEMMA CausesStay ==
    ASSUME ServiceInv, [Next]_vars
    PROVE  CausesOwed' /\ missed \subseteq missed'
<1>1. CASE Block
  BY <1>1 DEF Block, ServiceInv, CausesOwed
<1>2. CASE UNCHANGED <<owed, missed>>
  BY <1>2 DEF ServiceInv, CausesOwed
<1>3. ASSUME NEW d \in Daemons, Pass(d) \/ Throws(d) \/ Crash(d) PROVE CausesOwed' /\ missed \subseteq missed'
  BY <1>3, DaemonWrites DEF CausesOwed
<1> QED
  BY <1>1, <1>2, <1>3, StepKinds

\* What is owed after a step and below c is in the queue then.
CoveredThen(c) ==
    \A o \in owed' :
      o[2] < c /\ Exists(o[1])' => Lost(o)' \/ <<o[1], <<"fault", o[2]>>>> \in DOMAIN delivery'

\* What covered a block still does.
LEMMA CoverageLasts ==
    ASSUME ServiceInv, [Next]_vars, NEW o \in owed, Exists(o[1])'
    PROVE  /\ Exists(o[1]) /\ (Lost(o) => Lost(o)')
           /\ <<o[1], <<"fault", o[2]>>>> \in DOMAIN delivery =>
                <<o[1], <<"fault", o[2]>>>> \in DOMAIN delivery'
<1>1. o[1] \in Ids /\ o[1][2] <= subscription[o[1][1]].serial
  BY DEF ServiceInv, OwedIsDue
<1>2. Exists(o[1])
  BY <1>1, SubscriptionsAge
<1>3. \A p \in DOMAIN delivery : p[1] = o[1] => p \in DOMAIN delivery'
  <2>1. \A p \in DOMAIN delivery : p \in DOMAIN delivery' \/ ~Exists(p[1])'
    BY QueueFollows
  <2> QED
    BY <2>1 DEF Exists
<1>4. Lost(o) => Lost(o)'
  BY CausesStay DEF Lost
<1> QED
  BY <1>2, <1>3, <1>4

LEMMA CoveredStays ==
    ASSUME ServiceInv, [Next]_vars, owed' = owed, NEW c, CoveredBelow(c)
    PROVE  CoveredThen(c)
BY CoverageLasts DEF CoveredBelow, CoveredThen

\* A daemon's new cursor covers what is below it.
LEMMA DaemonCovers ==
    ASSUME ServiceInv, [Next]_vars, NEW d \in Daemons, Pass(d) \/ Throws(d) \/ Crash(d),
           mem'[d].at # "down"
    PROVE  CoveredThen(mem'[d].cursor)
<1>1. owed' = owed
  BY DaemonWrites
<1>2. /\ \A o \in owed : o[2] \in Nat /\ o[1] \in Ids /\ o[1][1] \notin ScoreKeys /\ o[2] \in faults
      /\ head \in Nat
  <2>1. head \in 0 .. MaxHead /\ faults \subseteq 1 .. head /\ MaxHead \in Nat
    BY AlertsAssumption DEF ServiceInv, TablesType
  <2>2. head \in Nat /\ \A b \in faults : b \in Nat
    BY <2>1
  <2>3. \A o \in owed : o \in Ids \X faults /\ o[1][1] \notin ScoreKeys
    BY DEF ServiceInv, OwedIsDue
  <2> QED
    BY <2>2, <2>3
<1>3. /\ mem[d] \in Memory /\ Moved(d)
      /\ \A m : mem' = [mem EXCEPT ![d] = m] => mem'[d] = m
  BY MemoryFits, DaemonMoves DEF Fits, ServiceInv, MemoryType
<1>4. CASE Boot(d)
  <2>1. PICK h \in Answers :
        \E from \in IF cursorRow # {} THEN cursorRow
                    ELSE {IF h > LogWindow THEN h - LogWindow ELSE 0} :
          /\ mem' = [mem EXCEPT ![d] = [Asleep EXCEPT !.at = "select", !.cursor = from]]
          /\ Missed("first start", IF cursorRow # {} THEN {} ELSE {o \in owed : o[2] < from})
    BY <1>4 DEF Boot, Enter
  <2>2. PICK from \in IF cursorRow # {} THEN cursorRow
                      ELSE {IF h > LogWindow THEN h - LogWindow ELSE 0} :
          /\ mem' = [mem EXCEPT ![d] = [Asleep EXCEPT !.at = "select", !.cursor = from]]
          /\ Missed("first start", IF cursorRow # {} THEN {} ELSE {o \in owed : o[2] < from})
    BY <2>1
  <2>3. mem'[d].cursor = from
    BY <1>3, <2>2 DEF Asleep
  <2>4. CASE cursorRow # {}
    <3>1. CoveredBelow(from)
      BY <2>2, <2>4 DEF ServiceInv, CursorInv
    <3> QED
      BY <1>1, <2>3, <3>1, CoveredStays
  <2>5. CASE cursorRow = {}
    <3>1. missed' = missed \cup {o \in owed : o[2] < from} \X {"first start"}
      BY <2>2, <2>5 DEF Missed
    <3>2. ASSUME NEW o \in owed, o[2] < from PROVE Lost(o)'
      <4>1. <<o, "first start">> \in missed'
        BY <3>1, <3>2
      <4> QED
        BY <4>1 DEF Lost, Causes
    <3> QED
      BY <1>1, <2>3, <3>2 DEF CoveredThen
  <2> QED
    BY <2>4, <2>5
\* A cursor set behind the range of a pass: what is owed in it was queued or missed.
<1>5. ASSUME NEW to \in Nat, mem'[d].cursor = to + 1, mem[d].at # "down",
             \A o \in Owing(d, to) : Lost(o)' \/ <<o[1], <<"fault", o[2]>>>> \in DOMAIN delivery
      PROVE  CoveredThen(mem'[d].cursor)
  <2>1. CoveredBelow(mem[d].cursor) /\ mem[d].cursor \in Nat
    BY <1>3, <1>5 DEF ServiceInv, CursorInv, Memory
  <2> SUFFICES ASSUME NEW o \in owed', o[2] < to + 1, Exists(o[1])'
               PROVE  Lost(o)' \/ <<o[1], <<"fault", o[2]>>>> \in DOMAIN delivery'
    BY <1>5 DEF CoveredThen
  <2>2. o \in owed /\ Exists(o[1])
    BY <1>1, CoverageLasts
  <2>3. CASE o[2] < mem[d].cursor
    BY <2>1, <2>2, <2>3, CoverageLasts DEF CoveredBelow
  <2>4. CASE o[2] >= mem[d].cursor
    <3>1. o[2] \in mem[d].cursor .. to
      BY <1>2, <2>1, <2>2, <2>4
    <3>2. Lost(o)' \/ <<o[1], <<"fault", o[2]>>>> \in DOMAIN delivery
      BY <1>5, <2>2, <3>1 DEF Owing
    <3> QED
      BY <2>2, <3>2, CoverageLasts
  <2> QED
    BY <1>2, <2>1, <2>2, <2>3, <2>4
<1>6. CASE SkipToHead(d)
  <2>1. PICK h \in Answers :
          /\ mem'[d] = [mem[d] EXCEPT !.cursor = h + 1, !.at = "save"]
          /\ missed' = missed \cup Owing(d, h) \X {"not selected"}
    BY <1>3, <1>6 DEF SkipToHead, Enter, Missed
  <2>2. h \in Nat /\ mem[d].at # "down"
    BY <1>6, AnswersFit DEF SkipToHead
  <2>3. mem'[d].cursor = h + 1
    BY <1>3, <2>1 DEF Memory
  <2>4. ASSUME NEW o \in Owing(d, h) PROVE Lost(o)'
    <3>1. <<o, "not selected">> \in missed'
      BY <2>1, <2>4
    <3> QED
      BY <3>1 DEF Lost, Causes
  <2> QED
    BY <1>5, <2>2, <2>3, <2>4
<1>7. CASE Followed(d)
  <2> DEFINE to == mem[d].head
  <2>1. /\ mem[d].at = "queue" /\ Unqueued(d) = {}
        /\ mem'[d] = [mem[d] EXCEPT !.cursor = to + 1, !.head = 0, !.short = {}, !.at = "save"]
        /\ missed' = missed \cup (Owing(d, to) \ OwingSeen(d, to)) \X {"not selected"}
                           \cup {o \in OwingSeen(d, to) : o[2] \in mem[d].short} \X {"behind"}
    BY <1>3, <1>7 DEF Followed, FollowedTo, Enter
  <2>2. to \in Nat
    BY <1>3, AlertsAssumption DEF Memory
  <2>3. mem'[d].cursor = to + 1
    BY <1>3, <2>1 DEF Memory
  <2>4. ASSUME NEW o \in Owing(d, to)
        PROVE  Lost(o)' \/ <<o[1], <<"fault", o[2]>>>> \in DOMAIN delivery
    <3>1. CASE o \notin OwingSeen(d, to)
      <4>1. <<o, "not selected">> \in missed'
        BY <2>1, <2>4, <3>1
      <4> QED
        BY <4>1 DEF Lost, Causes
    <3>2. CASE o \in OwingSeen(d, to) /\ o[2] \in mem[d].short
      <4>1. <<o, "behind">> \in missed'
        BY <2>1, <3>2
      <4> QED
        BY <4>1 DEF Lost, Causes
    <3>3. CASE o \in OwingSeen(d, to) /\ o[2] \notin mem[d].short
      <4>1. o \in owed /\ o[1] \in mem[d].subs /\ o[2] \in mem[d].cursor .. to
        BY <3>3 DEF OwingSeen, Owing
      <4>2. o[1] \in FaultSubs(d) /\ o[2] \in (faults \cap mem[d].cursor .. to) \ mem[d].short
        BY <1>2, <3>3, <4>1 DEF FaultSubs
      <4>3. <<o[1], <<"fault", o[2]>>>> \in
              FaultSubs(d) \X {<<"fault", b>> : b \in (faults \cap mem[d].cursor .. mem[d].head) \ mem[d].short}
        BY <4>2
      <4> QED
        BY <2>1, <4>3 DEF Unqueued
    <3> QED
      BY <3>1, <3>2, <3>3
  <2>5. mem[d].at # "down"
    BY <2>1
  <2> HIDE DEF to
  <2> QED
    BY <1>5, <2>2, <2>3, <2>4, <2>5
<1>8. CASE mem[d].at # "down" /\ KeptCursor(d)
  <2>1. CoveredBelow(mem[d].cursor) /\ mem'[d].cursor = mem[d].cursor
    BY <1>8 DEF ServiceInv, CursorInv, KeptCursor
  <2> QED
    BY <1>1, <2>1, CoveredStays
<1> QED
  BY <1>4, <1>6, <1>7, <1>8, DaemonMoves

LEMMA CursorFollows ==
    ASSUME ServiceInv, [Next]_vars
    PROVE  CursorInv'
<1>1. CursorInv
  BY DEF ServiceInv
<1>2. SUFFICES /\ \A c \in cursorRow' : CoveredThen(c)
               /\ \A d \in Daemons : mem'[d].at # "down" => CoveredThen(mem'[d].cursor)
  BY DEF CursorInv, CoveredBelow, CoveredThen, Exists, Lost
<1>3. CASE Block
  <2>1. ASSUME NEW c \in Nat, c <= head + 1, CoveredBelow(c) PROVE CoveredThen(c)
    <3> SUFFICES ASSUME NEW o \in owed', o[2] < c, Exists(o[1])'
                 PROVE  Lost(o)' \/ <<o[1], <<"fault", o[2]>>>> \in DOMAIN delivery'
      BY DEF CoveredThen
    <3>1. o \in owed \/ o[2] = head + 1
      BY <1>3 DEF Block
    <3>2. head \in Nat
      BY AlertsAssumption DEF ServiceInv, TablesType
    <3>3. o \in owed
      BY <2>1, <3>1, <3>2
    <3>4. Exists(o[1])
      BY <3>3, CoverageLasts
    <3> QED
      BY <2>1, <3>3, <3>4, CoverageLasts DEF CoveredBelow
  <2>2. \A c \in cursorRow : c \in Nat /\ c <= head + 1
    BY AlertsAssumption DEF ServiceInv, TablesType
  <2>3. \A d \in Daemons : mem[d].cursor \in Nat /\ mem[d].cursor <= head + 1
    BY MemoryFits DEF Fits, Memory
  <2> QED
    BY <1>1, <1>3, <2>1, <2>2, <2>3 DEF CursorInv, Block, tables
<1>4. CASE UNCHANGED <<chain, cursorRow, agentState, mem, owed, missed, highs>>
  BY <1>1, <1>4, CoveredStays DEF CursorInv
<1>5. ASSUME NEW d \in Daemons, Pass(d) \/ Throws(d) \/ Crash(d)
      PROVE  /\ \A c \in cursorRow' : CoveredThen(c)
             /\ \A e \in Daemons : mem'[e].at # "down" => CoveredThen(mem'[e].cursor)
  <2>1. owed' = owed
    BY <1>5, DaemonWrites
  <2>2. \A c \in cursorRow' : CoveredBelow(c)
    <3>1. CASE UNCHANGED cursorRow
      BY <1>1, <3>1 DEF CursorInv
    <3>2. CASE mem[d].at = "save" /\ cursorRow' = {mem[d].cursor}
      BY <1>1, <3>2 DEF CursorInv
    <3> QED
      BY <1>5, <3>1, <3>2, DaemonWrites
  <2>3. \A e \in Daemons : e # d => mem'[e] = mem[e]
    BY <1>5, DaemonMoves DEF Moved, ServiceInv, MemoryType
  <2>4. ASSUME NEW e \in Daemons, mem'[e].at # "down" PROVE CoveredThen(mem'[e].cursor)
    <3>1. CASE e = d
      BY <1>5, <2>4, <3>1, DaemonCovers
    <3>2. CASE e # d
      <4>1. CoveredBelow(mem[e].cursor) /\ mem'[e].cursor = mem[e].cursor
        BY <1>1, <2>3, <2>4, <3>2 DEF CursorInv
      <4> QED
        BY <2>1, <4>1, CoveredStays
    <3> QED
      BY <3>1, <3>2
  <2> QED
    BY <2>1, <2>2, <2>4, CoveredStays
<1> QED
  BY <1>3, <1>4, <1>5, StepKinds

LEMMA ServiceInvInit == Init => ServiceInv
<1> SUFFICES ASSUME Init PROVE ServiceInv
  OBVIOUS
<1>1. MaxHead \in Nat /\ MaxFailures \in Nat
  BY AlertsAssumption
<1>2. /\ head = 0 /\ faults = {} /\ score = [b \in {0} |-> "high"] /\ cursorRow = {} /\ agentState = NoRow
      /\ owed = {} /\ missed = {} /\ highs = 0 /\ delivery = <<>> /\ mem = [d \in Daemons |-> Asleep]
  BY DEF Init
<1>3. DOMAIN delivery = {}
  BY <1>2
<1>4. subscription \in [Keys -> Sub]
  <2>1. NoSub \in Sub
    BY <1>1 DEF NoSub, Sub
  <2>2. Subscribed(NoSub) \in Sub
    BY <2>1, SubWrites
  <2>3. PICK already : subscription = [k \in Keys |-> IF k \in already THEN Subscribed(NoSub) ELSE NoSub]
    BY DEF Init
  <2> QED
    BY <2>1, <2>2, <2>3
<1>5. TablesType
  <2>1. score \in [0 .. head -> {"high", "low"}]
    <3>1. 0 .. head = {0}
      BY <1>2
    <3> QED
      BY <1>2, <3>1
  <2>2. highs \in 0 .. MaxHead + 1 /\ head \in 0 .. MaxHead /\ faults \subseteq 1 .. head
    BY <1>1, <1>2
  <2> QED
    BY <1>2, <1>3, <1>4, <2>1, <2>2, FS_EmptySet DEF TablesType, Sub
<1>6. /\ Asleep \in Memory /\ Asleep.cursor <= head + 1 /\ Asleep.head <= head /\ Asleep.at = "down"
  BY <1>1, <1>2 DEF Asleep, Memory, Phases
<1>7. MemoryType
  BY <1>2, <1>6 DEF MemoryType
<1>8. RowsExist /\ OwedIsDue /\ CausesOwed
  BY <1>2, <1>3 DEF RowsExist, OwedIsDue, CausesOwed
<1>9. CursorInv
  BY <1>2 DEF CursorInv, CoveredBelow
<1> QED
  BY <1>5, <1>7, <1>8, <1>9 DEF ServiceInv

LEMMA ServiceInvNext == ServiceInv /\ [Next]_vars => ServiceInv'
BY TablesKeepType, MemoryKeepsType, QueueFollows, OwedStaysDue, CausesStay, CursorFollows DEF ServiceInv

\* However many daemons there are and however far the nodes are behind, the stored
\* cursor passes a fault that a subscription is owed, unqueued, for one of three causes
\* (alerts.js, followEvents and the cursor it saves).
THEOREM CursorAlwaysPassesForACause == Spec => []PassedForACause
<1>1. ServiceInv => PassedForACause
  <2> SUFFICES ASSUME ServiceInv PROVE PassedForACause
    OBVIOUS
  <2>1. TypeOK
    <3>1. Cardinality(cursorRow) <= 1
      <4>1. cursorRow = {} \/ \E c : cursorRow = {c}
        BY DEF ServiceInv, TablesType
      <4>2. Cardinality(cursorRow) = 0 \/ Cardinality(cursorRow) = 1
        BY <4>1, FS_EmptySet, FS_Singleton
      <4> QED
        BY <4>2
    <3>2. \A d \in Daemons : mem[d].subs \subseteq Ids /\ mem[d].cursor <= head + 1
      BY MemoryFits DEF Fits, Memory
    <3> QED
      BY <3>1, <3>2 DEF ServiceInv, TablesType, RowsExist, CausesOwed, TypeOK, Keyed
  <2> QED
    BY <2>1 DEF ServiceInv, CursorInv, CoveredBelow, Lost, PassedForACause
<1> QED
  BY <1>1, ServiceInvInit, ServiceInvNext, PTL DEF Spec

-----------------------------------------------------------------------------
(* What a daemon posts, and what its sweep announces *)

\* A claim takes a row that is not delivered, or passes it over.
LEMMA ClaimAfter ==
    ASSUME ServiceInv, NEW d \in Daemons, Claim(d)
    PROVE  \/ /\ mem'[d].at = "post" /\ mem'[d].row \in DOMAIN delivery
              /\ ~delivery[mem'[d].row].delivered
           \/ mem'[d].at \in {"select", "claim"}
<1>1. mem \in [Daemons -> Memory] /\ mem[d] \in Memory
  BY DEF ServiceInv, MemoryType
<1>2. PICK p \in mem[d].batch :
        LET m == [mem[d] EXCEPT !.batch = @ \ {p}] IN
        IF p \in DOMAIN delivery /\ ~delivery[p].delivered
        THEN Enter(d, [m EXCEPT !.row = p, !.at = "post"])
        ELSE Enter(d, [m EXCEPT !.at = IF m.batch = {} THEN "select" ELSE "claim"])
  BY DEF Claim
<1> DEFINE rest == mem[d].batch \ {p}
           taken == [mem[d] EXCEPT !.batch = rest, !.row = p, !.at = "post"]
           passed == [mem[d] EXCEPT !.batch = rest, !.at = IF rest = {} THEN "select" ELSE "claim"]
<1>3. IF p \in DOMAIN delivery /\ ~delivery[p].delivered
      THEN mem'[d] = taken ELSE mem'[d] = passed
  BY <1>1, <1>2 DEF Enter, Memory
<1>4. taken.at = "post" /\ taken.row = p /\ passed.at \in {"select", "claim"}
  BY <1>1 DEF Memory
<1> HIDE DEF taken, passed
<1> QED
  BY <1>3, <1>4

\* Where an action leaves its daemon.
LEMMA PhaseAfter ==
    ASSUME ServiceInv, NEW d \in Daemons
    PROVE  /\ Boot(d) \/ SelectLive(d) \/ SkipToHead(d) \/ ReadHead(d) \/ QueueEvent(d) \/ Followed(d)
                \/ SaveCursor(d) \/ Pick(d) \/ ResetFailures(d) \/ RecordFailure(d) =>
                  mem'[d].at \notin {"store", "cross", "post", "ok"}
           /\ Claim(d) => mem'[d].at \notin {"store", "cross", "ok"}
           /\ Post(d) => mem'[d].at \in {"ok", "bad"}
           /\ RecordOk(d) \/ Throws(d) \/ Crash(d) => mem'[d].at \notin {"store", "cross", "post", "ok"}
           /\ ReadLogs(d) \/ SweepBlock(d) \/ SweepScore(d) =>
                  mem'[d].at \notin {"store", "cross", "post", "ok"}
           /\ SweepPrevious(d) => mem'[d].at = "store" /\ mem'[d].prev = agentState
           /\ SweepStore(d) \/ SweepCross(d) => mem'[d].at \notin {"store", "post", "ok"}
<1>1. /\ mem \in [Daemons -> Memory]
      /\ \A m : mem' = [mem EXCEPT ![d] = m] => mem'[d] = m
  BY DEF ServiceInv, MemoryType
<1>2. ASSUME NEW at, Turn(d, at) PROVE mem'[d].at = at
  BY <1>1, <1>2 DEF Turn, Enter, Asleep
<1>3. ASSUME NEW at, Goto(d, at) PROVE mem'[d].at = at
  BY <1>1, <1>3 DEF Goto, Enter, Memory
<1>4. ASSUME NextRow(d) PROVE mem'[d].at \in {"select", "claim"}
  <2> DEFINE m == [mem[d] EXCEPT !.row = <<>>, !.at = IF mem[d].batch = {} THEN "select" ELSE "claim"]
  <2>1. m.at \in {"select", "claim"}
    BY <1>1 DEF Memory
  <2>2. mem' = [mem EXCEPT ![d] = m]
    BY <1>4 DEF NextRow, Enter
  <2> HIDE DEF m
  <2> QED
    BY <1>1, <2>1, <2>2
<1>5. Boot(d) => mem'[d].at = "select"
  <2> DEFINE m(from) == [Asleep EXCEPT !.at = "select", !.cursor = from]
  <2>1. Boot(d) => \E from : mem' = [mem EXCEPT ![d] = m(from)]
    BY DEF Boot, Enter
  <2>2. \A from : m(from).at = "select"
    BY DEF Asleep
  <2> HIDE DEF m
  <2> QED
    BY <1>1, <2>1, <2>2
<1>6. SelectLive(d) => mem'[d].at \in {"skip", "head"}
  BY <1>1 DEF SelectLive, Enter, Memory
<1>7. SkipToHead(d) \/ Followed(d) => mem'[d].at = "save"
  <2>1. SkipToHead(d) => mem'[d].at = "save"
    BY <1>1 DEF SkipToHead, Enter, Memory
  <2>2. Followed(d) => mem'[d].at = "save"
    BY <1>1 DEF Followed, FollowedTo, Enter, Memory
  <2> QED
    BY <2>1, <2>2
<1>8. ReadHead(d) => mem'[d].at \in {"save", "logs"}
  BY <1>1 DEF ReadHead, Enter, Memory
<1>22. ReadLogs(d) => mem'[d].at = "queue"
  <2> SUFFICES ASSUME ReadLogs(d) PROVE mem'[d].at = "queue"
    OBVIOUS
  <2>1. PICK short : mem' = [mem EXCEPT ![d] = [mem[d] EXCEPT !.short = short, !.at = "queue"]]
    BY DEF ReadLogs, Enter
  <2>2. mem'[d] = [mem[d] EXCEPT !.short = short, !.at = "queue"]
    BY <1>1, <2>1
  <2> QED
    BY <1>1, <2>2 DEF Memory
<1>9. QueueEvent(d) => mem'[d].at \in {"queue", "select"}
  BY <1>2 DEF QueueEvent
<1>10. SaveCursor(d) => mem'[d].at \in {"pick", "sweep"}
  <2> DEFINE c == mem[d].cursor
             slept == [Asleep EXCEPT !.at = "pick", !.cursor = c, !.written = {c}]
             swept == [mem[d] EXCEPT !.written = {c}, !.at = "sweep"]
  <2>1. SaveCursor(d) => mem' = [mem EXCEPT ![d] = slept] \/ mem' = [mem EXCEPT ![d] = swept]
    BY <1>1 DEF SaveCursor, Enter, Memory
  <2>2. slept.at = "pick" /\ swept.at = "sweep"
    BY <1>1 DEF Asleep, Memory
  <2> HIDE DEF slept, swept
  <2> QED
    BY <1>1, <2>1, <2>2
<1>11. SweepBlock(d) => mem'[d].at \in {"pick", "score"}
  <2>1. SweepBlock(d) => \/ Turn(d, "pick")
                         \/ \E h : mem' = [mem EXCEPT ![d] = [mem[d] EXCEPT !.head = h, !.at = "score"]]
    BY DEF SweepBlock, Enter
  <2> QED
    BY <1>1, <1>2, <2>1 DEF Memory
<1>23. SweepScore(d) => mem'[d].at \in {"pick", "prev"}
  <2>1. SweepScore(d) => \/ Turn(d, "pick")
                         \/ \E h : mem' = [mem EXCEPT ![d] = [mem[d] EXCEPT !.score = score[h], !.at = "prev"]]
    BY DEF SweepScore, Enter
  <2> QED
    BY <1>1, <1>2, <2>1 DEF Memory
<1>24. SweepPrevious(d) => mem'[d].at = "store" /\ mem'[d].prev = agentState
  BY <1>1 DEF SweepPrevious, Enter, Memory
<1>12. SweepStore(d) => mem'[d].at \in {"pick", "cross"}
  BY <1>2, <1>3 DEF SweepStore
<1>13. SweepCross(d) => mem'[d].at \in {"pick", "cross", "select"}
  BY <1>2 DEF SweepCross
<1>14. Pick(d) => mem'[d].at \in {"select", "claim"}
  BY <1>1 DEF Pick, Enter, Memory
<1>15. Claim(d) => mem'[d].at \in {"select", "claim", "post"}
  <2> SUFFICES ASSUME Claim(d) PROVE mem'[d].at \in {"select", "claim", "post"}
    OBVIOUS
  <2>1. mem'[d].at = "post" \/ mem'[d].at \in {"select", "claim"}
    BY ClaimAfter
  <2> QED
    BY <2>1
<1>16. Post(d) => mem'[d].at \in {"ok", "bad"}
  BY <1>3 DEF Post
<1>17. RecordOk(d) => mem'[d].at = "reset"
  BY <1>3 DEF RecordOk
<1>18. ResetFailures(d) \/ RecordFailure(d) => mem'[d].at \in {"select", "claim"}
  BY <1>2, <1>4 DEF ResetFailures, RecordFailure
<1>19. Throws(d) => mem'[d].at \in {"select", "bad"}
  BY <1>2, <1>3 DEF Throws
<1>20. Crash(d) => mem'[d].at = "down"
  BY <1>1 DEF Crash, Enter, Asleep
<1>21. /\ Boot(d) \/ SelectLive(d) \/ SkipToHead(d) \/ ReadHead(d) \/ QueueEvent(d) \/ Followed(d)
             \/ SaveCursor(d) \/ Pick(d) \/ ResetFailures(d) \/ RecordFailure(d) =>
               mem'[d].at \notin {"store", "cross", "post", "ok"}
  BY <1>5, <1>6, <1>7, <1>8, <1>9, <1>10, <1>14, <1>18
<1> QED
  BY <1>11, <1>12, <1>13, <1>15, <1>16, <1>17, <1>19, <1>20, <1>21, <1>22, <1>23, <1>24

\* Another daemon's memory stays as it is.
LEMMA OnesOwnSteps ==
    ASSUME ServiceInv, [Next]_vars, NEW d \in Daemons
    PROVE  mem'[d] = mem[d] \/ Pass(d) \/ Throws(d) \/ Crash(d)
<1>1. ASSUME NEW e \in Daemons, Pass(e) \/ Throws(e) \/ Crash(e), e # d PROVE mem'[d] = mem[d]
  BY <1>1, DaemonMoves DEF Moved, ServiceInv, MemoryType
<1> QED
  BY <1>1, StepKinds DEF Block

\* What becomes of a daemon's post or sweep.
LEMMA PhaseBefore ==
    ASSUME ServiceInv, [Next]_vars, NEW d \in Daemons, mem'[d] # mem[d]
    PROVE  /\ mem[d].at = "ok" => RecordOk(d) \/ Throws(d) \/ Crash(d)
           /\ mem'[d].at = "post" => Claim(d)
           /\ mem'[d].at = "store" => SweepPrevious(d)
           /\ mem'[d].at = "cross" => SweepStore(d)
<1>1. Pass(d) \/ Throws(d) \/ Crash(d)
  BY OnesOwnSteps
<1>2. mem[d].at = "ok" => RecordOk(d) \/ Throws(d) \/ Crash(d)
  BY <1>1 DEF Pass, Boot, SelectLive, SkipToHead, ReadHead, ReadLogs, QueueEvent, Followed, SaveCursor,
              SweepBlock, SweepScore, SweepPrevious, SweepStore, SweepCross, Pick, Claim, Post,
              ResetFailures, RecordFailure
<1>3. mem'[d].at = "post" => Claim(d)
  BY <1>1, PhaseAfter DEF Pass
<1>4. mem'[d].at = "store" => SweepPrevious(d)
  BY <1>1, PhaseAfter DEF Pass
<1>5. mem'[d].at = "cross" => SweepStore(d)
  <2>1. SweepCross(d) => mem'[d].at # "cross"
    BY TurnMoves DEF SweepCross
  <2> QED
    BY <1>1, <2>1, PhaseAfter DEF Pass
<1> QED
  BY <1>2, <1>3, <1>4, <1>5

\* A row that stays is the same daemon's, no less delivered and no less lost, and has
\* been received more often from a daemon that posts only.
RowKept(p) ==
    /\ p \in DOMAIN delivery
    /\ delivery'[p].by = delivery[p].by /\ delivery[p].lost \subseteq delivery'[p].lost
    /\ delivery[p].delivered => delivery'[p].delivered
    /\ \A e \in Daemons : delivery'[p].received[e] = delivery[p].received[e] \/ Post(e)

\* A new row is for a fault, or for the crossing that the daemon's sweep is announcing.
RowNew(p) ==
    /\ \A e \in Daemons : delivery'[p].received[e] = 0
    /\ \E d \in Daemons : /\ delivery'[p].by = d
                          /\ \/ \E b : p[2] = <<"fault", b>>
                             \/ mem[d].at = "cross" /\ p[2] = <<"cross", mem[d].head>>

LEMMA RowsAfter ==
    ASSUME ServiceInv, [Next]_vars, NEW p \in DOMAIN delivery'
    PROVE  RowKept(p) \/ RowNew(p)
<1>1. TablesType
  BY DEF ServiceInv
<1>2. ASSUME p \in DOMAIN delivery, delivery'[p] = delivery[p] PROVE RowKept(p)
  BY <1>2 DEF RowKept
<1>3. CASE UNCHANGED delivery
  BY <1>2, <1>3
<1>4. ASSUME NEW q \in Requests, Apply(q) PROVE RowKept(p)
  <2>1. delivery' = delivery \/ \E k : delivery' = Restrict(delivery, Cascade(k))
    BY <1>4 DEF Apply
  <2>2. ASSUME NEW k, delivery' = Restrict(delivery, Cascade(k))
        PROVE  p \in DOMAIN delivery /\ delivery'[p] = delivery[p]
    BY <2>2 DEF Restrict, Cascade
  <2> QED
    BY <1>2, <1>3, <2>1, <2>2
<1>5. ASSUME NEW d \in Daemons, QueueEvent(d) \/ SweepCross(d), delivery' # delivery
      PROVE  RowKept(p) \/ RowNew(p)
  <2>1. PICK id, event :
          /\ delivery' = Queued(d, id, event) /\ <<id, event>> \in Keyed
          /\ (\E b : event = <<"fault", b>>) \/ (mem[d].at = "cross" /\ event = <<"cross", mem[d].head>>)
    <3>1. \E id \in Ids, event \in EventKeys :
            /\ delivery' = Queued(d, id, event) /\ Exists(id) /\ UNCHANGED subscription
            /\ <<id, event>> \in Keyed
            /\ \/ \E b : event = <<"fault", b>>
               \/ SweepCross(d) /\ mem[d].at = "cross" /\ event = <<"cross", mem[d].head>>
      BY <1>5, QueuedKeys
    <3> QED
      BY <3>1
  <2>2. /\ DOMAIN delivery' = DOMAIN delivery \cup {<<id, event>>}
        /\ \A o \in DOMAIN delivery : delivery'[o] = delivery[o]
        /\ <<id, event>> \notin DOMAIN delivery =>
             /\ delivery'[<<id, event>>].by = d
             /\ \A e \in Daemons : delivery'[<<id, event>>].received[e] = 0
    BY <1>1, <2>1, QueuedRow
  <2>3. CASE p \in DOMAIN delivery
    BY <1>2, <2>2, <2>3
  <2>4. CASE p \notin DOMAIN delivery
    <3>1. p = <<id, event>>
      BY <2>2, <2>4
    <3>2. p[2] = event
      BY <3>1
    <3> QED
      BY <2>1, <2>2, <2>4, <3>1, <3>2 DEF RowNew
  <2> QED
    BY <2>3, <2>4
<1>6. ASSUME NEW d \in Daemons, Post(d) PROVE RowKept(p)
  <2>1. CASE delivery' = delivery
    BY <1>2, <2>1
  <2>2. ASSUME NEW lost \in BOOLEAN, Receive(d, mem[d].row, lost) PROVE RowKept(p)
    <3> DEFINE o == mem[d].row
    <3>1. /\ SameRows
          /\ \A i \in DOMAIN delivery : i # o => delivery'[i] = delivery[i]
          /\ o \in DOMAIN delivery =>
               /\ \A e \in Daemons : e # d => delivery'[o].received[e] = delivery[o].received[e]
               /\ delivery[o].lost \subseteq delivery'[o].lost
               /\ delivery'[o].delivered = delivery[o].delivered /\ delivery'[o].by = delivery[o].by
      <4>1. Receive(d, o, lost)
        BY <2>2
      <4> HIDE DEF o
      <4> QED
        BY <1>1, <4>1, RowsReceived
    <3>2. p \in DOMAIN delivery
      BY <3>1 DEF SameRows
    <3> HIDE DEF o
    <3> QED
      BY <1>2, <1>6, <3>1, <3>2 DEF RowKept
  <2>3. TRUE \in BOOLEAN /\ FALSE \in BOOLEAN
    OBVIOUS
  <2> QED
    BY <1>6, <2>1, <2>2, <2>3 DEF Post
<1>7. ASSUME NEW d \in Daemons, RecordOk(d) PROVE RowKept(p)
  <2> DEFINE o == mem[d].row
  <2>1. delivery' = MarkDelivered(o)
    BY <1>7 DEF RecordOk
  <2> HIDE DEF o
  <2>2. /\ SameRows
        /\ \A i \in DOMAIN delivery : i # o => delivery'[i] = delivery[i]
        /\ o \in DOMAIN delivery =>
             /\ delivery'[o].delivered /\ delivery'[o].received = delivery[o].received
             /\ delivery'[o].lost = delivery[o].lost /\ delivery'[o].by = delivery[o].by
    BY <1>1, <2>1, RowsMarked
  <2>3. p \in DOMAIN delivery
    BY <2>2 DEF SameRows
  <2> QED
    BY <1>2, <2>2, <2>3 DEF RowKept
<1>8. ASSUME NEW d \in Daemons, Throws(d) \/ Crash(d) PROVE RowKept(p)
  <2>1. /\ SameRows
        /\ \A o \in DOMAIN delivery :
             /\ delivery'[o].delivered = delivery[o].delivered /\ delivery'[o].by = delivery[o].by
             /\ delivery'[o].received = delivery[o].received
             /\ delivery[o].lost \subseteq delivery'[o].lost
    BY <1>1, <1>8, RowsForgotten DEF Throws, Crash
  <2>2. p \in DOMAIN delivery
    BY <2>1 DEF SameRows
  <2> QED
    BY <2>1, <2>2 DEF RowKept
<1>9. CASE \E d \in Daemons : QueueEvent(d) \/ SweepCross(d)
  BY <1>3, <1>5, <1>9
<1>10. CASE \E d \in Daemons : Post(d) \/ RecordOk(d) \/ Throws(d) \/ Crash(d)
  BY <1>6, <1>7, <1>8, <1>10
<1>11. CASE \E q \in Requests : Apply(q)
  BY <1>4, <1>11
<1> QED
  BY <1>3, <1>9, <1>10, <1>11
     DEF Next, Block, Burn, ApplyFails, Pass, Boot, SelectLive, SkipToHead, ReadHead, ReadLogs,
         Followed, FollowedTo, SaveCursor, SweepBlock, SweepScore, SweepPrevious, SweepStore, Pick, Claim,
         ResetFailures, RecordFailure, vars, tables, history

LEMMA PostInvInit == Init => PostInv
<1> SUFFICES ASSUME Init PROVE PostInv
  OBVIOUS
<1>1. DOMAIN delivery = {} /\ \A d \in Daemons : mem[d].at = "down"
  BY DEF Init, Asleep
<1> QED
  BY <1>1 DEF PostInv

\* What an alert stands at with one daemon, before and after a step.
Posted(p, d) ==
    \/ delivery[p].received[d] = 0 \/ d \in delivery[p].lost
    \/ /\ delivery[p].received[d] = 1
       /\ delivery[p].delivered \/ (mem[d].at = "ok" /\ mem[d].row = p)
PostedThen(p, d) ==
    \/ delivery'[p].received[d] = 0 \/ d \in delivery'[p].lost
    \/ /\ delivery'[p].received[d] = 1
       /\ delivery'[p].delivered \/ (mem'[d].at = "ok" /\ mem'[d].row = p)

\* A daemon's own post.
LEMMA PostKeeps ==
    ASSUME ServiceInv, PostInv, [Next]_vars, NEW d \in Daemons, Post(d), NEW p \in DOMAIN delivery'
    PROVE  PostedThen(p, d)
<1>1. TablesType /\ mem[d].at = "post" /\ mem'[d].at \in {"ok", "bad"}
  BY PhaseAfter DEF Post, ServiceInv
<1>2. \A o \in DOMAIN delivery :
        \/ delivery[o].received[d] = 0 \/ d \in delivery[o].lost
        \/ delivery[o].received[d] = 1 /\ delivery[o].delivered
  BY <1>1 DEF PostInv
<1>3. ASSUME p \in DOMAIN delivery, delivery'[p] = delivery[p] PROVE PostedThen(p, d)
  BY <1>2, <1>3 DEF PostedThen
<1>4. CASE delivery' = delivery
  BY <1>3, <1>4
<1>5. ASSUME NEW lost \in BOOLEAN, Receive(d, mem[d].row, lost), lost \/ Goto(d, "ok")
      PROVE  PostedThen(p, d)
  <2> DEFINE o == mem[d].row
  <2>1. /\ SameRows
        /\ \A i \in DOMAIN delivery : i # o => delivery'[i] = delivery[i]
        /\ o \in DOMAIN delivery =>
             /\ delivery[o].received[d] = 0 => delivery'[o].received[d] = 1
             /\ delivery[o].lost \subseteq delivery'[o].lost /\ (lost => d \in delivery'[o].lost)
    <3>1. Receive(d, o, lost)
      BY <1>5
    <3> HIDE DEF o
    <3> QED
      BY <1>1, <3>1, RowsReceived
  <2>2. p \in DOMAIN delivery
    BY <2>1 DEF SameRows
  <2>3. CASE p # o
    BY <1>3, <2>1, <2>2, <2>3
  <2>4. CASE p = o /\ lost
    BY <2>1, <2>2, <2>4 DEF PostedThen
  <2>5. CASE p = o /\ ~lost
    <3>1. mem'[d].at = "ok" /\ mem'[d].row = o
      <4>1. mem[d].row \in Keyed
        BY <1>1, MemoryFits DEF Fits
      <4>2. mem'[d] = [mem[d] EXCEPT !.at = "ok"] /\ mem[d] \in Memory
        BY <1>5, <2>5, <4>1, GotoMoves, MemoryFits DEF Phases, Fits
      <4> QED
        BY <4>2 DEF Memory
    <3>2. delivery[o].received[d] = 0 \/ d \in delivery[o].lost
      BY <1>1, <2>2, <2>5 DEF PostInv
    <3> HIDE DEF o
    <3> QED
      BY <2>1, <2>2, <2>5, <3>1, <3>2 DEF PostedThen
  <2> QED
    BY <2>3, <2>4, <2>5
<1>6. TRUE \in BOOLEAN /\ FALSE \in BOOLEAN
  OBVIOUS
<1> QED
  BY <1>4, <1>5, <1>6 DEF Post

LEMMA PostInvNext ==
    ASSUME ServiceInv, PostInv, [Next]_vars
    PROVE  PostInv'
<1>1. TablesType
  BY DEF ServiceInv
<1>2. ASSUME NEW d \in Daemons, NEW p \in DOMAIN delivery' PROVE PostedThen(p, d)
  <2>1. CASE Post(d)
    BY <2>1, PostKeeps
  <2>2. CASE RowNew(p)
    BY <2>2 DEF RowNew, PostedThen
  <2>3. CASE RowKept(p) /\ ~Post(d)
    <3>1. /\ p \in DOMAIN delivery /\ delivery'[p].received[d] = delivery[p].received[d]
          /\ delivery[p].lost \subseteq delivery'[p].lost
          /\ delivery[p].delivered => delivery'[p].delivered
      BY <2>3 DEF RowKept
    <3>2. Posted(p, d)
      BY <3>1 DEF PostInv, Posted
    <3>3. ASSUME mem[d].at = "ok", mem[d].row = p
          PROVE  delivery'[p].delivered \/ d \in delivery'[p].lost \/ mem'[d] = mem[d]
      <4>1. mem'[d] = mem[d] \/ RecordOk(d) \/ Throws(d) \/ Crash(d)
        BY <3>3, PhaseBefore
      <4>2. CASE RecordOk(d)
        <5>1. delivery' = MarkDelivered(p)
          BY <3>3, <4>2 DEF RecordOk
        <5> QED
          BY <1>1, <3>1, <5>1, RowsMarked
      <4>3. CASE Throws(d) \/ Crash(d)
        <5>1. Forgets(d)
          BY <4>3 DEF Throws, Crash
        <5> QED
          BY <1>1, <3>1, <3>3, <5>1, RowsForgotten
      <4> QED
        BY <4>1, <4>2, <4>3
    <3> QED
      BY <3>1, <3>2, <3>3 DEF Posted, PostedThen
  <2> QED
    BY <2>1, <2>2, <2>3, RowsAfter
<1>3. ASSUME NEW d \in Daemons, mem'[d].at = "post", mem'[d].row \in DOMAIN delivery'
      PROVE  delivery'[mem'[d].row].received[d] = 0 \/ d \in delivery'[mem'[d].row].lost
  <2> DEFINE p == mem'[d].row
  <2>1. ~Post(d)
    BY <1>3, PhaseAfter
  <2>2. CASE mem'[d] = mem[d]
    <3>1. p \in DOMAIN delivery => delivery[p].received[d] = 0 \/ d \in delivery[p].lost
      BY <1>3, <2>2 DEF PostInv
    <3>2. RowKept(p) \/ RowNew(p)
      BY <1>3, RowsAfter
    <3> HIDE DEF p
    <3>3. delivery'[p].received[d] = 0 \/ d \in delivery'[p].lost
      BY <2>1, <3>1, <3>2 DEF RowKept, RowNew
    <3> QED
      BY <3>3 DEF p
  <2>3. CASE Claim(d)
    <3>1. mem[d].at = "claim" /\ delivery' = delivery
      BY <2>3 DEF Claim, tables
    <3>2. p \in DOMAIN delivery /\ ~delivery[p].delivered
      BY <1>3, <2>3, ClaimAfter
    <3>3. Posted(p, d)
      BY <3>2 DEF PostInv, Posted
    <3> HIDE DEF p
    <3>4. delivery'[p].received[d] = 0 \/ d \in delivery'[p].lost
      BY <3>1, <3>2, <3>3 DEF Posted
    <3> QED
      BY <3>4 DEF p
  <2> QED
    BY <1>3, <2>2, <2>3, PhaseBefore
<1> QED
  BY <1>2, <1>3 DEF PostInv, PostedThen

\* A daemon posts an alert again only when an answer to it was lost, whatever other
\* daemons do (alerts.js, deliverPending: the claim, the post and the record of it).
THEOREM PostedAgainAlwaysForACause == Spec => []PostedAgainForACause
<1>1. PostInv /\ ServiceInv => PostedAgainForACause
  BY DEF PostInv, PostedAgainForACause
<1>2. Init => PostInv /\ ServiceInv
  BY PostInvInit, ServiceInvInit
<1>3. PostInv /\ ServiceInv /\ [Next]_vars => (PostInv /\ ServiceInv)'
  BY PostInvNext, ServiceInvNext
<1> QED
  BY <1>1, <1>2, <1>3, PTL DEF Spec

-----------------------------------------------------------------------------
(* A crossing, not a condition *)

LEMMA BlocksFinite ==
    ASSUME NEW S \in SUBSET (0 .. MaxHead)
    PROVE  IsFiniteSet(S) /\ Cardinality(S) \in Nat /\ Cardinality(S) <= MaxHead + 1
<1>1. 0 \in Int /\ MaxHead \in Int /\ MaxHead \in Nat
  BY AlertsAssumption
<1>2. IsFiniteSet(0 .. MaxHead) /\ Cardinality(0 .. MaxHead) = MaxHead + 1
  BY <1>1, FS_Interval
<1> QED
  BY <1>1, <1>2, FS_Subset, FS_CardinalityType

\* Of no more crossings, and no fewer sightings above the threshold.
LEMMA Fewer ==
    ASSUME NEW S \in SUBSET (0 .. MaxHead), NEW T \in SUBSET S,
           NEW n \in 0 .. MaxHead + 1, NEW m \in 0 .. MaxHead + 1, n <= m
    PROVE  /\ AtMost(S, n) => AtMost(T, m)
           /\ Spare(S, n) => Spare(T, m)
           /\ AtMost(S, n) /\ n < m => Spare(T, m)
<1>1. IsFiniteSet(S) /\ Cardinality(S) \in Nat /\ Cardinality(T) \in Nat /\ MaxHead \in Nat
  BY BlocksFinite, AlertsAssumption
<1>2. Cardinality(T) <= Cardinality(S)
  BY <1>1, FS_Subset
<1> QED
  BY <1>1, <1>2 DEF AtMost, Spare

\* One more crossing, where there was one to spare.
LEMMA OneMore ==
    ASSUME NEW S \in SUBSET (0 .. MaxHead), NEW h \in 0 .. MaxHead, NEW n \in 0 .. MaxHead + 1,
           Spare(S, n)
    PROVE  AtMost(S \cup {h}, n)
<1>1. /\ IsFiniteSet(S) /\ Cardinality(S) \in Nat /\ MaxHead \in Nat
      /\ Cardinality(S \cup {h}) \in Nat /\ Cardinality(S \cup {h}) <= MaxHead + 1
  <2>1. S \cup {h} \in SUBSET (0 .. MaxHead)
    OBVIOUS
  <2> QED
    BY <2>1, BlocksFinite, AlertsAssumption
<1>2. Cardinality(S \cup {h}) = Cardinality(S) \/ Cardinality(S \cup {h}) = Cardinality(S) + 1
  BY <1>1, FS_AddElement
<1> QED
  BY <1>1, <1>2 DEF AtMost, Spare

LEMMA CrossInvInit == Init => CrossInv
<1> SUFFICES ASSUME Init PROVE CrossInv
  OBVIOUS
<1>1. /\ DOMAIN delivery = {} /\ \A d \in Daemons : mem[d].at = "down"
      /\ highs = 0 /\ agentState = NoRow
  BY DEF Init, Asleep
<1>2. \A id \in Ids, d \in Daemons : Announcing(id, d) = {}
  BY <1>1 DEF Announcing, Announced
<1>3. AtMost({}, highs)
  BY <1>1, FS_EmptySet DEF AtMost
<1> QED
  BY <1>1, <1>2, <1>3 DEF CrossInv, NoRow

\* What is announced after a step.
AnnouncedThen(id, d) == {h \in 0 .. MaxHead : /\ <<id, <<"cross", h>>>> \in DOMAIN delivery'
                                             /\ delivery'[<<id, <<"cross", h>>>>].by = d}
AnnouncingThen(id, d) == AnnouncedThen(id, d) \cup (IF mem'[d].at = "cross" THEN {mem'[d].head} ELSE {})

\* A crossing is announced by the sweep that was about to.
LEMMA Announcements ==
    ASSUME ServiceInv, [Next]_vars, NEW id \in Ids, NEW d \in Daemons
    PROVE  AnnouncedThen(id, d) \subseteq Announcing(id, d)
<1> SUFFICES ASSUME NEW h \in AnnouncedThen(id, d) PROVE h \in Announcing(id, d)
  OBVIOUS
<1> DEFINE p == <<id, <<"cross", h>>>>
<1>1. h \in 0 .. MaxHead /\ p \in DOMAIN delivery' /\ delivery'[p].by = d
  BY DEF AnnouncedThen
<1>2. CASE RowKept(p)
  BY <1>1, <1>2 DEF RowKept, Announcing, Announced
<1>3. CASE RowNew(p)
  <2>1. \A b : <<"cross", h>> # <<"fault", b>>
    OBVIOUS
  <2>2. p[2] = <<"cross", h>>
    OBVIOUS
  <2>3. mem[d].at = "cross" /\ <<"cross", h>> = <<"cross", mem[d].head>>
    BY <1>1, <1>3, <2>1, <2>2 DEF RowNew
  <2> QED
    BY <2>3 DEF Announcing
<1> QED
  BY <1>1, <1>2, <1>3, RowsAfter

LEMMA CrossInvNext ==
    ASSUME ServiceInv, CrossInv, [Next]_vars
    PROVE  CrossInv'
<1>1. /\ mem \in [Daemons -> Memory] /\ MaxHead \in Nat
      /\ highs \in 0 .. MaxHead + 1 /\ highs' \in 0 .. MaxHead + 1
  BY AlertsAssumption, TablesKeepType DEF ServiceInv, MemoryType, TablesType
\* A state above the threshold is stored by a sweep that saw it so, and counts it.
<1>2. /\ highs <= highs'
      /\ \/ UNCHANGED <<agentState, highs>>
         \/ \E d \in Daemons :
              /\ SweepStore(d) /\ agentState' = mem[d].score
              /\ mem[d].score = "high" => highs < highs' \/ highs' = MaxHead + 1
  <2>1. CASE UNCHANGED <<agentState, highs>>
    BY <1>1, <2>1
  <2>2. ASSUME NEW d \in Daemons, SweepStore(d), agentState' = mem[d].score,
               highs' = IF mem[d].score = "high" /\ highs <= MaxHead THEN highs + 1 ELSE highs
        PROVE  /\ highs <= highs'
               /\ mem[d].score = "high" => highs < highs' \/ highs' = MaxHead + 1
    BY <1>1, <2>2
  <2>3. ASSUME NEW d \in Daemons, Pass(d) \/ Throws(d) \/ Crash(d)
        PROVE  \/ UNCHANGED <<agentState, highs>>
               \/ /\ SweepStore(d) /\ agentState' = mem[d].score
                  /\ highs' = IF mem[d].score = "high" /\ highs <= MaxHead THEN highs + 1 ELSE highs
    BY <2>3, DaemonWrites
  <2>4. Block => UNCHANGED <<agentState, highs>>
    BY DEF Block, tables
  <2> QED
    BY <2>1, <2>2, <2>3, <2>4, StepKinds
<1> SUFFICES ASSUME NEW id \in Ids, NEW d \in Daemons
             PROVE  /\ AtMost(AnnouncingThen(id, d), highs')
                    /\ agentState' = "high" => Spare(AnnouncingThen(id, d), highs')
                    /\ mem'[d].at = "store" /\ mem'[d].prev = "high" => Spare(AnnouncedThen(id, d), highs')
  BY DEF CrossInv, AnnouncingThen, AnnouncedThen, Announcing, Announced, Spare, AtMost
<1>3. /\ mem[d].head \in 0 .. MaxHead
      /\ Announced(id, d) \in SUBSET (0 .. MaxHead) /\ Announcing(id, d) \in SUBSET (0 .. MaxHead)
      /\ AnnouncedThen(id, d) \in SUBSET Announcing(id, d)
      /\ mem[d].at # "cross" => AnnouncedThen(id, d) \in SUBSET Announced(id, d)
  <2>1. mem[d].head \in 0 .. MaxHead
    BY <1>1 DEF Memory
  <2> QED
    BY <2>1, Announcements DEF Announced, Announcing
<1>4. /\ AtMost(Announcing(id, d), highs)
      /\ agentState = "high" => Spare(Announcing(id, d), highs)
      /\ mem[d].at = "store" /\ mem[d].prev = "high" => Spare(Announced(id, d), highs)
  BY DEF CrossInv
\* Either the daemon starts to announce a crossing, and stores the state below the
\* threshold, or it announces no more than it was announcing.
<1>5. \/ AnnouncingThen(id, d) \in SUBSET Announcing(id, d)
      \/ /\ mem[d].at = "store" /\ mem[d].prev = "high" /\ agentState' = "low"
         /\ AnnouncingThen(id, d) \in SUBSET (Announced(id, d) \cup {mem[d].head})
  <2>1. CASE mem'[d].at # "cross"
    BY <1>3, <2>1 DEF AnnouncingThen
  <2>2. CASE mem'[d].at = "cross" /\ mem'[d] = mem[d]
    BY <1>3, <2>2 DEF AnnouncingThen, Announcing
  <2>3. CASE mem'[d].at = "cross" /\ mem'[d] # mem[d]
    <3>1. SweepStore(d) /\ mem[d].at = "store"
      BY <2>3, PhaseBefore DEF SweepStore
    <3>2. /\ mem[d].prev = "high" /\ mem[d].score = "low" /\ Goto(d, "cross")
      BY <2>3, <3>1, TurnMoves DEF SweepStore
    <3>3. mem'[d].head = mem[d].head
      BY <1>1, <3>2 DEF Goto, Enter, Memory
    <3>4. agentState' = "low"
      BY <3>1, <3>2 DEF SweepStore, Stored
    <3> QED
      BY <1>3, <3>1, <3>2, <3>3, <3>4 DEF AnnouncingThen
  <2> QED
    BY <2>1, <2>2, <2>3
<1>6. AtMost(AnnouncingThen(id, d), highs')
  <2>1. CASE AnnouncingThen(id, d) \in SUBSET Announcing(id, d)
    BY <1>1, <1>2, <1>3, <1>4, <2>1, Fewer
  <2>2. CASE /\ mem[d].at = "store" /\ mem[d].prev = "high"
             /\ AnnouncingThen(id, d) \in SUBSET (Announced(id, d) \cup {mem[d].head})
    <3>1. AtMost(Announced(id, d) \cup {mem[d].head}, highs)
      BY <1>1, <1>3, <1>4, <2>2, OneMore
    <3>2. Announced(id, d) \cup {mem[d].head} \in SUBSET (0 .. MaxHead)
      BY <1>3
    <3> QED
      BY <1>1, <1>2, <2>2, <3>1, <3>2, Fewer
  <2> QED
    BY <1>5, <2>1, <2>2
<1>7. ASSUME agentState' = "high" PROVE Spare(AnnouncingThen(id, d), highs')
  <2>1. AnnouncingThen(id, d) \in SUBSET Announcing(id, d)
    BY <1>5, <1>7
  <2>2. CASE UNCHANGED <<agentState, highs>>
    BY <1>1, <1>2, <1>3, <1>4, <1>7, <2>1, <2>2, Fewer
  <2>3. CASE highs < highs'
    BY <1>1, <1>2, <1>3, <1>4, <2>1, <2>3, Fewer
  <2>4. CASE highs' = MaxHead + 1
    BY <2>4 DEF Spare
  <2> QED
    BY <1>2, <1>7, <2>2, <2>3, <2>4
<1>8. ASSUME mem'[d].at = "store", mem'[d].prev = "high" PROVE Spare(AnnouncedThen(id, d), highs')
  <2>1. CASE mem'[d] = mem[d]
    BY <1>1, <1>2, <1>3, <1>4, <1>8, <2>1, Fewer
  <2>2. CASE mem'[d] # mem[d]
    <3>1. agentState = "high"
      BY <1>8, <2>2, PhaseBefore, PhaseAfter
    <3> QED
      BY <1>1, <1>2, <1>3, <1>4, <3>1, Fewer
  <2> QED
    BY <2>1, <2>2
<1> QED
  BY <1>6, <1>7, <1>8

\* A daemon announces no more crossings to a subscription than sweeps have read the
\* score above the threshold: of a standing score it announces one (alerts.js,
\* sweepScores, which stores the state it read before it queues what crossed).
THEOREM CrossingAlwaysNotCondition == Spec => []CrossingNotCondition
<1>1. CrossInv /\ ServiceInv => CrossingNotCondition
  <2> SUFFICES ASSUME CrossInv, ServiceInv, NEW id \in Ids, NEW d \in Daemons
               PROVE  Cardinality(Announced(id, d)) <= highs
    BY DEF CrossingNotCondition, Announced
  <2>1. AtMost(Announcing(id, d), highs)
    BY DEF CrossInv
  <2>2. Announcing(id, d) \in SUBSET (0 .. MaxHead) /\ Announced(id, d) \in SUBSET Announcing(id, d)
    BY MemoryFits DEF Announcing, Announced, Fits, Memory
  <2>3. highs \in 0 .. MaxHead + 1 /\ highs <= highs
    BY AlertsAssumption DEF ServiceInv, TablesType
  <2>4. AtMost(Announced(id, d), highs)
    BY <2>1, <2>2, <2>3, Fewer
  <2> QED
    BY <2>4 DEF AtMost
<1>2. Init => CrossInv /\ ServiceInv
  BY CrossInvInit, ServiceInvInit
<1>3. CrossInv /\ ServiceInv /\ [Next]_vars => (CrossInv /\ ServiceInv)'
  BY CrossInvNext, ServiceInvNext
<1> QED
  BY <1>1, <1>2, <1>3, PTL DEF Spec

-----------------------------------------------------------------------------
(* The explorer's pages                                                   *)

\* The ways of a request: where it stands, and the events emitted for it so far.
Histories ==
    {<<"None", {}>>, <<"Pending", {"Requested"}>>, <<"Expired", {"Requested", "Expired"}>>,
     <<"Rejected", {"Requested", "Rejected"}>>, <<"Delivered", {"Requested", "Delivered"}>>,
     <<"Finalized", {"Requested", "Delivered", "Finalized"}>>,
     <<"Settled", {"Requested", "Delivered", "Finalized", "Settled"}>>,
     <<"Challenged", {"Requested", "Delivered", "Challenged"}>>,
     <<"Faulted", {"Requested", "Delivered", "Challenged", "Faulted"}>>,
     <<"Finalized", {"Requested", "Delivered", "Challenged", "Resolved", "Finalized"}>>,
     <<"Settled", {"Requested", "Delivered", "Challenged", "Resolved", "Finalized", "Settled"}>>}

Transactions ==
    {[request |-> r, status |-> t[2], events |-> t[3]] : r \in Executions, t \in Transitions}

Emitted(log, h, r) == UNION {log[i].events : i \in About(log, h, r)}

\* A log is of legal transactions, and at every height a request is where what was
\* emitted for it says.
LegalLog(log) ==
    /\ log \in Seq(Transactions)
    /\ \A h \in 0 .. Len(log), r \in Executions :
         <<Status(log, h, r), Emitted(log, h, r)>> \in Histories

LogsInv == DOMAIN logs = Networks /\ \A n \in Networks : LegalLog(logs[n])

\* A read of this generation is of this view, and the only one; while the next is
\* scheduled there is none.
ReadsInv ==
    /\ view \in Views /\ generation \in Nat \ {0} /\ timer \in BOOLEAN
    /\ \A q \in reads :
         /\ q.view \in Views /\ q.generation \in 1 .. generation /\ q.head \in Nat
         /\ IsMine(q) => q.view = view /\ q.head <= Len(logs[view[1]]) /\ timer = FALSE
    /\ \A q, p \in reads : IsMine(q) /\ IsMine(p) => q = p

\* What the page shows is the fold of logs of this view, up to a head that the
\* router has reached.
DataInv ==
    /\ data = {} \/ \E d : data = {d}
    /\ \A d \in data :
         /\ d.read.view = view /\ d.read.head \in 0 .. Len(logs[view[1]])
         /\ d.rows = Fold(Arrived(logs[view[1]], d.read.head, d.lost), view[2])

PageInv == LogsInv /\ ReadsInv /\ DataInv

-----------------------------------------------------------------------------
(* The fold *)

LEMMA RankIs ==
    /\ Rank("Pending") = 1 /\ Rank("Delivered") = 2 /\ Rank("Challenged") = 3
    /\ Rank("Finalized") = 4 /\ Rank("Settled") = 5 /\ Rank("Expired") = 6
    /\ Rank("Faulted") = 7
<1>1. ASSUME NEW i \in 1 .. 7, NEW j \in 1 .. 7, STATUS_ORDER[i] = STATUS_ORDER[j]
      PROVE  i = j
  BY <1>1 DEF STATUS_ORDER
<1>2. DOMAIN STATUS_ORDER = 1 .. 7
  BY DEF STATUS_ORDER
<1>3. ASSUME NEW i \in 1 .. 7 PROVE Rank(STATUS_ORDER[i]) = i
  <2> DEFINE s == STATUS_ORDER[i]
  <2>1. \A j \in 1 .. 7 : STATUS_ORDER[j] = s <=> j = i
    BY <1>1
  <2>2. Rank(s) = CHOOSE j \in 1 .. 7 : STATUS_ORDER[j] = s
    BY <1>2 DEF Rank
  <2> HIDE DEF s
  <2> QED
    BY <2>1, <2>2 DEF s
<1>4. /\ STATUS_ORDER[1] = "Pending" /\ STATUS_ORDER[2] = "Delivered"
      /\ STATUS_ORDER[3] = "Challenged" /\ STATUS_ORDER[4] = "Finalized"
      /\ STATUS_ORDER[5] = "Settled" /\ STATUS_ORDER[6] = "Expired"
      /\ STATUS_ORDER[7] = "Faulted"
  BY DEF STATUS_ORDER
<1>5. /\ 1 \in 1 .. 7 /\ 2 \in 1 .. 7 /\ 3 \in 1 .. 7 /\ 4 \in 1 .. 7
      /\ 5 \in 1 .. 7 /\ 6 \in 1 .. 7 /\ 7 \in 1 .. 7
  OBVIOUS
<1> QED
  BY <1>3, <1>4, <1>5

LEMMA StatusesAre ==
    Statuses = {"Pending", "Delivered", "Challenged", "Finalized", "Settled",
                     "Expired", "Faulted"}
<1>1. DOMAIN STATUS_ORDER = 1 .. 7
  BY DEF STATUS_ORDER
<1>2. /\ STATUS_ORDER[1] = "Pending" /\ STATUS_ORDER[2] = "Delivered"
      /\ STATUS_ORDER[3] = "Challenged" /\ STATUS_ORDER[4] = "Finalized"
      /\ STATUS_ORDER[5] = "Settled" /\ STATUS_ORDER[6] = "Expired"
      /\ STATUS_ORDER[7] = "Faulted"
  BY DEF STATUS_ORDER
<1>3. \A i \in 1 .. 7 : i \in {1, 2, 3, 4, 5, 6, 7}
  OBVIOUS
<1>4. Statuses = {STATUS_ORDER[i] : i \in {1, 2, 3, 4, 5, 6, 7}}
  BY <1>1, <1>3 DEF Statuses
<1> QED
  BY <1>2, <1>4

LEMMA FurthestIs ==
    ASSUME NEW S \in SUBSET Statuses, NEW s \in S, \A o \in S : Rank(o) <= Rank(s)
    PROVE  Furthest(S) = s
<1>1. \A o \in S : Rank(o) \in Nat /\ (Rank(o) = Rank(s) => o = s)
  BY RankIs, StatusesAre
<1>2. \A o \in S : (\A p \in S : Rank(p) <= Rank(o)) <=> o = s
  BY <1>1
<1> QED
  BY <1>2 DEF Furthest

LEMMA FurthestExists ==
    ASSUME NEW S \in SUBSET Statuses, S # {}
    PROVE  Furthest(S) \in S /\ \A o \in S : Rank(o) <= Rank(Furthest(S))
<1>1. \E s \in S : \A o \in S : Rank(o) <= Rank(s)
  <2>1. CASE "Faulted" \in S
    BY <2>1, RankIs, StatusesAre
  <2>2. CASE "Expired" \in S /\ "Faulted" \notin S
    BY <2>2, RankIs, StatusesAre
  <2>3. CASE "Settled" \in S /\ S \cap {"Expired", "Faulted"} = {}
    BY <2>3, RankIs, StatusesAre
  <2>4. CASE "Finalized" \in S /\ S \cap {"Settled", "Expired", "Faulted"} = {}
    BY <2>4, RankIs, StatusesAre
  <2>5. CASE "Challenged" \in S /\ S \subseteq {"Pending", "Delivered", "Challenged"}
    BY <2>5, RankIs
  <2>6. CASE "Delivered" \in S /\ S \subseteq {"Pending", "Delivered"}
    BY <2>6, RankIs
  <2>7. CASE S \subseteq {"Pending"}
    <3>1. S = {"Pending"}
      BY <2>7
    <3> QED
      BY <3>1, RankIs
  <2> QED
    BY <2>1, <2>2, <2>3, <2>4, <2>5, <2>6, <2>7, StatusesAre
<1> QED
  BY <1>1 DEF Furthest

\* What the fold makes of all the events of a request.
LEMMA AdvanceIsExact ==
    ASSUME NEW status, NEW events, <<status, events>> \in Histories, status # "None"
    PROVE  Advance(events) = IF status = "Rejected" THEN "Pending" ELSE status
<1> DEFINE S == (events \cap Statuses) \cup {"Pending"}
<1>1. S \in SUBSET Statuses
  BY StatusesAre
<1> DEFINE s == IF status = "Rejected" THEN "Pending" ELSE status
<1>2. s \in S /\ \A o \in S : Rank(o) <= Rank(s)
  <2>1. CASE status \in {"Pending", "Rejected"}
    <3>1. events \in {{"Requested"}, {"Requested", "Rejected"}}
      BY <2>1 DEF Histories
    <3>2. S = {"Pending"}
      BY <3>1, StatusesAre
    <3> QED
      BY <2>1, <3>2, RankIs
  <2>2. CASE status = "Expired"
    <3>1. S = {"Pending", "Expired"}
      BY <2>2, StatusesAre DEF Histories
    <3> QED
      BY <2>2, <3>1, RankIs
  <2>3. CASE status = "Delivered"
    <3>1. S = {"Pending", "Delivered"}
      BY <2>3, StatusesAre DEF Histories
    <3> QED
      BY <2>3, <3>1, RankIs
  <2>4. CASE status = "Finalized"
    <3>1. "Finalized" \in S /\ S \subseteq {"Pending", "Delivered", "Challenged", "Finalized"}
      BY <2>4, StatusesAre DEF Histories
    <3> QED
      BY <2>4, <3>1, RankIs
  <2>5. CASE status = "Settled"
    <3>1. /\ "Settled" \in S
          /\ S \subseteq {"Pending", "Delivered", "Challenged", "Finalized", "Settled"}
      BY <2>5, StatusesAre DEF Histories
    <3> QED
      BY <2>5, <3>1, RankIs
  <2>6. CASE status = "Challenged"
    <3>1. S = {"Pending", "Delivered", "Challenged"}
      BY <2>6, StatusesAre DEF Histories
    <3> QED
      BY <2>6, <3>1, RankIs
  <2>7. CASE status = "Faulted"
    <3>1. S = {"Pending", "Delivered", "Challenged", "Faulted"}
      BY <2>7, StatusesAre DEF Histories
    <3> QED
      BY <2>7, <3>1, RankIs
  <2> QED
    BY <2>1, <2>2, <2>3, <2>4, <2>5, <2>6, <2>7 DEF Histories
<1> HIDE DEF S, s
<1>3. Furthest(S) = s
  BY <1>1, <1>2, FurthestIs
<1> QED
  BY <1>3 DEF Advance, S, s

\* What it makes of the events of some transactions, whichever were lost: a status
\* one of them set.
LEMMA AdvanceIsSomeStatus ==
    ASSUME NEW T \in SUBSET Transactions
    PROVE  /\ Advance(UNION {tx.events : tx \in T}) \in {tx.status : tx \in T} \cup {"Pending"}
           /\ Advance(UNION {tx.events : tx \in T}) \in Statuses
<1> DEFINE E == UNION {tx.events : tx \in T}
           S == (E \cap Statuses) \cup {"Pending"}
           s == Furthest(S)
<1>1. S \in SUBSET Statuses /\ S # {}
  BY StatusesAre
<1> HIDE DEF S
<1>2. s \in S /\ \A o \in S : Rank(o) <= Rank(s)
  BY <1>1, FurthestExists
<1>3. Advance(E) = s
  BY DEF Advance, S
<1>4. CASE s = "Pending"
  BY <1>3, <1>4, StatusesAre
<1>5. ASSUME s # "Pending" PROVE s \in {tx.status : tx \in T} /\ s \in Statuses
  <2>1. s \in E /\ s \in Statuses
    BY <1>2, <1>5 DEF S
  <2> HIDE DEF s
  <2>2. PICK tx \in T : s \in tx.events
    BY <2>1
  <2>3. PICK r \in Executions, t \in Transitions :
          tx = [request |-> r, status |-> t[2], events |-> t[3]]
    BY DEF Transactions
  <2>4. s \in t[3] \cap Statuses
    BY <2>1, <2>2, <2>3
  <2>5. t[2] \in t[3] /\ t[2] \in Statuses /\ Rank(s) <= Rank(t[2])
    <3>1. CASE t[3] = {"Finalized", "Delivered"} \/ t[3] = {"Resolved", "Finalized"}
      <4>1. t[2] = "Finalized" /\ t[2] \in t[3]
        BY <3>1 DEF Transitions
      <4>2. s \in {"Finalized", "Delivered"}
        BY <2>4, <3>1, StatusesAre
      <4> QED
        BY <4>1, <4>2, RankIs, StatusesAre
    <3>2. CASE t[3] = {t[2]}
      <4>1. s = t[2]
        BY <2>4, <3>2
      <4>2. Rank(s) \in Nat
        BY <2>4, RankIs, StatusesAre
      <4> QED
        BY <2>4, <3>2, <4>1, <4>2
    <3>3. CASE t[3] = {"Requested"}
      BY <2>4, <3>3, StatusesAre
    <3> QED
      BY <3>1, <3>2, <3>3 DEF Transitions
  <2>6. t[2] \in E
    BY <2>3, <2>5
  <2>7. t[2] \in S
    BY <2>5, <2>6 DEF S
  <2>8. Rank(t[2]) <= Rank(s)
    BY <1>2, <2>7 DEF s
  <2>9. s = t[2]
    BY <2>1, <2>5, <2>8, RankIs, StatusesAre
  <2> QED
    BY <2>1, <2>3, <2>9
<1> QED
  BY <1>3, <1>4, <1>5, StatusesAre

-----------------------------------------------------------------------------
(* The logs only grow *)

\* What was true of a log up to a height stays true of it.
Grows(old, new) ==
    /\ Len(old) <= Len(new)
    /\ \A i \in 1 .. Len(old) : new[i] = old[i]

LEMMA AppendGrows ==
    ASSUME NEW old \in Seq(Transactions), NEW tx \in Transactions
    PROVE  /\ Append(old, tx) \in Seq(Transactions) /\ Grows(old, Append(old, tx))
           /\ Len(Append(old, tx)) = Len(old) + 1 /\ Append(old, tx)[Len(old) + 1] = tx
BY DEF Grows

LEMMA LastExists ==
    ASSUME NEW h \in Nat, NEW I \in SUBSET (1 .. h), I # {}
    PROVE  \E i \in I : \A j \in I : j <= i
<1> DEFINE Down == {n \in Nat : h - n \in I}
<1>1. Down # {} /\ Down \in SUBSET Nat
  <2>1. PICK i \in I : TRUE
    OBVIOUS
  <2>2. h - i \in Nat /\ h - (h - i) = i
    OBVIOUS
  <2> QED
    BY <2>1, <2>2
<1>2. PICK n \in Down : \A m \in Down : n <= m
  <2> DEFINE R == OpToRel(<, Nat)
  <2>1. \A m, k \in Nat : <<m, k>> \in R <=> m < k
    BY DEF OpToRel
  <2>2. IsWellFoundedOn(R, Nat)
    BY NatLessThanWellFounded
  <2> HIDE DEF R, Down
  <2>3. \E n \in Down : \A m \in Down : ~(<<m, n>> \in R)
    BY <1>1, <2>2, WFMin
  <2>4. \A n, m \in Down : ~(m < n) => n <= m
    BY <1>1
  <2> QED
    BY <1>1, <2>1, <2>3, <2>4
<1>3. ASSUME NEW j \in I PROVE j <= h - n
  <2>1. h - j \in Nat /\ h - (h - j) = j
    OBVIOUS
  <2>2. h - j \in Down
    BY <2>1
  <2>3. n <= h - j
    BY <1>2, <2>2
  <2> QED
    BY <2>1, <2>3
<1>4. h - n \in I
  OBVIOUS
<1> QED
  BY <1>3, <1>4

LEMMA GrowsKeeps ==
    ASSUME NEW old \in Seq(Transactions), NEW new \in Seq(Transactions), Grows(old, new),
           NEW h \in 0 .. Len(old)
    PROVE  /\ h \in 0 .. Len(new)
           /\ \A r : About(new, h, r) = About(old, h, r)
           /\ \A r : Status(new, h, r) = Status(old, h, r)
           /\ \A r : Emitted(new, h, r) = Emitted(old, h, r)
           /\ \A lost : Arrived(new, h, lost) = Arrived(old, h, lost)
<1>1. /\ Len(old) \in Nat /\ Len(new) \in Nat /\ h \in 0 .. Len(new)
      /\ \A i \in 1 .. h : new[i] = old[i]
  BY DEF Grows
<1>2. ASSUME NEW r PROVE About(new, h, r) = About(old, h, r)
  BY <1>1 DEF About
<1>3. ASSUME NEW r PROVE Status(new, h, r) = Status(old, h, r)
  <2> DEFINE I == About(old, h, r)
             last == CHOOSE i \in I : \A j \in I : j <= i
  <2>1. CASE I = {}
    BY <1>2, <2>1 DEF Status
  <2>2. CASE I # {}
    <3>1. \E i \in I : \A j \in I : j <= i
      <4>1. I \in SUBSET (1 .. h) /\ h \in Nat
        BY <1>1 DEF About
      <4> HIDE DEF I
      <4> QED
        BY <2>2, <4>1, LastExists
    <3>2. last \in 1 .. h
      <4>1. last \in I
        BY <3>1
      <4> QED
        BY <4>1 DEF About
    <3>3. Status(old, h, r) = old[last].status /\ Status(new, h, r) = new[last].status
      BY <1>2, <2>2 DEF Status
    <3> QED
      BY <1>1, <3>2, <3>3
  <2> QED
    BY <2>1, <2>2
<1>4. ASSUME NEW r PROVE Emitted(new, h, r) = Emitted(old, h, r)
  <2>1. About(new, h, r) = About(old, h, r) /\ About(old, h, r) \subseteq 1 .. h
    BY <1>2 DEF About
  <2> QED
    BY <1>1, <2>1 DEF Emitted
<1>5. ASSUME NEW lost PROVE Arrived(new, h, lost) = Arrived(old, h, lost)
  BY <1>1 DEF Arrived
<1> QED
  BY <1>1, <1>2, <1>3, <1>4, <1>5

\* A transaction takes a history to a history.
LEMMA NextHistory ==
    ASSUME NEW t \in Transitions, NEW events, <<t[1], events>> \in Histories
    PROVE  <<t[2], events \cup t[3]>> \in Histories
<1>1. CASE t[1] = "None"
  <2>1. events = {} /\ t[2] = "Pending" /\ t[3] = {"Requested"}
    BY <1>1 DEF Transitions, Histories
  <2> QED
    BY <2>1 DEF Histories
<1>2. CASE t[1] = "Pending"
  <2>1. events = {"Requested"}
    BY <1>2 DEF Histories
  <2>2. \/ t[2] = "Delivered" /\ t[3] = {"Delivered"}
        \/ t[2] = "Finalized" /\ t[3] = {"Finalized", "Delivered"}
        \/ t[2] = "Expired" /\ t[3] = {"Expired"}
        \/ t[2] = "Rejected" /\ t[3] = {"Rejected"}
    BY <1>2 DEF Transitions
  <2> QED
    BY <2>1, <2>2 DEF Histories
<1>3. CASE t[1] = "Delivered"
  <2>1. events = {"Requested", "Delivered"}
    BY <1>3 DEF Histories
  <2>2. \/ t[2] = "Challenged" /\ t[3] = {"Challenged"}
        \/ t[2] = "Finalized" /\ t[3] = {"Finalized"}
    BY <1>3 DEF Transitions
  <2> QED
    BY <2>1, <2>2 DEF Histories
<1>4. CASE t[1] = "Challenged"
  <2>1. events = {"Requested", "Delivered", "Challenged"}
    BY <1>4 DEF Histories
  <2>2. \/ t[2] = "Finalized" /\ t[3] = {"Resolved", "Finalized"}
        \/ t[2] = "Faulted" /\ t[3] = {"Faulted"}
    BY <1>4 DEF Transitions
  <2> QED
    BY <2>1, <2>2 DEF Histories
<1>5. CASE t[1] = "Finalized"
  <2>1. \/ events = {"Requested", "Delivered", "Finalized"}
        \/ events = {"Requested", "Delivered", "Challenged", "Resolved", "Finalized"}
    BY <1>5 DEF Histories
  <2>2. t[2] = "Settled" /\ t[3] = {"Settled"}
    BY <1>5 DEF Transitions
  <2> QED
    BY <2>1, <2>2 DEF Histories
<1> QED
  BY <1>1, <1>2, <1>3, <1>4, <1>5 DEF Transitions

\* A legal transaction on top of a legal log.
LEMMA AppendIsLegal ==
    ASSUME NEW old, LegalLog(old), NEW r \in Executions, NEW t \in Transitions,
           t[1] = Status(old, Len(old), r)
    PROVE  LegalLog(Append(old, [request |-> r, status |-> t[2], events |-> t[3]]))
<1> DEFINE tx == [request |-> r, status |-> t[2], events |-> t[3]]
           new == Append(old, tx)
           n == Len(old)
<1>1. old \in Seq(Transactions) /\ tx \in Transactions /\ n \in Nat
  BY DEF LegalLog, Transactions
<1>2. /\ new \in Seq(Transactions) /\ Grows(old, new)
      /\ Len(new) = n + 1 /\ new[n + 1] = tx
  BY <1>1, AppendGrows
<1>3. tx.request = r /\ tx.status = t[2] /\ tx.events = t[3]
  OBVIOUS
<1> HIDE DEF tx, new
<1>4. ASSUME NEW q \in Executions, NEW h \in 0 .. n
      PROVE  <<Status(new, h, q), Emitted(new, h, q)>> \in Histories
  BY <1>1, <1>2, GrowsKeeps DEF LegalLog
<1>5. ASSUME NEW q \in Executions
      PROVE  <<Status(new, n + 1, q), Emitted(new, n + 1, q)>> \in Histories
  <2>1. n \in 0 .. n
    BY <1>1
  <2>2. About(new, n, q) = About(old, n, q) /\ Emitted(new, n, q) = Emitted(old, n, q)
    BY <1>1, <1>2, <2>1, GrowsKeeps
  <2>3. <<Status(old, n, q), Emitted(old, n, q)>> \in Histories
    BY <2>1 DEF LegalLog
  <2>4. About(new, n, q) \subseteq 1 .. n
    BY DEF About
  <2>5. CASE q # r
    <3>1. About(new, n + 1, q) = About(new, n, q)
      BY <1>1, <1>2, <1>3, <2>5 DEF About
    <3>2. Status(new, n + 1, q) = Status(new, n, q)
      <4> DEFINE Last(I) == IF I = {} THEN "None"
                            ELSE new[CHOOSE i \in I : \A j \in I : j <= i].status
      <4>1. /\ Status(new, n + 1, q) = Last(About(new, n + 1, q))
            /\ Status(new, n, q) = Last(About(new, n, q))
        BY DEF Status
      <4> HIDE DEF Last
      <4> QED
        BY <3>1, <4>1
    <3>3. Emitted(new, n + 1, q) = Emitted(new, n, q)
      BY <3>1, Zenon DEF Emitted
    <3> QED
      BY <1>4, <2>1, <3>2, <3>3
  <2>6. CASE q = r
    <3> DEFINE I == About(new, n + 1, r)
    <3>1. I = About(new, n, r) \cup {n + 1}
      BY <1>1, <1>2, <1>3 DEF About
    <3>2. n + 1 \in I /\ \A j \in I : j <= n + 1 /\ (n + 1 <= j => j = n + 1)
      BY <1>1, <2>4, <2>6, <3>1
    <3>3. Status(new, n + 1, r) = new[CHOOSE i \in I : \A j \in I : j <= i].status
      BY <3>2 DEF Status
    <3>4. Emitted(new, n + 1, r) = Emitted(new, n, r) \cup new[n + 1].events
      BY <3>1 DEF Emitted
    <3> HIDE DEF I
    <3>5. \A i \in I : (\A j \in I : j <= i) <=> i = n + 1
      BY <3>2
    <3>6. (CHOOSE i \in I : \A j \in I : j <= i) = n + 1
      BY <3>2, <3>5
    <3>7. Status(new, n + 1, r) = t[2] /\ Emitted(new, n + 1, r) = Emitted(old, n, r) \cup t[3]
      BY <1>2, <1>3, <2>2, <2>6, <3>3, <3>4, <3>6
    <3>8. <<t[1], Emitted(old, n, r)>> \in Histories
      BY <2>3, <2>6
    <3>9. <<t[2], Emitted(old, n, r) \cup t[3]>> \in Histories
      BY <3>8, NextHistory
    <3> QED
      BY <2>6, <3>7, <3>9
  <2> QED
    BY <2>5, <2>6
<1>6. \A h \in 0 .. Len(new) : h \in 0 .. n \/ h = n + 1
  BY <1>1, <1>2
<1> QED
  BY <1>2, <1>4, <1>5, <1>6 DEF LegalLog, new, tx

-----------------------------------------------------------------------------
(* The invariant *)

LEMMA LogsType ==
    ASSUME LogsInv
    PROVE  \A n \in Networks :
             logs[n] \in Seq(Transactions) /\ Len(logs[n]) \in Nat /\ LegalLog(logs[n])
BY DEF LogsInv, LegalLog

LEMMA ViewsType == \A v \in Views : v[1] \in Networks
BY DEF Views

LEMMA PageInvInit == PageInit => PageInv
<1> SUFFICES ASSUME PageInit PROVE PageInv
  OBVIOUS
<1>1. LogsInv
  <2>1. ASSUME NEW r \in Executions, NEW h \in 0 .. 0
        PROVE  <<Status(<< >>, h, r), Emitted(<< >>, h, r)>> \in Histories
    <3>1. About(<< >>, h, r) = {}
      BY DEF About
    <3>2. Status(<< >>, h, r) = "None"
      BY <3>1 DEF Status
    <3>3. Emitted(<< >>, h, r) = {}
      BY <3>1 DEF Emitted
    <3> QED
      BY <3>2, <3>3 DEF Histories
  <2>2. LegalLog(<< >>)
    <3>1. << >> \in Seq(Transactions) /\ Len(<< >>) = 0
      OBVIOUS
    <3> QED
      BY <2>1, <3>1 DEF LegalLog
  <2> QED
    BY <2>2 DEF LogsInv, PageInit
<1>2. view \in Views /\ generation = 1 /\ timer = FALSE /\ data = {}
  BY DEF PageInit
<1>3. \A q \in reads : q = Tick(view, generation)
  BY DEF PageInit
<1>4. Len(logs[view[1]]) \in Nat
  BY <1>1, <1>2, LogsType, ViewsType
<1>5. ReadsInv
  <2>1. \A q \in reads : q.view = view /\ q.generation = 1 /\ q.head = Len(logs[view[1]])
    BY <1>2, <1>3 DEF Tick
  <2>2. FALSE \in BOOLEAN /\ 1 \in Nat \ {0} /\ 1 \in 1 .. 1
    OBVIOUS
  <2>3. \A q \in reads :
          /\ q.view \in Views /\ q.generation \in 1 .. generation /\ q.head \in Nat
          /\ IsMine(q) => q.view = view /\ q.head <= Len(logs[view[1]]) /\ timer = FALSE
    BY <1>2, <1>4, <2>1, <2>2
  <2>4. \A q, p \in reads : IsMine(q) /\ IsMine(p) => q = p
    BY <1>3
  <2> QED
    BY <1>2, <2>2, <2>3, <2>4, Zenon DEF ReadsInv
<1>6. DataInv
  BY <1>2 DEF DataInv
<1> QED
  BY <1>1, <1>5, <1>6 DEF PageInv

\* What only adds to the logs disturbs nothing the page relies on.
LEMMA PageInvTransact ==
    ASSUME PageInv,
           NEW n \in Deployed, NEW r \in Executions, Transact(n, r)
    PROVE  PageInv'
<1>1. PICK t \in Transitions :
        /\ t[1] = Status(logs[n], Len(logs[n]), r)
        /\ logs' = [logs EXCEPT ![n] =
              Append(@, [request |-> r, status |-> t[2], events |-> t[3]])]
  BY DEF Transact
<1> DEFINE tx == [request |-> r, status |-> t[2], events |-> t[3]]
<1>2. n \in Networks
  BY ExplorerAssumption
<1>3. LegalLog(logs[n])
  BY <1>2 DEF PageInv, LogsInv
<1>4. LegalLog(Append(logs[n], tx)) /\ tx \in Transactions
  BY <1>1, <1>3, AppendIsLegal DEF Transactions
<1> HIDE DEF tx
<1>5. /\ DOMAIN logs' = Networks /\ logs'[n] = Append(logs[n], tx)
      /\ \A m \in Networks \ {n} : logs'[m] = logs[m]
  BY <1>1, <1>2 DEF PageInv, LogsInv, tx
<1>6. \A m \in Networks : LegalLog(logs'[m])
  BY <1>4, <1>5 DEF PageInv, LogsInv
<1>7. LogsInv'
  BY <1>5, <1>6 DEF LogsInv
<1>8. ASSUME NEW m \in Networks PROVE Grows(logs[m], logs'[m])
  <2>1. logs[m] \in Seq(Transactions)
    BY LogsType DEF PageInv
  <2>2. CASE m = n
    BY <1>4, <1>5, <2>1, <2>2, AppendGrows
  <2>3. CASE m # n
    BY <1>5, <2>1, <2>3 DEF Grows
  <2> QED
    BY <2>2, <2>3
<1>9. /\ view' = view /\ generation' = generation /\ reads' = reads
      /\ timer' = timer /\ data' = data
  BY DEF Transact, page
<1> DEFINE old == logs[view[1]]
           new == logs'[view[1]]
<1>10. view \in Views /\ view[1] \in Networks
  BY ViewsType DEF PageInv, ReadsInv
<1>11. /\ old \in Seq(Transactions) /\ new \in Seq(Transactions) /\ Grows(old, new)
       /\ Len(old) \in Nat /\ Len(new) \in Nat
  BY <1>6, <1>8, <1>10, LogsType DEF PageInv, LegalLog
<1> HIDE DEF old, new
<1>12. Len(old) <= Len(new)
  BY <1>11 DEF Grows
<1>13. ReadsInv'
  <2>1. ASSUME NEW q \in reads, IsMine(q) PROVE q.head <= Len(new)
    <3>1. q.head \in Nat /\ q.head <= Len(old)
      BY <2>1 DEF PageInv, ReadsInv, old
    <3> QED
      BY <1>11, <1>12, <3>1
  <2>2. \A q : IsMine(q)' <=> IsMine(q)
    BY <1>9 DEF IsMine
  <2> QED
    BY <1>9, <2>1, <2>2 DEF PageInv, ReadsInv, new
<1>14. DataInv'
  <2>1. ASSUME NEW d \in data
        PROVE  /\ d.read.head \in 0 .. Len(new)
               /\ Arrived(new, d.read.head, d.lost) = Arrived(old, d.read.head, d.lost)
    <3>1. d.read.head \in 0 .. Len(old)
      BY DEF PageInv, DataInv, old
    <3> QED
      BY <1>11, <3>1, GrowsKeeps
  <2>2. ASSUME NEW d \in data
        PROVE  d.rows = Fold(Arrived(new, d.read.head, d.lost), view[2])
    BY <2>1 DEF PageInv, DataInv, old
  <2> QED
    BY <1>9, <2>1, <2>2 DEF PageInv, DataInv, new
<1> QED
  BY <1>7, <1>13, <1>14 DEF PageInv

\* A new generation has one read, its own, and nothing to show.
LEMMA PageInvShow ==
    ASSUME PageInv, NEW v \in Views, Show(v)
    PROVE  PageInv'
<1>1. /\ view' = v /\ logs' = logs /\ generation' = generation + 1
      /\ data' = {} /\ timer' = FALSE
      /\ reads' = reads \cup (IF v[1] \in Deployed THEN {Tick(v, generation')} ELSE {})
  BY DEF Show, Effect
<1>2. v[1] \in Networks /\ Len(logs[v[1]]) \in Nat
  BY LogsType, ViewsType DEF PageInv
<1>3. generation \in Nat \ {0} /\ generation' \in Nat \ {0} /\ generation' \in 1 .. generation'
  BY <1>1 DEF PageInv, ReadsInv
<1>4. LogsInv'
  BY <1>1 DEF PageInv, LogsInv
<1>5. ASSUME NEW q \in reads
      PROVE  /\ q.view \in Views /\ q.generation \in 1 .. generation' /\ q.head \in Nat
             /\ ~IsMine(q)'
  <2>1. q.view \in Views /\ q.generation \in 1 .. generation /\ q.head \in Nat
    BY DEF PageInv, ReadsInv
  <2>2. q.generation \in 1 .. generation' /\ q.generation # generation'
    BY <1>1, <1>3, <2>1
  <2> QED
    BY <2>1, <2>2 DEF IsMine
<1> DEFINE own == Tick(v, generation')
<1>6. own.view = v /\ own.generation = generation' /\ own.head = Len(logs[v[1]])
  BY DEF Tick
<1> HIDE DEF own
<1>7. \A q \in reads' : q \in reads \/ q = own
  BY <1>1 DEF own
<1>8. ReadsInv'
  <2>1. view' \in Views /\ timer' \in BOOLEAN /\ timer' = FALSE
    <3>1. FALSE \in BOOLEAN
      OBVIOUS
    <3> QED
      BY <1>1, <3>1
  <2>2. ASSUME NEW q \in reads'
        PROVE  /\ q.view \in Views /\ q.generation \in 1 .. generation' /\ q.head \in Nat
               /\ IsMine(q)' => q = own /\ q.view = v /\ q.head <= Len(logs'[v[1]])
    <3>1. CASE q \in reads
      BY <1>5, <3>1
    <3>2. CASE q = own
      BY <1>1, <1>2, <1>3, <1>6, <3>2
    <3> QED
      BY <1>7, <3>1, <3>2
  <2> QED
    BY <1>1, <1>3, <2>1, <2>2, Zenon DEF ReadsInv
<1>9. DataInv'
  BY <1>1 DEF DataInv
<1> QED
  BY <1>4, <1>8, <1>9 DEF PageInv

\* A read ends: if it is of this generation it was the only one, and it is the next
\* that is scheduled.
LEMMA ReadsInvEnded ==
    ASSUME PageInv, NEW q \in reads, reads' = reads \ {q}, timer' = (IsMine(q) \/ timer),
           UNCHANGED <<logs, view, generation>>
    PROVE  ReadsInv'
<1>1. timer' \in BOOLEAN
  <2>1. CASE IsMine(q) \/ timer
    <3>1. timer' = TRUE
      BY <2>1
    <3> QED
      BY <3>1
  <2>2. CASE ~(IsMine(q) \/ timer)
    <3>1. timer' = FALSE
      BY <2>2
    <3> QED
      BY <3>1
  <2> QED
    BY <2>1, <2>2
<1>2. \A p : IsMine(p)' <=> IsMine(p)
  BY DEF IsMine
<1>3. ASSUME NEW p \in reads', IsMine(p) PROVE timer' = FALSE
  <2>1. p \in reads /\ p # q
    OBVIOUS
  <2>2. ~IsMine(q) /\ timer = FALSE
    BY <1>3, <2>1 DEF PageInv, ReadsInv
  <2> QED
    BY <2>2
<1> QED
  BY <1>1, <1>2, <1>3 DEF PageInv, ReadsInv

LEMMA PageInvAnswered ==
    ASSUME PageInv, NEW q \in reads, Answered(q)
    PROVE  PageInv'
<1>1. /\ reads' = reads \ {q} /\ timer' = (IsMine(q) \/ timer)
      /\ UNCHANGED <<logs, view, generation>>
  BY DEF Answered, Reschedule
<1>2. LogsInv'
  BY <1>1 DEF PageInv, LogsInv
<1>3. ReadsInv'
  BY <1>1, ReadsInvEnded
<1>4. DataInv'
  <2>1. CASE ~IsMine(q)
    <3>1. data' = data
      BY <2>1 DEF Answered
    <3> QED
      BY <1>1, <3>1 DEF PageInv, DataInv
  <2>2. CASE IsMine(q)
    <3>1. PICK lost : data' =
            {[read |-> q, lost |-> lost,
              rows |-> Fold(Arrived(logs[q.view[1]], q.head, lost), q.view[2])]}
      BY <2>2 DEF Answered
    <3> DEFINE shown == [read |-> q, lost |-> lost,
                 rows |-> Fold(Arrived(logs[q.view[1]], q.head, lost), q.view[2])]
    <3>2. /\ shown.read = q /\ shown.lost = lost
          /\ shown.rows = Fold(Arrived(logs[q.view[1]], q.head, lost), q.view[2])
      OBVIOUS
    <3>3. data' = {shown}
      BY <3>1
    <3> HIDE DEF shown
    <3>4. q.view = view /\ q.head \in Nat /\ q.head <= Len(logs[view[1]])
      BY <2>2 DEF PageInv, ReadsInv
    <3>5. q.head \in 0 .. Len(logs[view[1]])
      <4>1. Len(logs[view[1]]) \in Nat
        BY LogsType, ViewsType DEF PageInv, ReadsInv
      <4> QED
        BY <3>4, <4>1
    <3> QED
      BY <1>1, <3>2, <3>3, <3>4, <3>5 DEF DataInv
  <2> QED
    BY <2>1, <2>2
<1> QED
  BY <1>2, <1>3, <1>4 DEF PageInv

LEMMA PageInvFailed ==
    ASSUME PageInv, NEW q \in reads, ReadFailed(q)
    PROVE  PageInv'
<1>1. /\ reads' = reads \ {q} /\ timer' = (IsMine(q) \/ timer)
      /\ UNCHANGED <<logs, view, generation>> /\ data' = data
  BY DEF ReadFailed, Reschedule
<1>2. LogsInv' /\ DataInv'
  BY <1>1 DEF PageInv, LogsInv, DataInv
<1> QED
  BY <1>1, <1>2, ReadsInvEnded DEF PageInv

LEMMA PageInvTimerFires ==
    ASSUME PageInv, TimerFires
    PROVE  PageInv'
<1>1. /\ timer' = FALSE /\ reads' = reads \cup {Tick(view, generation)}
      /\ UNCHANGED <<logs, view, generation, data>> /\ timer
  BY DEF TimerFires
<1>2. LogsInv' /\ DataInv'
  BY <1>1 DEF PageInv, LogsInv, DataInv
<1> DEFINE own == Tick(view, generation)
<1>3. own.view = view /\ own.generation = generation /\ own.head = Len(logs[view[1]])
  BY DEF Tick
<1>4. Len(logs[view[1]]) \in Nat /\ generation \in 1 .. generation
  BY LogsType, ViewsType DEF PageInv, ReadsInv
<1>5. \A p \in reads : ~IsMine(p)
  BY <1>1 DEF PageInv, ReadsInv
<1>6. \A p \in reads' : p \in reads \/ p = own
  BY <1>1
<1> HIDE DEF own
<1>7. \A p : IsMine(p)' <=> IsMine(p)
  BY <1>1 DEF IsMine
<1>8. timer' \in BOOLEAN
  BY <1>1
<1>9. ASSUME NEW p \in reads'
      PROVE  /\ p.view \in Views /\ p.generation \in 1 .. generation /\ p.head \in Nat
             /\ IsMine(p) => p = own /\ p.view = view /\ p.head <= Len(logs[view[1]])
  <2>1. CASE p \in reads
    BY <1>5, <2>1 DEF PageInv, ReadsInv
  <2>2. CASE p = own
    BY <1>3, <1>4, <2>2 DEF PageInv, ReadsInv
  <2> QED
    BY <1>6, <2>1, <2>2
<1>10. ReadsInv'
  BY <1>1, <1>7, <1>8, <1>9 DEF PageInv, ReadsInv
<1> QED
  BY <1>2, <1>10 DEF PageInv

LEMMA PageInvNext == PageInv /\ [PageNext]_pageVars => PageInv'
<1> SUFFICES ASSUME PageInv, [PageNext]_pageVars PROVE PageInv'
  OBVIOUS
<1>1. ASSUME NEW n \in Deployed, NEW r \in Executions, Transact(n, r) PROVE PageInv'
  BY <1>1, PageInvTransact
<1>2. ASSUME NEW v \in Views, Show(v) PROVE PageInv'
  BY <1>2, PageInvShow
<1>3. ASSUME NEW q \in reads, Answered(q) PROVE PageInv'
  BY <1>3, PageInvAnswered
<1>4. ASSUME NEW q \in reads, ReadFailed(q) PROVE PageInv'
  BY <1>4, PageInvFailed
<1>5. CASE TimerFires
  BY <1>5, PageInvTimerFires
<1>6. CASE UNCHANGED pageVars
  BY <1>6 DEF pageVars, PageInv, LogsInv, ReadsInv, DataInv, IsMine
<1> QED
  BY <1>1, <1>2, <1>3, <1>4, <1>5, <1>6 DEF PageNext

-----------------------------------------------------------------------------
(* What the page shows *)

EventsOf(txs, r) == UNION {tx.events : tx \in {t \in txs : t.request = r}}

\* The rows of a fold, and what is in them.
LEMMA FoldIs ==
    ASSUME NEW txs, NEW agent, NEW r
    PROVE  /\ r \in DOMAIN Fold(txs, agent) <=>
                /\ r \in Executions /\ agent \in {Everyone, AgentOf[r]}
                /\ \E e \in EventsOf(txs, r) : ~Loose(e)
           /\ r \in DOMAIN Fold(txs, agent) =>
                Fold(txs, agent)[r] = Advance(EventsOf(txs, r))
BY DEF Fold, EventsOf

LEMMA ArrivedFrom ==
    ASSUME NEW log \in Seq(Transactions), NEW h \in 0 .. Len(log), NEW lost, NEW r
    PROVE  \A tx \in {t \in Arrived(log, h, lost) : t.request = r} :
             tx \in Transactions /\ \E i \in About(log, Len(log), r) : log[i] = tx
<1>1. Len(log) \in Nat /\ \A i \in 1 .. h : i \in 1 .. Len(log) /\ log[i] \in Transactions
  OBVIOUS
<1> QED
  BY <1>1 DEF Arrived, About

\* A row is of a request of the log, in a status it has had.
LEMMA RowIsOfLog ==
    ASSUME NEW log \in Seq(Transactions), NEW h \in 0 .. Len(log), NEW lost, NEW agent,
           NEW r \in DOMAIN Fold(Arrived(log, h, lost), agent)
    PROVE  /\ agent \in {Everyone, AgentOf[r]} /\ About(log, Len(log), r) # {}
           /\ Fold(Arrived(log, h, lost), agent)[r] \in
                 {log[i].status : i \in About(log, Len(log), r)} \cup {"Pending"}
           /\ Fold(Arrived(log, h, lost), agent)[r] \in Statuses
<1> DEFINE txs == Arrived(log, h, lost)
           T == {t \in txs : t.request = r}
           E == EventsOf(txs, r)
<1>1. /\ agent \in {Everyone, AgentOf[r]} /\ \E e \in E : ~Loose(e)
      /\ Fold(txs, agent)[r] = Advance(E)
  BY FoldIs
<1>2. \A tx \in T : tx \in Transactions /\ \E i \in About(log, Len(log), r) : log[i] = tx
  BY ArrivedFrom
<1>3. \E tx \in T : TRUE
  BY <1>1 DEF EventsOf
<1>4. T \in SUBSET Transactions
  BY <1>2
<1> HIDE DEF txs, T
<1>5. /\ Advance(E) \in {tx.status : tx \in T} \cup {"Pending"}
      /\ Advance(E) \in Statuses
  BY <1>4, AdvanceIsSomeStatus DEF EventsOf, T
<1>6. {tx.status : tx \in T} \subseteq {log[i].status : i \in About(log, Len(log), r)}
  BY <1>2
<1> QED
  BY <1>1, <1>2, <1>3, <1>5, <1>6 DEF txs

\* With no window lost, the events of a request are those emitted for it.
LEMMA NothingLost ==
    ASSUME NEW log \in Seq(Transactions), NEW h \in 0 .. Len(log), NEW r
    PROVE  EventsOf(Arrived(log, h, {}), r) = Emitted(log, h, r)
<1>1. {t \in Arrived(log, h, {}) : t.request = r} = {log[i] : i \in About(log, h, r)}
  BY DEF Arrived, About
<1> QED
  BY <1>1 DEF Emitted, EventsOf

\* Every request that was made emitted an event that makes a row.
LEMMA WholeRowIsExact ==
    ASSUME NEW log, LegalLog(log), NEW h \in 0 .. Len(log), NEW agent,
           NEW r \in Executions, agent \in {Everyone, AgentOf[r]}
    PROVE  LET rows == Fold(Arrived(log, h, {}), agent)
               status == Status(log, h, r)
           IN  /\ r \in DOMAIN rows <=> status # "None"
               /\ status \in Statuses => rows[r] = status
<1> DEFINE rows == Fold(Arrived(log, h, {}), agent)
           status == Status(log, h, r)
           E == Emitted(log, h, r)
<1>1. <<status, E>> \in Histories /\ log \in Seq(Transactions)
  BY DEF LegalLog
<1>2. EventsOf(Arrived(log, h, {}), r) = E
  BY <1>1, NothingLost
<1> HIDE DEF E
<1>3. /\ r \in DOMAIN rows <=> \E e \in E : ~Loose(e)
      /\ r \in DOMAIN rows => rows[r] = Advance(E)
  BY <1>2, FoldIs
<1> HIDE DEF rows, status
<1>4. (\E e \in E : ~Loose(e)) <=> status # "None"
  <2>1. CASE status = "None"
    BY <1>1, <2>1 DEF Histories
  <2>2. CASE status # "None"
    <3>1. "Requested" \in E
      BY <1>1, <2>2 DEF Histories
    <3> QED
      BY <2>2, <3>1 DEF Loose
  <2> QED
    BY <2>1, <2>2
<1>5. ASSUME status \in Statuses PROVE rows[r] = status
  <2>1. status # "None" /\ status # "Rejected"
    BY <1>5, StatusesAre
  <2>2. Advance(E) = status
    BY <1>1, <2>1, AdvanceIsExact
  <2> QED
    BY <1>3, <1>4, <2>1, <2>2
<1> QED
  BY <1>3, <1>4, <1>5 DEF rows, status

LEMMA PageInvariance == PageSpec => []PageInv
BY PageInvInit, PageInvNext, PTL DEF PageSpec

LEMMA OneReadOrTimer == PageInv => ReadsDoNotOverlap
<1> SUFFICES ASSUME PageInv PROVE ReadsDoNotOverlap
  OBVIOUS
<1>1. Mine = {} \/ \E q \in reads : Mine = {q} /\ timer = FALSE
  BY DEF Mine, PageInv, ReadsInv
<1>2. CASE Mine = {}
  <2>1. Cardinality(Mine) = 0
    BY <1>2, FS_EmptySet
  <2> QED
    BY <2>1 DEF ReadsDoNotOverlap
<1>3. CASE \E q \in reads : Mine = {q} /\ timer = FALSE
  <2>1. Cardinality(Mine) = 1 /\ timer = FALSE
    BY <1>3, FS_Singleton
  <2> QED
    BY <2>1 DEF ReadsDoNotOverlap
<1> QED
  BY <1>1, <1>2, <1>3

\* A row is of the network and the agent in the heading (useChain.ts, activity.ts):
\* for any networks, agents and requests, however often the page is switched and
\* however late and however torn its answers come.
THEOREM RowsAreAlwaysOfThisPage == PageSpec => []RowsAreOfThisPage
<1>1. ASSUME PageInv PROVE RowsAreOfThisPage
  <2> DEFINE log == logs[view[1]]
  <2>1. log \in Seq(Transactions) /\ view \in Views
    BY <1>1, LogsType, ViewsType DEF PageInv, ReadsInv
  <2> HIDE DEF log
  <2>2. ASSUME NEW d \in data, NEW r \in DOMAIN d.rows
        PROVE  /\ view[2] \in {Everyone, AgentOf[r]} /\ About(log, Len(log), r) # {}
               /\ d.rows[r] \in
                    {log[i].status : i \in About(log, Len(log), r)} \cup {"Pending"}
               /\ d.rows[r] \in Statuses
    <3>1. /\ d.read.head \in 0 .. Len(log)
          /\ d.rows = Fold(Arrived(log, d.read.head, d.lost), view[2])
      BY <1>1 DEF PageInv, DataInv, log
    <3> QED
      BY <2>1, <3>1, RowIsOfLog
  <2>3. Cardinality(data) <= 1
    <3>1. CASE data = {}
      BY <3>1, FS_EmptySet
    <3>2. CASE \E d : data = {d}
      <4>1. Cardinality(data) = 1
        BY <3>2, FS_Singleton
      <4> QED
        BY <4>1
    <3> QED
      BY <1>1, <3>1, <3>2 DEF PageInv, DataInv
  <2>4. PageTypeOK
    BY <1>1, <2>1, <2>2, <2>3 DEF PageTypeOK, PageInv, ReadsInv
  <2>5. ReadsDoNotOverlap
    BY <1>1, OneReadOrTimer
  <2> QED
    BY <2>2, <2>4, <2>5 DEF RowsAreOfThisPage, log
<1> QED
  BY <1>1, PageInvariance, PTL

\* A read that lost nothing has every request of the router, in the status it was in
\* at that head (activity.ts): for logs of any length, whichever pass of the fold
\* applies which event when.
THEOREM WholeReadsAreAlwaysExact == PageSpec => []WholeReadsAreExact
<1>1. ASSUME PageInv PROVE WholeReadsAreExact
  <2> DEFINE log == logs[view[1]]
  <2>1. LegalLog(log)
    BY <1>1, LogsType, ViewsType DEF PageInv, ReadsInv
  <2>2. ASSUME NEW d \in data
        PROVE  /\ d.read.view = view /\ d.read.head \in 0 .. Len(log)
               /\ d.rows = Fold(Arrived(log, d.read.head, d.lost), view[2])
    BY <1>1 DEF PageInv, DataInv
  <2> HIDE DEF log
  <2>3. ASSUME NEW d \in data, d.lost = {}, NEW r \in Executions, view[2] \in {Everyone, AgentOf[r]}
        PROVE  /\ r \in DOMAIN d.rows <=> Status(log, d.read.head, r) # "None"
               /\ Status(log, d.read.head, r) \in Statuses =>
                     d.rows[r] = Status(log, d.read.head, r)
    <3> DEFINE h == d.read.head
    <3>1. h \in 0 .. Len(log) /\ d.rows = Fold(Arrived(log, h, {}), view[2])
      BY <2>2, <2>3
    <3> HIDE DEF h
    <3>2. /\ r \in DOMAIN Fold(Arrived(log, h, {}), view[2]) <=>
               Status(log, h, r) # "None"
          /\ Status(log, h, r) \in Statuses =>
                Fold(Arrived(log, h, {}), view[2])[r] = Status(log, h, r)
      BY <2>1, <2>3, <3>1, WholeRowIsExact
    <3> QED
      BY <3>1, <3>2 DEF h
  <2> QED
    BY <2>2, <2>3 DEF WholeReadsAreExact, log
<1> QED
  BY <1>1, PageInvariance, PTL

=============================================================================
