-------------------------- MODULE DeploymentProofs --------------------------
(***************************************************************************)
(* For every deployment, list of publishers and later governance: the      *)
(* attestor's counter is exact, what it accepts a quorum has signed, every *)
(* rewiring was announced, a timelock is armed after everything else, and  *)
(* the manifest is true.                                                   *)
(***************************************************************************)
EXTENDS Deployment, FiniteSetTheorems, TLAPS

\* What the attestor's calls keep, wherever they come from.
AttestorInv == AttestorTypeOK /\ CountExact

LEMMA PublishersFinite ==
    ASSUME AttestorTypeOK
    PROVE  IsFiniteSet(publishers)
BY PublishersAssumption, FS_Subset DEF AttestorTypeOK

\* Listing changes the counter by what it changes the set by.
LEMMA SetPublisherKeeps ==
    ASSUME AttestorInv, NEW publisher \in Publishers, NEW allowed \in BOOLEAN,
           setPublisher(publisher, allowed)
    PROVE  AttestorInv'
<1>1. IsFiniteSet(publishers) /\ Cardinality(publishers) \in Nat
  BY PublishersFinite, FS_CardinalityType DEF AttestorInv
<1>2. UNCHANGED <<quorum, maxAge>>
  BY DEF setPublisher
<1>3. CASE (publisher \in publishers) = allowed
  <2>1. UNCHANGED <<publishers, publisherCount>>
    BY <1>3 DEF setPublisher
  <2> QED
    BY <1>2, <2>1 DEF AttestorInv, AttestorTypeOK, CountExact
<1>4. CASE publisher \notin publishers /\ allowed
  <2>1. publishers' = publishers \cup {publisher} /\ publisherCount' = publisherCount + 1
    BY <1>4, Zenon DEF setPublisher, Listed
  <2>2. Cardinality(publishers \cup {publisher}) = Cardinality(publishers) + 1
    BY <1>1, <1>4, FS_AddElement
  <2> QED
    BY <1>1, <1>2, <2>1, <2>2 DEF AttestorInv, AttestorTypeOK, CountExact
<1>5. CASE publisher \in publishers /\ ~allowed
  <2>1. publishers' = publishers \ {publisher} /\ publisherCount' = publisherCount - 1
    BY <1>5, Zenon DEF setPublisher, Listed
  <2>2. /\ Cardinality(publishers \ {publisher}) = Cardinality(publishers) - 1
        /\ Cardinality(publishers \ {publisher}) \in Nat
    BY <1>1, <1>5, FS_RemoveElement, FS_CardinalityType
  <2> QED
    BY <1>1, <1>2, <2>1, <2>2 DEF AttestorInv, AttestorTypeOK, CountExact
<1> QED
  BY <1>3, <1>4, <1>5

LEMMA SetQuorumKeeps ==
    ASSUME AttestorInv, NEW q \in Nat, NEW age \in Nat, setQuorum(q, age)
    PROVE  AttestorInv'
BY DEF AttestorInv, AttestorTypeOK, CountExact, setQuorum, MaySetQuorum


-----------------------------------------------------------------------------
(* The list names only publishers to list and quorums to set.              *)

Tuned == {setting.tune[i] : i \in DOMAIN setting.tune}

SoundCall ==
    {call \in [name : {"wire", "finalize", "tune", "publisher", "quorum"},
               of : Actions \cup Contracts \cup Publishers \cup Nat] :
       /\ call.name = "wire" => call.of \in Wired /\ call.of \in Actions
       /\ call.name = "finalize" => call.of \in Timelocked
       /\ call.name = "tune" => call.of \in Tuned
       /\ call.name = "publisher" => call.of \in Publishers
       /\ call.name = "quorum" => call.of \in Nat /\ call.of = setting.quorum}

\* A sequence is one of its own elements.
LEMMA OfItsElements ==
    ASSUME NEW S, NEW s \in Seq(S)
    PROVE  s \in Seq({s[i] : i \in DOMAIN s})
OBVIOUS

Arming == {call \in SoundCall : call.name = "finalize"}
Setting == {call \in SoundCall : call.name # "finalize"}

LEMMA ListParts ==
    ASSUME setting \in Environments
    PROVE  /\ Each("wire", Wiring) \o Settings \in Seq(Setting)
           /\ Each("finalize", Armed) \in Seq(Arming)
<1>1. /\ setting.tune \in Seq(Contracts) /\ setting.publishers \in Seq(Publishers)
      /\ setting.quorum \in Nat
  BY DeploymentAssumption
<1>2. Timelocked \subseteq Contracts
  BY WiresAssumption DEF Timelocked
<1>3. /\ Wiring \in Seq(Wired) /\ Armed \in Seq(Timelocked) /\ Wired \subseteq Actions
      /\ setting.tune \in Seq(Tuned) /\ Tuned \subseteq Contracts
  <2>1. /\ CoreWiring \in Seq(Actions) /\ GoldWiring \in Seq(Actions)
        /\ CoreArmed \in Seq(Timelocked) /\ GoldArmed \in Seq(Timelocked)
    BY DeploymentAssumption
  <2>2. CoreWiring \in Seq(Wired) /\ GoldWiring \in Seq(Wired)
    <3>1. /\ CoreWiring \in Seq({CoreWiring[i] : i \in DOMAIN CoreWiring})
          /\ GoldWiring \in Seq({GoldWiring[i] : i \in DOMAIN GoldWiring})
      BY <2>1, OfItsElements
    <3>2. QED
      BY <3>1 DEF Wired
  <2>3. Wired \subseteq Actions /\ Tuned \subseteq Contracts
    BY <1>1, <2>1 DEF Wired, Tuned
  <2>4. setting.tune \in Seq(Tuned)
    BY <1>1, OfItsElements DEF Tuned
  <2> QED
    BY <2>1, <2>2, <2>3, <2>4 DEF Wiring, Armed
<1>4. /\ \A a \in Wired : Call("wire", a) \in Setting
      /\ \A c \in Timelocked : Call("finalize", c) \in Arming
      /\ \A c \in Tuned : Call("tune", c) \in Setting
      /\ \A p \in Publishers : Call("publisher", p) \in Setting
      /\ Call("quorum", setting.quorum) \in Setting
  BY <1>1, <1>2, <1>3 DEF Call, Arming, Setting, SoundCall
<1>5. ASSUME NEW S, NEW operands \in Seq(S), NEW name, NEW T, \A x \in S : Call(name, x) \in T
      PROVE  Each(name, operands) \in Seq(T)
  BY <1>5 DEF Each
<1>6. /\ Each("wire", Wiring) \in Seq(Setting)
      /\ Each("tune", setting.tune) \in Seq(Setting)
      /\ Each("publisher", setting.publishers) \in Seq(Setting)
      /\ Each("finalize", Armed) \in Seq(Arming)
  BY <1>1, <1>3, <1>4, <1>5
<1>7. Settings \in Seq(Setting)
  BY <1>1, <1>4, <1>6 DEF Settings
<1> QED
  BY <1>6, <1>7

LEMMA ListSound ==
    ASSUME setting \in Environments
    PROVE  List \in Seq(SoundCall)
<1>1. Arming \subseteq SoundCall /\ Setting \subseteq SoundCall
  BY DEF Arming, Setting
<1>2. /\ Each("wire", Wiring) \o Settings \in Seq(SoundCall)
      /\ Each("finalize", Armed) \in Seq(SoundCall)
  BY <1>1, ListParts
<1> QED
  BY <1>2 DEF List

\* From the first contract armed on, the list only arms.
LEMMA ArmsLast ==
    ASSUME setting \in Environments, NEW i \in DOMAIN List, NEW j \in DOMAIN List, i <= j,
           List[i].name = "finalize"
    PROVE  List[j].name = "finalize"
<1> DEFINE Before == Each("wire", Wiring) \o Settings
           After == Each("finalize", Armed)
<1>1. /\ Before \in Seq(Setting) /\ After \in Seq(Arming)
      /\ List = Before \o After
  BY ListParts DEF List
<1>2. /\ \A k \in DOMAIN Before : Before[k].name # "finalize"
      /\ \A k \in DOMAIN After : After[k].name = "finalize"
  BY <1>1 DEF Arming, Setting
<1> HIDE DEF Before, After
<1>3. ~(i <= Len(Before))
  BY <1>1, <1>2
<1> QED
  BY <1>1, <1>2, <1>3

-----------------------------------------------------------------------------

\* What the steps need: whoever works on the list works on a call of it.
IInv ==
    /\ AttestorInv
    /\ setting \in Environments
    /\ now \in Nat
    /\ next \in Nat \ {0}
    /\ pending \in Seq(DOMAIN List)
    /\ phase = "pending" => next <= Len(pending)

LEMMA PerformKeeps ==
    ASSUME AttestorInv, NEW caller, NEW call \in SoundCall, Perform(caller, call)
    PROVE  AttestorInv'
<1>1. CASE UNCHANGED attestorVars
  BY <1>1 DEF AttestorInv, AttestorTypeOK, CountExact, attestorVars
<1>2. CASE call.name = "publisher" /\ setPublisher(call.of, TRUE)
  BY <1>2, SetPublisherKeeps DEF SoundCall
<1>3. CASE call.name = "quorum" /\ setQuorum(call.of, DefaultMaxAge)
  BY <1>3, SetQuorumKeeps, PublishersAssumption DEF SoundCall
<1> QED
  BY <1>1, <1>2, <1>3 DEF Perform

LEMMA IInvInit == Init => IInv
<1> SUFFICES ASSUME Init PROVE IInv
  OBVIOUS
<1>1. AttestorInv
  BY PublishersAssumption, FS_EmptySet
     DEF Init, AttestorInit, AttestorInv, AttestorTypeOK, CountExact
<1> QED
  BY <1>1 DEF Init, HistoryInit, LockInit, IInv

LEMMA IInvNext == IInv /\ [Next]_deploymentVars => IInv'
<1> SUFFICES ASSUME IInv, [Next]_deploymentVars PROVE IInv'
  OBVIOUS
<1> USE DEF IInv
<1>1. setting' = setting /\ List' = List
  <2>1. setting' = setting
    BY DEF Next, Defer, CallLands, CallFails, WriteManifest, FollowManifest, LeaveManifest,
           Administer, deploymentVars, scriptVars
  <2> QED
    BY <2>1 DEF List, Settings, Wiring, Armed
<1>2. now' \in Nat
  <2>1. CASE Tick
    BY <2>1 DEF Tick
  <2>2. CASE now' = now
    BY <2>2
  <2>3. UNCHANGED deploymentVars => now' = now
    BY DEF deploymentVars, historyVars, vars
  <2> QED
    BY <2>1, <2>2, <2>3, Zenon DEF Next, Defer, CallLands, CallFails, WriteManifest,
       FollowManifest, LeaveManifest, Administer
<1>3. List \in Seq(SoundCall)
  BY ListSound
<1>4. CASE Defer
  <2>1. next \in DOMAIN List
    BY <1>3, <1>4 DEF Defer, Working
  <2>2. AttestorInv'
    BY <1>4 DEF Defer, chainVars, attestorVars, AttestorInv, AttestorTypeOK, CountExact
  <2> QED
    BY <1>1, <1>2, <1>4, <2>1, <2>2 DEF Defer, Working
<1>5. CASE CallLands
  <2>1. List[next] \in SoundCall
    BY <1>3, <1>5 DEF CallLands, Working
  <2> QED
    BY <1>1, <1>2, <1>5, <2>1, PerformKeeps DEF CallLands, Working
<1>6. CASE CallFails
  <2>1. List[next] \in SoundCall
    BY <1>3, <1>6 DEF CallFails, Working
  <2>2. AttestorInv'
    BY <1>6, <2>1, PerformKeeps
       DEF CallFails, chainVars, attestorVars, AttestorInv, AttestorTypeOK, CountExact
  <2> QED
    BY <1>1, <1>2, <1>6, <2>2 DEF CallFails
<1>7. CASE WriteManifest
  <2>1. AttestorInv'
    BY <1>7 DEF WriteManifest, chainVars, attestorVars, AttestorInv, AttestorTypeOK, CountExact
  <2>2. phase' = "pending" => pending' # <<>>
    BY <1>7 DEF WriteManifest
  <2>3. pending' = pending /\ next' = 1
    BY <1>7 DEF WriteManifest
  <2>4. phase' = "pending" => next' <= Len(pending')
    BY <2>2, <2>3
  <2> QED
    BY <1>1, <1>2, <2>1, <2>3, <2>4
<1>8. CASE FollowManifest
  <2>1. next \in 1 .. Len(pending)
    <3>1. phase = "pending"
      BY <1>8 DEF FollowManifest
    <3>2. Len(pending) \in Nat
      OBVIOUS
    <3> QED
      BY <3>1, <3>2
  <2>2. pending[next] \in DOMAIN List
    BY <2>1
  <2>3. List[pending[next]] \in SoundCall
    BY <1>3, <2>2
  <2>4. AttestorInv'
    BY <1>8, <2>3, PerformKeeps DEF FollowManifest
  <2>5. /\ pending' = pending /\ next' = next + 1
        /\ next = Len(pending) => phase' # "pending"
    BY <1>8 DEF FollowManifest
  <2>6. phase' = "pending" => next' <= Len(pending')
    BY <2>1, <2>5
  <2> QED
    BY <1>1, <1>2, <2>4, <2>5, <2>6
<1>9. CASE LeaveManifest
  <2>1. AttestorInv'
    BY <1>9 DEF LeaveManifest, chainVars, attestorVars, AttestorInv, AttestorTypeOK, CountExact
  <2> QED
    BY <1>1, <1>2, <1>9, <2>1 DEF LeaveManifest
<1>10. CASE Administer
  <2>1. AttestorInv'
    <3>1. CASE UNCHANGED attestorVars
      BY <3>1 DEF attestorVars, AttestorInv, AttestorTypeOK, CountExact
    <3>2. ASSUME NEW publisher \in Publishers, NEW allowed \in BOOLEAN,
                 setPublisher(publisher, allowed)
          PROVE  AttestorInv'
      BY <3>2, SetPublisherKeeps
    <3>3. ASSUME NEW q \in Quorums, NEW age \in MaxAges, setQuorum(q, age)
          PROVE  AttestorInv'
      <4>1. q \in Nat /\ age \in Nat
        BY DeploymentAssumption
      <4> QED
        BY <3>3, <4>1, SetQuorumKeeps
    <3> QED
      BY <1>10, <3>1, <3>2, <3>3 DEF Administer
  <2> QED
    BY <1>1, <1>2, <1>10, <2>1 DEF Administer, scriptVars
<1>11. CASE Tick /\ UNCHANGED <<chainVars, scriptVars>>
  <2>1. AttestorInv'
    BY <1>11 DEF chainVars, attestorVars, AttestorInv, AttestorTypeOK, CountExact
  <2> QED
    BY <1>1, <1>2, <1>11, <2>1 DEF scriptVars
<1>12. CASE UNCHANGED deploymentVars
  <2>1. AttestorInv'
    BY <1>12 DEF deploymentVars, attestorVars, AttestorInv, AttestorTypeOK, CountExact
  <2> QED
    BY <1>1, <1>2, <1>12, <2>1 DEF deploymentVars, scriptVars
<1> QED
  BY <1>4, <1>5, <1>6, <1>7, <1>8, <1>9, <1>10, <1>11, <1>12 DEF Next

LEMMA IInvAlways == Spec => []IInv
BY IInvInit, IInvNext, PTL DEF Spec

\* The publishers are counted right in every deployment, whatever the script
\* lists, however often, and whatever the owner adds or removes later.
THEOREM CountAlways == Spec => []CountExact
<1>1. IInv => CountExact
  BY DEF IInv, AttestorInv
<1> QED
  BY <1>1, IInvAlways, PTL

-----------------------------------------------------------------------------

LEMMA CountingUp ==
    ASSUME NEW n \in Nat
    PROVE  IsFiniteSet(1 .. n) /\ Cardinality(1 .. n) = n
<1>1. 1 \in Int /\ n \in Int
  OBVIOUS
<1>2. IsFiniteSet(1 .. n) /\ Cardinality(1 .. n) = IF 1 > n THEN 0 ELSE n - 1 + 1
  BY <1>1, FS_Interval
<1> QED
  BY <1>2

\* The signers of a reading ascend, so there are as many as signatures.
LEMMA AscendingAreDistinct ==
    ASSUME NEW signers \in Seq(Nat), Ascending(signers),
           \A j \in DOMAIN signers : signers[j] \in publishers, IsFiniteSet(publishers)
    PROVE  LET Signed == {p \in publishers : \E j \in DOMAIN signers : signers[j] = p}
           IN  Len(signers) <= Cardinality(Signed) /\ Cardinality(Signed) \in Nat
<1> DEFINE Signed == {p \in publishers : \E j \in DOMAIN signers : signers[j] = p}
<1>1. IsFiniteSet(Signed) /\ Cardinality(Signed) \in Nat
  BY FS_Subset, FS_CardinalityType
<1>2. IsFiniteSet(1 .. Len(signers)) /\ Cardinality(1 .. Len(signers)) = Len(signers)
  <2>1. Len(signers) \in Nat
    OBVIOUS
  <2> QED
    BY <2>1, CountingUp
<1>3. signers \in [1 .. Len(signers) -> Signed]
  OBVIOUS
<1>4. \A i, j \in 1 .. Len(signers) : signers[i] = signers[j] => i = j
  BY DEF Ascending
<1>5. signers \in Injection(1 .. Len(signers), Signed)
  BY <1>3, <1>4 DEF Injection, IsInjective
<1>6. Cardinality(1 .. Len(signers)) <= Cardinality(Signed)
  BY <1>1, <1>5, FS_Injection
<1> QED
  BY <1>1, <1>2, <1>6

\* Nothing is accepted that a quorum has not signed, for every bundle and every
\* set of publishers: no signature counts twice, and no reading is stale.
THEOREM AcceptedAlways == Spec => []AcceptedByQuorum
<1>1. ASSUME IInv PROVE AcceptedByQuorum
  <2> SUFFICES ASSUME NEW feeds \in Bundles, verifyInputs(commit(feeds), feeds, now),
                      NEW i \in DOMAIN feeds
               PROVE  /\ Cardinality({p \in publishers : \E j \in DOMAIN feeds[i].signers :
                                                        feeds[i].signers[j] = p}) >= quorum
                      /\ feeds[i].timestamp + maxAge >= now
    BY DEF AcceptedByQuorum, AttestedByQuorum
  <2>1. feeds[i].timestamp \in Nat /\ feeds[i].signers \in Seq(Nat)
    BY DeploymentAssumption
  <2>2. Fresh(feeds[i], now) /\ Attested(feeds[i])
    BY DEF verifyInputs
  <2>3. quorum \in Nat /\ maxAge \in Nat /\ now \in Nat /\ AttestorTypeOK
    BY <1>1 DEF IInv, AttestorInv, AttestorTypeOK
  <2>4. feeds[i].timestamp + maxAge >= now
    BY <2>1, <2>2, <2>3 DEF Fresh
  <2>5. IsFiniteSet(publishers)
    BY <2>3, PublishersFinite
  <2>6. Len(feeds[i].signers) \in Nat /\ Len(feeds[i].signers) >= quorum
    BY <2>1, <2>2 DEF Attested
  <2>7. LET Signed == {p \in publishers : \E j \in DOMAIN feeds[i].signers :
                                             feeds[i].signers[j] = p}
        IN  Len(feeds[i].signers) <= Cardinality(Signed) /\ Cardinality(Signed) \in Nat
    BY <2>1, <2>2, <2>5, AscendingAreDistinct DEF Attested
  <2> QED
    BY <2>3, <2>4, <2>6, <2>7
<1> QED
  BY <1>1, IInvAlways, PTL

-----------------------------------------------------------------------------
(* Announcements.                                                          *)

Entry == [kind : {"announced", "cancelled", "executed", "attestor"},
          of : Actions \cup {<<>>}, at : Nat, guarded : BOOLEAN]

LogShape ==
    /\ events \in Seq(Entry)
    /\ timelockEta \in [Actions -> Nat]
    /\ bootstrapped \in [Timelocked -> BOOLEAN]
    /\ now \in Nat

\* Announcement j speaks for the action: since then it has at most been executed
\* where no notice was needed.
Stands(j, action) ==
    /\ j \in Kind("announced") /\ j \in About(action)
    /\ \A k \in About(action) :
         j < k => events[k].kind = "executed" /\ ~events[k].guarded

\* Announcement j stood for the execution i.
Backs(j, i) ==
    /\ j \in Kind("announced") /\ j \in About(events[i].of)
    /\ events[i].at - events[j].at \in TimelockDelay .. TimelockDelay + TimelockGrace
    /\ \A k \in About(events[i].of) :
         j < k /\ k < i => events[k].kind = "executed" /\ ~events[k].guarded

\* A notice that runs was announced TimelockDelay before it is due, and that
\* announcement stands.
NoticesAnnounced ==
    \A action \in Actions :
      timelockEta[action] # 0 =>
        \E j : Stands(j, action) /\ timelockEta[action] = events[j].at + TimelockDelay

\* What is inductive: an execution deletes the notice it is made from, so the
\* last announcement speaks for the running notice and for nothing else.
NoticeInv == LogShape /\ NoticesAnnounced /\ RewiringWasAnnounced

\* An entry more: what the log says of every action.
LEMMA LogGrows ==
    ASSUME LogShape, NEW e \in Entry, events' = Append(events, e)
    PROVE  LET n == Len(events) + 1 IN
           /\ events' \in Seq(Entry)
           /\ events'[n] = e
           /\ \A i \in DOMAIN events : i \in 1 .. Len(events) /\ events'[i] = events[i]
           /\ \A kind : Kind(kind)' = Kind(kind) \cup {i \in {n} : e.kind = kind}
           /\ \A action : About(action)' = About(action) \cup
                {i \in {n} : e.kind \in {"announced", "cancelled", "executed"} /\ e.of = action}
           /\ \A kind : Kind(kind) \subseteq DOMAIN events
           /\ \A action : About(action) \subseteq DOMAIN events
<1> DEFINE n == Len(events) + 1
<1>1. /\ events' \in Seq(Entry) /\ DOMAIN events' = DOMAIN events \cup {n}
      /\ events'[n] = e /\ n \notin DOMAIN events
      /\ \A i \in DOMAIN events : i \in 1 .. Len(events) /\ events'[i] = events[i]
  BY DEF LogShape
<1>2. \A kind : Kind(kind)' = Kind(kind) \cup {i \in {n} : e.kind = kind}
  BY <1>1 DEF Kind
<1>3. \A kind : Kind(kind) \subseteq DOMAIN events
  BY DEF Kind
<1>4. \A action : About(action) \subseteq DOMAIN events
  BY <1>3 DEF About
<1>5. \A action : About(action)' = About(action) \cup
        {i \in {n} : e.kind \in {"announced", "cancelled", "executed"} /\ e.of = action}
  BY <1>1, <1>2, <1>3 DEF About
<1>6. QED
  BY <1>1, <1>2, <1>3, <1>4, <1>5

LEMMA RewiringBacked ==
    RewiringWasAnnounced <=>
      \A i \in Kind("executed") : events[i].guarded => \E j : Backs(j, i)
BY DEF RewiringWasAnnounced, Backs

LEMMA RewiringBackedNext ==
    RewiringWasAnnounced' <=>
      \A i \in Kind("executed")' : events'[i].guarded => \E j : Backs(j, i)'
BY DEF RewiringWasAnnounced, Backs

\* Nothing is logged, and a notice is at most used up.
LEMMA QuietKeepsNotices ==
    ASSUME NoticeInv, UNCHANGED events, timelockEta' \in [Actions -> Nat],
           \A action \in Actions : timelockEta'[action] \in {0, timelockEta[action]}
    PROVE  NoticesAnnounced' /\ RewiringWasAnnounced'
BY DEF NoticeInv, NoticesAnnounced, Stands, RewiringWasAnnounced, Kind, About

\* An announcement stands while nothing is logged about its action but an
\* execution that needed none.
LEMMA StillStands ==
    ASSUME LogShape, NEW e \in Entry, events' = Append(events, e),
           NEW action, NEW j, Stands(j, action),
           e.of = action => (e.kind = "executed" /\ ~e.guarded) \/ e.kind = "attestor"
    PROVE  Stands(j, action)' /\ events'[j] = events[j]
<1> DEFINE n == Len(events) + 1
<1>1. /\ events'[n] = e
      /\ \A i \in DOMAIN events : events'[i] = events[i]
      /\ \A kind : Kind(kind)' = Kind(kind) \cup {i \in {n} : e.kind = kind}
      /\ About(action)' = About(action) \cup
           {i \in {n} : e.kind \in {"announced", "cancelled", "executed"} /\ e.of = action}
      /\ \A kind : Kind(kind) \subseteq DOMAIN events
      /\ About(action) \subseteq DOMAIN events
  BY LogGrows
<1> HIDE DEF n
<1>2. j \in DOMAIN events /\ j \in Kind("announced")' /\ j \in About(action)'
  BY <1>1 DEF Stands
<1>3. ASSUME NEW k \in About(action)', j < k
      PROVE  events'[k].kind = "executed" /\ ~events'[k].guarded
  <2>1. CASE k \in About(action)
    BY <1>1, <1>3, <2>1 DEF Stands
  <2>2. CASE k = n /\ e.of = action /\ e.kind # "attestor"
    BY <1>1, <2>2
  <2>3. QED
    BY <1>1, <2>1, <2>2
<1>4. QED
  BY <1>1, <1>2, <1>3 DEF Stands

\* What backed an execution backs it for good.
LEMMA StillBacks ==
    ASSUME LogShape, NEW e \in Entry, events' = Append(events, e),
           NEW i \in DOMAIN events, NEW j, Backs(j, i)
    PROVE  Backs(j, i)'
<1> DEFINE n == Len(events) + 1
<1>1. /\ \A x \in DOMAIN events : x \in 1 .. Len(events) /\ events'[x] = events[x]
      /\ \A kind : Kind(kind)' = Kind(kind) \cup {x \in {n} : e.kind = kind}
      /\ \A action : About(action)' = About(action) \cup
           {x \in {n} : e.kind \in {"announced", "cancelled", "executed"} /\ e.of = action}
      /\ \A kind : Kind(kind) \subseteq DOMAIN events
      /\ \A action : About(action) \subseteq DOMAIN events
  BY LogGrows
<1>2. ~(n < i)
  BY <1>1 DEF LogShape
<1> HIDE DEF n
<1>3. PICK of : of = events[i].of /\ of = events'[i].of
  BY <1>1
<1>4. /\ j \in Kind("announced")' /\ j \in About(of)' /\ j \in DOMAIN events
  BY <1>1, <1>3 DEF Backs
<1>5. \A k \in About(of)' :
        j < k /\ k < i => events'[k].kind = "executed" /\ ~events'[k].guarded
  <2>1. \A k \in About(of)' : k < i => k \in About(of) /\ events'[k] = events[k]
    BY <1>1, <1>2
  <2>2. QED
    BY <1>3, <2>1 DEF Backs
<1>6. QED
  BY <1>1, <1>3, <1>4, <1>5 DEF Backs

\* A call that is logged: an execution that needed a notice was backed by an
\* announcement that stood, and whatever notice runs now has one.
LEMMA LoggedKeepsNotices ==
    ASSUME NoticeInv, NEW e \in Entry, events' = Append(events, e),
           e.kind = "executed" /\ e.guarded =>
             \E j : /\ Stands(j, e.of)
                    /\ e.at - events[j].at \in TimelockDelay .. TimelockDelay + TimelockGrace,
           \A action \in Actions :
             \/ timelockEta'[action] = 0
             \/ \E j : Stands(j, action)' /\ timelockEta'[action] = events'[j].at + TimelockDelay
             \/ /\ timelockEta'[action] = timelockEta[action]
                /\ e.of = action =>
                     (e.kind = "executed" /\ ~e.guarded) \/ e.kind = "attestor"
    PROVE  NoticesAnnounced' /\ RewiringWasAnnounced'
<1> DEFINE n == Len(events) + 1
<1>1. /\ events'[n] = e
      /\ \A x \in DOMAIN events : x \in 1 .. Len(events) /\ events'[x] = events[x]
      /\ \A kind : Kind(kind)' = Kind(kind) \cup {x \in {n} : e.kind = kind}
      /\ \A action : About(action)' = About(action) \cup
           {x \in {n} : e.kind \in {"announced", "cancelled", "executed"} /\ e.of = action}
      /\ \A kind : Kind(kind) \subseteq DOMAIN events
      /\ \A action : About(action) \subseteq DOMAIN events
  BY LogGrows DEF NoticeInv
<1>2. n \notin DOMAIN events /\ ~(n < n)
  BY DEF NoticeInv, LogShape
<1> HIDE DEF n
<1>3. NoticesAnnounced'
  <2> SUFFICES ASSUME NEW action \in Actions, timelockEta'[action] # 0
               PROVE  \E j : Stands(j, action)'
                               /\ timelockEta'[action] = events'[j].at + TimelockDelay
    BY DEF NoticesAnnounced
  <2>1. CASE /\ timelockEta'[action] = timelockEta[action]
             /\ e.of = action =>
                  (e.kind = "executed" /\ ~e.guarded) \/ e.kind = "attestor"
    <3>1. PICK j : Stands(j, action) /\ timelockEta[action] = events[j].at + TimelockDelay
      BY <2>1 DEF NoticeInv, NoticesAnnounced
    <3>2. Stands(j, action)' /\ events'[j] = events[j]
      BY <2>1, <3>1, StillStands DEF NoticeInv
    <3>3. QED
      BY <2>1, <3>1, <3>2
  <2>2. QED
    BY <2>1
<1>4. RewiringWasAnnounced'
  <2> SUFFICES ASSUME NEW i \in Kind("executed")', events'[i].guarded
               PROVE  \E j : Backs(j, i)'
    BY RewiringBackedNext
  <2>1. CASE i \in Kind("executed")
    <3>1. i \in DOMAIN events /\ events'[i] = events[i]
      BY <1>1, <2>1
    <3>2. PICK j : Backs(j, i)
      BY <2>1, <3>1, RewiringBacked DEF NoticeInv
    <3>3. QED
      BY <3>1, <3>2, StillBacks DEF NoticeInv
  <2>2. CASE i = n /\ e.kind = "executed"
    <3>1. PICK j : /\ Stands(j, e.of)
                   /\ e.at - events[j].at \in TimelockDelay .. TimelockDelay + TimelockGrace
      BY <1>1, <2>2
    <3>2. /\ j \in Kind("announced")' /\ j \in About(e.of)' /\ events'[j] = events[j]
      BY <1>1, <3>1 DEF Stands
    <3>3. \A k \in About(e.of)' : k < n => k \in About(e.of) /\ events'[k] = events[k]
      BY <1>1, <1>2
    <3>4. \A k \in About(e.of)' :
            j < k /\ k < n => events'[k].kind = "executed" /\ ~events'[k].guarded
      BY <3>1, <3>3 DEF Stands
    <3>5. QED
      BY <1>1, <2>2, <3>1, <3>2, <3>4 DEF Backs
  <2>3. QED
    BY <1>1, <2>1, <2>2
<1>5. QED
  BY <1>3, <1>4

LEMMA SeenEntry ==
    ASSUME LogShape, NEW kind \in {"announced", "cancelled", "executed"},
           NEW action \in Actions, Seen(kind, action)
    PROVE  LET e == [kind |-> kind, of |-> action, at |-> now,
                     guarded |-> bootstrapped[On(action)]]
           IN  e \in Entry /\ events' = Append(events, e)
<1>1. On(action) \in Timelocked
  BY DEF On, Timelocked, Actions
<1>2. QED
  BY <1>1 DEF LogShape, Entry, Seen, Logged

LEMMA QueueKeepsNotices ==
    ASSUME NoticeInv, NEW caller, NEW action \in Actions,
           queue(caller, action), Seen("announced", action)
    PROVE  NoticesAnnounced' /\ RewiringWasAnnounced'
<1> DEFINE e == [kind |-> "announced", of |-> action, at |-> now,
                 guarded |-> bootstrapped[On(action)]]
<1>1. e \in Entry /\ events' = Append(events, e) /\ e.of = action /\ e.at = now
      /\ e.kind = "announced"
  BY SeenEntry DEF NoticeInv
<1>2. /\ timelockEta \in [Actions -> Nat]
      /\ timelockEta' = [timelockEta EXCEPT ![action] = now + TimelockDelay]
  BY DEF queue, NoticeInv, LogShape
<1> HIDE DEF e
<1>3. PICK n : /\ n = Len(events) + 1
               /\ events'[n] = e
               /\ n \in Kind("announced")' /\ n \in About(action)'
               /\ About(action)' \subseteq DOMAIN events \cup {n}
  BY <1>1, LogGrows DEF NoticeInv
<1>4. \A x \in About(action)' : ~(n < x)
  BY <1>3 DEF NoticeInv, LogShape
<1>5. Stands(n, action)' /\ timelockEta'[action] = events'[n].at + TimelockDelay
  BY <1>1, <1>2, <1>3, <1>4 DEF Stands
<1>6. \A a \in Actions :
        \/ \E j : Stands(j, a)' /\ timelockEta'[a] = events'[j].at + TimelockDelay
        \/ timelockEta'[a] = timelockEta[a] /\ e.of # a
  <2>1. ASSUME NEW a \in Actions, a # action
        PROVE  timelockEta'[a] = timelockEta[a] /\ e.of # a
    BY <1>1, <1>2, <2>1
  <2>2. QED
    BY <1>5, <2>1
<1>7. QED
  BY <1>1, <1>6, LoggedKeepsNotices

LEMMA CancelKeepsNotices ==
    ASSUME NoticeInv, NEW caller, NEW action \in Actions,
           cancel(caller, action), Seen("cancelled", action)
    PROVE  NoticesAnnounced' /\ RewiringWasAnnounced'
<1> DEFINE e == [kind |-> "cancelled", of |-> action, at |-> now,
                 guarded |-> bootstrapped[On(action)]]
<1>1. e \in Entry /\ events' = Append(events, e) /\ e.of = action /\ e.kind = "cancelled"
  BY SeenEntry DEF NoticeInv
<1> HIDE DEF e
<1>2. \A a \in Actions : timelockEta'[a] = 0 \/ (timelockEta'[a] = timelockEta[a] /\ e.of # a)
  BY <1>1 DEF cancel, NoticeInv, LogShape
<1>3. QED
  BY <1>1, <1>2, LoggedKeepsNotices

\* A notice that is ripe was announced the delay ago, and at most the grace more.
LEMMA ExecuteKeepsNotices ==
    ASSUME NoticeInv, NEW caller, NEW action \in Actions,
           execute(caller, action), Seen("executed", action)
    PROVE  NoticesAnnounced' /\ RewiringWasAnnounced'
<1> DEFINE e == [kind |-> "executed", of |-> action, at |-> now,
                 guarded |-> bootstrapped[On(action)]]
<1>1. /\ e \in Entry /\ events' = Append(events, e) /\ e.of = action /\ e.at = now
      /\ e.kind = "executed" /\ e.guarded = bootstrapped[On(action)]
      /\ timelockEta \in [Actions -> Nat] /\ now \in Nat
  BY SeenEntry DEF NoticeInv, LogShape
<1> HIDE DEF e
<1>2. CASE ~bootstrapped[On(action)]
  <2>1. timelockEta' = timelockEta
    BY <1>2 DEF execute, consume
  <2>2. QED
    BY <1>1, <1>2, <2>1, LoggedKeepsNotices
<1>3. CASE bootstrapped[On(action)]
  <2>1. Ripe(action) /\ timelockEta' = [timelockEta EXCEPT ![action] = 0]
    BY <1>3 DEF execute, consume
  <2>2. PICK j : Stands(j, action) /\ timelockEta[action] = events[j].at + TimelockDelay
    BY <2>1 DEF Ripe, NoticeInv, NoticesAnnounced
  <2>3. events[j].at \in Nat
    <3>1. j \in DOMAIN events
      BY <2>2 DEF Stands, Kind
    <3>2. events[j] \in Entry
      BY <1>1, <3>1 DEF NoticeInv, LogShape
    <3>3. QED
      BY <3>2 DEF Entry
  <2>4. e.at - events[j].at \in TimelockDelay .. TimelockDelay + TimelockGrace
    BY <1>1, <2>1, <2>2, <2>3, TimelockAssumption DEF Ripe
  <2>5. \A a \in Actions : timelockEta'[a] = 0 \/ (timelockEta'[a] = timelockEta[a] /\ e.of # a)
    BY <1>1, <2>1
  <2>6. QED
    BY <1>1, <2>2, <2>4, <2>5, LoggedKeepsNotices
<1>4. QED
  BY <1>2, <1>3

\* A call that is not logged, of the script or a transfer of ownership: it may use
\* up a notice or arm a timelock, and no more.
QuietCall ==
    /\ UNCHANGED <<events, now>>
    /\ \/ UNCHANGED timelockEta
       \/ \E action \in Actions : timelockEta' = [timelockEta EXCEPT ![action] = 0]
    /\ \/ UNCHANGED bootstrapped
       \/ \E c : bootstrapped' = [bootstrapped EXCEPT ![c] = TRUE]

LEMMA QuietCallKeeps ==
    ASSUME NoticeInv, QuietCall
    PROVE  NoticeInv'
<1>1. LogShape'
  <2>1. timelockEta' \in [Actions -> Nat]
    BY DEF QuietCall, NoticeInv, LogShape
  <2>2. bootstrapped' \in [Timelocked -> BOOLEAN]
    BY DEF QuietCall, NoticeInv, LogShape
  <2>3. QED
    BY <2>1, <2>2 DEF QuietCall, NoticeInv, LogShape
<1>2. \A action \in Actions : timelockEta'[action] \in {0, timelockEta[action]}
  BY DEF QuietCall, NoticeInv, LogShape
<1>3. QED
  BY <1>1, <1>2, QuietKeepsNotices DEF QuietCall, NoticeInv, LogShape

LEMMA PerformIsQuiet ==
    ASSUME NEW caller, NEW call, call.name = "wire" => call.of \in Actions,
           Perform(caller, call), UNCHANGED now
    PROVE  QuietCall
<1>1. CASE call.name = "wire" /\ execute(caller, call.of)
  BY <1>1 DEF Perform, execute, consume, QuietCall
<1>2. CASE finalizeBootstrap(caller, call.of)
  BY <1>2 DEF Perform, finalizeBootstrap, QuietCall
<1>3. CASE UNCHANGED lockVars
  BY <1>3 DEF Perform, lockVars, QuietCall
<1>4. QED
  BY <1>1, <1>2, <1>3 DEF Perform

LEMMA GovernKeepsNotices ==
    ASSUME NoticeInv, Govern, UNCHANGED now
    PROVE  NoticeInv'
<1>1. PICK caller \in Addresses :
        \/ \E action \in Actions :
             \/ queue(caller, action) /\ Seen("announced", action)
             \/ cancel(caller, action) /\ Seen("cancelled", action)
             \/ execute(caller, action) /\ Seen("executed", action)
        \/ /\ \/ \E c \in Timelocked : finalizeBootstrap(caller, c)
              \/ \E c \in Offered :
                   \/ acceptOwnership(caller, c)
                   \/ \E newOwner \in Addresses : transferOwnership(caller, c, newOwner)
           /\ UNCHANGED events
  BY DEF Govern
<1>2. ASSUME NEW action \in Actions,
             \/ queue(caller, action) /\ Seen("announced", action)
             \/ cancel(caller, action) /\ Seen("cancelled", action)
             \/ execute(caller, action) /\ Seen("executed", action)
      PROVE  NoticeInv'
  <2>1. LogShape'
    <3>1. events' \in Seq(Entry)
      <4>1. \E e \in Entry : events' = Append(events, e)
        BY <1>2, SeenEntry DEF NoticeInv
      <4>2. QED
        BY <4>1 DEF NoticeInv, LogShape
    <3>2. timelockEta' \in [Actions -> Nat] /\ UNCHANGED bootstrapped
      BY <1>2, TimelockAssumption DEF queue, cancel, execute, consume, NoticeInv, LogShape
    <3>3. QED
      BY <3>1, <3>2 DEF NoticeInv, LogShape
  <2>2. NoticesAnnounced' /\ RewiringWasAnnounced'
    BY <1>2, QueueKeepsNotices, CancelKeepsNotices, ExecuteKeepsNotices
  <2>3. QED
    BY <2>1, <2>2 DEF NoticeInv
<1>3. ASSUME \/ \E c \in Timelocked : finalizeBootstrap(caller, c)
             \/ UNCHANGED lockVars,
             UNCHANGED events
      PROVE  NoticeInv'
  <2>1. QuietCall
    BY <1>3 DEF finalizeBootstrap, lockVars, QuietCall
  <2>2. QED
    BY <2>1, QuietCallKeeps
<1>4. QED
  BY <1>1, <1>2, <1>3 DEF acceptOwnership, transferOwnership

LEMMA ListedWires ==
    ASSUME IInv, NEW i \in DOMAIN List
    PROVE  List[i].name = "wire" => List[i].of \in Actions
  BY ListSound DEF IInv, SoundCall

LEMMA NoticeNextInv ==
    ASSUME IInv, NoticeInv, [Next]_deploymentVars
    PROVE  NoticeInv'
<1>1. CASE CallLands
  <2>1. next \in DOMAIN List
    BY <1>1, ListSound DEF CallLands, Working, IInv
  <2>2. QED
    BY <1>1, <2>1, ListedWires, PerformIsQuiet, QuietCallKeeps DEF CallLands
<1>2. CASE CallFails
  <2>1. next \in DOMAIN List
    BY <1>2, ListSound DEF CallFails, Working, IInv
  <2>2. CASE UNCHANGED chainVars
    BY <1>2, <2>2, QuietCallKeeps DEF CallFails, chainVars, lockVars, QuietCall
  <2>3. CASE Perform(Deployer, List[next])
    BY <1>2, <2>1, <2>3, ListedWires, PerformIsQuiet, QuietCallKeeps DEF CallFails
  <2>4. QED
    BY <1>2, <2>2, <2>3 DEF CallFails
<1>3. CASE FollowManifest
  <2>1. pending[next] \in DOMAIN List
    <3>1. /\ phase = "pending" /\ next \in Nat \ {0} /\ pending \in Seq(DOMAIN List)
          /\ Len(pending) \in Nat /\ phase = "pending" => next <= Len(pending)
      BY <1>3 DEF FollowManifest, IInv
    <3>2. next \in 1 .. Len(pending)
      BY <3>1
    <3>3. QED
      BY <3>1, <3>2
  <2>2. QED
    BY <1>3, <2>1, ListedWires, PerformIsQuiet, QuietCallKeeps DEF FollowManifest
<1>4. CASE UNCHANGED <<chainVars, now>>
  BY <1>4, QuietCallKeeps DEF chainVars, lockVars, QuietCall
<1>5. CASE Tick /\ UNCHANGED chainVars
  <2>1. LogShape'
    BY <1>5 DEF Tick, chainVars, lockVars, NoticeInv, LogShape
  <2>2. \A action \in Actions : timelockEta'[action] \in {0, timelockEta[action]}
    BY <1>5 DEF chainVars, lockVars
  <2>3. QED
    BY <1>5, <2>1, <2>2, QuietKeepsNotices DEF chainVars, NoticeInv, LogShape
<1>6. CASE Administer
  <2>1. CASE Govern
    BY <1>6, <2>1, GovernKeepsNotices DEF Administer
  <2>2. CASE Logged("attestor", <<>>, FALSE) /\ UNCHANGED lockVars
    <3> DEFINE e == [kind |-> "attestor", of |-> <<>>, at |-> now, guarded |-> FALSE]
    <3>1. e \in Entry /\ events' = Append(events, e) /\ e.kind = "attestor"
      BY <2>2 DEF Logged, Entry, NoticeInv, LogShape
    <3>2. UNCHANGED <<timelockEta, bootstrapped, now>>
      BY <1>6, <2>2 DEF Administer, lockVars
    <3> HIDE DEF e
    <3>3. LogShape'
      BY <3>1, <3>2 DEF NoticeInv, LogShape
    <3>4. NoticesAnnounced' /\ RewiringWasAnnounced'
      BY <3>1, <3>2, LoggedKeepsNotices
    <3>5. QED
      BY <3>3, <3>4 DEF NoticeInv
  <2>3. QED
    BY <1>6, <2>1, <2>2 DEF Administer
<1>7. QED
  BY <1>1, <1>2, <1>3, <1>4, <1>5, <1>6
     DEF Next, Defer, WriteManifest, LeaveManifest, deploymentVars, historyVars, vars,
         chainVars

\* No slot changes hands unannounced once its contract is armed, whatever is
\* queued, withdrawn and queued again, by however many owners: the notice is the last
\* one given, it was not withdrawn, and no execution after the bootstrap used it.
THEOREM RewiringAlwaysAnnounced == Spec => []RewiringWasAnnounced
<1>1. Init => NoticeInv
  <2> SUFFICES ASSUME Init PROVE NoticeInv
    OBVIOUS
  <2>1. events = <<>> /\ Kind("executed") = {}
    BY DEF Init, HistoryInit, Kind
  <2>2. LogShape
    BY <2>1 DEF Init, HistoryInit, LockInit, LogShape
  <2>3. NoticesAnnounced
    BY DEF Init, HistoryInit, LockInit, NoticesAnnounced
  <2>4. QED
    BY <2>1, <2>2, <2>3 DEF NoticeInv, RewiringWasAnnounced
<1>2. IInv /\ NoticeInv /\ [Next]_deploymentVars => NoticeInv'
  BY NoticeNextInv
<1>3. NoticeInv => RewiringWasAnnounced
  BY DEF NoticeInv
<1>4. QED
  BY <1>1, <1>2, <1>3, IInvAlways, PTL DEF Spec

-----------------------------------------------------------------------------
(* The order of the list.                                                  *)

LEMMA WiredActions == Wired \subseteq Actions
<1>1. CoreWiring \in Seq(Actions) /\ GoldWiring \in Seq(Actions)
  BY DeploymentAssumption
<1> QED
  BY <1>1 DEF Wired

LEMMA PerformTypes ==
    ASSUME LockTypeOK, NEW caller, NEW call \in SoundCall, Perform(caller, call), UNCHANGED now
    PROVE  LockTypeOK' /\ tuned' \subseteq tuned \cup Tuned
<1>1. CASE call.name = "wire" /\ execute(caller, call.of) /\ UNCHANGED tuned
  <2>1. call.of \in Slots \X Wires
    BY <1>1 DEF SoundCall, Actions
  <2>2. wiring' \in [Slots -> Wires \cup {Unwired}]
    BY <1>1, <2>1 DEF execute, LockTypeOK
  <2>3. timelockEta' \in [Actions -> Nat]
    BY <1>1 DEF execute, consume, LockTypeOK
  <2> QED
    BY <1>1, <2>2, <2>3 DEF execute, LockTypeOK, ownership
<1>2. CASE finalizeBootstrap(caller, call.of) /\ UNCHANGED tuned
  BY <1>2 DEF finalizeBootstrap, LockTypeOK, ownership
<1>3. CASE UNCHANGED <<ownership, lockVars, tuned>>
  BY <1>3 DEF LockTypeOK, ownership, lockVars
<1>4. CASE call.name = "tune" /\ tuned' = tuned \cup {call.of} /\ UNCHANGED <<ownership, lockVars>>
  BY <1>4 DEF LockTypeOK, ownership, lockVars, SoundCall
<1> QED
  BY <1>1, <1>2, <1>3, <1>4 DEF Perform

LEMMA GovernTypes ==
    ASSUME LockTypeOK, Govern, UNCHANGED now
    PROVE  LockTypeOK'
<1>1. PICK caller \in Addresses :
        \/ \E action \in Actions :
             queue(caller, action) \/ cancel(caller, action) \/ execute(caller, action)
        \/ \E c \in Timelocked : finalizeBootstrap(caller, c)
        \/ \E c \in Offered : acceptOwnership(caller, c)
        \/ \E c \in Offered, newOwner \in Addresses : transferOwnership(caller, c, newOwner)
  BY DEF Govern
<1>2. CASE \E action \in Actions :
             queue(caller, action) \/ cancel(caller, action) \/ execute(caller, action)
  <2>1. PICK action \in Actions :
          queue(caller, action) \/ cancel(caller, action) \/ execute(caller, action)
    BY <1>2
  <2>2. timelockEta' \in [Actions -> Nat]
    BY <2>1, TimelockAssumption DEF queue, cancel, execute, consume, LockTypeOK
  <2>3. wiring' \in [Slots -> Wires \cup {Unwired}]
    <3>1. action \in Slots \X Wires
      BY DEF Actions
    <3> QED
      BY <2>1, <3>1 DEF queue, cancel, execute, LockTypeOK
  <2> QED
    BY <2>1, <2>2, <2>3 DEF queue, cancel, execute, LockTypeOK, ownership
<1>3. CASE \E c \in Timelocked : finalizeBootstrap(caller, c)
  BY <1>3 DEF finalizeBootstrap, LockTypeOK, ownership
<1>4. CASE \E c \in Offered : acceptOwnership(caller, c)
  <2>1. PICK c \in Offered : acceptOwnership(caller, c)
    BY <1>4
  <2>2. owner' = [owner EXCEPT ![c] = caller] /\ pendingOwner' = [pendingOwner EXCEPT ![c] = Nobody]
    BY <2>1 DEF acceptOwnership
  <2>3. /\ owner' \in [Contracts -> Addresses]
        /\ pendingOwner' \in [Contracts -> Addresses \cup {Nobody}]
    BY <2>2 DEF LockTypeOK
  <2> QED
    BY <2>1, <2>3 DEF acceptOwnership, LockTypeOK, lockVars
<1>5. CASE \E c \in Offered, newOwner \in Addresses : transferOwnership(caller, c, newOwner)
  BY <1>5 DEF transferOwnership, LockTypeOK, lockVars
<1> QED
  BY <1>1, <1>2, <1>3, <1>4, <1>5

\* A call that succeeds has landed.
LEMMA PerformLands ==
    ASSUME LockTypeOK, NEW caller, NEW call \in SoundCall, Perform(caller, call)
    PROVE  Landed(call)'
<1>1. CASE call.name = "wire" /\ execute(caller, call.of)
  <2>1. call.of[1] \in Slots
    BY <1>1 DEF SoundCall, Actions
  <2>2. wiring'[call.of[1]] = call.of[2]
    BY <1>1, <2>1 DEF execute, LockTypeOK
  <2> QED
    BY <1>1, <2>2 DEF Landed
<1>2. CASE call.name = "finalize" /\ finalizeBootstrap(caller, call.of)
  <2>1. call.of \in Timelocked
    BY <1>2 DEF SoundCall
  <2>2. bootstrapped'[call.of]
    BY <1>2, <2>1 DEF finalizeBootstrap, LockTypeOK
  <2> QED
    BY <1>2, <2>2 DEF Landed
<1>3. CASE call.name = "tune" /\ tuned' = tuned \cup {call.of}
  BY <1>3 DEF Landed
<1>4. CASE call.name = "publisher" /\ setPublisher(call.of, TRUE)
  BY <1>4 DEF Landed, setPublisher, Listed
<1>5. CASE call.name = "quorum" /\ setQuorum(call.of, DefaultMaxAge)
  BY <1>5 DEF Landed, setQuorum
<1> QED
  BY <1>1, <1>2, <1>3, <1>4, <1>5 DEF Perform

\* No call of the list takes back what another has set.
LEMMA LandedStays ==
    ASSUME LockTypeOK, NEW caller, NEW call \in SoundCall, Perform(caller, call),
           NEW other \in SoundCall, Landed(other)
    PROVE  Landed(other)'
<1>1. CASE other.name = "wire" /\ wiring[other.of[1]] = other.of[2]
  <2>1. CASE call.name = "wire" /\ execute(caller, call.of)
    <3>1. call.of \in Wired /\ other.of \in Wired /\ call.of \in Slots \X Wires
      BY <1>1, <2>1 DEF SoundCall, Actions
    <3>2. CASE call.of[1] = other.of[1]
      BY <2>1, <1>1, <3>1, <3>2, WiringAssumption, PerformLands DEF Landed
    <3>3. CASE call.of[1] # other.of[1]
      <4>1. wiring'[other.of[1]] = wiring[other.of[1]]
        BY <2>1, <3>3 DEF execute, LockTypeOK
      <4> QED
        BY <1>1, <4>1 DEF Landed
    <3> QED
      BY <3>2, <3>3
  <2>2. CASE UNCHANGED wiring
    BY <1>1, <2>2 DEF Landed
  <2> QED
    BY <2>1, <2>2 DEF Perform, finalizeBootstrap, lockVars
<1>2. CASE other.name = "finalize" /\ bootstrapped[other.of]
  <2>1. \/ UNCHANGED bootstrapped
        \/ bootstrapped' = [bootstrapped EXCEPT ![call.of] = TRUE]
    BY DEF Perform, execute, finalizeBootstrap, lockVars
  <2>2. other.of \in Timelocked /\ bootstrapped \in [Timelocked -> BOOLEAN]
    BY <1>2 DEF SoundCall, LockTypeOK
  <2>3. bootstrapped'[other.of]
    BY <1>2, <2>1, <2>2
  <2> QED
    BY <1>2, <2>3 DEF Landed
<1>3. CASE other.name = "tune" /\ other.of \in tuned
  BY <1>3 DEF Landed, Perform
<1>4. CASE other.name = "publisher" /\ other.of \in publishers
  BY <1>4 DEF Landed, Perform, setPublisher, setQuorum, Listed, attestorVars
<1>5. CASE other.name = "quorum" /\ quorum = other.of
  <2>1. CASE call.name = "quorum" /\ setQuorum(call.of, DefaultMaxAge)
    BY <1>5, <2>1 DEF Landed, SoundCall, setQuorum
  <2>2. CASE UNCHANGED quorum
    BY <1>5, <2>2 DEF Landed
  <2> QED
    BY <2>1, <2>2 DEF Perform, setPublisher, attestorVars
<1> QED
  BY <1>1, <1>2, <1>3, <1>4, <1>5 DEF Landed

\* The calls of the list that were made.
Sent == {i \in DOMAIN List : i < next /\ ~(phase = "wiring" /\ Deferred)}

\* Everything sent has landed, and nothing is armed before the rest was sent.
SentHasLanded(S) ==
    /\ \A i \in S : Landed(List[i])
    /\ \A c \in Timelocked : bootstrapped[c] =>
         \A i \in DOMAIN List : List[i].name # "finalize" => i \in S

\* What is left to the owner is the list, in its order.
PendingIsList ==
    /\ \A i \in DOMAIN pending : pending[i] = i
    /\ phase = "wiring" => Len(pending) = IF Deferred THEN next - 1 ELSE 0
    /\ phase = "pending" => Deferred /\ Len(pending) = Len(List) /\ next <= Len(List)

\* What is inductive: everything that was sent has landed, and when a timelock
\* is armed, all that is not arming was sent.
ListInv ==
    /\ TypeOK
    /\ PendingIsList
    /\ phase \in {"wiring", "pending"} => SentHasLanded(Sent)

LEMMA SettingStays ==
    ASSUME [Next]_deploymentVars
    PROVE  setting' = setting /\ List' = List /\ Deferred' = Deferred /\ Tuned' = Tuned
<1>1. setting' = setting
  BY DEF Next, Defer, CallLands, CallFails, WriteManifest, FollowManifest, LeaveManifest,
         Administer, deploymentVars, scriptVars
<1> QED
  BY <1>1 DEF List, Settings, Wiring, Armed, Deferred, Tuned

\* The next call of the list is made: it lands, what has landed stays, and if it
\* arms, nothing but arming is left.
LEMMA SentStep ==
    ASSUME IInv, TypeOK, NEW caller, NEW n \in DOMAIN List, NEW S, NEW call,
           S = {i \in DOMAIN List : i < n},
           call = List[n], Perform(caller, call), UNCHANGED <<setting, now>>, List' = List,
           SentHasLanded(S)
    PROVE  SentHasLanded(S \cup {n})'
<1> USE DEF SentHasLanded
<1>1. List \in Seq(SoundCall) /\ call \in SoundCall
  BY ListSound DEF IInv
<1>2. ASSUME NEW i \in S \cup {n}
      PROVE  Landed(List[i])'
  <2>1. PICK other : other = List[i]
    OBVIOUS
  <2>2. other \in SoundCall
    BY <1>1, <2>1
  <2>3. Landed(other)'
    <3>1. CASE i = n
      BY <1>1, <2>1, <3>1, PerformLands DEF TypeOK
    <3>2. CASE i \in S
      BY <1>1, <2>1, <2>2, <3>2, LandedStays DEF TypeOK
    <3> QED
      BY <3>1, <3>2
  <2>4. other = List'[i]
    BY <2>1
  <2> QED
    BY <2>3, <2>4, Zenon
<1>3. ASSUME NEW c \in Timelocked, bootstrapped'[c], NEW i \in DOMAIN List, List[i].name # "finalize"
      PROVE  i \in S
  <2>1. CASE bootstrapped[c]
    BY <1>3, <2>1
  <2>2. CASE call.name = "finalize"
    <3>1. ~(n <= i)
      BY <1>3, <2>2, ArmsLast DEF IInv
    <3> QED
      BY <1>1, <3>1
  <2>3. CASE UNCHANGED bootstrapped
    BY <1>3, <2>3
  <2> QED
    BY <2>1, <2>2, <2>3 DEF Perform, execute, finalizeBootstrap, lockVars
<1> QED
  BY <1>2, <1>3

LEMMA ChainStays ==
    ASSUME UNCHANGED <<chainVars, now, setting>>, List' = List, NEW S, SentHasLanded(S)
    PROVE  SentHasLanded(S)'
<1>1. ASSUME NEW call, Landed(call) PROVE Landed(call)'
  BY <1>1 DEF Landed, chainVars, lockVars, attestorVars
<1>2. ASSUME NEW i \in S PROVE Landed(List[i])'
  <2>1. PICK call : call = List[i] /\ call = List'[i]
    OBVIOUS
  <2>2. Landed(call)'
    BY <1>1, <1>2, <2>1 DEF SentHasLanded
  <2> QED
    BY <2>1, <2>2, Zenon
<1> QED
  BY <1>2 DEF SentHasLanded, chainVars, lockVars

LEMMA ChainTypes ==
    ASSUME IInv, TypeOK, [Next]_deploymentVars
    PROVE  LockTypeOK' /\ tuned' \subseteq Tuned'
<1>1. LockTypeOK /\ tuned \subseteq Tuned
  BY DEF TypeOK, Tuned
<1>2. Tuned' = Tuned
  BY SettingStays
<1>3. List \in Seq(SoundCall)
  BY ListSound DEF IInv
<1>4. CASE UNCHANGED <<chainVars, now>>
  BY <1>1, <1>2, <1>4 DEF chainVars, ownership, lockVars, LockTypeOK
<1>5. ASSUME NEW caller, NEW n \in DOMAIN List, Perform(caller, List[n]), UNCHANGED now
      PROVE  LockTypeOK' /\ tuned' \subseteq Tuned'
  <2>1. List[n] \in SoundCall
    BY <1>3
  <2> QED
    BY <1>1, <1>2, <1>5, <2>1, PerformTypes
<1>6. Working => next \in DOMAIN List
  BY <1>3 DEF Working, IInv
<1>7. CASE FollowManifest
  <2>1. pending[next] \in DOMAIN List
    <3>1. /\ phase = "pending" /\ next \in Nat \ {0} /\ pending \in Seq(DOMAIN List)
          /\ Len(pending) \in Nat /\ phase = "pending" => next <= Len(pending)
      BY <1>7 DEF FollowManifest, IInv
    <3>2. next \in 1 .. Len(pending)
      BY <3>1
    <3> QED
      BY <3>1, <3>2
  <2> QED
    BY <1>5, <1>7, <2>1 DEF FollowManifest
<1>8. CASE Administer
  <2>1. UNCHANGED <<tuned, now>>
    BY <1>8 DEF Administer
  <2>2. LockTypeOK'
    <3>1. CASE Govern
      BY <1>1, <2>1, <3>1, GovernTypes
    <3>2. CASE UNCHANGED <<ownership, lockVars>>
      BY <1>1, <2>1, <3>2 DEF ownership, lockVars, LockTypeOK
    <3> QED
      BY <1>8, <3>1, <3>2 DEF Administer
  <2> QED
    BY <1>1, <1>2, <2>1, <2>2
<1>9. CASE Tick /\ UNCHANGED chainVars
  BY <1>1, <1>2, <1>9 DEF Tick, chainVars, ownership, lockVars, LockTypeOK
<1> QED
  BY <1>4, <1>5, <1>6, <1>7, <1>8, <1>9
     DEF Next, Defer, CallLands, CallFails, WriteManifest, LeaveManifest, deploymentVars,
         historyVars, vars, chainVars

LEMMA ListInvNext ==
    ASSUME IInv, ListInv, [Next]_deploymentVars
    PROVE  ListInv'
<1>1. /\ setting' = setting /\ List' = List /\ (Deferred' <=> Deferred)
  BY SettingStays
<1>2. LockTypeOK' /\ tuned' \subseteq {setting'.tune[i] : i \in DOMAIN setting'.tune}
  BY ChainTypes DEF ListInv, Tuned
<1>3. AttestorTypeOK'
  BY IInvNext DEF IInv, AttestorInv
<1>4. /\ TypeOK /\ PendingIsList
      /\ phase \in {"wiring", "pending"} => SentHasLanded(Sent)
  BY DEF ListInv
<1>5. /\ List \in Seq(SoundCall) /\ Len(List) \in Nat /\ DOMAIN List = 1 .. Len(List)
      /\ next \in 1 .. Len(List) + 1
      /\ pending \in Seq(DOMAIN List) /\ Len(pending) \in Nat
      /\ DOMAIN pending = 1 .. Len(pending)
  <2>1. List \in Seq(SoundCall) /\ pending \in Seq(DOMAIN List)
    BY ListSound DEF IInv
  <2>2. next \in 1 .. Len(List) + 1
    BY <1>4 DEF TypeOK
  <2> QED
    BY <2>1, <2>2
<1>6. TypeOK' <=> next' \in 1 .. Len(List) + 1
                  /\ phase' \in {"wiring", "pending", "handed over", "died"}
  BY <1>1, <1>2, <1>3 DEF TypeOK
<1>7. Sent' = {i \in DOMAIN List : i < next' /\ ~(phase' = "wiring" /\ Deferred)}
  BY <1>1 DEF Sent
<1>8. CASE Defer
  <2>1. /\ phase = "wiring" /\ phase' = "wiring" /\ Deferred /\ next <= Len(List)
        /\ pending' = Append(pending, next) /\ next' = next + 1
        /\ UNCHANGED <<chainVars, now, setting>>
    BY <1>8 DEF Defer, Working
  <2>2. TypeOK'
    BY <1>5, <1>6, <2>1
  <2>3. PendingIsList'
    <3>1. Len(pending) = next - 1 /\ \A i \in DOMAIN pending : pending[i] = i
      BY <1>4, <2>1 DEF PendingIsList
    <3>2. Len(pending') = next /\ \A i \in DOMAIN pending' : pending'[i] = i
      BY <1>5, <2>1, <3>1
    <3> QED
      BY <1>1, <1>5, <2>1, <3>2 DEF PendingIsList
  <2>4. SentHasLanded(Sent)'
    <3>1. Sent = {} /\ Sent' = {}
      BY <1>7, <2>1 DEF Sent
    <3>2. SentHasLanded({})'
      BY <1>1, <1>4, <2>1, <3>1, ChainStays
    <3> QED
      BY <3>1, <3>2 DEF SentHasLanded
  <2> QED
    BY <2>2, <2>3, <2>4 DEF ListInv
<1>9. CASE CallLands
  <2>1. /\ phase = "wiring" /\ phase' = "wiring" /\ ~Deferred /\ next <= Len(List)
        /\ Perform(Deployer, List[next]) /\ next' = next + 1
        /\ UNCHANGED <<now, setting, pending>>
    BY <1>9 DEF CallLands, Working
  <2>2. TypeOK'
    BY <1>5, <1>6, <2>1
  <2>3. PendingIsList'
    BY <1>1, <1>4, <2>1 DEF PendingIsList
  <2>4. PICK n : n = next /\ n \in DOMAIN List
    BY <1>5, <2>1
  <2>5. PICK S : S = Sent /\ S = {i \in DOMAIN List : i < n}
    BY <2>1, <2>4 DEF Sent
  <2>6. PICK call : call = List[n]
    OBVIOUS
  <2>7. SentHasLanded(S \cup {n})'
    <3>1. Perform(Deployer, call)
      BY <2>1, <2>4, <2>6
    <3>2. SentHasLanded(S)
      BY <1>4, <2>1, <2>5
    <3> QED
      BY <1>1, <1>4, <2>1, <2>4, <2>5, <2>6, <3>1, <3>2, SentStep
  <2>8. Sent' = S \cup {n}
    BY <1>5, <1>7, <2>1, <2>4, <2>5
  <2> QED
    BY <2>2, <2>3, <2>7, <2>8 DEF ListInv, SentHasLanded
<1>10. CASE FollowManifest
  <2>1. /\ phase = "pending" /\ next \in DOMAIN List /\ pending[next] = next
        /\ Len(pending) = Len(List)
    <3>1. phase = "pending"
      BY <1>10 DEF FollowManifest
    <3>2. Len(pending) = Len(List) /\ next <= Len(List) /\ \A i \in DOMAIN pending : pending[i] = i
      BY <1>4, <3>1 DEF PendingIsList
    <3> QED
      BY <1>5, <3>1, <3>2
  <2>2. /\ Perform(setting.owner, List[next]) /\ next' = next + 1
        /\ phase' = IF next = Len(pending) THEN "handed over" ELSE phase
        /\ UNCHANGED <<now, setting, pending>>
    BY <1>10, <2>1 DEF FollowManifest
  <2>3. TypeOK'
    <3>1. next' \in 1 .. Len(List) + 1
      <4>1. Len(List) \in Nat /\ next \in 1 .. Len(List) /\ next' = next + 1
        BY <1>5, <2>1, <2>2
      <4> QED
        BY <4>1
    <3> QED
      BY <1>6, <2>1, <2>2, <3>1
  <2>4. PendingIsList'
    <3>1. phase' = "pending" => next' <= Len(List)
      BY <1>5, <2>1, <2>2
    <3>2. phase' # "wiring"
      BY <2>1, <2>2
    <3> QED
      BY <1>1, <1>4, <2>1, <2>2, <3>1, <3>2 DEF PendingIsList
  <2>5. PICK n : n = next /\ n \in DOMAIN List
    BY <2>1
  <2>6. PICK S : S = Sent /\ S = {i \in DOMAIN List : i < n}
    BY <2>1, <2>5 DEF Sent
  <2>7. PICK call : call = List[n]
    OBVIOUS
  <2>8. SentHasLanded(S \cup {n})'
    <3>1. Perform(setting.owner, call)
      BY <2>2, <2>5, <2>7
    <3>2. SentHasLanded(S)
      BY <1>4, <2>1, <2>6
    <3>3. PICK caller : caller = setting.owner
      OBVIOUS
    <3> QED
      BY <1>1, <1>4, <2>2, <2>5, <2>6, <2>7, <3>1, <3>2, <3>3, SentStep
  <2>9. phase' # "wiring"
    BY <2>1, <2>2
  <2>10. Sent' = S \cup {n}
    <3>1. Sent' = {i \in DOMAIN List : i < n + 1}
      BY <1>7, <2>2, <2>5, <2>9
    <3> QED
      BY <1>5, <2>5, <2>6, <3>1
  <2> QED
    BY <2>3, <2>4, <2>8, <2>9, <2>10 DEF ListInv, SentHasLanded
<1>11. CASE WriteManifest
  <2>1. /\ phase = "wiring" /\ phase' = (IF pending = <<>> THEN "handed over" ELSE "pending")
        /\ next = Len(List) + 1 /\ next' = 1
        /\ UNCHANGED <<chainVars, now, setting, pending>>
    BY <1>11 DEF WriteManifest
  <2>2. TypeOK'
    <3>1. next' \in 1 .. Len(List) + 1
      <4>1. Len(List) \in Nat /\ next' = 1
        BY <1>5, <2>1
      <4> QED
        BY <4>1
    <3> QED
      BY <1>6, <2>1, <3>1
  <2>3. phase' = "pending" => Len(pending) # 0
    BY <1>5, <2>1
  <2>4. /\ Len(pending) = IF Deferred THEN next - 1 ELSE 0
        /\ \A i \in DOMAIN pending : pending[i] = i
    BY <1>4, <2>1 DEF PendingIsList
  <2>5. phase' = "pending" => Deferred /\ Len(pending) = Len(List) /\ next' <= Len(List)
    BY <1>5, <2>1, <2>3, <2>4
  <2>6. PendingIsList'
    BY <1>1, <2>1, <2>4, <2>5 DEF PendingIsList
  <2>7. phase' \in {"wiring", "pending"} => SentHasLanded(Sent)'
    <3> SUFFICES ASSUME phase' = "pending" PROVE SentHasLanded(Sent)'
      BY <2>1
    <3>1. Sent = {} /\ Sent' = {}
      BY <1>7, <2>1, <2>5 DEF Sent
    <3>2. SentHasLanded({})'
      BY <1>1, <1>4, <2>1, <3>1, ChainStays
    <3> QED
      BY <3>1, <3>2 DEF SentHasLanded
  <2> QED
    BY <2>2, <2>6, <2>7 DEF ListInv
<1>12. ASSUME phase' \in {"handed over", "died"}, UNCHANGED pending,
              next' \in 1 .. Len(List) + 1
       PROVE  ListInv'
  <2>1. TypeOK'
    BY <1>6, <1>12
  <2>2. PendingIsList'
    BY <1>4, <1>12 DEF PendingIsList
  <2> QED
    BY <1>12, <2>1, <2>2 DEF ListInv
<1>13. CASE CallFails
  BY <1>5, <1>12, <1>13 DEF CallFails
<1>14. CASE LeaveManifest \/ Administer \/ (Tick /\ phase \in {"handed over", "died"}
                                             /\ UNCHANGED <<chainVars, scriptVars>>)
  BY <1>5, <1>12, <1>14 DEF LeaveManifest, Administer, scriptVars
<1>15. CASE UNCHANGED deploymentVars
  <2>1. UNCHANGED <<chainVars, now, setting, phase, next, pending>>
    BY <1>15 DEF deploymentVars, historyVars, vars, scriptVars, chainVars
  <2>2. TypeOK' /\ PendingIsList'
    BY <1>1, <1>4, <1>5, <1>6, <2>1 DEF TypeOK, PendingIsList
  <2>3. PICK S : S = Sent /\ S = Sent'
    BY <1>1, <2>1 DEF Sent
  <2>4. phase' \in {"wiring", "pending"} => SentHasLanded(S)'
    BY <1>1, <1>4, <2>1, <2>3, ChainStays
  <2> QED
    BY <2>2, <2>3, <2>4 DEF ListInv, SentHasLanded
<1> QED
  BY <1>8, <1>9, <1>10, <1>11, <1>13, <1>14, <1>15 DEF Next

LEMMA ListInvAlways == Spec => []ListInv
<1>1. Init => ListInv
  <2> SUFFICES ASSUME Init PROVE ListInv
    OBVIOUS
  <2>1. IInv
    BY IInvInit
  <2>2. Len(List) \in Nat
    BY <2>1, ListSound DEF IInv
  <2>3. LockTypeOK
    <3>1. setting.owner \in Addresses
      BY <2>1, DeploymentAssumption DEF IInv
    <3> QED
      BY <3>1 DEF Init, HistoryInit, LockInit, LockTypeOK
  <2>4. TypeOK
    BY <2>1, <2>2, <2>3 DEF Init, TypeOK, IInv, AttestorInv
  <2>5. PendingIsList
    BY DEF Init, PendingIsList
  <2>6. SentHasLanded(Sent)
    <3>1. Sent = {}
      BY DEF Init, Sent
    <3>2. \A c \in Timelocked : ~bootstrapped[c]
      BY DEF Init, HistoryInit, LockInit
    <3> QED
      BY <3>1, <3>2 DEF SentHasLanded
  <2> QED
    BY <2>4, <2>5, <2>6 DEF ListInv
<1>2. IInv /\ ListInv /\ [Next]_deploymentVars => ListInv'
  BY ListInvNext
<1> QED
  BY <1>1, <1>2, IInvAlways, PTL DEF Spec

\* No timelock is armed before everything else on the list has landed, whoever
\* works the list off and wherever he stops: for every list and every setting.
THEOREM ArmedAlwaysSettled == Spec => []ArmedMeansSettled
<1>1. ListInv => ArmedMeansSettled
  BY DEF ListInv, ArmedMeansSettled, SentHasLanded
<1> QED
  BY <1>1, ListInvAlways, PTL

\* The manifest is true when it is written: what it does not list has landed.
THEOREM ManifestAlwaysTrue == Spec => ManifestIsTrue
<1>1. ASSUME IInv, ListInv, [Next]_deploymentVars, manifest' # manifest
      PROVE  ManifestTrue'
  <2>1. WriteManifest
    BY <1>1 DEF Next, Defer, CallLands, CallFails, FollowManifest, LeaveManifest, Administer,
         deploymentVars, scriptVars
  <2>2. /\ phase = "wiring" /\ next = Len(List) + 1
        /\ manifest' = {[armed |-> {c \in Timelocked : bootstrapped[c]},
                         pending |-> {pending[i] : i \in DOMAIN pending}]}
        /\ UNCHANGED <<chainVars, now, setting, pending>> /\ List' = List
    BY <1>1, <2>1, SettingStays DEF WriteManifest
  <2>3. /\ List \in Seq(SoundCall) /\ Len(List) \in Nat /\ DOMAIN List = 1 .. Len(List)
        /\ pending \in Seq(DOMAIN List) /\ DOMAIN pending = 1 .. Len(pending)
    <3>1. List \in Seq(SoundCall) /\ pending \in Seq(DOMAIN List)
      BY <1>1, ListSound DEF IInv
    <3> QED
      BY <3>1
  <2>4. ASSUME NEW i \in DOMAIN List
        PROVE  Landed(List[i])' \/ i \in {pending[k] : k \in DOMAIN pending}
    <3>1. CASE Deferred
      <4>1. DOMAIN pending = DOMAIN List /\ \A k \in DOMAIN pending : pending[k] = k
        BY <1>1, <2>2, <2>3, <3>1 DEF ListInv, PendingIsList
      <4> QED
        BY <2>4, <4>1
    <3>2. CASE ~Deferred
      <4>1. i \in Sent
        BY <2>2, <2>3, <2>4, <3>2 DEF Sent
      <4>2. SentHasLanded(Sent)
        BY <1>1, <2>2 DEF ListInv
      <4>3. PICK S : S = Sent
        OBVIOUS
      <4>4. SentHasLanded(S)'
        BY <2>2, <4>2, <4>3, ChainStays
      <4> QED
        BY <4>1, <4>3, <4>4 DEF SentHasLanded
    <3> QED
      BY <3>1, <3>2
  <2>5. UNCHANGED bootstrapped
    BY <2>2 DEF chainVars, lockVars
  <2>6. ASSUME NEW m \in manifest'
        PROVE  m.armed = {c \in Timelocked : bootstrapped'[c]}
                 /\ m.pending = {pending[k] : k \in DOMAIN pending}
    BY <2>2, <2>5, <2>6
  <2> QED
    BY <2>2, <2>4, <2>6 DEF ManifestTrue
<1>2. IInv /\ ListInv /\ [Next]_deploymentVars =>
        [manifest' # manifest => ManifestTrue']_deploymentVars
  BY <1>1
<1> QED
  BY <1>2, IInvAlways, ListInvAlways, PTL DEF Spec, ManifestIsTrue

=============================================================================
