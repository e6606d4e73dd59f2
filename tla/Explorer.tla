------------------------------ MODULE Explorer ------------------------------
(***************************************************************************)
(* The explorer pages of interface/: a hook (lib/useChain.ts) polls the    *)
(* router's logs of the network the page shows, and a fold                 *)
(* (lib/activity.ts) turns them into one row per request.  A transaction   *)
(* of the router is the status it leaves a request in and the events it    *)
(* emits; the logs of a window of blocks arrive, or are lost, together.    *)
(***************************************************************************)
EXTENDS Naturals, Sequences, FiniteSets

CONSTANTS
    Networks, Deployed,     \* the networks the page offers, and those with a router
    DEFAULT_NETWORK,
    Executions, Agents, AgentOf,
    Everyone,               \* the page of all agents
    Window,                 \* transactions per window of blocks
    MaxTxs, MaxVisits, MaxLost   \* bounds: transactions, views, requests that fail

VARIABLES
    logs,        \* of each network, the transactions of its router
    view,        \* what the page shows: a network, and whose executions
    generation,  \* generation.current
    reads,       \* the reads in flight
    timer,       \* whether the next tick is scheduled
    data,        \* the last answer, {} when undefined
    failures

pageVars == <<logs, view, generation, reads, timer, data, failures>>
page == <<view, generation, reads, timer, data, failures>>

ASSUME ExplorerAssumption ==
    /\ Deployed \subseteq Networks /\ DEFAULT_NETWORK \in Networks
    /\ AgentOf \in [Executions -> Agents] /\ Everyone \notin Agents
    /\ Window \in Nat \ {0} /\ MaxTxs \in [Networks -> Nat]
    /\ {MaxVisits, MaxLost} \subseteq Nat

Views == Networks \X (Agents \cup {Everyone})

-----------------------------------------------------------------------------
(* The router.                                                             *)

Transitions ==
    {<<"None", "Pending", {"Requested"}>>, <<"Pending", "Delivered", {"Delivered"}>>,
     <<"Pending", "Finalized", {"Finalized", "Delivered"}>>, <<"Pending", "Expired", {"Expired"}>>,
     <<"Pending", "Rejected", {"Rejected"}>>, <<"Delivered", "Challenged", {"Challenged"}>>,
     <<"Delivered", "Finalized", {"Finalized"}>>,
     <<"Challenged", "Finalized", {"Resolved", "Finalized"}>>,
     <<"Challenged", "Faulted", {"Faulted"}>>, <<"Finalized", "Settled", {"Settled"}>>}

\* The transactions of a request in the first `head` of a log.
About(log, head, r) == {i \in 1 .. head : log[i].request = r}

Status(log, head, r) ==
    LET I == About(log, head, r)
    IN  IF I = {} THEN "None" ELSE log[CHOOSE i \in I : \A j \in I : j <= i].status

Transact(n, r) ==
    /\ Len(logs[n]) < MaxTxs[n]
    /\ \E t \in Transitions :
         /\ t[1] = Status(logs[n], Len(logs[n]), r)
         /\ logs' = [logs EXCEPT ![n] =
                        Append(@, [request |-> r, status |-> t[2], events |-> t[3]])]
    /\ UNCHANGED page

-----------------------------------------------------------------------------
(* The fold.                                                               *)

STATUS_ORDER ==
    <<"Pending", "Delivered", "Challenged", "Finalized", "Settled", "Expired", "Faulted">>

Statuses == {STATUS_ORDER[i] : i \in DOMAIN STATUS_ORDER}
Rank(status) == CHOOSE i \in DOMAIN STATUS_ORDER : STATUS_ORDER[i] = status
Furthest(S) == CHOOSE status \in S : \A other \in S : Rank(other) <= Rank(status)

\* An event that only carries the id of its request.
Loose(event) == event \in {"Challenged", "Resolved", "Finalized"}

\* Mistake: a row takes whatever is applied to it last, and the loose events are
\* applied after the others.
AdvanceAnyhow(events) ==
    LET late == {e \in events : Loose(e)} \cap Statuses
    IN  Furthest(IF late = {} THEN (events \cap Statuses) \cup {"Pending"} ELSE late)

\* A row starts as Pending; an event moves it forward only.
Advance(events) == Furthest((events \cap Statuses) \cup {"Pending"})

\* foldExecutions, on the transactions whose logs arrived: own events make the
\* rows of the agent, the loose ones only move them.
Fold(txs, agent) ==
    LET Events(r) == UNION {tx.events : tx \in {t \in txs : t.request = r}}
        Rows == {r \in Executions : /\ agent \in {Everyone, AgentOf[r]}
                                  /\ \E e \in Events(r) : ~Loose(e)}
    IN  [r \in Rows |-> Advance(Events(r))]

WindowOf(i) == (i - 1) \div Window

\* The logs up to head, but for those of the windows whose request failed.
Arrived(log, head, lost) ==
    {log[i] : i \in {j \in 1 .. head : WindowOf(j) \notin lost}}

-----------------------------------------------------------------------------
(* usePolled.                                                              *)

\* tick: the head is read first, and bounds the logs.
Tick(v, g) == [view |-> v, generation |-> g, head |-> Len(logs[v[1]])]

\* The effect runs again: what is in flight is of an older generation.  The
\* cleanup and the new effect each count one; here they count one together.
Effect(v) ==
    /\ generation' = generation + 1
    /\ data' = {}
    /\ timer' = FALSE
    /\ reads' = reads \cup (IF v[1] \in Deployed THEN {Tick(v, generation')} ELSE {})

\* Another network, another agent's page, or the refresh button.
Show(v) ==
    /\ generation < MaxVisits
    /\ view' = v
    /\ Effect(v)
    /\ UNCHANGED <<logs, failures>>

\* Mistake: a late answer is taken whatever it was asked for.
IsMineAlways(read) == read \in reads

IsMine(read) == read.generation = generation

\* Mistake: only a read that succeeded schedules the next.
RescheduleOnSuccess(read, failed) == (IsMine(read) /\ ~failed) \/ timer

Reschedule(read, failed) == IsMine(read) \/ timer

Answered(read) ==
    /\ read \in reads
    /\ \E lost \in SUBSET {WindowOf(i) : i \in 1 .. read.head} :
         /\ failures + Cardinality(lost) <= MaxLost
         /\ failures' = failures + Cardinality(lost)
         /\ data' = IF ~IsMine(read) THEN data
                    ELSE {[read |-> read, lost |-> lost,
                           rows |-> Fold(Arrived(logs[read.view[1]], read.head, lost), read.view[2])]}
    /\ timer' = Reschedule(read, FALSE)
    /\ reads' = reads \ {read}
    /\ UNCHANGED <<logs, view, generation>>

\* The head could not be read: the last good data stays.
ReadFailed(read) ==
    /\ read \in reads
    /\ failures < MaxLost
    /\ failures' = failures + 1
    /\ timer' = Reschedule(read, TRUE)
    /\ reads' = reads \ {read}
    /\ UNCHANGED <<logs, view, generation, data>>

TimerFires ==
    /\ timer
    /\ timer' = FALSE
    /\ reads' = reads \cup {Tick(view, generation)}
    /\ UNCHANGED <<logs, view, generation, data, failures>>

PageInit ==
    /\ logs = [n \in Networks |-> <<>>]
    /\ view \in {v \in Views : v[1] = DEFAULT_NETWORK}
    /\ generation = 1
    /\ reads = IF view[1] \in Deployed THEN {Tick(view, generation)} ELSE {}
    /\ timer = FALSE
    /\ data = {}
    /\ failures = 0

PageNext ==
    \/ \E n \in Deployed, r \in Executions : Transact(n, r)
    \/ \E v \in Views : Show(v)
    \/ \E read \in reads : Answered(read) \/ ReadFailed(read)
    \/ TimerFires

\* Requests are answered or time out, and timers fire.
Fairness ==
    /\ WF_pageVars(\E read \in reads : IsMine(read) /\ (Answered(read) \/ ReadFailed(read)))
    /\ WF_pageVars(TimerFires)

PageSpec == PageInit /\ [][PageNext]_pageVars /\ Fairness

-----------------------------------------------------------------------------

PageTypeOK ==
    /\ view \in Views
    /\ \A read \in reads : read.view \in Views /\ read.generation \in 1 .. generation
    /\ \A d \in data : \A r \in DOMAIN d.rows : d.rows[r] \in Statuses
    /\ Cardinality(data) <= 1

\* One read of the page at a time, and none while one is scheduled
\* (useChain.ts:134-136).
Mine == {read \in reads : IsMine(read)}
ReadsDoNotOverlap == Cardinality(Mine) + (IF timer THEN 1 ELSE 0) <= 1

\* A row is a request of the network and the agent in the heading, in a status
\* that request has had: a page that lost windows, or is late, understates it
\* (activity.ts:158-159) and never shows another chain's (useChain.ts:101-103).
\* Reads do not overlap, which is what keeps an older answer from being the later.
RowsAreOfThisPage ==
    /\ PageTypeOK /\ ReadsDoNotOverlap
    /\ \A d \in data : \A r \in DOMAIN d.rows :
         LET log == logs[view[1]]  I == About(log, Len(log), r)
         IN  /\ view[2] \in {Everyone, AgentOf[r]}
             /\ I # {}
             /\ d.rows[r] \in {log[i].status : i \in I} \cup {"Pending"}

\* A read that lost nothing has a row for every request of the router, in the
\* status the router held it in at that head, whichever pass applied what when;
\* all but a rejected one, which the explorer leaves Pending.
WholeReadsAreExact ==
    \A d \in data : d.lost = {} =>
      \A r \in {q \in Executions : d.read.view[2] \in {Everyone, AgentOf[q]}} :
        LET status == Status(logs[d.read.view[1]], d.read.head, r)
        IN  /\ r \in DOMAIN d.rows <=> status # "None"
            /\ status \in Statuses => d.rows[r] = status

\* The page catches up with the router whatever failed before, and however often
\* it was switched.
ShowsTheHead ==
    view[1] \in Deployed =>
      \E d \in data : d.read.view = view /\ d.read.head = Len(logs[view[1]]) /\ d.lost = {}

CatchesUp == <>[]ShowsTheHead

=============================================================================
