-------------------------- MODULE TimelockHistory --------------------------
(***************************************************************************)
(* Timelock with what its watchers have seen since the deployment: every   *)
(* announcement, withdrawal and execution, with its instant.               *)
(***************************************************************************)
EXTENDS Timelock, Sequences

CONSTANTS MaxEvents,   \* bound: entries in the logs
          Offered      \* bound: the contracts whose ownership changes hands

VARIABLE events      \* history: what the logs say, in order

historyVars == <<vars, events>>

Logged(kind, of, guarded) ==
    /\ Len(events) < MaxEvents
    /\ events' = Append(events, [kind |-> kind, of |-> of, at |-> now, guarded |-> guarded])

Seen(kind, action) == Logged(kind, action, bootstrapped[On(action)])

HistoryInit(initialOwner) == LockInit(initialOwner) /\ events = <<>>

\* Every call an address may make; the contracts refuse those of a stranger.
Govern ==
    \E caller \in Addresses :
      \/ \E action \in Actions :
           \/ queue(caller, action) /\ Seen("announced", action)
           \/ cancel(caller, action) /\ Seen("cancelled", action)
           \/ execute(caller, action) /\ Seen("executed", action)
      \/ /\ \/ \E c \in Timelocked : finalizeBootstrap(caller, c)
            \/ \E c \in Offered :
                 \/ acceptOwnership(caller, c)
                 \/ \E newOwner \in Addresses : transferOwnership(caller, c, newOwner)
         /\ UNCHANGED events

-----------------------------------------------------------------------------

Kind(kind) == {i \in DOMAIN events : events[i].kind = kind}
About(action) ==
    {i \in Kind("announced") \cup Kind("cancelled") \cup Kind("executed") : events[i].of = action}

\* Whatever is rewired after the bootstrap was announced the full delay before and
\* no more than the grace later, and since the announcement nothing happened to that
\* action that counts: it was not withdrawn, not announced afresh with the clock of
\* an earlier announcement, and not executed after the bootstrap.  An execution during
\* the bootstrap does not count: it uses nothing up (Utils.sol:154), so an announcement
\* made before its end may serve for that execution and once more after it, where
\* Utils.sol:152 has it that "executing an action twice needs announcing it twice".
RewiringWasAnnounced ==
    \A i \in Kind("executed") :
      events[i].guarded =>
        \E j \in Kind("announced") \cap About(events[i].of) :
          /\ events[i].at - events[j].at \in TimelockDelay .. TimelockDelay + TimelockGrace
          /\ \A k \in About(events[i].of) :
               j < k /\ k < i => events[k].kind = "executed" /\ ~events[k].guarded

=============================================================================
