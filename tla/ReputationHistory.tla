------------------------- MODULE ReputationHistory -------------------------
(***************************************************************************)
(* ReputationEngine with what it does not remember: the reports made, and  *)
(* what every agent would score without its faults.                        *)
(***************************************************************************)
EXTENDS ReputationEngine, Sequences

VARIABLES
    reports,     \* history: every recordOutcome, in order
    blameless    \* history: the records as if no fault had been recorded since
                 \* the half-life was last set

historyVars == <<reports, blameless>>
allVars == <<vars, historyVars>>

Init ==
    /\ EngineInit
    /\ reports = <<>>
    /\ blameless = records

InitAgent(a) ==
    /\ initAgent(a)
    /\ blameless' = [blameless EXCEPT ![a] = Begun(@)]
    /\ UNCHANGED <<reports, now>>

RecordOutcome(a, c, outcome, notional, tolerance, protocolFee) ==
    LET weight == Granted(a, c, notional, protocolFee)
    IN  /\ recordOutcome(a, c, outcome, notional, tolerance, protocolFee)
        /\ reports' = Append(reports,
             [agent |-> a, consumer |-> c, weight |-> weight,
              priced |-> params.weightPerFeeUnit # 0,
              bought |-> protocolFee * params.weightPerFeeUnit, at |-> now,
              cap |-> params.consumerWeightCap, halfLife |-> params.decayHalfLife])
        /\ blameless' = [blameless EXCEPT ![a] = Observed(@, quality(outcome, tolerance), weight)]
        /\ UNCHANGED now

RecordFault(a, kind) ==
    /\ recordFault(a, kind)
    /\ UNCHANGED <<reports, blameless, now>>

\* Another half-life restates every score that is not being touched.
SetParameters(p) ==
    /\ setParameters(p)
    /\ blameless' = IF p.decayHalfLife = params.decayHalfLife THEN blameless ELSE records
    /\ UNCHANGED <<reports, now>>

Next ==
    \/ \E a \in Agents :
         \/ InitAgent(a)
         \/ \E c \in Consumers, o \in Outcomes, n \in Notionals, t \in Tolerances,
               f \in ProtocolFees : RecordOutcome(a, c, o, n, t, f)
         \/ \E kind \in FaultKinds : RecordFault(a, kind)
    \/ \E p \in ParamChoices : SetParameters(p)
    \/ Tick /\ UNCHANGED <<engineVars, historyVars>>

Spec == Init /\ [][Next]_allVars

-----------------------------------------------------------------------------

\* The total of `amount` over the reports i \in S.
TotalOf(amount(_), S) == SumOver([i \in S |-> amount(reports[i])], S)

By(c) == {i \in DOMAIN reports : reports[i].consumer = c}
Against(a) == {i \in DOMAIN reports : reports[i].agent = a}

\* Voice is a prepaid account: what a consumer bought is what is left of it and
\* what its reports weighed while weight was priced, over all agents together.
\* No report is charged for weight the other ceiling refused, whatever
\* governance does to caps and price in between; and no budget outgrows the
\* width it is stored in.
VoicePaysForWeight ==
    /\ EngineTypeOK
    /\ \A c \in Consumers :
         voice[c] + TotalOf(LAMBDA r : r.weight, {i \in By(c) : reports[i].priced})
           = TotalOf(LAMBDA r : r.bought, By(c))

\* However a consumer cuts up and times its reports, what they weigh together
\* against one agent within any span shorter than a half-life is at most its
\* cap, plus the share of the cap that fades in that span at the linear rate
\* of `fade`: less than one and a half times the cap.  (The span is one of
\* reports under the same cap and half-life.)
InfluenceBounded ==
    \A a \in Agents, c \in Consumers : \A i, j \in By(c) \cap Against(a) :
      LET spent == By(c) \cap Against(a) \cap (i .. j)
          span == reports[j].at - reports[i].at
          cap == reports[i].cap
          halfLife == reports[i].halfLife
      IN  /\ i <= j /\ span < halfLife /\ cap # 0
          /\ \A k \in spent : reports[k].cap = cap /\ reports[k].halfLife = halfLife
          => 2 * halfLife * TotalOf(LAMBDA r : r.weight, spent) <= (2 * halfLife + span) * cap

\* A fault never pays: whatever is reported afterwards and however long ago it
\* was, an agent never scores above one with the same reports and no faults, by
\* more than the one basis point the roundings may be worth.
\* (The fault also restarts the linear stretch of decay, which favours a score
\* above neutral by up to an eighth of its distance; both haircuts take more.)
\* It holds as long as the half-life does: setParameters applies a new one to the
\* whole time since a record was last touched, and a fault has touched it.
FaultNeverPays ==
    \A a \in Initialized : ScoreNow(records[a]) <= ScoreNow(blameless[a]) + 1

\* An agent is fresh because it worked: the instant meetsPolicy screens on moves
\* with a settlement or the registration, and reporting that an agent has gone
\* dark does not make it look alive.
OnlyWorkIsActivity ==
    [][\A a \in Initialized :
         records'[a].lastActiveAt # records[a].lastActiveAt
         => records'[a].settledExecutions > records[a].settledExecutions]_records

\* Time alone only takes scores towards neutral and gives spent budget back,
\* also from one stretch of the interpolation to the next.
IdleOnlyFades ==
    [][now' > now =>
       \A a \in Initialized :
         /\ Distance(ScoreNow(records[a])', NEUTRAL) <= Distance(ScoreNow(records[a]), NEUTRAL)
         /\ \A c \in Consumers : UsedNow(a, c)' <= UsedNow(a, c)]_now

\* Time is no merit: neither waiting nor being reported on improves a score's
\* distance from neutral or makes an agent look alive.
TimeIsNoMerit == OnlyWorkIsActivity /\ IdleOnlyFades

=============================================================================
