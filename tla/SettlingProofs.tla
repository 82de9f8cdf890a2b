--------------------------- MODULE SettlingProofs ---------------------------
(***************************************************************************)
(* Proofs about Trading periods, for any number of players, Rounds and     *)
(* seasons: nothing a simulation was given changes before it ends, though  *)
(* it runs without the session's lock; the energy it leaves in storage     *)
(* fits; fuel is burned only as it was bought; and each period listed was  *)
(* paid for once, by the record there is of it. The last part is about the *)
(* pages' own functions of a session: timeline, buttons and console follow *)
(* what it does, step by step.                                             *)
(***************************************************************************)
EXTENDS WorkshopSessionProofs

\* What a job is given of the session, and of each bidder.
JobFields == {"checkpoint", "demandGrowth", "firedEvents", "blackouts"}
BidFields == {"owned", "prices", "stored", "fuelStock", "fuelOrder"}

\* From s to t nothing changed of what a job of period is given, players may have joined.
GivenKept(s, t, period) ==
    /\ \A f \in JobFields : t[f] = s[f]
    /\ t.plans[period.round] = s.plans[period.round]
    /\ \A p \in DOMAIN s.players :
          /\ p \in DOMAIN t.players
          /\ \A k \in BidFields : t.players[p][k] = s.players[p][k]

\* What is left of a job if only these bidders are looked at, and its amplitude is given.
JobFor(s, bidders, base) ==
    [JobOf(s) EXCEPT !.bidders = Restrict(@, bidders), !.base = base]

\* Two sessions that give a job the same make the same job.
LEMMA SameGivenSameJob ==
    ASSUME NEW s, NEW t, IsTrading(s.checkpoint), GivenKept(s, t, s.checkpoint),
           NEW bidders, bidders \subseteq DOMAIN s.players, NEW base
    PROVE  JobFor(t, bidders, base) = JobFor(s, bidders, base)
<1> DEFINE period == s.checkpoint
           FiredNow(events) == Only(events, { i \in DOMAIN events :
                                             /\ events[i].round = period.round
                                             /\ events[i].season
                                                  \in {RoundEvent, period.season} })
           Dark(blackouts) == Cardinality({ i \in DOMAIN blackouts :
                                              /\ blackouts[i].round = period.round
                                              /\ blackouts[i].season < period.season })
           bid(x, r) == [owned  |-> x.players[r].owned,  prices |-> x.players[r].prices,
                         stored |-> x.players[r].stored,
                         fuel   |-> IF Manual(x) THEN FuelHeld(x.players[r]) ELSE NoFuelHeld]
<1>1. /\ t.checkpoint = period
      /\ t.demandGrowth = s.demandGrowth
      /\ t.firedEvents = s.firedEvents
      /\ t.blackouts = s.blackouts
      /\ LeversIn(t, period.round) = LeversIn(s, period.round)
  BY DEF GivenKept, JobFields, LeversIn
<1>2. /\ FiredIn(s, period) = FiredNow(s.firedEvents)
      /\ FiredIn(t, period) = FiredNow(t.firedEvents)
      /\ BlackoutsBefore(s, period) = Dark(s.blackouts)
      /\ BlackoutsBefore(t, period) = Dark(t.blackouts)
  BY DEF FiredIn, BlackoutsBefore
<1> HIDE DEF FiredNow, Dark
<1>3. /\ FiredIn(t, period) = FiredIn(s, period)
      /\ BlackoutsBefore(t, period) = BlackoutsBefore(s, period)
  BY <1>1, <1>2
<1>4. RoundNow(s) = period.round /\ RoundNow(t) = period.round
  BY <1>1 DEF RoundNow, CurrentRound, IsTrading
<1>5. Manual(t) = Manual(s)
  BY <1>1, <1>4 DEF Manual
<1>6. \A p \in bidders : bid(t, p) = bid(s, p)
  BY <1>5 DEF GivenKept, BidFields, FuelHeld
<1>7. /\ Restrict([p \in DOMAIN t.players |-> bid(t, p)], bidders)
           = [p \in bidders |-> bid(t, p)]
      /\ Restrict([p \in DOMAIN s.players |-> bid(s, p)], bidders)
           = [p \in bidders |-> bid(s, p)]
  BY DEF Restrict, GivenKept
<1>8. \A x : x.checkpoint = period =>
        JobFor(x, bidders, base) =
          [period    |-> period,
           bidders   |-> Restrict([p \in DOMAIN x.players |-> bid(x, p)], bidders),
           levers    |-> LeversIn(x, period.round),
           base      |-> base,
           growth    |-> [r \in 1..period.round |-> x.demandGrowth[r]],
           events    |-> FiredIn(x, period),
           blackouts |-> BlackoutsBefore(x, period)]
  <2> SUFFICES ASSUME NEW x, x.checkpoint = period
               PROVE  JobFor(x, bidders, base) =
                        [period    |-> period,
                         bidders   |-> Restrict([p \in DOMAIN x.players |-> bid(x, p)], bidders),
                         levers    |-> LeversIn(x, period.round),
                         base      |-> base,
                         growth    |-> [r \in 1..period.round |-> x.demandGrowth[r]],
                         events    |-> FiredIn(x, period),
                         blackouts |-> BlackoutsBefore(x, period)]
    OBVIOUS
  <2> DEFINE bids == [p \in DOMAIN x.players |-> bid(x, p)]
             grown == [r \in 1..period.round |-> x.demandGrowth[r]]
  <2>1. JobOf(x) = [period |-> period, bidders |-> bids, levers |-> LeversIn(x, period.round),
                    base |-> BaseAmplitude(x), growth |-> grown, events |-> FiredIn(x, period),
                    blackouts |-> BlackoutsBefore(x, period)]
    BY DEF JobOf
  <2> HIDE DEF bids, grown
  <2>2. JobFor(x, bidders, base) =
          [period |-> period, bidders |-> Restrict(bids, bidders),
           levers |-> LeversIn(x, period.round), base |-> base, growth |-> grown,
           events |-> FiredIn(x, period), blackouts |-> BlackoutsBefore(x, period)]
    <3> DEFINE job == [period |-> period, bidders |-> bids, levers |-> LeversIn(x, period.round),
                       base |-> BaseAmplitude(x), growth |-> grown,
                       events |-> FiredIn(x, period), blackouts |-> BlackoutsBefore(x, period)]
               kept == Restrict(bids, bidders)
    <3>1. JobFor(x, bidders, base) = [job EXCEPT !.bidders = kept, !.base = base]
      <4>1. JobOf(x) = job /\ job.bidders = bids
        BY <2>1
      <4> HIDE DEF job
      <4> QED
        BY <4>1 DEF JobFor
    <3> DEFINE narrowed == [job EXCEPT !.bidders = kept]
               spelled == [period |-> period, bidders |-> kept, levers |-> LeversIn(x, period.round),
                        base |-> BaseAmplitude(x), growth |-> grown,
                        events |-> FiredIn(x, period), blackouts |-> BlackoutsBefore(x, period)]
    <3>2. [job EXCEPT !.bidders = kept, !.base = base] = [narrowed EXCEPT !.base = base]
      OBVIOUS
    <3> HIDE DEF kept, period
    <3>3. narrowed = spelled
      OBVIOUS
    <3>4. [spelled EXCEPT !.base = base] =
            [period |-> period, bidders |-> kept, levers |-> LeversIn(x, period.round),
             base |-> base, growth |-> grown, events |-> FiredIn(x, period),
             blackouts |-> BlackoutsBefore(x, period)]
      OBVIOUS
    <3> HIDE DEF job, narrowed, spelled
    <3> QED
      BY <3>1, <3>2, <3>3, <3>4 DEF kept
  <2> QED
    BY <2>2 DEF bids, grown
<1> HIDE DEF bid
<1>9. /\ JobFor(s, bidders, base) =
           [period    |-> period,
            bidders   |-> [p \in bidders |-> bid(s, p)],
            levers    |-> LeversIn(s, period.round),
            base      |-> base,
            growth    |-> [r \in 1..period.round |-> s.demandGrowth[r]],
            events    |-> FiredIn(s, period),
            blackouts |-> BlackoutsBefore(s, period)]
      /\ JobFor(t, bidders, base) =
           [period    |-> period,
            bidders   |-> [p \in bidders |-> bid(t, p)],
            levers    |-> LeversIn(t, period.round),
            base      |-> base,
            growth    |-> [r \in 1..period.round |-> t.demandGrowth[r]],
            events    |-> FiredIn(t, period),
            blackouts |-> BlackoutsBefore(t, period)]
  BY <1>1, <1>7, <1>8
<1>10. [p \in bidders |-> bid(t, p)] = [p \in bidders |-> bid(s, p)]
  BY <1>6
<1> QED
  BY <1>1, <1>3, <1>9, <1>10

-----------------------------------------------------------------------------
(***************************************************************************)
(* The inductive invariant: the job is of the session as it is now, whose  *)
(* window is closed; so no player can act, and no advance is accepted.     *)
(***************************************************************************)
SettlingInv ==
    \A i \in DOMAIN jobs :
       LET job == jobs[i]
       IN  /\ ~PhaseOpen
           /\ WaitingFor(job)
           /\ DOMAIN job.bidders \subseteq DOMAIN session.players
           /\ job = JobFor(session, DOMAIN job.bidders, job.base)
           /\ session.demandAmplitude # NoAmplitude => job.base = session.demandAmplitude

\* What of the session can change beside a simulation that goes on.
Beside == {"roundCount", "priceRoundCount", "plans", "timers", "bonus", "players"}

BesideTheJob ==
    /\ jobs' = jobs
    /\ timeUp' = timeUp
    /\ \A f \in SessionFields \ Beside : session'[f] = session[f]
    /\ \A p \in DOMAIN session.players :
          p \in DOMAIN session'.players /\ session'.players[p] = session.players[p]

\* An update of one field of those beside a job.
LEMMA UpdateBeside ==
    ASSUME Sound, NEW f \in Beside \ {"players"}, NEW value,
           Update([session EXCEPT ![f] = value], {f})
    PROVE  BesideTheJob
<1> DEFINE after == [session EXCEPT ![f] = value]
<1>1. f \in SessionFields \ {"players"} /\ "players" \in SessionFields
  BY DEF Beside, SessionFields
<1>2. Touched(session, after, {f})
  BY <1>1, FieldTouched DEF Sound
<1>3. /\ session' = session \/ session' = after
      /\ UNCHANGED <<jobs, timeUp>>
  BY <1>2, UpdateOutcome
<1>4. \A g \in SessionFields : g # f => after[g] = session[g]
  BY DEF Sound, IsSession
<1>5. \A g \in (SessionFields \ Beside) \cup {"players"} : after[g] = session[g]
  BY <1>1, <1>4
<1> HIDE DEF after
<1>6. session'["players"] = session["players"]
  BY <1>3, <1>5
<1> QED
  BY <1>3, <1>5, <1>6 DEF BesideTheJob

\* While a simulation runs, every step ends it or leaves alone what it was given: players
\* cannot act, nor the facilitator advance, until it is over.
LEMMA StepsBesideAJob ==
    ASSUME Sound, JobInv, SettlingInv, jobs # <<>>, [Next]_vars
    PROVE  jobs' = <<>> \/ BesideTheJob
<1>1. PICK job : jobs = <<job>> /\ settlement = job.period /\ IsTrading(job.period)
  BY DEF JobInv
<1>2. ~PhaseOpen /\ WaitingFor(job)
  <2>1. 1 \in DOMAIN jobs /\ jobs[1] = job
    BY <1>1
  <2> QED
    BY <2>1 DEF SettlingInv
<1>3. IsTrading(Here) /\ ~IsInvestment(Here) /\ settlement # NoPeriod
  BY <1>1, <1>2 DEF WaitingFor, IsTrading, IsInvestment, NoPeriod, NotStarted
<1>4. ~InvestmentOpen /\ ~PriceSettingOpen
  BY <1>2, <1>3 DEF InvestmentOpen, PriceSettingOpen
<1>5. CASE \E p \in Admitted : Join(p)
  <2>1. PICK p : Join(p)
    BY <1>5
  <2> DEFINE roster == With(session.players, p, NewPlayer)
             joined == [session EXCEPT !.players = roster]
  <2>2. /\ session' = joined \/ session' = session
        /\ UNCHANGED <<jobs, timeUp>>
        /\ p \notin DOMAIN session.players
    BY <2>1 DEF Join, Save
  <2>3. \A q \in DOMAIN session.players :
          q \in DOMAIN roster /\ roster[q] = session.players[q]
    BY <2>2 DEF With
  <2> HIDE DEF roster
  <2>4. joined.players = roster /\ \A f \in SessionFields \ Beside : joined[f] = session[f]
    BY DEF Sound, IsSession, SessionFields, Beside
  <2> QED
    BY <2>2, <2>3, <2>4 DEF BesideTheJob
<1>6. ~PlayerActs
  BY <1>4 DEF PlayerActs, Select, Deselect, TakeLoan, CancelLoan, CastBallot, SetPrice,
              SetFuelOrder
<1>7. ~Advance /\ ~ExtendPhase
  BY <1>2, <1>3 DEF Advance, ClosePhase, MoveOn, ExtendPhase
<1>8. CASE AddRound
  <2> DEFINE undo   == {"roundCount", "priceRoundCount", "plans"}
             count  == session.roundCount + 1
             priced == IF session.checkpoint = NotStarted THEN session.roundCount + 1
                       ELSE session.priceRoundCount
             plans  == Append(session.plans,
                              [levers |-> Last(session.plans).levers, events |-> <<>>])
             longer == AddedRound(session)
  <2>1. longer = [session EXCEPT !.roundCount = count, !.priceRoundCount = priced,
                                 !.plans = plans]
    BY DEF AddedRound
  <2> HIDE DEF priced, plans
  <2>2. /\ longer = [f \in SessionFields |-> longer[f]]
        /\ \A f \in SessionFields \ undo : longer[f] = session[f]
    BY <2>1 DEF Sound, IsSession, SessionFields
  <2> HIDE DEF longer
  <2>3. longer.players = session.players
    BY <2>2 DEF SessionFields
  <2>4. Touched(session, longer, undo)
    BY <2>2, <2>3 DEF Sound, Touched, IsSession, PlayerTouched
  <2>5. /\ session' = session \/ session' = longer
        /\ UNCHANGED <<jobs, timeUp>>
    BY <1>8, <2>4, UpdateOutcome DEF AddRound, longer
  <2> QED
    BY <2>2, <2>3, <2>5 DEF BesideTheJob, Beside
<1>9. CASE \E r \in Rounds :
             \/ \E changes \in LeverChanges : SetLevers(r, changes)
             \/ \E e \in Picks, s \in Seasons \cup {RoundEvent} :
                  LET planned == [event |-> e, season |-> s]
                  IN  PlanEvent(r, planned) \/ UnplanEvent(r, planned)
  <2>1. PICK plans : SetPlans(plans)
    BY <1>9 DEF SetLevers, PlanEvent, UnplanEvent
  <2>2. Update([session EXCEPT !["plans"] = plans], {"plans"})
    BY <2>1 DEF SetPlans
  <2> QED
    BY <2>2, UpdateBeside DEF Beside
<1>10. CASE \/ \E timers \in TimerSettings : SetTimers(timers)
            \/ \E multiplier \in BonusSettings : SetBonus(multiplier)
  <2>1. \/ \E value : Update([session EXCEPT !["timers"] = value], {"timers"})
        \/ \E value : Update([session EXCEPT !["bonus"] = value], {"bonus"})
    BY <1>10 DEF SetTimers, SetBonus
  <2> QED
    BY <2>1, UpdateBeside DEF Beside
<1>11. CASE BackgroundActs
  <2>1. ~BuySelections /\ ~StartSettlement
    BY <1>3 DEF BuySelections, PurchaseDue, StartSettlement, SettlementDue
  <2>2. ASSUME NEW i \in DOMAIN jobs, AbandonSettlement(i)
        PROVE  jobs' = <<>>
    BY <2>2, TheOnlyJob DEF AbandonSettlement
  <2>3. ASSUME NEW i \in DOMAIN jobs, NEW outcome, FinishSettlement(i, outcome)
        PROVE  jobs' = <<>> \/ BesideTheJob
    <3> DEFINE after == Settled(session, jobs[i], outcome)
    <3>1. Touched(session, after, SettleUndo)
      BY SettledTouches DEF Sound
    <3>2. /\ timeUp' = timeUp
          /\ jobs' = RemoveAt(jobs, i) \/ (jobs' = jobs /\ SaveFails(after, SettleUndo))
      BY <2>3 DEF FinishSettlement
    <3> HIDE DEF after
    <3>3. CASE jobs' = RemoveAt(jobs, i)
      BY <3>3, TheOnlyJob
    <3>4. CASE jobs' = jobs /\ SaveFails(after, SettleUndo)
      <4>1. session' = session
        BY <3>1, <3>4, UndoneIsBefore DEF Sound, SaveFails
      <4> QED
        BY <3>2, <3>4, <4>1 DEF BesideTheJob
    <3> QED
      BY <3>2, <3>3, <3>4
  <2> QED
    BY <1>11, <2>1, <2>2, <2>3 DEF BackgroundActs
<1>12. ~TimeRunsOut
  BY <1>2 DEF TimeRunsOut, PhaseOpen
<1>13. CASE Restart
  BY <1>13 DEF Restart
<1>14. CASE UNCHANGED vars
  BY <1>14 DEF vars, BesideTheJob
<1> QED
  BY <1>5, <1>6, <1>7, <1>8, <1>9, <1>10, <1>11, <1>12, <1>13, <1>14
  DEF Next, FacilitatorActs

\* Where none runs, a step starts none or one of the session as it is.
LEMMA StepsWithoutAJob ==
    ASSUME jobs = <<>>, [Next]_vars
    PROVE  jobs' = <<>> \/ StartSettlement
<1>1. CASE \/ \E p \in Admitted : Join(p)
           \/ PlayerActs
           \/ FacilitatorActs
           \/ TimeRunsOut
           \/ Restart
           \/ UNCHANGED vars
  BY <1>1
  DEF Join, PlayerActs, Select, Deselect, TakeLoan, CancelLoan, CastBallot, SetPrice, SetFuelOrder,
      UpdatePlayer, Update, FacilitatorActs, Advance, ClosePhase, MoveOn, ExtendPhase, AddRound,
      SetLevers, PlanEvent, UnplanEvent, SetPlans, SetTimers, SetBonus, TimeRunsOut, Restart, vars
<1>2. CASE BackgroundActs
  BY <1>2 DEF BackgroundActs, BuySelections, Update
<1> QED
  BY <1>1, <1>2 DEF Next

\* The invariant is inductive.
LEMMA SettlingInvKept ==
    SessionInv /\ VotesInv /\ SettlingInv /\ [Next]_vars => SettlingInv'
<1> SUFFICES ASSUME SessionInv, VotesInv, SettlingInv, [Next]_vars PROVE SettlingInv'
  OBVIOUS
<1>1. Sound /\ JobInv
  BY DEF SessionInv
<1>2. CASE jobs' = <<>>
  BY <1>2 DEF SettlingInv
<1>3. CASE jobs = <<>> /\ StartSettlement
  <2> DEFINE job == JobOf(session)
  <2>1. /\ jobs' = <<job>>
        /\ UNCHANGED <<session, timeUp>>
        /\ ~PriceSettingOpen
        /\ IsTrading(Here)
        /\ session.settledPeriod # Here
    BY <1>3 DEF StartSettlement, SettlementDue
  <2>2. ~PhaseOpen
    BY <2>1 DEF PriceSettingOpen
  <2>3. /\ job.period = Here
        /\ job.base = BaseAmplitude(session)
        /\ DOMAIN job.bidders = DOMAIN session.players
    BY DEF JobOf, Here
  <2>4. Restrict(job.bidders, DOMAIN job.bidders) = job.bidders
    BY DEF JobOf, Restrict
  <2>5. [job EXCEPT !.bidders = job.bidders, !.base = job.base] = job
    BY DEF JobOf
  <2>6. job = JobFor(session, DOMAIN job.bidders, job.base)
    BY <2>4, <2>5 DEF JobFor
  <2>7. session.demandAmplitude # NoAmplitude => job.base = session.demandAmplitude
    BY <2>3 DEF BaseAmplitude
  <2> HIDE DEF job
  <2>8. \A i \in DOMAIN jobs' : jobs'[i] = job
    BY <2>1
  <2> QED
    BY <2>1, <2>2, <2>3, <2>6, <2>7, <2>8 DEF SettlingInv, WaitingFor, PhaseOpen, Here
<1>4. CASE jobs # <<>> /\ BesideTheJob
  <2> SUFFICES ASSUME NEW i \in DOMAIN jobs
               PROVE  LET job == jobs[i]
                      IN  /\ ~PhaseOpen'
                          /\ WaitingFor(job)'
                          /\ DOMAIN job.bidders \subseteq DOMAIN session'.players
                          /\ job = JobFor(session', DOMAIN job.bidders, job.base)
                          /\ session'.demandAmplitude # NoAmplitude
                               => job.base = session'.demandAmplitude
    BY <1>4 DEF SettlingInv, BesideTheJob
  <2> DEFINE job == jobs[i]
  <2>1. /\ ~PhaseOpen
        /\ Here = job.period
        /\ session.settledPeriod # job.period
        /\ DOMAIN job.bidders \subseteq DOMAIN session.players
        /\ job = JobFor(session, DOMAIN job.bidders, job.base)
        /\ session.demandAmplitude # NoAmplitude => job.base = session.demandAmplitude
    BY DEF SettlingInv, WaitingFor
  <2>2. IsTrading(Here)
    BY <1>1, <2>1, TheOnlyJob
  <2> HIDE DEF job
  <2>3. \A f \in JobFields \cup {"phaseTimer", "settledPeriod", "demandAmplitude"} :
          session'[f] = session[f]
    BY <1>4 DEF BesideTheJob, JobFields, SessionFields, Beside
  <2>4. /\ Here' = Here
        /\ session'.phaseTimer = session.phaseTimer
        /\ session'.settledPeriod = session.settledPeriod
        /\ session'.demandAmplitude = session.demandAmplitude
        /\ timeUp' = timeUp
    BY <1>4, <2>3 DEF Here, JobFields, BesideTheJob
  <2>5. session'.plans[Here.round] = session.plans[Here.round]
    <3>1. Here.round \in 1..LockedRounds(Here, session.roundCount)
      <4>1. PICK r \in 1..session.roundCount, s \in Seasons : Here = TradingPeriod(r, s)
        BY <2>2, WhereTheSessionIs, TradingIsAPeriod DEF TradingPeriods
      <4>2. Here.round = r /\ LockedRounds(Here, session.roundCount) = r
        BY <4>1 DEF TradingPeriod, LockedRounds, IsRecap
      <4> QED
        BY <4>2, WhereTheSessionIs
    <3> QED
      BY <3>1, LockedPlanKept
  <2>6. GivenKept(session, session', Here)
    BY <1>4, <2>3, <2>5 DEF GivenKept, BesideTheJob
  <2>7. JobFor(session', DOMAIN job.bidders, job.base) = JobFor(session, DOMAIN job.bidders, job.base)
    BY <2>1, <2>2, <2>6, SameGivenSameJob DEF Here
  <2> QED
    BY <1>4, <2>1, <2>4, <2>7 DEF BesideTheJob, PhaseOpen, WaitingFor, job
<1> QED
  BY <1>1, <1>2, <1>3, <1>4, StepsBesideAJob, StepsWithoutAJob

-----------------------------------------------------------------------------
\* The simulation of a Trading period runs without the lock, beside players who join,
\* Rounds added, plans edited, failed writes and restarts, and what it was given is still
\* what the session holds when it ends (start_settlement, finish_settlement).
THEOREM SettlingAlwaysMatches == Spec => []SettlingMatchesSession
<1>1. Init => SettlingInv
  BY DEF Init, SettlingInv
<1>2. SettlingInv => SettlingMatchesSession
  BY DEF SettlingInv, SettlingMatchesSession, JobFor
<1> QED
  BY <1>1, <1>2, SettlingInvKept, VotesInvHolds, PTL DEF Spec

-----------------------------------------------------------------------------
(***************************************************************************)
(* What settling a period gives each player, and what it is given.         *)
(***************************************************************************)

\* A bidder's energy is what the simulation left them; their money, fuel and results move
\* only if they get a result; nobody else is touched (_apply_results).
LEMMA SettlesEachBidder ==
    ASSUME NEW s, IsSession(s), NEW job, NEW outcome, NEW p \in DOMAIN s.players,
           NEW x, x = s.players[p], NEW y, y = Settled(s, job, outcome).players[p],
           NEW result,
           result = ResultOf(s, job, outcome.players[p], x, CarbonTax(s, job, outcome)[p])
    PROVE  /\ p \notin DOMAIN job.bidders => y = x
           /\ p \in DOMAIN job.bidders => y.stored = outcome.players[p].stored
           /\ IF p \in DOMAIN job.bidders /\ GetsResult(s, job, outcome, p)
                THEN /\ y.money = x.money + result.profit - result.tax
                     /\ y.fuelStock = FuelLeft(x.fuelStock, result.bought, result.burned)
                     /\ y.results = Append(x.results, result)
                ELSE y.money = x.money /\ y.fuelStock = x.fuelStock /\ y.results = x.results
<1> DEFINE
      period       == job.period
      r            == period.round
      operating(z) == Operating(z.owned, r)
      gained(q, z) == ResultOf(s, job, outcome.players[q], z, CarbonTax(s, job, outcome)[q])
      ran(z)       == [k \in { w \in PriceKeys : w[1] \in operating(z) } |-> z.prices[k]]
      kept(q, z)   == [z EXCEPT
                         !.stored = outcome.players[q].stored,
                         !.locked = IF operating(z) = {} THEN @
                                    ELSE Append(@, [period |-> period, prices |-> ran(z)])]
      Settle(q, z) == IF ~GetsResult(s, job, outcome, q) THEN kept(q, z)
                      ELSE [kept(q, z) EXCEPT
                              !.money = @ + gained(q, z).profit - gained(q, z).tax,
                              !.fuelStock = FuelLeft(@, gained(q, z).bought, gained(q, z).burned),
                              !.results = Append(@, gained(q, z))]
      roster == [q \in DOMAIN s.players |->
                   IF q \in DOMAIN job.bidders THEN Settle(q, s.players[q]) ELSE s.players[q]]
      peak   == [s.peakDemand EXCEPT ![r] = IF outcome.peak > @ THEN outcome.peak ELSE @]
      dark   == s.blackouts \o PeriodBlackouts(period, outcome.blackouts)
      listed == Append(s.recordedPeriods, period)
<1>1. Settled(s, job, outcome) =
        [s EXCEPT !.players = roster, !.demandAmplitude = job.base, !.peakDemand = peak,
                  !.blackouts = dark, !.settledPeriod = period, !.recordedPeriods = listed]
  BY DEF Settled
<1>2. IsPlayer(x)
  BY DEF IsSession
<1>3. /\ Settle(p, x).stored = outcome.players[p].stored
      /\ IF GetsResult(s, job, outcome, p)
           THEN /\ Settle(p, x).money = x.money + result.profit - result.tax
                /\ Settle(p, x).fuelStock = FuelLeft(x.fuelStock, result.bought, result.burned)
                /\ Settle(p, x).results = Append(x.results, result)
           ELSE /\ Settle(p, x).money = x.money
                /\ Settle(p, x).fuelStock = x.fuelStock
                /\ Settle(p, x).results = x.results
  <2>1. result = gained(p, x)
    OBVIOUS
  <2> HIDE DEF operating, gained, ran
  <2>2. /\ kept(p, x).stored = outcome.players[p].stored
        /\ kept(p, x).money = x.money
        /\ kept(p, x).fuelStock = x.fuelStock
        /\ kept(p, x).results = x.results
        /\ IsPlayer(kept(p, x))
    BY <1>2 DEF IsPlayer, PlayerFields
  <2> HIDE DEF kept
  <2> QED
    BY <2>1, <2>2 DEF IsPlayer, PlayerFields
<1> HIDE DEF Settle
<1>4. roster[p] = IF p \in DOMAIN job.bidders THEN Settle(p, x) ELSE x
  OBVIOUS
<1> HIDE DEF roster, peak, dark, listed
<1>5. Settled(s, job, outcome).players = roster
  BY <1>1 DEF IsSession, SessionFields
<1> QED
  BY <1>3, <1>4, <1>5

\* What a simulation finds for a bidder is one of the things it may find for them.
LEMMA OutcomeIsFound ==
    ASSUME NEW job, NEW outcome \in Outcomes(job), NEW p \in DOMAIN job.bidders
    PROVE  outcome.players[p] \in Found(job, job.bidders[p])
<1> DEFINE FoundFor(q) == Found(job, job.bidders[q])
<1> HIDE DEF FoundFor
<1>1. outcome.players \in Family(DOMAIN job.bidders, FoundFor)
  BY DEF Outcomes, FoundFor
<1>2. outcome.players[p] \in FoundFor(p)
  BY <1>1 DEF Family
<1> QED
  BY <1>2 DEF FoundFor

\* What a job running now was given of each bidder.
LEMMA BidderMatchesPlayer ==
    ASSUME SettlingInv, NEW i \in DOMAIN jobs, NEW p \in DOMAIN jobs[i].bidders
    PROVE  /\ jobs[i].period = Here
           /\ jobs[i].levers = LeversIn(session, Here.round)
           /\ p \in Players
           /\ jobs[i].bidders[p].owned = session.players[p].owned
           /\ jobs[i].bidders[p].stored = session.players[p].stored
           /\ jobs[i].bidders[p].fuel = IF Manual(session) THEN FuelHeld(session.players[p])
                                        ELSE NoFuelHeld
<1> DEFINE job == jobs[i]
           asked == DOMAIN job.bidders
           bid(q) == [owned  |-> session.players[q].owned,  prices |-> session.players[q].prices,
                      stored |-> session.players[q].stored,
                      fuel   |-> IF Manual(session) THEN FuelHeld(session.players[q])
                                 ELSE NoFuelHeld]
           bids == [q \in DOMAIN session.players |-> bid(q)]
<1>1. /\ job.period = Here
      /\ asked \subseteq DOMAIN session.players
      /\ job = [JobOf(session) EXCEPT !.bidders = Restrict(@, asked), !.base = job.base]
  BY DEF SettlingInv, JobFor, WaitingFor
<1> HIDE DEF job, bid
<1>2. /\ JobOf(session).bidders = bids
      /\ JobOf(session).levers = LeversIn(session, Here.round)
      /\ DOMAIN JobOf(session) = {"period", "bidders", "levers", "base", "growth", "events",
                                  "blackouts"}
  BY DEF JobOf, bid, Here
<1> HIDE DEF asked, bids
<1>3. /\ job.bidders = Restrict(bids, asked)
      /\ job.levers = LeversIn(session, Here.round)
  BY <1>1, <1>2
<1>4. p \in asked /\ p \in Players
  BY <1>1 DEF job, asked, Players
<1>5. job.bidders[p] = bid(p)
  BY <1>1, <1>3, <1>4 DEF Restrict, bids, Players
<1> QED
  BY <1>1, <1>3, <1>4, <1>5 DEF bid, job

-----------------------------------------------------------------------------
(***************************************************************************)
(* Storage.  An Investment phase's purchase keeps what fits, and no season *)
(* fills a type beyond its capacity.                                       *)
(***************************************************************************)

\* Where copies are counted, the count is a number of copies.
LEMMA OperatingCountIsNat ==
    ASSUME NEW owned \in [Facilities -> [Rounds -> Nat]], NEW f \in Facilities, NEW r \in Rounds
    PROVE  OperatingCount(owned, f, r) \in Nat /\ StorageCapacity(f, owned, r) \in Nat
<1> DEFINE working == { b \in 1..r : IsOperating(f, b, r) }
<1>1. r \in 1..MaxRounds /\ MaxRounds \in Nat
  BY CatalogAssumption DEF Rounds
<1>2. IsFiniteSet(working)
  <2>1. IsFiniteSet(1..r)
    BY <1>1, FS_Interval
  <2>2. working \subseteq 1..r
    OBVIOUS
  <2> HIDE DEF working
  <2> QED
    BY <2>1, <2>2, FS_Subset
<1>3. working \subseteq Rounds
  BY <1>1 DEF Rounds
<1> DEFINE had == owned[f]
<1>4. had \in [Rounds -> Nat]
  OBVIOUS
<1>5. OperatingCount(owned, f, r) = SumFunctionOnSet(had, working)
  BY DEF OperatingCount
<1> HIDE DEF had, working
<1>6. SumFunctionOnSet(had, working) \in Nat
  BY <1>2, <1>3, <1>4, SumOfNaturals
<1>7. Catalog[f].capacity \in Nat
  BY CatalogAssumption
<1> QED
  BY <1>5, <1>6, <1>7 DEF StorageCapacity

\* What fits is kept, and no more.
LEMMA KeptFits ==
    ASSUME NEW owned \in [Facilities -> [Rounds -> Nat]], NEW r \in Rounds,
           NEW stored \in [Facilities -> Nat]
    PROVE  /\ KeepWhatFits(stored, owned, r) \in [Facilities -> Nat]
           /\ \A f \in Facilities : KeepWhatFits(stored, owned, r)[f] <= StorageCapacity(f, owned, r)
<1>1. \A f \in Facilities : StorageCapacity(f, owned, r) \in Nat
  BY OperatingCountIsNat
<1>2. \A f \in Facilities : /\ Least(stored[f], StorageCapacity(f, owned, r)) \in Nat
                            /\ Least(stored[f], StorageCapacity(f, owned, r))
                                 <= StorageCapacity(f, owned, r)
  BY <1>1 DEF Least
<1> QED
  BY <1>2 DEF KeepWhatFits

\* A season ends with each type empty, full or as it was, if that fitted (see StoredEnds).
LEMMA SeasonsFit ==
    ASSUME NEW job, NEW b, NEW found \in Found(job, b), job.period.round \in Rounds,
           b.owned \in [Facilities -> [Rounds -> Nat]], b.stored \in [Facilities -> Nat],
           \A f \in Facilities : b.stored[f] <= StorageCapacity(f, b.owned, job.period.round)
    PROVE  /\ found.stored \in [Facilities -> Nat]
           /\ \A f \in Facilities :
                 found.stored[f] <= StorageCapacity(f, b.owned, job.period.round)
<1> DEFINE room(f) == StorageCapacity(f, b.owned, job.period.round)
           ends(f) == IF room(f) > 0 THEN {0, room(f)} ELSE {b.stored[f]}
<1>1. \A f \in Facilities :
        room(f) \in Nat /\ b.stored[f] \in Nat /\ b.stored[f] <= room(f)
  BY OperatingCountIsNat
<1> HIDE DEF room
<1>2. CASE found.stored = b.stored
  BY <1>2 DEF room
<1>3. CASE found.stored \in StoredEnds(job, b)
  <2>1. /\ \A f \in Facilities : found.stored[f] \in ends(f)
        /\ found.stored = [f \in Facilities |-> found.stored[f]]
    <3> HIDE DEF ends
    <3>1. StoredEnds(job, b) = Family(Facilities, ends)
      BY Zenon DEF StoredEnds, ends, room
    <3> QED
      BY <1>3, <3>1 DEF Family
  <2>2. ASSUME NEW f \in Facilities
        PROVE  found.stored[f] \in Nat /\ found.stored[f] <= room(f)
    <3>1. found.stored[f] \in {0, room(f), b.stored[f]}
      BY <2>1
    <3> QED
      BY <1>1, <3>1
  <2> QED
    BY <2>1, <2>2 DEF room
<1> QED
  BY <1>2, <1>3 DEF Found

\* The inductive invariant.
StorageInv ==
    \A p \in Players :
       /\ session.players[p].stored \in [Facilities -> Nat]
       /\ IsTrading(Here) \/ IsRecap(Here) =>
            \A f \in Facilities : session.players[p].stored[f]
                                    <= StorageCapacity(f, session.players[p].owned, Here.round)

\* In a Round, the Round the session is in is one of its Rounds.
LEMMA InARound ==
    ASSUME SessionInv, IsInvestment(Here) \/ IsTrading(Here) \/ IsRecap(Here)
    PROVE  Here.round \in Rounds /\ Here.round \in 1..session.roundCount
<1>1. session.roundCount \in Nat \ {0} /\ Here \in AllCheckpoints(session.roundCount)
  BY WhereTheSessionIs
<1>2. Here.round \in 1..session.roundCount
  BY <1>1, CheckpointKinds DEF IsInvestment, IsTrading, IsRecap, NotStarted, Finished,
                               Investment, TradingPeriod, Recap
<1>3. session.roundCount <= MaxRounds
  BY CatalogAssumption, SessionAssumption DEF SessionInv, PaceInv, TypeOKPace
<1> QED
  BY <1>1, <1>2, <1>3, CatalogAssumption DEF Rounds

\* An advance to a season or a Recap is made from the same Round.
LEMMA ArrivingInTheSameRound ==
    ASSUME SessionInv, Here # Finished, IsTrading(NextHere) \/ IsRecap(NextHere)
    PROVE  /\ IsInvestment(Here) \/ IsTrading(Here)
           /\ NextHere.round = Here.round
<1>1. Here \in AllCheckpoints(session.roundCount)
  BY WhereTheSessionIs
<1> QED
  BY <1>1, CheckpointKinds
  DEF NextHere, NextCheckpoint, IsInvestment, IsTrading, IsRecap, NotStarted, Finished,
      Investment, TradingPeriod, Recap

\* The invariant is inductive.
LEMMA StorageInvKept ==
    SessionInv /\ VotesInv /\ OffersInv /\ SettlingInv /\ StorageInv /\ [Next]_vars => StorageInv'
<1> DEFINE Fits(c, y) == IsTrading(c) \/ IsRecap(c) =>
                           \A f \in Facilities : y.stored[f] <= StorageCapacity(f, y.owned, c.round)
<1> SUFFICES ASSUME SessionInv, VotesInv, OffersInv, SettlingInv, StorageInv, [Next]_vars,
                    NEW p \in DOMAIN session'.players
             PROVE  /\ session'.players[p].stored \in [Facilities -> Nat]
                    /\ Fits(Here', session'.players[p])
  BY DEF StorageInv, Players
<1> DEFINE x == session.players[p]
           y == session'.players[p]
<1> SUFFICES y.stored \in [Facilities -> Nat] /\ Fits(Here', y)
  OBVIOUS
<1>1. FleetsRest \/ FleetsTurn \/ Finishing
  BY EveryStepOfFleets DEF SessionInv
<1>2. p \in Players => /\ x.owned \in [Facilities -> [Rounds -> Nat]]
                       /\ x.selection \in [Facilities -> Nat]
                       /\ x.stored \in [Facilities -> Nat]
                       /\ Fits(Here, x)
  BY DEF OffersInv, RightlyHas, StorageInv
<1>3. p \in DOMAIN session'.players => y.owned \in [Facilities -> [Rounds -> Nat]]
  BY OffersInvKept DEF OffersInv, RightlyHas, Players
<1>4. ASSUME p \in Players, IsInvestment(Here), Bought(x, y, Here.round)
      PROVE  /\ y.stored \in [Facilities -> Nat]
             /\ \A f \in Facilities : y.stored[f] <= StorageCapacity(f, y.owned, Here.round)
  <2> DEFINE had == x.stored
             fleet == y.owned
  <2> HIDE DEF x, y
  <2>1. /\ y.stored = KeepWhatFits(had, fleet, Here.round)
        /\ had \in [Facilities -> Nat]
        /\ fleet \in [Facilities -> [Rounds -> Nat]]
    BY <1>2, <1>3, <1>4 DEF Bought
  <2>2. Here.round \in Rounds
    BY <1>4, InARound
  <2>3. /\ KeepWhatFits(had, fleet, Here.round) \in [Facilities -> Nat]
        /\ \A f \in Facilities : KeepWhatFits(had, fleet, Here.round)[f]
                                   <= StorageCapacity(f, fleet, Here.round)
    <3> HIDE DEF had, fleet
    <3> QED
      BY <2>1, <2>2, KeptFits
  <2> QED
    BY <2>1, <2>3
<1>5. CASE FleetsRest
  <2>1. Here' = Here
    BY <1>5 DEF FleetsRest, Here
  <2>2. CASE p \notin Players /\ y = NewPlayer
    <3>1. y.stored = NothingSelected
      BY <2>2 DEF NewPlayer
    <3>2. y.stored \in [Facilities -> Nat] /\ \A f \in Facilities : y.stored[f] = 0
      BY <3>1 DEF NothingSelected
    <3> HIDE DEF y
    <3>3. IsTrading(Here) \/ IsRecap(Here) =>
            \A f \in Facilities : StorageCapacity(f, y.owned, Here.round) \in Nat
      BY <1>3, InARound, OperatingCountIsNat
    <3> QED
      BY <2>1, <3>2, <3>3
  <2>3. CASE p \in Players /\ SameFleet(x, y)
    <3>1. y.owned = x.owned /\ y.stored = x.stored
      BY <2>3 DEF SameFleet, FleetFields
    <3> HIDE DEF x, y
    <3> QED
      BY <1>2, <2>1, <2>3, <3>1
  <2>4. CASE p \in Players /\ Selecting(x, y)
    <3>1. IsInvestment(Here) /\ y.stored = x.stored
      BY <2>4 DEF Selecting
    <3> HIDE DEF x, y
    <3> QED
      BY <1>2, <2>1, <2>4, <3>1 DEF IsInvestment, IsTrading, IsRecap
  <2>5. CASE p \in Players /\ IsInvestment(Here) /\ Bought(x, y, Here.round)
    <3> HIDE DEF x, y
    <3> QED
      BY <1>4, <2>1, <2>5
  <2> QED
    BY <1>5, <2>2, <2>3, <2>4, <2>5 DEF FleetsRest
<1>6. CASE FleetsTurn
  <2>1. p \in Players /\ Here' = NextHere /\ Here # Finished
    BY <1>6 DEF FleetsTurn, FleetsMoved, Players, Here
  <2>2. CASE IsInvestment(Here)
    <3>1. Bought(x, y, Here.round)
      BY <1>6, <2>1, <2>2 DEF FleetsTurn, FleetsMoved, Here, Players
    <3> HIDE DEF x, y
    <3> QED
      BY <1>4, <2>1, <2>2, <3>1, ArrivingInTheSameRound
  <2>3. CASE ~IsInvestment(Here) /\ IsInvestment(NextHere)
    <3>1. y.stored = x.stored
      BY <1>6, <2>1, <2>3 DEF FleetsTurn, FleetsMoved, Here, Players, WornOut
    <3> HIDE DEF x, y
    <3> QED
      BY <1>2, <2>1, <2>3, <3>1 DEF IsInvestment, IsTrading, IsRecap
  <2>4. CASE ~IsInvestment(Here) /\ ~IsInvestment(NextHere)
    <3>1. y.owned = x.owned /\ y.stored = x.stored
      BY <1>6, <2>1, <2>4
      DEF FleetsTurn, FleetsMoved, Here, Players, SameFleet, FleetFields
    <3> HIDE DEF x, y
    <3> QED
      BY <1>2, <2>1, <2>4, <3>1, ArrivingInTheSameRound
  <2> QED
    BY <2>2, <2>3, <2>4
<1>7. CASE Finishing
  <2>1. PICK i \in DOMAIN jobs : \E outcome \in Outcomes(jobs[i]) :
          session' = Settled(session, jobs[i], outcome)
    BY <1>7 DEF Finishing
  <2>2. PICK outcome \in Outcomes(jobs[i]) : session' = Settled(session, jobs[i], outcome)
    BY <2>1
  <2> DEFINE job == jobs[i]
  <2>3. Touched(session, session', SettleUndo)
    BY <2>2, SettledTouches DEF SessionInv, Sound
  <2>4. p \in Players /\ y.owned = x.owned /\ Here' = Here
    BY <2>3 DEF Touched, PlayerTouched, SettleUndo, SessionFields, PlayerFields, Players, Here
  <2>5. IF p \in DOMAIN job.bidders THEN y.stored = outcome.players[p].stored
        ELSE y.stored = x.stored
    BY <2>2, <2>4, SettlesEachBidder DEF SessionInv, Sound, Players
  <2>6. CASE p \in DOMAIN job.bidders
    <3> DEFINE b == job.bidders[p]
               found == outcome.players[p]
    <3>1. /\ job.period = Here
          /\ b.owned = x.owned
          /\ b.stored = x.stored
      BY <2>6, BidderMatchesPlayer
    <3>2. found \in Found(job, b)
      BY <2>6, OutcomeIsFound
    <3>3. IsTrading(Here)
      BY <3>1, TheOnlyJob DEF SessionInv
    <3> HIDE DEF x, y, b, found, job
    <3>4. /\ found.stored \in [Facilities -> Nat]
          /\ \A f \in Facilities : found.stored[f] <= StorageCapacity(f, b.owned, Here.round)
      BY <1>2, <2>4, <3>1, <3>2, <3>3, InARound, SeasonsFit
    <3>5. y.stored = found.stored
      BY <2>5, <2>6 DEF found
    <3> QED
      BY <2>4, <3>1, <3>4, <3>5
  <2>7. CASE p \notin DOMAIN job.bidders
    <3>1. y.stored = x.stored
      BY <2>5, <2>7
    <3> HIDE DEF x, y
    <3> QED
      BY <1>2, <2>4, <3>1
  <2> QED
    BY <2>6, <2>7
<1> QED
  BY <1>1, <1>5, <1>6, <1>7

\* The invariants of sessions at rest and of the job, together.
SettledWell == SessionInv /\ VotesInv /\ OffersInv /\ SettlingInv /\ StorageInv

\* They always hold.
LEMMA SettledWellHolds == Spec => []SettledWell
<1>1. Init => OffersInv /\ SettlingInv /\ StorageInv
  BY DEF Init, NewSession, OffersInv, SettlingInv, StorageInv, Players, Nobody
<1>2. SettledWell /\ [Next]_vars => SettledWell'
  BY SessionInvKept, VotesInvKept, OffersInvKept, SettlingInvKept, StorageInvKept
  DEF SettledWell
<1> QED
  BY <1>1, <1>2, SessionStarts, VotesStart, PTL DEF Spec, SettledWell

\* Nothing is stored that the copies working this Round have no room for, whatever
\* retired since, whatever the simulations found and whichever of them failed
\* (keep_what_fits, _apply_results).
THEOREM StorageAlwaysFits == Spec => []StorageFits
<1>1. SettledWell => StorageFits
  BY DEF SettledWell, StorageInv, StorageFits
<1> QED
  BY <1>1, SettledWellHolds, PTL

-----------------------------------------------------------------------------
(***************************************************************************)
(* Fuel.  No order fills a stockpile beyond its limit, and no season burns *)
(* what a player does not have.                                            *)
(***************************************************************************)

\* What a fleet needs of a fuel is an amount, and nothing of a fuel that it cannot burn.
LEMMA NeedIsNat ==
    ASSUME NEW owned \in [Facilities -> [Rounds -> Nat]], NEW u \in Fuels, NEW r \in Rounds
    PROVE  /\ SeasonNeed(owned, u, r) \in Nat
           /\ u \notin BurnedFuels(owned, r) => SeasonNeed(owned, u, r) = 0
<1> DEFINE burners == { f \in Facilities : Catalog[f].fuel = u }
           burn    == [f \in burners |-> Catalog[f].burn * OperatingCount(owned, f, r)]
<1>1. SeasonNeed(owned, u, r) = SumFunctionOnSet(burn, burners)
  BY DEF SeasonNeed, SumFunction
<1>2. IsFiniteSet(burners)
  <2>1. IsFiniteSet(Facilities) /\ burners \subseteq Facilities
    BY CatalogAssumption
  <2> HIDE DEF burners
  <2> QED
    BY <2>1, FS_Subset
<1>3. \A f \in burners : burn[f] \in Nat
  <2> SUFFICES ASSUME NEW f \in burners PROVE burn[f] \in Nat
    OBVIOUS
  <2>1. OperatingCount(owned, f, r) \in Nat /\ Catalog[f].burn \in Nat
    BY OperatingCountIsNat, CatalogAssumption
  <2> QED
    BY <2>1
<1>4. ASSUME u \notin BurnedFuels(owned, r)
      PROVE  \A f \in burners : burn[f] = 0
  <2> SUFFICES ASSUME NEW f \in burners PROVE burn[f] = 0
    OBVIOUS
  <2>1. u # NoFuel /\ Catalog[f].burn \in Nat
    BY CatalogAssumption
  <2>2. f \notin Operating(owned, r)
    BY <1>4, <2>1 DEF BurnedFuels
  <2>3. OperatingCount(owned, f, r) = 0
    BY <2>2, OperatingCountIsNat DEF Operating
  <2> QED
    BY <2>1, <2>3
<1> HIDE DEF burners, burn
<1> QED
  BY <1>1, <1>2, <1>3, <1>4, SumOfNaturals, SumOfZeroes

\* An order is an amount, and with the stock held it stays within the stockpile limit
\* unless it is nothing.
LEMMA CappedOrderFits ==
    ASSUME NEW quantity \in Nat, NEW stock \in Nat, NEW need \in Nat
    PROVE  /\ CappedOrder(quantity, stock, need) \in Nat
           /\ \/ CappedOrder(quantity, stock, need) = 0
              \/ stock + CappedOrder(quantity, stock, need) <= STOCKPILE_SEASONS * need
BY DEF CappedOrder, Least, AtLeastZero, STOCKPILE_SEASONS

\* Rounding up leaves an amount.
LEMMA RoundedUpIsNat ==
    ASSUME NEW quantity \in Nat, NEW unit \in Nat \ {0}
    PROVE  RoundedUp(quantity, unit) \in Nat
<1>1. (quantity + unit - 1) \div unit \in Nat
  OBVIOUS
<1> QED
  BY <1>1 DEF RoundedUp

\* So are the orders a window opens with (default_fuel_order).
LEMMA DefaultOrdersFit ==
    ASSUME NEW owned \in [Facilities -> [Rounds -> Nat]], NEW stock \in [Fuels -> Nat],
           NEW r \in Rounds
    PROVE  /\ DefaultOrders(owned, stock, r) \in [Fuels -> Nat]
           /\ \A u \in Fuels : LET order == DefaultOrders(owned, stock, r)[u]
                               IN  \/ order = 0
                                   \/ stock[u] + order
                                        <= STOCKPILE_SEASONS * SeasonNeed(owned, u, r)
<1> DEFINE orders == DefaultOrders(owned, stock, r)
<1>1. ASSUME NEW u \in Fuels
      PROVE  /\ orders[u] \in Nat
             /\ \/ orders[u] = 0
                \/ stock[u] + orders[u] <= STOCKPILE_SEASONS * SeasonNeed(owned, u, r)
  <2> DEFINE need == SeasonNeed(owned, u, r)
             wish == RoundedUp(AtLeastZero(need - stock[u]), FuelUnit[u])
  <2>1. need \in Nat /\ stock[u] \in Nat /\ FuelUnit[u] \in Nat \ {0}
    BY NeedIsNat, FuelUnitAssumption
  <2>2. orders[u] = IF u \in BurnedFuels(owned, r) THEN CappedOrder(wish, stock[u], need) ELSE 0
    BY DEF DefaultOrders, DefaultOrder
  <2> HIDE DEF need, orders
  <2>3. AtLeastZero(need - stock[u]) \in Nat
    BY <2>1 DEF AtLeastZero
  <2>4. wish \in Nat
    BY <2>1, <2>3, RoundedUpIsNat
  <2> HIDE DEF wish
  <2>5. CASE u \in BurnedFuels(owned, r)
    BY <2>1, <2>2, <2>4, <2>5, CappedOrderFits DEF need
  <2>6. CASE u \notin BurnedFuels(owned, r)
    BY <2>2, <2>6
  <2> QED
    BY <2>5, <2>6
<1>2. orders = [u \in Fuels |-> orders[u]]
  BY DEF DefaultOrders
<1> HIDE DEF orders
<1> QED
  BY <1>1, <1>2 DEF orders

\* What a season of the job finds burnt is bought, or comes out of what is held.
Burning(b, found, r) == IF found.traded THEN BurnedFuels(b.owned, r) ELSE {}

AllHeld(stock, order) == [u \in Fuels |-> stock[u] + order[u]]

BoughtFor(job, burning, stock, order, burned) ==
    [u \in Fuels |-> IF u \notin burning THEN 0
                     ELSE IF job.levers.procurement = "manual" THEN order[u]
                     ELSE burned[u] - Least(stock[u], burned[u])]

\* A season burns at most what is in stock and bought, whatever is found and however fuel
\* is procured, and nothing of a fuel that is neither (_apply_fuel, fuel_bought).
LEMMA BurnedIsHeld ==
    ASSUME NEW job, NEW b, NEW found \in Found(job, b), NEW r \in Rounds, job.period.round = r,
           b.owned \in [Facilities -> [Rounds -> Nat]],
           NEW stock \in [Fuels -> Nat], NEW order \in [Fuels -> Nat],
           job.levers.procurement = "manual" => b.fuel = AllHeld(stock, order),
           NEW burning, burning = Burning(b, found, r),
           NEW bought, bought = BoughtFor(job, burning, stock, order, found.burned)
    PROVE  /\ bought \in [Fuels -> Nat]
           /\ found.burned \in [Fuels -> Nat]
           /\ \A u \in Fuels : found.burned[u] <= stock[u] + bought[u]
           /\ FuelLeft(stock, bought, found.burned) \in [Fuels -> Nat]
<1> DEFINE manual == job.levers.procurement = "manual"
           need(u) == SeasonNeed(b.owned, u, r)
           most(u) == MostBurned(job, b, u)
           ends(u) == {0, most(u)}
<1>1. \A u \in Fuels : need(u) \in Nat /\ (u \notin BurnedFuels(b.owned, r) => need(u) = 0)
  BY NeedIsNat
<1>2. \A u \in Fuels : most(u) = IF manual THEN Least(need(u), b.fuel[u]) ELSE need(u)
  BY DEF MostBurned
<1> HIDE DEF need, most
<1>3. \A u \in Fuels : manual => b.fuel[u] = stock[u] + order[u]
  BY DEF AllHeld
<1>4. ASSUME NEW u \in Fuels
      PROVE  /\ most(u) \in Nat
             /\ u \notin BurnedFuels(b.owned, r) => most(u) = 0
             /\ manual => most(u) <= stock[u] + order[u]
  <2> DEFINE held == stock[u] + order[u]
  <2>1. held \in Nat
    OBVIOUS
  <2> HIDE DEF held
  <2>2. CASE manual
    <3>1. most(u) = Least(need(u), held)
      BY <1>2, <1>3, <2>2 DEF held
    <3>2. most(u) \in Nat /\ most(u) <= held /\ (need(u) = 0 => most(u) = 0)
      BY <1>1, <2>1, <3>1 DEF Least
    <3> QED
      BY <1>1, <3>2 DEF held
  <2>3. CASE ~manual
    BY <1>1, <1>2, <2>3
  <2> QED
    BY <2>2, <2>3
<1>5. /\ found.burned = [u \in Fuels |-> found.burned[u]]
      /\ \A u \in Fuels : /\ found.burned[u] \in {0, most(u)}
                          /\ u \notin burning => found.burned[u] = 0
  <2>1. CASE ~found.traded /\ found.burned = NoFuelHeld
    BY <2>1 DEF NoFuelHeld
  <2>2. CASE found.traded /\ found.burned \in FuelEnds(job, b)
    <3>0. burning = BurnedFuels(b.owned, r)
      BY <2>2 DEF Burning
    <3> HIDE DEF ends
    <3>1. FuelEnds(job, b) = Family(Fuels, ends)
      BY Zenon DEF FuelEnds, ends, most
    <3>2. /\ found.burned = [u \in Fuels |-> found.burned[u]]
          /\ \A u \in Fuels : found.burned[u] \in ends(u)
      BY <2>2, <3>1 DEF Family
    <3> QED
      BY <1>4, <2>2, <3>0, <3>2 DEF ends
  <2> QED
    BY <2>1, <2>2 DEF Found, Burning
<1>6. ASSUME NEW u \in Fuels
      PROVE  /\ bought[u] \in Nat
             /\ found.burned[u] \in Nat
             /\ found.burned[u] <= stock[u] + bought[u]
  <2> DEFINE burned == found.burned[u]
             held == stock[u]
             asked == order[u]
  <2>1. held \in Nat /\ asked \in Nat
    OBVIOUS
  <2>2. burned \in Nat /\ (manual => burned <= held + asked) /\ (u \notin burning => burned = 0)
    BY <1>4, <1>5, <2>1
  <2>3. bought[u] = IF u \notin burning THEN 0
                    ELSE IF manual THEN asked ELSE burned - Least(held, burned)
    BY DEF BoughtFor
  <2> HIDE DEF burned, held, asked
  <2>4. bought[u] \in Nat /\ burned <= held + bought[u]
    BY <2>1, <2>2, <2>3 DEF Least
  <2> QED
    BY <2>2, <2>4 DEF burned, held
<1>7. bought = [u \in Fuels |-> bought[u]]
  BY DEF BoughtFor
<1>8. \A u \in Fuels : stock[u] + bought[u] - found.burned[u] \in Nat
  BY <1>6
<1> QED
  BY <1>5, <1>6, <1>7, <1>8 DEF FuelLeft

\* A season's market opens with the default orders under manual procurement
\* (_open_fuel_market).
LEMMA FuelMarketOrders ==
    ASSUME NEW s, IsSession(s), NEW c, NEW opened, NEW p \in DOMAIN s.players,
           NEW x, x = s.players[p], NEW y, y = OpenFuelMarket(s, c, opened).players[p]
    PROVE  y.fuelOrder = IF LeversIn(s, c.round).procurement = "manual"
                           THEN DefaultOrders(x.owned, x.fuelStock, c.round) ELSE x.fuelOrder
<1> DEFINE priced == [s EXCEPT !.fuelPrices = opened]
           Default(z) == [z EXCEPT !.fuelOrder = DefaultOrders(z.owned, z.fuelStock, c.round)]
           roster == [q \in DOMAIN priced.players |-> Default(priced.players[q])]
<1>1. OpenFuelMarket(s, c, opened) =
        IF LeversIn(s, c.round).procurement = "manual" THEN [priced EXCEPT !.players = roster]
        ELSE priced
  BY DEF OpenFuelMarket, ForEveryPlayer
<1>2. priced.players = s.players /\ DOMAIN priced = DOMAIN s
  BY DEF IsSession, SessionFields
<1>3. IsPlayer(x)
  BY DEF IsSession
<1>4. Default(x).fuelOrder = DefaultOrders(x.owned, x.fuelStock, c.round)
  BY <1>3 DEF IsPlayer, PlayerFields
<1> HIDE DEF Default, priced
<1>5. roster[p] = Default(x)
  BY <1>2
<1> HIDE DEF roster
<1>6. [priced EXCEPT !.players = roster].players = roster
  BY <1>2 DEF IsSession, SessionFields
<1> QED
  BY <1>1, <1>2, <1>4, <1>5, <1>6

FuelFields == {"fuelStock", "results", "fuelOrder"}

\* Of fuel, an advance changes the orders alone, and only as a season opens.
OrdersOpened(s, t, c) ==
    /\ DOMAIN t.players = DOMAIN s.players
    /\ \A p \in DOMAIN s.players :
          LET x == s.players[p]
              y == t.players[p]
          IN  /\ y.fuelStock = x.fuelStock
              /\ y.results = x.results
              /\ y.fuelOrder = IF IsTrading(c) /\ LeversIn(t, c.round).procurement = "manual"
                                 THEN DefaultOrders(y.owned, y.fuelStock, c.round)
                               ELSE x.fuelOrder

\* An advance opens orders as said here: defaults where procurement is manual, else none are new.
LEMMA AdvanceOpensOrders ==
    ASSUME NEW s, IsSession(s), NEW c, NEW opened
    PROVE  OrdersOpened(s, Advanced(s, c, opened), c)
<1> DEFINE left   == Left(s, c)
           closed == Closed(left, c)
           fired  == FireEvents(closed, c)
           priced == Priced(fired, c, opened)
           t      == Advanced(s, c, opened)
<1>1. IsSession(left) /\ t = Arrived(left, c, opened)
  BY AdvanceLeavesAndArrives
<1>2. Touched(s, left, LeavingUndo(s, c))
  BY LeavingTouches
<1>3. /\ Touched(left, closed, ClosingUndo(c))
      /\ Touched(closed, fired, FiringUndo(c))
      /\ Touched(fired, priced, PricingUndo(c))
      /\ Touched(priced, t, UnlocksUndo)
  BY <1>1, ArrivingStages
<1>4. priced = IF IsTrading(c) THEN OpenFuelMarket(fired, c, opened) ELSE fired
  BY DEF Priced
<1> HIDE DEF left, closed, fired, priced, t
<1> DEFINE kept   == {"fuelStock", "results", "owned"}
<1>5. /\ FuelFields \in SUBSET PlayerFields
      /\ kept \in SUBSET PlayerFields
      /\ (FuelFields \cup kept) \in SUBSET PlayerFields
      /\ FuelFields \cap LeavingUndo(s, c) = {}
      /\ FuelFields \cap ClosingUndo(c) = {}
      /\ FuelFields \cap FiringUndo(c) = {}
      /\ kept \cap PricingUndo(c) = {}
      /\ (FuelFields \cup kept) \cap UnlocksUndo = {}
      /\ "plans" \notin PricingUndo(c) \cup UnlocksUndo
  BY DEF PlayerFields, FuelFields, LeavingUndo, PurchasesUndo, VoteUndo, RetirementUndo, LoanUndo,
         ClosingUndo, FiringUndo, PricingUndo, GrowthUndo, BlackoutUndo, EventsUndo,
         FuelMarketUndo, UnlocksUndo
<1> HIDE DEF kept
<1>6. /\ DOMAIN fired.players = DOMAIN s.players
      /\ \A p \in DOMAIN s.players : \A k \in FuelFields :
            fired.players[p][k] = s.players[p][k]
  <2>1. /\ DOMAIN left.players = DOMAIN s.players
        /\ \A p \in DOMAIN s.players : \A k \in FuelFields :
              left.players[p][k] = s.players[p][k]
    BY <1>2, <1>5, TouchedKeepsFields
  <2>2. /\ DOMAIN closed.players = DOMAIN left.players
        /\ \A p \in DOMAIN left.players : \A k \in FuelFields :
              closed.players[p][k] = left.players[p][k]
    BY <1>3, <1>5, TouchedKeepsFields
  <2>3. /\ DOMAIN fired.players = DOMAIN closed.players
        /\ \A p \in DOMAIN closed.players : \A k \in FuelFields :
              fired.players[p][k] = closed.players[p][k]
    BY <1>3, <1>5, TouchedKeepsFields
  <2> QED
    BY <2>1, <2>2, <2>3
<1>7. /\ DOMAIN t.players = DOMAIN s.players
      /\ \A p \in DOMAIN s.players :
            /\ \A k \in kept : t.players[p][k] = fired.players[p][k]
            /\ t.players[p]["fuelOrder"] = priced.players[p]["fuelOrder"]
  <2>1. /\ DOMAIN priced.players = DOMAIN fired.players
        /\ \A p \in DOMAIN fired.players : \A k \in kept :
              priced.players[p][k] = fired.players[p][k]
    BY <1>3, <1>5, TouchedKeepsFields
  <2>2. /\ DOMAIN t.players = DOMAIN priced.players
        /\ \A p \in DOMAIN priced.players : \A k \in FuelFields \cup kept :
              t.players[p][k] = priced.players[p][k]
    BY <1>3, <1>5, TouchedKeepsFields
  <2>3. "fuelOrder" \in FuelFields
    BY DEF FuelFields
  <2> QED
    BY <1>6, <2>1, <2>2, <2>3
<1>8. LeversIn(t, c.round) = LeversIn(fired, c.round)
  BY <1>3, <1>5 DEF Touched, SessionFields, LeversIn
<1>9. IsSession(fired)
  BY <1>3, TouchedIsSession
<1>10. \A p \in DOMAIN s.players :
         priced.players[p].fuelOrder =
           IF IsTrading(c) /\ LeversIn(t, c.round).procurement = "manual"
             THEN DefaultOrders(fired.players[p].owned, fired.players[p].fuelStock, c.round)
           ELSE fired.players[p].fuelOrder
  BY <1>4, <1>6, <1>8, <1>9, FuelMarketOrders
<1> QED
  BY <1>6, <1>7, <1>10 DEF OrdersOpened, t, kept, FuelFields

\* Everything that can happen to fuel while no period is settled.
Ordering(x, y) ==
    \E u \in Fuels, quantity \in OrderInputs :
       /\ quantity >= 0
       /\ IsTrading(Here)
       /\ y.owned = x.owned
       /\ y.fuelOrder = [x.fuelOrder EXCEPT ![u] =
                           CappedOrder(quantity, x.fuelStock[u],
                                       SeasonNeed(x.owned, u, RoundNow(session)))]

FuelRests ==
    /\ session'.checkpoint = session.checkpoint
    /\ \A p \in DOMAIN session'.players :
          LET x == session.players[p]
              y == session'.players[p]
          IN  \/ p \notin Players /\ y = NewPlayer
              \/ /\ p \in Players
                 /\ y.fuelStock = x.fuelStock
                 /\ y.results = x.results
                 /\ y.fuelOrder = x.fuelOrder \/ Ordering(x, y)

FuelTurns ==
    /\ Here # Finished
    /\ session'.checkpoint = NextHere
    /\ OrdersOpened(session, session', NextHere)

\* The advance as a whole.
LEMMA MovingOpensOrders ==
    ASSUME Sound, Moving
    PROVE  FuelTurns
<1>1. PICK opened : session' = [Advanced(session, NextHere, opened) EXCEPT
                                  !.checkpoint = NextHere, !.phaseTimer = TimerFor(NextHere)]
  BY DEF Moving
<1> DEFINE applied == Advanced(session, NextHere, opened)
<1>2. IsSession(applied)
  BY AdvanceTouches, TouchedIsSession DEF Sound
<1>3. OrdersOpened(session, applied, NextHere)
  BY AdvanceOpensOrders DEF Sound
<1> HIDE DEF applied
<1>4. /\ session'.checkpoint = NextHere
      /\ session'.plans = applied.plans
      /\ session'.players = applied.players
  BY <1>1, <1>2 DEF IsSession, SessionFields, applied
<1>5. Here # Finished
  BY DEF Moving, MoveOn
<1> QED
  BY <1>3, <1>4, <1>5 DEF FuelTurns, OrdersOpened, LeversIn

\* Of what players ask for, an order alone changes their fuel (set_fuel_order).
LEMMA PlayersOrder ==
    ASSUME Sound, NEW p \in Players, PlayerChange(p)
    PROVE  FuelRests
<1> DEFINE x == session.players[p]
           Same(y) == /\ y.fuelStock = x.fuelStock
                      /\ y.results = x.results
                      /\ y.fuelOrder = x.fuelOrder \/ Ordering(x, y)
<1>1. ASSUME NEW y, Becomes(p, y), Same(y)
      PROVE  FuelRests
  <2>1. /\ session'.players = [session.players EXCEPT ![p] = y]
        /\ session'.checkpoint = session.checkpoint
    BY <1>1 DEF Becomes, Sound, IsSession, SessionFields
  <2>2. \A q \in Players : session'.players[q] = IF q = p THEN y ELSE session.players[q]
    BY <2>1 DEF Players
  <2>3. DOMAIN session'.players = Players
    BY <2>1 DEF Players
  <2> HIDE DEF Same
  <2>4. \A q \in Players \ {p} : /\ session'.players[q].fuelStock = session.players[q].fuelStock
                                 /\ session'.players[q].results = session.players[q].results
                                 /\ session'.players[q].fuelOrder = session.players[q].fuelOrder
    BY <2>2
  <2>5. Same(session'.players[p])
    BY <1>1, <2>2
  <2> QED
    BY <2>1, <2>3, <2>4, <2>5 DEF FuelRests, Same
<1>2. IsPlayer(x)
  BY DEF Sound, IsSession, Players
<1> HIDE DEF x
<1>3. CASE \E y : Becomes(p, y) /\ \A k \in FuelFields : y[k] = x[k]
  BY <1>1, <1>3 DEF FuelFields
<1>4. ASSUME NEW u \in Fuels, NEW quantity \in OrderInputs, SetFuelOrder(p, u, quantity),
             Becomes(p, [x EXCEPT !.fuelOrder[u] =
                           CappedOrder(quantity, x.fuelStock[u],
                                       SeasonNeed(x.owned, u, RoundNow(session)))])
      PROVE  FuelRests
  <2> DEFINE asked == CappedOrder(quantity, x.fuelStock[u],
                                  SeasonNeed(x.owned, u, RoundNow(session)))
             y == [x EXCEPT !.fuelOrder[u] = asked]
  <2>1. quantity >= 0 /\ IsTrading(Here)
    BY <1>4 DEF SetFuelOrder, PriceSettingOpen
  <2> HIDE DEF asked
  <2>2. /\ y.fuelStock = x.fuelStock
        /\ y.results = x.results
        /\ y.owned = x.owned
        /\ y.fuelOrder = [x.fuelOrder EXCEPT ![u] = asked]
    BY <1>2 DEF IsPlayer, PlayerFields
  <2>3. Becomes(p, y)
    BY <1>4 DEF asked
  <2> HIDE DEF y
  <2>4. Ordering(x, y)
    BY <2>1, <2>2 DEF Ordering, asked
  <2> QED
    BY <1>1, <2>2, <2>3, <2>4
<1> QED
  <2>1. \/ \E value : Becomes(p, [x EXCEPT !.prices = value])
        \/ \E value : Becomes(p, [x EXCEPT !.selection = value])
        \/ \E loan, money : Becomes(p, [x EXCEPT !.loan = loan, !.money = money])
        \/ \E u \in Fuels, quantity \in OrderInputs :
              /\ SetFuelOrder(p, u, quantity)
              /\ Becomes(p, [x EXCEPT !.fuelOrder[u] =
                               CappedOrder(quantity, x.fuelStock[u],
                                           SeasonNeed(x.owned, u, RoundNow(session)))])
    BY DEF PlayerChange, x
  <2>2. ASSUME NEW y, Becomes(p, y), \A k \in FuelFields : y[k] = x[k] PROVE FuelRests
    BY <1>3, <2>2
  <2>3. CASE \E u \in Fuels, quantity \in OrderInputs :
               /\ SetFuelOrder(p, u, quantity)
               /\ Becomes(p, [x EXCEPT !.fuelOrder[u] =
                                CappedOrder(quantity, x.fuelStock[u],
                                            SeasonNeed(x.owned, u, RoundNow(session)))])
    BY <1>4, <2>3, Zenon
  <2>4. CASE \E value : Becomes(p, [x EXCEPT !.prices = value])
    <3>1. PICK value : Becomes(p, [x EXCEPT !.prices = value])
      BY <2>4
    <3> DEFINE y == [x EXCEPT !.prices = value]
    <3>2. \A k \in FuelFields : y[k] = x[k]
      BY <1>2 DEF IsPlayer, PlayerFields, FuelFields
    <3>3. Becomes(p, y)
      BY <3>1
    <3> HIDE DEF y
    <3> QED
      BY <2>2, <3>2, <3>3
  <2>5. CASE \E value : Becomes(p, [x EXCEPT !.selection = value])
    <3>1. PICK value : Becomes(p, [x EXCEPT !.selection = value])
      BY <2>5
    <3> DEFINE y == [x EXCEPT !.selection = value]
    <3>2. \A k \in FuelFields : y[k] = x[k]
      BY <1>2 DEF IsPlayer, PlayerFields, FuelFields
    <3>3. Becomes(p, y)
      BY <3>1
    <3> HIDE DEF y
    <3> QED
      BY <2>2, <3>2, <3>3
  <2>6. CASE \E loan, money : Becomes(p, [x EXCEPT !.loan = loan, !.money = money])
    <3>1. PICK loan, money : Becomes(p, [x EXCEPT !.loan = loan, !.money = money])
      BY <2>6
    <3> DEFINE y == [x EXCEPT !.loan = loan, !.money = money]
    <3>2. \A k \in FuelFields : y[k] = x[k]
      BY <1>2 DEF IsPlayer, PlayerFields, FuelFields
    <3>3. Becomes(p, y)
      BY <3>1
    <3> HIDE DEF y
    <3> QED
      BY <2>2, <3>2, <3>3
  <2> QED
    BY <2>1, <2>3, <2>4, <2>5, <2>6, Zenon

\* Whatever happens, fuel changes in one of these ways, or a period is settled.
LEMMA EveryStepOfFuel ==
    Sound /\ [Next]_vars => FuelRests \/ FuelTurns \/ Finishing
<1> SUFFICES ASSUME Sound, session' = session \/ Change
             PROVE  FuelRests \/ FuelTurns \/ Finishing
  BY EveryChange
<1>1. ASSUME NEW after, NEW undo, Touched(session, after, undo), FuelFields \cap undo = {},
             "checkpoint" \notin undo, session' = after
      PROVE  FuelRests
  <2>1. after.checkpoint = session.checkpoint
    BY <1>1 DEF Touched, SessionFields
  <2>2. FuelFields \in SUBSET PlayerFields
    BY DEF PlayerFields, FuelFields
  <2>3. /\ DOMAIN after.players = DOMAIN session.players
        /\ \A p \in DOMAIN session.players : \A k \in FuelFields :
              after.players[p][k] = session.players[p][k]
    BY <1>1, <2>2, TouchedKeepsFields
  <2> QED
    BY <1>1, <2>1, <2>3 DEF FuelRests, Players, FuelFields
<1>2. CASE session' = session
  BY <1>2 DEF FuelRests, Players
<1>3. CASE \E p \in Players : PlayerChange(p)
  BY <1>3, PlayersOrder
<1>4. CASE SideChange
  <2>0. PICK f \in SideFields : \E value : session' = [session EXCEPT ![f] = value]
    BY <1>4 DEF SideChange
  <2>1. PICK value : session' = [session EXCEPT ![f] = value]
    BY <2>0
  <2>2. Touched(session, [session EXCEPT ![f] = value], {f})
    BY FieldTouched DEF Sound, SideFields, SessionFields
  <2>3. FuelFields \cap {f} = {} /\ "checkpoint" \notin {f}
    BY DEF SideFields, FuelFields
  <2> QED
    BY <1>1, <2>1, <2>2, <2>3
<1>5. CASE AddRound /\ session' = AddedRound(session)
  BY <1>1, <1>5, AddingTouches DEF Sound, FuelFields
<1>6. CASE Joining
  <2>1. PICK p \in Admitted \ Players :
          session' = [session EXCEPT !.players = With(@, p, NewPlayer)]
    BY <1>6 DEF Joining
  <2>2. /\ session'.players = With(session.players, p, NewPlayer)
        /\ session'.checkpoint = session.checkpoint
    BY <2>1 DEF Sound, IsSession, SessionFields
  <2> QED
    BY <2>2 DEF FuelRests, Players, With
<1>7. CASE Buying
  BY <1>1, <1>7, PurchasesTouch DEF Sound, Buying, PurchasesUndo, FuelFields
<1>8. CASE Moving
  BY <1>8, MovingOpensOrders
<1> QED
  BY <1>2, <1>3, <1>4, <1>5, <1>6, <1>7, <1>8 DEF Change

\* What a player's results have bought and burned of a fuel.
BoughtIn(results, u) == SumFunction([i \in DOMAIN results |-> results[i].bought[u]])
BurnedIn(results, u) == SumFunction([i \in DOMAIN results |-> results[i].burned[u]])

\* The inductive invariant: a player's books on fuel, and the orders of an open window.
FuelBooks(x) ==
    /\ x.fuelStock \in [Fuels -> Nat]
    /\ x.fuelOrder \in [Fuels -> Nat]
    /\ \E n \in Nat : x.results = [i \in 1..n |-> x.results[i]]
    /\ \A i \in DOMAIN x.results : /\ x.results[i].bought \in [Fuels -> Nat]
                                   /\ x.results[i].burned \in [Fuels -> Nat]
    /\ \A u \in Fuels : x.fuelStock[u] = BoughtIn(x.results, u) - BurnedIn(x.results, u)

OrdersFit(x, r) ==
    \A u \in Fuels :
       \/ x.fuelOrder[u] = 0
       \/ x.fuelStock[u] + x.fuelOrder[u] <= STOCKPILE_SEASONS * SeasonNeed(x.owned, u, r)

FuelInv ==
    \A p \in Players :
       /\ FuelBooks(session.players[p])
       /\ IsTrading(Here) /\ session.settledPeriod # Here /\ Manual(session) =>
            OrdersFit(session.players[p], Here.round)

\* A result added keeps the books, if no more is burned than was held and bought.
LEMMA ResultAdded ==
    ASSUME NEW x, FuelBooks(x), NEW result, result.bought \in [Fuels -> Nat],
           result.burned \in [Fuels -> Nat],
           NEW y, y.fuelOrder = x.fuelOrder, y.results = Append(x.results, result),
           y.fuelStock = FuelLeft(x.fuelStock, result.bought, result.burned),
           y.fuelStock \in [Fuels -> Nat]
    PROVE  FuelBooks(y)
<1>1. PICK n \in Nat : x.results = [i \in 1..n |-> x.results[i]]
  BY DEF FuelBooks
<1> DEFINE before == x.results
           after  == y.results
<1>2. DOMAIN before = 1..n
  BY <1>1
<1>3. /\ after = [i \in 1..(n + 1) |-> after[i]]
      /\ \A i \in 1..n : after[i] = before[i]
      /\ after[n + 1] = result
  <2> HIDE DEF before
  <2>1. before = [i \in 1..n |-> before[i]] /\ after = Append(before, result)
    BY <1>1 DEF before
  <2> HIDE DEF after
  <2> QED
    BY <2>1, AppendKeeps
<1>4. \A i \in DOMAIN before : before[i].bought \in [Fuels -> Nat] /\ before[i].burned \in [Fuels -> Nat]
  BY DEF FuelBooks
<1> HIDE DEF before, after
<1>5. DOMAIN after = 1..(n + 1)
  BY <1>3
<1>6. ASSUME NEW i \in DOMAIN after
      PROVE  after[i].bought \in [Fuels -> Nat] /\ after[i].burned \in [Fuels -> Nat]
  <2>1. i \in 1..n \/ i = n + 1
    BY <1>5
  <2> QED
    BY <1>2, <1>3, <1>4, <2>1
<1>7. ASSUME NEW u \in Fuels
      PROVE  /\ BoughtIn(after, u) = BoughtIn(before, u) + result.bought[u]
             /\ BurnedIn(after, u) = BurnedIn(before, u) + result.burned[u]
             /\ BoughtIn(before, u) \in Int /\ BurnedIn(before, u) \in Int
  <2> DEFINE g == [i \in DOMAIN before |-> before[i].bought[u]]
             h == [i \in DOMAIN after |-> after[i].bought[u]]
  <2>1. /\ DOMAIN g = 1..n /\ DOMAIN h = 1..(n + 1)
        /\ \A i \in 1..n : g[i] \in Int /\ h[i] = g[i]
        /\ h[n + 1] = result.bought[u] /\ h[n + 1] \in Int
    <3>1. DOMAIN g = 1..n /\ DOMAIN h = 1..(n + 1)
      BY <1>2, <1>5
    <3>2. ASSUME NEW i \in 1..n PROVE g[i] \in Int /\ h[i] = g[i]
      <4>1. i \in DOMAIN before /\ i \in DOMAIN after
        BY <1>2, <1>5
      <4>2. before[i].bought[u] \in Nat
        BY <1>4, <4>1
      <4>3. g[i] = before[i].bought[u] /\ h[i] = after[i].bought[u]
        BY <4>1
      <4>4. after[i] = before[i]
        BY <1>3
      <4> QED
        BY <4>2, <4>3, <4>4
    <3>3. n + 1 \in DOMAIN after
      BY <1>5
    <3>4. h[n + 1] = after[n + 1].bought[u]
      BY <3>3
    <3>5. result.bought[u] \in Int
      OBVIOUS
    <3> HIDE DEF g, h
    <3> QED
      BY <1>3, <3>1, <3>2, <3>4, <3>5
  <2>2. SumFunction(g) \in Int /\ SumFunction(h) = SumFunction(g) + h[n + 1]
    <3> HIDE DEF g, h
    <3> QED
      BY <2>1, SumOneMore
  <2> DEFINE d == [i \in DOMAIN before |-> before[i].burned[u]]
             e == [i \in DOMAIN after |-> after[i].burned[u]]
  <2>3. /\ DOMAIN d = 1..n /\ DOMAIN e = 1..(n + 1)
        /\ \A i \in 1..n : d[i] \in Int /\ e[i] = d[i]
        /\ e[n + 1] = result.burned[u] /\ e[n + 1] \in Int
    <3>1. DOMAIN d = 1..n /\ DOMAIN e = 1..(n + 1)
      BY <1>2, <1>5
    <3>2. ASSUME NEW i \in 1..n PROVE d[i] \in Int /\ e[i] = d[i]
      <4>1. i \in DOMAIN before /\ i \in DOMAIN after
        BY <1>2, <1>5
      <4>2. before[i].burned[u] \in Nat
        BY <1>4, <4>1
      <4>3. d[i] = before[i].burned[u] /\ e[i] = after[i].burned[u]
        BY <4>1
      <4>4. after[i] = before[i]
        BY <1>3
      <4> QED
        BY <4>2, <4>3, <4>4
    <3>3. n + 1 \in DOMAIN after
      BY <1>5
    <3>4. e[n + 1] = after[n + 1].burned[u]
      BY <3>3
    <3>5. result.burned[u] \in Int
      OBVIOUS
    <3> HIDE DEF d, e
    <3> QED
      BY <1>3, <3>1, <3>2, <3>4, <3>5
  <2>4. SumFunction(d) \in Int /\ SumFunction(e) = SumFunction(d) + e[n + 1]
    <3> HIDE DEF d, e
    <3> QED
      BY <2>3, SumOneMore
  <2>5. /\ BoughtIn(before, u) = SumFunction(g) /\ BoughtIn(after, u) = SumFunction(h)
        /\ BurnedIn(before, u) = SumFunction(d) /\ BurnedIn(after, u) = SumFunction(e)
    BY DEF BoughtIn, BurnedIn
  <2> HIDE DEF g, h, d, e
  <2> QED
    BY <2>1, <2>2, <2>3, <2>4, <2>5
<1>8. ASSUME NEW u \in Fuels
      PROVE  y.fuelStock[u] = BoughtIn(after, u) - BurnedIn(after, u)
  <2>1. x.fuelStock[u] = BoughtIn(before, u) - BurnedIn(before, u) /\ x.fuelStock[u] \in Nat
    BY DEF FuelBooks, before
  <2>2. y.fuelStock[u] = x.fuelStock[u] + result.bought[u] - result.burned[u]
    BY DEF FuelLeft
  <2>3. result.bought[u] \in Nat /\ result.burned[u] \in Nat
    OBVIOUS
  <2> QED
    BY <1>7, <2>1, <2>2, <2>3
<1>9. y.fuelOrder \in [Fuels -> Nat]
  BY DEF FuelBooks
<1> QED
  BY <1>3, <1>6, <1>8, <1>9 DEF FuelBooks, after

\* Who joins has empty books.
LEMMA NewBooks == FuelBooks(NewPlayer) /\ \A u \in Fuels : NewPlayer.fuelOrder[u] = 0
<1> DEFINE x == NewPlayer
<1>1. x.fuelStock = NoFuelHeld /\ x.fuelOrder = NoFuelHeld /\ x.results = <<>>
  BY DEF NewPlayer
<1> HIDE DEF x
<1>2. DOMAIN x.results = {} /\ x.results = [i \in 1..0 |-> x.results[i]]
  BY <1>1
<1>3. ASSUME NEW u \in Fuels
      PROVE  BoughtIn(x.results, u) = 0 /\ BurnedIn(x.results, u) = 0
  <2> DEFINE g == [i \in DOMAIN x.results |-> x.results[i].bought[u]]
             d == [i \in DOMAIN x.results |-> x.results[i].burned[u]]
  <2>1. DOMAIN g = {} /\ DOMAIN d = {}
    BY <1>2
  <2>2. BoughtIn(x.results, u) = SumFunction(g) /\ BurnedIn(x.results, u) = SumFunction(d)
    BY DEF BoughtIn, BurnedIn
  <2> HIDE DEF g, d
  <2> QED
    BY <2>1, <2>2, SumOfNothing
<1>4. \A u \in Fuels : x.fuelStock[u] = 0 /\ x.fuelOrder[u] = 0
  BY <1>1 DEF NoFuelHeld
<1>5. x.fuelStock \in [Fuels -> Nat] /\ x.fuelOrder \in [Fuels -> Nat]
  BY <1>1 DEF NoFuelHeld
<1> QED
  BY <1>2, <1>3, <1>4, <1>5 DEF FuelBooks, x

\* While a window is open or its season is settled, a Round's procurement and the fleets
\* stay as they are, and what has been settled stays so.
LEMMA WindowLasts ==
    ASSUME SessionInv, VotesInv, [Next]_vars, IsTrading(Here), Here' = Here
    PROVE  /\ session'.settledPeriod # Here' => session.settledPeriod # Here
           /\ Manual(session') = Manual(session)
           /\ \A p \in Players \cap DOMAIN session'.players :
                 session'.players[p].owned = session.players[p].owned
<1>1. session'.settledPeriod \in {session.settledPeriod, Here}
  BY EveryStep
  DEF SessionInv, PaceInv, Still, PhaseStep, TimersStep, Lengthening, Turn, Settling, PaceKept,
      KeptBut, Pace
<1>2. RoundNow(session) = Here.round /\ RoundNow(session') = Here.round
  BY DEF RoundNow, CurrentRound, IsTrading, Here
<1>3. session'.plans[Here.round] = session.plans[Here.round]
  <2>1. Here.round \in 1..session.roundCount
    BY InARound
  <2>2. LockedRounds(Here, session.roundCount) = Here.round
    BY DEF LockedRounds, IsTrading, IsRecap
  <2>3. Here.round \in 1..LockedRounds(Here, session.roundCount)
    BY <2>1, <2>2
  <2> QED
    BY <2>3, LockedPlanKept
<1>4. ASSUME NEW p \in Players \cap DOMAIN session'.players
      PROVE  session'.players[p].owned = session.players[p].owned
  <2>1. CASE FleetsRest
    <3>1. ~IsInvestment(Here)
      BY DEF IsTrading, IsInvestment
    <3> QED
      BY <2>1, <3>1 DEF FleetsRest, SameFleet, FleetFields, Selecting
  <2>2. ~FleetsTurn
    <3>1. session.roundCount \in Nat \ {0} /\ Here \in AllCheckpoints(session.roundCount)
      BY WhereTheSessionIs
    <3> QED
      BY <3>1, NextIsAnother DEF FleetsTurn, NextHere, Here
  <2>3. CASE Finishing
    <3>1. PICK i \in DOMAIN jobs : \E outcome \in Outcomes(jobs[i]) :
            session' = Settled(session, jobs[i], outcome)
      BY <2>3 DEF Finishing
    <3>2. PICK outcome \in Outcomes(jobs[i]) : session' = Settled(session, jobs[i], outcome)
      BY <3>1
    <3>3. Touched(session, session', SettleUndo)
      BY <3>2, SettledTouches DEF SessionInv, Sound
    <3> QED
      BY <3>3 DEF Touched, PlayerTouched, SettleUndo, SessionFields, PlayerFields, Players
  <2> QED
    BY <2>1, <2>2, <2>3, EveryStepOfFleets DEF SessionInv
<1> QED
  BY <1>1, <1>2, <1>3, <1>4 DEF Manual, LeversIn

\* Settling keeps a player's books, whatever is found: what burns was held or is bought.
LEMMA SettlingKeepsBooks ==
    ASSUME SessionInv, OffersInv, SettlingInv, FuelInv,
           NEW i \in DOMAIN jobs, NEW outcome \in Outcomes(jobs[i]),
           session' = Settled(session, jobs[i], outcome), NEW p \in Players
    PROVE  FuelBooks(session'.players[p])
<1> DEFINE x == session.players[p]
           y == session'.players[p]
           job == jobs[i]
           found == outcome.players[p]
           result == ResultOf(session, job, found, x, CarbonTax(session, job, outcome)[p])
<1> SUFFICES FuelBooks(y)
  OBVIOUS
<1>1. /\ p \in DOMAIN session.players
      /\ IsSession(session)
      /\ FuelBooks(x)
      /\ x.owned \in [Facilities -> [Rounds -> Nat]]
  BY DEF Players, SessionInv, Sound, FuelInv, OffersInv, RightlyHas
<1>2. y.fuelOrder = x.fuelOrder
  <2>1. Touched(session, session', SettleUndo)
    BY <1>1, SettledTouches
  <2> QED
    BY <1>1, <2>1 DEF Touched, PlayerTouched, SettleUndo, PlayerFields
<1>3. IF p \in DOMAIN job.bidders /\ GetsResult(session, job, outcome, p)
        THEN /\ y.fuelStock = FuelLeft(x.fuelStock, result.bought, result.burned)
             /\ y.results = Append(x.results, result)
        ELSE y.fuelStock = x.fuelStock /\ y.results = x.results
  <2>1. /\ x = session.players[p]
        /\ y = Settled(session, job, outcome).players[p]
        /\ result = ResultOf(session, job, outcome.players[p], x,
                             CarbonTax(session, job, outcome)[p])
    OBVIOUS
  <2> HIDE DEF x, y, result, job
  <2> QED
    BY <1>1, <2>1, SettlesEachBidder
<1>4. CASE p \in DOMAIN job.bidders /\ GetsResult(session, job, outcome, p)
  <2> DEFINE b == job.bidders[p]
             r == job.period.round
             manual == Manual(session)
             stock == x.fuelStock
             order == x.fuelOrder
             burning == IF found.traded THEN BurnedFuels(x.owned, r) ELSE {}
             bought == FuelBought(manual, burning, stock, order, found.burned)
  <2>1. /\ job.period = Here
        /\ job.levers = LeversIn(session, Here.round)
        /\ b.owned = x.owned
        /\ b.fuel = IF manual THEN FuelHeld(x) ELSE NoFuelHeld
    BY <1>4, BidderMatchesPlayer
  <2>2. IsTrading(Here)
    BY <2>1, TheOnlyJob DEF SessionInv
  <2>3. r \in Rounds /\ RoundNow(session) = r
    BY <2>1, <2>2, InARound DEF RoundNow, CurrentRound, IsTrading, Here
  <2>4. manual = (job.levers.procurement = "manual") /\ manual \in BOOLEAN
    BY <2>1, <2>3 DEF Manual
  <2>5. stock \in [Fuels -> Nat] /\ order \in [Fuels -> Nat]
    BY <1>1 DEF FuelBooks
  <2>6. job.levers.procurement = "manual" => b.fuel = AllHeld(stock, order)
    BY <2>1, <2>4 DEF FuelHeld, AllHeld
  <2>7. found \in Found(job, b)
    BY <1>4, OutcomeIsFound
  <2>8. result.bought = bought /\ result.burned = found.burned
    BY DEF ResultOf
  <2>9. /\ bought \in [Fuels -> Nat]
        /\ found.burned \in [Fuels -> Nat]
        /\ FuelLeft(stock, bought, found.burned) \in [Fuels -> Nat]
    <3>1. /\ burning = Burning(b, found, r)
          /\ bought = BoughtFor(job, burning, stock, order, found.burned)
      BY <2>1, <2>4 DEF FuelBought, BoughtFor, Burning
    <3>2. b.owned \in [Facilities -> [Rounds -> Nat]]
      BY <1>1, <2>1
    <3> HIDE DEF bought, burning, stock, order, b, found, r, job
    <3>3. job.period.round = r
      BY DEF r
    <3> QED
      BY <2>3, <2>5, <2>6, <2>7, <3>1, <3>2, <3>3, BurnedIsHeld
  <2>10. /\ y.fuelStock = FuelLeft(x.fuelStock, result.bought, result.burned)
         /\ y.results = Append(x.results, result)
    BY <1>3, <1>4
  <2>11. /\ result.bought \in [Fuels -> Nat]
         /\ result.burned \in [Fuels -> Nat]
         /\ FuelLeft(x.fuelStock, result.bought, result.burned) \in [Fuels -> Nat]
    BY <2>8, <2>9
  <2> HIDE DEF x, y, result
  <2> QED
    BY <1>1, <1>2, <2>10, <2>11, ResultAdded
<1>5. CASE ~(p \in DOMAIN job.bidders /\ GetsResult(session, job, outcome, p))
  <2>1. y.fuelStock = x.fuelStock /\ y.results = x.results
    BY <1>3, <1>5
  <2> HIDE DEF x, y
  <2> QED
    BY <1>1, <1>2, <2>1 DEF FuelBooks
<1> QED
  BY <1>4, <1>5

\* An order made in an open window keeps the books, and the limit.
LEMMA OrderingKeepsFuel ==
    ASSUME SessionInv, OffersInv, IsTrading(Here), NEW x, FuelBooks(x),
           x.owned \in [Facilities -> [Rounds -> Nat]],
           NEW y, y.fuelStock = x.fuelStock, y.results = x.results, Ordering(x, y)
    PROVE  FuelBooks(y) /\ (OrdersFit(x, Here.round) => OrdersFit(y, Here.round))
<1>1. PICK u \in Fuels, quantity \in OrderInputs :
         /\ quantity >= 0
         /\ y.owned = x.owned
         /\ y.fuelOrder = [x.fuelOrder EXCEPT ![u] =
                             CappedOrder(quantity, x.fuelStock[u],
                                         SeasonNeed(x.owned, u, RoundNow(session)))]
  BY DEF Ordering
<1> DEFINE r    == Here.round
           held == x.fuelStock[u]
           need == SeasonNeed(x.owned, u, r)
           asked == CappedOrder(quantity, held, need)
<1>2. RoundNow(session) = r /\ r \in Rounds
  BY InARound DEF RoundNow, CurrentRound, IsTrading, Here
<1>3. x.fuelStock \in [Fuels -> Nat] /\ x.fuelOrder \in [Fuels -> Nat]
  BY DEF FuelBooks
<1>4. quantity \in Nat /\ held \in Nat /\ need \in Nat
  BY <1>1, <1>2, <1>3, NeedIsNat, SessionAssumption
<1> HIDE DEF held, need
<1>5. asked \in Nat /\ (asked = 0 \/ held + asked <= STOCKPILE_SEASONS * need)
  BY <1>4, CappedOrderFits
<1>6. y.fuelOrder = [x.fuelOrder EXCEPT ![u] = asked]
  BY <1>1, <1>2 DEF held, need
<1> HIDE DEF asked, r
<1>7. /\ y.fuelOrder \in [Fuels -> Nat]
      /\ y.fuelOrder[u] = asked
      /\ \A v \in Fuels \ {u} : y.fuelOrder[v] = x.fuelOrder[v]
  BY <1>3, <1>5, <1>6
<1>8. FuelBooks(y)
  BY <1>7 DEF FuelBooks
<1>9. ASSUME OrdersFit(x, r), NEW v \in Fuels
      PROVE  \/ y.fuelOrder[v] = 0
             \/ y.fuelStock[v] + y.fuelOrder[v]
                  <= STOCKPILE_SEASONS * SeasonNeed(y.owned, v, r)
  <2>1. CASE v = u
    <3>1. y.fuelStock[u] = held /\ SeasonNeed(y.owned, u, r) = need
      BY <1>1 DEF held, need
    <3> QED
      BY <1>5, <1>7, <2>1, <3>1
  <2>2. CASE v # u
    <3>1. /\ y.fuelOrder[v] = x.fuelOrder[v]
          /\ y.fuelStock[v] = x.fuelStock[v]
          /\ SeasonNeed(y.owned, v, r) = SeasonNeed(x.owned, v, r)
      BY <1>1, <1>7, <2>2
    <3> QED
      BY <1>9, <3>1 DEF OrdersFit
  <2> QED
    BY <2>1, <2>2
<1> QED
  BY <1>8, <1>9 DEF OrdersFit, r

\* The invariant is inductive.
LEMMA FuelInvKept ==
    SettledWell /\ FuelInv /\ [Next]_vars => FuelInv'
<1> DEFINE Holds(c, s, x) == /\ FuelBooks(x)
                             /\ IsTrading(c) /\ s.settledPeriod # c /\ Manual(s) =>
                                  OrdersFit(x, c.round)
<1> SUFFICES ASSUME SettledWell, FuelInv, [Next]_vars, NEW p \in DOMAIN session'.players
             PROVE  Holds(Here', session', session'.players[p])
  BY DEF FuelInv, Players
<1> DEFINE x == session.players[p]
           y == session'.players[p]
<1> SUFFICES Holds(Here', session', y)
  OBVIOUS
<1> USE DEF SettledWell
<1>1. FuelRests \/ FuelTurns \/ Finishing
  BY EveryStepOfFuel DEF SessionInv
<1>2. p \in Players => Holds(Here, session, x) /\ x.owned \in [Facilities -> [Rounds -> Nat]]
  BY DEF FuelInv, OffersInv, RightlyHas
<1>3. y.owned \in [Facilities -> [Rounds -> Nat]]
  BY OffersInvKept DEF OffersInv, RightlyHas, Players
<1>4. CASE FuelRests
  <2>1. Here' = Here
    BY <1>4 DEF FuelRests, Here
  <2>2. CASE p \notin Players /\ y = NewPlayer
    <3>1. FuelBooks(y) /\ \A u \in Fuels : y.fuelOrder[u] = 0
      BY <2>2, NewBooks
    <3> HIDE DEF y
    <3> QED
      BY <3>1 DEF OrdersFit
  <2>3. ASSUME p \in Players, IsTrading(Here), OrdersFit(y, Here.round) \/ ~OrdersFit(x, Here.round),
               FuelBooks(y)
        PROVE  Holds(Here', session', y)
    <3>1. /\ session'.settledPeriod # Here' => session.settledPeriod # Here
          /\ Manual(session') = Manual(session)
      BY <2>1, <2>3, WindowLasts
    <3> HIDE DEF x, y
    <3> QED
      BY <1>2, <2>1, <2>3, <3>1
  <2>4. CASE /\ p \in Players
             /\ y.fuelStock = x.fuelStock
             /\ y.results = x.results
             /\ y.fuelOrder = x.fuelOrder
    <3>1. FuelBooks(y)
      <4>1. FuelBooks(x)
        BY <1>2, <2>4
      <4> HIDE DEF x, y
      <4> QED
        BY <2>4, <4>1 DEF FuelBooks
    <3>2. IsTrading(Here) => OrdersFit(y, Here.round) \/ ~OrdersFit(x, Here.round)
      <4>1. IsTrading(Here) => y.owned = x.owned
        BY <2>1, <2>4, WindowLasts
      <4> HIDE DEF x, y
      <4> QED
        BY <2>4, <4>1 DEF OrdersFit
    <3>3. CASE IsTrading(Here)
      BY <2>3, <2>4, <3>1, <3>2, <3>3
    <3>4. CASE ~IsTrading(Here)
      BY <2>1, <3>1, <3>4
    <3> QED
      BY <3>3, <3>4
  <2>5. CASE /\ p \in Players
             /\ y.fuelStock = x.fuelStock
             /\ y.results = x.results
             /\ Ordering(x, y)
    <3>1. IsTrading(Here)
      BY <2>5 DEF Ordering
    <3>2. FuelBooks(y) /\ (OrdersFit(x, Here.round) => OrdersFit(y, Here.round))
      <4>1. FuelBooks(x) /\ x.owned \in [Facilities -> [Rounds -> Nat]]
        BY <1>2, <2>5
      <4> HIDE DEF x, y
      <4> QED
        BY <2>5, <3>1, <4>1, OrderingKeepsFuel
    <3> QED
      BY <2>3, <2>5, <3>1, <3>2
  <2> QED
    BY <1>4, <2>2, <2>4, <2>5 DEF FuelRests
<1>5. CASE FuelTurns
  <2>1. p \in Players /\ Here' = NextHere /\ Here # Finished
    BY <1>5 DEF FuelTurns, OrdersOpened, Players, Here
  <2> DEFINE c == NextHere
             opening == IsTrading(c) /\ LeversIn(session', c.round).procurement = "manual"
             orders == DefaultOrders(y.owned, y.fuelStock, c.round)
  <2>2. /\ y.fuelStock = x.fuelStock
        /\ y.results = x.results
        /\ y.fuelOrder = IF opening THEN orders ELSE x.fuelOrder
    BY <1>5, <2>1 DEF FuelTurns, OrdersOpened, Players
  <2>3. FuelBooks(x)
    BY <1>2, <2>1
  <2>4. y.fuelStock \in [Fuels -> Nat]
    BY <2>2, <2>3 DEF FuelBooks
  <2>5. CASE opening
    <3>1. c.round \in Rounds
      <4>1. c.round = Here.round /\ (IsInvestment(Here) \/ IsTrading(Here))
        BY <2>1, <2>5, ArrivingInTheSameRound
      <4> QED
        BY <4>1, InARound
    <3> HIDE DEF x, y, c, opening
    <3>2. /\ orders \in [Fuels -> Nat]
          /\ \A u \in Fuels : \/ orders[u] = 0
                              \/ y.fuelStock[u] + orders[u]
                                   <= STOCKPILE_SEASONS * SeasonNeed(y.owned, u, c.round)
      BY <1>3, <2>4, <3>1, DefaultOrdersFit
    <3> HIDE DEF orders
    <3>3. y.fuelOrder = orders
      BY <2>2, <2>5
    <3>4. FuelBooks(y)
      BY <2>2, <2>3, <3>2, <3>3 DEF FuelBooks
    <3>5. OrdersFit(y, c.round)
      BY <3>2, <3>3 DEF OrdersFit
    <3> QED
      BY <2>1, <3>4, <3>5 DEF c
  <2>6. CASE ~opening
    <3>1. FuelBooks(y)
      <4> HIDE DEF x, y, opening
      <4> QED
        BY <2>2, <2>3, <2>6 DEF FuelBooks
    <3>2. IsTrading(c) => ~Manual(session')
      <4>1. session'.checkpoint = c
        BY <1>5 DEF FuelTurns
      <4>2. IsTrading(c) => RoundNow(session') = c.round
        BY <4>1 DEF RoundNow, CurrentRound, IsTrading
      <4> HIDE DEF c
      <4> QED
        BY <2>6, <4>2 DEF Manual
    <3> HIDE DEF y
    <3> QED
      BY <2>1, <3>1, <3>2
  <2> QED
    BY <2>5, <2>6
<1>6. CASE Finishing
  <2>1. PICK i \in DOMAIN jobs : \E outcome \in Outcomes(jobs[i]) :
          WaitingFor(jobs[i]) /\ session' = Settled(session, jobs[i], outcome)
    BY <1>6 DEF Finishing
  <2>2. PICK outcome \in Outcomes(jobs[i]) :
          WaitingFor(jobs[i]) /\ session' = Settled(session, jobs[i], outcome)
    BY <2>1
  <2>3. Touched(session, session', SettleUndo)
    BY <2>2, SettledTouches DEF SessionInv, Sound
  <2>4. p \in Players /\ session'.checkpoint = session.checkpoint
    BY <2>3 DEF Touched, SettleUndo, SessionFields, Players
  <2>5. FuelBooks(y)
    BY <2>2, <2>4, SettlingKeepsBooks
  <2>6. session'.settledPeriod = jobs[i].period
    BY <2>2 DEF SessionInv, Sound, IsSession, SessionFields, Settled
  <2>7. session'.settledPeriod = Here'
    BY <2>2, <2>4, <2>6 DEF WaitingFor, Here
  <2> HIDE DEF y
  <2> QED
    BY <2>5, <2>7
<1> QED
  BY <1>1, <1>4, <1>5, <1>6

\* It always holds.
LEMMA FuelInvHolds == Spec => [](SettledWell /\ FuelInv)
<1>1. Init => FuelInv
  BY DEF Init, NewSession, FuelInv, Players, Nobody
<1>2. SettledWell /\ FuelInv /\ [Next]_vars => FuelInv'
  BY FuelInvKept
<1> QED
  BY <1>1, <1>2, SettledWellHolds, PTL DEF Spec

\* Every kilogram a player ever paid for is in stock or burned, none burns twice or from
\* nothing, and no order of an open window takes a stock over the limit, in every session
\* (_apply_fuel, fuel_bought, capped_order, default_fuel_order).
THEOREM FuelAlwaysAddsUp == Spec => []FuelLedger
<1>1. FuelInv => FuelLedger
  <2> SUFFICES ASSUME FuelInv PROVE FuelLedger
    OBVIOUS
  <2>1. StockAddsUp
    <3> SUFFICES ASSUME NEW p \in Players, NEW u \in Fuels,
                        NEW x, x = session.players[p],
                        NEW results, results = x.results
                 PROVE  /\ x.fuelStock[u] = BoughtIn(results, u) - BurnedIn(results, u)
                        /\ x.fuelStock[u] >= 0
      BY Zenon DEF StockAddsUp, Sum, BoughtIn, BurnedIn
    <3> QED
      BY DEF FuelInv, FuelBooks
  <2>2. OrderFitsStockpile
    BY DEF FuelInv, OrdersFit, OrderFitsStockpile
  <2> QED
    BY <2>1, <2>2 DEF FuelLedger
<1> QED
  BY <1>1, FuelInvHolds, PTL

-----------------------------------------------------------------------------
(***************************************************************************)
(* The record of every period settled, and the results it was paid by.     *)
(***************************************************************************)
Played == INSTANCE PacedGameProofs WITH
              FirstRounds <- StartRounds, place <- file.checkpoint,
              rounds <- file.roundCount, settled <- file.recordedPeriods

\* The game the file plays is the game those proofs are about.
LEMMA GamesAgree == Game!GameSpec <=> Played!GameSpec
<1>1. Game!GameInit <=> Played!GameInit
  BY DEF Game!GameInit, Played!GameInit, Game!NotStarted, Played!NotStarted
<1>2. [Game!GameNext]_(Game!gameVars) <=> [Played!GameNext]_(Played!gameVars)
  BY DEF Game!gameVars, Game!GameNext, Game!Step, Game!Settle, Game!Lengthen, Game!LastSettled,
         Game!NotStarted, Game!NextCheckpoint, Game!RecapOpen, Game!Finished, Game!Investment,
         Game!TradingPeriod, Game!Recap, Game!IsInvestment, Game!IsTrading, Game!IsRecap,
         Played!gameVars, Played!GameNext, Played!Step, Played!Settle, Played!Lengthen,
         Played!LastSettled, Played!NotStarted, Played!NextCheckpoint, Played!RecapOpen,
         Played!Finished, Played!Investment, Played!TradingPeriod, Played!Recap,
         Played!IsInvestment, Played!IsTrading, Played!IsRecap
<1> QED
  BY <1>1, <1>2, PTL DEF Game!GameSpec, Played!GameSpec

\* What the game promises of its periods, the session's file keeps: they are settled in
\* the order they are played in, none twice, and none it has left is missed, across
\* failed writes, abandoned simulations and restarts (finish_settlement, advance).
THEOREM SessionSettlesEachPeriodOnce == Spec => [](Game!InOrder /\ Game!NoneMissed)
<1>1. StartRounds \in Nat \ {0}
  BY SessionAssumption, CatalogAssumption
<1>2. Played!GameSpec => [](Played!InOrder /\ Played!NoneMissed)
  BY <1>1, NumSeasonsAssumption, Played!EveryPeriodSettledOnce
<1>3. Played!InOrder /\ Played!NoneMissed => Game!InOrder /\ Game!NoneMissed
  BY DEF Played!InOrder, Played!NoneMissed, Game!InOrder, Game!NoneMissed,
         Played!EarlierPeriod, Game!EarlierPeriod, Played!TradingPeriods, Game!TradingPeriods,
         Played!Seasons, Game!Seasons, Played!TradingPeriod, Game!TradingPeriod,
         Played!Behind, Game!Behind, Played!IsInvestment, Played!IsTrading, Played!IsRecap,
         Game!IsInvestment, Game!IsTrading, Game!IsRecap
<1> QED
  BY <1>2, <1>3, GamesAgree, FilePlaysTheGame, PTL DEF PlaysTheGame

\* What the game keeps to, the session does.
LEMMA SessionPlaysOn == Spec => []Played!GameInv
<1>1. StartRounds \in Nat \ {0}
  BY SessionAssumption, CatalogAssumption
<1>2. Played!GameSpec => []Played!GameInv
  BY <1>1, NumSeasonsAssumption, Played!GameInvHolds
<1> QED
  BY <1>2, GamesAgree, FilePlaysTheGame, PTL DEF PlaysTheGame

\* The periods settled so far, as a set.
Listed == { session.recordedPeriods[i] : i \in DOMAIN session.recordedPeriods }

\* The period waiting to be settled is not one of them.
LEMMA WaitingIsUnlisted ==
    ASSUME SessionInv, Played!GameInv, IsTrading(Here), session.settledPeriod # Here
    PROVE  Here \notin Listed
<1>1. file = session /\ session.settledPeriod = LastRecorded(session)
  BY DEF SessionInv, Sound, PaceInv
<1>2. \E n : session.recordedPeriods \in Seq(TradingPeriods(n))
  BY DEF SessionInv, PaceInv
<1>3. Played!LastSettled = session.settledPeriod
  BY <1>1 DEF LastRecorded, Played!LastSettled, Played!NotStarted, NoPeriod, NotStarted
<1>4. Played!IsTrading(Here)
  BY DEF IsTrading, Played!IsTrading
<1>5. \A i \in 1..Len(session.recordedPeriods) : session.recordedPeriods[i] # Here
  BY <1>1, <1>3, <1>4, NumSeasonsAssumption, Played!NotYetSettled DEF Here
<1> QED
  BY <1>2, <1>5 DEF Listed

\* A record is written ahead of the session's file, and stays if that is not written.
RecordAhead ==
    /\ session' = session
    /\ \E i \in DOMAIN jobs : \E outcome \in Outcomes(jobs[i]) :
          WaitingFor(jobs[i]) /\ records' = With(records, jobs[i].period, outcome)

\* A step leaves records alone, writes one ahead of the session's file, or ends a settling.
LEMMA EveryStepOfRecords ==
    Sound /\ [Next]_vars => records' = records \/ RecordAhead \/ Finishing
<1> SUFFICES ASSUME Sound, [Next]_vars
             PROVE  records' = records \/ RecordAhead \/ Finishing
  OBVIOUS
<1>1. ASSUME NEW i \in DOMAIN jobs, NEW outcome \in Outcomes(jobs[i]),
             FinishSettlement(i, outcome)
      PROVE  records' = records \/ RecordAhead \/ Finishing
  <2> DEFINE after == Settled(session, jobs[i], outcome)
  <2>1. Touched(session, after, SettleUndo)
    BY SettledTouches DEF Sound
  <2>2. /\ WaitingFor(jobs[i]) /\ timeUp' = timeUp
        /\ \/ session' = after /\ records' = With(records, jobs[i].period, outcome)
           \/ /\ SaveFails(after, SettleUndo)
              /\ records' = records \/ records' = With(records, jobs[i].period, outcome)
    BY <1>1 DEF FinishSettlement, Save
  <2>3. SaveFails(after, SettleUndo) => session' = session
    <3> HIDE DEF after
    <3> QED
      BY <2>1, UndoneIsBefore DEF Sound, SaveFails
  <2> QED
    BY <2>2, <2>3 DEF RecordAhead, Finishing
<1>2. CASE \/ \E p \in Admitted : Join(p)
           \/ PlayerActs
           \/ FacilitatorActs
           \/ BuySelections \/ StartSettlement \/ \E i \in DOMAIN jobs : AbandonSettlement(i)
           \/ TimeRunsOut
           \/ Restart
           \/ UNCHANGED vars
  BY <1>2
  DEF Join, PlayerActs, Select, Deselect, TakeLoan, CancelLoan, CastBallot, SetPrice, SetFuelOrder,
      UpdatePlayer, Update, FacilitatorActs, Advance, ClosePhase, MoveOn, ExtendPhase, AddRound,
      SetLevers, PlanEvent, UnplanEvent, SetPlans, SetTimers, SetBonus, BuySelections,
      StartSettlement, AbandonSettlement, TimeRunsOut, Restart, vars
<1> QED
  BY <1>1, <1>2 DEF Next, BackgroundActs

\* No other step lists a period.
LEMMA OnlySettlingLists ==
    Sound /\ [Next]_vars => session'.recordedPeriods = session.recordedPeriods \/ Finishing
<1> SUFFICES ASSUME Sound, session' = session \/ Change
             PROVE  session'.recordedPeriods = session.recordedPeriods \/ Finishing
  BY EveryChange
<1>1. ASSUME NEW after, NEW undo, Touched(session, after, undo), "recordedPeriods" \notin undo,
             session' = after
      PROVE  session'.recordedPeriods = session.recordedPeriods
  BY <1>1 DEF Touched, SessionFields
<1>2. CASE session' = session
  BY <1>2
<1>3. CASE \E p \in Players : PlayerChange(p)
  <2>1. \E p, y : Becomes(p, y)
    BY <1>3 DEF PlayerChange
  <2> QED
    BY <2>1 DEF Becomes, Sound, IsSession, SessionFields
<1>4. CASE SideChange
  BY <1>4 DEF SideChange, SideFields, Sound, IsSession, SessionFields
<1>5. CASE AddRound /\ session' = AddedRound(session)
  BY <1>1, <1>5, AddingTouches DEF Sound
<1>6. CASE Joining
  BY <1>6 DEF Joining, Sound, IsSession, SessionFields
<1>7. CASE Buying
  BY <1>1, <1>7, PurchasesTouch DEF Sound, Buying, PurchasesUndo
<1>8. CASE Moving
  <2>1. PICK opened : session' = [Advanced(session, NextHere, opened) EXCEPT
                                    !.checkpoint = NextHere, !.phaseTimer = TimerFor(NextHere)]
    BY <1>8 DEF Moving
  <2> DEFINE applied == Advanced(session, NextHere, opened)
  <2>2. /\ IsSession(applied)
        /\ applied["recordedPeriods"] = session["recordedPeriods"]
    BY AdvanceTouches, TouchedIsSession, AdvanceKeepsPace DEF Sound, Pace
  <2> HIDE DEF applied
  <2>3. session'.recordedPeriods = applied.recordedPeriods
    BY <2>1, <2>2 DEF IsSession, SessionFields, applied
  <2> QED
    BY <2>2, <2>3
<1> QED
  BY <1>2, <1>3, <1>4, <1>5, <1>6, <1>7, <1>8 DEF Change

\* A player's results are those of the records of the periods listed: one of each period
\* they were paid for, none of another, and one of each they traded in.
PaidByRecords(listed, kept, p, results) ==
    /\ \A j \in DOMAIN results :
          /\ results[j].period \in listed
          /\ p \in DOMAIN kept[results[j].period].players
          /\ results[j].net = kept[results[j].period].players[p].net
    /\ \A j, k \in DOMAIN results : results[j].period = results[k].period => j = k
    /\ \A period \in listed :
          p \in DOMAIN kept[period].players /\ kept[period].players[p].traded =>
            \E j \in DOMAIN results : results[j].period = period

\* The inductive invariant.
RecordsInv ==
    /\ \A period \in Listed : /\ period \in DOMAIN records
                              /\ DOMAIN records[period].players \subseteq Players
    /\ \A p \in Players : PaidByRecords(Listed, records, p, session.players[p].results)

\* A record of a period not yet listed changes nothing.
LEMMA UnlistedRecordPays ==
    ASSUME NEW kept, NEW listed, listed \subseteq DOMAIN kept, NEW period, period \notin listed,
           NEW outcome, NEW p, NEW results, PaidByRecords(listed, kept, p, results)
    PROVE  PaidByRecords(listed, With(kept, period, outcome), p, results)
<1> DEFINE after == With(kept, period, outcome)
<1>1. \A q \in listed : after[q] = kept[q]
  BY DEF With
<1> HIDE DEF after
<1> QED
  BY <1>1 DEF PaidByRecords, after

\* A player is paid by the record of the period settled last as by those before.
LEMMA NewRecordPays ==
    ASSUME NEW kept, NEW listed, listed \subseteq DOMAIN kept, NEW period, period \notin listed,
           NEW outcome, NEW p, NEW n \in Nat, NEW results, results = [i \in 1..n |-> results[i]],
           PaidByRecords(listed, kept, p, results),
           NEW paid,
           \/ /\ paid = results
              /\ ~(p \in DOMAIN outcome.players /\ outcome.players[p].traded)
           \/ \E result : /\ paid = Append(results, result)
                          /\ result.period = period
                          /\ p \in DOMAIN outcome.players
                          /\ result.net = outcome.players[p].net
    PROVE  PaidByRecords(listed \cup {period}, With(kept, period, outcome), p, paid)
<1> DEFINE after == With(kept, period, outcome)
<1>1. after[period] = outcome
  BY DEF With
<1>2. PaidByRecords(listed, after, p, results)
  BY UnlistedRecordPays
<1> HIDE DEF after
<1>3. CASE /\ paid = results
           /\ ~(p \in DOMAIN outcome.players /\ outcome.players[p].traded)
  BY <1>1, <1>2, <1>3 DEF PaidByRecords, after
<1>4. ASSUME NEW result, paid = Append(results, result), result.period = period,
             p \in DOMAIN outcome.players, result.net = outcome.players[p].net
      PROVE  PaidByRecords(listed \cup {period}, after, p, paid)
  <2>1. /\ DOMAIN paid = 1..(n + 1)
        /\ \A i \in 1..n : paid[i] = results[i]
        /\ paid[n + 1] = result
        /\ DOMAIN results = 1..n
    BY <1>4, AppendKeeps
  <2>2. \A j \in DOMAIN paid : j \in DOMAIN results \/ j = n + 1
    BY <2>1
  <2>3. \A j \in DOMAIN results : paid[j] = results[j] /\ paid[j].period # period /\ j \in DOMAIN paid
    BY <1>2, <2>1 DEF PaidByRecords
  <2>4. n + 1 \in DOMAIN paid
    BY <2>1
  <2>5. ASSUME NEW j \in DOMAIN paid
        PROVE  /\ paid[j].period \in listed \cup {period}
               /\ p \in DOMAIN after[paid[j].period].players
               /\ paid[j].net = after[paid[j].period].players[p].net
    BY <1>1, <1>2, <1>4, <2>1, <2>2, <2>3 DEF PaidByRecords
  <2>6. ASSUME NEW j \in DOMAIN paid, NEW k \in DOMAIN paid, paid[j].period = paid[k].period
        PROVE  j = k
    BY <1>2, <1>4, <2>1, <2>2, <2>3, <2>6 DEF PaidByRecords
  <2>7. ASSUME NEW q \in listed \cup {period}, p \in DOMAIN after[q].players,
               after[q].players[p].traded
        PROVE  \E j \in DOMAIN paid : paid[j].period = q
    <3>1. CASE q = period
      BY <1>4, <2>1, <2>4, <3>1
    <3>2. CASE q \in listed
      <4>1. PICK j \in DOMAIN results : results[j].period = q
        BY <1>2, <2>7, <3>2 DEF PaidByRecords
      <4> QED
        BY <2>3, <4>1
    <3> QED
      BY <3>1, <3>2
  <2> QED
    BY <2>5, <2>6, <2>7 DEF PaidByRecords
<1> QED
  BY <1>3, <1>4 DEF after

\* Settling lists the period, and pays each bidder by the record just written.
LEMMA SettlingPaysByRecord ==
    ASSUME SessionInv, SettlingInv, FuelInv, Played!GameInv, RecordsInv, Finishing
    PROVE  RecordsInv'
<1>1. PICK i \in DOMAIN jobs : \E outcome \in Outcomes(jobs[i]) :
        /\ WaitingFor(jobs[i])
        /\ session' = Settled(session, jobs[i], outcome)
        /\ records' = With(records, jobs[i].period, outcome)
  BY DEF Finishing
<1>2. PICK outcome \in Outcomes(jobs[i]) :
        /\ WaitingFor(jobs[i])
        /\ session' = Settled(session, jobs[i], outcome)
        /\ records' = With(records, jobs[i].period, outcome)
  BY <1>1
<1> DEFINE job == jobs[i]
           period == job.period
<1>3. /\ period = Here /\ session.settledPeriod # Here /\ IsTrading(Here)
      /\ DOMAIN job.bidders \subseteq Players
  BY <1>2, TheOnlyJob DEF SessionInv, SettlingInv, WaitingFor, Players
<1>4. period \notin Listed
  BY <1>3, WaitingIsUnlisted
<1>5. IsSession(session)
  BY DEF SessionInv, Sound
<1>6. DOMAIN session'.players = Players
  <2>1. Touched(session, session', SettleUndo)
    BY <1>2, <1>5, SettledTouches
  <2> QED
    BY <2>1 DEF Touched, Players
<1>7. Listed' = Listed \cup {period}
  <2>1. session'.recordedPeriods = Append(session.recordedPeriods, period)
    BY <1>2, <1>5 DEF IsSession, SessionFields, Settled
  <2>2. \E S : session.recordedPeriods \in Seq(S)
    BY DEF SessionInv, PaceInv
  <2> DEFINE before == session.recordedPeriods
             n == Len(before)
  <2>3. n \in Nat /\ before = [k \in 1..n |-> before[k]]
    BY <2>2
  <2> HIDE DEF before, n
  <2>4. /\ DOMAIN Append(before, period) = 1..(n + 1)
        /\ \A k \in 1..n : Append(before, period)[k] = before[k]
        /\ Append(before, period)[n + 1] = period
    BY <2>3, AppendKeeps
  <2>5. { Append(before, period)[k] : k \in DOMAIN Append(before, period) }
          = { before[k] : k \in DOMAIN before } \cup {period}
    <3>1. DOMAIN before = 1..n
      BY <2>3
    <3>2. ASSUME NEW k \in 1..(n + 1)
          PROVE  k \in 1..n \/ k = n + 1
      BY <2>3
    <3>3. n + 1 \in 1..(n + 1) /\ 1..n \subseteq 1..(n + 1)
      BY <2>3
    <3> QED
      BY <2>4, <3>1, <3>2, <3>3
  <2> QED
    BY <2>1, <2>5 DEF Listed, before
<1>8. Listed \subseteq DOMAIN records
  BY DEF RecordsInv
<1>9. DOMAIN outcome.players = DOMAIN job.bidders
  <2> DEFINE FoundFor(q) == Found(job, job.bidders[q])
  <2> HIDE DEF FoundFor
  <2>1. outcome.players \in Family(DOMAIN job.bidders, FoundFor)
    BY DEF Outcomes, FoundFor
  <2> QED
    BY <2>1 DEF Family
<1>10. ASSUME NEW q \in Listed'
       PROVE  q \in DOMAIN records' /\ DOMAIN records'[q].players \subseteq Players'
  <2>1. /\ DOMAIN records' = DOMAIN records \cup {period}
        /\ records'[q] = IF q = period THEN outcome ELSE records[q]
    BY <1>2, <1>7, <1>8, <1>10 DEF With
  <2> QED
    BY <1>3, <1>6, <1>7, <1>9, <2>1 DEF RecordsInv, Players
<1>11. ASSUME NEW p \in Players
       PROVE  PaidByRecords(Listed', records', p, session'.players[p].results)
  <2> DEFINE x == session.players[p]
             y == session'.players[p]
             result == ResultOf(session, job, outcome.players[p], x,
                                CarbonTax(session, job, outcome)[p])
  <2>1. PaidByRecords(Listed, records, p, x.results)
    BY DEF RecordsInv
  <2>2. \E n \in Nat : x.results = [k \in 1..n |-> x.results[k]]
    BY DEF FuelInv, FuelBooks
  <2>3. IF p \in DOMAIN job.bidders /\ GetsResult(session, job, outcome, p)
          THEN y.results = Append(x.results, result) ELSE y.results = x.results
    <3>1. /\ x = session.players[p]
          /\ y = Settled(session, job, outcome).players[p]
          /\ result = ResultOf(session, job, outcome.players[p], x,
                               CarbonTax(session, job, outcome)[p])
      BY <1>2
    <3> HIDE DEF x, y, result, job
    <3> QED
      BY <1>5, <3>1, SettlesEachBidder DEF Players
  <2>4. result.period = period /\ result.net = outcome.players[p].net
    BY DEF ResultOf
  <2> DEFINE paid == y.results
  <2>5. \/ /\ paid = x.results
           /\ ~(p \in DOMAIN outcome.players /\ outcome.players[p].traded)
        \/ \E gained : /\ paid = Append(x.results, gained)
                       /\ gained.period = period
                       /\ p \in DOMAIN outcome.players
                       /\ gained.net = outcome.players[p].net
    <3>1. CASE p \in DOMAIN job.bidders /\ GetsResult(session, job, outcome, p)
      <4> HIDE DEF result
      <4> QED
        BY <1>9, <2>3, <2>4, <3>1
    <3>2. CASE ~(p \in DOMAIN job.bidders /\ GetsResult(session, job, outcome, p))
      <4>1. ~(p \in DOMAIN outcome.players /\ outcome.players[p].traded)
        BY <1>9, <3>2 DEF GetsResult
      <4> HIDE DEF result
      <4> QED
        BY <2>3, <3>2, <4>1
    <3> QED
      BY <3>1, <3>2
  <2> DEFINE results == x.results
  <2>6. PICK n \in Nat : results = [k \in 1..n |-> results[k]]
    BY <2>2
  <2> HIDE DEF x, y, result, paid, results, period
  <2>7. PaidByRecords(Listed \cup {period}, With(records, period, outcome), p, paid)
    BY <1>4, <1>8, <2>1, <2>5, <2>6, NewRecordPays DEF results
  <2> QED
    BY <1>2, <1>7, <2>7 DEF paid, y, period
<1> QED
  BY <1>6, <1>10, <1>11 DEF RecordsInv, Players

\* Nobody leaves a session.
LEMMA PlayersStay == Sound /\ [Next]_vars => Players \subseteq Players'
<1> SUFFICES ASSUME Sound, session' = session \/ Change
             PROVE  Players \subseteq Players'
  BY EveryChange
<1>1. ASSUME NEW after, NEW undo, Touched(session, after, undo), session' = after
      PROVE  Players \subseteq Players'
  BY <1>1 DEF Touched, Players
<1>2. CASE session' = session
  BY <1>2 DEF Players
<1>3. CASE \E p \in Players : PlayerChange(p)
  <2>1. PICK p, y : Becomes(p, y)
    BY <1>3 DEF PlayerChange
  <2>2. session'.players = [session.players EXCEPT ![p] = y]
    BY <2>1 DEF Becomes, Sound, IsSession, SessionFields
  <2> QED
    BY <2>2 DEF Players
<1>4. CASE SideChange
  BY <1>4 DEF SideChange, SideFields, Sound, IsSession, SessionFields, Players
<1>5. CASE AddRound /\ session' = AddedRound(session)
  BY <1>1, <1>5, AddingTouches DEF Sound
<1>6. CASE Joining
  <2>1. \E p : session'.players = With(session.players, p, NewPlayer)
    BY <1>6 DEF Joining, Sound, IsSession, SessionFields
  <2> QED
    BY <2>1 DEF Players, With
<1>7. CASE Buying
  BY <1>1, <1>7, PurchasesTouch DEF Sound, Buying
<1>8. CASE Moving
  BY <1>8, MovingOpensOrders DEF FuelTurns, OrdersOpened, Players
<1>9. CASE Finishing
  BY <1>1, <1>9, SettledTouches DEF Sound, Finishing
<1> QED
  BY <1>2, <1>3, <1>4, <1>5, <1>6, <1>7, <1>8, <1>9 DEF Change

\* The invariant is inductive.
LEMMA RecordsInvKept ==
    SettledWell /\ FuelInv /\ Played!GameInv /\ RecordsInv /\ [Next]_vars => RecordsInv'
<1> SUFFICES ASSUME SettledWell, FuelInv, Played!GameInv, RecordsInv, [Next]_vars
             PROVE  RecordsInv'
  OBVIOUS
<1> USE DEF SettledWell
<1>1. CASE Finishing
  BY <1>1, SettlingPaysByRecord
<1>2. CASE RecordAhead
  <2>1. PICK i \in DOMAIN jobs : \E outcome \in Outcomes(jobs[i]) :
          WaitingFor(jobs[i]) /\ records' = With(records, jobs[i].period, outcome)
    BY <1>2 DEF RecordAhead
  <2>2. PICK outcome \in Outcomes(jobs[i]) :
          WaitingFor(jobs[i]) /\ records' = With(records, jobs[i].period, outcome)
    BY <2>1
  <2> DEFINE period == jobs[i].period
  <2>3. period = Here /\ session.settledPeriod # Here /\ IsTrading(Here)
    BY <2>2, TheOnlyJob DEF SessionInv, WaitingFor
  <2>4. period \notin Listed
    BY <2>3, WaitingIsUnlisted
  <2>5. Listed \subseteq DOMAIN records
    BY DEF RecordsInv
  <2>6. session' = session /\ Listed' = Listed /\ Players' = Players
    BY <1>2 DEF RecordAhead, Listed, Players
  <2> HIDE DEF period
  <2>7. records' = With(records, period, outcome)
    BY <2>2 DEF period
  <2>8. \A q \in Listed : q \in DOMAIN records' /\ records'[q] = records[q]
    BY <2>4, <2>5, <2>7 DEF With
  <2>9. \A p \in Players : PaidByRecords(Listed, With(records, period, outcome), p,
                                          session.players[p].results)
    BY <2>4, <2>5, UnlistedRecordPays DEF RecordsInv
  <2> QED
    BY <2>6, <2>7, <2>8, <2>9 DEF RecordsInv
<1>3. CASE records' = records /\ ~Finishing
  <2>1. FuelRests \/ FuelTurns
    BY <1>3, EveryStepOfFuel DEF SessionInv
  <2>2. Listed' = Listed
    BY <1>3, OnlySettlingLists DEF SessionInv, Listed
  <2>3. \A p \in DOMAIN session'.players :
           \/ p \notin Players /\ session'.players[p] = NewPlayer
           \/ p \in Players /\ session'.players[p].results = session.players[p].results
    BY <2>1 DEF FuelRests, FuelTurns, OrdersOpened, Players
  <2>4. Players \subseteq Players'
    BY <1>3, PlayersStay DEF SessionInv
  <2>5. ASSUME NEW p \in DOMAIN session'.players
        PROVE  PaidByRecords(Listed, records, p, session'.players[p].results)
    <3> DEFINE results == session'.players[p].results
    <3>1. CASE p \notin Players /\ session'.players[p] = NewPlayer
      <4>1. results = <<>>
        BY <3>1 DEF NewPlayer
      <4>2. DOMAIN results = {}
        BY <4>1
      <4> HIDE DEF results
      <4>3. \A q \in Listed : p \notin DOMAIN records[q].players
        BY <3>1 DEF RecordsInv
      <4> QED
        BY <4>2, <4>3 DEF PaidByRecords, results
    <3>2. CASE p \in Players /\ results = session.players[p].results
      BY <3>2 DEF RecordsInv
    <3> QED
      BY <2>3, <3>1, <3>2
  <2> QED
    BY <1>3, <2>2, <2>4, <2>5 DEF RecordsInv, Players
<1> QED
  BY <1>1, <1>2, <1>3, EveryStepOfRecords DEF SessionInv

\* A period the session lists has its record, and the players were paid by that record
\* and by no other, once, whichever attempts to settle it failed or were cut short by a
\* restart (finish_settlement: the record first, then the session).
THEOREM RecordsAlwaysMatch == Spec => []RecordsMatchResults
<1>1. Init => RecordsInv
  BY DEF Init, NewSession, RecordsInv, Listed, Players, Nobody
<1>2. Spec => [](SettledWell /\ FuelInv /\ Played!GameInv)
  BY FuelInvHolds, SessionPlaysOn, PTL
<1>3. Spec => []RecordsInv
  BY <1>1, <1>2, RecordsInvKept, PTL DEF Spec
<1>4. RecordsInv => RecordsMatchResults
  <2> SUFFICES ASSUME RecordsInv, NEW i \in DOMAIN session.recordedPeriods,
                      NEW period, period = session.recordedPeriods[i]
               PROVE  /\ period \in DOMAIN records
                      /\ \A p \in Players :
                           LET results == session.players[p].results
                               mine    == { j \in DOMAIN results : results[j].period = period }
                           IN  /\ Cardinality(mine) <= 1
                               /\ \A j \in mine :
                                     /\ p \in DOMAIN records[period].players
                                     /\ results[j].net = records[period].players[p].net
                               /\ (/\ p \in DOMAIN records[period].players
                                   /\ records[period].players[p].traded) => mine # {}
    BY DEF RecordsMatchResults
  <2>1. period \in Listed
    BY DEF Listed
  <2>2. ASSUME NEW p \in Players, NEW results, results = session.players[p].results,
               NEW mine, mine = { j \in DOMAIN results : results[j].period = period }
        PROVE  /\ Cardinality(mine) <= 1
               /\ \A j \in mine : /\ p \in DOMAIN records[period].players
                                  /\ results[j].net = records[period].players[p].net
               /\ (/\ p \in DOMAIN records[period].players
                   /\ records[period].players[p].traded) => mine # {}
    <3>1. PaidByRecords(Listed, records, p, results)
      BY <2>2 DEF RecordsInv
    <3>2. \A j, k \in mine : j = k
      BY <2>2, <3>1 DEF PaidByRecords
    <3>3. Cardinality(mine) <= 1
      <4>1. CASE mine = {}
        BY <4>1, FS_EmptySet
      <4>2. ASSUME NEW j \in mine PROVE Cardinality(mine) <= 1
        <5>1. mine = {j}
          BY <3>2
        <5>2. Cardinality({j}) = 1
          BY FS_Singleton
        <5> QED
          BY <5>1, <5>2
      <4> QED
        BY <4>1, <4>2
    <3> QED
      BY <2>1, <2>2, <3>1, <3>3 DEF PaidByRecords
  <2> QED
    BY <2>1, <2>2 DEF RecordsInv
<1> QED
  BY <1>3, <1>4, PTL

-----------------------------------------------------------------------------
(***************************************************************************)
(* Money.  Prices and what trading makes are amounts, and a selection can  *)
(* always be paid.                                                         *)
(***************************************************************************)

\* The powers of a number, each by how many factors it has: their count is that of a set.
IsPowers(pow, b, n) ==
    pow = [s \in SUBSET (1..n) |-> IF s = {} THEN 1 ELSE b * pow[Others(s)]]

\* A number has its powers, Power is the last of them, and each is positive.
LEMMA PowersExist ==
    ASSUME NEW b \in Nat \ {0}, NEW n \in Nat
    PROVE  \E pow : /\ IsPowers(pow, b, n)
                    /\ Power(b, n) = pow[1..n]
                    /\ \A s \in SUBSET (1..n) : pow[s] \in Nat \ {0}
<1> DEFINE S == 1..n
           D == Nat \ {0}
           F == [xd \in S \X D |-> b * xd[2]]
           Raw(power) == power = [s \in SUBSET S |->
                                    IF s = {} THEN 1
                                    ELSE b * power[s \ {CHOOSE x \in s : TRUE}]]
           raw == CHOOSE power : Raw(power)
<1>1. Power(b, n) = raw[S]
  BY Zenon DEF Power, FoldSet, MapThenFoldSet
<1>2. IsFiniteSet(S)
  BY FS_Interval
<1> HIDE DEF S
<1>3. \A x \in S, d \in D : F[<<x, d>>] = b * d
  OBVIOUS
<1>4. \A d \in D : b * d \in D
  OBVIOUS
<1>5. 1 \in D
  OBVIOUS
<1> HIDE DEF D, F
<1>6. PICK it : IsFold(it, S, 1, F)
  BY <1>2, FoldsExist
<1>7. \A s \in SUBSET S : it[s] \in D
  <2>1. \A x \in S, d \in D : F[<<x, d>>] \in D
    BY <1>3, <1>4
  <2> QED
    BY <1>2, <1>5, <1>6, <2>1, FoldTyped
<1>8. Raw(it)
  <2>1. it = [s \in SUBSET S |-> IF s = {} THEN 1 ELSE F[<<Picked(s), it[Others(s)]>>]]
    BY <1>6 DEF IsFold
  <2>2. \A s \in SUBSET S : s # {} => Picked(s) \in S /\ Others(s) \in SUBSET S
    BY PickedIsIn
  <2>3. \A s \in SUBSET S : s # {} => F[<<Picked(s), it[Others(s)]>>] = b * it[Others(s)]
    BY <1>3, <1>7, <2>2
  <2>4. it = [s \in SUBSET S |-> IF s = {} THEN 1 ELSE b * it[Others(s)]]
    BY <2>1, <2>3
  <2> QED
    BY <2>4 DEF Picked, Others
<1>9. Raw(raw)
  <2> HIDE DEF Raw
  <2> QED
    BY <1>8, Zenon DEF raw
<1> HIDE DEF raw
<1>10. raw = [s \in SUBSET S |-> IF s = {} THEN 1 ELSE b * raw[Others(s)]]
  BY <1>9 DEF Picked, Others
<1> DEFINE G == { s \in SUBSET S : raw[s] \in D }
<1>11. ASSUME NEW s \in SUBSET S, \A u \in SUBSET s : u # s => u \in G
       PROVE  s \in G
  <2>1. CASE s = {}
    BY <1>5, <1>10, <2>1
  <2>2. CASE s # {}
    <3>1. Others(s) \in G
      BY <1>11, <2>2, PickedIsIn
    <3>2. raw[s] = b * raw[Others(s)]
      BY <1>10, <2>2
    <3> QED
      BY <1>4, <3>1, <3>2
  <2> QED
    BY <2>1, <2>2
<1> HIDE DEF G
<1>12. \A s \in SUBSET S : s \in G
  BY <1>2, <1>11, SubsetInduction
<1>13. \A s \in SUBSET S : raw[s] \in D
  BY <1>12 DEF G
<1>14. IsPowers(raw, b, n)
  BY <1>10 DEF IsPowers, S
<1>15. Power(b, n) = raw[1..n] /\ \A s \in SUBSET (1..n) : raw[s] \in Nat \ {0}
  BY <1>1, <1>13 DEF S, D
<1> QED
  BY <1>14, <1>15

\* A power is a positive number, and more of a greater one; with no factor it is 1.
LEMMA PowersCompare ==
    ASSUME NEW n \in Nat
    PROVE  /\ Power(10, n) \in Nat \ {0} /\ Power(7, n) \in Nat \ {0}
           /\ Power(7, n) <= Power(10, n)
           /\ n = 0 => Power(7, n) = Power(10, n)
<1> DEFINE S == 1..n
<1>1. IsFiniteSet(S)
  BY FS_Interval
<1>0. 10 \in Nat \ {0} /\ 7 \in Nat \ {0}
  OBVIOUS
<1>2. PICK big : /\ IsPowers(big, 10, n)
                 /\ Power(10, n) = big[S]
                 /\ \A s \in SUBSET S : big[s] \in Nat \ {0}
  BY <1>0, PowersExist, Zenon
<1>3. PICK small : /\ IsPowers(small, 7, n)
                   /\ Power(7, n) = small[S]
                   /\ \A s \in SUBSET S : small[s] \in Nat \ {0}
  BY <1>0, PowersExist, Zenon
<1>4. \A s \in SUBSET S : /\ big[s] = IF s = {} THEN 1 ELSE 10 * big[Others(s)]
                          /\ small[s] = IF s = {} THEN 1 ELSE 7 * small[Others(s)]
  BY <1>2, <1>3 DEF IsPowers
<1>5. n = 0 => S = {}
  OBVIOUS
<1> HIDE DEF S
<1> DEFINE G == { s \in SUBSET S : small[s] <= big[s] }
<1>6. ASSUME NEW s \in SUBSET S, \A u \in SUBSET s : u # s => u \in G
      PROVE  s \in G
  <2>1. CASE s = {}
    BY <1>4, <2>1
  <2>2. CASE s # {}
    <3>1. Others(s) \in G /\ Others(s) \in SUBSET S
      BY <1>6, <2>2, PickedIsIn
    <3>2. big[s] = 10 * big[Others(s)] /\ small[s] = 7 * small[Others(s)]
      BY <1>4, <2>2
    <3>3. big[Others(s)] \in Nat /\ small[Others(s)] \in Nat
      BY <1>2, <1>3, <3>1
    <3> QED
      BY <3>1, <3>2, <3>3
  <2> QED
    BY <2>1, <2>2
<1> HIDE DEF G
<1>7. \A s \in SUBSET S : s \in G
  BY <1>1, <1>6, SubsetInduction
<1>8. small[S] <= big[S]
  BY <1>7 DEF G
<1> QED
  BY <1>2, <1>3, <1>4, <1>5, <1>8

\* Blackouts never pay, and none costs nothing.
LEMMA BlackoutsCost ==
    ASSUME NEW profit \in Int, NEW n \in Nat
    PROVE  BlackoutCost(profit, n) \in Nat /\ (n = 0 => BlackoutCost(profit, n) = 0)
<1> DEFINE big   == Power(10, n)
           small == Power(7, n)
           made  == AtLeastZero(profit)
<1>1. big \in Nat \ {0} /\ small \in Nat \ {0} /\ small <= big /\ (n = 0 => small = big)
  BY PowersCompare
<1>2. made \in Nat
  BY DEF AtLeastZero
<1>3. BlackoutCost(profit, n) = (made * (big - small)) \div big
  BY DEF BlackoutCost
<1> HIDE DEF big, small, made
<1>4. big - small \in Nat /\ (n = 0 => big - small = 0)
  BY <1>1
<1> DEFINE lost == big - small
<1>5. lost \in Nat /\ (n = 0 => lost = 0)
  BY <1>4
<1> HIDE DEF lost
<1> DEFINE whole == made * lost
<1>6. whole \in Nat /\ (n = 0 => whole = 0)
  BY <1>2, <1>5
<1> HIDE DEF whole
<1>7. whole \div big \in Nat /\ (whole = 0 => whole \div big = 0)
  BY <1>1, <1>6
<1> QED
  BY <1>3, <1>6, <1>7 DEF whole, lost

\* The product of the percentages of events fired is one.
LEMMA ProductIsNat ==
    ASSUME NEW fired \in Seq(Fired), NEW hits, hits \subseteq DOMAIN fired
    PROVE  Product(fired, hits) \in Nat
<1> DEFINE Times(i, percent) == (percent * Event[fired[i].event].percent) \div 100
           F == [xd \in hits \X Nat |-> Times(xd[1], xd[2])]
           Raw(it) == it = [s \in SUBSET hits |->
                              IF s = {} THEN 100
                              ELSE Times(CHOOSE x \in s : TRUE, it[s \ {CHOOSE x \in s : TRUE}])]
           raw == CHOOSE it : Raw(it)
<1>1. Product(fired, hits) = raw[hits]
  BY Zenon DEF Product, FoldSet, MapThenFoldSet
<1>2. IsFiniteSet(hits)
  <2>1. PICK n \in Nat : DOMAIN fired = 1..n
    OBVIOUS
  <2>2. IsFiniteSet(1..n)
    BY FS_Interval
  <2> QED
    BY <2>1, <2>2, FS_Subset
<1>3. \A x \in hits, d \in Nat : F[<<x, d>>] = Times(x, d)
  OBVIOUS
<1>4. ASSUME NEW x \in hits, NEW d \in Nat PROVE Times(x, d) \in Nat
  <2>1. fired[x] \in Fired
    OBVIOUS
  <2>2. Event[fired[x].event].percent \in Nat
    BY <2>1, EventAssumption DEF Fired
  <2> QED
    BY <2>2
<1> HIDE DEF Times, F
<1>5. PICK it : IsFold(it, hits, 100, F)
  BY <1>2, FoldsExist
<1>6. \A s \in SUBSET hits : it[s] \in Nat
  <2>1. \A x \in hits, d \in Nat : F[<<x, d>>] \in Nat
    BY <1>3, <1>4
  <2> QED
    BY <1>2, <1>5, <2>1, FoldTyped
<1>7. Raw(it)
  <2>1. it = [s \in SUBSET hits |-> IF s = {} THEN 100 ELSE F[<<Picked(s), it[Others(s)]>>]]
    BY <1>5 DEF IsFold
  <2>2. \A s \in SUBSET hits : s # {} => Picked(s) \in hits /\ Others(s) \in SUBSET hits
    BY PickedIsIn
  <2>3. \A s \in SUBSET hits :
           s # {} => F[<<Picked(s), it[Others(s)]>>] = Times(Picked(s), it[Others(s)])
    BY <1>3, <1>6, <2>2
  <2>4. it = [s \in SUBSET hits |-> IF s = {} THEN 100 ELSE Times(Picked(s), it[Others(s)])]
    BY <2>1, <2>3
  <2> QED
    BY <2>4 DEF Picked, Others
<1>8. Raw(raw)
  <2> HIDE DEF Raw
  <2> QED
    BY <1>7, Zenon DEF raw
<1> HIDE DEF raw
<1>9. raw = [s \in SUBSET hits |-> IF s = {} THEN 100 ELSE Times(Picked(s), raw[Others(s)])]
  BY <1>8 DEF Picked, Others
<1> DEFINE G == { s \in SUBSET hits : raw[s] \in Nat }
<1>10. ASSUME NEW s \in SUBSET hits, \A u \in SUBSET s : u # s => u \in G
       PROVE  s \in G
  <2>1. CASE s = {}
    BY <1>9, <2>1
  <2>2. CASE s # {}
    <3>1. Others(s) \in G /\ Picked(s) \in hits
      BY <1>10, <2>2, PickedIsIn
    <3>2. raw[s] = Times(Picked(s), raw[Others(s)])
      BY <1>9, <2>2
    <3> QED
      BY <1>4, <3>1, <3>2
  <2> QED
    BY <2>1, <2>2
<1> HIDE DEF G
<1>11. \A s \in SUBSET hits : s \in G
  BY <1>2, <1>10, SubsetInduction
<1> QED
  BY <1>1, <1>11 DEF G

\* Of some numbers, one is the least.
LEMMA MinIsOne ==
    ASSUME NEW S, S \subseteq Nat, S # {}
    PROVE  Min(S) \in S
<1> DEFINE First(x) == x \in S /\ \A y \in S : x =< y
<1> SUFFICES \E x : First(x)
  <2>1. Min(S) = CHOOSE x : First(x)
    BY Zenon DEF Min
  <2> HIDE DEF First
  <2>2. (\E x : First(x)) => First(CHOOSE x : First(x))
    BY Zenon
  <2> QED
    BY <2>1, <2>2 DEF First
<1> SUFFICES ASSUME ~ \E x : First(x) PROVE FALSE
  OBVIOUS
<1> DEFINE G == { i \in Nat : \A y \in 0..i : y \notin S }
<1>1. PICK n \in Nat : n \in S
  OBVIOUS
<1>2. ASSUME NEW i \in Nat, i \in S PROVE \E y \in S : y < i
  <2>1. ~First(i)
    OBVIOUS
  <2> QED
    BY <1>2, <2>1
<1>3. 0 \in G
  BY <1>2
<1>4. ASSUME NEW i \in 1..n, i - 1 \in G PROVE i \in G
  <2>1. \A y \in S : ~(y < i)
    BY <1>4
  <2>2. i \notin S
    BY <1>2, <2>1
  <2>3. \A y \in 0..i : y = i \/ y \in 0..(i - 1)
    OBVIOUS
  <2> QED
    BY <1>4, <2>2, <2>3
<1> HIDE DEF G
<1>5. \A i \in 0..n : i \in G
  BY <1>3, <1>4, CountingInduction
<1>6. n \in G
  BY <1>5
<1> QED
  BY <1>1, <1>6 DEF G

\* A type's price for a session's length is an amount.
LEMMA SessionPriceIsNat ==
    ASSUME NEW f \in Facilities, NEW n
    PROVE  SessionPrice(f, n) \in Nat
<1> DEFINE short  == Catalog[f].short
           Prices == [rounds: Nat, price: Nat]
           fits   == { i \in DOMAIN short : n <= short[i].rounds }
<1>1. Catalog[f].price \in Nat /\ short \in Seq(Prices)
  BY CatalogAssumption
<1>2. SessionPrice(f, n) = IF fits = {} THEN Catalog[f].price ELSE short[Min(fits)].price
  BY Zenon DEF SessionPrice
<1>3. fits \subseteq DOMAIN short
  OBVIOUS
<1> HIDE DEF short, Prices, fits
<1>4. DOMAIN short \subseteq Nat /\ \A i \in DOMAIN short : short[i] \in Prices
  BY <1>1
<1>5. fits # {} => Min(fits) \in DOMAIN short
  BY <1>3, <1>4, MinIsOne
<1> QED
  BY <1>1, <1>2, <1>4, <1>5 DEF Prices

\* So is a facility's price with the shocks there were.
LEMMA FacilityPricesAreNat ==
    ASSUME NEW s, s.firedEvents \in Seq(Fired), NEW r
    PROVE  FacilityPrices(s, r) \in [Facilities -> Nat]
<1> SUFFICES ASSUME NEW f \in Facilities
             PROVE  (SessionPrice(f, s.priceRoundCount) * FacilityPriceFactor(s, f, r)) \div 100 \in Nat
  BY DEF FacilityPrices
<1> DEFINE hits == { i \in DOMAIN s.firedEvents :
                       /\ s.firedEvents[i].round = r
                       /\ Event[s.firedEvents[i].event].kind = "facility_capex_multiplier"
                       /\ Catalog[f].category \in Event[s.firedEvents[i].event].target }
           factor == FacilityPriceFactor(s, f, r)
           price  == SessionPrice(f, s.priceRoundCount)
<1>1. factor = Product(s.firedEvents, hits)
  BY Zenon DEF FacilityPriceFactor
<1>2. hits \subseteq DOMAIN s.firedEvents
  OBVIOUS
<1> HIDE DEF hits, factor, price
<1>3. factor \in Nat
  BY <1>1, <1>2, ProductIsNat
<1>4. price \in Nat
  BY SessionPriceIsNat DEF price
<1>5. (price * factor) \div 100 \in Nat
  BY <1>3, <1>4
<1> QED
  BY <1>5 DEF price, factor

-----------------------------------------------------------------------------
(***************************************************************************)
(* Everything that can happen to a player's account: their cash, what they *)
(* selected and bought, their results and their loan.  x is a player       *)
(* before, y after.                                                        *)
(***************************************************************************)
AccountFields == {"money", "selection", "purchases", "results", "loan"}

SameBut(x, y, fields) == \A k \in AccountFields \ fields : y[k] = x[k]

\* What a loan takes at the start of Round r.
Owed(loan, r) == IF loan = NoLoan THEN 0 ELSE PaymentsDue(loan, r) * LOAN_PAYMENT

PaidFor(x, y, s, r) ==
    LET price == FacilityPrices(s, r)
    IN  /\ y.money = x.money - SelectionCost(x.selection, price)
        /\ y.purchases = [f \in Facilities |->
                            [x.purchases[f] EXCEPT ![r] = @ + x.selection[f] * price[f]]]
        /\ y.selection = NothingSelected
        /\ SameBut(x, y, {"money", "purchases", "selection"})

PaidOff(x, y, r) ==
    /\ y.money = x.money - Owed(x.loan, r)
    /\ y.loan = Paid(x.loan, r)
    /\ SameBut(x, y, {"money", "loan"})

StartedRound(x, y, r) ==
    IF r = 1 THEN SameBut(x, y, {})
    ELSE /\ y.money = RoundStartMoney(x.money - Owed(x.loan, r))
         /\ y.loan = Paid(x.loan, r)
         /\ SameBut(x, y, {"money", "loan"})

WentDark(x, y, s, r) ==
    /\ y.money = x.money - BlackoutCost(ProfitIn(x, r), BlackoutsIn(s, r))
    /\ SameBut(x, y, {"money"})

\* From s to the checkpoint c.
AccountMoved(x, y, s, c) ==
    IF IsInvestment(s.checkpoint) THEN PaidFor(x, y, s, s.checkpoint.round)
    ELSE IF IsInvestment(c) THEN StartedRound(x, y, c.round)
    ELSE IF c = Finished THEN PaidOff(x, y, s.roundCount + 1)
    ELSE IF IsRecap(c) THEN WentDark(x, y, s, c.round)
    ELSE SameBut(x, y, {})

\* Each player of s is in t, their account moved so.
AccountsMoved(s, t, c) ==
    /\ DOMAIN t.players = DOMAIN s.players
    /\ \A p \in DOMAIN s.players : AccountMoved(s.players[p], t.players[p], s, c)

\* The purchase at an Investment phase's end (_apply_purchases).
LEMMA PurchasesArePaid ==
    ASSUME NEW s, IsSession(s), NEW r
    PROVE  /\ DOMAIN ApplyPurchases(s, r).players = DOMAIN s.players
           /\ \A p \in DOMAIN s.players :
                 PaidFor(s.players[p], ApplyPurchases(s, r).players[p], s, r)
<1> DEFINE price == FacilityPrices(s, r)
           owned(x) == [f \in Facilities |-> [x.owned[f] EXCEPT ![r] = @ + x.selection[f]]]
           paid(x) == [f \in Facilities |->
                        [x.purchases[f] EXCEPT ![r] = @ + x.selection[f] * price[f]]]
           Buy(x) == [x EXCEPT
                 !.money = @ - SelectionCost(x.selection, price),
                 !.owned = owned(x),
                 !.purchases = paid(x),
                 !.selection = NothingSelected,
                 !.stored = KeepWhatFits(@, owned(x), r)]
           roster == [p \in DOMAIN s.players |-> Buy(s.players[p])]
<1>1. ApplyPurchases(s, r) = [s EXCEPT !.players = roster]
  BY DEF ApplyPurchases, ForEveryPlayer
<1>2. ASSUME NEW x, IsPlayer(x) PROVE PaidFor(x, Buy(x), s, r)
  <2> HIDE DEF owned, paid
  <2>1. /\ Buy(x).money = x.money - SelectionCost(x.selection, price)
        /\ Buy(x).purchases = paid(x)
        /\ Buy(x).selection = NothingSelected
        /\ Buy(x).results = x.results
        /\ Buy(x).loan = x.loan
    BY <1>2 DEF IsPlayer, PlayerFields
  <2> HIDE DEF Buy
  <2> QED
    BY <2>1 DEF PaidFor, SameBut, AccountFields, paid
<1> HIDE DEF Buy
<1>3. /\ DOMAIN roster = DOMAIN s.players
      /\ \A p \in DOMAIN s.players : PaidFor(s.players[p], roster[p], s, r)
  BY <1>2 DEF IsSession
<1> HIDE DEF roster
<1>4. [s EXCEPT !.players = roster].players = roster
  BY DEF IsSession, SessionFields
<1> QED
  BY <1>1, <1>3, <1>4

\* Payments on a loan (_apply_loan_payments).
LEMMA LoansArePaidOff ==
    ASSUME NEW s, IsSession(s), NEW r, \A p \in DOMAIN s.players : s.players[p].money \in Int
    PROVE  /\ DOMAIN ApplyLoanPayments(s, r).players = DOMAIN s.players
           /\ \A p \in DOMAIN s.players :
                 PaidOff(s.players[p], ApplyLoanPayments(s, r).players[p], r)
<1> DEFINE due(x) == PaymentsDue(x.loan, r)
           Pay(x) == IF x.loan = NoLoan THEN x
                     ELSE [x EXCEPT !.money = @ - due(x) * LOAN_PAYMENT,
                                    !.loan.made = @ + due(x)]
           roster == [p \in DOMAIN s.players |-> Pay(s.players[p])]
<1>1. ApplyLoanPayments(s, r) = [s EXCEPT !.players = roster]
  BY DEF ApplyLoanPayments, ForEveryPlayer
<1>2. ASSUME NEW x, IsPlayer(x), x.money \in Int PROVE PaidOff(x, Pay(x), r)
  <2>1. CASE x.loan = NoLoan
    <3>1. Pay(x) = x /\ Owed(x.loan, r) = 0 /\ Paid(x.loan, r) = x.loan
      BY <2>1 DEF Owed, Paid
    <3>2. x.money - 0 = x.money
      BY <1>2
    <3> HIDE DEF Pay
    <3> QED
      BY <3>1, <3>2 DEF PaidOff, SameBut
  <2>2. CASE x.loan # NoLoan
    <3> DEFINE y == [x EXCEPT !.money = @ - due(x) * LOAN_PAYMENT, !.loan.made = @ + due(x)]
    <3>1. Pay(x) = y
      BY <2>2
    <3>2. /\ y.money = x.money - due(x) * LOAN_PAYMENT
          /\ y.loan = [x.loan EXCEPT !.made = @ + due(x)]
          /\ y.selection = x.selection /\ y.purchases = x.purchases /\ y.results = x.results
      BY <1>2 DEF IsPlayer, PlayerFields
    <3> HIDE DEF y
    <3>3. Owed(x.loan, r) = due(x) * LOAN_PAYMENT /\ Paid(x.loan, r) = y.loan
      BY <2>2, <3>2 DEF Owed, Paid
    <3> HIDE DEF Pay
    <3> QED
      BY <3>1, <3>2, <3>3 DEF PaidOff, SameBut, AccountFields
  <2> QED
    BY <2>1, <2>2
<1> HIDE DEF Pay
<1>3. /\ DOMAIN roster = DOMAIN s.players
      /\ \A p \in DOMAIN s.players : PaidOff(s.players[p], roster[p], r)
  BY <1>2 DEF IsSession
<1> HIDE DEF roster
<1>4. [s EXCEPT !.players = roster].players = roster
  BY DEF IsSession, SessionFields
<1> QED
  BY <1>1, <1>3, <1>4

\* A Round's start pays what is due, then tops up; the first does neither
\* (_apply_round_start_money).
LEMMA RoundStartMoves ==
    ASSUME NEW s, IsSession(s), NEW r, \A p \in DOMAIN s.players : s.players[p].money \in Int
    PROVE  /\ DOMAIN ApplyRoundStartMoney(s, r).players = DOMAIN s.players
           /\ \A p \in DOMAIN s.players :
                 StartedRound(s.players[p], ApplyRoundStartMoney(s, r).players[p], r)
<1> DEFINE paid == ApplyLoanPayments(s, r)
           TopUp(x) == [x EXCEPT !.money = RoundStartMoney(@)]
           roster == [p \in DOMAIN paid.players |-> TopUp(paid.players[p])]
<1>1. ApplyRoundStartMoney(s, r) = IF r = 1 THEN s ELSE [paid EXCEPT !.players = roster]
  BY DEF ApplyRoundStartMoney, ForEveryPlayer
<1>2. /\ IsSession(paid)
      /\ DOMAIN paid.players = DOMAIN s.players
      /\ \A p \in DOMAIN s.players : PaidOff(s.players[p], paid.players[p], r)
  BY LoansArePaidOff, LoanPaymentsTouch, TouchedIsSession
<1>3. CASE r = 1
  BY <1>1, <1>3 DEF StartedRound, SameBut
<1>4. CASE r # 1
  <2>1. ASSUME NEW x, IsPlayer(x)
        PROVE  /\ TopUp(x).money = RoundStartMoney(x.money)
               /\ TopUp(x).loan = x.loan
               /\ TopUp(x).selection = x.selection
               /\ TopUp(x).purchases = x.purchases
               /\ TopUp(x).results = x.results
    BY <2>1 DEF IsPlayer, PlayerFields
  <2> HIDE DEF TopUp, paid
  <2>2. DOMAIN roster = DOMAIN s.players
    BY <1>2
  <2>3. ASSUME NEW p \in DOMAIN s.players
        PROVE  StartedRound(s.players[p], roster[p], r)
    <3> DEFINE x == s.players[p]
               z == paid.players[p]
               y == TopUp(z)
    <3>1. roster[p] = y /\ IsPlayer(z) /\ PaidOff(x, z, r)
      BY <1>2, <2>3 DEF IsSession
    <3> HIDE DEF x, z, roster
    <3>2. /\ y.money = RoundStartMoney(z.money)
          /\ y.loan = z.loan
          /\ y.selection = z.selection
          /\ y.purchases = z.purchases
          /\ y.results = z.results
      BY <2>1, <3>1
    <3> HIDE DEF y
    <3> QED
      BY <1>4, <3>1, <3>2 DEF x, PaidOff, StartedRound, SameBut, AccountFields
  <2> HIDE DEF roster
  <2>4. [paid EXCEPT !.players = roster].players = roster
    BY <1>2 DEF IsSession, SessionFields
  <2> QED
    BY <1>1, <1>4, <2>2, <2>3, <2>4
<1> QED
  BY <1>3, <1>4

\* Blackouts cost part of a Round's profit when its Recap opens (_charge_blackout_cost).
LEMMA BlackoutsAreCharged ==
    ASSUME NEW s, IsSession(s), NEW r
    PROVE  /\ DOMAIN ChargeBlackoutCost(s, r).players = DOMAIN s.players
           /\ \A p \in DOMAIN s.players :
                 WentDark(s.players[p], ChargeBlackoutCost(s, r).players[p], s, r)
<1> DEFINE cost(x) == BlackoutCost(ProfitIn(x, r), BlackoutsIn(s, r))
           Charge(x) == [x EXCEPT !.money = @ - cost(x)]
           roster == [p \in DOMAIN s.players |-> Charge(s.players[p])]
<1>1. ChargeBlackoutCost(s, r) = [s EXCEPT !.players = roster]
  BY DEF ChargeBlackoutCost, ForEveryPlayer
<1>2. ASSUME NEW x, IsPlayer(x) PROVE WentDark(x, Charge(x), s, r)
  <2> HIDE DEF cost
  <2>1. /\ Charge(x).money = x.money - cost(x)
        /\ Charge(x).loan = x.loan
        /\ Charge(x).selection = x.selection
        /\ Charge(x).purchases = x.purchases
        /\ Charge(x).results = x.results
    BY <1>2 DEF IsPlayer, PlayerFields
  <2> HIDE DEF Charge
  <2> QED
    BY <2>1 DEF WentDark, SameBut, AccountFields, cost
<1> HIDE DEF Charge
<1>3. /\ DOMAIN roster = DOMAIN s.players
      /\ \A p \in DOMAIN s.players : WentDark(s.players[p], roster[p], s, r)
  BY <1>2 DEF IsSession
<1> HIDE DEF roster
<1>4. [s EXCEPT !.players = roster].players = roster
  BY DEF IsSession, SessionFields
<1> QED
  BY <1>1, <1>3, <1>4

\* Of accounts, an advance changes what leaving its checkpoint and opening a Recap change
\* (advance).
LEMMA AdvanceMovesAccounts ==
    ASSUME NEW s, IsSession(s), NEW c, NEW opened,
           \A p \in DOMAIN s.players : s.players[p].money \in Int,
           IsRecap(c) => ~IsInvestment(s.checkpoint)
    PROVE  AccountsMoved(s, Advanced(s, c, opened), c)
<1> DEFINE left   == Left(s, c)
           closed == Closed(left, c)
           fired  == FireEvents(closed, c)
           priced == Priced(fired, c, opened)
           t      == Advanced(s, c, opened)
           Keeps(u, w) == /\ DOMAIN w.players = DOMAIN u.players
                          /\ \A p \in DOMAIN u.players : SameBut(u.players[p], w.players[p], {})
<1>1. AccountFields \in SUBSET PlayerFields
  BY DEF AccountFields, PlayerFields
<1>2. ASSUME NEW u, NEW w, NEW undo, Touched(u, w, undo), AccountFields \cap undo = {}
      PROVE  Keeps(u, w)
  <2> HIDE DEF left, closed, fired, priced, t
  <2>1. \A k \in AccountFields : k \in PlayerFields /\ k \notin undo
    BY <1>1, <1>2
  <2>2. /\ DOMAIN w.players = DOMAIN u.players
        /\ \A p \in DOMAIN u.players : \A k \in AccountFields : w.players[p][k] = u.players[p][k]
    BY <1>2, <2>1 DEF Touched, PlayerTouched
  <2> QED
    BY <2>2 DEF SameBut
<1>3. \A undo \in {VoteUndo, RetirementUndo, GrowthUndo, FiringUndo(c), PricingUndo(c), UnlocksUndo} :
         AccountFields \cap undo = {}
  BY DEF AccountFields, VoteUndo, RetirementUndo, GrowthUndo, FiringUndo, PricingUndo,
         EventsUndo, FuelMarketUndo, UnlocksUndo
<1>4. t = Arrived(left, c, opened) /\ IsSession(left)
  BY AdvanceLeavesAndArrives
<1>5. /\ Touched(closed, fired, FiringUndo(c))
      /\ Touched(fired, priced, PricingUndo(c))
      /\ Touched(priced, t, UnlocksUndo)
  BY <1>4, ArrivingStages
<1>6. IsRecap(c) => c # Finished /\ ~IsInvestment(c)
  BY DEF IsRecap, Finished, IsInvestment
<1> HIDE DEF fired, priced, t
<1>7. Keeps(closed, t)
  <2>1. Keeps(closed, fired) /\ Keeps(fired, priced) /\ Keeps(priced, t)
    BY <1>2, <1>3, <1>5
  <2> HIDE DEF closed
  <2> QED
    BY <2>1 DEF SameBut
<1> SUFFICES /\ DOMAIN closed.players = DOMAIN s.players
             /\ \A p \in DOMAIN s.players : AccountMoved(s.players[p], closed.players[p], s, c)
  <2> HIDE DEF closed
  <2> SUFFICES ASSUME NEW x, NEW y, NEW z, AccountMoved(x, y, s, c), SameBut(y, z, {})
               PROVE  AccountMoved(x, z, s, c)
    BY <1>7 DEF AccountsMoved, t
  <2>1. z.money = y.money /\ z.selection = y.selection /\ z.purchases = y.purchases
        /\ z.results = y.results /\ z.loan = y.loan
    BY DEF SameBut, AccountFields
  <2>2. \A fields : SameBut(x, y, fields) => SameBut(x, z, fields)
    BY DEF SameBut
  <2> QED
    BY <2>1, <2>2 DEF AccountMoved, PaidFor, StartedRound, PaidOff, WentDark
<1>8. CASE IsInvestment(s.checkpoint)
  <2> DEFINE r == s.checkpoint.round
             bought == ApplyPurchases(s, r)
  <2>1. closed = CountVote(bought, r)
    BY <1>8 DEF Left, Closed
  <2>2. IsSession(bought)
    BY PurchasesTouch, TouchedIsSession
  <2>3. /\ DOMAIN bought.players = DOMAIN s.players
        /\ \A p \in DOMAIN s.players : PaidFor(s.players[p], bought.players[p], s, r)
    BY PurchasesArePaid
  <2> HIDE DEF bought, closed
  <2>4. Keeps(bought, closed)
    BY <1>2, <1>3, <2>1, <2>2, VoteTouches
  <2>5. ASSUME NEW p \in DOMAIN s.players
        PROVE  PaidFor(s.players[p], closed.players[p], s, r)
    <3>1. PaidFor(s.players[p], bought.players[p], s, r)
          /\ SameBut(bought.players[p], closed.players[p], {})
      BY <2>3, <2>4
    <3> QED
      BY <3>1 DEF PaidFor, SameBut, AccountFields
  <2> QED
    BY <1>8, <2>3, <2>4, <2>5 DEF AccountMoved
<1>9. CASE ~IsInvestment(s.checkpoint) /\ IsInvestment(c)
  <2> DEFINE worn == ApplyRetirement(s, c.round)
  <2>1. closed = ApplyRoundStartMoney(worn, c.round)
    BY <1>6, <1>9 DEF Left, Closed
  <2>2. IsSession(worn) /\ Touched(s, worn, RetirementUndo)
    BY RetirementTouches, TouchedIsSession
  <2> HIDE DEF worn, closed
  <2>3. Keeps(s, worn)
    BY <1>2, <1>3, <2>2
  <2>4. \A p \in DOMAIN worn.players : worn.players[p].money \in Int
    BY <2>3 DEF SameBut, AccountFields
  <2>5. /\ DOMAIN closed.players = DOMAIN worn.players
        /\ \A p \in DOMAIN worn.players :
              StartedRound(worn.players[p], closed.players[p], c.round)
    BY <2>1, <2>2, <2>4, RoundStartMoves
  <2>6. ASSUME NEW p \in DOMAIN s.players
        PROVE  StartedRound(s.players[p], closed.players[p], c.round)
    <3> DEFINE x == s.players[p]
               z == worn.players[p]
               y == closed.players[p]
    <3>1. SameBut(x, z, {}) /\ StartedRound(z, y, c.round)
      BY <2>3, <2>5
    <3> SUFFICES StartedRound(x, y, c.round)
      OBVIOUS
    <3> HIDE DEF x, y, z
    <3> QED
      BY <3>1 DEF StartedRound, SameBut, AccountFields
  <2> QED
    BY <1>9, <2>3, <2>5, <2>6 DEF AccountMoved
<1>10. CASE ~IsInvestment(s.checkpoint) /\ ~IsInvestment(c) /\ c = Finished
  <2>1. closed = ApplyLoanPayments(s, s.roundCount + 1)
    BY <1>6, <1>10 DEF Left, Closed
  <2> HIDE DEF closed
  <2> QED
    BY <1>10, <2>1, LoansArePaidOff DEF AccountMoved
<1>11. CASE ~IsInvestment(s.checkpoint) /\ IsRecap(c)
  <2> DEFINE grown == GrowDemand(s, c.round)
             r     == c.round
  <2>1. closed = ChargeBlackoutCost(grown, r)
    BY <1>6, <1>11 DEF Left, Closed
  <2>2. IsSession(grown) /\ Touched(s, grown, GrowthUndo)
    BY GrowthTouches, TouchedIsSession
  <2> HIDE DEF grown, closed
  <2>3. Keeps(s, grown) /\ grown.blackouts = s.blackouts
    BY <1>2, <1>3, <2>2 DEF Touched, SessionFields, GrowthUndo
  <2>4. /\ DOMAIN closed.players = DOMAIN grown.players
        /\ \A p \in DOMAIN grown.players :
              WentDark(grown.players[p], closed.players[p], grown, r)
    BY <2>1, <2>2, BlackoutsAreCharged
  <2>5. ASSUME NEW p \in DOMAIN s.players
        PROVE  WentDark(s.players[p], closed.players[p], s, r)
    <3> DEFINE x == s.players[p]
               z == grown.players[p]
               y == closed.players[p]
    <3>1. SameBut(x, z, {}) /\ WentDark(z, y, grown, r)
      BY <2>3, <2>4
    <3> SUFFICES WentDark(x, y, s, r)
      OBVIOUS
    <3> HIDE DEF x, y, z
    <3>2. z.results = x.results /\ z.money = x.money
      BY <3>1 DEF SameBut, AccountFields
    <3>3. ProfitIn(z, r) = ProfitIn(x, r)
      BY <3>2 DEF ProfitIn
    <3>4. BlackoutsIn(grown, r) = BlackoutsIn(s, r)
      BY <2>3 DEF BlackoutsIn
    <3> QED
      BY <3>1, <3>2, <3>3, <3>4 DEF WentDark, SameBut
  <2> QED
    BY <1>6, <1>11, <2>3, <2>4, <2>5 DEF AccountMoved
<1>12. CASE ~IsInvestment(s.checkpoint) /\ ~IsInvestment(c) /\ c # Finished /\ ~IsRecap(c)
  <2>1. closed = s
    BY <1>12 DEF Left, Closed
  <2> HIDE DEF closed
  <2> QED
    BY <1>12, <2>1 DEF AccountMoved, SameBut
<1> QED
  BY <1>6, <1>8, <1>9, <1>10, <1>11, <1>12

\* While the session stays, a player selects what they can pay for, drops what they
\* selected, borrows, or gives back a loan they can do without.
Choosing(x, y) ==
    LET price == FacilityPrices(session, Here.round)
    IN  /\ IsInvestment(Here)
        /\ \E f \in Facilities :
              \/ /\ SelectionCost(x.selection, price) + price[f] <= x.money
                 /\ y.selection = [x.selection EXCEPT ![f] = @ + 1]
              \/ /\ x.selection[f] > 0
                 /\ y.selection = [x.selection EXCEPT ![f] = @ - 1]
        /\ SameBut(x, y, {"selection"})

Borrowing(x, y) ==
    /\ IsInvestment(Here)
    /\ \/ x.loan = NoLoan /\ y.loan = Loan(Here.round) /\ y.money = x.money + LOAN_AMOUNT
       \/ /\ x.loan # NoLoan /\ x.loan.round = Here.round
          /\ SelectionCost(x.selection, FacilityPrices(session, Here.round)) <= x.money - LOAN_AMOUNT
          /\ y.loan = NoLoan /\ y.money = x.money - LOAN_AMOUNT
    /\ SameBut(x, y, {"money", "loan"})

AccountsRest ==
    /\ session'.checkpoint = session.checkpoint
    /\ \A p \in DOMAIN session'.players :
          LET x == session.players[p]
              y == session'.players[p]
          IN  \/ p \in Admitted \ Players /\ y = NewPlayer
              \/ p \in Players /\ (SameBut(x, y, {}) \/ Choosing(x, y) \/ Borrowing(x, y))
              \/ p \in Players /\ IsInvestment(Here) /\ PaidFor(x, y, session, Here.round)

AccountsTurn ==
    /\ Here # Finished
    /\ session'.checkpoint = NextHere
    /\ session'.roundCount = session.roundCount
    /\ AccountsMoved(session, session', NextHere)

CashIsTyped == \A p \in Players : session.players[p].money \in Int

\* The advance as a whole.
LEMMA MovingMovesAccounts ==
    ASSUME Sound, CashIsTyped, Moving
    PROVE  AccountsTurn
<1>1. PICK opened : session' = [Advanced(session, NextHere, opened) EXCEPT
                                  !.checkpoint = NextHere, !.phaseTimer = TimerFor(NextHere)]
  BY DEF Moving
<1> DEFINE applied == Advanced(session, NextHere, opened)
<1>2. IsSession(applied)
  BY AdvanceTouches, TouchedIsSession DEF Sound
<1>3. applied.roundCount = session.roundCount
  BY AdvanceKeepsPace DEF Sound, Pace
<1>4. IsRecap(NextHere) => ~IsInvestment(session.checkpoint)
  <2>1. IsInvestment(Here) => NextHere = TradingPeriod(Here.round, 1)
    BY DEF NextHere, NextCheckpoint, IsInvestment, IsTrading, IsRecap, NotStarted
  <2>2. IsInvestment(Here) => ~IsRecap(NextHere)
    BY <2>1 DEF TradingPeriod, IsRecap
  <2> QED
    BY <2>2 DEF Here
<1>5. AccountsMoved(session, applied, NextHere)
  BY <1>4, AdvanceMovesAccounts DEF Sound, CashIsTyped, Players
<1> HIDE DEF applied
<1>6. /\ session'.checkpoint = NextHere
      /\ session'.roundCount = session.roundCount
      /\ session'.players = applied.players
  BY <1>1, <1>2, <1>3 DEF IsSession, SessionFields, applied
<1>7. Here # Finished
  BY DEF Moving, MoveOn
<1> QED
  BY <1>5, <1>6, <1>7 DEF AccountsTurn, AccountsMoved

\* Of what players ask for, selecting and borrowing alone touch an account
\* (select_facility, deselect_facility, take_loan, cancel_loan).
LEMMA PlayersSpend ==
    ASSUME Sound, NEW p \in Players, PlayerChange(p)
    PROVE  AccountsRest
<1> DEFINE x == session.players[p]
           price == FacilityPrices(session, Here.round)
<1>1. ASSUME NEW y, Becomes(p, y), SameBut(x, y, {}) \/ Choosing(x, y) \/ Borrowing(x, y)
      PROVE  AccountsRest
  <2>1. /\ session'.players = [session.players EXCEPT ![p] = y]
        /\ session'.checkpoint = session.checkpoint
    BY <1>1 DEF Becomes, Sound, IsSession, SessionFields
  <2>2. \A q \in Players : session'.players[q] = IF q = p THEN y ELSE session.players[q]
    BY <2>1 DEF Players
  <2>3. DOMAIN session'.players = Players
    BY <2>1 DEF Players
  <2>4. \A z : SameBut(z, z, {})
    BY DEF SameBut
  <2> QED
    BY <1>1, <2>1, <2>2, <2>3, <2>4 DEF AccountsRest
<1>2. IsPlayer(x)
  BY DEF Sound, IsSession, Players
<1>3. ASSUME InvestmentOpen PROVE IsInvestment(Here) /\ RoundNow(session) = Here.round
  BY <1>3 DEF InvestmentOpen, RoundNow, CurrentRound, IsInvestment, Here
<1>4. ASSUME NEW f \in Facilities, Select(p, f), Becomes(p, [x EXCEPT !.selection[f] = @ + 1])
      PROVE  AccountsRest
  <2> DEFINE y == [x EXCEPT !.selection[f] = @ + 1]
  <2>1. InvestmentOpen
    BY <1>4 DEF Select
  <2>2. SelectionCost(x.selection, price) + price[f] <= x.money
    BY <1>3, <1>4, <2>1 DEF Select
  <2> HIDE DEF x
  <2>3. y.selection = [x.selection EXCEPT ![f] = @ + 1] /\ SameBut(x, y, {"selection"})
    BY <1>2 DEF IsPlayer, PlayerFields, SameBut, AccountFields
  <2> HIDE DEF y
  <2>4. Choosing(x, y)
    BY <1>3, <2>1, <2>2, <2>3 DEF Choosing
  <2> QED
    BY <1>1, <1>4, <2>4 DEF y, x
<1>5. ASSUME NEW f \in Facilities, Deselect(p, f), Becomes(p, [x EXCEPT !.selection[f] = @ - 1])
      PROVE  AccountsRest
  <2> DEFINE y == [x EXCEPT !.selection[f] = @ - 1]
  <2>1. InvestmentOpen /\ x.selection[f] > 0
    BY <1>5 DEF Deselect
  <2> HIDE DEF x
  <2>3. y.selection = [x.selection EXCEPT ![f] = @ - 1] /\ SameBut(x, y, {"selection"})
    BY <1>2 DEF IsPlayer, PlayerFields, SameBut, AccountFields
  <2> HIDE DEF y
  <2>4. Choosing(x, y)
    BY <1>3, <2>1, <2>3 DEF Choosing
  <2> QED
    BY <1>1, <1>5, <2>4 DEF y, x
<1>6. CASE TakeLoan(p) /\ Becomes(p, [x EXCEPT !.loan = Loan(RoundNow(session)),
                                               !.money = @ + LOAN_AMOUNT])
  <2> DEFINE y == [x EXCEPT !.loan = Loan(RoundNow(session)), !.money = @ + LOAN_AMOUNT]
  <2>1. InvestmentOpen /\ x.loan = NoLoan
    BY <1>6 DEF TakeLoan
  <2> HIDE DEF x
  <2>2. /\ y.loan = Loan(RoundNow(session))
        /\ y.money = x.money + LOAN_AMOUNT
        /\ SameBut(x, y, {"money", "loan"})
    BY <1>2 DEF IsPlayer, PlayerFields, SameBut, AccountFields
  <2> HIDE DEF y
  <2>3. Borrowing(x, y)
    BY <1>3, <2>1, <2>2 DEF Borrowing
  <2> QED
    BY <1>1, <1>6, <2>3 DEF y, x
<1>7. CASE CancelLoan(p) /\ Becomes(p, [x EXCEPT !.loan = NoLoan, !.money = @ - LOAN_AMOUNT])
  <2> DEFINE y == [x EXCEPT !.loan = NoLoan, !.money = @ - LOAN_AMOUNT]
  <2>1. InvestmentOpen /\ x.loan # NoLoan /\ x.loan.round = RoundNow(session)
    BY <1>7 DEF CancelLoan
  <2>2. SelectionCost(x.selection, price) <= x.money - LOAN_AMOUNT
    BY <1>3, <1>7, <2>1 DEF CancelLoan
  <2> HIDE DEF x
  <2>3. /\ y.loan = NoLoan
        /\ y.money = x.money - LOAN_AMOUNT
        /\ SameBut(x, y, {"money", "loan"})
    BY <1>2 DEF IsPlayer, PlayerFields, SameBut, AccountFields
  <2> HIDE DEF y
  <2>4. Borrowing(x, y)
    BY <1>3, <2>1, <2>2, <2>3 DEF Borrowing
  <2> QED
    BY <1>1, <1>7, <2>4 DEF y, x
<1>8. CASE \E y : Becomes(p, y) /\ SameBut(x, y, {})
  BY <1>1, <1>8
<1> QED
  <2>1. /\ \A value : SameBut(x, [x EXCEPT !.prices = value], {})
        /\ \A value : SameBut(x, [x EXCEPT !.fuelOrder = value], {})
    BY <1>2 DEF IsPlayer, PlayerFields, SameBut, AccountFields
  <2> QED
    BY <1>4, <1>5, <1>6, <1>7, <1>8, <2>1 DEF PlayerChange

\* Whatever happens, accounts change in one of these ways, or a period is settled.
LEMMA EveryStepOfAccounts ==
    Sound /\ CashIsTyped /\ [Next]_vars => AccountsRest \/ AccountsTurn \/ Finishing
<1> SUFFICES ASSUME Sound, CashIsTyped, session' = session \/ Change
             PROVE  AccountsRest \/ AccountsTurn \/ Finishing
  BY EveryChange
<1>0. \A z : SameBut(z, z, {})
  BY DEF SameBut
<1>1. ASSUME NEW after, NEW undo, Touched(session, after, undo), AccountFields \cap undo = {},
             "checkpoint" \notin undo, session' = after
      PROVE  AccountsRest
  <2>1. after.checkpoint = session.checkpoint
    BY <1>1 DEF Touched, SessionFields
  <2>2. AccountFields \in SUBSET PlayerFields
    BY DEF AccountFields, PlayerFields
  <2> QED
    BY <1>1, <2>1, <2>2, TouchedKeepsFields DEF AccountsRest, SameBut, Players
<1>2. CASE session' = session
  BY <1>0, <1>2 DEF AccountsRest, Players
<1>3. CASE \E p \in Players : PlayerChange(p)
  BY <1>3, PlayersSpend
<1>4. CASE SideChange
  <2>0. PICK f \in SideFields : \E value : session' = [session EXCEPT ![f] = value]
    BY <1>4 DEF SideChange
  <2>1. PICK value : session' = [session EXCEPT ![f] = value]
    BY <2>0
  <2>2. Touched(session, [session EXCEPT ![f] = value], {f})
    BY FieldTouched DEF Sound, SideFields, SessionFields
  <2>3. AccountFields \cap {f} = {} /\ "checkpoint" \notin {f}
    BY DEF SideFields, AccountFields
  <2> QED
    BY <1>1, <2>1, <2>2, <2>3
<1>5. CASE AddRound /\ session' = AddedRound(session)
  BY <1>1, <1>5, AddingTouches DEF Sound, AccountFields
<1>6. CASE Joining
  <2>1. PICK p \in Admitted \ Players :
          session' = [session EXCEPT !.players = With(@, p, NewPlayer)]
    BY <1>6 DEF Joining
  <2>2. /\ session'.players = With(session.players, p, NewPlayer)
        /\ session'.checkpoint = session.checkpoint
    BY <2>1 DEF Sound, IsSession, SessionFields
  <2>3. ASSUME NEW q \in DOMAIN session'.players
        PROVE  \/ q = p /\ session'.players[q] = NewPlayer
               \/ q \in Players /\ session'.players[q] = session.players[q]
    BY <2>2 DEF Players, With
  <2> QED
    BY <1>0, <2>1, <2>2, <2>3 DEF AccountsRest
<1>7. CASE Buying
  <2>1. IsInvestment(Here)
    BY <1>7 DEF Buying, BuySelections, PurchaseDue
  <2>2. session'.checkpoint = session.checkpoint
    BY <1>7, PurchasesTouch DEF Sound, Buying, PurchasesUndo, Touched, SessionFields
  <2> QED
    BY <1>7, <2>1, <2>2, PurchasesArePaid DEF Sound, Buying, AccountsRest, Players
<1>8. CASE Moving
  BY <1>8, MovingMovesAccounts
<1> QED
  BY <1>2, <1>3, <1>4, <1>5, <1>6, <1>7, <1>8 DEF Change

-----------------------------------------------------------------------------
(***************************************************************************)
(* What prices, costs and taxes are worked out from: the events fired, the *)
(* blackouts, fuel's prices and the length prices were set for.            *)
(***************************************************************************)
RoomFields == {"firedEvents", "blackouts", "fuelPrices", "priceRoundCount", "demandAmplitude"}

RoomKept(fields) == \A f \in RoomFields \ fields : session'[f] = session[f]

\* A season opens at new prices for fuel, and no other advance sets them (open_fuel_market).
LEMMA AdvanceOpensPrices ==
    ASSUME NEW s, IsSession(s), NEW c, NEW opened
    PROVE  Advanced(s, c, opened).fuelPrices = IF IsTrading(c) THEN opened ELSE s.fuelPrices
<1> DEFINE left   == Left(s, c)
           closed == Closed(left, c)
           fired  == FireEvents(closed, c)
           priced == Priced(fired, c, opened)
           t      == Advanced(s, c, opened)
<1>1. IsSession(left) /\ t = Arrived(left, c, opened)
  BY AdvanceLeavesAndArrives
<1>2. /\ Touched(s, left, LeavingUndo(s, c))
      /\ Touched(left, closed, ClosingUndo(c))
      /\ Touched(closed, fired, FiringUndo(c))
      /\ Touched(priced, t, UnlocksUndo)
  BY <1>1, LeavingTouches, ArrivingStages
<1>3. priced = IF IsTrading(c) THEN OpenFuelMarket(fired, c, opened) ELSE fired
  BY DEF Priced
<1> HIDE DEF left, closed, fired, priced, t
<1>4. "fuelPrices" \notin LeavingUndo(s, c) \cup ClosingUndo(c) \cup FiringUndo(c) \cup UnlocksUndo
  BY DEF LeavingUndo, PurchasesUndo, VoteUndo, RetirementUndo, LoanUndo, ClosingUndo, FiringUndo,
         GrowthUndo, BlackoutUndo, EventsUndo, UnlocksUndo
<1>5. fired.fuelPrices = s.fuelPrices /\ t.fuelPrices = priced.fuelPrices
  BY <1>2, <1>4 DEF Touched, SessionFields
<1>6. OpenFuelMarket(fired, c, opened).fuelPrices = opened
  <2> DEFINE market == [fired EXCEPT !.fuelPrices = opened]
             Default(x) == [x EXCEPT !.fuelOrder = DefaultOrders(x.owned, x.fuelStock, c.round)]
             roster == [p \in DOMAIN market.players |-> Default(market.players[p])]
  <2>1. OpenFuelMarket(fired, c, opened) =
          IF LeversIn(fired, c.round).procurement = "manual"
            THEN [market EXCEPT !.players = roster] ELSE market
    BY DEF OpenFuelMarket, ForEveryPlayer
  <2>2. DOMAIN fired = SessionFields
    BY <1>2 DEF Touched, IsSession
  <2>3. market.fuelPrices = opened
    BY <2>2 DEF SessionFields
  <2> HIDE DEF market, roster
  <2>4. [market EXCEPT !.players = roster].fuelPrices = market.fuelPrices
    OBVIOUS
  <2> QED
    BY <2>1, <2>3, <2>4
<1> QED
  BY <1>3, <1>5, <1>6 DEF t

\* Who changes any of them: an advance the events and fuel's prices, a period settled the
\* blackouts and the amplitude, a Round added before the first the length.
LEMMA EveryStepOfTheRoom ==
    ASSUME Sound, [Next]_vars
    PROVE  \/ RoomKept({})
           \/ Here = NotStarted /\ RoomKept({"priceRoundCount"})
           \/ Moving /\ RoomKept({"firedEvents", "fuelPrices"})
           \/ Finishing /\ RoomKept({"blackouts", "demandAmplitude"})
<1>0. RoomFields \subseteq SessionFields \ {"players"} /\ DOMAIN session = SessionFields
      /\ {"players", "checkpoint"} \subseteq SessionFields
  BY DEF RoomFields, SessionFields, Sound, IsSession
<1>1. CASE session' = session
  BY <1>1 DEF RoomKept
<1>2. CASE \E p \in Players : PlayerChange(p)
  <2>1. \E p, y : session' = [session EXCEPT !.players[p] = y]
    BY <1>2 DEF PlayerChange, Becomes
  <2> QED
    BY <1>0, <2>1 DEF RoomKept
<1>3. CASE SideChange
  <2>1. SideFields \cap RoomFields = {}
    BY DEF SideFields, RoomFields
  <2> QED
    BY <1>0, <1>3, <2>1 DEF SideChange, RoomKept
<1>4. CASE AddRound /\ session' = AddedRound(session)
  <2>1. Touched(session, session', {"roundCount", "priceRoundCount", "plans"})
    BY <1>4, AddingTouches DEF Sound
  <2>2. RoomFields \cap {"roundCount", "priceRoundCount", "plans"} = {"priceRoundCount"}
    BY DEF RoomFields
  <2>3. RoomKept({"priceRoundCount"})
    BY <1>0, <2>1, <2>2 DEF Touched, RoomKept
  <2>4. Here # NotStarted => session'.priceRoundCount = session.priceRoundCount
    BY <1>4, AddingTouches DEF Sound, Here
  <2> QED
    BY <2>3, <2>4 DEF RoomKept, RoomFields
<1>5. CASE Joining
  BY <1>0, <1>5 DEF Joining, RoomKept
<1>6. CASE Buying
  <2>1. Touched(session, session', PurchasesUndo)
    BY <1>6, PurchasesTouch DEF Buying, Sound
  <2>2. RoomFields \cap PurchasesUndo = {}
    BY DEF RoomFields, PurchasesUndo
  <2> QED
    BY <1>0, <2>1, <2>2 DEF Touched, RoomKept
<1>7. CASE Moving
  <2>1. PICK opened : session' = [Advanced(session, NextHere, opened) EXCEPT
                                    !.checkpoint = NextHere, !.phaseTimer = TimerFor(NextHere)]
    BY <1>7 DEF Moving
  <2> DEFINE applied == Advanced(session, NextHere, opened)
  <2>2. Touched(session, applied, AdvanceUndo(session, NextHere)) /\ DOMAIN applied = SessionFields
    <3>1. Touched(session, applied, AdvanceUndo(session, NextHere))
      BY AdvanceTouches DEF Sound
    <3> HIDE DEF applied
    <3> QED
      BY <3>1 DEF Touched, IsSession
  <2>3. RoomFields \cap AdvanceUndo(session, NextHere) \subseteq {"firedEvents", "fuelPrices"}
    BY DEF RoomFields, AdvanceUndo, PurchasesUndo, VoteUndo, RetirementUndo, LoanUndo,
           GrowthUndo, BlackoutUndo, EventsUndo, FuelMarketUndo, UnlocksUndo
  <2> HIDE DEF applied
  <2>4. \A f \in RoomFields \ {"firedEvents", "fuelPrices"} : applied[f] = session[f]
    BY <1>0, <2>2, <2>3 DEF Touched
  <2>5. \A f \in RoomFields : session'[f] = applied[f]
    BY <1>0, <2>1, <2>2 DEF applied, RoomFields
  <2> QED
    BY <1>7, <2>4, <2>5 DEF RoomKept
<1>8. CASE Finishing
  <2>1. Touched(session, session', SettleUndo)
    BY <1>8, SettledTouches DEF Finishing, Sound
  <2>2. RoomFields \cap SettleUndo = {"blackouts", "demandAmplitude"}
    BY DEF RoomFields, SettleUndo
  <2> QED
    BY <1>0, <1>8, <2>1, <2>2 DEF Touched, RoomKept
<1>9. session' = session \/ Change
  BY EveryChange
<1> QED
  BY <1>1, <1>2, <1>3, <1>4, <1>5, <1>6, <1>7, <1>8, <1>9 DEF Change

\* While an Investment phase lasts, so do its prices.
LEMMA PricesLast ==
    ASSUME SessionInv, [Next]_vars, IsInvestment(Here), Here' = Here, NEW r
    PROVE  FacilityPrices(session', r) = FacilityPrices(session, r)
<1>1. ~Moving
  <2>1. session.roundCount \in Nat \ {0} /\ Here \in AllCheckpoints(session.roundCount)
    BY WhereTheSessionIs
  <2>2. Moving => Here # Finished /\ Here' = NextHere
    <3>1. Moving => FleetsTurn
      BY MovingMovesFleets DEF SessionInv
    <3> QED
      BY <3>1 DEF FleetsTurn, Here
  <2> QED
    BY <2>1, <2>2, NextIsAnother DEF NextHere
<1>2. Here # NotStarted
  BY DEF IsInvestment, NotStarted
<1>3. session'.firedEvents = session.firedEvents /\ session'.priceRoundCount = session.priceRoundCount
  BY <1>1, <1>2, EveryStepOfTheRoom DEF SessionInv, RoomKept, RoomFields
<1> QED
  BY <1>3 DEF FacilityPrices, FacilityPriceFactor

\* A period settled adds its blackouts, and the amplitude it was simulated with stays
\* (finish_settlement).
LEMMA SettledBlackouts ==
    ASSUME NEW s, IsSession(s), NEW job, NEW outcome
    PROVE  /\ Settled(s, job, outcome).blackouts
                = s.blackouts \o PeriodBlackouts(job.period, outcome.blackouts)
           /\ Settled(s, job, outcome).demandAmplitude = job.base
<1> DEFINE
      period       == job.period
      r            == period.round
      operating(z) == Operating(z.owned, r)
      gained(q, z) == ResultOf(s, job, outcome.players[q], z, CarbonTax(s, job, outcome)[q])
      ran(z)       == [k \in { w \in PriceKeys : w[1] \in operating(z) } |-> z.prices[k]]
      kept(q, z)   == [z EXCEPT
                         !.stored = outcome.players[q].stored,
                         !.locked = IF operating(z) = {} THEN @
                                    ELSE Append(@, [period |-> period, prices |-> ran(z)])]
      Settle(q, z) == IF ~GetsResult(s, job, outcome, q) THEN kept(q, z)
                      ELSE [kept(q, z) EXCEPT
                              !.money = @ + gained(q, z).profit - gained(q, z).tax,
                              !.fuelStock = FuelLeft(@, gained(q, z).bought, gained(q, z).burned),
                              !.results = Append(@, gained(q, z))]
      roster == [q \in DOMAIN s.players |->
                   IF q \in DOMAIN job.bidders THEN Settle(q, s.players[q]) ELSE s.players[q]]
      peak   == [s.peakDemand EXCEPT ![r] = IF outcome.peak > @ THEN outcome.peak ELSE @]
      dark   == s.blackouts \o PeriodBlackouts(period, outcome.blackouts)
      listed == Append(s.recordedPeriods, period)
<1>1. Settled(s, job, outcome) =
        [s EXCEPT !.players = roster, !.demandAmplitude = job.base, !.peakDemand = peak,
                  !.blackouts = dark, !.settledPeriod = period, !.recordedPeriods = listed]
  BY DEF Settled
<1> HIDE DEF roster, peak, dark, listed
<1>2. /\ Settled(s, job, outcome).blackouts = dark
      /\ Settled(s, job, outcome).demandAmplitude = job.base
  BY <1>1 DEF IsSession, SessionFields
<1> QED
  BY <1>2 DEF dark

Dark == [round: Nat, season: Nat]

RoomInv ==
    /\ session.firedEvents \in Seq(Fired)
    /\ session.blackouts \in Seq(Dark)
    /\ session.fuelPrices \in [Fuels -> Nat]

\* All of it stays of its type: events are fired with their boundary, blackouts are of the
\* period settled, and a season's prices are amounts.
LEMMA RoomInvKept ==
    SessionInv /\ VotesInv /\ PlansInv /\ RoomInv /\ [Next]_vars => RoomInv'
<1> SUFFICES ASSUME SessionInv, VotesInv, PlansInv, RoomInv, [Next]_vars PROVE RoomInv'
  OBVIOUS
<1> DEFINE n == session.roundCount
<1>1. n \in Nat \ {0} /\ Here \in AllCheckpoints(n)
  BY WhereTheSessionIs
<1>2. ASSUME NEW fields, RoomKept(fields), fields \cap {"firedEvents", "blackouts", "fuelPrices"} = {}
      PROVE  RoomInv'
  BY <1>2 DEF RoomKept, RoomFields, RoomInv
<1>3. CASE Moving /\ RoomKept({"firedEvents", "fuelPrices"})
  <2> DEFINE next == NextHere
  <2>1. PICK opened \in OpenFuelPrices(next) :
          session' = [Advanced(session, next, opened) EXCEPT
                        !.checkpoint = next, !.phaseTimer = TimerFor(next)]
    BY <1>3 DEF Moving
  <2> DEFINE moved == Advanced(session, next, opened)
             shocks == Firing(moved.plans, next.round, next.season)
  <2>2. next \in AllCheckpoints(n)
    BY <1>1, <1>3, NextIsACheckpoint DEF Moving, MoveOn, NextHere
  <2>3. /\ moved.firedEvents = IF IsInvestment(next) \/ IsTrading(next)
                                 THEN session.firedEvents \o shocks
                                 ELSE session.firedEvents
        /\ moved.fuelPrices = IF IsTrading(next) THEN opened ELSE session.fuelPrices
    BY AdvanceFires, AdvanceOpensPrices DEF SessionInv, Sound
  <2>4. moved.roundCount = n
    BY AdvanceKeepsPace DEF SessionInv, Sound, Pace
  <2>5. DOMAIN moved = SessionFields
    <3>1. Touched(session, moved, AdvanceUndo(session, next))
      BY AdvanceTouches DEF SessionInv, Sound
    <3> HIDE DEF moved
    <3> QED
      BY <3>1 DEF Touched, IsSession
  <2> HIDE DEF moved, next
  <2>6. session' = [moved EXCEPT !.checkpoint = next, !.phaseTimer = TimerFor(next)]
    BY <2>1 DEF moved
  <2>7. /\ session'.firedEvents = moved.firedEvents
        /\ session'.fuelPrices = moved.fuelPrices
        /\ session'.plans = moved.plans
        /\ session'.roundCount = n
    BY <2>4, <2>5, <2>6 DEF SessionFields
  <2>8. IsInvestment(next) \/ IsTrading(next) => next.round \in 1..n /\ next.season \in Nat
    BY <2>2, NumSeasonsAssumption, CheckpointKinds
    DEF IsInvestment, IsTrading, NotStarted, Finished, Investment, TradingPeriod, Recap, Seasons
  <2>9. \A r \in 1..n : moved.plans[r] \in Plans
    <3>1. PlansInv'
      BY PlansInvKept
    <3> QED
      BY <2>7, <3>1 DEF PlansInv
  <2>10. IsInvestment(next) \/ IsTrading(next) => shocks \in Seq(Fired)
    BY <1>1, <2>8, <2>9, FiringTyped
  <2> HIDE DEF shocks
  <2>11. session'.firedEvents \in Seq(Fired)
    <3> DEFINE S == Fired
    <3>1. session.firedEvents \in Seq(S)
      BY DEF RoomInv
    <3>2. IsInvestment(next) \/ IsTrading(next) => shocks \in Seq(S)
      BY <2>10
    <3> HIDE DEF S
    <3>3. session'.firedEvents \in Seq(S)
      BY <2>3, <2>7, <3>1, <3>2
    <3> QED
      BY <3>3 DEF S
  <2>12. session'.fuelPrices \in [Fuels -> Nat]
    <3>1. IsTrading(next) => opened \in [Fuels -> FuelPriceLevels]
      BY DEF OpenFuelPrices, next
    <3>2. FuelPriceLevels \subseteq Nat
      BY SessionAssumption
    <3>3. IsTrading(next) => opened \in [Fuels -> Nat]
      BY <3>1, <3>2
    <3> QED
      BY <2>3, <2>7, <3>3 DEF RoomInv
  <2>13. session'.blackouts = session.blackouts
    BY <1>3 DEF RoomKept, RoomFields
  <2> QED
    BY <2>11, <2>12, <2>13 DEF RoomInv
<1>4. CASE Finishing /\ RoomKept({"blackouts", "demandAmplitude"})
  <2>0. PICK i \in DOMAIN jobs : \E outcome \in Outcomes(jobs[i]) :
          WaitingFor(jobs[i]) /\ session' = Settled(session, jobs[i], outcome)
    BY <1>4 DEF Finishing
  <2>1. PICK outcome \in Outcomes(jobs[i]) :
          WaitingFor(jobs[i]) /\ session' = Settled(session, jobs[i], outcome)
    BY <2>0
  <2> DEFINE job == jobs[i]
             dark == PeriodBlackouts(Here, outcome.blackouts)
  <2>2. job.period = Here /\ IsTrading(Here)
    BY <2>1, TheOnlyJob DEF WaitingFor, SessionInv
  <2>3. session'.blackouts = session.blackouts \o dark
    <3> HIDE DEF job
    <3>1. IsSession(session)
      BY DEF SessionInv, Sound
    <3>2. Settled(session, job, outcome).blackouts
            = session.blackouts \o PeriodBlackouts(job.period, outcome.blackouts)
      BY <3>1, SettledBlackouts
    <3>3. session' = Settled(session, job, outcome)
      BY <2>1 DEF job
    <3> QED
      BY <2>2, <3>2, <3>3
  <2>4. Here.round \in Nat /\ Here.season \in Nat
    BY <1>1, <2>2, NumSeasonsAssumption, CheckpointKinds
    DEF IsTrading, NotStarted, Finished, Investment, TradingPeriod, Recap, Seasons
  <2>5. outcome.blackouts \in Nat
    BY SessionAssumption DEF Outcomes
  <2> DEFINE D == Dark
  <2>6. [round |-> Here.round, season |-> Here.season] \in D
    BY <2>4 DEF Dark
  <2> HIDE DEF D
  <2>7. dark \in Seq(D)
    <3> DEFINE b == [round |-> Here.round, season |-> Here.season]
               k == outcome.blackouts
    <3>1. dark = [j \in 1..k |-> b]
      BY DEF PeriodBlackouts
    <3>2. b \in D /\ k \in Nat
      BY <2>5, <2>6
    <3> HIDE DEF b, k, dark
    <3> QED
      BY <3>1, <3>2
  <2>8. session.blackouts \in Seq(D)
    BY DEF RoomInv, D
  <2> HIDE DEF dark
  <2>9. session'.blackouts \in Seq(D)
    BY <2>3, <2>7, <2>8
  <2>10. session'.firedEvents = session.firedEvents /\ session'.fuelPrices = session.fuelPrices
    BY <1>4 DEF RoomKept, RoomFields
  <2> QED
    BY <2>9, <2>10 DEF RoomInv, D
<1> QED
  <2>1. \/ RoomKept({})
        \/ RoomKept({"priceRoundCount"})
        \/ Moving /\ RoomKept({"firedEvents", "fuelPrices"})
        \/ Finishing /\ RoomKept({"blackouts", "demandAmplitude"})
    BY EveryStepOfTheRoom DEF SessionInv
  <2>2. CASE RoomKept({})
    BY <1>2, <2>2
  <2>3. CASE RoomKept({"priceRoundCount"})
    BY <1>2, <2>3
  <2> QED
    BY <1>3, <1>4, <2>1, <2>2, <2>3

-----------------------------------------------------------------------------
(***************************************************************************)
(* What a selection costs.                                                 *)
(***************************************************************************)

\* A selection's cost is an amount, and nothing costs nothing.
LEMMA SelectionCostIsNat ==
    ASSUME NEW selection \in [Facilities -> Nat], NEW price \in [Facilities -> Nat]
    PROVE  /\ SelectionCost(selection, price) \in Nat
           /\ SelectionCost(NothingSelected, price) = 0
<1> DEFINE g == [f \in Facilities |-> selection[f] * price[f]]
           h == [f \in Facilities |-> NothingSelected[f] * price[f]]
<1>1. IsFiniteSet(Facilities)
  BY CatalogAssumption
<1>2. \A f \in Facilities : g[f] \in Nat /\ h[f] = 0
  <2> SUFFICES ASSUME NEW f \in Facilities PROVE g[f] \in Nat /\ h[f] = 0
    OBVIOUS
  <2>1. selection[f] \in Nat /\ price[f] \in Nat /\ NothingSelected[f] = 0
    BY DEF NothingSelected
  <2>2. selection[f] * price[f] \in Nat /\ 0 * price[f] = 0
    BY <2>1
  <2> QED
    BY <2>1, <2>2
<1>3. /\ SelectionCost(selection, price) = SumFunctionOnSet(g, Facilities)
      /\ SelectionCost(NothingSelected, price) = SumFunctionOnSet(h, Facilities)
  BY DEF SelectionCost, SumFunction
<1> HIDE DEF g, h
<1>4. SumFunctionOnSet(g, Facilities) \in Nat
  BY <1>1, <1>2, SumOfNaturals
<1>5. SumFunctionOnSet(h, Facilities) = 0
  BY <1>1, <1>2, SumOfZeroes
<1> QED
  BY <1>3, <1>4, <1>5

\* A copy more or less of f changes a selection's cost by f's price.
LEMMA OneCopyCosts ==
    ASSUME NEW selection \in [Facilities -> Nat], NEW price \in [Facilities -> Nat],
           NEW f \in Facilities, NEW d \in {1, -1},
           NEW changed, changed = [selection EXCEPT ![f] = @ + d]
    PROVE  SelectionCost(changed, price) = SelectionCost(selection, price) + d * price[f]
<1> DEFINE g == [u \in Facilities |-> selection[u] * price[u]]
           h == [u \in Facilities |-> changed[u] * price[u]]
<1>1. IsFiniteSet(Facilities)
  BY CatalogAssumption
<1>2. \A u \in Facilities : g[u] \in Int /\ h[u] \in Int
  <2> SUFFICES ASSUME NEW u \in Facilities PROVE g[u] \in Int /\ h[u] \in Int
    OBVIOUS
  <2>1. selection[u] \in Nat /\ price[u] \in Nat /\ changed[u] \in Int
    OBVIOUS
  <2>2. selection[u] * price[u] \in Int /\ changed[u] * price[u] \in Int
    BY <2>1
  <2> QED
    BY <2>2
<1>3. \A u \in Facilities \ {f} : h[u] = g[u]
  OBVIOUS
<1>4. h[f] - g[f] = d * price[f]
  <2> DEFINE a == selection[f]
             b == price[f]
  <2>1. a \in Nat /\ b \in Nat /\ changed[f] = a + d
    OBVIOUS
  <2> HIDE DEF a, b
  <2>2. (a + d) * b - a * b = d * b
    <3>1. CASE d = 1
      BY <2>1, <3>1
    <3>2. CASE d = -1
      BY <2>1, <3>2
    <3> QED
      BY <3>1, <3>2
  <2>3. h[f] = (a + d) * b /\ g[f] = a * b
    BY <2>1 DEF a, b
  <2> QED
    BY <2>2, <2>3 DEF b
<1>5. d * price[f] \in Int
  <2>1. price[f] \in Nat
    OBVIOUS
  <2> QED
    BY <2>1
<1>6. /\ SelectionCost(selection, price) = SumFunctionOnSet(g, Facilities)
      /\ SelectionCost(changed, price) = SumFunctionOnSet(h, Facilities)
  BY DEF SelectionCost, SumFunction
<1> HIDE DEF g, h
<1>7. SumFunctionOnSet(h, Facilities) = SumFunctionOnSet(g, Facilities) + h[f] - g[f]
  BY <1>1, <1>2, <1>3, SumChange
<1>8. SumFunctionOnSet(g, Facilities) \in Int
  BY <1>1, <1>2, SumStep
<1> DEFINE before == SumFunctionOnSet(g, Facilities)
           c == d * price[f]
<1> HIDE DEF before, c
<1>9. \A m, k \in Int : before \in Int /\ m - k = c => before + m - k = before + c
  BY <1>5 DEF c
<1>10. SumFunctionOnSet(h, Facilities) = before + c
  BY <1>2, <1>4, <1>7, <1>8, <1>9 DEF before, c
<1> QED
  BY <1>6, <1>10 DEF before, c

-----------------------------------------------------------------------------
(***************************************************************************)
(* A player's account, and what it may be charged.                         *)
(***************************************************************************)
IsAccount(x) ==
    /\ x.money \in Int
    /\ x.purchases \in [Facilities -> [Rounds -> Nat]]
    /\ \E n \in Nat : x.results = [i \in 1..n |-> x.results[i]]
    /\ \A i \in DOMAIN x.results : x.results[i].profit \in Int /\ x.results[i].tax \in Int

\* A loan's payments due are counted.
LEMMA DueIsNat ==
    ASSUME NEW loan, loan.made \in Int, NEW r
    PROVE  PaymentsDue(loan, r) \in Nat
<1> DEFINE due == { i \in 0..LOAN_PAYMENTS - 1 : PaymentRound(loan, i) <= r }
           k == Cardinality(due)
<1>1. IsFiniteSet(due)
  <2> DEFINE most == LOAN_PAYMENTS - 1
  <2>0. most \in Int /\ 0 \in Int
    BY DEF LOAN_PAYMENTS
  <2> HIDE DEF most
  <2>1. IsFiniteSet(0..most)
    BY <2>0, FS_Interval
  <2> QED
    BY <2>1, FS_Subset DEF most
<1> HIDE DEF due
<1>2. k \in Nat
  BY <1>1, FS_CardinalityType
<1> HIDE DEF k
<1>3. PaymentsDue(loan, r) = AtLeastZero(k - loan.made)
  BY DEF PaymentsDue, k, due
<1>4. AtLeastZero(k - loan.made) \in Nat
  BY <1>2 DEF AtLeastZero
<1> QED
  BY <1>3, <1>4

\* What a loan takes at a Round's start is an amount.
LEMMA OwedIsNat ==
    ASSUME NEW loan, loan = NoLoan \/ loan.made \in Int, NEW r
    PROVE  Owed(loan, r) \in Nat
<1>1. CASE loan = NoLoan
  BY <1>1 DEF Owed
<1>2. CASE loan # NoLoan
  <2>1. PaymentsDue(loan, r) \in Nat
    BY <1>2, DueIsNat
  <2> QED
    BY <1>2, <2>1 DEF Owed, LOAN_PAYMENT
<1> QED
  BY <1>1, <1>2

\* So are a Round's blackouts, and what a player made in a Round is an amount or a debt.
LEMMA RoundsResultsTyped ==
    ASSUME NEW x, IsAccount(x), NEW s, s.blackouts \in Seq(Dark), NEW r
    PROVE  ProfitIn(x, r) \in Int /\ BlackoutsIn(s, r) \in Nat
<1>1. PICK n \in Nat : x.results = [i \in 1..n |-> x.results[i]]
  BY DEF IsAccount
<1> DEFINE S == { i \in DOMAIN x.results : x.results[i].period.round = r }
           g == [i \in S |-> x.results[i].profit]
           T == { i \in DOMAIN s.blackouts : s.blackouts[i].round = r }
<1>2. IsFiniteSet(S)
  <2>1. DOMAIN x.results = 1..n
    BY <1>1
  <2>2. S \subseteq 1..n
    BY <2>1
  <2>3. IsFiniteSet(1..n)
    BY FS_Interval
  <2> HIDE DEF S
  <2> QED
    BY <2>2, <2>3, FS_Subset
<1>3. \A i \in S : g[i] \in Int
  BY DEF IsAccount
<1>4. ProfitIn(x, r) = SumFunctionOnSet(g, S)
  BY DEF ProfitIn, SumFunction
<1>5. BlackoutsIn(s, r) = Cardinality(T)
  BY DEF BlackoutsIn
<1>6. IsFiniteSet(T)
  <2> DEFINE dark == s.blackouts
  <2>1. PICK m \in Nat : DOMAIN dark = 1..m
    OBVIOUS
  <2>2. T \subseteq DOMAIN dark
    OBVIOUS
  <2>3. IsFiniteSet(1..m)
    BY FS_Interval
  <2> HIDE DEF T, dark
  <2> QED
    BY <2>1, <2>2, <2>3, FS_Subset
<1> HIDE DEF S, g, T
<1>7. SumFunctionOnSet(g, S) \in Int
  BY <1>2, <1>3, SumStep
<1> QED
  BY <1>4, <1>5, <1>6, <1>7, FS_CardinalityType

\* The shares of a carbon tax are amounts, where somebody was settled.
LEMMA CarbonTaxIsInt ==
    ASSUME NEW D, IsFiniteSet(D), NEW emitted \in [D -> Nat], NEW rate \in Nat, NEW p \in D
    PROVE  CarbonTaxOf(emitted, rate)[p] \in Int
<1> DEFINE total == SumFunctionOnSet(emitted, D)
           heads == Cardinality(D)
           share == (rate * total) \div heads
           mine  == emitted[p]
<1>1. total \in Nat
  BY SumOfNaturals
<1>2. heads \in Nat \ {0}
  BY FS_CardinalityType, FS_EmptySet
<1>3. CarbonTaxOf(emitted, rate)[p] = rate * mine - share
  BY DEF CarbonTaxOf, SumFunction
<1>4. mine \in Nat
  OBVIOUS
<1> HIDE DEF total, heads, mine
<1>5. rate * total \in Nat /\ rate * mine \in Nat
  BY <1>1, <1>4
<1> DEFINE whole == rate * total
<1>6. whole \in Int
  BY <1>5
<1> HIDE DEF whole
<1>7. whole \div heads \in Int
  BY <1>2, <1>6
<1>8. share \in Int
  BY <1>7 DEF whole
<1> HIDE DEF share
<1>9. rate * mine \in Int
  BY <1>5
<1> QED
  BY <1>3, <1>8, <1>9

\* The revenue tax takes a share, of whole percents.
LEMMA RevenueTaxIsInt ==
    ASSUME NEW s, s.firedEvents \in Seq(Fired), NEW period
    PROVE  RevenueTaxPercent(s, period) \in Int
<1> DEFINE taxing == { i \in DOMAIN s.firedEvents :
                         /\ s.firedEvents[i].round = period.round
                         /\ s.firedEvents[i].season = period.season
                         /\ Event[s.firedEvents[i].event].kind = "revenue_tax" }
           left == Product(s.firedEvents, taxing)
<1>1. taxing \subseteq DOMAIN s.firedEvents
  OBVIOUS
<1>2. RevenueTaxPercent(s, period) = 100 - left
  BY DEF RevenueTaxPercent
<1> HIDE DEF taxing
<1>3. left \in Nat
  BY <1>1, ProductIsNat
<1> HIDE DEF left
<1> QED
  BY <1>2, <1>3

\* Fuel bought costs an amount.
LEMMA FuelCostIsNat ==
    ASSUME NEW bought \in [Fuels -> Nat], NEW price \in [Fuels -> Nat]
    PROVE  FuelCost(bought, price) \in Nat
<1> DEFINE g == [u \in Fuels |-> bought[u] * price[u]]
<1>1. IsFiniteSet(Fuels)
  BY CatalogAssumption
<1>2. \A u \in Fuels : g[u] \in Nat
  <2> SUFFICES ASSUME NEW u \in Fuels PROVE g[u] \in Nat
    OBVIOUS
  <2>1. bought[u] \in Nat /\ price[u] \in Nat
    OBVIOUS
  <2> QED
    BY <2>1
<1>3. FuelCost(bought, price) = SumFunctionOnSet(g, Fuels)
  BY DEF FuelCost, SumFunction
<1> HIDE DEF g
<1> QED
  BY <1>1, <1>2, <1>3, SumOfNaturals

\* What a bidder earns and is taxed are whole amounts, whatever the simulation finds
\* (_apply_results).
LEMMA ResultsAreAmounts ==
    ASSUME SettledWell, FuelInv, RoomInv, Players \subseteq Admitted,
           NEW i \in DOMAIN jobs, NEW outcome \in Outcomes(jobs[i]),
           session' = Settled(session, jobs[i], outcome), NEW p \in DOMAIN jobs[i].bidders,
           GetsResult(session, jobs[i], outcome, p), NEW result,
           result = ResultOf(session, jobs[i], outcome.players[p], session.players[p],
                             CarbonTax(session, jobs[i], outcome)[p])
    PROVE  result.profit \in Int /\ result.tax \in Int
<1> USE DEF SettledWell
<1> DEFINE job == jobs[i]
           x == session.players[p]
           y == session'.players[p]
           found == outcome.players[p]
           D == DOMAIN job.bidders
           emitted == [q \in D |-> outcome.players[q].emitted]
           rate == CarbonTaxRate(session, job.period.round)
           tax == CarbonTaxOf(emitted, rate)[p]
<1>1. /\ D \subseteq Players
      /\ p \in DOMAIN session.players
      /\ IsSession(session)
  BY DEF SettlingInv, Players, SessionInv, Sound
<1>2. \A q \in D : outcome.players[q] \in Found(job, job.bidders[q])
  BY OutcomeIsFound
<1>3. /\ found.net \in Int /\ found.revenue \in Int
      /\ \A q \in D : outcome.players[q].emitted \in Nat
  <2> SUFFICES ASSUME NEW q \in D
               PROVE  /\ outcome.players[q].net \in Int
                      /\ outcome.players[q].revenue \in Int
                      /\ outcome.players[q].emitted \in Nat
    OBVIOUS
  <2> DEFINE b == job.bidders[q]
             f == outcome.players[q]
  <2>1. f \in Found(job, b)
    BY <1>2
  <2> HIDE DEF b, f, job
  <2>2. Nets \subseteq Int /\ Revenues \subseteq Int /\ Emissions \subseteq Nat
    BY SessionAssumption
  <2>3. f.net \in Nets \cup {0} /\ f.revenue \in Revenues \cup {0} /\ f.emitted \in Emissions \cup {0}
    BY <2>1 DEF Found
  <2>4. f.net \in Int /\ f.revenue \in Int /\ f.emitted \in Nat
    <3>1. Nets \cup {0} \subseteq Int /\ Revenues \cup {0} \subseteq Int
      BY <2>2
    <3>2. Emissions \cup {0} \subseteq Nat
      BY <2>2
    <3> QED
      BY <2>3, <3>1, <3>2
  <2> QED
    BY <2>4 DEF f
<1>4. tax \in Int
  <2>1. IsFiniteSet(D)
    BY <1>1, FS_Subset, SessionAssumption
  <2>2. emitted \in [D -> Nat]
    BY <1>3
  <2>3. rate \in Nat
    BY DEF CarbonTaxRate, CARBON_TAX_RATE
  <2>4. p \in D
    OBVIOUS
  <2> HIDE DEF D, emitted, rate
  <2> QED
    BY <2>1, <2>2, <2>3, <2>4, CarbonTaxIsInt
<1>5. CarbonTax(session, job, outcome)[p] = tax
  BY DEF CarbonTax
<1>6. result.bought \in [Fuels -> Nat]
  <2>1. FuelBooks(x)
    BY <1>1 DEF FuelInv
  <2>2. FuelBooks(y)
    BY <1>1, SettlingKeepsBooks
  <2>3. y.results = Append(x.results, result)
    <3>1. /\ x = session.players[p]
          /\ y = Settled(session, job, outcome).players[p]
          /\ result = ResultOf(session, job, outcome.players[p], x,
                               CarbonTax(session, job, outcome)[p])
          /\ p \in DOMAIN job.bidders /\ GetsResult(session, job, outcome, p)
      OBVIOUS
    <3> HIDE DEF x, y, job
    <3> QED
      BY <1>1, <3>1, SettlesEachBidder
  <2> DEFINE before == x.results
             after == y.results
  <2>4. PICK n \in Nat : before = [k \in 1..n |-> before[k]]
    BY <2>1 DEF FuelBooks
  <2>5. \A k \in DOMAIN after : after[k].bought \in [Fuels -> Nat]
    BY <2>2 DEF FuelBooks
  <2>6. after = Append(before, result)
    BY <2>3
  <2> HIDE DEF before, after
  <2>7. /\ after = [k \in 1..(n + 1) |-> after[k]]
        /\ after[n + 1] = result
    BY <2>4, <2>6, AppendKeeps
  <2>8. n + 1 \in DOMAIN after
    BY <2>7
  <2> QED
    BY <2>5, <2>7, <2>8
<1> DEFINE bought == result.bought
           cost == FuelCost(bought, session.fuelPrices)
           percent == RevenueTaxPercent(session, job.period)
           taken == (found.revenue * percent) \div 100
<1>7. cost \in Nat
  <2>1. session.fuelPrices \in [Fuels -> Nat]
    BY DEF RoomInv
  <2>2. bought \in [Fuels -> Nat]
    BY <1>6
  <2> HIDE DEF bought
  <2> QED
    BY <2>1, <2>2, FuelCostIsNat
<1>8. percent \in Int
  <2> HIDE DEF job
  <2> QED
    BY RevenueTaxIsInt DEF RoomInv
<1>9. /\ result.profit = found.net - taken - cost
      /\ result.tax = CarbonTax(session, job, outcome)[p]
  BY DEF ResultOf
<1> HIDE DEF cost, percent
<1>10. found.revenue * percent \in Int
  BY <1>3, <1>8
<1> DEFINE gross == found.revenue * percent
<1>11. gross \in Int
  BY <1>10
<1> HIDE DEF gross
<1>12. gross \div 100 \in Int
  BY <1>11
<1>13. taken \in Int
  BY <1>12 DEF gross
<1> HIDE DEF taken, tax, found
<1>14. found.net - taken - cost \in Int
  BY <1>3, <1>7, <1>13
<1> QED
  BY <1>4, <1>5, <1>9, <1>14

-----------------------------------------------------------------------------
(***************************************************************************)
(* Every player's account is in order, and pays for what they selected.    *)
(***************************************************************************)
InOrder(s, x) ==
    /\ IsAccount(x)
    /\ s.checkpoint = NotStarted => x.money >= 0
    /\ IsInvestment(s.checkpoint) =>
         SelectionCost(x.selection, FacilityPrices(s, s.checkpoint.round)) <= x.money

\* The inductive invariant.  Before the first Round nobody is in debt: that Round starts
\* from the starting budget, every later one at the cash floor or above.
MoneyInv ==
    /\ Players \subseteq Admitted
    /\ \A p \in Players : InOrder(session, session.players[p])

\* What the account of a player who only selects, borrows or gives back a loan is left
\* with still pays for the selection.
LEMMA SpendingStaysInOrder ==
    ASSUME SessionInv, RoomInv, [Next]_vars, Here' = Here, NEW x, InOrder(session, x),
           x.selection \in [Facilities -> Nat],
           NEW y, SameBut(x, y, {}) \/ Choosing(x, y) \/ Borrowing(x, y)
    PROVE  InOrder(session', y)
<1> DEFINE price == FacilityPrices(session, Here.round)
           spent(z) == SelectionCost(z.selection, price)
<1>1. price \in [Facilities -> Nat]
  BY FacilityPricesAreNat DEF RoomInv
<1>2. IsInvestment(Here) => FacilityPrices(session', Here'.round) = price
  BY PricesLast
<1>3. x.money \in Int
  BY DEF InOrder, IsAccount
<1>4. spent(x) \in Nat
  <2> HIDE DEF price
  <2> QED
    BY <1>1, SelectionCostIsNat
<1>5. SUFFICES /\ IsAccount(y)
               /\ Here = NotStarted => y.money >= 0
               /\ IsInvestment(Here) => spent(y) <= y.money
  BY <1>2 DEF InOrder, Here
<1>6. /\ IsAccount(x)
      /\ Here = NotStarted => x.money >= 0
      /\ IsInvestment(Here) => spent(x) <= x.money
  BY DEF InOrder, Here
<1>7. IsInvestment(Here) => Here # NotStarted
  BY DEF IsInvestment, NotStarted
<1> HIDE DEF price
<1>8. CASE SameBut(x, y, {})
  <2>1. y.money = x.money /\ y.selection = x.selection /\ y.purchases = x.purchases
        /\ y.results = x.results
    BY <1>8 DEF SameBut, AccountFields
  <2> QED
    BY <1>6, <2>1 DEF IsAccount
<1>9. CASE Choosing(x, y)
  <2>1. y.money = x.money /\ y.purchases = x.purchases /\ y.results = x.results
    BY <1>9 DEF Choosing, SameBut, AccountFields
  <2>2. IsAccount(y)
    BY <1>6, <2>1 DEF IsAccount
  <2>3. PICK f \in Facilities :
           \/ /\ spent(x) + price[f] <= x.money
              /\ y.selection = [x.selection EXCEPT ![f] = @ + 1]
           \/ y.selection = [x.selection EXCEPT ![f] = @ - 1]
    BY <1>9 DEF Choosing, price
  <2>4. price[f] \in Nat
    BY <1>1
  <2>5. IsInvestment(Here)
    BY <1>9 DEF Choosing
  <2>6. CASE spent(x) + price[f] <= x.money /\ y.selection = [x.selection EXCEPT ![f] = @ + 1]
    <3> DEFINE changed == y.selection
    <3>0. changed = [x.selection EXCEPT ![f] = @ + 1]
      BY <2>6
    <3> HIDE DEF changed
    <3>1. SelectionCost(changed, price) = SelectionCost(x.selection, price) + 1 * price[f]
      BY <1>1, <3>0, OneCopyCosts
    <3>2. spent(y) = spent(x) + price[f]
      BY <2>4, <3>1 DEF changed
    <3> QED
      BY <1>7, <2>1, <2>2, <2>5, <2>6, <3>2
  <2>7. CASE y.selection = [x.selection EXCEPT ![f] = @ - 1]
    <3> DEFINE changed == y.selection
    <3>0. changed = [x.selection EXCEPT ![f] = @ + (-1)]
      BY <2>7
    <3> HIDE DEF changed
    <3>1. SelectionCost(changed, price) = SelectionCost(x.selection, price) + (-1) * price[f]
      BY <1>1, <3>0, OneCopyCosts
    <3>2. (-1) * price[f] = 0 - price[f]
      BY <2>4
    <3>3. spent(y) = spent(x) + (0 - price[f])
      BY <3>1, <3>2 DEF changed
    <3> DEFINE a == spent(x)
               b == price[f]
    <3>4. a \in Nat /\ b \in Nat /\ spent(y) = a + (0 - b) /\ a <= x.money
      BY <1>4, <1>6, <2>4, <2>5, <3>3
    <3> HIDE DEF a, b, spent
    <3>5. spent(y) <= x.money
      BY <1>3, <3>4
    <3> QED
      BY <1>7, <2>1, <2>2, <2>5, <3>5
  <2> QED
    BY <2>3, <2>6, <2>7
<1>10. CASE Borrowing(x, y)
  <2>1. y.selection = x.selection /\ y.purchases = x.purchases /\ y.results = x.results
    BY <1>10 DEF Borrowing, SameBut, AccountFields
  <2>2. IsInvestment(Here)
    BY <1>10 DEF Borrowing
  <2>3. \/ y.money = x.money + 50
        \/ spent(x) <= x.money - 50 /\ y.money = x.money - 50
    BY <1>10 DEF Borrowing, price, LOAN_AMOUNT
  <2>4. spent(y) = spent(x)
    BY <2>1
  <2> HIDE DEF spent
  <2>5. y.money \in Int /\ spent(y) <= y.money
    BY <1>3, <1>4, <1>6, <2>2, <2>3, <2>4
  <2>6. IsAccount(y)
    BY <1>6, <2>1, <2>5 DEF IsAccount
  <2> QED
    BY <1>7, <2>2, <2>5, <2>6
<1> QED
  BY <1>8, <1>9, <1>10

\* Who enters has an account in order.
LEMMA NewcomersAreInOrder ==
    ASSUME NEW s, s.firedEvents \in Seq(Fired)
    PROVE  InOrder(s, NewPlayer)
<1> DEFINE price == FacilityPrices(s, s.checkpoint.round)
           y == NewPlayer
<1>1. /\ y.money = 50 /\ y.selection = NothingSelected
      /\ y.purchases = NothingOwned /\ y.results = <<>>
  BY DEF NewPlayer, WORKSHOP_STARTING_BUDGET
<1> HIDE DEF y
<1>2. SelectionCost(y.selection, price) = 0
  <2>1. price \in [Facilities -> Nat]
    BY FacilityPricesAreNat
  <2>2. NothingSelected \in [Facilities -> Nat]
    BY DEF NothingSelected
  <2> HIDE DEF price
  <2> QED
    BY <1>1, <2>1, <2>2, SelectionCostIsNat
<1>3. y.purchases \in [Facilities -> [Rounds -> Nat]]
  BY <1>1 DEF NothingOwned
<1>4. \E n \in Nat : y.results = [i \in 1..n |-> y.results[i]]
  <2>1. y.results = [i \in 1..0 |-> y.results[i]]
    BY <1>1
  <2>2. 0 \in Nat
    OBVIOUS
  <2> QED
    BY <2>1, <2>2
<1>5. DOMAIN y.results = {}
  BY <1>1
<1>6. IsAccount(y)
  <2>1. y.money \in Int
    BY <1>1
  <2> QED
    BY <2>1, <1>3, <1>4, <1>5 DEF IsAccount
<1> HIDE DEF price
<1>7. y.money >= 0 /\ SelectionCost(y.selection, price) <= y.money
  BY <1>1, <1>2
<1> QED
  BY <1>6, <1>7 DEF InOrder, y, price

\* The purchase pays for the selection and leaves the rest.
LEMMA PayingStaysInOrder ==
    ASSUME SessionInv, RoomInv, IsInvestment(Here), NEW x, InOrder(session, x),
           x.selection \in [Facilities -> Nat], NEW y, PaidFor(x, y, session, Here.round)
    PROVE  IsAccount(y) /\ y.money >= 0 /\ y.selection = NothingSelected
<1> DEFINE price == FacilityPrices(session, Here.round)
           spent == SelectionCost(x.selection, price)
           r == Here.round
<1>1. price \in [Facilities -> Nat]
  BY FacilityPricesAreNat DEF RoomInv
<1>2. spent \in Nat
  <2> HIDE DEF price
  <2> QED
    BY <1>1, SelectionCostIsNat
<1>3. x.money \in Int /\ spent <= x.money /\ x.purchases \in [Facilities -> [Rounds -> Nat]]
  BY DEF InOrder, IsAccount, Here
<1>4. /\ y.money = x.money - spent
      /\ y.purchases = [f \in Facilities |->
                          [x.purchases[f] EXCEPT ![r] = @ + x.selection[f] * price[f]]]
      /\ y.selection = NothingSelected
      /\ y.results = x.results
  BY DEF PaidFor, SameBut, AccountFields
<1> HIDE DEF price, spent
<1>5. y.money \in Int /\ y.money >= 0
  BY <1>2, <1>3, <1>4
<1>6. y.purchases \in [Facilities -> [Rounds -> Nat]]
  <2>1. ASSUME NEW f \in Facilities
        PROVE  [x.purchases[f] EXCEPT ![r] = @ + x.selection[f] * price[f]] \in [Rounds -> Nat]
    <3> DEFINE had == x.purchases[f]
               more == x.selection[f] * price[f]
    <3>1. had \in [Rounds -> Nat]
      BY <1>3
    <3>2. more \in Nat
      <4>1. x.selection[f] \in Nat /\ price[f] \in Nat
        BY <1>1
      <4> QED
        BY <4>1
    <3> HIDE DEF had, more
    <3>3. [had EXCEPT ![r] = @ + more] \in [Rounds -> Nat]
      <4>1. \A b \in Rounds : had[b] + more \in Nat
        BY <3>1, <3>2
      <4>2. [had EXCEPT ![r] = @ + more]
              = [b \in Rounds |-> IF b = r THEN had[r] + more ELSE had[b]]
        BY <3>1
      <4> QED
        BY <3>1, <4>1, <4>2
    <3> QED
      BY <3>3 DEF had, more
  <2> QED
    BY <1>4, <2>1
<1>7. IsAccount(x)
  BY DEF InOrder
<1> QED
  BY <1>4, <1>5, <1>6, <1>7 DEF IsAccount

\* An advance leaves every account in order: the purchase pays, blackouts and payments may
\* leave a debt, and the next Investment phase starts at the floor or above, with nothing
\* selected (advance).
LEMMA AdvancingStaysInOrder ==
    ASSUME SessionInv, RoomInv, RoomInv', Here # Finished, Here' = NextHere,
           NEW x, InOrder(session, x), x.selection \in [Facilities -> Nat],
           ~IsInvestment(Here) => x.selection = NothingSelected,
           x.loan = NoLoan \/ x.loan.made \in Int,
           NEW y, AccountMoved(x, y, session, NextHere)
    PROVE  InOrder(session', y)
<1> DEFINE c == NextHere
           n == session.roundCount
           price == FacilityPrices(session', c.round)
<1>1. n \in Nat \ {0} /\ Here \in AllCheckpoints(n)
  BY WhereTheSessionIs
<1>2. /\ Here = NotStarted \/ IsInvestment(Here) \/ IsTrading(Here) \/ IsRecap(Here)
      /\ Here = NotStarted => c = Investment(1)
      /\ IsInvestment(Here) => IsTrading(c)
      /\ IsTrading(Here) => IsTrading(c) \/ IsRecap(c)
      /\ IsRecap(Here) => c = Finished \/ \E r \in Nat \ {0} : c = Investment(r + 1)
  <2>1. CASE Here = NotStarted
    BY <2>1 DEF NextHere, NextCheckpoint, IsInvestment, IsTrading, IsRecap, NotStarted, Investment
  <2>2. CASE \E r \in 1..n : Here = Investment(r)
    BY <2>2 DEF NextHere, NextCheckpoint, IsInvestment, IsTrading, IsRecap, NotStarted,
                Investment, TradingPeriod
  <2>3. CASE \E r \in 1..n, t \in Seasons : Here = TradingPeriod(r, t)
    BY <2>3 DEF NextHere, NextCheckpoint, IsInvestment, IsTrading, IsRecap, NotStarted,
                TradingPeriod, Recap
  <2>4. CASE \E r \in 1..n : Here = Recap(r)
    BY <2>4 DEF NextHere, NextCheckpoint, IsInvestment, IsTrading, IsRecap, NotStarted, Recap,
                Investment, Finished
  <2> QED
    BY <1>1, <2>1, <2>2, <2>3, <2>4, CheckpointKinds
<1>3. \A r : /\ IsInvestment(Investment(r)) /\ Investment(r).round = r
             /\ Investment(r) # Finished
  BY DEF IsInvestment, Investment, Finished
<1>4. /\ IsTrading(c) => ~IsInvestment(c) /\ ~IsRecap(c) /\ c # Finished /\ c # NotStarted
      /\ IsRecap(c) => ~IsInvestment(c) /\ ~IsTrading(c) /\ c # Finished /\ c # NotStarted
      /\ IsInvestment(c) => c # NotStarted
      /\ c = Finished => ~IsInvestment(c) /\ c # NotStarted
      /\ IsInvestment(Here) => Here # NotStarted /\ ~IsTrading(Here) /\ ~IsRecap(Here)
      /\ IsTrading(Here) => Here # NotStarted /\ ~IsInvestment(Here) /\ ~IsRecap(Here)
      /\ IsRecap(Here) => Here # NotStarted /\ ~IsInvestment(Here) /\ ~IsTrading(Here)
  BY DEF IsInvestment, IsTrading, IsRecap, NotStarted, Finished
<1> HIDE DEF c
<1>5. /\ IsAccount(x)
      /\ Here = NotStarted => x.money >= 0
  BY DEF InOrder, Here
<1>6. SUFFICES /\ IsAccount(y)
               /\ c # NotStarted
               /\ IsInvestment(c) => y.money >= 0 /\ SelectionCost(y.selection, price) = 0
  <2>1. session'.checkpoint = c
    BY DEF Here, c
  <2>2. y.money \in Int
    BY <1>6 DEF IsAccount
  <2>3. SelectionCost(y.selection, FacilityPrices(session', c.round)) = SelectionCost(y.selection, price)
    OBVIOUS
  <2> HIDE DEF price
  <2> QED
    BY <1>6, <2>1, <2>2, <2>3 DEF InOrder
<1>7. ASSUME SameBut(x, y, {"money", "loan"}), y.money \in Int
      PROVE  IsAccount(y) /\ y.selection = x.selection
  <2>1. y.purchases = x.purchases /\ y.results = x.results /\ y.selection = x.selection
    BY <1>7 DEF SameBut, AccountFields
  <2> QED
    BY <1>5, <1>7, <2>1 DEF IsAccount
<1>8. x.money \in Int
  BY <1>5 DEF IsAccount
<1>9. CASE IsInvestment(Here)
  <2>1. PaidFor(x, y, session, Here.round)
    BY <1>9 DEF AccountMoved, Here
  <2>2. IsAccount(y)
    BY <1>9, <2>1, PayingStaysInOrder
  <2> QED
    BY <1>2, <1>4, <1>9, <2>2
<1>10. CASE ~IsInvestment(Here) /\ IsInvestment(c)
  <2>1. StartedRound(x, y, c.round)
    BY <1>10 DEF AccountMoved, Here, c
  <2>2. SelectionCost(NothingSelected, price) = 0
    <3>1. price \in [Facilities -> Nat]
      BY FacilityPricesAreNat DEF RoomInv
    <3>2. x.selection \in [Facilities -> Nat]
      OBVIOUS
    <3> HIDE DEF price
    <3> QED
      BY <3>1, <3>2, SelectionCostIsNat
  <2>3. IsAccount(y) /\ y.selection = x.selection /\ y.money >= 0
    <3>1. CASE c.round = 1
      <4>1. Here = NotStarted
        <5>1. \A r \in Nat \ {0} : c # Investment(r + 1)
          <6>1. \A r \in Nat \ {0} : r + 1 # 1
            OBVIOUS
          <6> QED
            BY <1>3, <3>1, <6>1
        <5> QED
          BY <1>2, <1>4, <1>10, <5>1
      <4>2. SameBut(x, y, {})
        BY <2>1, <3>1 DEF StartedRound
      <4>3. y.money = x.money /\ SameBut(x, y, {"money", "loan"})
        BY <4>2 DEF SameBut, AccountFields
      <4> QED
        BY <1>5, <1>7, <1>8, <4>1, <4>3
    <3>2. CASE c.round # 1
      <4> DEFINE owed == Owed(x.loan, c.round)
      <4>1. owed \in Nat
        BY OwedIsNat
      <4>2. /\ y.money = RoundStartMoney(x.money - owed)
            /\ SameBut(x, y, {"money", "loan"})
        BY <2>1, <3>2 DEF StartedRound
      <4> HIDE DEF owed
      <4>3. y.money \in Int /\ y.money >= 0
        <5> DEFINE left == x.money - owed
        <5>1. left \in Int
          BY <1>8, <4>1
        <5> HIDE DEF left
        <5>2. RoundStartMoney(left) \in Int /\ RoundStartMoney(left) >= 0
          BY <5>1 DEF RoundStartMoney, WORKSHOP_CASH_FLOOR
        <5> QED
          BY <4>2, <5>2 DEF left
      <4> QED
        BY <1>7, <4>2, <4>3
    <3> QED
      BY <3>1, <3>2
  <2>4. y.selection = NothingSelected
    BY <1>10, <2>3
  <2> HIDE DEF price
  <2> QED
    BY <1>4, <1>10, <2>2, <2>3, <2>4
<1>11. CASE ~IsInvestment(Here) /\ ~IsInvestment(c)
  <2>1. c # NotStarted
    BY <1>2, <1>3, <1>4, <1>11
  <2>2. SameBut(x, y, {"money", "loan"}) /\ y.money \in Int
    <3>1. CASE c = Finished
      <4> DEFINE owed == Owed(x.loan, n + 1)
      <4>1. owed \in Nat
        BY OwedIsNat
      <4>2. PaidOff(x, y, n + 1)
        BY <1>11, <3>1 DEF AccountMoved, Here, c
      <4>3. y.money = x.money - owed /\ SameBut(x, y, {"money", "loan"})
        BY <4>2 DEF PaidOff
      <4> HIDE DEF owed
      <4> QED
        BY <1>8, <4>1, <4>3
    <3>2. CASE c # Finished /\ IsRecap(c)
      <4> DEFINE profit == ProfitIn(x, c.round)
                 k == BlackoutsIn(session, c.round)
                 cost == BlackoutCost(profit, k)
      <4>1. WentDark(x, y, session, c.round)
        BY <1>11, <3>2 DEF AccountMoved, Here, c
      <4>2. profit \in Int /\ k \in Nat
        BY <1>5, RoundsResultsTyped DEF RoomInv
      <4>3. y.money = x.money - cost /\ SameBut(x, y, {"money"})
        BY <4>1 DEF WentDark
      <4> HIDE DEF profit, k
      <4>4. cost \in Nat
        BY <4>2, BlackoutsCost
      <4> HIDE DEF cost
      <4> QED
        BY <1>8, <4>3, <4>4 DEF SameBut
    <3>3. CASE c # Finished /\ ~IsRecap(c)
      <4>1. SameBut(x, y, {})
        BY <1>11, <3>3 DEF AccountMoved, Here, c
      <4>2. y.money = x.money /\ SameBut(x, y, {"money", "loan"})
        BY <4>1 DEF SameBut, AccountFields
      <4> QED
        BY <1>8, <4>2
    <3> QED
      BY <3>1, <3>2, <3>3
  <2> QED
    BY <1>7, <1>11, <2>1, <2>2
<1> QED
  BY <1>9, <1>10, <1>11

\* Settled with a result.
Earning(x, y, result) ==
    /\ y.money = x.money + result.profit - result.tax
    /\ y.results = Append(x.results, result)
    /\ result.profit \in Int /\ result.tax \in Int

\* A period settled pays a player the profit less the tax of the result it gives them, if
\* any, and touches nothing else of their account (finish_settlement).
LEMMA SettlingPays ==
    ASSUME SettledWell, FuelInv, RoomInv, MoneyInv,
           NEW i \in DOMAIN jobs, NEW outcome \in Outcomes(jobs[i]), WaitingFor(jobs[i]),
           session' = Settled(session, jobs[i], outcome), NEW p \in Players
    PROVE  /\ SameBut(session.players[p], session'.players[p], {"money", "results"})
           /\ \/ SameBut(session.players[p], session'.players[p], {})
              \/ \E result : /\ result.period = jobs[i].period
                             /\ Earning(session.players[p], session'.players[p], result)
<1> USE DEF SettledWell
<1> DEFINE job == jobs[i]
           x == session.players[p]
           y == session'.players[p]
           result == ResultOf(session, job, outcome.players[p], x,
                              CarbonTax(session, job, outcome)[p])
           gets == p \in DOMAIN job.bidders /\ GetsResult(session, job, outcome, p)
<1>1. p \in DOMAIN session.players /\ IsSession(session)
  BY DEF Players, SessionInv, Sound
<1>2. /\ y.purchases = x.purchases /\ y.selection = x.selection /\ y.loan = x.loan
  <2>1. Touched(session, session', SettleUndo)
    BY <1>1, SettledTouches
  <2> QED
    BY <1>1, <2>1 DEF Touched, PlayerTouched, SettleUndo, PlayerFields
<1>3. IF gets THEN /\ y.money = x.money + result.profit - result.tax
                   /\ y.results = Append(x.results, result)
              ELSE y.money = x.money /\ y.results = x.results
  <2>1. /\ x = session.players[p]
        /\ y = Settled(session, job, outcome).players[p]
        /\ result = ResultOf(session, job, outcome.players[p], x,
                             CarbonTax(session, job, outcome)[p])
    OBVIOUS
  <2> HIDE DEF x, y, result, job
  <2> QED
    BY <1>1, <2>1, SettlesEachBidder
<1>4. gets => result.profit \in Int /\ result.tax \in Int
  <2>1. Players \subseteq Admitted
    BY DEF MoneyInv
  <2> QED
    BY <2>1, ResultsAreAmounts
<1>5. result.period = job.period
  <2> HIDE DEF job, x
  <2> QED
    BY DEF ResultOf
<1> HIDE DEF x, y, result, gets, job
<1>6. SameBut(x, y, {"money", "results"})
  BY <1>2 DEF SameBut, AccountFields
<1>7. CASE gets
  BY <1>3, <1>4, <1>5, <1>6, <1>7 DEF Earning, x, y, job
<1>8. CASE ~gets
  <2>1. SameBut(x, y, {})
    BY <1>2, <1>3, <1>8 DEF SameBut, AccountFields
  <2> QED
    BY <1>6, <2>1 DEF x, y
<1> QED
  BY <1>7, <1>8

\* A period settled leaves every account in order.
LEMMA SettlingStaysInOrder ==
    ASSUME SettledWell, FuelInv, RoomInv, MoneyInv,
           NEW i \in DOMAIN jobs, NEW outcome \in Outcomes(jobs[i]), WaitingFor(jobs[i]),
           session' = Settled(session, jobs[i], outcome), NEW p \in Players
    PROVE  InOrder(session', session'.players[p])
<1> USE DEF SettledWell
<1> DEFINE x == session.players[p]
           y == session'.players[p]
<1> SUFFICES InOrder(session', y)
  OBVIOUS
<1>1. IsSession(session) /\ IsAccount(x)
  BY DEF Players, SessionInv, Sound, MoneyInv, InOrder
<1>2. session'.checkpoint # NotStarted /\ ~IsInvestment(session'.checkpoint)
  <2>1. Touched(session, session', SettleUndo)
    BY <1>1, SettledTouches
  <2>2. session'.checkpoint = session.checkpoint
    BY <1>1, <2>1 DEF Touched, SettleUndo, SessionFields
  <2>3. IsTrading(Here)
    BY TheOnlyJob DEF SessionInv, WaitingFor
  <2> QED
    BY <2>2, <2>3 DEF Here, IsTrading, IsInvestment, NotStarted
<1>3. FuelBooks(y)
  BY SettlingKeepsBooks
<1>4. /\ SameBut(x, y, {"money", "results"})
      /\ SameBut(x, y, {}) \/ \E result : Earning(x, y, result)
  BY SettlingPays
<1> HIDE DEF x, y
<1>5. PICK n \in Nat : x.results = [k \in 1..n |-> x.results[k]]
  BY <1>1 DEF IsAccount
<1>6. /\ x.money \in Int
      /\ \A k \in DOMAIN x.results : x.results[k].profit \in Int /\ x.results[k].tax \in Int
  BY <1>1 DEF IsAccount
<1>7. /\ y.money \in Int
      /\ \A k \in DOMAIN y.results : y.results[k].profit \in Int /\ y.results[k].tax \in Int
  <2>1. CASE \E result : Earning(x, y, result)
    <3> DEFINE before == x.results
               after  == y.results
    <3>0. PICK result : Earning(x, y, result)
      BY <2>1
    <3>1. /\ after = Append(before, result) /\ before = [k \in 1..n |-> before[k]]
          /\ result.profit \in Int /\ result.tax \in Int
      BY <1>5, <3>0 DEF Earning
    <3>2. \A k \in DOMAIN before : before[k].profit \in Int /\ before[k].tax \in Int
      BY <1>6
    <3> HIDE DEF before, after
    <3>3. /\ after = [k \in 1..(n + 1) |-> after[k]]
          /\ \A k \in 1..n : after[k] = before[k]
          /\ after[n + 1] = result
      BY <3>1, AppendKeeps
    <3>4. ASSUME NEW k \in DOMAIN after
          PROVE  after[k].profit \in Int /\ after[k].tax \in Int
      <4>1. k \in 1..(n + 1)
        BY <3>3
      <4>2. k \in 1..n \/ k = n + 1
        BY <4>1
      <4>3. DOMAIN before = 1..n
        BY <3>1
      <4> QED
        BY <3>1, <3>2, <3>3, <4>2, <4>3
    <3>5. y.money \in Int
      BY <1>6, <3>0 DEF Earning
    <3> QED
      BY <3>4, <3>5 DEF after
  <2>2. CASE SameBut(x, y, {})
    BY <1>6, <2>2 DEF SameBut, AccountFields
  <2> QED
    BY <1>4, <2>1, <2>2
<1>8. IsAccount(y)
  <2>1. y.purchases = x.purchases
    BY <1>4 DEF SameBut, AccountFields
  <2> QED
    BY <1>1, <1>3, <1>7, <2>1 DEF IsAccount, FuelBooks
<1> QED
  BY <1>2, <1>8 DEF InOrder

\* A loan's payments are counted in whole numbers.
LEMMA PaymentsAreCounted ==
    ASSUME SessionInv, NEW loan, OnSchedule(loan, Here, session.roundCount)
    PROVE  loan.made \in Int
<1> DEFINE n == session.roundCount
           now == CurrentRound(Here, n)
<1>1. n \in Nat \ {0} /\ Here \in AllCheckpoints(n)
  BY WhereTheSessionIs
<1>2. now \in Int
  BY <1>1, CheckpointKinds
  DEF CurrentRound, NotStarted, Finished, Investment, TradingPeriod, Recap
<1>3. PICK r \in 1..(n - 1) :
         loan = [round |-> r, made |-> IF Here = Finished THEN LOAN_PAYMENTS
                                       ELSE Least(LOAN_PAYMENTS, now - r)]
  BY DEF OnSchedule
<1> HIDE DEF now
<1>4. r \in Int
  OBVIOUS
<1>5. now - r \in Int /\ LOAN_PAYMENTS \in Int
  BY <1>2, <1>4 DEF LOAN_PAYMENTS
<1>6. Least(LOAN_PAYMENTS, now - r) \in Int
  BY <1>5 DEF Least
<1> QED
  BY <1>3, <1>5, <1>6

\* The invariant is inductive.
LEMMA MoneyInvKept ==
    SettledWell /\ FuelInv /\ LoanInv /\ PlansInv /\ RoomInv /\ MoneyInv /\ [Next]_vars
      => MoneyInv'
<1> SUFFICES ASSUME SettledWell, FuelInv, LoanInv, PlansInv, RoomInv, MoneyInv, [Next]_vars,
                    NEW p \in DOMAIN session'.players
             PROVE  p \in Admitted /\ InOrder(session', session'.players[p])
  BY DEF MoneyInv, Players
<1> USE DEF SettledWell
<1> DEFINE x == session.players[p]
           y == session'.players[p]
<1> SUFFICES p \in Admitted /\ InOrder(session', y)
  OBVIOUS
<1>1. RoomInv'
  BY RoomInvKept
<1>2. Players \subseteq Admitted
  BY DEF MoneyInv
<1>3. ASSUME p \in Players
      PROVE  /\ InOrder(session, x)
             /\ x.selection \in [Facilities -> Nat]
             /\ ~IsInvestment(Here) => x.selection = NothingSelected
             /\ x.loan = NoLoan \/ x.loan.made \in Int
  <2>1. InOrder(session, x) /\ RightlyHas(session, x)
    BY <1>3 DEF MoneyInv, OffersInv
  <2>2. x.loan = NoLoan \/ OnSchedule(x.loan, Here, session.roundCount)
    BY <1>3 DEF LoanInv
  <2> HIDE DEF x
  <2>3. x.selection \in [Facilities -> Nat]
    BY <2>1 DEF RightlyHas
  <2>4. ASSUME ~IsInvestment(Here) PROVE x.selection = NothingSelected
    <3>1. \A f \in Facilities : ~(x.selection[f] > 0)
      BY <2>1, <2>4 DEF RightlyHas, Here
    <3>2. \A f \in Facilities : x.selection[f] \in Nat
      BY <2>3
    <3>3. \A f \in Facilities : x.selection[f] = 0
      BY <3>1, <3>2
    <3> QED
      BY <2>3, <3>3 DEF NothingSelected
  <2> QED
    BY <2>1, <2>2, <2>3, <2>4, PaymentsAreCounted
<1>4. CashIsTyped
  BY DEF CashIsTyped, MoneyInv, InOrder, IsAccount
<1>5. AccountsRest \/ AccountsTurn \/ Finishing
  BY <1>4, EveryStepOfAccounts DEF SessionInv
<1>6. CASE AccountsRest
  <2>1. Here' = Here
    BY <1>6 DEF AccountsRest, Here
  <2>2. \/ p \in Admitted \ Players /\ y = NewPlayer
        \/ p \in Players /\ (SameBut(x, y, {}) \/ Choosing(x, y) \/ Borrowing(x, y))
        \/ p \in Players /\ IsInvestment(Here) /\ PaidFor(x, y, session, Here.round)
    BY <1>6 DEF AccountsRest
  <2>3. CASE p \in Admitted \ Players /\ y = NewPlayer
    BY <1>1, <2>3, NewcomersAreInOrder DEF RoomInv
  <2>4. CASE p \in Players /\ (SameBut(x, y, {}) \/ Choosing(x, y) \/ Borrowing(x, y))
    <3>1. InOrder(session', y)
      <4>1. InOrder(session, x) /\ x.selection \in [Facilities -> Nat]
        BY <1>3, <2>4
      <4> HIDE DEF x, y
      <4> QED
        BY <2>1, <2>4, <4>1, SpendingStaysInOrder
    <3> QED
      BY <1>2, <2>4, <3>1
  <2>5. CASE p \in Players /\ IsInvestment(Here) /\ PaidFor(x, y, session, Here.round)
    <3>1. IsAccount(y) /\ y.money >= 0 /\ y.selection = NothingSelected
      <4>1. InOrder(session, x) /\ x.selection \in [Facilities -> Nat]
        BY <1>3, <2>5
      <4> HIDE DEF x, y
      <4> QED
        BY <2>5, <4>1, PayingStaysInOrder
    <3> DEFINE price == FacilityPrices(session', session'.checkpoint.round)
    <3>2. SelectionCost(NothingSelected, price) = 0
      <4>1. price \in [Facilities -> Nat]
        BY <1>1, FacilityPricesAreNat DEF RoomInv
      <4>2. x.selection \in [Facilities -> Nat]
        BY <1>3, <2>5
      <4> HIDE DEF price, x
      <4> QED
        BY <4>1, <4>2, SelectionCostIsNat
    <3> HIDE DEF x, y
    <3>3. SelectionCost(y.selection, price) <= y.money
      <4> HIDE DEF price
      <4>1. y.money \in Int
        BY <3>1 DEF IsAccount
      <4> QED
        BY <3>1, <3>2, <4>1
    <3> QED
      BY <1>2, <2>5, <3>1, <3>3 DEF InOrder
  <2> QED
    BY <2>2, <2>3, <2>4, <2>5
<1>7. CASE AccountsTurn
  <2>1. /\ Here # Finished
        /\ Here' = NextHere
        /\ p \in Players
        /\ AccountMoved(x, y, session, NextHere)
    BY <1>7 DEF AccountsTurn, AccountsMoved, Players, Here
  <2>2. /\ InOrder(session, x)
        /\ x.selection \in [Facilities -> Nat]
        /\ ~IsInvestment(Here) => x.selection = NothingSelected
        /\ x.loan = NoLoan \/ x.loan.made \in Int
    BY <1>3, <2>1
  <2> HIDE DEF x, y
  <2>3. InOrder(session', y)
    BY <1>1, <2>1, <2>2, AdvancingStaysInOrder
  <2> QED
    BY <1>2, <2>1, <2>3
<1>8. CASE Finishing
  <2>1. PICK i \in DOMAIN jobs : \E outcome \in Outcomes(jobs[i]) :
          WaitingFor(jobs[i]) /\ session' = Settled(session, jobs[i], outcome)
    BY <1>8 DEF Finishing
  <2>2. PICK outcome \in Outcomes(jobs[i]) :
          WaitingFor(jobs[i]) /\ session' = Settled(session, jobs[i], outcome)
    BY <2>1
  <2>3. Touched(session, session', SettleUndo)
    BY <2>2, SettledTouches DEF SessionInv, Sound
  <2>4. p \in Players
    BY <2>3 DEF Touched, Players
  <2>5. InOrder(session', y)
    BY <2>2, <2>4, SettlingStaysInOrder
  <2> QED
    BY <1>2, <2>4, <2>5
<1> QED
  BY <1>5, <1>6, <1>7, <1>8

\* It always holds, with all it rests on.
WellKept == SettledWell /\ FuelInv /\ LoanInv /\ PlansInv /\ RoomInv /\ MoneyInv

\* No step of the session breaks it.
LEMMA WellKeptHolds == Spec => []WellKept
<1>1. Init => LoanInv /\ PlansInv /\ RoomInv /\ MoneyInv
  <2> SUFFICES ASSUME Init PROVE LoanInv /\ PlansInv /\ RoomInv /\ MoneyInv
    OBVIOUS
  <2>1. session = NewSession
    BY DEF Init
  <2>2. Players = {}
    BY <2>1 DEF NewSession, Nobody, Players
  <2>3. PlansInv
    BY EventsStart
  <2>4. RoomInv
    <3>1. /\ session.firedEvents = <<>> /\ session.blackouts = <<>>
          /\ session.fuelPrices = NoFuelHeld
      BY <2>1 DEF NewSession
    <3>2. NoFuelHeld \in [Fuels -> Nat]
      BY DEF NoFuelHeld
    <3>3. \A S : <<>> \in Seq(S)
      OBVIOUS
    <3> QED
      BY <3>1, <3>2, <3>3 DEF RoomInv
  <2> QED
    BY <2>2, <2>3, <2>4 DEF LoanInv, MoneyInv
<1>2. WellKept /\ [Next]_vars => WellKept'
  <2> SUFFICES ASSUME WellKept, [Next]_vars PROVE WellKept'
    OBVIOUS
  <2>1. SettledWell /\ FuelInv /\ LoanInv /\ PlansInv /\ RoomInv /\ MoneyInv
    BY DEF WellKept
  <2>2. SessionInv /\ VotesInv /\ OffersInv /\ SettlingInv /\ StorageInv
    BY <2>1 DEF SettledWell
  <2>3. FuelInv' /\ RoomInv' /\ MoneyInv'
    BY <2>1, <2>2, FuelInvKept, RoomInvKept, MoneyInvKept
  <2>4. LoanInv' /\ PlansInv'
    BY <2>1, <2>2, LoanInvKept, PlansInvKept
  <2>5. SessionInv' /\ VotesInv' /\ OffersInv' /\ SettlingInv' /\ StorageInv'
    BY <2>2, SessionInvKept, VotesInvKept, OffersInvKept, SettlingInvKept, StorageInvKept
  <2> QED
    BY <2>3, <2>4, <2>5 DEF WellKept, SettledWell
<1>3. Init => SettledWell /\ FuelInv
  <2> SUFFICES ASSUME Init PROVE SettledWell /\ FuelInv
    OBVIOUS
  <2>1. SessionInv /\ VotesInv
    BY SessionStarts, VotesStart
  <2>2. session = NewSession /\ jobs = <<>>
    BY DEF Init
  <2>3. Players = {}
    BY <2>2 DEF NewSession, Nobody, Players
  <2>4. DOMAIN jobs = {}
    BY <2>2
  <2> QED
    BY <2>1, <2>3, <2>4 DEF SettledWell, FuelInv, OffersInv, SettlingInv, StorageInv
<1> QED
  BY <1>1, <1>2, <1>3, PTL DEF Spec, WellKept

\* Through an Investment phase every player can pay for all they selected, whatever order
\* they select, drop, borrow and give the loan back in, and at whatever price the Round's
\* shocks made, in every session (select_facility, cancel_loan, _apply_purchases).
THEOREM SelectionsAreAlwaysPaid == Spec => []SelectionAffordable
<1>1. WellKept => SelectionAffordable
  BY DEF WellKept, MoneyInv, InOrder, SelectionAffordable, Here
<1> QED
  BY <1>1, WellKeptHolds, PTL

-----------------------------------------------------------------------------
(***************************************************************************)
(* Types.  Most of them the invariants above hold; the rest are here.      *)
(***************************************************************************)
Headcounts == 0..Cardinality(Admitted)
PriceLists == [PriceKeys -> PRICE_FLOOR..PRICE_CEILING]

TypesInv ==
    /\ \A p \in Players : session.players[p].prices \in PriceLists
    /\ DOMAIN session.ballots \subseteq Players
    /\ session.demandAmplitude \in {NoAmplitude} \cup Headcounts
    /\ \A i \in DOMAIN jobs : jobs[i].base \in Headcounts
    /\ DOMAIN records \subseteq TradingPeriods(MaxRounds)
    /\ timeUp \in BOOLEAN

\* Who enters starts from the default price, and a player sets one price at a time, in the
\* allowed range; nothing else sets prices (set_price).
LEMMA EveryPriceIsSet ==
    ASSUME Sound, [Next]_vars, NEW p \in DOMAIN session'.players
    PROVE  LET before == session.players[p].prices
               after  == session'.players[p].prices
           IN  \/ p \in Players /\ after = before
               \/ after = NewPlayer.prices
               \/ /\ p \in Players
                  /\ \E key, price : /\ price \in PRICE_FLOOR..PRICE_CEILING
                                     /\ after = [before EXCEPT ![key] = price]
<1> DEFINE before == session.players[p].prices
           after  == session'.players[p].prices
           Goal   == \/ p \in Players /\ after = before
                     \/ after = NewPlayer.prices
                     \/ /\ p \in Players
                        /\ \E key, price : /\ price \in PRICE_FLOOR..PRICE_CEILING
                                           /\ after = [before EXCEPT ![key] = price]
<1> SUFFICES Goal
  OBVIOUS
<1>1. ASSUME NEW t, NEW undo, Touched(session, t, undo), "prices" \notin undo,
             session'.players = t.players
      PROVE  Goal
  <2> DEFINE kept == {"prices"}
  <2>1. kept \in SUBSET PlayerFields /\ kept \cap undo = {} /\ "prices" \in kept
    BY <1>1 DEF PlayerFields
  <2> HIDE DEF kept, Goal
  <2>2. /\ DOMAIN t.players = DOMAIN session.players
        /\ \A q \in DOMAIN session.players : \A k \in kept : t.players[q][k] = session.players[q][k]
    BY <1>1, <2>1, TouchedKeepsFields
  <2>3. p \in DOMAIN session.players /\ t.players[p]["prices"] = session.players[p]["prices"]
    BY <1>1, <2>1, <2>2
  <2>4. p \in Players /\ after = before
    BY <1>1, <2>3 DEF Players
  <2> QED
    BY <2>4 DEF Goal
<1>2. CASE session' = session
  BY <1>2 DEF Players
<1>3. ASSUME NEW q \in Players, PlayerChange(q)
      PROVE  Goal
  <2> DEFINE x == session.players[q]
  <2>1. IsPlayer(x)
    BY DEF Sound, IsSession, Players
  <2>2. ASSUME NEW y, Becomes(q, y)
        PROVE  p \in Players /\ session'.players[p] = IF p = q THEN y ELSE session.players[p]
    <3>1. session'.players = [session.players EXCEPT ![q] = y]
      BY <2>2 DEF Becomes, Sound, IsSession, SessionFields
    <3> QED
      BY <3>1 DEF Players
  <2>3. ASSUME NEW y, Becomes(q, y), y.prices = x.prices
        PROVE  Goal
    BY <2>2, <2>3
  <2>4. CASE \E f \in Facilities, side \in {"sell", "buy"}, price \in PriceInputs :
               SetPrice(q, f, side, price) /\ Becomes(q, [x EXCEPT !.prices[<<f, side>>] = price])
    <3>1. PICK f \in Facilities, side \in {"sell", "buy"}, price \in PriceInputs :
             SetPrice(q, f, side, price) /\ Becomes(q, [x EXCEPT !.prices[<<f, side>>] = price])
      BY <2>4
    <3> DEFINE y == [x EXCEPT !.prices[<<f, side>>] = price]
    <3>2. price \in PRICE_FLOOR..PRICE_CEILING
      BY <3>1 DEF SetPrice
    <3>3. y.prices = [x.prices EXCEPT ![<<f, side>>] = price]
      BY <2>1 DEF IsPlayer, PlayerFields
    <3> HIDE DEF y
    <3>4. p \in Players /\ session'.players[p] = IF p = q THEN y ELSE session.players[p]
      BY <2>2, <3>1 DEF y
    <3>5. CASE p = q
      <4> DEFINE key == <<f, side>>
      <4>1. y.prices = [x.prices EXCEPT ![key] = price]
        BY <3>3
      <4>2. before = x.prices /\ after = y.prices /\ p \in Players
        BY <3>4, <3>5
      <4> HIDE DEF key, x, before, after
      <4> QED
        BY <3>2, <4>1, <4>2
    <3>6. CASE p # q
      BY <3>4, <3>6
    <3> QED
      BY <3>5, <3>6
  <2>5. \A value : /\ [x EXCEPT !.selection = value].prices = x.prices
                   /\ [x EXCEPT !.fuelOrder = value].prices = x.prices
    BY <2>1 DEF IsPlayer, PlayerFields
  <2>6. \A loan, money : [x EXCEPT !.loan = loan, !.money = money].prices = x.prices
    BY <2>1 DEF IsPlayer, PlayerFields
  <2> HIDE DEF x, Goal
  <2>7. CASE \E f \in Facilities :
                \/ Becomes(q, [x EXCEPT !.selection[f] = @ + 1])
                \/ Becomes(q, [x EXCEPT !.selection[f] = @ - 1])
    BY <2>3, <2>5, <2>7
  <2>8. CASE \/ Becomes(q, [x EXCEPT !.loan = Loan(RoundNow(session)),
                                     !.money = @ + LOAN_AMOUNT])
             \/ Becomes(q, [x EXCEPT !.loan = NoLoan, !.money = @ - LOAN_AMOUNT])
    BY <2>3, <2>6, <2>8
  <2>9. CASE \E u \in Fuels, quantity \in OrderInputs :
               Becomes(q, [x EXCEPT !.fuelOrder[u] =
                             CappedOrder(quantity, x.fuelStock[u],
                                         SeasonNeed(x.owned, u, RoundNow(session)))])
    BY <2>3, <2>5, <2>9
  <2> QED
    BY <1>3, <2>4, <2>7, <2>8, <2>9 DEF PlayerChange, x
<1>4. CASE SideChange
  <2>1. \E f \in SideFields : \E value : session' = [session EXCEPT ![f] = value]
    BY <1>4 DEF SideChange
  <2>2. session'.players = session.players
    BY <2>1 DEF SideFields, Sound, IsSession, SessionFields
  <2> QED
    BY <2>2 DEF Players
<1>5. CASE AddRound /\ session' = AddedRound(session)
  <2>1. Touched(session, AddedRound(session), {"roundCount", "priceRoundCount", "plans"})
    BY AddingTouches DEF Sound
  <2> HIDE DEF Goal
  <2> QED
    BY <1>1, <1>5, <2>1
<1>6. CASE Joining
  <2>1. PICK q \in Admitted \ Players : session' = [session EXCEPT !.players = With(@, q, NewPlayer)]
    BY <1>6 DEF Joining
  <2>2. session'.players = With(session.players, q, NewPlayer)
    BY <2>1 DEF Sound, IsSession, SessionFields
  <2> QED
    BY <2>2 DEF Players, With
<1>7. CASE Buying
  <2>1. Touched(session, ApplyPurchases(session, Here.round), PurchasesUndo)
    BY PurchasesTouch DEF Sound
  <2> HIDE DEF Goal
  <2> QED
    BY <1>1, <1>7, <2>1 DEF Buying, PurchasesUndo
<1>8. CASE Moving
  <2>1. PICK opened : session' = [Advanced(session, NextHere, opened) EXCEPT
                                    !.checkpoint = NextHere, !.phaseTimer = TimerFor(NextHere)]
    BY <1>8 DEF Moving
  <2> DEFINE moved == Advanced(session, NextHere, opened)
  <2>2. Touched(session, moved, AdvanceUndo(session, NextHere)) /\ IsSession(moved)
    BY AdvanceTouches, TouchedIsSession DEF Sound
  <2>3. session'.players = moved.players
    BY <2>1, <2>2 DEF IsSession, SessionFields
  <2>4. "prices" \notin AdvanceUndo(session, NextHere)
    BY DEF AdvanceUndo, PurchasesUndo, VoteUndo, RetirementUndo, LoanUndo, GrowthUndo,
           BlackoutUndo, EventsUndo, FuelMarketUndo, UnlocksUndo
  <2> HIDE DEF Goal, moved
  <2> QED
    BY <1>1, <2>2, <2>3, <2>4
<1>9. CASE Finishing
  <2>1. \E i \in DOMAIN jobs : \E outcome : session' = Settled(session, jobs[i], outcome)
    BY <1>9 DEF Finishing
  <2>2. Touched(session, session', SettleUndo)
    BY <2>1, SettledTouches DEF Sound
  <2> HIDE DEF Goal
  <2> QED
    BY <1>1, <2>2 DEF SettleUndo
<1>10. session' = session \/ Change
  BY EveryChange
<1> HIDE DEF Goal
<1> QED
  BY <1>2, <1>3, <1>4, <1>5, <1>6, <1>7, <1>8, <1>9, <1>10 DEF Change

\* Time is up or it is not.
LEMMA TimeIsTyped == [Next]_vars => timeUp' \in {timeUp, TRUE, FALSE}
<1> SUFFICES ASSUME [Next]_vars PROVE timeUp' \in {timeUp, TRUE, FALSE}
  OBVIOUS
<1>1. CASE PlayerActs \/ BackgroundActs
  BY <1>1
  DEF PlayerActs, Select, Deselect, TakeLoan, CancelLoan, CastBallot, SetPrice, SetFuelOrder,
      UpdatePlayer, Update, BackgroundActs, BuySelections, StartSettlement, AbandonSettlement,
      FinishSettlement
<1>2. CASE FacilitatorActs
  BY <1>2
  DEF Update, FacilitatorActs, Advance, ClosePhase, MoveOn, ExtendPhase, AddRound,
      SetLevers, PlanEvent, UnplanEvent, SetPlans, SetTimers, SetBonus
<1>3. CASE (\E p \in Admitted : Join(p)) \/ TimeRunsOut \/ Restart \/ UNCHANGED vars
  BY <1>3 DEF Join, TimeRunsOut, Restart, vars
<1> QED
  BY <1>1, <1>2, <1>3 DEF Next

\* The invariant is inductive.
LEMMA TypesInvKept == WellKept /\ TypesInv /\ [Next]_vars => TypesInv'
<1> SUFFICES ASSUME WellKept, TypesInv, [Next]_vars PROVE TypesInv'
  OBVIOUS
<1>1. /\ SessionInv /\ VotesInv /\ SettlingInv /\ Sound /\ JobInv
      /\ IsSession(session)
      /\ Players \subseteq Admitted
  BY DEF WellKept, SettledWell, SessionInv, Sound, MoneyInv
<1>2. Cardinality(Admitted) \in Nat /\ Cardinality(Players) \in Headcounts
  <2>1. IsFiniteSet(Admitted)
    BY SessionAssumption
  <2>2. IsFiniteSet(Players) /\ Cardinality(Players) <= Cardinality(Admitted)
    BY <1>1, <2>1, FS_Subset
  <2>3. Cardinality(Players) \in Nat /\ Cardinality(Admitted) \in Nat
    BY <2>1, <2>2, FS_CardinalityType
  <2> QED
    BY <2>2, <2>3 DEF Headcounts
<1>3. \A p \in Players' : session'.players[p].prices \in PriceLists
  <2> SUFFICES ASSUME NEW p \in DOMAIN session'.players
               PROVE  session'.players[p].prices \in PriceLists
    BY DEF Players
  <2> DEFINE before == session.players[p].prices
             after  == session'.players[p].prices
  <2>1. \/ p \in Players /\ after = before
        \/ after = NewPlayer.prices
        \/ /\ p \in Players
           /\ \E key, price : /\ price \in PRICE_FLOOR..PRICE_CEILING
                              /\ after = [before EXCEPT ![key] = price]
    BY <1>1, EveryPriceIsSet
  <2>2. p \in Players => before \in PriceLists
    BY DEF TypesInv
  <2>3. NewPlayer.prices \in PriceLists
    BY SessionAssumption DEF NewPlayer, PriceLists
  <2> HIDE DEF before, after
  <2>4. ASSUME before \in PriceLists, NEW key, NEW price \in PRICE_FLOOR..PRICE_CEILING
        PROVE  [before EXCEPT ![key] = price] \in PriceLists
    <3> DEFINE V == PRICE_FLOOR..PRICE_CEILING
    <3>1. before \in [PriceKeys -> V] /\ price \in V
      BY <2>4 DEF PriceLists
    <3> HIDE DEF V
    <3>2. [before EXCEPT ![key] = price] \in [PriceKeys -> V]
      BY <3>1
    <3> QED
      BY <3>2 DEF PriceLists, V
  <2>5. after \in PriceLists
    BY <2>1, <2>2, <2>3, <2>4
  <2> QED
    BY <2>5 DEF after
<1>4. DOMAIN session'.ballots \subseteq Players'
  <2>1. Players \subseteq Players'
    BY <1>1, PlayersStay
  <2>2. DOMAIN session.ballots \subseteq Players
    BY DEF TypesInv
  <2>3. session'.ballots = session.ballots \/ Voting \/ session'.ballots = Nobody
    <3>1. VoteStep
      BY <1>1, EveryStepIsAVoteStep
    <3>2. CASE Counting
      <4>1. session'.ballots = CountVote(session, Here.round).ballots
        BY <3>2 DEF Counting, VoteUndo
      <4>2. CountVote(session, Here.round).ballots \in {session.ballots, Nobody}
        BY <1>1 DEF CountVote, IsSession, SessionFields
      <4> QED
        BY <4>1, <4>2
    <3> QED
      BY <3>1, <3>2
      DEF VoteStep, Planning, AddingRound, Leaving, VotesKept, VoteFields, VoteUndo
  <2>4. Voting => DOMAIN session'.ballots \subseteq DOMAIN session.ballots \cup Players
    BY DEF Voting
  <2>5. DOMAIN Nobody = {}
    BY DEF Nobody
  <2> QED
    BY <2>1, <2>2, <2>3, <2>4, <2>5
<1>5. session'.demandAmplitude \in {NoAmplitude} \cup Headcounts
  <2>1. CASE session'.demandAmplitude = session.demandAmplitude
    BY <2>1 DEF TypesInv
  <2>2. CASE Finishing
    <3>0. PICK i \in DOMAIN jobs : \E outcome : session' = Settled(session, jobs[i], outcome)
      BY <2>2 DEF Finishing
    <3>1. PICK outcome : session' = Settled(session, jobs[i], outcome)
      BY <3>0
    <3> DEFINE job == jobs[i]
    <3>2. job.base \in Headcounts
      BY DEF TypesInv
    <3>3. session' = Settled(session, job, outcome)
      BY <3>1
    <3> HIDE DEF job
    <3>4. Settled(session, job, outcome).demandAmplitude = job.base
      BY <1>1, SettledBlackouts
    <3> QED
      BY <3>2, <3>3, <3>4
  <2> QED
    BY <1>1, <2>1, <2>2, EveryStepOfTheRoom DEF RoomKept, RoomFields
<1>6. \A i \in DOMAIN jobs' : jobs'[i].base \in Headcounts
  <2>1. CASE jobs' = <<>>
    BY <2>1
  <2>2. CASE jobs' = jobs
    BY <2>2 DEF TypesInv
  <2>3. CASE jobs = <<>> /\ StartSettlement
    <3> DEFINE job == JobOf(session)
    <3>1. jobs' = <<job>>
      BY <2>3 DEF StartSettlement
    <3>2. job.base = BaseAmplitude(session)
      BY DEF JobOf
    <3>3. BaseAmplitude(session) \in Headcounts
      BY <1>2 DEF BaseAmplitude, TypesInv, Players
    <3> HIDE DEF job
    <3> QED
      BY <3>1, <3>2, <3>3
  <2> QED
    BY <1>1, <2>1, <2>2, <2>3, StepsBesideAJob, StepsWithoutAJob DEF BesideTheJob
<1>7. DOMAIN records' \subseteq TradingPeriods(MaxRounds)
  <2>1. DOMAIN records \subseteq TradingPeriods(MaxRounds)
    BY DEF TypesInv
  <2>2. ASSUME NEW i \in DOMAIN jobs, NEW outcome, WaitingFor(jobs[i]),
               records' = With(records, jobs[i].period, outcome)
        PROVE  DOMAIN records' \subseteq TradingPeriods(MaxRounds)
    <3>1. jobs[i].period = Here /\ IsTrading(Here)
      BY <1>1, <2>2, TheOnlyJob DEF WaitingFor
    <3>2. Here \in TradingPeriods(MaxRounds)
      <4>1. Here \in TradingPeriods(session.roundCount)
        BY <1>1, <3>1, WhereTheSessionIs, TradingIsAPeriod
      <4>2. session.roundCount \in Nat /\ session.roundCount <= MaxRounds /\ MaxRounds \in Nat
        BY <1>1, SessionAssumption, CatalogAssumption DEF SessionInv, PaceInv, TypeOKPace
      <4>3. 1..session.roundCount \subseteq 1..MaxRounds
        BY <4>2
      <4> QED
        BY <4>1, <4>3 DEF TradingPeriods
    <3>3. DOMAIN records' = DOMAIN records \cup {Here}
      BY <2>2, <3>1 DEF With
    <3> QED
      BY <2>1, <3>2, <3>3
  <2>3. records' = records \/ RecordAhead \/ Finishing
    BY <1>1, EveryStepOfRecords
  <2> QED
    BY <2>1, <2>2, <2>3 DEF RecordAhead, Finishing
<1>8. timeUp' \in BOOLEAN
  BY TimeIsTyped DEF TypesInv
<1> QED
  BY <1>3, <1>4, <1>5, <1>6, <1>7, <1>8 DEF TypesInv

\* A loan's Round and payments.
LEMMA LoansAreTyped ==
    ASSUME SessionInv, NEW loan, loan = NoLoan \/ OnSchedule(loan, Here, session.roundCount)
    PROVE  loan \in [round: 0..MaxRounds, made: 0..LOAN_PAYMENTS]
<1> DEFINE n == session.roundCount
           now == CurrentRound(Here, n)
<1>1. n \in Nat \ {0} /\ Here \in AllCheckpoints(n)
  BY WhereTheSessionIs
<1>2. n <= MaxRounds /\ MaxRounds \in Nat
  BY SessionAssumption, CatalogAssumption DEF SessionInv, PaceInv, TypeOKPace
<1>3. CASE loan = NoLoan
  BY <1>2, <1>3 DEF NoLoan, LOAN_PAYMENTS
<1>4. CASE OnSchedule(loan, Here, n)
  <2>1. now \in Int
    BY <1>1, CheckpointKinds
    DEF CurrentRound, NotStarted, Finished, Investment, TradingPeriod, Recap
  <2>2. PICK r \in 1..(n - 1) :
           /\ r <= now
           /\ loan = [round |-> r, made |-> IF Here = Finished THEN LOAN_PAYMENTS
                                            ELSE Least(LOAN_PAYMENTS, now - r)]
    BY <1>4 DEF OnSchedule
  <2> HIDE DEF now
  <2>3. r \in 0..MaxRounds
    BY <1>1, <1>2
  <2>4. now - r \in Nat
    BY <2>1, <2>2
  <2> DEFINE k == now - r
  <2>5. k \in Nat
    BY <2>4
  <2> HIDE DEF k
  <2>6. Least(LOAN_PAYMENTS, k) \in 0..LOAN_PAYMENTS /\ LOAN_PAYMENTS \in 0..LOAN_PAYMENTS
    BY <2>5 DEF Least, LOAN_PAYMENTS
  <2> QED
    BY <2>2, <2>3, <2>6 DEF k
<1> QED
  BY <1>3, <1>4

\* The session, its file and what is kept beside them hold what their types say, every plan
\* valid, in every session (WorkshopSession, WorkshopPlayer).
THEOREM TypesAlwaysHold == Spec => []TypeOK
<1>1. WellKept /\ TypesInv => TypeOK
  <2> SUFFICES ASSUME WellKept, TypesInv PROVE TypeOK
    OBVIOUS
  <2> USE DEF WellKept, SettledWell
  <2>1. \A p \in Players : TypeOKPlayer(session.players[p])
    <3> SUFFICES ASSUME NEW p \in Players PROVE TypeOKPlayer(session.players[p])
      OBVIOUS
    <3> DEFINE x == session.players[p]
    <3>1. x.money \in Int /\ x.purchases \in [Facilities -> [Rounds -> Nat]]
      BY DEF MoneyInv, InOrder, IsAccount
    <3>2. /\ x.owned \in [Facilities -> [Rounds -> Nat]]
          /\ x.selection \in [Facilities -> Nat]
      BY DEF OffersInv, RightlyHas
    <3>3. x.stored \in [Facilities -> Nat]
      BY DEF StorageInv
    <3>4. x.fuelStock \in [Fuels -> Nat] /\ x.fuelOrder \in [Fuels -> Nat]
      BY DEF FuelInv, FuelBooks
    <3>5. x.prices \in [PriceKeys -> PRICE_FLOOR..PRICE_CEILING]
      BY DEF TypesInv, PriceLists
    <3>6. x.loan \in [round: 0..MaxRounds, made: 0..LOAN_PAYMENTS]
      BY LoansAreTyped DEF LoanInv
    <3> HIDE DEF x
    <3> QED
      BY <3>1, <3>2, <3>3, <3>4, <3>5, <3>6 DEF TypeOKPlayer, x
  <2>2. TypeOKPace(session)
    BY DEF SessionInv, PaceInv
  <2>3. /\ DOMAIN session.plans = 1..session.roundCount
        /\ \A r \in DOMAIN session.plans : /\ session.plans[r].levers \in Levers
                                           /\ ValidLevers(session.plans[r].levers)
    <3> DEFINE plans == session.plans
               P     == Plans
               n     == session.roundCount
    <3>1. plans \in Seq(P) /\ Len(plans) = n
      BY DEF PlansInv
    <3> HIDE DEF plans, P, n
    <3>2. DOMAIN plans = 1..n /\ \A r \in DOMAIN plans : plans[r] \in P
      BY <3>1
    <3>3. \A q \in P : q.levers \in Levers /\ ValidLevers(q.levers)
      BY Zenon DEF P, Plans
    <3> QED
      BY <3>2, <3>3 DEF plans, n
  <2>4. TypeOKSession(session)
    <3>1. DOMAIN session.players \subseteq Admitted
      BY DEF MoneyInv, Players
    <3>2. DOMAIN session.ballots \subseteq DOMAIN session.players
      BY DEF TypesInv, Players
    <3>3. session.demandAmplitude \in {NoAmplitude} \cup 0..Cardinality(Admitted)
      BY DEF TypesInv, Headcounts
    <3> QED
      BY <2>1, <2>2, <2>3, <3>1, <3>2, <3>3 DEF TypeOKSession, Players
  <2>5. TypeOKSession(file)
    BY <2>4 DEF SessionInv, Sound
  <2>6. settlement \in {NoPeriod} \cup TradingPeriods(MaxRounds)
    <3>1. CASE jobs = <<>>
      BY <3>1 DEF SessionInv, JobInv
    <3>2. CASE jobs # <<>>
      <4>1. PICK job : jobs = <<job>> /\ settlement = job.period /\ IsTrading(job.period)
        BY <3>2 DEF SessionInv, JobInv
      <4>2. 1 \in DOMAIN jobs /\ jobs[1] = job
        BY <4>1
      <4>3. settlement = Here /\ IsTrading(Here)
        BY <4>1, <4>2 DEF SettlingInv, WaitingFor
      <4>4. Here \in TradingPeriods(session.roundCount)
        BY <4>3, WhereTheSessionIs, TradingIsAPeriod
      <4>5. session.roundCount \in Nat /\ session.roundCount <= MaxRounds /\ MaxRounds \in Nat
        BY SessionAssumption, CatalogAssumption DEF SessionInv, PaceInv, TypeOKPace
      <4>6. 1..session.roundCount \subseteq 1..MaxRounds
        BY <4>5
      <4> QED
        BY <4>3, <4>4, <4>6 DEF TradingPeriods
    <3> QED
      BY <3>1, <3>2
  <2> QED
    BY <2>4, <2>5, <2>6 DEF TypeOK, TypesInv
<1>2. Init => TypesInv
  <2> SUFFICES ASSUME Init PROVE TypesInv
    OBVIOUS
  <2>1. session = NewSession /\ jobs = <<>> /\ records = Nobody /\ timeUp = FALSE
    BY DEF Init
  <2>2. /\ Players = {}
        /\ session.ballots = Nobody
        /\ session.demandAmplitude = NoAmplitude
        /\ DOMAIN Nobody = {}
    BY <2>1 DEF NewSession, Nobody, Players
  <2>3. DOMAIN jobs = {}
    BY <2>1
  <2> QED
    BY <2>1, <2>2, <2>3 DEF TypesInv
<1>3. WellKept /\ TypesInv /\ [Next]_vars => TypesInv'
  BY TypesInvKept
<1> QED
  BY <1>1, <1>2, <1>3, WellKeptHolds, PTL DEF Spec

-----------------------------------------------------------------------------
(***************************************************************************)
(* Cash, explained.  Of a player: what they spent on the fleet, what their *)
(* results brought in, and what their loan has so far.                     *)
(***************************************************************************)
SpentOn(purchases) == SumFunction([f \in Facilities |-> SumFunction(purchases[f])])
EarnedIn(results) == SumFunction([i \in DOMAIN results |-> results[i].profit - results[i].tax])
LentBy(loan) == IF loan = NoLoan THEN 0 ELSE LOAN_AMOUNT - loan.made * LOAN_PAYMENT

\* What an account leaves unexplained, as its properties state it (SessionProperties).
LEMMA UnexplainedIs ==
    ASSUME NEW x
    PROVE  Unexplained(x) = x.money + SpentOn(x.purchases) - EarnedIn(x.results) - LentBy(x.loan)
BY Zenon DEF Unexplained, Sum, SpentOn, EarnedIn, LentBy

\* What was spent in all is an amount.
LEMMA SpendingIsTyped ==
    ASSUME NEW purchases \in [Facilities -> [Rounds -> Nat]]
    PROVE  /\ \A f \in Facilities : SumFunction(purchases[f]) \in Nat
           /\ SpentOn(purchases) \in Nat
<1>1. ASSUME NEW f \in Facilities PROVE SumFunction(purchases[f]) \in Nat
  <2> DEFINE g == purchases[f]
  <2>1. DOMAIN g = Rounds /\ \A r \in Rounds : g[r] \in Nat
    OBVIOUS
  <2>2. IsFiniteSet(Rounds)
    BY FS_Interval, CatalogAssumption DEF Rounds
  <2> HIDE DEF g
  <2>3. SumFunctionOnSet(g, Rounds) \in Nat
    BY <2>1, <2>2, SumOfNaturals
  <2> QED
    BY <2>1, <2>3 DEF SumFunction, g
<1> DEFINE h == [f \in Facilities |-> SumFunction(purchases[f])]
<1>2. \A f \in Facilities : h[f] \in Nat
  BY <1>1
<1>3. SpentOn(purchases) = SumFunctionOnSet(h, Facilities)
  BY DEF SpentOn, SumFunction
<1> HIDE DEF h
<1>4. SumFunctionOnSet(h, Facilities) \in Nat
  BY <1>2, SumOfNaturals, CatalogAssumption
<1> QED
  BY <1>1, <1>3, <1>4

Spending(purchases, paid, selection, price, r) ==
    paid = [f \in Facilities |-> [purchases[f] EXCEPT ![r] = @ + selection[f] * price[f]]]

\* A purchase is spending, in one Round and on each type, of what the selection costs.
LEMMA PurchasesAreSpending ==
    ASSUME NEW purchases \in [Facilities -> [Rounds -> Nat]],
           NEW selection \in [Facilities -> Nat], NEW price \in [Facilities -> Nat],
           NEW r \in Rounds, NEW paid, Spending(purchases, paid, selection, price, r)
    PROVE  SpentOn(paid) = SpentOn(purchases) + SelectionCost(selection, price)
<1> DEFINE cost == [f \in Facilities |-> selection[f] * price[f]]
           g == [f \in Facilities |-> SumFunction(purchases[f])]
           h == [f \in Facilities |-> SumFunction(paid[f])]
<1>1. ASSUME NEW f \in Facilities
      PROVE  cost[f] \in Nat /\ g[f] \in Int /\ h[f] = g[f] + cost[f]
  <2> DEFINE had  == purchases[f]
             has  == paid[f]
             more == selection[f] * price[f]
  <2>1. more \in Nat
    <3>1. selection[f] \in Nat /\ price[f] \in Nat
      OBVIOUS
    <3> QED
      BY <3>1
  <2>2. had \in [Rounds -> Nat] /\ has = [had EXCEPT ![r] = @ + more]
    BY DEF Spending
  <2>3. g[f] \in Int /\ g[f] = SumFunction(had) /\ h[f] = SumFunction(has) /\ cost[f] = more
    BY SpendingIsTyped
  <2> HIDE DEF had, has, more, g, h, cost
  <2>4. /\ DOMAIN had = Rounds /\ DOMAIN has = Rounds
        /\ \A b \in Rounds : had[b] \in Int
        /\ \A b \in Rounds \ {r} : has[b] = had[b]
        /\ has[r] = had[r] + more
    BY <2>2
  <2>5. \A b \in Rounds : had[b] \in Int /\ has[b] \in Int
    BY <2>1, <2>4
  <2>6. IsFiniteSet(Rounds)
    BY FS_Interval, CatalogAssumption DEF Rounds
  <2>7. SumFunctionOnSet(has, Rounds) = SumFunctionOnSet(had, Rounds) + has[r] - had[r]
    BY <2>4, <2>5, <2>6, SumChange
  <2>8. SumFunctionOnSet(had, Rounds) \in Int
    BY <2>5, <2>6, SumStep
  <2>9. SumFunctionOnSet(has, Rounds) = SumFunctionOnSet(had, Rounds) + more
    BY <2>1, <2>4, <2>5, <2>7, <2>8
  <2> QED
    BY <2>1, <2>3, <2>4, <2>9 DEF SumFunction
<1>2. /\ SelectionCost(selection, price) = SumFunctionOnSet(cost, Facilities)
      /\ SpentOn(purchases) = SumFunctionOnSet(g, Facilities)
      /\ SpentOn(paid) = SumFunctionOnSet(h, Facilities)
  BY DEF SelectionCost, SpentOn, SumFunction
<1> HIDE DEF cost, g, h
<1>3. \A f \in Facilities : cost[f] \in Int
  BY <1>1
<1>4. SumFunctionOnSet(h, Facilities)
        = SumFunctionOnSet(g, Facilities) + SumFunctionOnSet(cost, Facilities)
  BY <1>1, <1>3, SumOfSums, CatalogAssumption
<1> QED
  BY <1>2, <1>4

\* What results bring in is an amount or a debt.
LEMMA EarningIsTyped ==
    ASSUME NEW n \in Nat, NEW results, DOMAIN results = 1..n,
           \A i \in 1..n : results[i].profit \in Int /\ results[i].tax \in Int
    PROVE  EarnedIn(results) \in Int
<1> DEFINE g == [i \in DOMAIN results |-> results[i].profit - results[i].tax]
<1>1. DOMAIN g = 1..n /\ \A i \in 1..n : g[i] \in Int
  <2>1. ASSUME NEW i \in 1..n PROVE g[i] \in Int
    <3>1. results[i].profit \in Int /\ results[i].tax \in Int
      OBVIOUS
    <3> QED
      BY <3>1
  <2> QED
    BY <2>1
<1>2. EarnedIn(results) = SumFunction(g)
  BY DEF EarnedIn
<1> HIDE DEF g
<1>3. IsFiniteSet(1..n)
  BY FS_Interval
<1>4. SumFunctionOnSet(g, 1..n) \in Int
  BY <1>1, <1>3, SumStep
<1> QED
  BY <1>1, <1>2, <1>4 DEF SumFunction

\* A result more brings in its profit less its tax.
LEMMA ResultsAreEarnings ==
    ASSUME NEW n \in Nat, NEW before, before = [i \in 1..n |-> before[i]],
           \A i \in 1..n : before[i].profit \in Int /\ before[i].tax \in Int,
           NEW result, result.profit \in Int, result.tax \in Int,
           NEW after, after = Append(before, result)
    PROVE  EarnedIn(after) = EarnedIn(before) + result.profit - result.tax
<1>1. /\ after = [i \in 1..(n + 1) |-> after[i]]
      /\ \A i \in 1..n : after[i] = before[i]
      /\ after[n + 1] = result
  BY AppendKeeps
<1> DEFINE g == [i \in DOMAIN before |-> before[i].profit - before[i].tax]
           h == [i \in DOMAIN after |-> after[i].profit - after[i].tax]
<1>2. DOMAIN g = 1..n /\ DOMAIN h = 1..(n + 1)
  BY <1>1
<1>3. ASSUME NEW i \in 1..n PROVE g[i] \in Int /\ h[i] = g[i]
  <2>1. i \in DOMAIN before /\ i \in DOMAIN after
    BY <1>1
  <2>2. g[i] = before[i].profit - before[i].tax /\ h[i] = after[i].profit - after[i].tax
    BY <2>1
  <2>3. before[i].profit \in Int /\ before[i].tax \in Int
    OBVIOUS
  <2>4. after[i] = before[i]
    BY <1>1
  <2> QED
    BY <2>2, <2>3, <2>4
<1>4. h[n + 1] = result.profit - result.tax
  <2>1. n + 1 \in DOMAIN after
    BY <1>2
  <2> QED
    BY <1>1, <2>1
<1>5. h[n + 1] \in Int
  BY <1>4
<1>6. EarnedIn(before) = SumFunction(g) /\ EarnedIn(after) = SumFunction(h)
  BY DEF EarnedIn
<1> HIDE DEF g, h
<1>7. SumFunction(g) \in Int /\ SumFunction(h) = SumFunction(g) + h[n + 1]
  BY <1>2, <1>3, <1>5, SumOneMore
<1> QED
  BY <1>4, <1>6, <1>7

\* An account without a cost is explained by amounts.
LEMMA AccountsAreAmounts ==
    ASSUME NEW x, IsAccount(x), x.loan = NoLoan \/ x.loan.made \in Int
    PROVE  /\ x.money \in Int /\ SpentOn(x.purchases) \in Int
           /\ EarnedIn(x.results) \in Int /\ LentBy(x.loan) \in Int
           /\ Unexplained(x) \in Int
<1>1. x.money \in Int /\ SpentOn(x.purchases) \in Int
  BY SpendingIsTyped DEF IsAccount
<1>2. EarnedIn(x.results) \in Int
  <2> DEFINE results == x.results
  <2>1. PICK n \in Nat : results = [i \in 1..n |-> results[i]]
    BY DEF IsAccount
  <2>2. \A i \in DOMAIN results : results[i].profit \in Int /\ results[i].tax \in Int
    BY DEF IsAccount
  <2> HIDE DEF results
  <2>3. DOMAIN results = 1..n
    BY <2>1
  <2> QED
    BY <2>2, <2>3, EarningIsTyped DEF results
<1>3. LentBy(x.loan) \in Int
  BY DEF LentBy, LOAN_AMOUNT, LOAN_PAYMENT
<1>4. Unexplained(x) = x.money + SpentOn(x.purchases) - EarnedIn(x.results) - LentBy(x.loan)
  BY UnexplainedIs
<1> QED
  BY <1>1, <1>2, <1>3, <1>4

\* Choosing what to buy, or doing nothing, leaves nothing more unexplained.
LEMMA ChoosingIsExplained ==
    ASSUME NEW x, NEW y, SameBut(x, y, {}) \/ SameBut(x, y, {"selection"})
    PROVE  Unexplained(y) = Unexplained(x)
<1>1. /\ y.money = x.money /\ y.purchases = x.purchases
      /\ y.results = x.results /\ y.loan = x.loan
  BY DEF SameBut, AccountFields
<1> QED
  BY <1>1, UnexplainedIs

\* Neither does borrowing, nor giving the loan back in the Round it was taken in: no
\* payment has been made by then (take_loan, cancel_loan).
LEMMA BorrowingIsExplained ==
    ASSUME SessionInv, NEW x, IsAccount(x),
           x.loan = NoLoan \/ OnSchedule(x.loan, Here, session.roundCount),
           NEW y, Borrowing(x, y)
    PROVE  Unexplained(y) = Unexplained(x)
<1>1. /\ y.purchases = x.purchases /\ y.results = x.results
  BY DEF Borrowing, SameBut, AccountFields
<1>2. IsInvestment(Here)
  BY DEF Borrowing
<1>3. Here.round \in Nat \ {0} /\ CurrentRound(Here, session.roundCount) = Here.round /\ Here # Finished
  <2>1. session.roundCount \in Nat \ {0} /\ Here \in AllCheckpoints(session.roundCount)
    BY WhereTheSessionIs
  <2>2. PICK r \in 1..session.roundCount : Here = Investment(r)
    BY <1>2, <2>1, CheckpointKinds DEF IsInvestment, NotStarted, TradingPeriod, Recap, Finished
  <2> QED
    BY <2>2 DEF CurrentRound, Investment, Finished
<1>4. x.loan = NoLoan \/ x.loan.made \in Int
  BY PaymentsAreCounted
<1>5. /\ x.money \in Int /\ SpentOn(x.purchases) \in Int /\ EarnedIn(x.results) \in Int
  BY <1>4, AccountsAreAmounts
<1>6. LentBy(NoLoan) = 0
  BY DEF LentBy
<1>7. CASE x.loan = NoLoan /\ y.loan = Loan(Here.round) /\ y.money = x.money + LOAN_AMOUNT
  <2>1. Loan(Here.round) # NoLoan /\ Loan(Here.round).made = 0
    BY <1>3 DEF Loan, NoLoan
  <2>2. LentBy(y.loan) = LOAN_AMOUNT /\ LOAN_AMOUNT \in Int
    BY <1>7, <2>1 DEF LentBy, LOAN_AMOUNT, LOAN_PAYMENT
  <2> QED
    BY <1>1, <1>5, <1>6, <1>7, <2>2, UnexplainedIs
<1>8. CASE /\ x.loan # NoLoan /\ x.loan.round = Here.round
           /\ y.loan = NoLoan /\ y.money = x.money - LOAN_AMOUNT
  <2>1. x.loan.made = 0
    <3>1. PICK r \in 1..(session.roundCount - 1) :
             x.loan = [round |-> r, made |-> IF Here = Finished THEN LOAN_PAYMENTS
                          ELSE Least(LOAN_PAYMENTS, CurrentRound(Here, session.roundCount) - r)]
      BY <1>8 DEF OnSchedule
    <3>2. x.loan.round = r /\ x.loan.made = Least(LOAN_PAYMENTS, Here.round - r)
      BY <1>3, <3>1
    <3>3. r = Here.round /\ Here.round - r = 0
      BY <1>3, <1>8, <3>2
    <3> QED
      BY <3>2, <3>3 DEF Least, LOAN_PAYMENTS
  <2>2. LentBy(x.loan) = LOAN_AMOUNT /\ LOAN_AMOUNT \in Int
    BY <1>8, <2>1 DEF LentBy, LOAN_AMOUNT, LOAN_PAYMENT
  <2> QED
    BY <1>1, <1>5, <1>6, <1>8, <2>2, UnexplainedIs
<1> QED
  BY <1>7, <1>8 DEF Borrowing

\* Neither does the purchase: it is spending (_apply_purchases).
LEMMA PayingIsExplained ==
    ASSUME SessionInv, RoomInv, IsInvestment(Here), NEW x, IsAccount(x),
           x.selection \in [Facilities -> Nat], x.loan = NoLoan \/ x.loan.made \in Int,
           NEW y, PaidFor(x, y, session, Here.round)
    PROVE  Unexplained(y) = Unexplained(x)
<1> DEFINE price == FacilityPrices(session, Here.round)
           cost  == SelectionCost(x.selection, price)
<1>1. /\ y.money = x.money - cost
      /\ y.purchases = [f \in Facilities |-> [x.purchases[f] EXCEPT
                                                ![Here.round] = @ + x.selection[f] * price[f]]]
      /\ y.results = x.results /\ y.loan = x.loan
  BY DEF PaidFor, SameBut, AccountFields
<1>2. price \in [Facilities -> Nat]
  BY FacilityPricesAreNat DEF RoomInv
<1>3. Here.round \in Rounds
  <2>1. /\ session.roundCount \in Nat \ {0} /\ session.roundCount <= MaxRounds
        /\ Here \in AllCheckpoints(session.roundCount)
    BY WhereTheSessionIs DEF SessionInv, PaceInv, TypeOKPace
  <2>2. PICK r \in 1..session.roundCount : Here = Investment(r)
    BY <2>1, CheckpointKinds DEF IsInvestment, NotStarted, TradingPeriod, Recap, Finished
  <2>3. Here.round = r
    BY <2>2 DEF Investment
  <2> QED
    BY <2>1, <2>3, CatalogAssumption DEF Rounds
<1> HIDE DEF price
<1>4. cost \in Nat
  BY <1>2, SelectionCostIsNat
<1>5. SpentOn(y.purchases) = SpentOn(x.purchases) + cost
  <2>1. x.purchases \in [Facilities -> [Rounds -> Nat]]
    BY DEF IsAccount
  <2> DEFINE had  == x.purchases
             sel  == x.selection
             paid == y.purchases
             r    == Here.round
  <2>2. Spending(had, paid, sel, price, r)
    BY <1>1, Zenon DEF Spending
  <2>3. had \in [Facilities -> [Rounds -> Nat]] /\ sel \in [Facilities -> Nat] /\ r \in Rounds
    BY <1>3, <2>1
  <2> HIDE DEF had, sel, paid, r, cost
  <2>4. SpentOn(paid) = SpentOn(had) + SelectionCost(sel, price)
    BY <1>2, <2>2, <2>3, PurchasesAreSpending
  <2> QED
    BY <2>4 DEF had, sel, paid, cost
<1>6. /\ x.money \in Int /\ SpentOn(x.purchases) \in Int /\ EarnedIn(x.results) \in Int
      /\ LentBy(x.loan) \in Int
  BY AccountsAreAmounts
<1> HIDE DEF cost
<1> QED
  BY <1>1, <1>4, <1>5, <1>6, UnexplainedIs

\* Neither do a loan's payments: what they leave unexplained is what else moves the cash
\* of the player who makes them (collect_loan_payments).
LEMMA PaymentsAreExplained ==
    ASSUME SessionInv, NEW x, IsAccount(x),
           x.loan = NoLoan \/ OnSchedule(x.loan, Here, session.roundCount), NEW r, NEW more \in Int,
           NEW y, y.money = x.money - Owed(x.loan, r) + more, y.loan = Paid(x.loan, r),
           SameBut(x, y, {"money", "loan"})
    PROVE  Unexplained(y) = Unexplained(x) + more
<1>1. y.purchases = x.purchases /\ y.results = x.results
  BY DEF SameBut, AccountFields
<1>0. x.loan = NoLoan \/ x.loan.made \in Int
  BY PaymentsAreCounted
<1>2. /\ x.money \in Int /\ SpentOn(x.purchases) \in Int /\ EarnedIn(x.results) \in Int
      /\ LentBy(x.loan) \in Int
  BY <1>0, AccountsAreAmounts
<1>3. Owed(x.loan, r) \in Int
  BY <1>0, OwedIsNat
<1>4. LentBy(y.loan) = LentBy(x.loan) - Owed(x.loan, r)
  <2>1. CASE x.loan = NoLoan
    BY <2>1 DEF Paid, LentBy, Owed
  <2>2. CASE x.loan # NoLoan
    <3> DEFINE due == PaymentsDue(x.loan, r)
    <3>1. PICK b \in 1..(session.roundCount - 1) : \E m : x.loan = [round |-> b, made |-> m]
      BY <2>2 DEF OnSchedule
    <3>2. PICK m : x.loan = [round |-> b, made |-> m]
      BY <3>1
    <3>3. m \in Int /\ due \in Nat
      BY <1>0, <2>2, <3>2, DueIsNat
    <3>4. y.loan = [round |-> b, made |-> m + due]
      BY <2>2, <3>2 DEF Paid
    <3>5. y.loan # NoLoan
      BY <3>4 DEF NoLoan
    <3>6. Owed(x.loan, r) = due * LOAN_PAYMENT
      BY <2>2 DEF Owed
    <3> HIDE DEF due
    <3>7. LentBy(x.loan) = 50 - m * 35 /\ LentBy(y.loan) = 50 - (m + due) * 35
      BY <2>2, <3>2, <3>4, <3>5 DEF LentBy, LOAN_AMOUNT, LOAN_PAYMENT
    <3>8. (m + due) * 35 = m * 35 + due * 35
      BY <3>3
    <3> QED
      BY <3>3, <3>6, <3>7, <3>8 DEF LOAN_PAYMENT
  <2> QED
    BY <2>1, <2>2
<1> QED
  BY <1>1, <1>2, <1>3, <1>4, UnexplainedIs

\* What an advance leaves unexplained: the top-up to the floor at a later Round's start, or
\* a Round's blackouts (_apply_round_start_money, _charge_blackout_cost).
LEMMA AdvancingIsExplained ==
    ASSUME SessionInv, RoomInv, Here # Finished, NEW x, IsAccount(x),
           x.selection \in [Facilities -> Nat],
           x.loan = NoLoan \/ OnSchedule(x.loan, Here, session.roundCount),
           NEW y, AccountMoved(x, y, session, NextHere)
    PROVE  \/ Unexplained(y) = Unexplained(x)
           \/ /\ Unexplained(y) > Unexplained(x)
              /\ IsRecap(Here) /\ IsInvestment(NextHere)
              /\ y.money = WORKSHOP_CASH_FLOOR
           \/ /\ Unexplained(y) < Unexplained(x)
              /\ IsTrading(Here) /\ IsRecap(NextHere)
              /\ BlackoutsIn(session, Here.round) > 0
<1> DEFINE c == NextHere
           n == session.roundCount
<1>1. n \in Nat \ {0} /\ Here \in AllCheckpoints(n)
  BY WhereTheSessionIs
<1>2. /\ Here = NotStarted => c = Investment(1)
      /\ IsRecap(c) => IsTrading(Here) /\ c = Recap(Here.round)
      /\ IsInvestment(c) => Here = NotStarted \/ IsRecap(Here)
  <2>1. CASE Here = NotStarted
    BY <2>1 DEF NextHere, NextCheckpoint, IsInvestment, IsTrading, IsRecap, NotStarted, Investment
  <2>2. CASE \E r \in 1..n : Here = Investment(r)
    BY <2>2 DEF NextHere, NextCheckpoint, IsInvestment, IsTrading, IsRecap, NotStarted,
                Investment, TradingPeriod
  <2>3. CASE \E r \in 1..n, t \in Seasons : Here = TradingPeriod(r, t)
    BY <2>3 DEF NextHere, NextCheckpoint, IsInvestment, IsTrading, IsRecap, NotStarted,
                TradingPeriod, Recap
  <2>4. CASE \E r \in 1..n : Here = Recap(r)
    BY <2>4 DEF NextHere, NextCheckpoint, IsInvestment, IsTrading, IsRecap, NotStarted, Recap,
                Investment, Finished
  <2> QED
    BY <1>1, <2>1, <2>2, <2>3, <2>4, CheckpointKinds
<1>3. x.loan = NoLoan \/ x.loan.made \in Int
  BY PaymentsAreCounted
<1>4. x.money \in Int /\ Unexplained(x) \in Int
  BY <1>3, AccountsAreAmounts
<1> HIDE DEF c
<1>5. CASE IsInvestment(Here)
  <2>1. PaidFor(x, y, session, Here.round)
    BY <1>5 DEF AccountMoved, Here
  <2> QED
    BY <1>3, <1>5, <2>1, PayingIsExplained
<1>6. CASE ~IsInvestment(Here) /\ IsInvestment(c) /\ c.round = 1
  <2>1. SameBut(x, y, {})
    BY <1>6 DEF AccountMoved, StartedRound, Here, c
  <2> QED
    BY <2>1, ChoosingIsExplained
<1>7. CASE ~IsInvestment(Here) /\ IsInvestment(c) /\ c.round # 1
  <2> DEFINE owed == Owed(x.loan, c.round)
             left == x.money - owed
             more == RoundStartMoney(left) - left
  <2>1. owed \in Nat
    BY <1>3, OwedIsNat
  <2>2. /\ y.money = RoundStartMoney(left) /\ y.loan = Paid(x.loan, c.round)
        /\ SameBut(x, y, {"money", "loan"})
    BY <1>7 DEF AccountMoved, StartedRound, Here, c
  <2>3. left \in Int
    BY <1>4, <2>1
  <2>4. IsRecap(Here)
    BY <1>2, <1>7 DEF Investment
  <2> HIDE DEF owed
  <2>5. left = x.money - owed
    OBVIOUS
  <2> HIDE DEF left
  <2>6. \/ more = 0
        \/ more > 0 /\ RoundStartMoney(left) = WORKSHOP_CASH_FLOOR
    BY <2>3 DEF RoundStartMoney, WORKSHOP_CASH_FLOOR
  <2>7. more \in Int /\ y.money = left + more
    BY <2>2, <2>3 DEF RoundStartMoney, WORKSHOP_CASH_FLOOR
  <2> HIDE DEF more
  <2>8. y.money = x.money - owed + more
    BY <2>5, <2>7
  <2>9. Unexplained(y) = Unexplained(x) + more
    BY <2>2, <2>7, <2>8, PaymentsAreExplained DEF owed
  <2>10. Unexplained(y) = Unexplained(x) \/ Unexplained(y) > Unexplained(x)
    BY <1>4, <2>6, <2>7, <2>9
  <2>11. Unexplained(y) = Unexplained(x) \/ y.money = WORKSHOP_CASH_FLOOR
    BY <1>4, <2>2, <2>6, <2>7, <2>9
  <2> QED
    BY <1>7, <2>4, <2>10, <2>11 DEF c
<1>8. CASE ~IsInvestment(Here) /\ ~IsInvestment(c) /\ c = Finished
  <2> DEFINE owed == Owed(x.loan, n + 1)
  <2>1. owed \in Nat
    BY <1>3, OwedIsNat
  <2>2. /\ y.money = x.money - owed /\ y.loan = Paid(x.loan, n + 1)
        /\ SameBut(x, y, {"money", "loan"})
    BY <1>8 DEF AccountMoved, PaidOff, Here, c
  <2> HIDE DEF owed
  <2>3. y.money = x.money - owed + 0 /\ 0 \in Int
    BY <1>4, <2>1, <2>2
  <2>4. Unexplained(y) = Unexplained(x) + 0
    BY <2>2, <2>3, PaymentsAreExplained DEF owed
  <2> QED
    BY <1>4, <2>4
<1>9. CASE ~IsInvestment(Here) /\ ~IsInvestment(c) /\ c # Finished /\ IsRecap(c)
  <2> DEFINE k    == BlackoutsIn(session, c.round)
             made == ProfitIn(x, c.round)
             cost == BlackoutCost(made, k)
  <2>1. made \in Int /\ k \in Nat
    BY RoundsResultsTyped DEF RoomInv
  <2>2. y.money = x.money - cost /\ SameBut(x, y, {"money"})
    BY <1>9 DEF AccountMoved, WentDark, Here, c
  <2>3. IsTrading(Here) /\ c.round = Here.round
    BY <1>2, <1>9 DEF Recap
  <2>4. cost \in Nat /\ (k = 0 => cost = 0)
    <3> HIDE DEF k, made
    <3> QED
      BY <2>1, BlackoutsCost
  <2>5. y.purchases = x.purchases /\ y.results = x.results /\ y.loan = x.loan
    BY <2>2 DEF SameBut, AccountFields
  <2>6. /\ SpentOn(x.purchases) \in Int /\ EarnedIn(x.results) \in Int /\ LentBy(x.loan) \in Int
    BY <1>3, AccountsAreAmounts
  <2> HIDE DEF cost
  <2>7. Unexplained(y) = Unexplained(x) - cost
    BY <1>4, <2>2, <2>4, <2>5, <2>6, UnexplainedIs
  <2>8. CASE cost = 0
    BY <1>4, <2>7, <2>8
  <2>9. CASE cost # 0
    <3>1. Unexplained(y) < Unexplained(x)
      BY <1>4, <2>4, <2>7, <2>9
    <3>2. k > 0
      <4> HIDE DEF k
      <4> QED
        BY <2>1, <2>4, <2>9
    <3> QED
      BY <1>9, <2>3, <3>1, <3>2 DEF c
  <2> QED
    BY <2>8, <2>9
<1>10. CASE ~IsInvestment(Here) /\ ~IsInvestment(c) /\ c # Finished /\ ~IsRecap(c)
  <2>1. SameBut(x, y, {})
    BY <1>10 DEF AccountMoved, Here, c
  <2> QED
    BY <2>1, ChoosingIsExplained
<1> QED
  BY <1>5, <1>6, <1>7, <1>8, <1>9, <1>10

\* No step leaves more unexplained of a player than that: CashExplained, step by step.
LEMMA CashIsExplained ==
    ASSUME WellKept, [Next]_vars, NEW p \in Players \cap DOMAIN session'.players
    PROVE  LET before == Unexplained(session.players[p])
               after  == Unexplained(session'.players[p])
           IN  \/ after = before
               \/ /\ after > before
                  /\ IsRecap(Here) /\ IsInvestment(Here')
                  /\ session'.players[p].money = WORKSHOP_CASH_FLOOR
               \/ /\ after < before
                  /\ IsTrading(Here) /\ IsRecap(Here')
                  /\ BlackoutsIn(session, Here.round) > 0
<1> USE DEF WellKept, SettledWell
<1> DEFINE x == session.players[p]
           y == session'.players[p]
<1>1. /\ IsAccount(x) /\ x.selection \in [Facilities -> Nat]
      /\ x.loan = NoLoan \/ OnSchedule(x.loan, Here, session.roundCount)
  BY DEF MoneyInv, InOrder, OffersInv, RightlyHas, LoanInv
<1>2. CashIsTyped
  BY DEF CashIsTyped, MoneyInv, InOrder, IsAccount
<1>3. AccountsRest \/ AccountsTurn \/ Finishing
  BY <1>2, EveryStepOfAccounts DEF SessionInv
<1>4. x.loan = NoLoan \/ x.loan.made \in Int
  BY <1>1, PaymentsAreCounted
<1>5. CASE AccountsRest
  <2>1. \/ SameBut(x, y, {}) \/ Choosing(x, y) \/ Borrowing(x, y)
        \/ IsInvestment(Here) /\ PaidFor(x, y, session, Here.round)
    BY <1>5 DEF AccountsRest
  <2> HIDE DEF x, y
  <2>2. Choosing(x, y) => SameBut(x, y, {"selection"})
    BY DEF Choosing
  <2>3. Unexplained(y) = Unexplained(x)
    BY <1>1, <1>4, <2>1, <2>2, ChoosingIsExplained, BorrowingIsExplained, PayingIsExplained
  <2> QED
    BY <2>3 DEF x, y
<1>6. CASE AccountsTurn
  <2>1. Here # Finished /\ Here' = NextHere /\ AccountMoved(x, y, session, NextHere)
    BY <1>6 DEF AccountsTurn, AccountsMoved, Players, Here
  <2> HIDE DEF x, y
  <2>2. \/ Unexplained(y) = Unexplained(x)
        \/ /\ Unexplained(y) > Unexplained(x)
           /\ IsRecap(Here) /\ IsInvestment(NextHere)
           /\ y.money = WORKSHOP_CASH_FLOOR
        \/ /\ Unexplained(y) < Unexplained(x)
           /\ IsTrading(Here) /\ IsRecap(NextHere)
           /\ BlackoutsIn(session, Here.round) > 0
    BY <1>1, <2>1, AdvancingIsExplained
  <2>3. /\ IsInvestment(Here') = IsInvestment(NextHere)
        /\ IsRecap(Here') = IsRecap(NextHere)
    BY <2>1
  <2> QED
    BY <2>2, <2>3, Zenon DEF x, y
<1>7. CASE Finishing
  <2>1. PICK i \in DOMAIN jobs : \E outcome \in Outcomes(jobs[i]) :
          WaitingFor(jobs[i]) /\ session' = Settled(session, jobs[i], outcome)
    BY <1>7 DEF Finishing
  <2>2. PICK outcome \in Outcomes(jobs[i]) :
          WaitingFor(jobs[i]) /\ session' = Settled(session, jobs[i], outcome)
    BY <2>1
  <2>3. /\ SameBut(x, y, {"money", "results"})
        /\ SameBut(x, y, {}) \/ \E result : Earning(x, y, result)
    BY <2>2, SettlingPays
  <2> HIDE DEF x, y
  <2>4. CASE \E result : Earning(x, y, result)
    <3>1. PICK result : Earning(x, y, result)
      BY <2>4
    <3>2. y.purchases = x.purchases /\ y.loan = x.loan
      BY <2>3 DEF SameBut, AccountFields
    <3>3. /\ x.money \in Int /\ SpentOn(x.purchases) \in Int /\ EarnedIn(x.results) \in Int
          /\ LentBy(x.loan) \in Int
      BY <1>1, <1>4, AccountsAreAmounts
    <3>4. EarnedIn(y.results) = EarnedIn(x.results) + result.profit - result.tax
      <4> DEFINE before == x.results
                 after  == y.results
      <4>1. PICK n \in Nat : before = [k \in 1..n |-> before[k]]
        BY <1>1 DEF IsAccount
      <4>2. \A k \in DOMAIN before : before[k].profit \in Int /\ before[k].tax \in Int
        BY <1>1 DEF IsAccount
      <4>3. after = Append(before, result) /\ result.profit \in Int /\ result.tax \in Int
        BY <3>1 DEF Earning
      <4> HIDE DEF before, after
      <4>4. DOMAIN before = 1..n
        BY <4>1
      <4>5. EarnedIn(after) = EarnedIn(before) + result.profit - result.tax
        BY <4>1, <4>2, <4>3, <4>4, ResultsAreEarnings
      <4> QED
        BY <4>5 DEF before, after
    <3>5. /\ y.money = x.money + result.profit - result.tax
          /\ result.profit \in Int /\ result.tax \in Int
      BY <3>1 DEF Earning
    <3>6. Unexplained(y) = Unexplained(x)
      BY <3>2, <3>3, <3>4, <3>5, UnexplainedIs
    <3> QED
      BY <3>6 DEF x, y
  <2>5. CASE SameBut(x, y, {})
    <3>1. Unexplained(y) = Unexplained(x)
      BY <2>5, ChoosingIsExplained
    <3> QED
      BY <3>1 DEF x, y
  <2> QED
    BY <2>3, <2>4, <2>5
<1> QED
  BY <1>3, <1>5, <1>6, <1>7

-----------------------------------------------------------------------------
(***************************************************************************)
(* The score, part by part, of what the first `done` Rounds hold.          *)
(***************************************************************************)
ResultsDone(results, done) == { i \in DOMAIN results : results[i].period.round <= done }
EarnedBy(results, done) ==
    SumFunction([i \in ResultsDone(results, done) |-> results[i].profit - results[i].tax])
SpentBy(purchases, done) ==
    SumFunction([f \in Facilities |-> SumFunctionOnSet(purchases[f], 1..done)])
LoanCostBy(loan, done) == IF loan # NoLoan /\ loan.round <= done THEN LOAN_COST ELSE 0
Kept(owned, f, done) == { b \in 1..done : owned[f][b] > 0 }
WorthOf(owned, f, done, n) ==
    SumFunction([b \in Kept(owned, f, done) |-> owned[f][b] * ResidualValue(f, b, done, n)])
WorthBy(owned, done, n) == SumFunction([f \in Facilities |-> WorthOf(owned, f, done, n)])

\* The score is of these parts (score).
LEMMA ScoreIs ==
    ASSUME NEW s, NEW p
    PROVE  Score(s, p) = EarnedBy(s.players[p].results, Completed(s))
                           - SpentBy(s.players[p].purchases, Completed(s))
                           - LoanCostBy(s.players[p].loan, Completed(s))
                           + WorthBy(s.players[p].owned, Completed(s), s.priceRoundCount)
BY Zenon DEF Score, Sum, EarnedBy, ResultsDone, SpentBy, LoanCostBy, WorthBy, WorthOf, Kept

\* Rounds are completed as their Recaps open and at no other step: nor as Rounds are added.
LEMMA CompletedStays ==
    ASSUME SessionInv, [Next]_vars, ~(IsRecap(Here') /\ Here' # Here)
    PROVE  /\ Completed(session') = Completed(session)
           /\ Completed(session) \in 0..session.roundCount
           /\ IsInvestment(Here) \/ IsTrading(Here) => Here.round = Completed(session) + 1
           /\ Here = NotStarted => Completed(session) = 0
           /\ Here' = Here \/ (Here # Finished /\ Here' = NextHere)
           /\ Here' # Here /\ IsInvestment(Here') => Here'.round = Completed(session) + 1
<1> DEFINE n == session.roundCount
<1>1. n \in Nat \ {0} /\ Here \in AllCheckpoints(n)
  BY WhereTheSessionIs
<1>2. Still \/ PhaseStep \/ TimersStep \/ Lengthening \/ Turn \/ Settling
  BY EveryStep DEF SessionInv, PaceInv
<1>3. /\ Completed(session) = CompletedRounds(Here, n)
      /\ Completed(session') = CompletedRounds(Here', session'.roundCount)
  BY DEF Completed, Here
<1>4. /\ CompletedRounds(Here, n) \in 0..n
      /\ IsInvestment(Here) \/ IsTrading(Here) => Here.round = CompletedRounds(Here, n) + 1
      /\ Here = NotStarted => CompletedRounds(Here, n) = 0
      /\ Here # Finished => \A m : CompletedRounds(Here, m) = CompletedRounds(Here, n)
  <2>1. CASE Here = NotStarted \/ Here = Finished
    BY <1>1, <2>1 DEF CompletedRounds, IsInvestment, IsTrading, IsRecap, NotStarted, Finished
  <2>2. CASE \E r \in 1..n : Here = Investment(r)
    BY <1>1, <2>2 DEF CompletedRounds, IsInvestment, IsTrading, IsRecap, Investment, NotStarted,
                      Finished
  <2>3. CASE \E r \in 1..n, t \in Seasons : Here = TradingPeriod(r, t)
    BY <1>1, <2>3 DEF CompletedRounds, IsInvestment, IsTrading, IsRecap, TradingPeriod,
                      NotStarted, Finished
  <2>4. CASE \E r \in 1..n : Here = Recap(r)
    BY <1>1, <2>4 DEF CompletedRounds, IsInvestment, IsTrading, IsRecap, Recap, NotStarted,
                      Finished
  <2> QED
    BY <1>1, <2>1, <2>2, <2>3, <2>4, CheckpointKinds
<1>5. CASE Lengthening
  <2>1. Here' = Here /\ ~RecapOpen(Here, n)
    BY <1>5 DEF Lengthening, KeptBut, Pace, Here
  <2>2. Here # Finished
    BY <2>1 DEF RecapOpen, IsRecap, Finished
  <2> QED
    BY <1>3, <1>4, <2>1, <2>2
<1>6. CASE Turn
  <2>1. Here # Finished /\ Here' = NextCheckpoint(Here, n) /\ session'.roundCount = n
    BY <1>6 DEF Turn, KeptBut, Pace, Here, NextHere
  <2>2. Here' # Here
    BY <1>1, <2>1, NextIsAnother
  <2>3. ~IsRecap(Here')
    BY <2>2
  <2> DEFINE c == Here'
  <2>4. c = NextCheckpoint(Here, n) /\ ~IsRecap(c)
    BY <2>1, <2>3
  <2> HIDE DEF c
  <2>5. /\ CompletedRounds(c, n) = CompletedRounds(Here, n)
        /\ IsInvestment(c) => c.round = CompletedRounds(Here, n) + 1
    <3>1. CASE Here = NotStarted
      BY <2>4, <3>1 DEF CompletedRounds, NextCheckpoint, IsInvestment, IsTrading, IsRecap,
                        NotStarted, Investment
    <3>2. CASE \E r \in 1..n : Here = Investment(r)
      BY <2>4, <3>2 DEF CompletedRounds, NextCheckpoint, IsInvestment, IsTrading, IsRecap,
                        Investment, TradingPeriod
    <3>3. CASE \E r \in 1..n, t \in Seasons : Here = TradingPeriod(r, t)
      BY <2>4, <3>3 DEF CompletedRounds, NextCheckpoint, IsInvestment, IsTrading, IsRecap,
                        TradingPeriod, Recap
    <3>4. CASE \E r \in 1..n : Here = Recap(r)
      BY <1>1, <2>4, <3>4 DEF CompletedRounds, NextCheckpoint, IsInvestment, IsTrading, IsRecap,
                              Recap, Investment, Finished
    <3> QED
      BY <1>1, <2>1, <3>1, <3>2, <3>3, <3>4, CheckpointKinds
  <2>6. NextHere = c
    BY <2>4 DEF NextHere
  <2> QED
    BY <1>3, <1>4, <2>1, <2>5, <2>6 DEF c
<1>7. CASE Still \/ PhaseStep \/ TimersStep \/ Settling
  <2>1. Here' = Here /\ session'.roundCount = n
    BY <1>7 DEF Still, PaceKept, PhaseStep, TimersStep, Settling, KeptBut, Pace, Here
  <2> QED
    BY <1>3, <1>4, <2>1
<1> QED
  BY <1>2, <1>5, <1>6, <1>7

AddedTo(before, result, after) ==
    /\ \E n \in Nat : before = [i \in 1..n |-> before[i]]
    /\ after = Append(before, result)

\* A result of a later Round is not counted yet.
LEMMA LaterResultsWait ==
    ASSUME NEW before, NEW result, NEW after, AddedTo(before, result, after),
           NEW done \in Nat, result.period.round = done + 1
    PROVE  EarnedBy(after, done) = EarnedBy(before, done)
<1>0. PICK n \in Nat : before = [i \in 1..n |-> before[i]]
  BY DEF AddedTo
<1>1. /\ after = [i \in 1..(n + 1) |-> after[i]]
      /\ \A i \in 1..n : after[i] = before[i]
      /\ after[n + 1] = result
  <2>1. after = Append(before, result)
    BY DEF AddedTo
  <2> QED
    BY <1>0, <2>1, AppendKeeps
<1>2. DOMAIN before = 1..n /\ DOMAIN after = 1..(n + 1)
  BY <1>0, <1>1
<1>3. ~(after[n + 1].period.round <= done)
  <2>1. after[n + 1].period.round = done + 1
    BY <1>1
  <2> QED
    BY <2>1
<1> DEFINE S == ResultsDone(before, done)
<1>4. ResultsDone(after, done) = S
  <2>1. ASSUME NEW i \in DOMAIN after, after[i].period.round <= done
        PROVE  i \in DOMAIN before /\ before[i].period.round <= done
    <3>1. i \in 1..n
      BY <1>2, <1>3, <2>1
    <3>2. after[i] = before[i]
      BY <1>1, <3>1
    <3> QED
      BY <1>2, <2>1, <3>1, <3>2
  <2>2. ASSUME NEW i \in DOMAIN before, before[i].period.round <= done
        PROVE  i \in DOMAIN after /\ after[i].period.round <= done
    <3>1. i \in 1..n /\ i \in 1..(n + 1)
      BY <1>2, <2>2
    <3>2. after[i] = before[i]
      BY <1>1, <3>1
    <3> QED
      BY <1>2, <2>2, <3>1, <3>2
  <2> QED
    BY <2>1, <2>2 DEF ResultsDone
<1>5. \A i \in S : after[i] = before[i]
  BY <1>1, <1>2 DEF ResultsDone
<1> HIDE DEF S
<1>6. [i \in S |-> after[i].profit - after[i].tax] = [i \in S |-> before[i].profit - before[i].tax]
  BY <1>5
<1> QED
  BY <1>4, <1>6, Zenon DEF EarnedBy, S

\* So is a purchase of a later Round.
LEMMA LaterPurchasesWait ==
    ASSUME NEW purchases \in [Facilities -> [Rounds -> Nat]],
           NEW selection \in [Facilities -> Nat], NEW price \in [Facilities -> Nat],
           NEW done \in Nat, done + 1 \in Rounds, NEW paid,
           Spending(purchases, paid, selection, price, done + 1)
    PROVE  SpentBy(paid, done) = SpentBy(purchases, done)
<1>1. ASSUME NEW f \in Facilities
      PROVE  SumFunctionOnSet(paid[f], 1..done) = SumFunctionOnSet(purchases[f], 1..done)
  <2> DEFINE had  == purchases[f]
             has  == paid[f]
             more == selection[f] * price[f]
             r    == done + 1
  <2>1. had \in [Rounds -> Nat] /\ has = [had EXCEPT ![r] = @ + more]
    BY DEF Spending
  <2>2. \A b \in 1..done : b \in Rounds /\ b # r
    BY CatalogAssumption DEF Rounds
  <2> HIDE DEF had, has, more, r
  <2>3. \A b \in 1..done : had[b] \in Int /\ has[b] = had[b]
    BY <2>1, <2>2
  <2>4. IsFiniteSet(1..done)
    BY FS_Interval
  <2>5. SumFunctionOnSet(has, 1..done) = SumFunctionOnSet(had, 1..done)
    BY <2>3, <2>4, SumSame
  <2> QED
    BY <2>5 DEF had, has
<1>2. [f \in Facilities |-> SumFunctionOnSet(paid[f], 1..done)]
        = [f \in Facilities |-> SumFunctionOnSet(purchases[f], 1..done)]
  BY <1>1
<1> QED
  BY <1>2 DEF SpentBy

\* What a copy is still worth is an amount, and nothing once it has retired.
LEMMA ResidualIsTyped ==
    ASSUME NEW f \in Facilities, NEW b \in Nat, NEW done \in Nat, NEW n
    PROVE  /\ ResidualValue(f, b, done, n) \in Int
           /\ ~(LifetimeLeft(f, b, done + 1) > 0) => ResidualValue(f, b, done, n) = 0
<1> DEFINE price == SessionPrice(f, n)
           left  == LifetimeLeft(f, b, done + 1)
           life  == Catalog[f].life
<1>1. price \in Nat
  BY SessionPriceIsNat
<1>2. life \in Nat \ {0} /\ Catalog[f].lag \in Nat
  BY CatalogAssumption
<1>3. left \in Nat
  BY <1>2 DEF LifetimeLeft, AtLeastZero
<1>4. ResidualValue(f, b, done, n) = (price * left) \div life
  BY DEF ResidualValue
<1> HIDE DEF price, left, life
<1> DEFINE all == price * left
<1>5. all \in Nat /\ (left = 0 => all = 0)
  BY <1>1, <1>3
<1> HIDE DEF all
<1>6. all \div life \in Int /\ (all = 0 => all \div life = 0)
  BY <1>2, <1>5
<1>7. ~(left > 0) => left = 0
  BY <1>3
<1> QED
  BY <1>4, <1>5, <1>6, <1>7 DEF all, left

\* What a type's copies are worth, as a sum over all the Rounds completed.
LEMMA WorthIsASum ==
    ASSUME NEW owned \in [Facilities -> [Rounds -> Nat]], NEW f \in Facilities,
           NEW done \in Nat, done <= MaxRounds, NEW n
    PROVE  WorthOf(owned, f, done, n)
             = SumFunctionOnSet([b \in 1..done |-> owned[f][b] * ResidualValue(f, b, done, n)],
                                1..done)
<1> DEFINE S == 1..done
           T == Kept(owned, f, done)
           g == [b \in S |-> owned[f][b] * ResidualValue(f, b, done, n)]
           h == [b \in T |-> owned[f][b] * ResidualValue(f, b, done, n)]
<1>1. IsFiniteSet(S) /\ T \in SUBSET S /\ IsFiniteSet(T)
  BY FS_Interval, FS_Subset DEF Kept
<1>2. ASSUME NEW b \in S PROVE g[b] \in Int /\ (b \notin T => g[b] = 0)
  <2> DEFINE count == owned[f][b]
             worth == ResidualValue(f, b, done, n)
  <2>1. b \in Rounds /\ b \in Nat
    BY CatalogAssumption DEF Rounds
  <2>2. count \in Nat
    BY <2>1
  <2>3. worth \in Int
    BY <2>1, ResidualIsTyped
  <2>4. g[b] = count * worth /\ (b \notin T => ~(count > 0))
    BY DEF Kept
  <2> HIDE DEF count, worth, g, T
  <2>5. count * worth \in Int /\ (count = 0 => count * worth = 0)
    BY <2>2, <2>3
  <2> QED
    BY <2>2, <2>4, <2>5
<1>3. \A b \in T : h[b] = g[b]
  BY <1>1
<1>4. WorthOf(owned, f, done, n) = SumFunctionOnSet(h, T)
  BY DEF WorthOf, SumFunction
<1> HIDE DEF g, h, S, T
<1>5. SumFunctionOnSet(g, S) = SumFunctionOnSet(g, T)
  BY <1>1, <1>2, SumOfPart
<1>6. SumFunctionOnSet(h, T) = SumFunctionOnSet(g, T)
  BY <1>1, <1>2, <1>3, SumSame
<1> QED
  BY <1>4, <1>5, <1>6 DEF g, S

\* Copies bought later do not count yet, and those that retire as the next Round starts
\* count no more already (_apply_purchases, _apply_retirements, residual_value).
LEMMA WorthStays ==
    ASSUME NEW had \in [Facilities -> [Rounds -> Nat]], NEW has \in [Facilities -> [Rounds -> Nat]],
           NEW done \in Nat, done <= MaxRounds, NEW n,
           \A f \in Facilities, b \in 1..done :
              \/ has[f][b] = had[f][b]
              \/ has[f][b] = 0 /\ ~(LifetimeLeft(f, b, done + 1) > 0)
    PROVE  WorthBy(has, done, n) = WorthBy(had, done, n)
<1>1. ASSUME NEW f \in Facilities PROVE WorthOf(has, f, done, n) = WorthOf(had, f, done, n)
  <2> DEFINE g == [b \in 1..done |-> had[f][b] * ResidualValue(f, b, done, n)]
             h == [b \in 1..done |-> has[f][b] * ResidualValue(f, b, done, n)]
  <2>1. ASSUME NEW b \in 1..done PROVE h[b] = g[b]
    <3> DEFINE old   == had[f][b]
               new   == has[f][b]
               worth == ResidualValue(f, b, done, n)
    <3>1. b \in Rounds /\ b \in Nat
      BY CatalogAssumption DEF Rounds
    <3>2. old \in Nat
      BY <3>1
    <3>3. worth \in Int /\ (~(LifetimeLeft(f, b, done + 1) > 0) => worth = 0)
      BY <3>1, ResidualIsTyped
    <3>4. new = old \/ (new = 0 /\ worth = 0)
      BY <3>3
    <3>5. g[b] = old * worth /\ h[b] = new * worth
      OBVIOUS
    <3> HIDE DEF old, new, worth, g, h
    <3>6. new * worth = old * worth
      BY <3>2, <3>3, <3>4
    <3> QED
      BY <3>5, <3>6
  <2>2. h = g
    BY <2>1
  <2>3. /\ WorthOf(had, f, done, n) = SumFunctionOnSet(g, 1..done)
        /\ WorthOf(has, f, done, n) = SumFunctionOnSet(h, 1..done)
    BY WorthIsASum
  <2> HIDE DEF g, h
  <2> QED
    BY <2>2, <2>3
<1>2. [f \in Facilities |-> WorthOf(has, f, done, n)] = [f \in Facilities |-> WorthOf(had, f, done, n)]
  BY <1>1
<1> QED
  BY <1>2 DEF WorthBy

\* With no Round completed there is nothing to be worth anything, at any price.
LEMMA NothingWorthYet ==
    ASSUME NEW owned, NEW n, NEW m
    PROVE  WorthBy(owned, 0, n) = WorthBy(owned, 0, m)
<1>1. ASSUME NEW f \in Facilities PROVE WorthOf(owned, f, 0, n) = WorthOf(owned, f, 0, m)
  <2> DEFINE T == Kept(owned, f, 0)
  <2>1. T = {}
    BY DEF Kept
  <2> HIDE DEF T
  <2>2. [b \in T |-> owned[f][b] * ResidualValue(f, b, 0, n)]
          = [b \in T |-> owned[f][b] * ResidualValue(f, b, 0, m)]
    BY <2>1
  <2> QED
    BY <2>2 DEF WorthOf, T
<1>2. [f \in Facilities |-> WorthOf(owned, f, 0, n)] = [f \in Facilities |-> WorthOf(owned, f, 0, m)]
  BY <1>1
<1> QED
  BY <1>2 DEF WorthBy

\* Unless a step opens a Recap, no account changes in what the score counts.
LEMMA AccountScoreStays ==
    ASSUME WellKept, [Next]_vars, ~(IsRecap(Here') /\ Here' # Here),
           NEW p \in Players \cap DOMAIN session'.players
    PROVE  LET x    == session.players[p]
               y    == session'.players[p]
               done == Completed(session)
           IN  /\ EarnedBy(y.results, done) = EarnedBy(x.results, done)
               /\ SpentBy(y.purchases, done) = SpentBy(x.purchases, done)
               /\ LoanCostBy(y.loan, done) = LoanCostBy(x.loan, done)
<1> USE DEF WellKept, SettledWell
<1> DEFINE x == session.players[p]
           y == session'.players[p]
           done == Completed(session)
<1> SUFFICES /\ EarnedBy(y.results, done) = EarnedBy(x.results, done)
             /\ SpentBy(y.purchases, done) = SpentBy(x.purchases, done)
             /\ LoanCostBy(y.loan, done) = LoanCostBy(x.loan, done)
  OBVIOUS
<1>1. /\ IsAccount(x) /\ x.selection \in [Facilities -> Nat]
      /\ x.loan = NoLoan \/ OnSchedule(x.loan, Here, session.roundCount)
  BY DEF MoneyInv, InOrder, OffersInv, RightlyHas, LoanInv
<1>2. CashIsTyped
  BY DEF CashIsTyped, MoneyInv, InOrder, IsAccount
<1>3. AccountsRest \/ AccountsTurn \/ Finishing
  BY <1>2, EveryStepOfAccounts DEF SessionInv
<1>4. /\ done \in Nat
      /\ IsInvestment(Here) \/ IsTrading(Here) => Here.round = done + 1
  BY CompletedStays, WhereTheSessionIs
<1>5. done + 1 \in Rounds \/ ~IsInvestment(Here)
  <2>1. IsInvestment(Here) => \E r \in 1..session.roundCount : Here = Investment(r)
    BY WhereTheSessionIs, CheckpointKinds
    DEF IsInvestment, NotStarted, TradingPeriod, Recap, Finished
  <2>2. IsInvestment(Here) => Here.round \in 1..session.roundCount
    BY <2>1 DEF Investment
  <2>3. session.roundCount \in Nat /\ session.roundCount <= MaxRounds
    BY WhereTheSessionIs DEF SessionInv, PaceInv, TypeOKPace
  <2> QED
    BY <1>4, <2>2, <2>3, CatalogAssumption DEF Rounds
<1> HIDE DEF x, y, done
<1>6. CASE y.results = x.results /\ y.purchases = x.purchases /\ y.loan = x.loan
  BY <1>6
<1>7. CASE Borrowing(x, y)
  <2>1. y.results = x.results /\ y.purchases = x.purchases
    BY <1>7 DEF Borrowing, SameBut, AccountFields
  <2>2. Here.round = done + 1 /\ ~(done + 1 <= done)
    BY <1>4, <1>7 DEF Borrowing
  <2>3. LoanCostBy(x.loan, done) = 0 /\ LoanCostBy(y.loan, done) = 0
    <3>1. LoanCostBy(NoLoan, done) = 0
      BY DEF LoanCostBy
    <3>2. \A loan : loan.round = Here.round => LoanCostBy(loan, done) = 0
      BY <2>2 DEF LoanCostBy
    <3>3. Loan(Here.round).round = Here.round
      BY DEF Loan
    <3> QED
      BY <1>7, <3>1, <3>2, <3>3 DEF Borrowing
  <2> QED
    BY <2>1, <2>3
<1>8. CASE IsInvestment(Here) /\ PaidFor(x, y, session, Here.round)
  <2> DEFINE price == FacilityPrices(session, Here.round)
             had   == x.purchases
             paid  == y.purchases
             sel   == x.selection
  <2>1. /\ paid = [f \in Facilities |-> [had[f] EXCEPT ![Here.round] = @ + sel[f] * price[f]]]
        /\ y.results = x.results /\ y.loan = x.loan
    BY <1>8 DEF PaidFor, SameBut, AccountFields
  <2>2. price \in [Facilities -> Nat]
    BY FacilityPricesAreNat DEF RoomInv
  <2>3. had \in [Facilities -> [Rounds -> Nat]] /\ sel \in [Facilities -> Nat]
    BY <1>1 DEF IsAccount
  <2> HIDE DEF price, had, paid, sel
  <2>4. Spending(had, paid, sel, price, Here.round)
    BY <2>1, Zenon DEF Spending
  <2>5. Here.round = done + 1 /\ done + 1 \in Rounds
    BY <1>4, <1>5, <1>8
  <2>6. Spending(had, paid, sel, price, done + 1)
    BY <2>4, <2>5
  <2>7. SpentBy(paid, done) = SpentBy(had, done)
    BY <1>4, <2>2, <2>3, <2>5, <2>6, LaterPurchasesWait
  <2> QED
    BY <2>1, <2>7 DEF had, paid
<1>9. ASSUME NEW r, y.loan = Paid(x.loan, r), SameBut(x, y, {"money", "loan"})
      PROVE  /\ EarnedBy(y.results, done) = EarnedBy(x.results, done)
             /\ SpentBy(y.purchases, done) = SpentBy(x.purchases, done)
             /\ LoanCostBy(y.loan, done) = LoanCostBy(x.loan, done)
  <2>1. y.results = x.results /\ y.purchases = x.purchases
    BY <1>9 DEF SameBut, AccountFields
  <2>2. CASE x.loan = NoLoan
    BY <1>9, <2>1, <2>2 DEF Paid
  <2>3. CASE x.loan # NoLoan
    <3>1. PICK b \in 1..(session.roundCount - 1) : \E m : x.loan = [round |-> b, made |-> m]
      BY <1>1, <2>3 DEF OnSchedule
    <3>2. PICK m : x.loan = [round |-> b, made |-> m]
      BY <3>1
    <3>3. y.loan = [round |-> b, made |-> m + PaymentsDue(x.loan, r)]
      BY <1>9, <2>3, <3>2 DEF Paid
    <3>4. y.loan # NoLoan /\ y.loan.round = x.loan.round
      BY <3>2, <3>3 DEF NoLoan
    <3>5. LoanCostBy(y.loan, done) = LoanCostBy(x.loan, done)
      BY <2>3, <3>4 DEF LoanCostBy
    <3> QED
      BY <2>1, <3>5
  <2> QED
    BY <2>2, <2>3
<1>10. CASE AccountsRest
  <2>1. \/ SameBut(x, y, {}) \/ Choosing(x, y) \/ Borrowing(x, y)
        \/ IsInvestment(Here) /\ PaidFor(x, y, session, Here.round)
    BY <1>10 DEF AccountsRest, x, y
  <2>2. SameBut(x, y, {}) \/ Choosing(x, y)
          => y.results = x.results /\ y.purchases = x.purchases /\ y.loan = x.loan
    BY DEF Choosing, SameBut, AccountFields
  <2> QED
    BY <1>6, <1>7, <1>8, <2>1, <2>2
<1>11. CASE AccountsTurn
  <2>1. AccountMoved(x, y, session, NextHere)
    BY <1>11 DEF AccountsTurn, AccountsMoved, Players, x, y
  <2>2. \/ IsInvestment(Here) /\ PaidFor(x, y, session, Here.round)
        \/ \E r : StartedRound(x, y, r)
        \/ \E r : PaidOff(x, y, r)
        \/ \E r : WentDark(x, y, session, r)
        \/ SameBut(x, y, {})
    BY <2>1 DEF AccountMoved, Here
  <2>3. (\E r : WentDark(x, y, session, r)) \/ SameBut(x, y, {})
          => y.results = x.results /\ y.purchases = x.purchases /\ y.loan = x.loan
    BY DEF WentDark, SameBut, AccountFields
  <2>4. (\E r : StartedRound(x, y, r) \/ PaidOff(x, y, r))
          => \/ SameBut(x, y, {})
             \/ \E r : y.loan = Paid(x.loan, r) /\ SameBut(x, y, {"money", "loan"})
    BY DEF StartedRound, PaidOff
  <2> QED
    BY <1>6, <1>8, <1>9, <2>2, <2>3, <2>4
<1>12. CASE Finishing
  <2>1. PICK i \in DOMAIN jobs : \E outcome \in Outcomes(jobs[i]) :
          WaitingFor(jobs[i]) /\ session' = Settled(session, jobs[i], outcome)
    BY <1>12 DEF Finishing
  <2>2. PICK outcome \in Outcomes(jobs[i]) :
          WaitingFor(jobs[i]) /\ session' = Settled(session, jobs[i], outcome)
    BY <2>1
  <2>3. /\ SameBut(x, y, {"money", "results"})
        /\ \/ SameBut(x, y, {})
           \/ \E result : result.period = jobs[i].period /\ Earning(x, y, result)
    BY <2>2, SettlingPays DEF x, y
  <2>4. y.purchases = x.purchases /\ y.loan = x.loan
    BY <2>3 DEF SameBut, AccountFields
  <2>5. CASE SameBut(x, y, {})
    BY <1>6, <2>4, <2>5 DEF SameBut, AccountFields
  <2>6. CASE \E result : result.period = jobs[i].period /\ Earning(x, y, result)
    <3>1. PICK result : result.period = jobs[i].period /\ Earning(x, y, result)
      BY <2>6
    <3>2. IsTrading(Here) /\ jobs[i].period = Here
      <4>1. jobs[i].period = Here
        BY <2>2 DEF WaitingFor
      <4>2. IsTrading(jobs[i].period)
        BY TheOnlyJob DEF SessionInv
      <4> QED
        BY <4>1, <4>2
    <3>3. result.period.round = done + 1
      BY <1>4, <3>1, <3>2
    <3> DEFINE before == x.results
               after  == y.results
    <3>4. AddedTo(before, result, after)
      <4>1. after = Append(before, result)
        BY <3>1 DEF Earning
      <4>2. \E n \in Nat : before = [k \in 1..n |-> before[k]]
        BY <1>1 DEF IsAccount
      <4> QED
        BY <4>1, <4>2 DEF AddedTo
    <3> HIDE DEF before, after
    <3>6. done \in Nat
      BY <1>4
    <3>7. EarnedBy(after, done) = EarnedBy(before, done)
      BY <3>3, <3>4, <3>6, LaterResultsWait
    <3> QED
      BY <2>4, <3>7 DEF before, after
  <2> QED
    BY <2>3, <2>5, <2>6
<1> QED
  BY <1>3, <1>10, <1>11, <1>12

\* Nor does what the fleet is worth: at a later Round's start what is worthless retires.
LEMMA FleetScoreStays ==
    ASSUME WellKept, [Next]_vars, ~(IsRecap(Here') /\ Here' # Here),
           NEW p \in Players \cap DOMAIN session'.players
    PROVE  WorthBy(session'.players[p].owned, Completed(session), session'.priceRoundCount)
             = WorthBy(session.players[p].owned, Completed(session), session.priceRoundCount)
<1> USE DEF WellKept, SettledWell
<1> DEFINE had  == session.players[p].owned
           has  == session'.players[p].owned
           done == Completed(session)
           n    == session.priceRoundCount
           m    == session'.priceRoundCount
           lost(f, b) == has[f][b] = 0 /\ ~(LifetimeLeft(f, b, done + 1) > 0)
<1> SUFFICES WorthBy(has, done, m) = WorthBy(had, done, n)
  OBVIOUS
<1>1. /\ done \in Nat /\ done <= MaxRounds
      /\ IsInvestment(Here) \/ IsTrading(Here) => Here.round = done + 1
      /\ Here = NotStarted => done = 0
      /\ Here' = Here \/ (Here # Finished /\ Here' = NextHere)
      /\ Here' # Here /\ IsInvestment(Here') => Here'.round = done + 1
  <2>1. session.roundCount \in Nat /\ session.roundCount <= MaxRounds /\ MaxRounds \in Nat
    BY WhereTheSessionIs, CatalogAssumption DEF SessionInv, PaceInv, TypeOKPace
  <2>2. done \in 0..session.roundCount
    BY CompletedStays
  <2>3. done \in Nat /\ done <= MaxRounds
    BY <2>1, <2>2
  <2> HIDE DEF done
  <2> QED
    BY <2>3, CompletedStays DEF done
<1>2. had \in [Facilities -> [Rounds -> Nat]] /\ has \in [Facilities -> [Rounds -> Nat]]
  <2>1. OffersInv'
    BY OffersInvKept
  <2> QED
    BY <2>1 DEF OffersInv, RightlyHas, Players
<1>3. \A f \in Facilities, b \in 1..done : has[f][b] = had[f][b] \/ lost(f, b)
  <2>1. FleetsRest \/ FleetsTurn \/ Finishing
    BY EveryStepOfFleets DEF SessionInv
  <2>2. ASSUME NEW r, r = done + 1, NEW y, Bought(session.players[p], y, r), NEW f \in Facilities,
               NEW b \in 1..done
        PROVE  y.owned[f][b] = had[f][b]
    <3>1. y.owned[f] = [had[f] EXCEPT ![r] = @ + session.players[p].selection[f]]
      BY <2>2 DEF Bought
    <3>2. b # r
      BY <1>1, <2>2
    <3>3. had[f] = [x \in Rounds |-> had[f][x]]
      BY <1>2
    <3>4. b \in Rounds
      BY <1>1, CatalogAssumption DEF Rounds
    <3> HIDE DEF had
    <3> QED
      BY <3>1, <3>2, <3>3, <3>4
  <2>3. CASE FleetsRest
    <3>1. \/ SameFleet(session.players[p], session'.players[p])
          \/ Selecting(session.players[p], session'.players[p])
          \/ IsInvestment(Here) /\ Bought(session.players[p], session'.players[p], Here.round)
      BY <2>3 DEF FleetsRest
    <3>2. CASE has = had
      BY <3>2
    <3>3. CASE IsInvestment(Here) /\ Bought(session.players[p], session'.players[p], Here.round)
      <4>1. Here.round = done + 1
        BY <1>1, <3>3
      <4> QED
        BY <2>2, <3>3, <4>1
    <3> QED
      BY <3>1, <3>2, <3>3 DEF SameFleet, FleetFields, Selecting
  <2>4. CASE FleetsTurn
    <3>1. Here' = NextHere /\ Here # Finished
      BY <2>4 DEF FleetsTurn, Here
    <3>2. IF IsInvestment(Here)
            THEN Bought(session.players[p], session'.players[p], Here.round)
          ELSE IF IsInvestment(NextHere)
            THEN WornOut(session.players[p], session'.players[p], NextHere.round)
          ELSE SameFleet(session.players[p], session'.players[p])
      BY <2>4 DEF FleetsTurn, FleetsMoved, Players, Here
    <3>3. CASE IsInvestment(Here)
      <4>1. Here.round = done + 1
        BY <1>1, <3>3
      <4> QED
        BY <2>2, <3>2, <3>3, <4>1
    <3>4. CASE ~IsInvestment(Here) /\ IsInvestment(NextHere)
      <4>1. Here' # Here
        BY <3>1, <3>4
      <4>2. NextHere.round = done + 1
        BY <1>1, <3>1, <3>4, <4>1
      <4>3. has = Retired(had, NextHere.round)
        BY <3>2, <3>4 DEF WornOut
      <4>4. \A b \in 1..done : b \in Rounds
        BY <1>1, CatalogAssumption DEF Rounds
      <4> HIDE DEF had, has, done
      <4>5. \A f \in Facilities, b \in Rounds :
               has[f][b] = IF LifetimeLeft(f, b, NextHere.round) > 0 THEN had[f][b] ELSE 0
        BY <4>3 DEF Retired
      <4> QED
        BY <4>2, <4>4, <4>5
    <3>5. CASE ~IsInvestment(Here) /\ ~IsInvestment(NextHere)
      <4>1. has = had
        BY <3>2, <3>5 DEF SameFleet, FleetFields
      <4> QED
        BY <4>1
    <3> QED
      BY <3>3, <3>4, <3>5
  <2>5. CASE Finishing
    <3>1. PICK i \in DOMAIN jobs : \E outcome \in Outcomes(jobs[i]) :
            WaitingFor(jobs[i]) /\ session' = Settled(session, jobs[i], outcome)
      BY <2>5 DEF Finishing
    <3>2. Touched(session, session', SettleUndo)
      BY <3>1, SettledTouches DEF SessionInv, Sound
    <3>3. "owned" \in PlayerFields \ SettleUndo
      BY DEF PlayerFields, SettleUndo
    <3>4. has = had
      BY <3>2, <3>3 DEF Touched, PlayerTouched, Players
    <3> QED
      BY <3>4
  <2> QED
    BY <2>1, <2>3, <2>4, <2>5
<1>4. n = m \/ done = 0
  <2>1. \/ RoomKept({})
        \/ Here = NotStarted /\ RoomKept({"priceRoundCount"})
        \/ Moving /\ RoomKept({"firedEvents", "fuelPrices"})
        \/ Finishing /\ RoomKept({"blackouts", "demandAmplitude"})
    BY EveryStepOfTheRoom DEF SessionInv
  <2>2. m = n \/ Here = NotStarted
    BY <2>1 DEF RoomKept, RoomFields
  <2> QED
    BY <1>1, <2>2
<1> HIDE DEF had, has, done, n, m
<1>5. WorthBy(has, done, m) = WorthBy(had, done, m)
  BY <1>1, <1>2, <1>3, WorthStays
<1>6. WorthBy(had, done, m) = WorthBy(had, done, n)
  BY <1>4, NothingWorthYet
<1> QED
  BY <1>5, <1>6

\* Neither a player's cash nor their score moves without a rule that moves it, in every
\* session: cash as it is spent, earned, borrowed and paid back, topped up as a later Round
\* starts and charged for blackouts; the score as a Recap opens (Player.money, score).
THEOREM MoneyAlwaysExplained == Spec => MoneyExplained
<1>1. WellKept /\ [Next]_vars
        => [ \A p \in Players \cap DOMAIN session'.players :
          LET before == Unexplained(session.players[p])
              after  == Unexplained(session'.players[p])
          IN  \/ after = before
              \/ /\ after > before
                 /\ IsRecap(Here) /\ IsInvestment(Here')
                 /\ session'.players[p].money = WORKSHOP_CASH_FLOOR
              \/ /\ after < before
                 /\ IsTrading(Here) /\ IsRecap(Here')
                 /\ BlackoutsIn(session, Here.round) > 0 ]_vars
  BY CashIsExplained
<1>2. WellKept /\ [Next]_vars
        => [ \A p \in Players \cap DOMAIN session'.players :
          Score(session', p) # Score(session, p) => IsRecap(Here') /\ Here' # Here ]_vars
  <2> SUFFICES ASSUME WellKept, [Next]_vars, ~(IsRecap(Here') /\ Here' # Here),
                      NEW p \in Players \cap DOMAIN session'.players
               PROVE  Score(session', p) = Score(session, p)
    OBVIOUS
  <2>1. Completed(session') = Completed(session)
    BY CompletedStays DEF WellKept, SettledWell
  <2> QED
    BY <2>1, AccountScoreStays, FleetScoreStays, ScoreIs
<1> QED
  BY <1>1, <1>2, WellKeptHolds, PTL DEF Spec, MoneyExplained, CashExplained, ScoreMovesOnlyAtRecap

-----------------------------------------------------------------------------
(***************************************************************************)
(* What the pages work out from the session: the buttons, the console and  *)
(* the redirects.                                                          *)
(***************************************************************************)
\* A timer runs only in a phase that has one.
TimerInv == session.phaseTimer.running => IsInvestment(Here) \/ IsTrading(Here)

\* Only an advance starts one, as it arrives (advance).
LEMMA TimerInvKept == SessionInv /\ TimerInv /\ [Next]_vars => TimerInv'
<1> SUFFICES ASSUME SessionInv, TimerInv, [Next]_vars PROVE TimerInv'
  OBVIOUS
<1>1. Still \/ PhaseStep \/ TimersStep \/ Lengthening \/ Turn \/ Settling
  BY EveryStep DEF SessionInv, PaceInv
<1>2. CASE Turn
  BY <1>2 DEF Turn, TimerFor, NoTimer, TimerInv, Here
<1>3. CASE ~Turn
  BY <1>1, <1>3
  DEF Still, PaceKept, PhaseStep, TimersStep, Lengthening, Settling, KeptBut, Pace, TimerInv, Here
<1> QED
  BY <1>2, <1>3

\* While a period is simulated its window is closed, and it is not left.
LEMMA SettlingIsClosed ==
    ASSUME JobInv, SettlingInv, settlement # NoPeriod
    PROVE  ~PhaseOpen /\ IsTrading(Here) /\ session.settledPeriod # Here
<1>1. PICK job : jobs = <<job>> /\ IsTrading(job.period)
  BY DEF JobInv
<1>2. 1 \in DOMAIN jobs /\ jobs[1] = job
  BY <1>1
<1>3. ~PhaseOpen /\ WaitingFor(job)
  BY <1>2 DEF SettlingInv
<1> QED
  BY <1>1, <1>3 DEF WaitingFor

\* The session moves on where the button said so, and the players are sent to where it
\* then is (advanceAction, phaseRedirect).
LEMMA ButtonsMoveOn ==
    ASSUME SessionInv, SettlingInv, [Next]_vars, Here' # Here
    PROVE  LET button == advanceAction(session, settlement # NoPeriod, PhaseOpen)
               to     == phaseRedirect(PhaseSeen, PhaseSeen')
           IN  /\ button = IF Here = NotStarted THEN "start" ELSE "next"
               /\ to = IF IsInvestment(Here') THEN facilitiesPage
                       ELSE IF Here' = Finished THEN StaysPut
                       ELSE homePage(Here', "player")
<1> DEFINE n == session.roundCount
<1>1. n \in Nat \ {0} /\ Here \in AllCheckpoints(n)
  BY WhereTheSessionIs
<1>2. Turn
  <2>1. Still \/ PhaseStep \/ TimersStep \/ Lengthening \/ Turn \/ Settling
    BY EveryStep DEF SessionInv, PaceInv
  <2> QED
    BY <2>1
    DEF Still, PaceKept, PhaseStep, TimersStep, Lengthening, Settling, KeptBut, Pace, Here
<1>3. ~PhaseOpen /\ Here # Finished /\ Here' = NextHere
  BY <1>2 DEF Turn, Here
<1>4. settlement = NoPeriod
  BY <1>2, SettlingIsClosed DEF Turn, SessionInv
<1>5. advanceAction(session, settlement # NoPeriod, PhaseOpen)
        = IF Here = NotStarted THEN "start" ELSE "next"
  BY <1>3, <1>4 DEF advanceAction, Here
<1>6. /\ Here' \in AllCheckpoints(n)
      /\ Here' # NotStarted
  <2>1. Here' \in AllCheckpoints(n)
    BY <1>1, <1>3, NextIsACheckpoint DEF NextHere
  <2>2. Here' # NotStarted
    BY <1>3
    DEF NextHere, NextCheckpoint, NotStarted, Investment, TradingPeriod, Recap, Finished
  <2> QED
    BY <2>1, <2>2
<1> DEFINE seen == PhaseSeen
<1>7. /\ seen.checkpoint = Here
      /\ seen'.checkpoint = Here'
  BY DEF PhaseSeen
<1> HIDE DEF seen
<1>8. phaseRedirect(seen, seen')
        = IF IsInvestment(Here') THEN facilitiesPage
          ELSE IF Here' = Finished THEN StaysPut
          ELSE homePage(Here', "player")
  <2>1. phaseRedirect(seen, seen')
          = CASE IsInvestment(Here') -> facilitiesPage
              [] IsTrading(Here')    -> PageTo("season", Here')
              [] IsRecap(Here')      -> PageTo("recap", Here')
              [] OTHER               -> StaysPut
    BY <1>7 DEF phaseRedirect
  <2>2. \/ IsInvestment(Here') /\ Here' # Finished
        \/ IsTrading(Here') /\ ~IsInvestment(Here') /\ Here' # Finished
        \/ IsRecap(Here') /\ ~IsInvestment(Here') /\ ~IsTrading(Here') /\ Here' # Finished
        \/ Here' = Finished /\ ~IsInvestment(Here') /\ ~IsTrading(Here') /\ ~IsRecap(Here')
    BY <1>6, CheckpointKinds
    DEF IsInvestment, IsTrading, IsRecap, NotStarted, Investment, TradingPeriod, Recap, Finished
  <2>3. Here'.kind # "NotStarted"
    BY <2>2 DEF IsInvestment, IsTrading, IsRecap, Finished
  <2> QED
    BY <2>1, <2>2, <2>3 DEF homePage, checkpointPage, IsInvestment, IsTrading, IsRecap
<1> QED
  BY <1>5, <1>8 DEF seen

\* A window closes, by the clock too, where the button offered it (advanceAction).
LEMMA ButtonsCloseWindows ==
    ASSUME SessionInv, SettlingInv, TimerInv, PhaseOpen
    PROVE  advanceAction(session, settlement # NoPeriod, PhaseOpen) = "close_window"
<1>1. settlement = NoPeriod
  BY SettlingIsClosed DEF SessionInv
<1>2. Here # Finished
  BY DEF TimerInv, PhaseOpen, IsInvestment, IsTrading, Finished
<1> QED
  BY <1>1, <1>2 DEF advanceAction, Here

\* A Round is added where the console offers it (canAddRound).
LEMMA ConsoleAddsRounds ==
    ASSUME SessionInv, [Next]_vars, session'.roundCount > session.roundCount
    PROVE  canAddRound(Here, session.roundCount)
<1> DEFINE n == session.roundCount
<1>1. n \in Nat \ {0} /\ Here \in AllCheckpoints(n)
  BY WhereTheSessionIs
<1>2. ~RecapOpen(Here, n)
  <2>1. Still \/ PhaseStep \/ TimersStep \/ Lengthening \/ Turn \/ Settling
    BY EveryStep DEF SessionInv, PaceInv
  <2> QED
    BY <1>1, <2>1 DEF Still, PaceKept, PhaseStep, TimersStep, Lengthening, Turn, Settling, KeptBut, Pace
<1> QED
  BY <1>1, <1>2, CheckpointKinds
  DEF canAddRound, latestRecapRound, RecapOpen, NoRound, IsRecap,
      NotStarted, Investment, TradingPeriod, Recap, Finished

\* Of some of the numbers up to n, one is the first.
LEMMA SomeFirst ==
    ASSUME NEW n \in Nat, NEW S, S \subseteq 1..n, S # {}
    PROVE  LET first == CHOOSE r \in S : \A q \in S : r <= q
           IN  first \in S /\ \A q \in S : first <= q
<1> DEFINE Has(i) == \E r \in S : r <= i
           First  == \E r \in S : \A q \in S : r <= q
           G      == { i \in 0..n : Has(i) => First }
<1>1. 0 \in G
  OBVIOUS
<1>2. ASSUME NEW i \in 1..n, i - 1 \in G PROVE i \in G
  <2>1. i \in 0..n
    OBVIOUS
  <2>2. CASE Has(i - 1)
    BY <1>2, <2>1, <2>2
  <2>3. CASE ~Has(i - 1) /\ Has(i)
    <3>1. PICK r \in S : r <= i
      BY <2>3
    <3>2. \A q \in S : q \in Int /\ ~(q <= i - 1)
      BY <2>3
    <3>3. \A q \in S : r <= q
      BY <3>1, <3>2
    <3>4. First
      BY <3>3
    <3> QED
      BY <2>1, <3>4
  <2>4. CASE ~Has(i)
    BY <2>1, <2>4
  <2> QED
    BY <2>2, <2>3, <2>4
<1> HIDE DEF G
<1>3. \A i \in 0..n : i \in G
  BY <1>1, <1>2, CountingInduction
<1>4. Has(n) /\ n \in 0..n
  <2>1. PICK r \in S : TRUE
    OBVIOUS
  <2>2. r <= n
    BY <2>1
  <2> QED
    BY <2>1, <2>2
<1>5. \E r \in S : \A q \in S : r <= q
  BY <1>3, <1>4 DEF G
<1> QED
  BY <1>5

\* The console opens on the first Round that is not locked, or on the last.
LEMMA ConsoleOpensUnlocked ==
    ASSUME SessionInv, VotesInv
    PROVE  \A q \in DOMAIN session.plans :
              q > LockedRounds(Here, session.roundCount)
                => consoleRound(Here, session.plans) <= q
<1> DEFINE n == session.roundCount
           locked == LockedRounds(Here, n)
           open == { r \in 1..n : r > locked }
<1>1. n \in Nat \ {0} /\ Here \in AllCheckpoints(n)
  BY WhereTheSessionIs
<1>2. DOMAIN session.plans = 1..n /\ Len(session.plans) = n
  BY <1>1 DEF VotesInv
<1>3. consoleRound(Here, session.plans)
        = IF open = {} THEN n ELSE CHOOSE r \in open : \A q \in open : r <= q
  BY <1>2 DEF consoleRound
<1>4. open \subseteq 1..n
  OBVIOUS
<1> SUFFICES ASSUME NEW q \in 1..n, q > locked PROVE consoleRound(Here, session.plans) <= q
  BY <1>2
<1>5. q \in open
  OBVIOUS
<1> HIDE DEF open
<1>6. (CHOOSE r \in open : \A p \in open : r <= p) <= q
  BY <1>1, <1>4, <1>5, SomeFirst
<1> QED
  BY <1>3, <1>5, <1>6

\* Plans that change do so from one Round on, each later one by its levers.
LEMMA ChangesAreCarried ==
    ASSUME SessionInv, VotesInv, PlansInv, [Next]_vars,
           NEW q \in DOMAIN session.plans, session'.plans[q] # session.plans[q]
    PROVE  /\ q \in DOMAIN session'.plans
           /\ q > LockedRounds(Here, session.roundCount)
           /\ session'.plans[q].levers = session.plans[q].levers =>
                \A p \in DOMAIN session.plans : session'.plans[p] # session.plans[p] => q <= p
<1> DEFINE n == session.roundCount
           plans == session.plans
<1>1. n \in Nat \ {0} /\ Here \in AllCheckpoints(n)
  BY WhereTheSessionIs
<1>2. DOMAIN plans = 1..n /\ q \in 1..n
  BY DEF VotesInv
<1>3. plans \in Seq(Plans)
  BY DEF PlansInv
<1>4. LockedRounds(Here, n) \in 0..n
  BY <1>1, LockedStaysLocked
<1>5. q > LockedRounds(Here, n)
  <2>1. ~(q \in 1..LockedRounds(Here, n))
    BY LockedPlanKept
  <2> QED
    BY <1>2, <1>4, <2>1
<1>6. VoteStep
  BY EveryStepIsAVoteStep DEF SessionInv
<1>7. CASE VotesKept({}) \/ Voting \/ Leaving
  BY <1>7 DEF Voting, Leaving, VotesKept, VoteFields, VoteUndo
<1>8. CASE Planning
  <2>1. q \in DOMAIN session'.plans
    BY <1>8 DEF Planning
  <2>2. PICK r \in 1..n :
          /\ \A p \in DOMAIN plans : p < r => session'.plans[p] = plans[p]
          /\ LeversAfter(r, session'.plans)
    BY <1>8 DEF Planning
  <2>3. CASE q > r
    BY <1>2, <1>3, <1>5, <2>1, <2>2, <2>3 DEF LeversAfter
  <2>4. CASE ~(q > r)
    <3>1. \A p \in 1..n : p < q => p < r
      BY <1>2, <2>4
    <3>2. \A p \in 1..n : p < q => session'.plans[p] = plans[p]
      BY <1>2, <2>2, <3>1
    <3>3. \A p \in 1..n : session'.plans[p] # plans[p] => q <= p
      BY <1>2, <3>2
    <3> QED
      BY <1>2, <1>5, <2>1, <3>3
  <2> QED
    BY <2>3, <2>4
<1>9. CASE AddingRound
  <2>1. q \in 1..Len(plans)
    <3>1. DOMAIN plans = 1..Len(plans)
      BY <1>3
    <3> QED
      BY <3>1
  <2>2. session'.plans[q] = plans[q]
    BY <1>3, <1>9, <2>1 DEF AddingRound
  <2> QED
    BY <2>2
<1>10. CASE Counting
  <2>1. session'.plans = plans \/ session'.plans = VoteLeverOff(plans, Here.round)
    BY <1>10 DEF Counting, CountVote, VoteUndo, SessionInv, Sound, IsSession, SessionFields
  <2>2. session'.plans = VoteLeverOff(plans, Here.round)
    BY <2>1
  <2>3. session'.plans[q] = [plans[q] EXCEPT !.levers.vote = FALSE]
    BY <2>2 DEF VoteLeverOff
  <2>4. plans[q] \in Plans
    BY <1>3
  <2> DEFINE plan    == plans[q]
             without == [plan.levers EXCEPT !.vote = FALSE]
  <2>5. session'.plans[q] = [plan EXCEPT !.levers = without]
    BY <2>3
  <2> HIDE DEF plan, without
  <2>6. without # plan.levers /\ session'.plans[q].levers = without
    BY <2>4, <2>5 DEF Plans, plan
  <2>7. q \in DOMAIN session'.plans
    BY <2>2 DEF VoteLeverOff
  <2> QED
    BY <1>5, <2>6, <2>7 DEF plan
<1> QED
  BY <1>6, <1>7, <1>8, <1>9, <1>10 DEF VoteStep

\* So a plan changes only where the console offers it, and the Rounds after it to which
\* its levers are carried are those it lists (consoleRound, carriedRounds).
LEMMA ConsoleListsCarried ==
    ASSUME SessionInv, VotesInv, PlansInv, [Next]_vars,
           NEW changed, changed = { r \in DOMAIN session.plans : session.plans[r] # session'.plans[r] },
           changed # {}
    PROVE  LET first == CHOOSE r \in changed : \A q \in changed : r <= q
           IN  /\ first >= consoleRound(Here, session.plans)
               /\ carriedRounds(session.plans, session'.plans, first) = changed \ {first}
<1> DEFINE n == session.roundCount
           first == CHOOSE r \in changed : \A q \in changed : r <= q
<1>1. n \in Nat \ {0}
  BY WhereTheSessionIs
<1>2. DOMAIN session.plans = 1..n
  BY DEF VotesInv
<1>3. changed \subseteq 1..n
  BY <1>2
<1>4. first \in changed /\ \A q \in changed : first <= q
  BY <1>1, <1>3, SomeFirst
<1> HIDE DEF first
<1>5. \A q \in changed : /\ q \in DOMAIN session.plans
                         /\ session.plans[q] # session'.plans[q]
  OBVIOUS
<1>6. first > LockedRounds(Here, n) /\ first \in DOMAIN session.plans
  BY <1>4, <1>5, ChangesAreCarried
<1>7. consoleRound(Here, session.plans) <= first
  BY <1>6, ConsoleOpensUnlocked
<1>8. carriedRounds(session.plans, session'.plans, first) = changed \ {first}
  <2> DEFINE carried == carriedRounds(session.plans, session'.plans, first)
  <2>1. ASSUME NEW q \in carried PROVE q \in changed \ {first}
    BY <1>2, <1>3, <1>4 DEF carriedRounds
  <2>2. ASSUME NEW q \in changed, q # first PROVE q \in carried
    <3>1. q > first
      BY <1>3, <1>4, <2>2
    <3>2. q \in DOMAIN session.plans /\ first \in DOMAIN session.plans
      BY <1>5, <1>6
    <3>3. /\ q \in DOMAIN session'.plans
          /\ session'.plans[q].levers = session.plans[q].levers =>
               \A p \in DOMAIN session.plans : session'.plans[p] # session.plans[p] => q <= p
      BY <1>5, <3>2, ChangesAreCarried
    <3>4. session'.plans[first] # session.plans[first]
      BY <1>4, <1>5
    <3>5. ~(q <= first)
      BY <1>3, <1>4, <3>1
    <3> QED
      BY <3>1, <3>2, <3>3, <3>4, <3>5 DEF carriedRounds
  <2> QED
    BY <2>1, <2>2
<1>9. first \in Nat
  BY <1>3, <1>4
<1> QED
  BY <1>7, <1>8 DEF first

-----------------------------------------------------------------------------
(***************************************************************************)
(* What the pages work out from the session: the timeline.  Steps are      *)
(* compared Round by Round, then within the Round.                         *)
(***************************************************************************)
\* A Round's steps all come before the next Round's.
LEMMA RoundsFollow ==
    ASSUME NEW q \in Nat \ {0}, NEW r \in Nat \ {0}, q < r
    PROVE  roundStart(q) + STEPS_PER_ROUND <= roundStart(r)
<1> DEFINE k == NumSeasons
           K == 2 + k
           a == q - 1
           d == r - q - 1
<1>1. k \in Nat /\ a \in Nat /\ d \in Nat /\ K \in Nat
  BY NumSeasonsAssumption
<1>2. roundStart(q) = a * K /\ roundStart(r) = (a + d + 1) * K /\ STEPS_PER_ROUND = K
  BY DEF roundStart, STEPS_PER_ROUND
<1> HIDE DEF K, a, d
<1>3. (a + d + 1) * K = a * K + d * K + K /\ d * K \in Nat /\ a * K \in Nat
  BY <1>1
<1> QED
  BY <1>1, <1>2, <1>3

\* The steps of a Round: its Investment phase, its seasons, its Recap.
StepsOfARound == 0..(NumSeasons + 1)

\* A Round starts at a step that is a number, as many steps after the last as a Round has.
LEMMA StepsAreCounted ==
    ASSUME NEW r \in Nat \ {0}
    PROVE  roundStart(r) \in Nat /\ STEPS_PER_ROUND = NumSeasons + 2
<1> DEFINE K == 2 + NumSeasons
           a == r - 1
<1>1. K \in Nat /\ a \in Nat /\ roundStart(r) = a * K /\ STEPS_PER_ROUND = K
  BY NumSeasonsAssumption DEF roundStart, STEPS_PER_ROUND
<1> HIDE DEF a
<1>2. a * K \in Nat
  BY <1>1
<1> QED
  BY <1>1, <1>2, NumSeasonsAssumption

\* So one step is before another if its Round is, or its place in the Round.
LEMMA StepsCompare ==
    ASSUME NEW q \in Nat \ {0}, NEW r \in Nat \ {0}, NEW o \in StepsOfARound, NEW s \in StepsOfARound
    PROVE  /\ roundStart(q) + o < roundStart(r) + s <=> q < r \/ (q = r /\ o < s)
           /\ roundStart(q) + o > roundStart(r) + s <=> q > r \/ (q = r /\ o > s)
           /\ roundStart(q) + o >= 0
<1> DEFINE a == roundStart(q)
           b == roundStart(r)
           K == STEPS_PER_ROUND
<1>1. a \in Nat /\ b \in Nat /\ K = NumSeasons + 2
  BY StepsAreCounted
<1>2. o \in 0..(K - 1) /\ s \in 0..(K - 1) /\ K \in Nat
  BY <1>1, NumSeasonsAssumption DEF StepsOfARound
<1>3. (q < r => a + K <= b) /\ (r < q => b + K <= a)
  BY RoundsFollow
<1>4. q = r => a = b
  OBVIOUS
<1> HIDE DEF a, b, K
<1>5. /\ a + o < b + s <=> q < r \/ (q = r /\ o < s)
      /\ a + o > b + s <=> q > r \/ (q = r /\ o > s)
      /\ a + o >= 0
  BY <1>1, <1>2, <1>3, <1>4
<1> QED
  BY <1>5 DEF a, b

\* The Round and the place in it of a checkpoint's step: the end is of a Round after all.
RoundOfStep(c) == IF c = Finished THEN MaxRounds + 1 ELSE c.round
PlaceOfStep(c) == IF IsRecap(c) THEN NumSeasons + 1 ELSE c.season

\* A checkpoint is the step at its place in its Round.
LEMMA CheckpointsAreSteps ==
    ASSUME NEW n \in 1..MaxRounds, NEW c \in AllCheckpoints(n), c # NotStarted
    PROVE  /\ RoundOfStep(c) \in Nat \ {0}
           /\ PlaceOfStep(c) \in StepsOfARound
           /\ stepOf(c) = roundStart(RoundOfStep(c)) + PlaceOfStep(c)
<1> USE DEF RoundOfStep, PlaceOfStep, StepsOfARound, stepOf, IsRecap,
            NotStarted, Investment, TradingPeriod, Recap, Finished
<1>0. NumSeasons \in Nat /\ MaxRounds \in Nat \ {0}
  BY NumSeasonsAssumption, CatalogAssumption
<1>1. CASE \E r \in 1..n : c = Investment(r)
  BY <1>0, <1>1, StepsAreCounted
<1>2. CASE \E r \in 1..n, s \in Seasons : c = TradingPeriod(r, s)
  BY <1>0, <1>2, StepsAreCounted DEF Seasons
<1>3. CASE \E r \in 1..n : c = Recap(r)
  BY <1>0, <1>3, StepsAreCounted
<1>4. CASE c = Finished
  <2>1. MaxRounds + 1 \in Nat \ {0}
    BY <1>0
  <2> QED
    BY <1>0, <1>4, <2>1, StepsAreCounted
<1> QED
  BY <1>1, <1>2, <1>3, <1>4, CheckpointKinds

\* Where a node that spans some of a Round's steps stands at c.
LEMMA WhereANodeStands ==
    ASSUME NEW n \in 1..MaxRounds, NEW c \in AllCheckpoints(n), NEW r \in 1..n,
           NEW o \in StepsOfARound, NEW s \in StepsOfARound
    PROVE  statusOf(stepOf(c), roundStart(r) + o, roundStart(r) + s)
             = IF \/ c = NotStarted
                  \/ RoundOfStep(c) < r
                  \/ RoundOfStep(c) = r /\ PlaceOfStep(c) < o
                 THEN "future"
               ELSE IF RoundOfStep(c) > r \/ (RoundOfStep(c) = r /\ PlaceOfStep(c) > s)
                 THEN "past"
               ELSE "current"
<1>1. r \in Nat \ {0}
  OBVIOUS
<1>2. CASE c = NotStarted
  <2>1. stepOf(c) = -1
    BY <1>2 DEF stepOf, NotStarted, IsRecap
  <2>2. roundStart(r) + o >= 0 /\ roundStart(r) \in Nat /\ o \in Nat
    BY <1>1, StepsCompare, StepsAreCounted DEF StepsOfARound
  <2> QED
    BY <1>2, <2>1, <2>2 DEF statusOf
<1>3. CASE c # NotStarted
  <2> DEFINE q == RoundOfStep(c)
             p == PlaceOfStep(c)
  <2>1. q \in Nat \ {0} /\ p \in StepsOfARound /\ stepOf(c) = roundStart(q) + p
    BY <1>3, CheckpointsAreSteps
  <2> HIDE DEF q, p
  <2>2. /\ roundStart(q) + p < roundStart(r) + o <=> q < r \/ (q = r /\ p < o)
        /\ roundStart(q) + p > roundStart(r) + s <=> q > r \/ (q = r /\ p > s)
    BY <1>1, <2>1, StepsCompare
  <2> QED
    BY <1>3, <2>1, <2>2 DEF statusOf, q, p
<1> QED
  BY <1>2, <1>3

\* Whether a Trading period has been reached at c.
HasCome(p, c) ==
    CASE c.kind = "NotStarted" -> FALSE
      [] IsInvestment(c)       -> p.round < c.round
      [] IsTrading(c)          -> p = c \/ EarlierPeriod(p, c)
      [] IsRecap(c)            -> p.round <= c.round
      [] OTHER                 -> TRUE

\* So a season stands where its period does, and a Round and its Recap where theirs do
\* (workshop-timeline.ts).
LEMMA TimelineStands ==
    ASSUME NEW n \in 1..MaxRounds, NEW c \in AllCheckpoints(n), NEW r \in 1..n
    PROVE  /\ \A s \in Seasons :
                statusOf(stepOf(c), roundStart(r) + s, roundStart(r) + s)
                  = IF c = TradingPeriod(r, s) THEN "current"
                    ELSE IF HasCome(TradingPeriod(r, s), c) THEN "past" ELSE "future"
           /\ statusOf(stepOf(c), roundStart(r) + (NumSeasons + 1), roundStart(r) + (NumSeasons + 1))
                = "future" <=> ~RecapOpen(c, r)
           /\ statusOf(stepOf(c), roundStart(r) + 0, roundStart(r) + NumSeasons) = "current"
                <=> c \notin {NotStarted, Finished} /\ r = CurrentRound(c, n) /\ ~RecapOpen(c, r)
<1> DEFINE Stands(o, s) == statusOf(stepOf(c), roundStart(r) + o, roundStart(r) + s)
           AsPut(o, s) == IF \/ c = NotStarted
                             \/ RoundOfStep(c) < r
                             \/ RoundOfStep(c) = r /\ PlaceOfStep(c) < o
                            THEN "future"
                          ELSE IF RoundOfStep(c) > r \/ (RoundOfStep(c) = r /\ PlaceOfStep(c) > s)
                            THEN "past"
                          ELSE "current"
           StandsWell == /\ \A s \in Seasons :
                               AsPut(s, s) = IF c = TradingPeriod(r, s) THEN "current"
                                             ELSE IF HasCome(TradingPeriod(r, s), c) THEN "past"
                                             ELSE "future"
                         /\ AsPut(NumSeasons + 1, NumSeasons + 1) = "future" <=> ~RecapOpen(c, r)
                         /\ AsPut(0, NumSeasons) = "current" <=>
                              /\ c \notin {NotStarted, Finished}
                              /\ r = CurrentRound(c, n)
                              /\ ~RecapOpen(c, r)
<1>0. NumSeasons \in Nat \ {0} /\ MaxRounds \in Nat \ {0} /\ n \in Nat /\ r \in Nat \ {0}
  BY NumSeasonsAssumption, CatalogAssumption
<1>1. \A o, s \in StepsOfARound : Stands(o, s) = AsPut(o, s)
  BY WhereANodeStands
<1>2. StandsWell
  <2> USE <1>0 DEF RoundOfStep, PlaceOfStep, HasCome, EarlierPeriod, RecapOpen, CurrentRound, Seasons,
                   IsInvestment, IsTrading, IsRecap,
                   NotStarted, Investment, TradingPeriod, Recap, Finished
  <2>1. CASE c = NotStarted
    BY <2>1
  <2>2. CASE \E q \in 1..n : c = Investment(q)
    BY <2>2
  <2>3. CASE \E q \in 1..n, s \in Seasons : c = TradingPeriod(q, s)
    BY <2>3
  <2>4. CASE \E q \in 1..n : c = Recap(q)
    BY <2>4
  <2>5. CASE c = Finished
    BY <2>5
  <2> HIDE DEF StandsWell
  <2> QED
    BY <2>1, <2>2, <2>3, <2>4, <2>5, CheckpointKinds
<1>3. /\ \A s \in Seasons : s \in StepsOfARound
      /\ {0, NumSeasons, NumSeasons + 1} \subseteq StepsOfARound
  BY <1>0 DEF Seasons, StepsOfARound
<1> HIDE DEF AsPut
<1>4. /\ \A s \in Seasons : Stands(s, s) = AsPut(s, s)
      /\ Stands(NumSeasons + 1, NumSeasons + 1) = AsPut(NumSeasons + 1, NumSeasons + 1)
      /\ Stands(0, NumSeasons) = AsPut(0, NumSeasons)
  BY <1>1, <1>3
<1> QED
  BY <1>2, <1>4

\* The seasons reached of a Round are a first part of them.
LEMMA FirstSeasonsReached ==
    ASSUME NEW n \in Nat \ {0}, NEW c \in AllCheckpoints(n), NEW r \in 1..n
    PROVE  \E m \in 0..NumSeasons : { s \in Seasons : HasCome(TradingPeriod(r, s), c) } = 1..m
<1> DEFINE S == { s \in Seasons : HasCome(TradingPeriod(r, s), c) }
<1>0. NumSeasons \in Nat \ {0}
  BY NumSeasonsAssumption
<1>1. CASE \E t \in 1..NumSeasons : c = TradingPeriod(r, t)
  <2>1. PICK t \in 1..NumSeasons : c = TradingPeriod(r, t)
    BY <1>1
  <2>2. ASSUME NEW s \in Seasons PROVE HasCome(TradingPeriod(r, s), c) <=> s <= t
    <3> DEFINE p == TradingPeriod(r, s)
    <3>1. /\ c.kind = "TradingPeriod" /\ c.round = r /\ c.season = t
          /\ p.round = r /\ p.season = s /\ (p = c <=> s = t)
      BY <2>1 DEF TradingPeriod
    <3> HIDE DEF p
    <3>2. HasCome(p, c) <=> p = c \/ EarlierPeriod(p, c)
      BY <3>1 DEF HasCome, EarlierPeriod, IsInvestment, IsTrading, IsRecap
    <3>3. EarlierPeriod(p, c) <=> s < t
      BY <1>0, <3>1 DEF EarlierPeriod
    <3>4. s \in Nat /\ t \in Nat
      BY <1>0 DEF Seasons
    <3>5. HasCome(p, c) <=> s <= t
      BY <3>1, <3>2, <3>3, <3>4
    <3> QED
      BY <3>5 DEF p
  <2>3. S = 1..t
    BY <1>0, <2>2 DEF Seasons
  <2> HIDE DEF S
  <2>4. \E m \in 0..NumSeasons : S = 1..m
    BY <1>0, <2>3
  <2> QED
    BY <2>4 DEF S
<1>2. CASE ~(\E t \in 1..NumSeasons : c = TradingPeriod(r, t))
  <2>1. \A s, t \in Seasons : HasCome(TradingPeriod(r, s), c) => HasCome(TradingPeriod(r, t), c)
    BY <1>0, <1>2, CheckpointKinds
    DEF HasCome, EarlierPeriod, IsInvestment, IsTrading, IsRecap, Seasons,
        NotStarted, Investment, TradingPeriod, Recap, Finished
  <2>2. S = Seasons \/ S = {}
    BY <2>1
  <2>3. Seasons = 1..NumSeasons /\ {} = 1..0
    BY DEF Seasons
  <2> HIDE DEF S
  <2>4. S = 1..NumSeasons \/ S = 1..0
    BY <2>2, <2>3
  <2>5. \E m \in 0..NumSeasons : S = 1..m
    BY <1>0, <2>4
  <2> QED
    BY <2>5 DEF S
<1> QED
  BY <1>1, <1>2

\* The latest of the first m seasons is how many they are.
LEMMA LatestOfFirst ==
    ASSUME NEW m \in Nat, NEW S, S = 1..m
    PROVE  (IF S = {} THEN NoSeason ELSE CHOOSE s \in S : \A q \in S : q <= s) = Cardinality(S)
<1>1. Cardinality(S) = m
  <2>1. 1 \in Int /\ m \in Int
    OBVIOUS
  <2>2. Cardinality(1..m) = IF 1 > m THEN 0 ELSE m - 1 + 1
    BY <2>1, FS_Interval
  <2> QED
    BY <2>2
<1>2. CASE m = 0
  BY <1>1, <1>2 DEF NoSeason
<1>3. CASE m # 0
  <2>1. m \in S /\ \A q \in S : q <= m
    BY <1>3
  <2>2. \A s \in S : (\A q \in S : q <= s) => s = m
    BY <2>1
  <2>3. (CHOOSE s \in S : \A q \in S : q <= s) = m
    BY <2>1, <2>2
  <2> QED
    BY <1>1, <2>1, <2>3
<1> QED
  BY <1>2, <1>3

\* The season a place among the Trading periods is of.
LEMMA PlacesDivide ==
    ASSUME NEW q \in Nat, NEW t \in 0..(NumSeasons - 1)
    PROVE  /\ q * NumSeasons + t \in Nat
           /\ (q * NumSeasons + t) \div NumSeasons = q
           /\ (q * NumSeasons + t) % NumSeasons = t
<1> DEFINE k == NumSeasons
           x == q * k + t
           d == x \div k
           m == x % k
<1>1. k \in Nat \ {0} /\ q * k \in Nat
  BY NumSeasonsAssumption
<1>2. x \in Nat
  BY <1>1
<1> HIDE DEF k
<1>3. d \in Int /\ m \in 0..(k - 1) /\ x = k * d + m
  BY <1>1, <1>2
<1>4. t \in 0..(k - 1)
  BY DEF k
<1> HIDE DEF d, m
<1>5. d = q
  <2>1. CASE d < q
    <3>1. q - d - 1 \in Nat /\ k * (q - d - 1) \in Nat
      BY <1>1, <1>3, <2>1
    <3>2. k * (q - d - 1) = q * k - k * d - k
      BY <1>1, <1>3
    <3> QED
      BY <1>1, <1>3, <1>4, <3>1, <3>2
  <2>2. CASE d > q
    <3>1. d - q - 1 \in Nat /\ k * (d - q - 1) \in Nat
      BY <1>1, <1>3, <2>2
    <3>2. k * (d - q - 1) = k * d - q * k - k
      BY <1>1, <1>3
    <3> QED
      BY <1>1, <1>3, <1>4, <3>1, <3>2
  <2> QED
    BY <1>3, <2>1, <2>2
<1>6. m = t
  BY <1>1, <1>3, <1>4, <1>5
<1> QED
  BY <1>2, <1>5, <1>6 DEF d, m, k

\* A link to a season, if it has been reached.
LinkTo(timeline, r, s) ==
    IF r > Len(timeline) \/ timeline[r].seasons[s].status = "future" THEN NoLink
    ELSE TradingPeriod(r, s)

\* The neighbours of a season are those played just before and after it (adjacentSeasons).
LEMMA LinksToNeighbours ==
    ASSUME NEW timeline, NEW r \in Nat \ {0}, NEW s \in Seasons
    PROVE  /\ adjacentSeasons(timeline, r, s).next =
                IF s < NumSeasons THEN LinkTo(timeline, r, s + 1) ELSE LinkTo(timeline, r + 1, 1)
           /\ adjacentSeasons(timeline, r, s).previous =
                IF s > 1 THEN LinkTo(timeline, r, s - 1)
                ELSE IF r > 1 THEN LinkTo(timeline, r - 1, NumSeasons) ELSE NoLink
<1> DEFINE k == NumSeasons
           index == (r - 1) * k + s - 1
           linkAt(at) ==
             IF \/ at < 0 \/ (at \div k) + 1 > Len(timeline)
                \/ timeline[(at \div k) + 1].seasons[(at % k) + 1].status = "future"
               THEN NoLink ELSE TradingPeriod((at \div k) + 1, (at % k) + 1)
<1>1. /\ adjacentSeasons(timeline, r, s).next = linkAt(index + 1)
      /\ adjacentSeasons(timeline, r, s).previous = linkAt(index - 1)
  BY DEF adjacentSeasons
<1>2. k \in Nat \ {0} /\ s \in 1..k
  BY NumSeasonsAssumption DEF Seasons
<1>3. ASSUME NEW q \in Nat \ {0}, NEW t \in 1..k
      PROVE  linkAt((q - 1) * k + (t - 1)) = LinkTo(timeline, q, t)
  <2> DEFINE at == (q - 1) * k + (t - 1)
  <2>1. q - 1 \in Nat /\ t - 1 \in 0..(k - 1)
    BY <1>2
  <2>2. at \in Nat /\ at \div k = q - 1 /\ at % k = t - 1
    BY <2>1, PlacesDivide
  <2> HIDE DEF at, k
  <2>3. ~(at < 0) /\ (at \div k) + 1 = q /\ (at % k) + 1 = t
    BY <2>2
  <2>4. linkAt(at) = LinkTo(timeline, q, t)
    BY <2>3 DEF LinkTo
  <2> QED
    BY <2>4 DEF at
<1>4. index \in Int /\ (r - 1) * k \in Nat
  BY <1>2
<1>5. ASSUME s < k PROVE linkAt(index + 1) = LinkTo(timeline, r, s + 1)
  <2>1. index + 1 = (r - 1) * k + ((s + 1) - 1) /\ s + 1 \in 1..k
    BY <1>2, <1>4, <1>5
  <2> HIDE DEF index, linkAt
  <2>2. linkAt(index + 1) = LinkTo(timeline, r, s + 1)
    BY <1>3, <2>1
  <2> QED
    BY <2>2
<1>6. ASSUME s = k PROVE linkAt(index + 1) = LinkTo(timeline, r + 1, 1)
  <2>1. index + 1 = ((r + 1) - 1) * k + (1 - 1) /\ r + 1 \in Nat \ {0} /\ 1 \in 1..k
    BY <1>2, <1>4, <1>6
  <2> HIDE DEF index, linkAt
  <2>2. linkAt(index + 1) = LinkTo(timeline, r + 1, 1)
    BY <1>3, <2>1
  <2> QED
    BY <2>2
<1>7. linkAt(index + 1) = IF s < k THEN LinkTo(timeline, r, s + 1) ELSE LinkTo(timeline, r + 1, 1)
  <2> HIDE DEF index, linkAt, k
  <2>1. s < k \/ (s = k /\ ~(s < k))
    BY <1>2
  <2> QED
    BY <1>5, <1>6, <2>1
<1>8. linkAt(index - 1) = IF s > 1 THEN LinkTo(timeline, r, s - 1)
                          ELSE IF r > 1 THEN LinkTo(timeline, r - 1, k) ELSE NoLink
  <2>1. CASE s > 1
    <3>1. index - 1 = (r - 1) * k + ((s - 1) - 1) /\ s - 1 \in 1..k
      BY <1>2, <1>4, <2>1
    <3> HIDE DEF index, linkAt
    <3>2. linkAt(index - 1) = LinkTo(timeline, r, s - 1)
      BY <1>3, <3>1
    <3> QED
      BY <2>1, <3>2
  <2>2. CASE s = 1 /\ r > 1
    <3>1. index - 1 = ((r - 1) - 1) * k + (k - 1) /\ r - 1 \in Nat \ {0} /\ k \in 1..k
      BY <1>2, <1>4, <2>2
    <3> HIDE DEF index, linkAt
    <3>2. linkAt(index - 1) = LinkTo(timeline, r - 1, k)
      BY <1>3, <3>1
    <3> QED
      BY <2>2, <3>2
  <2>3. CASE s = 1 /\ r = 1
    <3>1. index - 1 < 0
      BY <1>2, <2>3
    <3>2. linkAt(index - 1) = NoLink
      BY <3>1
    <3> QED
      BY <2>3, <3>2
  <2> HIDE DEF index, linkAt, k
  <2>4. s > 1 \/ (s = 1 /\ r > 1) \/ (s = 1 /\ r = 1)
    BY <1>2
  <2> QED
    BY <2>1, <2>2, <2>3, <2>4
<1> HIDE DEF index, linkAt
<1> QED
  BY <1>1, <1>7, <1>8

-----------------------------------------------------------------------------
(***************************************************************************)
(* What the timeline tells is what the session has played.                 *)
(***************************************************************************)
\* Blackouts are of periods that have their results.
DarkInv ==
    \A i \in DOMAIN session.blackouts :
       TradingPeriod(session.blackouts[i].round, session.blackouts[i].season) \in Listed

\* They come with them (finish_settlement).
LEMMA DarkInvKept == SessionInv /\ RoomInv /\ DarkInv /\ [Next]_vars => DarkInv'
<1> SUFFICES ASSUME SessionInv, RoomInv, DarkInv, [Next]_vars PROVE DarkInv'
  OBVIOUS
<1> DEFINE n    == session.roundCount
           dark == session.blackouts
<1>1. dark \in Seq(Dark) /\ session.recordedPeriods \in Seq(TradingPeriods(n))
  BY DEF RoomInv, SessionInv, PaceInv
<1>2. ASSUME NEW i \in DOMAIN jobs, NEW outcome \in Outcomes(jobs[i]), WaitingFor(jobs[i]),
             session' = Settled(session, jobs[i], outcome)
      PROVE  /\ session'.recordedPeriods = Append(session.recordedPeriods, Here)
             /\ session'.blackouts = dark \o PeriodBlackouts(Here, outcome.blackouts)
             /\ outcome.blackouts \in Nat
             /\ Here \in TradingPeriods(n)
  <2>1. jobs[i].period = Here /\ IsTrading(Here)
    BY <1>2, TheOnlyJob DEF WaitingFor, SessionInv
  <2>2. Here \in TradingPeriods(n)
    BY <2>1, WhereTheSessionIs, TradingIsAPeriod
  <2>3. outcome.blackouts \in Nat
    BY SessionAssumption DEF Outcomes
  <2>4. session'.recordedPeriods = Append(session.recordedPeriods, Here)
    BY <1>2, <2>1 DEF SessionInv, Sound, IsSession, SessionFields, Settled
  <2>5. session'.blackouts = dark \o PeriodBlackouts(Here, outcome.blackouts)
    <3> DEFINE job == jobs[i]
    <3> HIDE DEF job
    <3>1. IsSession(session)
      BY DEF SessionInv, Sound
    <3>2. Settled(session, job, outcome).blackouts
            = session.blackouts \o PeriodBlackouts(job.period, outcome.blackouts)
      BY <3>1, SettledBlackouts
    <3>3. session' = Settled(session, job, outcome) /\ job.period = Here
      BY <1>2, <2>1 DEF job
    <3> QED
      BY <3>2, <3>3
  <2> QED
    BY <2>2, <2>3, <2>4, <2>5
<1>3. Listed \subseteq Listed'
  <2>1. CASE session'.recordedPeriods = session.recordedPeriods
    BY <2>1 DEF Listed
  <2>2. ASSUME NEW p \in TradingPeriods(n),
               session'.recordedPeriods = Append(session.recordedPeriods, p)
        PROVE  Listed \subseteq Listed'
    <3> DEFINE list == session.recordedPeriods
    <3>1. /\ DOMAIN list \subseteq DOMAIN Append(list, p)
          /\ \A i \in DOMAIN list : Append(list, p)[i] = list[i]
      BY <1>1
    <3> QED
      BY <2>2, <3>1 DEF Listed
  <2> QED
    BY <1>2, <2>1, <2>2, OnlySettlingLists DEF SessionInv, Finishing
<1>4. CASE session'.blackouts = dark
  BY <1>3, <1>4 DEF DarkInv
<1>5. CASE Finishing
  <2>1. PICK k \in Nat :
          /\ session'.recordedPeriods = Append(session.recordedPeriods, Here)
          /\ session'.blackouts = dark \o PeriodBlackouts(Here, k)
          /\ Here \in TradingPeriods(n)
    <3>1. PICK i \in DOMAIN jobs : \E outcome \in Outcomes(jobs[i]) :
            WaitingFor(jobs[i]) /\ session' = Settled(session, jobs[i], outcome)
      BY <1>5 DEF Finishing
    <3>2. PICK outcome \in Outcomes(jobs[i]) :
            WaitingFor(jobs[i]) /\ session' = Settled(session, jobs[i], outcome)
      BY <3>1
    <3> QED
      BY <1>2, <3>2
  <2>2. Here \in Listed'
    <3> DEFINE list  == session.recordedPeriods
               after == Append(list, Here)
    <3>1. Len(list) + 1 \in DOMAIN after /\ after[Len(list) + 1] = Here
      BY <1>1
    <3> QED
      BY <2>1, <3>1 DEF Listed
  <2> DEFINE b    == [round |-> Here.round, season |-> Here.season]
             more == PeriodBlackouts(Here, k)
  <2>3. Here = TradingPeriod(b.round, b.season) /\ b \in Dark
    BY <2>1, NumSeasonsAssumption DEF TradingPeriods, TradingPeriod, Dark, Seasons
  <2>4. more = [j \in 1..k |-> b]
    BY DEF PeriodBlackouts
  <2> HIDE DEF b, more
  <2>5. more \in Seq(Dark) /\ \A j \in DOMAIN more : more[j] = b
    BY <2>3, <2>4
  <2>6. \A i \in DOMAIN (dark \o more) : \/ i \in DOMAIN dark /\ (dark \o more)[i] = dark[i]
                                         \/ (dark \o more)[i] = b
    BY <1>1, <2>5
  <2>7. session'.blackouts = dark \o more
    BY <2>1 DEF more
  <2> HIDE DEF dark
  <2>8. \A i \in DOMAIN session'.blackouts : \/ i \in DOMAIN dark /\ session'.blackouts[i] = dark[i]
                                             \/ session'.blackouts[i] = b
    BY <2>6, <2>7
  <2> QED
    BY <1>3, <2>2, <2>3, <2>8 DEF DarkInv, dark
<1> QED
  <2>1. \/ RoomKept({})
        \/ RoomKept({"priceRoundCount"})
        \/ Moving /\ RoomKept({"firedEvents", "fuelPrices"})
        \/ Finishing /\ RoomKept({"blackouts", "demandAmplitude"})
    BY EveryStepOfTheRoom DEF SessionInv
  <2> QED
    BY <1>4, <1>5, <2>1 DEF RoomKept, RoomFields

\* The periods that have come are the one the session is at and those listed.
LEMMA ListedHaveCome ==
    ASSUME SessionInv, Played!GameInv, NEW p \in TradingPeriods(session.roundCount)
    PROVE  p = Here \/ p \in Listed <=> HasCome(p, Here)
<1> DEFINE n == session.roundCount
<1>1. n \in Nat \ {0} /\ Here \in AllCheckpoints(n)
  BY WhereTheSessionIs
<1>2. file = session /\ session.recordedPeriods \in Seq(TradingPeriods(n))
  BY DEF SessionInv, Sound, PaceInv
<1>3. IsTrading(p)
  BY DEF TradingPeriods, TradingPeriod, IsTrading
<1>4. HasCome(p, Here) <=> p = Here \/ Played!Behind(p, Here)
  BY <1>1, <1>3, CheckpointKinds
  DEF HasCome, EarlierPeriod, IsInvestment, IsTrading, IsRecap, Played!Behind, Played!EarlierPeriod,
      Played!IsInvestment, Played!IsTrading, Played!IsRecap,
      NotStarted, Investment, TradingPeriod, Recap, Finished
<1>5. Played!Behind(p, Here) => p \in Listed
  <2>1. p \in Played!TradingPeriods(n)
    BY DEF TradingPeriods, TradingPeriod, Seasons, Played!TradingPeriods, Played!TradingPeriod,
           Played!Seasons
  <2>2. Played!NoneMissed
    BY DEF Played!GameInv
  <2> QED
    BY <1>2, <2>1, <2>2 DEF Played!NoneMissed, Listed, Here
<1>6. p \in Listed => p = Here \/ Played!Behind(p, Here)
  <2>1. Played!SettledNotAhead
    BY DEF Played!GameInv
  <2>2. DOMAIN session.recordedPeriods = 1..Len(session.recordedPeriods)
    BY <1>2
  <2> QED
    BY <1>2, <2>1, <2>2 DEF Played!SettledNotAhead, Listed, Here
<1> QED
  BY <1>4, <1>5, <1>6

\* What a timeline holds of each Round and season.
LEMMA TimelineIs ==
    ASSUME NEW n \in 1..MaxRounds, NEW c \in AllCheckpoints(n), NEW blackouts, NEW timeline,
           timeline = workshopTimeline(c, n, blackouts)
    PROVE  /\ Len(timeline) = n
           /\ \A r \in 1..n :
                /\ timeline[r].recap = "future" <=> ~RecapOpen(c, r)
                /\ timeline[r].status = "current" <=>
                     c \notin {NotStarted, Finished} /\ r = CurrentRound(c, n) /\ ~RecapOpen(c, r)
                /\ \A s \in Seasons :
                     /\ timeline[r].seasons[s].status
                          = IF c = TradingPeriod(r, s) THEN "current"
                            ELSE IF HasCome(TradingPeriod(r, s), c) THEN "past" ELSE "future"
                     /\ timeline[r].seasons[s].blackout <=>
                          \E i \in DOMAIN blackouts : blackouts[i] = [round |-> r, season |-> s]
<1> DEFINE current == stepOf(c)
           Season(r, s) ==
             [status   |-> statusOf(current, roundStart(r) + s, roundStart(r) + s),
              blackout |-> \E i \in DOMAIN blackouts : blackouts[i] = [round |-> r, season |-> s]]
           recapStep(r) == roundStart(r) + STEPS_PER_ROUND - 1
           Node(r) ==
             [status  |-> statusOf(current, roundStart(r), roundStart(r) + NumSeasons),
              seasons |-> [s \in Seasons |-> Season(r, s)],
              recap   |-> statusOf(current, recapStep(r), recapStep(r))]
<1>1. timeline = [r \in 1..n |-> Node(r)]
  BY DEF workshopTimeline
<1>2. n \in Nat
  BY CatalogAssumption
<1> HIDE DEF Node
<1>3. Len(timeline) = n /\ \A r \in 1..n : timeline[r] = Node(r)
  BY <1>1, <1>2
<1> SUFFICES ASSUME NEW r \in 1..n
             PROVE  /\ Node(r).recap = "future" <=> ~RecapOpen(c, r)
                    /\ Node(r).status = "current" <=>
                         /\ c \notin {NotStarted, Finished}
                         /\ r = CurrentRound(c, n)
                         /\ ~RecapOpen(c, r)
                    /\ \A s \in Seasons :
                         /\ Node(r).seasons[s].status
                              = IF c = TradingPeriod(r, s) THEN "current"
                                ELSE IF HasCome(TradingPeriod(r, s), c) THEN "past" ELSE "future"
                         /\ Node(r).seasons[s].blackout <=>
                              \E i \in DOMAIN blackouts : blackouts[i] = [round |-> r, season |-> s]
  BY <1>3
<1>4. /\ Node(r).recap = statusOf(current, recapStep(r), recapStep(r))
      /\ Node(r).status = statusOf(current, roundStart(r), roundStart(r) + NumSeasons)
      /\ \A s \in Seasons :
           /\ Node(r).seasons[s].status = statusOf(current, roundStart(r) + s, roundStart(r) + s)
           /\ Node(r).seasons[s].blackout
                <=> \E i \in DOMAIN blackouts : blackouts[i] = [round |-> r, season |-> s]
  BY DEF Node
<1>5. /\ recapStep(r) = roundStart(r) + (NumSeasons + 1)
      /\ roundStart(r) = roundStart(r) + 0
  <2>1. roundStart(r) \in Nat /\ STEPS_PER_ROUND = NumSeasons + 2
    BY <1>2, StepsAreCounted
  <2> QED
    BY <2>1, NumSeasonsAssumption
<1> HIDE DEF recapStep, current
<1>6. /\ Node(r).recap
           = statusOf(current, roundStart(r) + (NumSeasons + 1), roundStart(r) + (NumSeasons + 1))
      /\ Node(r).status = statusOf(current, roundStart(r) + 0, roundStart(r) + NumSeasons)
  BY <1>4, <1>5
<1>7. /\ \A s \in Seasons :
           statusOf(current, roundStart(r) + s, roundStart(r) + s)
             = IF c = TradingPeriod(r, s) THEN "current"
               ELSE IF HasCome(TradingPeriod(r, s), c) THEN "past" ELSE "future"
      /\ statusOf(current, roundStart(r) + (NumSeasons + 1), roundStart(r) + (NumSeasons + 1))
           = "future" <=> ~RecapOpen(c, r)
      /\ statusOf(current, roundStart(r) + 0, roundStart(r) + NumSeasons) = "current"
           <=> c \notin {NotStarted, Finished} /\ r = CurrentRound(c, n) /\ ~RecapOpen(c, r)
  BY TimelineStands DEF current
<1> QED
  BY <1>4, <1>6, <1>7

\* A timeline of a session tells what it has played.
LEMMA TimelineTells ==
    ASSUME SessionInv, Played!GameInv, RoomInv, DarkInv
    PROVE  TimelineFollows
<1> DEFINE n == session.roundCount
           timeline == workshopTimeline(Here, n, session.blackouts)
           Done(p) == p = Here \/ \E i \in DOMAIN session.recordedPeriods :
                                     session.recordedPeriods[i] = p
           Status(p) == IF p = Here THEN "current" ELSE IF Done(p) THEN "past" ELSE "future"
<1>1. n \in 1..MaxRounds /\ n \in Nat \ {0} /\ Here \in AllCheckpoints(n)
  <2>1. n \in StartRounds..MaxRounds
    BY DEF SessionInv, PaceInv, TypeOKPace
  <2> QED
    BY <2>1, WhereTheSessionIs, SessionAssumption, CatalogAssumption
<1>2. \A r \in 1..n, s \in Seasons :
        Done(TradingPeriod(r, s)) <=> HasCome(TradingPeriod(r, s), Here)
  <2>1. \A r \in 1..n, s \in Seasons : TradingPeriod(r, s) \in TradingPeriods(n)
    BY DEF TradingPeriods
  <2>2. \A p : Done(p) <=> p = Here \/ p \in Listed
    BY DEF Listed
  <2> HIDE DEF Done
  <2> QED
    BY <2>1, <2>2, ListedHaveCome
<1>3. /\ Len(timeline) = n
      /\ \A r \in 1..n :
           /\ timeline[r].recap = "future" <=> ~RecapOpen(Here, r)
           /\ timeline[r].status = "current" <=>
                /\ Here \notin {NotStarted, Finished}
                /\ r = CurrentRound(Here, n)
                /\ ~RecapOpen(Here, r)
           /\ \A s \in Seasons :
                /\ timeline[r].seasons[s].status
                     = IF Here = TradingPeriod(r, s) THEN "current"
                       ELSE IF HasCome(TradingPeriod(r, s), Here) THEN "past" ELSE "future"
                /\ timeline[r].seasons[s].blackout <=>
                     \E i \in DOMAIN session.blackouts :
                        session.blackouts[i] = [round |-> r, season |-> s]
  BY <1>1, TimelineIs
<1> HIDE DEF timeline
<1>4. NumSeasons \in Nat \ {0} /\ Seasons = 1..NumSeasons
  BY NumSeasonsAssumption DEF Seasons
<1>5. \A r \in 1..n, s \in Seasons :
        /\ timeline[r].seasons[s].status = Status(TradingPeriod(r, s))
        /\ timeline[r].seasons[s].status # "future" <=> Done(TradingPeriod(r, s))
  <2> SUFFICES ASSUME NEW r \in 1..n, NEW s \in Seasons
               PROVE  /\ timeline[r].seasons[s].status = Status(TradingPeriod(r, s))
                      /\ timeline[r].seasons[s].status # "future" <=> Done(TradingPeriod(r, s))
    OBVIOUS
  <2>1. Done(TradingPeriod(r, s)) <=> HasCome(TradingPeriod(r, s), Here)
    BY <1>2
  <2>2. TradingPeriod(r, s) = Here => Done(TradingPeriod(r, s))
    OBVIOUS
  <2>3. timeline[r].seasons[s].status
          = IF Here = TradingPeriod(r, s) THEN "current"
            ELSE IF HasCome(TradingPeriod(r, s), Here) THEN "past" ELSE "future"
    BY <1>3
  <2> HIDE DEF Done
  <2> QED
    BY <2>1, <2>2, <2>3
<1>6. \A r \in 1..n :
        latestSeason(timeline[r]) = Cardinality({ s \in Seasons : Done(TradingPeriod(r, s)) })
  <2> SUFFICES ASSUME NEW r \in 1..n
               PROVE  latestSeason(timeline[r])
                        = Cardinality({ s \in Seasons : Done(TradingPeriod(r, s)) })
    OBVIOUS
  <2> DEFINE reached == { s \in Seasons : timeline[r].seasons[s].status \in {"past", "current"} }
             come    == { s \in Seasons : HasCome(TradingPeriod(r, s), Here) }
  <2> HIDE DEF Done
  <2>1. { s \in Seasons : Done(TradingPeriod(r, s)) } = come
    BY <1>2
  <2>2. reached = come
    BY <1>2, <1>3, <1>5
  <2>3. PICK m \in 0..NumSeasons : come = 1..m
    BY <1>1, FirstSeasonsReached
  <2>4. latestSeason(timeline[r])
          = IF reached = {} THEN NoSeason ELSE CHOOSE s \in reached : \A q \in reached : q <= s
    BY DEF latestSeason
  <2>5. m \in Nat /\ reached = 1..m
    BY <1>4, <2>2, <2>3
  <2> HIDE DEF reached, come
  <2>6. (IF reached = {} THEN NoSeason ELSE CHOOSE s \in reached : \A q \in reached : q <= s)
          = Cardinality(reached)
    BY <2>5, LatestOfFirst
  <2> QED
    BY <2>1, <2>2, <2>4, <2>6
<1>7. ASSUME NEW q \in Nat \ {0}, NEW t \in Seasons
      PROVE  LinkTo(timeline, q, t)
               = IF q <= n /\ Done(TradingPeriod(q, t)) THEN TradingPeriod(q, t) ELSE NoLink
  <2> HIDE DEF Done
  <2>1. q <= n => (timeline[q].seasons[t].status # "future" <=> Done(TradingPeriod(q, t)))
    BY <1>1, <1>5
  <2> QED
    BY <1>1, <1>3, <2>1 DEF LinkTo
<1>8. \A q, t : TradingPeriod(q, t) # NoLink
  BY DEF TradingPeriod, NoLink, NoPeriod, NotStarted
<1>9. ASSUME NEW r \in 1..n, NEW s \in Seasons
      PROVE  LET links == adjacentSeasons(timeline, r, s)
             IN  /\ links.next # NoLink =>
                      Done(links.next) /\ EarlierPeriod(TradingPeriod(r, s), links.next)
                 /\ links.previous # NoLink =>
                      adjacentSeasons(timeline, links.previous.round, links.previous.season).next
                        = IF Done(TradingPeriod(r, s)) THEN TradingPeriod(r, s) ELSE NoLink
  <2> DEFINE links == adjacentSeasons(timeline, r, s)
  <2> HIDE DEF Done
  <2>0. r \in Nat \ {0}
    OBVIOUS
  <2>1. /\ links.next =
             IF s < NumSeasons THEN LinkTo(timeline, r, s + 1) ELSE LinkTo(timeline, r + 1, 1)
        /\ links.previous =
             IF s > 1 THEN LinkTo(timeline, r, s - 1)
             ELSE IF r > 1 THEN LinkTo(timeline, r - 1, NumSeasons) ELSE NoLink
    BY <2>0, LinksToNeighbours
  <2> HIDE DEF links
  <2>2. ASSUME links.next # NoLink
        PROVE  Done(links.next) /\ EarlierPeriod(TradingPeriod(r, s), links.next)
    <3>1. PICK q \in Nat \ {0}, t \in Seasons :
            /\ links.next = LinkTo(timeline, q, t)
            /\ r < q \/ (r = q /\ s < t)
      <4>1. CASE s < NumSeasons
        <5>1. s + 1 \in Seasons /\ s < s + 1 /\ links.next = LinkTo(timeline, r, s + 1)
          BY <1>4, <2>1, <4>1
        <5> QED
          BY <2>0, <5>1
      <4>2. CASE ~(s < NumSeasons)
        <5>1. 1 \in Seasons /\ r + 1 \in Nat \ {0} /\ r < r + 1
          BY <1>4, <2>0
        <5>2. links.next = LinkTo(timeline, r + 1, 1)
          BY <2>1, <4>2
        <5> QED
          BY <5>1, <5>2
      <4> QED
        BY <4>1, <4>2
    <3>2. links.next = TradingPeriod(q, t) /\ Done(TradingPeriod(q, t))
      BY <1>7, <2>2, <3>1
    <3> QED
      BY <3>1, <3>2 DEF EarlierPeriod, TradingPeriod
  <2>3. ASSUME links.previous # NoLink
        PROVE  adjacentSeasons(timeline, links.previous.round, links.previous.season).next
                 = IF Done(TradingPeriod(r, s)) THEN TradingPeriod(r, s) ELSE NoLink
    <3>1. PICK q \in Nat \ {0}, t \in Seasons :
            /\ links.previous = LinkTo(timeline, q, t)
            /\ IF t < NumSeasons THEN q = r /\ t + 1 = s ELSE q + 1 = r /\ s = 1
      BY <1>4, <2>0, <2>1, <2>3
    <3>2. links.previous = TradingPeriod(q, t)
      BY <1>7, <2>3, <3>1
    <3>3. links.previous.round = q /\ links.previous.season = t
      BY <3>2 DEF TradingPeriod
    <3>4. adjacentSeasons(timeline, q, t).next
            = IF t < NumSeasons THEN LinkTo(timeline, q, t + 1) ELSE LinkTo(timeline, q + 1, 1)
      BY LinksToNeighbours
    <3>5. adjacentSeasons(timeline, q, t).next = LinkTo(timeline, r, s)
      BY <3>1, <3>4
    <3>6. r <= n
      BY <1>1
    <3> QED
      BY <1>7, <2>0, <3>3, <3>5, <3>6
  <2> QED
    BY <2>2, <2>3 DEF links
<1>10. ASSUME NEW r \in 1..n, NEW s \in Seasons, timeline[r].seasons[s].blackout
       PROVE  Done(TradingPeriod(r, s))
  <2>1. PICK i \in DOMAIN session.blackouts :
          session.blackouts[i] = [round |-> r, season |-> s]
    BY <1>3, <1>10
  <2>2. TradingPeriod(r, s) \in Listed
    BY <2>1 DEF DarkInv
  <2> QED
    BY <2>2 DEF Listed
<1> HIDE DEF Done, Status
<1>11. RoundNow(session) = CurrentRound(Here, n)
  BY DEF RoundNow, Here
<1> QED
  BY <1>3, <1>5, <1>6, <1>9, <1>10, <1>11 DEF TimelineFollows, timeline, Done, Status

-----------------------------------------------------------------------------
\* The pages tell what the server does: in every state the timeline shows what has been
\* played, its links and blackouts too; the session moves on only where the advance button
\* said so, a Round is added or a plan changed only where the console offers it, and each
\* step sends a player to the page for where the session is (workshop-timeline.ts,
\* advanceAction, canAddRound, consoleRound, phaseRedirect).
THEOREM PagesAlwaysFollow == Spec => PagesFollowSession
<1>1. Init => TimerInv /\ DarkInv
  <2> SUFFICES ASSUME Init PROVE TimerInv /\ DarkInv
    OBVIOUS
  <2>1. session.phaseTimer = NoTimer /\ session.blackouts = <<>>
    BY DEF Init, NewSession
  <2> QED
    BY <2>1 DEF TimerInv, DarkInv, NoTimer
<1>2. WellKept /\ TimerInv /\ DarkInv /\ [Next]_vars => TimerInv' /\ DarkInv'
  BY TimerInvKept, DarkInvKept DEF WellKept, SettledWell
<1>3. WellKept /\ DarkInv /\ Played!GameInv => TimelineFollows
  BY TimelineTells DEF WellKept, SettledWell
<1> DEFINE button  == advanceAction(session, settlement # NoPeriod, PhaseOpen)
           changed == { r \in DOMAIN session.plans : session.plans[r] # session'.plans[r] }
           to      == phaseRedirect(PhaseSeen, PhaseSeen')
           Follows ==
             /\ Here' # Here => /\ button = IF Here = NotStarted THEN "start" ELSE "next"
                                /\ to = IF IsInvestment(Here') THEN facilitiesPage
                                        ELSE IF Here' = Finished THEN StaysPut
                                        ELSE homePage(Here', "player")
             /\ Here' = Here /\ PhaseOpen /\ ~PhaseOpen' => button = "close_window"
             /\ session'.roundCount > session.roundCount => canAddRound(Here, session.roundCount)
             /\ changed # {} =>
                  LET first == CHOOSE r \in changed : \A q \in changed : r <= q
                  IN  /\ first >= consoleRound(Here, session.plans)
                      /\ carriedRounds(session.plans, session'.plans, first) = changed \ {first}
<1>4. WellKept /\ TimerInv /\ [Next]_vars => Follows
  <2> SUFFICES ASSUME WellKept, TimerInv, [Next]_vars PROVE Follows
    OBVIOUS
  <2>1. SessionInv /\ VotesInv /\ PlansInv /\ SettlingInv
    BY DEF WellKept, SettledWell
  <2>2. ASSUME Here' # Here
        PROVE  /\ button = IF Here = NotStarted THEN "start" ELSE "next"
               /\ to = IF IsInvestment(Here') THEN facilitiesPage
                       ELSE IF Here' = Finished THEN StaysPut
                       ELSE homePage(Here', "player")
    BY <2>1, <2>2, ButtonsMoveOn
  <2>3. PhaseOpen => button = "close_window"
    BY <2>1, ButtonsCloseWindows
  <2>4. session'.roundCount > session.roundCount => canAddRound(Here, session.roundCount)
    BY <2>1, ConsoleAddsRounds
  <2>5. changed # {} =>
          LET first == CHOOSE r \in changed : \A q \in changed : r <= q
          IN  /\ first >= consoleRound(Here, session.plans)
              /\ carriedRounds(session.plans, session'.plans, first) = changed \ {first}
    <3>1. changed = { r \in DOMAIN session.plans : session.plans[r] # session'.plans[r] }
      OBVIOUS
    <3> HIDE DEF changed
    <3> QED
      BY <2>1, <3>1, ConsoleListsCarried
  <2> HIDE DEF button, changed, to
  <2> QED
    BY <2>2, <2>3, <2>4, <2>5
<1>5. [][Follows]_vars => PageFollowsStep
  BY PTL DEF PageFollowsStep
<1> HIDE DEF Follows
<1> QED
  BY <1>1, <1>2, <1>3, <1>4, <1>5, WellKeptHolds, SessionPlaysOn, PTL
  DEF Spec, PagesFollowSession
=============================================================================
