-------------------------- MODULE WorkshopSession ---------------------------
(***************************************************************************)
(* A Workshop Run's session: everything one facilitator-paced game is, its *)
(* file, and the operations that change it.  Every operation holds the     *)
(* session's lock, applies its change in memory, writes the whole session  *)
(* to the file and, if the write fails, undoes the change and raises.  So  *)
(* each operation is one action here, and its outcomes (saved, not saved)  *)
(* are the action's alternatives.  The simulation of a Trading period runs *)
(* without the lock: it is a job started by one operation and finished by  *)
(* another, with anything in between.                                      *)
(*                                                                         *)
(* The clock is abstract: timeUp says that the running phase's time is     *)
(* over.  It only ever moves forward.                                      *)
(***************************************************************************)
EXTENDS RoundPlans, Finance

CONSTANTS
    Admitted,         \* the accounts the Run admits as players
    StartRounds,      \* the Round count of a new session
    TimerSettings,    \* phase timers the facilitator may set, [investment, priceSetting]
    FirstTimers,      \* the timers of a new session
    MaxExtensions,    \* bound: extensions of one phase
    BonusSettings,    \* bonus multipliers the facilitator may set
    FirstBonus,
    PriceInputs,      \* prices players may send, valid or not
    DefaultPrice,
    OrderInputs,      \* fuel quantities players may send
    FuelPriceLevels,  \* prices a season may open a fuel at
    Nets, Revenues, Emissions,   \* what a simulation may find for one player
    MaxBlackouts, Peaks          \* ... and for the room

PRICE_FLOOR   == -25
PRICE_CEILING == 1000

ASSUME SessionAssumption ==
    /\ StartRounds \in 1..MaxRounds
    /\ TimerSettings \subseteq [investment: Nat, priceSetting: Nat]
    /\ FirstTimers \in TimerSettings
    /\ MaxExtensions \in Nat
    /\ FirstBonus \in BonusSettings
    /\ IsFiniteSet(Admitted)
    /\ DefaultPrice \in PRICE_FLOOR..PRICE_CEILING
    /\ FuelPriceLevels \subseteq Nat
    /\ OrderInputs \subseteq Int
    /\ Nets \subseteq Int /\ Revenues \subseteq Int /\ Emissions \subseteq Nat
    /\ MaxBlackouts \in Nat /\ Peaks \subseteq Nat

VARIABLES
    session,     \* the session in memory, a record: see NewSession
    file,        \* the session as last saved
    settlement,  \* the period being simulated, or NoPeriod.  Never saved
    jobs,        \* the simulation jobs started and neither finished nor abandoned
    records,     \* period -> what its record file holds
    timeUp       \* the running phase's time is over

vars == <<session, file, settlement, jobs, records, timeUp>>

NoPeriod    == NotStarted
NoAmplitude == -1
NoTimer     == [running |-> FALSE, minutes |-> 0, extensions |-> 0]
Nobody      == [a \in {} |-> a]

\* The function f, with x mapped to v.
With(f, x, v) == [y \in DOMAIN f \cup {x} |-> IF y = x THEN v ELSE f[y]]

PriceKeys     == (Facilities \X {"sell"}) \cup ({ f \in Facilities : IsStorage(f) } \X {"buy"})

NewPlayer ==
    [money |-> WORKSHOP_STARTING_BUDGET, owned |-> NothingOwned, purchases |-> NothingOwned,
     selection |-> NothingSelected, stored |-> NothingSelected,
     prices |-> [k \in PriceKeys |-> DefaultPrice], locked |-> <<>>, results |-> <<>>,
     fuelStock |-> NoFuelHeld, fuelOrder |-> NoFuelHeld, loan |-> NoLoan]

NewSession ==
    [checkpoint |-> NotStarted, roundCount |-> StartRounds, priceRoundCount |-> StartRounds,
     timers |-> FirstTimers, phaseTimer |-> NoTimer, players |-> Nobody,
     demandAmplitude |-> NoAmplitude, demandGrowth |-> [r \in Rounds |-> 0],
     peakDemand |-> [r \in Rounds |-> 0], blackouts |-> <<>>,
     settledPeriod |-> NoPeriod, recordedPeriods |-> <<>>,
     fuelPrices |-> NoFuelHeld, unlocks |-> {}, plans |-> DefaultPlans(StartRounds),
     firedEvents |-> <<>>, ballots |-> Nobody, voteOutcomes |-> <<>>, bonus |-> FirstBonus]

Init ==
    /\ session = NewSession
    /\ file = NewSession
    /\ settlement = NoPeriod
    /\ jobs = <<>>
    /\ records = Nobody
    /\ timeUp = FALSE

(***************************************************************************)
(* What the session works out from its state.                              *)
(***************************************************************************)
Here             == session.checkpoint
RoundNow(s)      == CurrentRound(s.checkpoint, s.roundCount)
LeversIn(s, r)   == s.plans[r].levers
Manual(s)        == LeversIn(s, RoundNow(s)).procurement = "manual"
PhaseOpen        == session.phaseTimer.running /\ ~timeUp
InvestmentOpen   == IsInvestment(Here) /\ PhaseOpen
PriceSettingOpen == IsTrading(Here) /\ PhaseOpen

\* The product of the percentages of the events fired that `hits` picks by index.
Product(fired, hits) ==
    LET Times(i, percent) == (percent * Event[fired[i].event].percent) \div 100
    IN  FoldSet(Times, 100, hits)

\* What the events fired multiply f's price by in Round r, in percent.
FacilityPriceFactor(s, f, r) ==
    LET Shock(i) == /\ s.firedEvents[i].round = r
                    /\ Event[s.firedEvents[i].event].kind = "facility_capex_multiplier"
                    /\ Catalog[f].category \in Event[s.firedEvents[i].event].target
    IN  Product(s.firedEvents, { i \in DOMAIN s.firedEvents : Shock(i) })

FacilityPrices(s, r) ==
    [f \in Facilities |->
       (SessionPrice(f, s.priceRoundCount) * FacilityPriceFactor(s, f, r)) \div 100]

Unlocked(s)          == { u.facility : u \in s.unlocks }
OfferedFacilities(s) ==
    AvailableFacilities(LeversIn(s, RoundNow(s)).storage,
                        { u.facility : u \in { x \in s.unlocks : x.round <= RoundNow(s) } })

Invested(s) ==
    [b \in DOMAIN Upgrades |->
       SumFunction([p \in DOMAIN s.players |-> SumFunction(s.players[p].purchases[b])])]

ProfitIn(player, r) ==
    SumFunction([i \in { x \in DOMAIN player.results : player.results[x].period.round = r } |->
                   player.results[i].profit])

BlackoutsIn(s, r) == Cardinality({ i \in DOMAIN s.blackouts : s.blackouts[i].round = r })

ForEveryPlayer(s, F(_)) == [s EXCEPT !.players = [p \in DOMAIN @ |-> F(@[p])]]

(***************************************************************************)
(* The steps an advance is made of, each on the session s, in the code's   *)
(* own names, and the fields each one's undo restores.                     *)
(***************************************************************************)
ApplyPurchases(s, r) ==
    LET price == FacilityPrices(s, r)
        Buy(player) ==
          LET owned == [f \in Facilities |-> [player.owned[f] EXCEPT ![r] = @ + player.selection[f]]]
          IN  [player EXCEPT
                 !.money = @ - SelectionCost(player.selection, price),
                 !.owned = owned,
                 !.purchases = [f \in Facilities |->
                                  [player.purchases[f] EXCEPT ![r] = @ + player.selection[f] * price[f]]],
                 !.selection = NothingSelected,
                 !.stored = KeepWhatFits(@, owned, r)]
    IN  ForEveryPlayer(s, Buy)
\* A slip: the prices paid stay behind when the purchase is undone.
PurchasesUndoWithoutPurchases == {"money", "owned", "selection", "stored"}

PurchasesUndo == {"money", "owned", "purchases", "selection", "stored"}

ApplyRetirement(s, r) ==
    LET Retire(player) == [player EXCEPT !.owned = Retired(@, r)]
    IN  ForEveryPlayer(s, Retire)
RetirementUndo == {"owned"}

ApplyLoanPayments(s, r) ==
    LET Pay(player) ==
          LET due == PaymentsDue(player.loan, r)
          IN  IF player.loan = NoLoan THEN player
              ELSE [player EXCEPT !.money = @ - due * LOAN_PAYMENT, !.loan.made = @ + due]
    IN  ForEveryPlayer(s, Pay)
LoanUndo == {"money", "loan"}

\* A slip: the floor first, then the payments.
PaymentsAfterFloor(s, r) ==
    LET TopUp(player) == [player EXCEPT !.money = RoundStartMoney(@)]
    IN  IF r = 1 THEN s ELSE ApplyLoanPayments(ForEveryPlayer(s, TopUp), r)

\* Payments first, then the floor.  Round 1 starts from the starting budget.
ApplyRoundStartMoney(s, r) ==
    LET TopUp(player) == [player EXCEPT !.money = RoundStartMoney(@)]
    IN  IF r = 1 THEN s ELSE ForEveryPlayer(ApplyLoanPayments(s, r), TopUp)

GrowDemand(s, r) ==
    LET profit == SumFunction([p \in DOMAIN s.players |-> ProfitIn(s.players[p], r)])
        count  == Cardinality(DOMAIN s.players)
    IN  IF r >= s.roundCount \/ count = 0 THEN s
        ELSE [s EXCEPT !.demandGrowth[r + 1] = GrowthFactor(profit, count)]
GrowthUndo == {"demandGrowth"}

ChargeBlackoutCost(s, r) ==
    LET Charge(player) ==
          [player EXCEPT !.money = @ - BlackoutCost(ProfitIn(player, r), BlackoutsIn(s, r))]
    IN  ForEveryPlayer(s, Charge)
BlackoutUndo == {"money"}

\* A slip: the ballots of a counted vote are kept.
CountVoteKeepingBallots(s, r) ==
    IF ~VoteHeld(s.plans, r, s.voteOutcomes) THEN s
    ELSE [s EXCEPT !.voteOutcomes = Append(@, [round |-> r, passed |-> Passes(s.ballots)]),
                   !.plans = VoteLeverOff(@, r)]

CountVote(s, r) ==
    IF ~VoteHeld(s.plans, r, s.voteOutcomes) THEN s
    ELSE [s EXCEPT !.voteOutcomes = Append(@, [round |-> r, passed |-> Passes(s.ballots)]),
                   !.ballots = Nobody,
                   !.plans = VoteLeverOff(@, r)]

VoteUndo == {"ballots", "voteOutcomes", "plans"}

\* A slip: each season fires what is planned for the one before.
FireEventsLate(s, c) ==
    IF IsInvestment(c) \/ IsTrading(c)
      THEN [s EXCEPT !.firedEvents = @ \o Firing(s.plans, c.round, AtLeastZero(c.season - 1))] ELSE s

\* An Investment phase fires its Round's events, a Trading period its season's.
FireEvents(s, c) ==
    IF IsInvestment(c) \/ IsTrading(c)
      THEN [s EXCEPT !.firedEvents = @ \o Firing(s.plans, c.round, c.season)] ELSE s
EventsUndo == {"firedEvents"}

\* opened: the price each fuel opens the season at, a choice (see OpenFuelPrices).
OpenFuelMarket(s, c, opened) ==
    LET Default(player) ==
          [player EXCEPT !.fuelOrder = DefaultOrders(player.owned, player.fuelStock, c.round)]
        priced == [s EXCEPT !.fuelPrices = opened]
    IN  IF LeversIn(s, c.round).procurement = "manual" THEN ForEveryPlayer(priced, Default)
        ELSE priced
FuelMarketUndo == {"fuelPrices", "fuelOrder"}

\* The seasonal step and the shocks are data: any price may follow any other.
OpenFuelPrices(c) == IF IsTrading(c) THEN [Fuels -> FuelPriceLevels] ELSE {NoFuelHeld}

\* A Recap unlocks for the next Round, the first Investment phase for its own.
NewUnlocks(s, c) ==
    LET players == Cardinality(DOMAIN s.players)
        Lever(r) == FormatLeverUnlocks(r, LeversIn(s, r).storage, Unlocked(s))
    IN  CASE IsRecap(c) /\ c.round < s.roundCount ->
               RoundEndUnlocks(c.round + 1, Invested(s), players, Unlocked(s))
                 \cup Lever(c.round + 1)
          [] c = Investment(1) -> Lever(1)
          [] OTHER -> {}
ApplyUnlocks(s, c) == [s EXCEPT !.unlocks = @ \cup NewUnlocks(s, c)]
UnlocksUndo == {"unlocks"}

\* All of an advance from s to the checkpoint c, except the checkpoint and timer.
Advanced(s, c, opened) ==
    LET left   == IF IsInvestment(s.checkpoint)
                    THEN CountVote(ApplyPurchases(s, s.checkpoint.round), s.checkpoint.round)
                  ELSE IF IsInvestment(c)
                    THEN ApplyRoundStartMoney(ApplyRetirement(s, c.round), c.round)
                  ELSE IF c = Finished THEN ApplyLoanPayments(s, s.roundCount + 1)
                  ELSE s
        closed == IF IsRecap(c) THEN ChargeBlackoutCost(GrowDemand(left, c.round), c.round)
                                ELSE left
        fired  == FireEvents(closed, c)
        priced == IF IsTrading(c) THEN OpenFuelMarket(fired, c, opened) ELSE fired
    IN  ApplyUnlocks(priced, c)

AdvanceUndo(s, c) ==
    (IF IsInvestment(s.checkpoint) THEN PurchasesUndo \cup VoteUndo
     ELSE IF IsInvestment(c) THEN RetirementUndo \cup (IF c.round = 1 THEN {} ELSE LoanUndo)
     ELSE IF c = Finished THEN LoanUndo ELSE {})
    \cup (IF IsRecap(c) THEN GrowthUndo \cup BlackoutUndo ELSE {})
    \cup (IF IsInvestment(c) \/ IsTrading(c) THEN EventsUndo ELSE {})
    \cup (IF IsTrading(c) THEN FuelMarketUndo ELSE {})
    \cup UnlocksUndo

(***************************************************************************)
(* Saving.  A change is saved, or the write fails and the fields its undo  *)
(* lists go back to what they were.  The file is replaced in one step, so  *)
(* a failed write leaves it whole.                                         *)
(***************************************************************************)
RolledBack(before, after, undo) ==
    [f \in DOMAIN after |->
       IF f # "players" THEN IF f \in undo THEN before[f] ELSE after[f]
       ELSE [p \in DOMAIN before.players |->
               [k \in DOMAIN before.players[p] |->
                  IF k \in undo THEN before.players[p][k] ELSE after.players[p][k]]]]

Save(after) == session' = after /\ file' = after

SaveFails(after, undo) ==
    /\ session' = RolledBack(session, after, undo)
    /\ UNCHANGED file

Update(after, undo) ==
    /\ Save(after) \/ SaveFails(after, undo)
    /\ UNCHANGED <<settlement, jobs, records, timeUp>>

\* The same for one player's own fields.
UpdatePlayer(p, player, undo) == Update([session EXCEPT !.players[p] = player], undo)

(***************************************************************************)
(* The facilitator's advance.  An open phase is closed; a Trading period   *)
(* is left only once it is settled; otherwise the session moves on.        *)
(***************************************************************************)
NextHere == NextCheckpoint(Here, session.roundCount)

TimerFor(c) ==
    CASE IsInvestment(c) -> [NoTimer EXCEPT !.running = TRUE, !.minutes = session.timers.investment]
      [] IsTrading(c)    -> [NoTimer EXCEPT !.running = TRUE, !.minutes = session.timers.priceSetting]
      [] OTHER           -> NoTimer

\* A slip: the phase is closed in memory alone.
ClosePhaseUnsaved ==
    /\ settlement = NoPeriod
    /\ PhaseOpen
    /\ session' = [session EXCEPT !.phaseTimer.running = FALSE]
    /\ UNCHANGED <<file, settlement, jobs, records, timeUp>>

\* Saved before memory follows, so a failed write changes nothing.
ClosePhase ==
    /\ settlement = NoPeriod
    /\ PhaseOpen
    /\ Update([session EXCEPT !.phaseTimer.running = FALSE], {"phaseTimer"})

\* A slip: a Trading period may be left before it is settled.
MoveOnUnsettled ==
    /\ settlement = NoPeriod
    /\ ~PhaseOpen
    /\ Here # Finished
    /\ \E opened \in OpenFuelPrices(NextHere) :
         Save([Advanced(session, NextHere, opened) EXCEPT
                 !.checkpoint = NextHere, !.phaseTimer = TimerFor(NextHere)])
    /\ timeUp' = FALSE
    /\ UNCHANGED <<settlement, jobs, records>>

MoveOn ==
    /\ settlement = NoPeriod
    /\ ~PhaseOpen
    /\ Here # Finished
    /\ IsTrading(Here) => session.settledPeriod = Here
    /\ \E opened \in OpenFuelPrices(NextHere) :
         LET applied == Advanced(session, NextHere, opened)
             moved   == [applied EXCEPT !.checkpoint = NextHere, !.phaseTimer = TimerFor(NextHere)]
         IN  \/ Save(moved) /\ timeUp' = FALSE
             \/ SaveFails(applied, AdvanceUndo(session, NextHere)) /\ UNCHANGED timeUp
    /\ UNCHANGED <<settlement, jobs, records>>

Advance == ClosePhase \/ MoveOn

ExtendPhase ==
    /\ PhaseOpen
    /\ session.phaseTimer.extensions < MaxExtensions
    /\ Update([session EXCEPT !.phaseTimer.extensions = @ + 1], {"phaseTimer"})

TimeRunsOut ==
    /\ session.phaseTimer.running /\ ~timeUp
    /\ timeUp' = TRUE
    /\ UNCHANGED <<session, file, settlement, jobs, records>>

(***************************************************************************)
(* The Investment phase: a selection is bought when the phase closes, a    *)
(* loan is paid out at once, and a ballot is counted when the phase is     *)
(* left.                                                                   *)
(***************************************************************************)
\* A slip: a selection is not checked against what is offered.
SelectAnything(p, f) ==
    LET player == session.players[p]
        price  == FacilityPrices(session, RoundNow(session))
    IN  /\ InvestmentOpen
        /\ ~AtLimit(player.owned, player.selection, f)
        /\ SelectionCost(player.selection, price) + price[f] <= player.money
        /\ UpdatePlayer(p, [player EXCEPT !.selection[f] = @ + 1], {"selection"})

Select(p, f) ==
    LET player == session.players[p]
        price  == FacilityPrices(session, RoundNow(session))
    IN  /\ InvestmentOpen
        /\ f \in OfferedFacilities(session)
        /\ ~AtLimit(player.owned, player.selection, f)
        /\ SelectionCost(player.selection, price) + price[f] <= player.money
        /\ UpdatePlayer(p, [player EXCEPT !.selection[f] = @ + 1], {"selection"})

Deselect(p, f) ==
    LET player == session.players[p]
    IN  /\ InvestmentOpen
        /\ player.selection[f] > 0
        /\ UpdatePlayer(p, [player EXCEPT !.selection[f] = @ - 1], {"selection"})

\* A slip: the loan is still offered in the last Round.
TakeLoanInAnyRound(p) ==
    LET player == session.players[p]
    IN  /\ InvestmentOpen
        /\ RoundNow(session) <= session.roundCount
        /\ player.loan = NoLoan
        /\ UpdatePlayer(p, [player EXCEPT !.loan = Loan(RoundNow(session)),
                                          !.money = @ + LOAN_AMOUNT], LoanUndo)

TakeLoan(p) ==
    LET player == session.players[p]
    IN  /\ InvestmentOpen
        /\ RoundNow(session) < session.roundCount
        /\ player.loan = NoLoan
        /\ UpdatePlayer(p, [player EXCEPT !.loan = Loan(RoundNow(session)),
                                          !.money = @ + LOAN_AMOUNT], LoanUndo)

\* A slip: the loan is taken back from under the selection.
CancelLoanUnchecked(p) ==
    LET player == session.players[p]
    IN  /\ InvestmentOpen
        /\ player.loan # NoLoan
        /\ player.loan.round = RoundNow(session)
        /\ UpdatePlayer(p, [player EXCEPT !.loan = NoLoan, !.money = @ - LOAN_AMOUNT], LoanUndo)

CancelLoan(p) ==
    LET player == session.players[p]
        price  == FacilityPrices(session, RoundNow(session))
    IN  /\ InvestmentOpen
        /\ player.loan # NoLoan
        /\ player.loan.round = RoundNow(session)
        /\ SelectionCost(player.selection, price) <= player.money - LOAN_AMOUNT
        /\ UpdatePlayer(p, [player EXCEPT !.loan = NoLoan, !.money = @ - LOAN_AMOUNT], LoanUndo)

CastBallot(p, choice) ==
    /\ InvestmentOpen
    /\ VoteHeld(session.plans, RoundNow(session), session.voteOutcomes)
    /\ Update([session EXCEPT !.ballots = With(@, p, choice)], {"ballots"})

\* The purchase at the phase's end.  Nothing is saved if nothing changed.
PurchaseDue ==
    LET Roster(s) == [p \in DOMAIN s.players |-> <<s.players[p].owned, s.players[p].stored>>]
    IN  /\ IsInvestment(Here)
        /\ ~InvestmentOpen
        /\ Roster(ApplyPurchases(session, Here.round)) # Roster(session)

BuySelections ==
    /\ PurchaseDue
    /\ Update(ApplyPurchases(session, Here.round), PurchasesUndo)

(***************************************************************************)
(* The price-setting window.                                               *)
(***************************************************************************)
\* A slip: a price may be set once the window has closed.
SetPriceAnytime(p, f, side, price) ==
    LET player == session.players[p]
    IN  /\ IsTrading(Here)
        /\ price \in PRICE_FLOOR..PRICE_CEILING
        /\ side = "buy" => IsStorage(f)
        /\ UpdatePlayer(p, [player EXCEPT !.prices[<<f, side>>] = price], {"prices"})

SetPrice(p, f, side, price) ==
    LET player == session.players[p]
    IN  /\ PriceSettingOpen
        /\ price \in PRICE_FLOOR..PRICE_CEILING
        /\ side = "buy" => IsStorage(f)
        /\ UpdatePlayer(p, [player EXCEPT !.prices[<<f, side>>] = price], {"prices"})

SetFuelOrder(p, u, quantity) ==
    LET player == session.players[p]
        need   == SeasonNeed(player.owned, u, RoundNow(session))
    IN  /\ PriceSettingOpen
        /\ Manual(session)
        /\ quantity >= 0
        /\ u \in BurnedFuels(player.owned, RoundNow(session))
        /\ UpdatePlayer(p, [player EXCEPT !.fuelOrder[u] =
                              CappedOrder(quantity, player.fuelStock[u], need)], {"fuelOrder"})

(***************************************************************************)
(* The facilitator's planning.                                             *)
(***************************************************************************)
\* A slip: the Round whose plan locked last can still be edited.
EditableOneTooMany(r) == r \in 1..session.roundCount /\ r >= LockedRounds(Here, session.roundCount)

Editable(r) == r \in 1..session.roundCount /\ r > LockedRounds(Here, session.roundCount)

\* Saved only if it changes something.
SetPlans(plans) ==
    /\ plans # session.plans
    /\ Update([session EXCEPT !.plans = plans], {"plans"})

SetLevers(r, changes) ==
    /\ Editable(r)
    /\ ("vote" \in DOMAIN changes /\ changes.vote) =>
          r # 1 /\ CarbonTaxSince(session.voteOutcomes) = NoRound
    /\ LeversAllowed(session.plans, r, changes)
    /\ SetPlans(WithLevers(session.plans, r, changes))

PlanEvent(r, planned) ==
    /\ Editable(r)
    /\ r # 1
    /\ ValidPlanned(planned)
    /\ SetPlans([session.plans EXCEPT ![r] = WithEvent(@, planned)])

UnplanEvent(r, planned) ==
    /\ Editable(r)
    /\ SetPlans([session.plans EXCEPT ![r] = WithoutEvent(@, planned)])

\* A slip: the new Round has no plan.
AddedRoundWithoutPlan(s) ==
    [s EXCEPT !.roundCount = @ + 1,
              !.priceRoundCount = IF s.checkpoint = NotStarted THEN s.roundCount + 1 ELSE @]

\* The new Round copies the last one's levers, without its events.
AddedRound(s) ==
    [s EXCEPT !.roundCount = @ + 1,
              !.priceRoundCount = IF s.checkpoint = NotStarted THEN s.roundCount + 1 ELSE @,
              !.plans = Append(@, [levers |-> Last(@).levers, events |-> <<>>])]

AddRound ==
    /\ session.roundCount < MaxRounds
    /\ ~RecapOpen(Here, session.roundCount)
    /\ Update(AddedRound(session), {"roundCount", "priceRoundCount", "plans"})

SetTimers(timers) == Update([session EXCEPT !.timers = timers], {"timers"})

SetBonus(multiplier) == Update([session EXCEPT !.bonus = multiplier], {"bonus"})

(***************************************************************************)
(* Settling a Trading period.                                              *)
(***************************************************************************)
BaseAmplitude(s) == IF s.demandAmplitude # NoAmplitude THEN s.demandAmplitude
                                                       ELSE Cardinality(DOMAIN s.players)

\* Under manual procurement, what a player's facilities can burn.
FuelHeld(player) == [u \in Fuels |-> player.fuelStock[u] + player.fuelOrder[u]]

FiredIn(s, period) ==
    Only(s.firedEvents,
         { i \in DOMAIN s.firedEvents :
             /\ s.firedEvents[i].round = period.round
             /\ s.firedEvents[i].season \in {RoundEvent, period.season} })

\* Blackouts of the Round's earlier seasons.
BlackoutsBefore(s, period) ==
    Cardinality({ i \in DOMAIN s.blackouts : /\ s.blackouts[i].round = period.round
                                             /\ s.blackouts[i].season < period.season })

\* What a simulation is given: a snapshot, so that nothing it reads changes.
JobOf(s) ==
    LET period == s.checkpoint
    IN  [period    |-> period,
         bidders   |-> [p \in DOMAIN s.players |->
                          [owned  |-> s.players[p].owned,  prices |-> s.players[p].prices,
                           stored |-> s.players[p].stored,
                           fuel   |-> IF Manual(s) THEN FuelHeld(s.players[p]) ELSE NoFuelHeld]],
         levers    |-> LeversIn(s, period.round),
         base      |-> BaseAmplitude(s),
         growth    |-> [r \in 1..period.round |-> s.demandGrowth[r]],
         events    |-> FiredIn(s, period),
         blackouts |-> BlackoutsBefore(s, period)]

\* A slip: a period already being simulated is started again.
SettlementDueAgain ==
    /\ IsTrading(Here)
    /\ ~PriceSettingOpen
    /\ session.settledPeriod # Here

SettlementDue ==
    /\ IsTrading(Here)
    /\ ~PriceSettingOpen
    /\ settlement = NoPeriod
    /\ session.settledPeriod # Here

StartSettlement ==
    /\ SettlementDue
    /\ settlement' = Here
    /\ jobs' = Append(jobs, JobOf(session))
    /\ UNCHANGED <<session, file, records, timeUp>>

\* What a simulation may find.  Its fuel and energy are bounds of the model: a
\* player burns none or all they could, and a store ends empty, full or as it was.
MostBurned(job, b, u) ==
    LET need == SeasonNeed(b.owned, u, job.period.round)
    IN  IF job.levers.procurement = "manual" THEN Least(need, b.fuel[u]) ELSE need

\* The functions f on D with f[x] in S(x).
Family(D, S(_)) == { f \in [D -> UNION { S(x) : x \in D }] : \A x \in D : f[x] \in S(x) }

StoredEnds(job, b) ==
    LET room(f) == StorageCapacity(f, b.owned, job.period.round)
        ends(f) == IF room(f) > 0 THEN {0, room(f)} ELSE {b.stored[f]}
    IN  Family(Facilities, ends)

FuelEnds(job, b) ==
    LET ends(u) == {0, MostBurned(job, b, u)}
    IN  Family(Fuels, ends)

Found(job, b) ==
    IF Operating(b.owned, job.period.round) = {}
      THEN [traded: {FALSE}, net: {0}, revenue: {0}, emitted: {0}, burned: {NoFuelHeld},
            stored: {b.stored}]
      ELSE [traded: {TRUE}, net: Nets, revenue: Revenues, emitted: Emissions,
            burned: FuelEnds(job, b), stored: StoredEnds(job, b)]

Outcomes(job) ==
    LET FoundFor(p) == Found(job, job.bidders[p])
    IN  [players: Family(DOMAIN job.bidders, FoundFor), blackouts: 0..MaxBlackouts, peak: Peaks]

RevenueTaxPercent(s, period) ==
    LET taxing == { i \in DOMAIN s.firedEvents :
                      /\ s.firedEvents[i].round = period.round
                      /\ s.firedEvents[i].season = period.season
                      /\ Event[s.firedEvents[i].event].kind = "revenue_tax" }
    IN  100 - Product(s.firedEvents, taxing)

CarbonTaxRate(s, r) ==
    LET since == CarbonTaxSince(s.voteOutcomes)
    IN  IF since # NoRound /\ since <= r THEN CARBON_TAX_RATE ELSE 0

\* Net carbon tax of each player settled, and whether there are takings to share.
CarbonTax(s, job, outcome) ==
    CarbonTaxOf([p \in DOMAIN job.bidders |-> outcome.players[p].emitted],
                CarbonTaxRate(s, job.period.round))
Takings(s, job, outcome) ==
    CarbonTaxRate(s, job.period.round)
      * SumFunction([p \in DOMAIN job.bidders |-> outcome.players[p].emitted])

\* A player's result: what was earned, less revenue tax and the fuel paid for.
ResultOf(s, job, found, player, tax) ==
    LET r       == job.period.round
        burning == IF found.traded THEN BurnedFuels(player.owned, r) ELSE {}
        bought  == FuelBought(Manual(s), burning, player.fuelStock, player.fuelOrder, found.burned)
    IN  [period |-> job.period, net |-> found.net, bought |-> bought, burned |-> found.burned,
         profit |-> found.net - (found.revenue * RevenueTaxPercent(s, job.period)) \div 100
                      - FuelCost(bought, s.fuelPrices),
         tax    |-> tax]

PeriodBlackouts(period, n) == [i \in 1..n |-> [round |-> period.round, season |-> period.season]]

\* A slip: who has nothing operating goes without their share.
OnlyTradersGetResults(s, job, outcome, p) == outcome.players[p].traded

\* A player with nothing operating gets a result only to hold a share of the tax.
GetsResult(s, job, outcome, p) ==
    outcome.players[p].traded \/ Takings(s, job, outcome) > 0

\* Only the job's bidders are settled.
Settled(s, job, outcome) ==
    LET period == job.period
        r      == period.round
        Settle(p) ==
          LET player    == s.players[p]
              operating == Operating(player.owned, r)
              result    == ResultOf(s, job, outcome.players[p], player,
                                    CarbonTax(s, job, outcome)[p])
              ran       == [k \in { x \in PriceKeys : x[1] \in operating } |-> player.prices[k]]
              kept      == [player EXCEPT
                              !.stored = outcome.players[p].stored,
                              !.locked = IF operating = {} THEN @
                                         ELSE Append(@, [period |-> period, prices |-> ran])]
          IN  IF ~GetsResult(s, job, outcome, p) THEN kept
              ELSE [kept EXCEPT !.money = @ + result.profit - result.tax,
                                !.fuelStock = FuelLeft(@, result.bought, result.burned),
                                !.results = Append(@, result)]
    IN  [s EXCEPT
           !.players = [p \in DOMAIN @ |-> IF p \in DOMAIN job.bidders THEN Settle(p) ELSE @[p]],
           !.demandAmplitude = job.base,
           !.peakDemand[r] = IF outcome.peak > @ THEN outcome.peak ELSE @,
           !.blackouts = @ \o PeriodBlackouts(period, outcome.blackouts),
           !.settledPeriod = period,
           !.recordedPeriods = Append(@, period)]

\* A slip: fuel bought and burned stays so when settling is undone.
SettleUndoWithoutFuel ==
    {"money", "locked", "stored", "results", "demandAmplitude", "settledPeriod", "blackouts",
     "recordedPeriods", "peakDemand"}

SettleUndo == {"money", "locked", "stored", "results", "fuelStock", "demandAmplitude",
               "settledPeriod", "blackouts", "recordedPeriods", "peakDemand"}

WaitingFor(job) == Here = job.period /\ session.settledPeriod # job.period

\* A slip: the session is saved first, then the record.
FinishBeforeRecord(i, outcome) ==
    LET after == Settled(session, jobs[i], outcome)
    IN  /\ WaitingFor(jobs[i])
        /\ \/ Save(after) /\ records' = With(records, jobs[i].period, outcome)
           \/ Save(after) /\ UNCHANGED records
        /\ settlement' = NoPeriod
        /\ jobs' = RemoveAt(jobs, i)
        /\ UNCHANGED timeUp

\* The record is written, then the session.  A failure of either leaves the
\* session as it was and still settling, and the record unlisted.
FinishSettlement(i, outcome) ==
    LET after == Settled(session, jobs[i], outcome)
        undo  == SettleUndo
    IN  /\ WaitingFor(jobs[i])
        /\ \/ /\ Save(after)
              /\ records' = With(records, jobs[i].period, outcome)
              /\ settlement' = NoPeriod
              /\ jobs' = RemoveAt(jobs, i)
           \/ /\ SaveFails(after, undo)
              /\ records' = With(records, jobs[i].period, outcome)
              /\ UNCHANGED <<settlement, jobs>>
           \/ SaveFails(after, undo) /\ UNCHANGED <<records, settlement, jobs>>
        /\ UNCHANGED timeUp

\* The simulation failed: the period waits to be started again.
AbandonSettlement(i) ==
    /\ settlement' = IF settlement = jobs[i].period THEN NoPeriod ELSE settlement
    /\ jobs' = RemoveAt(jobs, i)
    /\ UNCHANGED <<session, file, records, timeUp>>

(***************************************************************************)
(* Players entering, and the process stopping.                             *)
(***************************************************************************)
Join(p) ==
    /\ p \notin DOMAIN session.players
    /\ LET joined == [session EXCEPT !.players = With(@, p, NewPlayer)]
       IN  Save(joined) \/ UNCHANGED <<session, file>>
    /\ UNCHANGED <<settlement, jobs, records, timeUp>>

\* The process stops between any two steps and reopens the file: its simulations
\* and its progress are gone.
Restart ==
    /\ session' = file
    /\ settlement' = NoPeriod
    /\ jobs' = <<>>
    /\ UNCHANGED <<file, records, timeUp>>

PlayerActs ==
    \E p \in DOMAIN session.players :
       \/ \E f \in Facilities : Select(p, f) \/ Deselect(p, f)
       \/ TakeLoan(p)
       \/ CancelLoan(p)
       \/ \E choice \in {"yes", "no"} : CastBallot(p, choice)
       \/ \E f \in Facilities, side \in {"sell", "buy"}, price \in PriceInputs :
             SetPrice(p, f, side, price)
       \/ \E u \in Fuels, quantity \in OrderInputs : SetFuelOrder(p, u, quantity)

FacilitatorActs ==
    \/ Advance
    \/ ExtendPhase
    \/ AddRound
    \/ \E r \in Rounds : \/ \E changes \in LeverChanges : SetLevers(r, changes)
                         \/ \E e \in Picks, s \in Seasons \cup {RoundEvent} :
                              LET planned == [event |-> e, season |-> s]
                              IN  PlanEvent(r, planned) \/ UnplanEvent(r, planned)
    \/ \E timers \in TimerSettings : SetTimers(timers)
    \/ \E multiplier \in BonusSettings : SetBonus(multiplier)

\* The background task's calls, in any order: WorkshopApp has the order they come in.
BackgroundActs ==
    \/ BuySelections
    \/ StartSettlement
    \/ \E i \in DOMAIN jobs :
          AbandonSettlement(i) \/ \E outcome \in Outcomes(jobs[i]) : FinishSettlement(i, outcome)

Next ==
    \/ \E p \in Admitted : Join(p)
    \/ PlayerActs
    \/ FacilitatorActs
    \/ BackgroundActs
    \/ TimeRunsOut
    \/ Restart

Spec == Init /\ [][Next]_vars
=============================================================================
