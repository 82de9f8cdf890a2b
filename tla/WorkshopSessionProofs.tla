----------------------- MODULE WorkshopSessionProofs ------------------------
(***************************************************************************)
(* Proofs about the session, for any number of players, Rounds, seasons,   *)
(* facilities, lever changes and events:                                   *)
(*                                                                         *)
(*   every undo is complete, so memory and file never differ;              *)
(*   one simulation runs at a time;                                        *)
(*   the file plays PacedGame;                                             *)
(*   a locked plan never changes;                                          *)
(*   each event planned for a boundary that was reached fired once;        *)
(*   ballots wait only for the vote they were cast in;                     *)
(*   a Round's vote is counted once, and none after one that passed;       *)
(*   a loan's payments are made on time and once, and each is told of at   *)
(*   the Recap before;                                                     *)
(*   what is selected or built was on offer in its Round.                  *)
(*                                                                         *)
(* Nothing is said of what amounts are: an operation's effect on money is  *)
(* a field that changed, and that its undo must list.                      *)
(***************************************************************************)
EXTENDS SessionProperties, OperatorProofs

SessionFields ==
    {"checkpoint", "roundCount", "priceRoundCount", "timers", "phaseTimer", "players",
     "demandAmplitude", "demandGrowth", "peakDemand", "blackouts", "settledPeriod",
     "recordedPeriods", "fuelPrices", "unlocks", "plans", "firedEvents", "ballots",
     "voteOutcomes", "bonus"}

PlayerFields ==
    {"money", "owned", "purchases", "selection", "stored", "prices", "locked", "results",
     "fuelStock", "fuelOrder", "loan"}

IsPlayer(x) == x = [k \in PlayerFields |-> x[k]]

IsSession(s) ==
    /\ s = [f \in SessionFields |-> s[f]]
    /\ s.players = [p \in DOMAIN s.players |-> s.players[p]]
    /\ \A p \in DOMAIN s.players : IsPlayer(s.players[p])

(***************************************************************************)
(* t is s, with no field changed but those an undo lists.                  *)
(***************************************************************************)
PlayerTouched(x, y, undo) ==
    IsPlayer(y) /\ \A k \in PlayerFields \ undo : y[k] = x[k]

Touched(s, t, undo) ==
    /\ IsSession(t)
    /\ \A f \in SessionFields \ (undo \cup {"players"}) : t[f] = s[f]
    /\ DOMAIN t.players = DOMAIN s.players
    /\ \A p \in DOMAIN s.players : PlayerTouched(s.players[p], t.players[p], undo)

\* An undo that lists whatever an operation changed takes the session back to what it
\* was (the `except` branches of session.py's operations).
LEMMA UndoneIsBefore ==
    ASSUME NEW s, NEW t, NEW undo, IsSession(s), Touched(s, t, undo)
    PROVE  RolledBack(s, t, undo) = s
<1> DEFINE back == RolledBack(s, t, undo)
<1>1. DOMAIN t = SessionFields
  BY DEF Touched, IsSession
<1>2. ASSUME NEW p \in DOMAIN s.players
      PROVE  [k \in DOMAIN s.players[p] |->
                IF k \in undo THEN s.players[p][k] ELSE t.players[p][k]] = s.players[p]
  <2>1. s.players[p] = [k \in PlayerFields |-> s.players[p][k]]
    BY DEF IsSession, IsPlayer
  <2>2. \A k \in PlayerFields : k \notin undo => t.players[p][k] = s.players[p][k]
    BY DEF Touched, PlayerTouched
  <2>3. DOMAIN s.players[p] = PlayerFields
    BY <2>1
  <2>4. [k \in DOMAIN s.players[p] |->
           IF k \in undo THEN s.players[p][k] ELSE t.players[p][k]]
          = [k \in PlayerFields |-> s.players[p][k]]
    BY <2>2, <2>3
  <2> QED
    BY <2>1, <2>4
<1>3. [p \in DOMAIN s.players |->
         [k \in DOMAIN s.players[p] |->
            IF k \in undo THEN s.players[p][k] ELSE t.players[p][k]]] = s.players
  <2>1. s.players = [p \in DOMAIN s.players |-> s.players[p]]
    BY DEF IsSession
  <2> QED
    BY <1>2, <2>1
<1>4. back = [f \in SessionFields |->
                IF f # "players" THEN IF f \in undo THEN s[f] ELSE t[f] ELSE s.players]
  BY <1>1, <1>3 DEF RolledBack
<1>5. \A f \in SessionFields :
        (IF f # "players" THEN IF f \in undo THEN s[f] ELSE t[f] ELSE s.players) = s[f]
  BY DEF Touched
<1>6. back = [f \in SessionFields |-> s[f]]
  BY <1>4, <1>5
<1>7. s = [f \in SessionFields |-> s[f]]
  BY DEF IsSession
<1> QED
  BY <1>6, <1>7

\* An operation that changes nothing leaves nothing to undo.
LEMMA NothingTouched ==
    ASSUME NEW s, IsSession(s), NEW undo
    PROVE  Touched(s, s, undo)
BY DEF Touched, IsSession, PlayerTouched

\* An undo may list more than its operation changed.
LEMMA TouchedMore ==
    ASSUME NEW s, NEW t, NEW undo, NEW more, Touched(s, t, undo), undo \subseteq more
    PROVE  Touched(s, t, more)
BY DEF Touched, PlayerTouched

\* An operation whose changes its undo lists makes a session of a session.
LEMMA TouchedIsSession ==
    ASSUME NEW s, NEW t, NEW undo, Touched(s, t, undo)
    PROVE  IsSession(t)
BY DEF Touched

\* An operation made of two leaves to its undo what either changed.
LEMMA TouchedTwice ==
    ASSUME NEW s, NEW t, NEW u, NEW undo, Touched(s, t, undo), Touched(t, u, undo)
    PROVE  Touched(s, u, undo)
BY DEF Touched, PlayerTouched

\* Changing one field of the session.
LEMMA FieldTouched ==
    ASSUME NEW s, IsSession(s), NEW f \in SessionFields \ {"players"}, NEW value, NEW undo,
           f \in undo
    PROVE  Touched(s, [s EXCEPT ![f] = value], undo)
<1> DEFINE t == [s EXCEPT ![f] = value]
<1>1. DOMAIN s = SessionFields
  BY DEF IsSession
<1>2. t = [g \in SessionFields |-> t[g]]
  BY <1>1
<1>3. \A g \in SessionFields : g # f => t[g] = s[g]
  BY <1>1
<1>4. t.players = s.players
  BY <1>3 DEF SessionFields
<1>5. IsSession(t)
  BY <1>2, <1>4 DEF IsSession
<1> QED
  BY <1>3, <1>4, <1>5 DEF Touched, PlayerTouched, IsSession

\* Changing the players, each in some of their fields.
LEMMA PlayersTouched ==
    ASSUME NEW s, IsSession(s), NEW roster, NEW undo,
           roster = [p \in DOMAIN s.players |-> roster[p]],
           \A p \in DOMAIN s.players : PlayerTouched(s.players[p], roster[p], undo)
    PROVE  Touched(s, [s EXCEPT !.players = roster], undo)
<1> DEFINE t == [s EXCEPT !.players = roster]
<1>1. DOMAIN s = SessionFields /\ "players" \in SessionFields
  BY DEF IsSession, SessionFields
<1>2. t = [g \in SessionFields |-> t[g]] /\ t.players = roster
  BY <1>1
<1>3. \A g \in SessionFields : g # "players" => t[g] = s[g]
  BY <1>1
<1>4. DOMAIN roster = DOMAIN s.players
  OBVIOUS
<1>5. IsSession(t)
  BY <1>2, <1>4 DEF IsSession, PlayerTouched
<1> QED
  BY <1>2, <1>3, <1>4, <1>5 DEF Touched

\* Changing one player's own field.
LEMMA OwnFieldTouched ==
    ASSUME NEW x, IsPlayer(x), NEW k \in PlayerFields, NEW value, NEW undo, k \in undo
    PROVE  PlayerTouched(x, [x EXCEPT ![k] = value], undo)
BY DEF PlayerTouched, IsPlayer

\* Changing a player's fields twice changes those of both times.
LEMMA OwnFieldsTouchedTwice ==
    ASSUME NEW x, NEW y, NEW z, NEW undo, PlayerTouched(x, y, undo), PlayerTouched(y, z, undo)
    PROVE  PlayerTouched(x, z, undo)
BY DEF PlayerTouched

-----------------------------------------------------------------------------
(***************************************************************************)
(* The steps of an advance: each changes no more than its undo lists.      *)
(***************************************************************************)
\* The purchase at a phase's end is undone in full (_apply_purchases).
LEMMA PurchasesTouch ==
    ASSUME NEW s, IsSession(s), NEW r
    PROVE  Touched(s, ApplyPurchases(s, r), PurchasesUndo)
<1> DEFINE price == FacilityPrices(s, r)
           owned(x) == [f \in Facilities |-> [x.owned[f] EXCEPT ![r] = @ + x.selection[f]]]
           Buy(x) == [x EXCEPT
                 !.money = @ - SelectionCost(x.selection, price),
                 !.owned = owned(x),
                 !.purchases = [f \in Facilities |->
                        [x.purchases[f] EXCEPT ![r] = @ + x.selection[f] * price[f]]],
                 !.selection = NothingSelected,
                 !.stored = KeepWhatFits(@, owned(x), r)]
           roster == [p \in DOMAIN s.players |-> Buy(s.players[p])]
<1>1. ApplyPurchases(s, r) = [s EXCEPT !.players = roster]
  BY DEF ApplyPurchases, ForEveryPlayer
<1>2. ASSUME NEW x, IsPlayer(x) PROVE PlayerTouched(x, Buy(x), PurchasesUndo)
  BY <1>2 DEF PlayerTouched, IsPlayer, PlayerFields, PurchasesUndo
<1> HIDE DEF Buy
<1>3. /\ roster = [p \in DOMAIN s.players |-> roster[p]]
      /\ \A p \in DOMAIN s.players : PlayerTouched(s.players[p], roster[p], PurchasesUndo)
  BY <1>2 DEF IsSession
<1> HIDE DEF roster
<1> QED
  BY <1>1, <1>3, PlayersTouched

\* Retirement changes only what players own (_apply_retirement).
LEMMA RetirementTouches ==
    ASSUME NEW s, IsSession(s), NEW r
    PROVE  Touched(s, ApplyRetirement(s, r), RetirementUndo)
<1> DEFINE Retire(x) == [x EXCEPT !.owned = Retired(@, r)]
           roster == [p \in DOMAIN s.players |-> Retire(s.players[p])]
<1>1. ApplyRetirement(s, r) = [s EXCEPT !.players = roster]
  BY DEF ApplyRetirement, ForEveryPlayer
<1>2. ASSUME NEW x, IsPlayer(x) PROVE PlayerTouched(x, Retire(x), RetirementUndo)
  BY <1>2 DEF PlayerTouched, IsPlayer, PlayerFields, RetirementUndo
<1> HIDE DEF Retire
<1>3. /\ roster = [p \in DOMAIN s.players |-> roster[p]]
      /\ \A p \in DOMAIN s.players : PlayerTouched(s.players[p], roster[p], RetirementUndo)
  BY <1>2 DEF IsSession
<1> HIDE DEF roster
<1> QED
  BY <1>1, <1>3, PlayersTouched

\* Payments change the money and the loans of players (_apply_loan_payments).
LEMMA LoanPaymentsTouch ==
    ASSUME NEW s, IsSession(s), NEW r
    PROVE  Touched(s, ApplyLoanPayments(s, r), LoanUndo)
<1> DEFINE due(x) == PaymentsDue(x.loan, r)
           Pay(x) == IF x.loan = NoLoan THEN x
                     ELSE [x EXCEPT !.money = @ - due(x) * LOAN_PAYMENT,
                                    !.loan.made = @ + due(x)]
           roster == [p \in DOMAIN s.players |-> Pay(s.players[p])]
<1>1. ApplyLoanPayments(s, r) = [s EXCEPT !.players = roster]
  BY DEF ApplyLoanPayments, ForEveryPlayer
<1>2. ASSUME NEW x, IsPlayer(x) PROVE PlayerTouched(x, Pay(x), LoanUndo)
  BY <1>2 DEF PlayerTouched, IsPlayer, PlayerFields, LoanUndo
<1> HIDE DEF Pay
<1>3. /\ roster = [p \in DOMAIN s.players |-> roster[p]]
      /\ \A p \in DOMAIN s.players : PlayerTouched(s.players[p], roster[p], LoanUndo)
  BY <1>2 DEF IsSession
<1> HIDE DEF roster
<1> QED
  BY <1>1, <1>3, PlayersTouched

\* The top-up to the floor is money, which the undo of the payments restores.
LEMMA RoundStartMoneyTouches ==
    ASSUME NEW s, IsSession(s), NEW r
    PROVE  /\ r = 1 => ApplyRoundStartMoney(s, r) = s
           /\ Touched(s, ApplyRoundStartMoney(s, r), LoanUndo)
<1> DEFINE paid == ApplyLoanPayments(s, r)
           TopUp(x) == [x EXCEPT !.money = RoundStartMoney(@)]
           roster == [p \in DOMAIN paid.players |-> TopUp(paid.players[p])]
<1>1. ApplyRoundStartMoney(s, r) = IF r = 1 THEN s ELSE [paid EXCEPT !.players = roster]
  BY DEF ApplyRoundStartMoney, ForEveryPlayer
<1>2. Touched(s, paid, LoanUndo)
  BY LoanPaymentsTouch
<1>3. ASSUME NEW x, IsPlayer(x) PROVE PlayerTouched(x, TopUp(x), LoanUndo)
  BY <1>3 DEF PlayerTouched, IsPlayer, PlayerFields, LoanUndo
<1> HIDE DEF TopUp, paid
<1>4. IsSession(paid)
  BY <1>2 DEF Touched
<1>5. /\ roster = [p \in DOMAIN paid.players |-> roster[p]]
      /\ \A p \in DOMAIN paid.players : PlayerTouched(paid.players[p], roster[p], LoanUndo)
  BY <1>3, <1>4 DEF IsSession
<1> HIDE DEF roster
<1>6. Touched(paid, [paid EXCEPT !.players = roster], LoanUndo)
  BY <1>4, <1>5, PlayersTouched
<1>7. Touched(s, [paid EXCEPT !.players = roster], LoanUndo)
  BY <1>2, <1>6, TouchedTwice
<1> QED
  BY <1>1, <1>7, NothingTouched

\* The cost of blackouts is money (_charge_blackout_cost).
LEMMA BlackoutCostTouches ==
    ASSUME NEW s, IsSession(s), NEW r
    PROVE  Touched(s, ChargeBlackoutCost(s, r), BlackoutUndo)
<1> DEFINE Charge(x) ==
             [x EXCEPT !.money = @ - BlackoutCost(ProfitIn(x, r), BlackoutsIn(s, r))]
           roster == [p \in DOMAIN s.players |-> Charge(s.players[p])]
<1>1. ChargeBlackoutCost(s, r) = [s EXCEPT !.players = roster]
  BY DEF ChargeBlackoutCost, ForEveryPlayer
<1>2. ASSUME NEW x, IsPlayer(x) PROVE PlayerTouched(x, Charge(x), BlackoutUndo)
  BY <1>2 DEF PlayerTouched, IsPlayer, PlayerFields, BlackoutUndo
<1> HIDE DEF Charge
<1>3. /\ roster = [p \in DOMAIN s.players |-> roster[p]]
      /\ \A p \in DOMAIN s.players : PlayerTouched(s.players[p], roster[p], BlackoutUndo)
  BY <1>2 DEF IsSession
<1> HIDE DEF roster
<1> QED
  BY <1>1, <1>3, PlayersTouched

\* A Recap's demand growth changes the next Round's factor alone (_grow_demand).
LEMMA GrowthTouches ==
    ASSUME NEW s, IsSession(s), NEW r
    PROVE  Touched(s, GrowDemand(s, r), GrowthUndo)
<1> DEFINE growth == [s.demandGrowth EXCEPT ![r + 1] =
                GrowthFactor(SumFunction([p \in DOMAIN s.players |-> ProfitIn(s.players[p], r)]),
                             Cardinality(DOMAIN s.players))]
<1>1. GrowDemand(s, r) = s \/ GrowDemand(s, r) = [s EXCEPT !["demandGrowth"] = growth]
  BY DEF GrowDemand
<1> HIDE DEF growth
<1>2. "demandGrowth" \in SessionFields \ {"players"} /\ "demandGrowth" \in GrowthUndo
  BY DEF SessionFields, GrowthUndo
<1> QED
  BY <1>1, <1>2, FieldTouched, NothingTouched

\* Events that fire join the ones fired (_fire_events).
LEMMA EventsTouch ==
    ASSUME NEW s, IsSession(s), NEW c
    PROVE  Touched(s, FireEvents(s, c), EventsUndo)
<1> DEFINE fired == s.firedEvents \o Firing(s.plans, c.round, c.season)
<1>1. FireEvents(s, c) = s \/ FireEvents(s, c) = [s EXCEPT !["firedEvents"] = fired]
  BY DEF FireEvents
<1> HIDE DEF fired
<1>2. "firedEvents" \in SessionFields \ {"players"} /\ "firedEvents" \in EventsUndo
  BY DEF SessionFields, EventsUndo
<1> QED
  BY <1>1, <1>2, FieldTouched, NothingTouched

\* Unlocks join the ones announced (_apply_unlocks).
LEMMA UnlocksTouch ==
    ASSUME NEW s, IsSession(s), NEW c
    PROVE  Touched(s, ApplyUnlocks(s, c), UnlocksUndo)
<1> DEFINE unlocks == s.unlocks \cup NewUnlocks(s, c)
<1>1. ApplyUnlocks(s, c) = [s EXCEPT !["unlocks"] = unlocks]
  BY DEF ApplyUnlocks
<1> HIDE DEF unlocks
<1>2. "unlocks" \in SessionFields \ {"players"} /\ "unlocks" \in UnlocksUndo
  BY DEF SessionFields, UnlocksUndo
<1>3. Touched(s, [s EXCEPT !["unlocks"] = unlocks], UnlocksUndo)
  BY <1>2, FieldTouched
<1> QED
  BY <1>1, <1>3

\* Counting a vote changes the ballots, the outcomes and the plans (_count_vote).
LEMMA VoteTouches ==
    ASSUME NEW s, IsSession(s), NEW r
    PROVE  Touched(s, CountVote(s, r), VoteUndo)
<1> DEFINE outcomes == Append(s.voteOutcomes, [round |-> r, passed |-> Passes(s.ballots)])
           plans    == VoteLeverOff(s.plans, r)
           counted  == [s EXCEPT !["voteOutcomes"] = outcomes]
           cleared  == [counted EXCEPT !["ballots"] = Nobody]
           closed   == [cleared EXCEPT !["plans"] = plans]
<1>1. CountVote(s, r) = s \/ CountVote(s, r) = closed
  BY DEF CountVote, IsSession, SessionFields
<1> HIDE DEF outcomes, plans
<1>2. \A f \in {"voteOutcomes", "ballots", "plans"} :
        f \in SessionFields \ {"players"} /\ f \in VoteUndo
  BY DEF SessionFields, VoteUndo
<1>3. Touched(s, counted, VoteUndo)
  BY <1>2, FieldTouched
<1>4. Touched(counted, cleared, VoteUndo)
  BY <1>2, <1>3, FieldTouched DEF Touched
<1>5. Touched(cleared, closed, VoteUndo)
  BY <1>2, <1>4, FieldTouched DEF Touched
<1> HIDE DEF counted, cleared, closed
<1> QED
  BY <1>1, <1>3, <1>4, <1>5, TouchedTwice, NothingTouched

\* A window opens with new fuel prices and default orders (_open_fuel_market).
LEMMA FuelMarketTouches ==
    ASSUME NEW s, IsSession(s), NEW c, NEW opened
    PROVE  Touched(s, OpenFuelMarket(s, c, opened), FuelMarketUndo)
<1> DEFINE priced == [s EXCEPT !["fuelPrices"] = opened]
           Default(x) == [x EXCEPT !.fuelOrder = DefaultOrders(x.owned, x.fuelStock, c.round)]
           roster == [p \in DOMAIN priced.players |-> Default(priced.players[p])]
<1>1. \/ OpenFuelMarket(s, c, opened) = priced
      \/ OpenFuelMarket(s, c, opened) = [priced EXCEPT !.players = roster]
  BY DEF OpenFuelMarket, ForEveryPlayer
<1>2. Touched(s, priced, FuelMarketUndo)
  BY FieldTouched DEF SessionFields, FuelMarketUndo
<1>3. ASSUME NEW x, IsPlayer(x) PROVE PlayerTouched(x, Default(x), FuelMarketUndo)
  BY <1>3 DEF PlayerTouched, IsPlayer, PlayerFields, FuelMarketUndo
<1> HIDE DEF Default, priced
<1>4. IsSession(priced)
  BY <1>2 DEF Touched
<1>5. /\ roster = [p \in DOMAIN priced.players |-> roster[p]]
      /\ \A p \in DOMAIN priced.players :
            PlayerTouched(priced.players[p], roster[p], FuelMarketUndo)
  BY <1>3, <1>4 DEF IsSession
<1> HIDE DEF roster
<1>6. Touched(priced, [priced EXCEPT !.players = roster], FuelMarketUndo)
  BY <1>4, <1>5, PlayersTouched
<1> QED
  BY <1>1, <1>2, <1>6, TouchedTwice

\* An advance leaves a checkpoint, and then arrives at the next.
Left(s, c) ==
    IF IsInvestment(s.checkpoint)
      THEN CountVote(ApplyPurchases(s, s.checkpoint.round), s.checkpoint.round)
    ELSE IF IsInvestment(c) THEN ApplyRoundStartMoney(ApplyRetirement(s, c.round), c.round)
    ELSE IF c = Finished THEN ApplyLoanPayments(s, s.roundCount + 1)
    ELSE s

LeavingUndo(s, c) ==
    IF IsInvestment(s.checkpoint) THEN PurchasesUndo \cup VoteUndo
    ELSE IF IsInvestment(c) THEN RetirementUndo \cup (IF c.round = 1 THEN {} ELSE LoanUndo)
    ELSE IF c = Finished THEN LoanUndo ELSE {}

Closed(left, c) ==
    IF IsRecap(c) THEN ChargeBlackoutCost(GrowDemand(left, c.round), c.round) ELSE left

Priced(fired, c, opened) == IF IsTrading(c) THEN OpenFuelMarket(fired, c, opened) ELSE fired

Arrived(left, c, opened) == ApplyUnlocks(Priced(FireEvents(Closed(left, c), c), c, opened), c)

ClosingUndo(c) == IF IsRecap(c) THEN GrowthUndo \cup BlackoutUndo ELSE {}
FiringUndo(c)  == IF IsInvestment(c) \/ IsTrading(c) THEN EventsUndo ELSE {}
PricingUndo(c) == IF IsTrading(c) THEN FuelMarketUndo ELSE {}

ArrivingUndo(c) == ClosingUndo(c) \cup FiringUndo(c) \cup PricingUndo(c) \cup UnlocksUndo

\* Leaving a checkpoint changes no more than its undo lists, whichever it is.
LEMMA LeavingTouches ==
    ASSUME NEW s, IsSession(s), NEW c
    PROVE  Touched(s, Left(s, c), LeavingUndo(s, c))
<1> DEFINE undo == LeavingUndo(s, c)
           r    == s.checkpoint.round
<1>1. CASE IsInvestment(s.checkpoint)
  <2> DEFINE bought == ApplyPurchases(s, r)
  <2>1. PurchasesUndo \subseteq undo /\ VoteUndo \subseteq undo
    BY <1>1 DEF LeavingUndo
  <2> HIDE DEF undo
  <2>2. Touched(s, bought, undo)
    BY <2>1, PurchasesTouch, TouchedMore
  <2>3. Touched(bought, CountVote(bought, r), undo)
    BY <2>1, <2>2, VoteTouches, TouchedMore, TouchedIsSession
  <2>4. Touched(s, CountVote(bought, r), undo)
    BY <2>2, <2>3, TouchedTwice
  <2> QED
    BY <1>1, <2>4 DEF Left, undo
<1>2. CASE ~IsInvestment(s.checkpoint) /\ IsInvestment(c)
  <2> DEFINE retired == ApplyRetirement(s, c.round)
  <2>1. RetirementUndo \subseteq undo /\ (c.round # 1 => LoanUndo \subseteq undo)
    BY <1>2 DEF LeavingUndo
  <2> HIDE DEF undo
  <2>2. Touched(s, retired, undo)
    BY <2>1, RetirementTouches, TouchedMore
  <2>3. IsSession(retired)
    BY <2>2 DEF Touched
  <2>4. Touched(retired, ApplyRoundStartMoney(retired, c.round), undo)
    BY <2>1, <2>3, RoundStartMoneyTouches, TouchedMore, NothingTouched
  <2>5. Touched(s, ApplyRoundStartMoney(retired, c.round), undo)
    BY <2>2, <2>4, TouchedTwice
  <2> QED
    BY <1>2, <2>5 DEF Left, undo
<1>3. CASE ~IsInvestment(s.checkpoint) /\ ~IsInvestment(c) /\ c = Finished
  BY <1>3, LoanPaymentsTouch DEF Left, LeavingUndo
<1>4. CASE ~IsInvestment(s.checkpoint) /\ ~IsInvestment(c) /\ c # Finished
  BY <1>4, NothingTouched DEF Left
<1> QED
  BY <1>1, <1>2, <1>3, <1>4

\* What each of an arrival's steps changes.
LEMMA ArrivingStages ==
    ASSUME NEW s, IsSession(s), NEW c, NEW opened, NEW closed, closed = Closed(s, c),
           NEW fired, fired = FireEvents(closed, c), NEW priced, priced = Priced(fired, c, opened)
    PROVE  /\ Touched(s, closed, ClosingUndo(c))
           /\ Touched(closed, fired, FiringUndo(c))
           /\ Touched(fired, priced, PricingUndo(c))
           /\ Touched(priced, Arrived(s, c, opened), UnlocksUndo)
<1>1. Touched(s, closed, ClosingUndo(c))
  <2> DEFINE grown == GrowDemand(s, c.round)
             undo  == GrowthUndo \cup BlackoutUndo
  <2>1. CASE IsRecap(c)
    <3>1. Touched(s, grown, undo)
      BY GrowthTouches, TouchedMore
    <3>2. Touched(grown, ChargeBlackoutCost(grown, c.round), undo)
      BY <3>1, BlackoutCostTouches, TouchedMore, TouchedIsSession
    <3>3. Touched(s, ChargeBlackoutCost(grown, c.round), undo)
      BY <3>1, <3>2, TouchedTwice
    <3> QED
      BY <2>1, <3>3 DEF Closed, ClosingUndo
  <2>2. CASE ~IsRecap(c)
    BY <2>2, NothingTouched DEF Closed
  <2> QED
    BY <2>1, <2>2
<1>2. Touched(closed, fired, FiringUndo(c))
  <2>1. IsSession(closed)
    BY <1>1 DEF Touched
  <2> QED
    BY <2>1, EventsTouch, NothingTouched DEF FireEvents, FiringUndo
<1>3. Touched(fired, priced, PricingUndo(c))
  <2>1. IsSession(fired)
    BY <1>2 DEF Touched
  <2> QED
    BY <2>1, FuelMarketTouches, NothingTouched DEF Priced, PricingUndo
<1>4. Touched(priced, ApplyUnlocks(priced, c), UnlocksUndo)
  <2>1. IsSession(priced)
    BY <1>3 DEF Touched
  <2> QED
    BY <2>1, UnlocksTouch
<1> QED
  BY <1>1, <1>2, <1>3, <1>4 DEF Arrived

\* Arriving at a checkpoint changes no more than its undo lists, whichever it is.
LEMMA ArrivingTouches ==
    ASSUME NEW s, IsSession(s), NEW c, NEW opened
    PROVE  Touched(s, Arrived(s, c, opened), ArrivingUndo(c))
<1> DEFINE undo   == ArrivingUndo(c)
           closed == Closed(s, c)
           fired  == FireEvents(closed, c)
           priced == Priced(fired, c, opened)
<1>1. /\ ClosingUndo(c) \subseteq undo
      /\ FiringUndo(c) \subseteq undo
      /\ PricingUndo(c) \subseteq undo
      /\ UnlocksUndo \subseteq undo
  BY DEF ArrivingUndo
<1> HIDE DEF undo
<1>2. /\ Touched(s, closed, ClosingUndo(c))
      /\ Touched(closed, fired, FiringUndo(c))
      /\ Touched(fired, priced, PricingUndo(c))
      /\ Touched(priced, Arrived(s, c, opened), UnlocksUndo)
  BY ArrivingStages
<1> HIDE DEF closed, fired, priced
<1>3. Touched(s, fired, undo)
  BY <1>1, <1>2, TouchedMore, TouchedTwice
<1>4. Touched(fired, Arrived(s, c, opened), undo)
  BY <1>1, <1>2, TouchedMore, TouchedTwice
<1> QED
  BY <1>3, <1>4, TouchedTwice DEF undo

\* A whole advance leaves and arrives.
LEMMA AdvanceLeavesAndArrives ==
    ASSUME NEW s, IsSession(s), NEW c, NEW opened
    PROVE  /\ Advanced(s, c, opened) = Arrived(Left(s, c), c, opened)
           /\ IsSession(Left(s, c))
           /\ Touched(Left(s, c), Advanced(s, c, opened), ArrivingUndo(c))
<1>1. Advanced(s, c, opened) = Arrived(Left(s, c), c, opened)
  BY Zenon DEF Advanced, Arrived, Left, Closed, Priced
<1>2. IsSession(Left(s, c))
  BY LeavingTouches, TouchedIsSession
<1> QED
  BY <1>1, <1>2, ArrivingTouches

\* A whole advance changes no more than its undo lists, whatever it leaves and reaches.
LEMMA AdvanceTouches ==
    ASSUME NEW s, IsSession(s), NEW c, NEW opened
    PROVE  Touched(s, Advanced(s, c, opened), AdvanceUndo(s, c))
<1>1. LeavingUndo(s, c) \subseteq AdvanceUndo(s, c) /\ ArrivingUndo(c) \subseteq AdvanceUndo(s, c)
  BY DEF LeavingUndo, ArrivingUndo, ClosingUndo, FiringUndo, PricingUndo, AdvanceUndo
<1>2. Touched(s, Left(s, c), AdvanceUndo(s, c))
  BY <1>1, LeavingTouches, TouchedMore
<1>3. Touched(Left(s, c), Advanced(s, c, opened), AdvanceUndo(s, c))
  BY <1>1, AdvanceLeavesAndArrives, TouchedMore
<1> QED
  BY <1>2, <1>3, TouchedTwice

\* What paces the game is not the business of an advance's steps.
Pace == {"checkpoint", "roundCount", "priceRoundCount", "timers", "phaseTimer", "settledPeriod",
         "recordedPeriods"}

\* Until the checkpoint and the timer change, an advance leaves the pace as it was.
LEMMA AdvanceKeepsPace ==
    ASSUME NEW s, IsSession(s), NEW c, NEW opened
    PROVE  \A f \in Pace : Advanced(s, c, opened)[f] = s[f]
<1>1. Touched(s, Advanced(s, c, opened), AdvanceUndo(s, c))
  BY AdvanceTouches
<1>2. \A f \in Pace : f \in SessionFields \ (AdvanceUndo(s, c) \cup {"players"})
  BY DEF Pace, SessionFields, AdvanceUndo, PurchasesUndo, VoteUndo, RetirementUndo, LoanUndo,
         GrowthUndo, BlackoutUndo, EventsUndo, FuelMarketUndo, UnlocksUndo
<1> QED
  BY <1>1, <1>2 DEF Touched

\* A Round added changes the two counts and the plans, and leaves the rest (add_round).
LEMMA AddingTouches ==
    ASSUME NEW s, IsSession(s)
    PROVE  /\ Touched(s, AddedRound(s), {"roundCount", "priceRoundCount", "plans"})
           /\ AddedRound(s).players = s.players
           /\ AddedRound(s).roundCount = s.roundCount + 1
           /\ AddedRound(s).priceRoundCount = IF s.checkpoint = NotStarted THEN s.roundCount + 1
                                              ELSE s.priceRoundCount
           /\ AddedRound(s).plans
                = Append(s.plans, [levers |-> Last(s.plans).levers, events |-> <<>>])
<1> DEFINE undo   == {"roundCount", "priceRoundCount", "plans"}
           count  == s.roundCount + 1
           priced == IF s.checkpoint = NotStarted THEN s.roundCount + 1 ELSE s.priceRoundCount
           plans  == Append(s.plans, [levers |-> Last(s.plans).levers, events |-> <<>>])
           longer == AddedRound(s)
<1>1. longer = [s EXCEPT !.roundCount = count, !.priceRoundCount = priced, !.plans = plans]
  BY DEF AddedRound
<1> HIDE DEF count, priced, plans
<1>2. /\ longer = [f \in SessionFields |-> longer[f]]
      /\ \A f \in SessionFields \ undo : longer[f] = s[f]
      /\ longer.roundCount = count
      /\ longer.priceRoundCount = priced
      /\ longer.plans = plans
  BY <1>1 DEF IsSession, SessionFields
<1> HIDE DEF longer
<1>3. longer.players = s.players
  BY <1>2 DEF SessionFields
<1>4. Touched(s, longer, undo)
  BY <1>2, <1>3 DEF Touched, IsSession, PlayerTouched
<1> QED
  BY <1>2, <1>3, <1>4 DEF longer, count, priced, plans

\* Settling a period changes no more than its undo lists, whatever was simulated.
LEMMA SettledTouches ==
    ASSUME NEW s, IsSession(s), NEW job, NEW outcome
    PROVE  Touched(s, Settled(s, job, outcome), SettleUndo)
<1> DEFINE
      period       == job.period
      r            == period.round
      operating(x) == Operating(x.owned, r)
      result(p, x) == ResultOf(s, job, outcome.players[p], x, CarbonTax(s, job, outcome)[p])
      ran(x)       == [k \in { y \in PriceKeys : y[1] \in operating(x) } |-> x.prices[k]]
      kept(p, x)   == [x EXCEPT
                         !.stored = outcome.players[p].stored,
                         !.locked = IF operating(x) = {} THEN @
                                    ELSE Append(@, [period |-> period, prices |-> ran(x)])]
      Settle(p, x) == IF ~GetsResult(s, job, outcome, p) THEN kept(p, x)
                      ELSE [kept(p, x) EXCEPT
                              !.money = @ + result(p, x).profit - result(p, x).tax,
                              !.fuelStock = FuelLeft(@, result(p, x).bought, result(p, x).burned),
                              !.results = Append(@, result(p, x))]
      roster == [p \in DOMAIN s.players |->
                   IF p \in DOMAIN job.bidders THEN Settle(p, s.players[p]) ELSE s.players[p]]
      peak   == [s.peakDemand EXCEPT ![r] = IF outcome.peak > @ THEN outcome.peak ELSE @]
      dark   == s.blackouts \o PeriodBlackouts(period, outcome.blackouts)
      listed == Append(s.recordedPeriods, period)
<1>1. Settled(s, job, outcome) =
        [s EXCEPT !.players = roster, !.demandAmplitude = job.base, !.peakDemand = peak,
                  !.blackouts = dark, !.settledPeriod = period, !.recordedPeriods = listed]
  BY DEF Settled
<1>2. ASSUME NEW p, NEW x, IsPlayer(x) PROVE PlayerTouched(x, Settle(p, x), SettleUndo)
  <2> HIDE DEF operating, result, ran
  <2>1. PlayerTouched(x, kept(p, x), SettleUndo)
    BY <1>2 DEF PlayerTouched, IsPlayer, PlayerFields, SettleUndo
  <2> HIDE DEF kept
  <2>2. PlayerTouched(kept(p, x), Settle(p, x), SettleUndo)
    BY <2>1 DEF PlayerTouched, IsPlayer, PlayerFields, SettleUndo
  <2> QED
    BY <2>1, <2>2, OwnFieldsTouchedTwice
<1> HIDE DEF Settle
<1>3. /\ roster = [p \in DOMAIN s.players |-> roster[p]]
      /\ \A p \in DOMAIN s.players : PlayerTouched(s.players[p], roster[p], SettleUndo)
  BY <1>2 DEF IsSession, PlayerTouched
<1> HIDE DEF roster, peak, dark, listed
<1> DEFINE t == Settled(s, job, outcome)
<1>4. /\ t = [f \in SessionFields |-> t[f]]
      /\ t.players = roster
      /\ \A f \in SessionFields \ (SettleUndo \cup {"players"}) : t[f] = s[f]
  BY <1>1 DEF IsSession, SessionFields, SettleUndo
<1>5. DOMAIN roster = DOMAIN s.players
  BY <1>3
<1> HIDE DEF t
<1> QED
  BY <1>3, <1>4, <1>5 DEF Touched, IsSession, PlayerTouched, t

-----------------------------------------------------------------------------
(***************************************************************************)
(* The operations.  Each keeps memory and file the same session; all but a *)
(* few leave the pace of the game alone: those are quiet.                  *)
(***************************************************************************)
Sound == IsSession(session) /\ file = session

PaceKept == \A f \in Pace : session'[f] = session[f]

Quiet == Sound' /\ PaceKept /\ UNCHANGED <<settlement, jobs, timeUp>>

\* A change that is saved, or undone in full.
LEMMA UpdateOutcome ==
    ASSUME Sound, NEW after, NEW undo, Touched(session, after, undo), Update(after, undo)
    PROVE  /\ Sound'
           /\ session' = session \/ session' = after
           /\ UNCHANGED <<settlement, jobs, records, timeUp>>
<1>1. UNCHANGED <<settlement, jobs, records, timeUp>>
  BY DEF Update
<1>2. CASE Save(after)
  BY <1>1, <1>2, TouchedIsSession DEF Save, Sound
<1>3. CASE SaveFails(after, undo)
  <2>1. session' = session
    BY <1>3, UndoneIsBefore DEF SaveFails, Sound
  <2> QED
    BY <1>1, <1>3, <2>1 DEF SaveFails, Sound
<1> QED
  BY <1>2, <1>3 DEF Update

\* An operation whose fields are none of the pace's is quiet, saved or not.
LEMMA QuietUpdate ==
    ASSUME Sound, NEW after, NEW undo, Touched(session, after, undo), Update(after, undo),
           Pace \cap undo = {}
    PROVE  Quiet
<1>1. /\ Sound'
      /\ session' = session \/ session' = after
      /\ UNCHANGED <<settlement, jobs, timeUp>>
  BY UpdateOutcome
<1>2. \A f \in Pace : f \in SessionFields \ (undo \cup {"players"})
  BY DEF Pace, SessionFields
<1>3. \A f \in Pace : after[f] = session[f]
  BY <1>2 DEF Touched
<1> QED
  BY <1>1, <1>3 DEF Quiet, PaceKept

\* One player's own operation.
LEMMA QuietPlayerUpdate ==
    ASSUME Sound, NEW p \in DOMAIN session.players, NEW player, NEW undo,
           PlayerTouched(session.players[p], player, undo), Pace \cap undo = {},
           UpdatePlayer(p, player, undo)
    PROVE  Quiet
<1> DEFINE roster == [session.players EXCEPT ![p] = player]
           after  == [session EXCEPT !.players = roster]
<1>1. Update(after, undo)
  BY DEF UpdatePlayer
<1>2. /\ roster = [q \in DOMAIN session.players |-> roster[q]]
      /\ \A q \in DOMAIN session.players : PlayerTouched(session.players[q], roster[q], undo)
  BY DEF Sound, IsSession, PlayerTouched
<1> HIDE DEF roster
<1>3. Touched(session, after, undo)
  BY <1>2, PlayersTouched DEF Sound
<1> HIDE DEF after
<1> QED
  BY <1>1, <1>3, QuietUpdate

\* Everything a player does is quiet: selecting, borrowing, voting, pricing, ordering fuel.
LEMMA PlayersAreQuiet == Sound /\ PlayerActs => Quiet
<1> SUFFICES ASSUME Sound, NEW p \in DOMAIN session.players,
                    \/ \E f \in Facilities : Select(p, f) \/ Deselect(p, f)
                    \/ TakeLoan(p)
                    \/ CancelLoan(p)
                    \/ \E choice \in {"yes", "no"} : CastBallot(p, choice)
                    \/ \E f \in Facilities, side \in {"sell", "buy"}, price \in PriceInputs :
                          SetPrice(p, f, side, price)
                    \/ \E u \in Fuels, quantity \in OrderInputs : SetFuelOrder(p, u, quantity)
             PROVE  Quiet
  BY DEF PlayerActs
<1> DEFINE x == session.players[p]
<1>1. IsPlayer(x)
  BY DEF Sound, IsSession
<1>2. /\ \A k \in PlayerFields : \A value : PlayerTouched(x, [x EXCEPT ![k] = value], {k})
      /\ \A k \in PlayerFields : Pace \cap {k} = {}
  BY <1>1, OwnFieldTouched DEF PlayerFields, Pace
<1>3. CASE \E f \in Facilities : Select(p, f) \/ Deselect(p, f)
  <2>1. PICK value : UpdatePlayer(p, [x EXCEPT !["selection"] = value], {"selection"})
    BY <1>3 DEF Select, Deselect
  <2> QED
    BY <1>2, <2>1, QuietPlayerUpdate DEF PlayerFields
<1>4. CASE TakeLoan(p) \/ CancelLoan(p)
  <2>1. PICK loan, money :
          UpdatePlayer(p, [x EXCEPT !.loan = loan, !.money = money], LoanUndo)
    BY <1>4 DEF TakeLoan, CancelLoan
  <2>2. PlayerTouched(x, [x EXCEPT !.loan = loan, !.money = money], LoanUndo)
    BY <1>1 DEF PlayerTouched, IsPlayer, PlayerFields, LoanUndo
  <2>3. Pace \cap LoanUndo = {}
    BY DEF Pace, LoanUndo
  <2> QED
    BY <2>1, <2>2, <2>3, QuietPlayerUpdate
<1>5. CASE \E choice \in {"yes", "no"} : CastBallot(p, choice)
  <2>1. PICK value : Update([session EXCEPT !["ballots"] = value], {"ballots"})
    BY <1>5 DEF CastBallot
  <2>2. Touched(session, [session EXCEPT !["ballots"] = value], {"ballots"})
    BY FieldTouched DEF Sound, SessionFields
  <2>3. Pace \cap {"ballots"} = {}
    BY DEF Pace
  <2> QED
    BY <2>1, <2>2, <2>3, QuietUpdate
<1>6. CASE \E f \in Facilities, side \in {"sell", "buy"}, price \in PriceInputs :
             SetPrice(p, f, side, price)
  <2>1. PICK value : UpdatePlayer(p, [x EXCEPT !["prices"] = value], {"prices"})
    BY <1>6 DEF SetPrice
  <2> QED
    BY <1>2, <2>1, QuietPlayerUpdate DEF PlayerFields
<1>7. CASE \E u \in Fuels, quantity \in OrderInputs : SetFuelOrder(p, u, quantity)
  <2>1. PICK value : UpdatePlayer(p, [x EXCEPT !["fuelOrder"] = value], {"fuelOrder"})
    BY <1>7 DEF SetFuelOrder
  <2> QED
    BY <1>2, <2>1, QuietPlayerUpdate DEF PlayerFields
<1> QED
  BY <1>3, <1>4, <1>5, <1>6, <1>7

\* Planning, events and the bonus multiplier are quiet.
LEMMA PlanningIsQuiet ==
    ASSUME Sound,
           \/ \E r \in Rounds :
                \/ \E changes \in LeverChanges : SetLevers(r, changes)
                \/ \E e \in Picks, s \in Seasons \cup {RoundEvent} :
                     LET planned == [event |-> e, season |-> s]
                     IN  PlanEvent(r, planned) \/ UnplanEvent(r, planned)
           \/ \E multiplier \in BonusSettings : SetBonus(multiplier)
    PROVE  Quiet
<1>1. CASE \E r \in Rounds :
             \/ \E changes \in LeverChanges : SetLevers(r, changes)
             \/ \E e \in Picks, s \in Seasons \cup {RoundEvent} :
                  LET planned == [event |-> e, season |-> s]
                  IN  PlanEvent(r, planned) \/ UnplanEvent(r, planned)
  <2>1. PICK plans : SetPlans(plans)
    BY <1>1 DEF SetLevers, PlanEvent, UnplanEvent
  <2>2. Update([session EXCEPT !["plans"] = plans], {"plans"})
    BY <2>1 DEF SetPlans
  <2>3. Touched(session, [session EXCEPT !["plans"] = plans], {"plans"})
    BY FieldTouched DEF Sound, SessionFields
  <2>4. Pace \cap {"plans"} = {}
    BY DEF Pace
  <2> QED
    BY <2>2, <2>3, <2>4, QuietUpdate
<1>2. CASE \E multiplier \in BonusSettings : SetBonus(multiplier)
  <2>1. PICK value : Update([session EXCEPT !["bonus"] = value], {"bonus"})
    BY <1>2 DEF SetBonus
  <2>2. Touched(session, [session EXCEPT !["bonus"] = value], {"bonus"})
    BY FieldTouched DEF Sound, SessionFields
  <2>3. Pace \cap {"bonus"} = {}
    BY DEF Pace
  <2> QED
    BY <2>1, <2>2, <2>3, QuietUpdate
<1> QED
  BY <1>1, <1>2

\* The purchase at the end of an Investment phase is quiet.
LEMMA BuyingIsQuiet == Sound /\ BuySelections => Quiet
<1> SUFFICES ASSUME Sound, BuySelections PROVE Quiet
  OBVIOUS
<1>1. Touched(session, ApplyPurchases(session, Here.round), PurchasesUndo)
  BY PurchasesTouch DEF Sound
<1>2. Pace \cap PurchasesUndo = {}
  BY DEF Pace, PurchasesUndo
<1> QED
  BY <1>1, <1>2, QuietUpdate DEF BuySelections

\* A player who joins changes nobody else.
LEMMA JoiningIsQuiet == ASSUME Sound, NEW p, Join(p) PROVE Quiet
<1> DEFINE roster == With(session.players, p, NewPlayer)
           joined == [session EXCEPT !.players = roster]
<1>1. /\ (session' = joined /\ file' = joined) \/ UNCHANGED <<session, file>>
      /\ UNCHANGED <<settlement, jobs, timeUp>>
  BY DEF Join, Save
<1>2. IsPlayer(NewPlayer)
  BY DEF IsPlayer, NewPlayer, PlayerFields
<1>3. /\ roster = [q \in DOMAIN roster |-> roster[q]]
      /\ \A q \in DOMAIN roster : IsPlayer(roster[q])
  BY <1>2 DEF Sound, IsSession, With
<1> HIDE DEF roster
<1>4. IsSession(joined) /\ \A f \in Pace : joined[f] = session[f]
  BY <1>3 DEF Sound, IsSession, Pace, SessionFields
<1> QED
  BY <1>1, <1>4 DEF Quiet, PaceKept, Sound

-----------------------------------------------------------------------------
(***************************************************************************)
(* The operations that pace the game.                                      *)
(***************************************************************************)
KeptBut(fields) == \A f \in Pace \ fields : session'[f] = session[f]

\* One field of the pace changes, or the write fails and none does.
LEMMA PaceUpdate ==
    ASSUME Sound, NEW f \in Pace, NEW value,
           Update([session EXCEPT ![f] = value], {f})
    PROVE  /\ Sound'
           /\ KeptBut({f})
           /\ session'[f] = session[f] \/ session'[f] = value
           /\ UNCHANGED <<settlement, jobs, timeUp>>
<1> DEFINE after == [session EXCEPT ![f] = value]
<1>1. f \in SessionFields \ {"players"}
  BY DEF Pace, SessionFields
<1>2. Touched(session, after, {f})
  BY <1>1, FieldTouched DEF Sound
<1>3. /\ DOMAIN session = SessionFields
      /\ Pace \subseteq SessionFields
  BY DEF Sound, IsSession, Pace, SessionFields
<1>4. after[f] = value /\ \A g \in Pace \ {f} : after[g] = session[g]
  BY <1>1, <1>3
<1> HIDE DEF after
<1>5. /\ Sound'
      /\ session' = session \/ session' = after
      /\ UNCHANGED <<settlement, jobs, timeUp>>
  BY <1>2, UpdateOutcome DEF after
<1> QED
  BY <1>4, <1>5 DEF KeptBut

\* Everything that can happen to the pace of the game.
Still == PaceKept /\ (timeUp' = timeUp \/ timeUp' = TRUE)

PhaseStep ==
    /\ KeptBut({"phaseTimer"})
    /\ session'.phaseTimer \in [running: BOOLEAN, minutes: Nat, extensions: 0..MaxExtensions]
    /\ session'.phaseTimer.running => session.phaseTimer.running
    /\ timeUp' = timeUp

TimersStep ==
    /\ KeptBut({"timers"})
    /\ session'.timers \in TimerSettings
    /\ timeUp' = timeUp

Lengthening ==
    /\ session.roundCount < MaxRounds
    /\ ~RecapOpen(Here, session.roundCount)
    /\ session'.roundCount = session.roundCount + 1
    /\ session'.priceRoundCount \in {session.priceRoundCount, session.roundCount + 1}
    /\ KeptBut({"roundCount", "priceRoundCount"})
    /\ timeUp' = timeUp

Turn ==
    /\ ~PhaseOpen
    /\ Here # Finished
    /\ IsTrading(Here) => session.settledPeriod = Here
    /\ session'.checkpoint = NextHere
    /\ session'.phaseTimer = TimerFor(NextHere)
    /\ KeptBut({"checkpoint", "phaseTimer"})

Settling ==
    /\ IsTrading(Here)
    /\ session.settledPeriod # Here
    /\ session'.settledPeriod = Here
    /\ session'.recordedPeriods = Append(session.recordedPeriods, Here)
    /\ KeptBut({"settledPeriod", "recordedPeriods"})
    /\ timeUp' = timeUp

PaceStep == Still \/ PhaseStep \/ TimersStep \/ Lengthening \/ Turn \/ Settling

\* Closing a phase stops its timer and no more (_close_phase).
LEMMA ClosingIsAPaceStep ==
    ASSUME Sound, TypeOKPace(session), ClosePhase
    PROVE  Sound' /\ PhaseStep /\ UNCHANGED <<settlement, jobs>>
<1> DEFINE timer == [session.phaseTimer EXCEPT !.running = FALSE]
<1>1. Update([session EXCEPT !["phaseTimer"] = timer], {"phaseTimer"})
  BY DEF ClosePhase
<1>2. timer \in [running: BOOLEAN, minutes: Nat, extensions: 0..MaxExtensions] /\ ~timer.running
  BY DEF TypeOKPace
<1> HIDE DEF timer
<1>3. "phaseTimer" \in Pace
  BY DEF Pace
<1> QED
  BY <1>1, <1>2, <1>3, PaceUpdate DEF PhaseStep, TypeOKPace

\* Extending a phase counts one extension (extend_phase).
LEMMA ExtendingIsAPaceStep ==
    ASSUME Sound, TypeOKPace(session), ExtendPhase
    PROVE  Sound' /\ PhaseStep /\ UNCHANGED <<settlement, jobs>>
<1> DEFINE timer == [session.phaseTimer EXCEPT !.extensions = @ + 1]
<1>1. Update([session EXCEPT !["phaseTimer"] = timer], {"phaseTimer"})
  BY DEF ExtendPhase
<1>2. /\ timer \in [running: BOOLEAN, minutes: Nat, extensions: 0..MaxExtensions]
      /\ timer.running => session.phaseTimer.running
  BY SessionAssumption DEF TypeOKPace, ExtendPhase
<1> HIDE DEF timer
<1>3. "phaseTimer" \in Pace
  BY DEF Pace
<1> QED
  BY <1>1, <1>2, <1>3, PaceUpdate DEF PhaseStep, TypeOKPace

\* New timers leave the phase that runs alone (set_timers).
LEMMA SettingTimersIsAPaceStep ==
    ASSUME Sound, TypeOKPace(session), NEW timers \in TimerSettings, SetTimers(timers)
    PROVE  Sound' /\ TimersStep /\ UNCHANGED <<settlement, jobs>>
<1>1. Update([session EXCEPT !["timers"] = timers], {"timers"})
  BY DEF SetTimers
<1>2. "timers" \in Pace
  BY DEF Pace
<1> QED
  BY <1>1, <1>2, PaceUpdate DEF TimersStep, TypeOKPace

\* A Round added leaves the checkpoint where it was (add_round).
LEMMA AddingARoundIsAPaceStep ==
    ASSUME Sound, AddRound
    PROVE  Sound' /\ (Still \/ Lengthening) /\ UNCHANGED <<settlement, jobs>>
<1> DEFINE longer == AddedRound(session)
           undo   == {"roundCount", "priceRoundCount", "plans"}
<1>1. /\ Touched(session, longer, undo)
      /\ longer.roundCount = session.roundCount + 1
      /\ longer.priceRoundCount \in {session.priceRoundCount, session.roundCount + 1}
  BY AddingTouches DEF Sound
<1> HIDE DEF longer
<1>2. /\ Sound'
      /\ session' = session \/ session' = longer
      /\ UNCHANGED <<settlement, jobs, timeUp>>
  BY <1>1, UpdateOutcome DEF AddRound, longer
<1>3. CASE session' = session
  BY <1>2, <1>3 DEF Still, PaceKept
<1>4. CASE session' = longer
  <2>1. KeptBut({"roundCount", "priceRoundCount"})
    BY <1>1, <1>4 DEF Touched, KeptBut, Pace, SessionFields
  <2> QED
    BY <1>1, <1>2, <1>4, <2>1 DEF Lengthening, AddRound
<1> QED
  BY <1>2, <1>3, <1>4

\* An advance moves to the next checkpoint of a settled session (advance).
LEMMA MovingOnIsAPaceStep ==
    ASSUME Sound, MoveOn
    PROVE  /\ Sound'
           /\ Still \/ (Turn /\ timeUp' = FALSE)
           /\ UNCHANGED <<settlement, jobs>>
<1>1. PICK opened \in OpenFuelPrices(NextHere) :
        LET applied == Advanced(session, NextHere, opened)
            moved   == [applied EXCEPT !.checkpoint = NextHere, !.phaseTimer = TimerFor(NextHere)]
        IN  \/ Save(moved) /\ timeUp' = FALSE
            \/ SaveFails(applied, AdvanceUndo(session, NextHere)) /\ UNCHANGED timeUp
  BY DEF MoveOn
<1> DEFINE applied == Advanced(session, NextHere, opened)
           moved   == [applied EXCEPT !.checkpoint = NextHere, !.phaseTimer = TimerFor(NextHere)]
<1>2. Touched(session, applied, AdvanceUndo(session, NextHere))
  BY AdvanceTouches DEF Sound
<1>3. \A f \in Pace : applied[f] = session[f]
  BY AdvanceKeepsPace DEF Sound
<1>4. IsSession(applied)
  BY <1>2, TouchedIsSession
<1>5. UNCHANGED <<settlement, jobs>>
  BY DEF MoveOn
<1> HIDE DEF applied
<1>6. CASE Save(moved) /\ timeUp' = FALSE
  <2>1. /\ moved = [f \in SessionFields |-> moved[f]]
        /\ moved.players = applied.players
        /\ moved.checkpoint = NextHere
        /\ moved.phaseTimer = TimerFor(NextHere)
        /\ \A f \in Pace \ {"checkpoint", "phaseTimer"} : moved[f] = applied[f]
    BY <1>4 DEF IsSession, SessionFields, Pace
  <2>2. IsSession(moved)
    BY <1>4, <2>1 DEF IsSession
  <2> HIDE DEF moved
  <2>3. Sound'
    BY <1>6, <2>2 DEF Sound, Save
  <2>4. Turn
    BY <1>3, <1>6, <2>1 DEF Turn, KeptBut, Save, MoveOn
  <2> QED
    BY <1>5, <1>6, <2>3, <2>4
<1>7. CASE SaveFails(applied, AdvanceUndo(session, NextHere)) /\ UNCHANGED timeUp
  <2>1. session' = session /\ file' = file
    BY <1>2, <1>7, UndoneIsBefore DEF Sound, SaveFails
  <2> QED
    BY <1>5, <1>7, <2>1 DEF Sound, Still, PaceKept
<1> QED
  BY <1>1, <1>6, <1>7 DEF applied

-----------------------------------------------------------------------------
(***************************************************************************)
(* Settling.  There is no job, or one, of the period the session says is   *)
(* being simulated, which is a Trading period.                             *)
(***************************************************************************)
JobInv ==
    \/ jobs = <<>> /\ settlement = NoPeriod
    \/ \E job : /\ jobs = <<job>>
                /\ settlement = job.period
                /\ IsTrading(job.period)

\* Removing the only element of a sequence leaves none.
LEMMA RemovingTheOnly == ASSUME NEW x PROVE RemoveAt(<<x>>, 1) = <<>>
<1>1. <<x>> \in Seq({x}) /\ Len(<<x>>) = 1
  OBVIOUS
<1>2. SubSeq(<<x>>, 1, 0) = <<>> /\ SubSeq(<<x>>, 2, 1) = <<>>
  BY <1>1
<1>3. <<>> \o <<>> = <<>>
  OBVIOUS
<1> QED
  BY <1>1, <1>2, <1>3 DEF RemoveAt

\* Whichever job is finished or abandoned is the one job there is.
LEMMA TheOnlyJob ==
    ASSUME JobInv, NEW i \in DOMAIN jobs
    PROVE  /\ settlement = jobs[i].period
           /\ IsTrading(jobs[i].period)
           /\ RemoveAt(jobs, i) = <<>>
<1>1. CASE jobs = <<>> /\ settlement = NoPeriod
  BY <1>1
<1>2. ASSUME NEW job, jobs = <<job>>, settlement = job.period, IsTrading(job.period)
      PROVE  /\ settlement = jobs[i].period
             /\ IsTrading(jobs[i].period)
             /\ RemoveAt(jobs, i) = <<>>
  <2>1. i = 1
    BY <1>2
  <2> QED
    BY <1>2, <2>1, RemovingTheOnly
<1> QED
  BY <1>1, <1>2 DEF JobInv

\* A simulation starts only where none runs (start_settlement).
LEMMA StartingKeepsOneJob ==
    ASSUME Sound, JobInv, StartSettlement
    PROVE  Sound' /\ Still /\ JobInv'
<1>1. /\ UNCHANGED <<session, file, timeUp>>
      /\ jobs' = Append(jobs, JobOf(session))
      /\ settlement' = Here
      /\ IsTrading(Here)
      /\ settlement = NoPeriod
  BY DEF StartSettlement, SettlementDue
<1>2. jobs = <<>>
  BY <1>1 DEF JobInv, NoPeriod, NotStarted, IsTrading
<1>3. jobs' = <<JobOf(session)>>
  BY <1>1, <1>2
<1>4. JobOf(session).period = Here
  BY DEF JobOf, Here
<1>5. JobInv'
  BY <1>1, <1>3, <1>4 DEF JobInv
<1> QED
  BY <1>1, <1>5 DEF Sound, Still, PaceKept

\* A simulation that failed leaves none behind (abandon_settlement).
LEMMA AbandoningKeepsOneJob ==
    ASSUME Sound, JobInv, NEW i \in DOMAIN jobs, AbandonSettlement(i)
    PROVE  Sound' /\ Still /\ JobInv'
<1>1. settlement = jobs[i].period /\ RemoveAt(jobs, i) = <<>>
  BY TheOnlyJob
<1>2. /\ UNCHANGED <<session, file, timeUp>>
      /\ jobs' = <<>>
      /\ settlement' = NoPeriod
  BY <1>1 DEF AbandonSettlement
<1> QED
  BY <1>2 DEF Sound, Still, PaceKept, JobInv

\* A simulation that is settled leaves none behind; one that could not be saved stays
\* the only one (finish_settlement).
LEMMA FinishingKeepsOneJob ==
    ASSUME Sound, JobInv, NEW i \in DOMAIN jobs, NEW outcome, FinishSettlement(i, outcome)
    PROVE  Sound' /\ (Still \/ Settling) /\ JobInv'
<1> DEFINE job   == jobs[i]
           after == Settled(session, job, outcome)
<1>1. IsTrading(job.period) /\ RemoveAt(jobs, i) = <<>>
  BY TheOnlyJob
<1>2. Touched(session, after, SettleUndo)
  BY SettledTouches DEF Sound
<1>3. /\ Here = job.period
      /\ session.settledPeriod # Here
      /\ timeUp' = timeUp
  BY DEF FinishSettlement, WaitingFor
<1>4. /\ after.settledPeriod = job.period
      /\ after.recordedPeriods = Append(session.recordedPeriods, job.period)
  BY DEF Settled, Sound, IsSession, SessionFields
<1>5. \A f \in Pace \ {"settledPeriod", "recordedPeriods"} : after[f] = session[f]
  BY <1>2 DEF Touched, Pace, SessionFields, SettleUndo
<1> HIDE DEF after
<1>6. CASE Save(after) /\ settlement' = NoPeriod /\ jobs' = RemoveAt(jobs, i)
  <2>1. Sound'
    BY <1>2, <1>6, TouchedIsSession DEF Sound, Save
  <2>2. Settling
    BY <1>1, <1>3, <1>4, <1>5, <1>6 DEF Settling, KeptBut, Save
  <2> QED
    BY <1>1, <1>6, <2>1, <2>2 DEF JobInv
<1>7. CASE SaveFails(after, SettleUndo) /\ UNCHANGED <<settlement, jobs>>
  <2>1. session' = session /\ file' = file
    BY <1>2, <1>7, UndoneIsBefore DEF Sound, SaveFails
  <2> QED
    BY <1>3, <1>7, <2>1 DEF Sound, Still, PaceKept, JobInv
<1> QED
  BY <1>6, <1>7 DEF FinishSettlement, after

\* A process that reopens the file simulates nothing (open).
LEMMA RestartingKeepsNoJob ==
    ASSUME Sound, Restart
    PROVE  Sound' /\ Still /\ JobInv'
BY DEF Restart, Sound, Still, PaceKept, JobInv

\* The clock alone changes nothing of the session (PhaseTimer).
LEMMA TimeRunningOutIsStill ==
    ASSUME Sound, TimeRunsOut
    PROVE  Sound' /\ Still /\ UNCHANGED <<settlement, jobs>>
BY DEF TimeRunsOut, Sound, Still, PaceKept

-----------------------------------------------------------------------------
\* Every step of the session is one of the steps above.
LEMMA EveryStep ==
    ASSUME Sound, TypeOKPace(session), JobInv, [Next]_vars
    PROVE  /\ Sound'
           /\ JobInv'
           /\ Still \/ PhaseStep \/ TimersStep \/ Lengthening \/ (Turn /\ timeUp' = FALSE)
                \/ Settling
<1>1. ASSUME Quiet PROVE Sound' /\ JobInv' /\ Still
  BY <1>1 DEF Quiet, Still, JobInv
<1>2. ASSUME UNCHANGED <<settlement, jobs>> PROVE JobInv'
  BY <1>2 DEF JobInv
<1>3. CASE \E p \in Admitted : Join(p)
  BY <1>1, <1>3, JoiningIsQuiet
<1>4. CASE PlayerActs
  BY <1>1, <1>4, PlayersAreQuiet
<1>5. CASE FacilitatorActs
  <2>1. CASE ClosePhase
    BY <1>2, <2>1, ClosingIsAPaceStep
  <2>2. CASE MoveOn
    BY <1>2, <2>2, MovingOnIsAPaceStep
  <2>3. CASE ExtendPhase
    BY <1>2, <2>3, ExtendingIsAPaceStep
  <2>4. CASE AddRound
    BY <1>2, <2>4, AddingARoundIsAPaceStep
  <2>5. CASE \E timers \in TimerSettings : SetTimers(timers)
    BY <1>2, <2>5, SettingTimersIsAPaceStep
  <2>6. CASE \/ \E r \in Rounds :
                  \/ \E changes \in LeverChanges : SetLevers(r, changes)
                  \/ \E e \in Picks, s \in Seasons \cup {RoundEvent} :
                       LET planned == [event |-> e, season |-> s]
                       IN  PlanEvent(r, planned) \/ UnplanEvent(r, planned)
             \/ \E multiplier \in BonusSettings : SetBonus(multiplier)
    BY <1>1, <2>6, PlanningIsQuiet
  <2> QED
    BY <1>5, <2>1, <2>2, <2>3, <2>4, <2>5, <2>6 DEF FacilitatorActs, Advance
<1>6. CASE BackgroundActs
  BY <1>1, <1>6, BuyingIsQuiet, StartingKeepsOneJob, AbandoningKeepsOneJob, FinishingKeepsOneJob
  DEF BackgroundActs
<1>7. CASE TimeRunsOut
  BY <1>2, <1>7, TimeRunningOutIsStill
<1>8. CASE Restart
  BY <1>8, RestartingKeepsNoJob
<1>9. CASE UNCHANGED vars
  BY <1>2, <1>9 DEF vars, Sound, Still, PaceKept
<1> QED
  BY <1>3, <1>4, <1>5, <1>6, <1>7, <1>8, <1>9 DEF Next

-----------------------------------------------------------------------------
(***************************************************************************)
(* What a step does to the session, exactly: nothing, as when a write      *)
(* fails, or the whole change of one operation.                            *)
(***************************************************************************)
\* The player p is as y says, and nothing else changes.
Becomes(p, y) == session' = [session EXCEPT !.players[p] = y]

PlayerChange(p) ==
    LET x == session.players[p]
    IN  \/ \E f \in Facilities :
             \/ Select(p, f) /\ Becomes(p, [x EXCEPT !.selection[f] = @ + 1])
             \/ Deselect(p, f) /\ Becomes(p, [x EXCEPT !.selection[f] = @ - 1])
        \/ /\ TakeLoan(p)
           /\ Becomes(p, [x EXCEPT !.loan = Loan(RoundNow(session)), !.money = @ + LOAN_AMOUNT])
        \/ /\ CancelLoan(p)
           /\ Becomes(p, [x EXCEPT !.loan = NoLoan, !.money = @ - LOAN_AMOUNT])
        \/ \E f \in Facilities, side \in {"sell", "buy"}, price \in PriceInputs :
             SetPrice(p, f, side, price) /\ Becomes(p, [x EXCEPT !.prices[<<f, side>>] = price])
        \/ \E u \in Fuels, quantity \in OrderInputs :
             /\ SetFuelOrder(p, u, quantity)
             /\ Becomes(p, [x EXCEPT !.fuelOrder[u] =
                              CappedOrder(quantity, x.fuelStock[u],
                                          SeasonNeed(x.owned, u, RoundNow(session)))])

\* Nothing that a player has or that an advance fires or unlocks.
SideFields == {"phaseTimer", "timers", "bonus", "ballots", "plans"}

SideChange == \E f \in SideFields : \E value : session' = [session EXCEPT ![f] = value]

Joining == \E p \in Admitted \ Players :
              session' = [session EXCEPT !.players = With(@, p, NewPlayer)]

Buying == BuySelections /\ session' = ApplyPurchases(session, Here.round)

Moving == /\ MoveOn
          /\ \E opened \in OpenFuelPrices(NextHere) :
                session' = [Advanced(session, NextHere, opened) EXCEPT
                              !.checkpoint = NextHere, !.phaseTimer = TimerFor(NextHere)]

Finishing == \E i \in DOMAIN jobs : \E outcome \in Outcomes(jobs[i]) :
                /\ WaitingFor(jobs[i])
                /\ session' = Settled(session, jobs[i], outcome)
                /\ records' = With(records, jobs[i].period, outcome)
                /\ UNCHANGED timeUp

Change ==
    \/ \E p \in Players : PlayerChange(p)
    \/ SideChange
    \/ AddRound /\ session' = AddedRound(session)
    \/ Joining
    \/ Buying
    \/ Moving
    \/ Finishing

\* One player's own update is made to them alone, or undone.
LEMMA PlayerUpdateOutcome ==
    ASSUME Sound, NEW p \in DOMAIN session.players, NEW player, NEW undo,
           PlayerTouched(session.players[p], player, undo), UpdatePlayer(p, player, undo)
    PROVE  session' = session \/ Becomes(p, player)
<1> DEFINE roster == [session.players EXCEPT ![p] = player]
           after  == [session EXCEPT !.players = roster]
<1>1. after = [session EXCEPT !.players[p] = player]
  OBVIOUS
<1>2. /\ roster = [q \in DOMAIN session.players |-> roster[q]]
      /\ \A q \in DOMAIN session.players : PlayerTouched(session.players[q], roster[q], undo)
  BY DEF Sound, IsSession, PlayerTouched
<1> HIDE DEF roster
<1>3. Touched(session, after, undo)
  BY <1>2, PlayersTouched DEF Sound
<1> HIDE DEF after
<1>4. Update(after, undo)
  BY <1>1 DEF UpdatePlayer
<1>5. session' = session \/ session' = after
  BY <1>3, <1>4, UpdateOutcome
<1> QED
  BY <1>1, <1>5 DEF Becomes

\* Whatever a player asks for is done to them in full, or not at all.
LEMMA PlayersChange ==
    Sound /\ PlayerActs => session' = session \/ SideChange \/ \E p \in Players : PlayerChange(p)
<1> SUFFICES ASSUME Sound, NEW p \in DOMAIN session.players,
                    \/ \E f \in Facilities : Select(p, f) \/ Deselect(p, f)
                    \/ TakeLoan(p)
                    \/ CancelLoan(p)
                    \/ \E choice \in {"yes", "no"} : CastBallot(p, choice)
                    \/ \E f \in Facilities, side \in {"sell", "buy"}, price \in PriceInputs :
                          SetPrice(p, f, side, price)
                    \/ \E u \in Fuels, quantity \in OrderInputs : SetFuelOrder(p, u, quantity)
             PROVE  session' = session \/ SideChange \/ PlayerChange(p)
  BY DEF PlayerActs, Players
<1> DEFINE x == session.players[p]
<1>1. IsPlayer(x)
  BY DEF Sound, IsSession
<1>2. ASSUME NEW f \in Facilities, Select(p, f) PROVE session' = session \/ PlayerChange(p)
  <2> DEFINE y == [x EXCEPT !.selection[f] = @ + 1]
  <2>1. PlayerTouched(x, y, {"selection"})
    BY <1>1 DEF PlayerTouched, IsPlayer, PlayerFields
  <2>2. UpdatePlayer(p, y, {"selection"})
    BY <1>2 DEF Select
  <2> HIDE DEF y
  <2>3. session' = session \/ Becomes(p, y)
    BY <2>1, <2>2, PlayerUpdateOutcome
  <2> QED
    BY <1>2, <2>3 DEF PlayerChange, y
<1>3. ASSUME NEW f \in Facilities, Deselect(p, f) PROVE session' = session \/ PlayerChange(p)
  <2> DEFINE y == [x EXCEPT !.selection[f] = @ - 1]
  <2>1. PlayerTouched(x, y, {"selection"})
    BY <1>1 DEF PlayerTouched, IsPlayer, PlayerFields
  <2>2. UpdatePlayer(p, y, {"selection"})
    BY <1>3 DEF Deselect
  <2> HIDE DEF y
  <2>3. session' = session \/ Becomes(p, y)
    BY <2>1, <2>2, PlayerUpdateOutcome
  <2> QED
    BY <1>3, <2>3 DEF PlayerChange, y
<1>4. CASE TakeLoan(p)
  <2> DEFINE y == [x EXCEPT !.loan = Loan(RoundNow(session)), !.money = @ + LOAN_AMOUNT]
  <2>1. PlayerTouched(x, y, LoanUndo)
    BY <1>1 DEF PlayerTouched, IsPlayer, PlayerFields, LoanUndo
  <2>2. UpdatePlayer(p, y, LoanUndo)
    BY <1>4 DEF TakeLoan
  <2> HIDE DEF y
  <2>3. session' = session \/ Becomes(p, y)
    BY <2>1, <2>2, PlayerUpdateOutcome
  <2> QED
    BY <1>4, <2>3 DEF PlayerChange, y
<1>5. CASE CancelLoan(p)
  <2> DEFINE y == [x EXCEPT !.loan = NoLoan, !.money = @ - LOAN_AMOUNT]
  <2>1. PlayerTouched(x, y, LoanUndo)
    BY <1>1 DEF PlayerTouched, IsPlayer, PlayerFields, LoanUndo
  <2>2. UpdatePlayer(p, y, LoanUndo)
    BY <1>5 DEF CancelLoan
  <2> HIDE DEF y
  <2>3. session' = session \/ Becomes(p, y)
    BY <2>1, <2>2, PlayerUpdateOutcome
  <2> QED
    BY <1>5, <2>3 DEF PlayerChange, y
<1>6. CASE \E choice \in {"yes", "no"} : CastBallot(p, choice)
  <2>1. PICK value : Update([session EXCEPT !["ballots"] = value], {"ballots"})
    BY <1>6 DEF CastBallot
  <2>2. Touched(session, [session EXCEPT !["ballots"] = value], {"ballots"})
    BY FieldTouched DEF Sound, SessionFields
  <2>3. session' = session \/ session' = [session EXCEPT !["ballots"] = value]
    BY <2>1, <2>2, UpdateOutcome
  <2> QED
    BY <2>3 DEF SideChange, SideFields
<1>7. ASSUME NEW f \in Facilities, NEW side \in {"sell", "buy"}, NEW price \in PriceInputs,
             SetPrice(p, f, side, price)
      PROVE  session' = session \/ PlayerChange(p)
  <2> DEFINE y == [x EXCEPT !.prices[<<f, side>>] = price]
  <2>1. PlayerTouched(x, y, {"prices"})
    BY <1>1 DEF PlayerTouched, IsPlayer, PlayerFields
  <2>2. UpdatePlayer(p, y, {"prices"})
    BY <1>7 DEF SetPrice
  <2> HIDE DEF y
  <2>3. session' = session \/ Becomes(p, y)
    BY <2>1, <2>2, PlayerUpdateOutcome
  <2> QED
    BY <1>7, <2>3 DEF PlayerChange, y
<1>8. ASSUME NEW u \in Fuels, NEW quantity \in OrderInputs, SetFuelOrder(p, u, quantity)
      PROVE  session' = session \/ PlayerChange(p)
  <2> DEFINE order == CappedOrder(quantity, x.fuelStock[u],
                                  SeasonNeed(x.owned, u, RoundNow(session)))
             y     == [x EXCEPT !.fuelOrder[u] = order]
  <2>1. PlayerTouched(x, y, {"fuelOrder"})
    BY <1>1 DEF PlayerTouched, IsPlayer, PlayerFields
  <2>2. UpdatePlayer(p, y, {"fuelOrder"})
    BY <1>8 DEF SetFuelOrder
  <2> HIDE DEF y
  <2>3. session' = session \/ Becomes(p, y)
    BY <2>1, <2>2, PlayerUpdateOutcome
  <2> QED
    BY <1>8, <2>3 DEF PlayerChange, y
<1> QED
  BY <1>2, <1>3, <1>4, <1>5, <1>6, <1>7, <1>8

\* What is neither theirs nor paced by the facilitator's advance changes one side field.
LEMMA SidesChange ==
    ASSUME Sound,
           \/ ClosePhase \/ ExtendPhase
           \/ \E r \in Rounds :
                \/ \E changes \in LeverChanges : SetLevers(r, changes)
                \/ \E e \in Picks, s \in Seasons \cup {RoundEvent} :
                     LET planned == [event |-> e, season |-> s]
                     IN  PlanEvent(r, planned) \/ UnplanEvent(r, planned)
           \/ \E timers \in TimerSettings : SetTimers(timers)
           \/ \E multiplier \in BonusSettings : SetBonus(multiplier)
    PROVE  session' = session \/ SideChange
<1>0. PICK f \in SideFields : \E value : Update([session EXCEPT ![f] = value], {f})
  <2>1. CASE ClosePhase \/ ExtendPhase
    <3>1. \E timer : Update([session EXCEPT !["phaseTimer"] = timer], {"phaseTimer"})
      BY <2>1 DEF ClosePhase, ExtendPhase
    <3> QED
      BY <3>1 DEF SideFields
  <2>2. CASE \E r \in Rounds :
               \/ \E changes \in LeverChanges : SetLevers(r, changes)
               \/ \E e \in Picks, s \in Seasons \cup {RoundEvent} :
                    LET planned == [event |-> e, season |-> s]
                    IN  PlanEvent(r, planned) \/ UnplanEvent(r, planned)
    <3>1. PICK plans : SetPlans(plans)
      BY <2>2 DEF SetLevers, PlanEvent, UnplanEvent
    <3>2. Update([session EXCEPT !["plans"] = plans], {"plans"})
      BY <3>1 DEF SetPlans
    <3> QED
      BY <3>2 DEF SideFields
  <2>3. CASE \/ \E timers \in TimerSettings : SetTimers(timers)
             \/ \E multiplier \in BonusSettings : SetBonus(multiplier)
    <3>1. \/ \E value : Update([session EXCEPT !["timers"] = value], {"timers"})
          \/ \E value : Update([session EXCEPT !["bonus"] = value], {"bonus"})
      BY <2>3 DEF SetTimers, SetBonus
    <3> QED
      BY <3>1 DEF SideFields
  <2> QED
    BY <2>1, <2>2, <2>3
<1>1. PICK value : Update([session EXCEPT ![f] = value], {f})
  BY <1>0
<1> DEFINE after == [session EXCEPT ![f] = value]
<1>2. f \in SessionFields \ {"players"}
  BY DEF SideFields, SessionFields
<1>3. Touched(session, after, {f})
  BY <1>2, FieldTouched DEF Sound
<1> HIDE DEF after
<1>4. session' = session \/ session' = after
  BY <1>1, <1>3, UpdateOutcome DEF after
<1> QED
  BY <1>4 DEF SideChange, after

\* Every step changes nothing of the session, or makes the whole change of one operation.
LEMMA EveryChange == Sound /\ [Next]_vars => session' = session \/ Change
<1> SUFFICES ASSUME Sound, [Next]_vars PROVE session' = session \/ Change
  OBVIOUS
<1>1. CASE \E p \in Admitted : Join(p)
  BY <1>1 DEF Join, Save, Change, Joining, Players
<1>2. CASE PlayerActs
  BY <1>2, PlayersChange DEF Change
<1>3. CASE MoveOn
  <2>1. PICK opened \in OpenFuelPrices(NextHere) :
          LET applied == Advanced(session, NextHere, opened)
              moved   == [applied EXCEPT !.checkpoint = NextHere,
                                         !.phaseTimer = TimerFor(NextHere)]
          IN  Save(moved) \/ SaveFails(applied, AdvanceUndo(session, NextHere))
    BY <1>3 DEF MoveOn
  <2> DEFINE applied == Advanced(session, NextHere, opened)
             moved   == [applied EXCEPT !.checkpoint = NextHere,
                                        !.phaseTimer = TimerFor(NextHere)]
  <2>2. CASE Save(moved)
    BY <1>3, <2>2 DEF Save, Change, Moving
  <2>3. CASE SaveFails(applied, AdvanceUndo(session, NextHere))
    <3>1. Touched(session, applied, AdvanceUndo(session, NextHere))
      BY AdvanceTouches DEF Sound
    <3> HIDE DEF applied
    <3> QED
      BY <2>3, <3>1, UndoneIsBefore DEF Sound, SaveFails
  <2> HIDE DEF applied
  <2> QED
    BY <2>1, <2>2, <2>3 DEF applied
<1>4. CASE AddRound
  <2>1. Touched(session, AddedRound(session), {"roundCount", "priceRoundCount", "plans"})
    BY AddingTouches DEF Sound
  <2>2. session' = session \/ session' = AddedRound(session)
    BY <1>4, <2>1, UpdateOutcome DEF AddRound
  <2> QED
    BY <1>4, <2>2 DEF Change
<1>5. CASE \/ ClosePhase \/ ExtendPhase
           \/ \E r \in Rounds :
                \/ \E changes \in LeverChanges : SetLevers(r, changes)
                \/ \E e \in Picks, s \in Seasons \cup {RoundEvent} :
                     LET planned == [event |-> e, season |-> s]
                     IN  PlanEvent(r, planned) \/ UnplanEvent(r, planned)
           \/ \E timers \in TimerSettings : SetTimers(timers)
           \/ \E multiplier \in BonusSettings : SetBonus(multiplier)
  BY <1>5, SidesChange DEF Change
<1>6. CASE BuySelections
  <2>1. Touched(session, ApplyPurchases(session, Here.round), PurchasesUndo)
    BY PurchasesTouch DEF Sound
  <2>2. session' = session \/ session' = ApplyPurchases(session, Here.round)
    BY <1>6, <2>1, UpdateOutcome DEF BuySelections
  <2> QED
    BY <1>6, <2>2 DEF Change, Buying
<1>7. ASSUME NEW i \in DOMAIN jobs, NEW outcome \in Outcomes(jobs[i]),
             FinishSettlement(i, outcome)
      PROVE  session' = session \/ Change
  <2> DEFINE after == Settled(session, jobs[i], outcome)
  <2>1. Touched(session, after, SettleUndo)
    BY SettledTouches DEF Sound
  <2>2. \/ Save(after) /\ records' = With(records, jobs[i].period, outcome)
        \/ SaveFails(after, SettleUndo)
    BY <1>7 DEF FinishSettlement
  <2>3. WaitingFor(jobs[i]) /\ timeUp' = timeUp
    BY <1>7 DEF FinishSettlement
  <2> HIDE DEF after
  <2>4. \/ session' = after /\ records' = With(records, jobs[i].period, outcome)
        \/ session' = session
    BY <2>1, <2>2, UndoneIsBefore DEF Sound, Save, SaveFails
  <2> QED
    BY <2>3, <2>4 DEF Change, Finishing, after
<1>8. CASE StartSettlement \/ \E i \in DOMAIN jobs : AbandonSettlement(i)
  BY <1>8 DEF StartSettlement, AbandonSettlement
<1>9. CASE TimeRunsOut \/ Restart \/ UNCHANGED vars
  BY <1>9 DEF TimeRunsOut, Restart, vars, Sound
<1> QED
  BY <1>1, <1>2, <1>3, <1>4, <1>5, <1>6, <1>7, <1>8, <1>9
  DEF Next, FacilitatorActs, BackgroundActs, Advance

-----------------------------------------------------------------------------
(***************************************************************************)
(* The inductive invariant.  Beyond Sound and JobInv, the last period      *)
(* recorded is the one the session says it settled last.                   *)
(***************************************************************************)
LastRecorded(s) ==
    IF s.recordedPeriods = <<>> THEN NoPeriod ELSE s.recordedPeriods[Len(s.recordedPeriods)]

PaceInv ==
    /\ TypeOKPace(session)
    /\ session.recordedPeriods \in Seq(TradingPeriods(session.roundCount))
    /\ session.settledPeriod = LastRecorded(session)

SessionInv == Sound /\ JobInv /\ PaceInv

\* A new session satisfies the invariant.
LEMMA SessionStarts == Init => SessionInv
<1> SUFFICES ASSUME Init PROVE SessionInv
  OBVIOUS
<1>1. session = NewSession /\ file = NewSession /\ jobs = <<>> /\ settlement = NoPeriod
  BY DEF Init
<1>2. IsSession(NewSession)
  BY DEF IsSession, NewSession, SessionFields, Nobody
<1>3. /\ NewSession.roundCount = StartRounds
      /\ NewSession.priceRoundCount = StartRounds
      /\ NewSession.checkpoint = NotStarted
      /\ NewSession.timers = FirstTimers
      /\ NewSession.phaseTimer = NoTimer
      /\ NewSession.settledPeriod = NoPeriod
      /\ NewSession.recordedPeriods = <<>>
  BY DEF NewSession
<1>4. StartRounds \in Nat /\ MaxRounds \in Nat /\ StartRounds <= MaxRounds
  BY SessionAssumption, CatalogAssumption
<1>5. NoTimer \in [running: BOOLEAN, minutes: Nat, extensions: 0..MaxExtensions]
  BY SessionAssumption DEF NoTimer
<1>6. TypeOKPace(NewSession)
  BY <1>3, <1>4, <1>5, KindsAreCheckpoints, SessionAssumption DEF TypeOKPace
<1>7. PaceInv
  BY <1>1, <1>3, <1>6 DEF PaceInv, LastRecorded
<1> QED
  BY <1>1, <1>2, <1>7 DEF SessionInv, Sound, JobInv

\* The pace stays typed, and its settled period one of those listed, over every step.
LEMMA PaceInvKept ==
    ASSUME PaceInv,
           Still \/ PhaseStep \/ TimersStep \/ Lengthening \/ Turn \/ Settling
    PROVE  PaceInv'
<1> DEFINE n == session.roundCount
           c == session.checkpoint
<1>1. /\ n \in StartRounds..MaxRounds
      /\ session.priceRoundCount \in StartRounds..n
      /\ c \in AllCheckpoints(n)
      /\ session.timers \in TimerSettings
      /\ session.phaseTimer \in [running: BOOLEAN, minutes: Nat, extensions: 0..MaxExtensions]
      /\ session.settledPeriod \in {NoPeriod} \cup TradingPeriods(n)
      /\ session.recordedPeriods \in Seq(TradingPeriods(n))
      /\ session.settledPeriod = LastRecorded(session)
  BY DEF PaceInv, TypeOKPace
<1>2. StartRounds \in Nat \ {0} /\ MaxRounds \in Nat /\ n \in Nat \ {0}
  BY <1>1, SessionAssumption, CatalogAssumption
<1> USE DEF Pace
<1>3. CASE Still
  BY <1>1, <1>3 DEF Still, PaceKept, PaceInv, TypeOKPace, LastRecorded
<1>4. CASE PhaseStep
  BY <1>1, <1>4 DEF PhaseStep, KeptBut, PaceInv, TypeOKPace, LastRecorded
<1>5. CASE TimersStep
  BY <1>1, <1>5 DEF TimersStep, KeptBut, PaceInv, TypeOKPace, LastRecorded
<1>6. CASE Lengthening
  <2>1. /\ c \in AllCheckpoints(n + 1)
        /\ TradingPeriods(n) \subseteq TradingPeriods(n + 1)
    BY <1>1, <1>2, <1>6, MoreRoundsMoreCheckpoints
  <2>2. session'.recordedPeriods \in Seq(TradingPeriods(n + 1))
    BY <1>1, <1>6, <2>1 DEF Lengthening, KeptBut
  <2>3. /\ n + 1 \in StartRounds..MaxRounds
        /\ session'.priceRoundCount \in StartRounds..(n + 1)
    BY <1>1, <1>2, <1>6 DEF Lengthening
  <2> QED
    BY <1>1, <1>6, <2>1, <2>2, <2>3
    DEF Lengthening, KeptBut, PaceInv, TypeOKPace, LastRecorded
<1>7. CASE Turn
  <2>1. NextHere \in AllCheckpoints(n)
    BY <1>1, <1>2, <1>7, NextIsACheckpoint DEF Turn, NextHere, Here
  <2>2. /\ session.timers.investment \in Nat
        /\ session.timers.priceSetting \in Nat
        /\ 0 \in 0..MaxExtensions
    BY <1>1, SessionAssumption
  <2>3. TimerFor(NextHere) \in [running: BOOLEAN, minutes: Nat, extensions: 0..MaxExtensions]
    BY <2>2 DEF TimerFor, NoTimer, IsInvestment, IsTrading
  <2> QED
    BY <1>1, <1>7, <2>1, <2>3 DEF Turn, KeptBut, PaceInv, TypeOKPace, LastRecorded
<1>8. CASE Settling
  <2>1. Here \in TradingPeriods(n)
    BY <1>1, <1>8, TradingIsAPeriod DEF Settling, Here
  <2>2. /\ session'.recordedPeriods = Append(session.recordedPeriods, Here)
        /\ session'.settledPeriod = Here
        /\ session'.roundCount = n
    BY <1>8 DEF Settling, KeptBut
  <2>3. /\ session'.recordedPeriods \in Seq(TradingPeriods(n))
        /\ session'.recordedPeriods # <<>>
        /\ session'.recordedPeriods[Len(session'.recordedPeriods)] = Here
    BY <1>1, <2>1, <2>2
  <2> QED
    BY <1>1, <1>8, <2>1, <2>2, <2>3 DEF Settling, KeptBut, PaceInv, TypeOKPace, LastRecorded
<1> QED
  BY <1>3, <1>4, <1>5, <1>6, <1>7, <1>8

\* The invariant is inductive.
LEMMA SessionInvKept == SessionInv /\ [Next]_vars => SessionInv'
BY EveryStep, PaceInvKept DEF SessionInv, PaceInv

\* The invariant always holds.
LEMMA SessionInvHolds == Spec => []SessionInv
BY SessionStarts, SessionInvKept, PTL DEF Spec

\* A session is always at a checkpoint of its own Rounds.
LEMMA WhereTheSessionIs ==
    ASSUME SessionInv
    PROVE  /\ session.roundCount \in Nat \ {0}
           /\ Here \in AllCheckpoints(session.roundCount)
BY SessionAssumption, CatalogAssumption DEF SessionInv, PaceInv, TypeOKPace, Here

-----------------------------------------------------------------------------
\* The Round count, checkpoint, timers and settled period of the session are always of
\* their types, and those of its file: the checkpoint is one of the session's own Rounds
\* and no phase is extended beyond the bound.
THEOREM PaceIsTyped == Spec => [](TypeOKPace(session) /\ TypeOKPace(file))
<1>1. SessionInv => TypeOKPace(session) /\ TypeOKPace(file)
  BY DEF SessionInv, Sound, PaceInv
<1> QED
  BY <1>1, SessionInvHolds, PTL

\* Whatever write fails, in whatever operation, memory is what the file says once the
\* operation has returned or raised: every undo in session.py is complete.
THEOREM MemoryAlwaysMatchesFile == Spec => []MemoryMatchesFile
<1>1. SessionInv => MemoryMatchesFile
  BY DEF SessionInv, Sound, MemoryMatchesFile
<1> QED
  BY <1>1, SessionInvHolds, PTL

\* At most one simulation runs, and the session says which (start_settlement,
\* finish_settlement, abandon_settlement).
THEOREM AlwaysOneSimulation == Spec => []OneSimulation
<1>1. JobInv => OneSimulation
  <2>1. CASE jobs = <<>> /\ settlement = NoPeriod
    BY <2>1 DEF OneSimulation
  <2>2. ASSUME NEW job, jobs = <<job>>, settlement = job.period
        PROVE  OneSimulation
    <3>1. Len(jobs) = 1 /\ jobs # <<>> /\ jobs[1] = job
      BY <2>2
    <3> QED
      BY <2>2, <3>1 DEF OneSimulation
  <2> QED
    BY <2>1, <2>2 DEF JobInv
<1>2. SessionInv => OneSimulation
  BY <1>1 DEF SessionInv
<1> QED
  BY <1>2, SessionInvHolds, PTL

\* A window that has closed stays closed until the session moves on, over failed writes,
\* restarts and late extensions (phase_timer.py, _close_phase, extend_phase).
THEOREM ClosedAlwaysStaysClosed == Spec => ClosedStaysClosed
<1>1. SessionInv /\ [Next]_vars => [~PhaseOpen /\ Here' = Here => ~PhaseOpen']_vars
  <2> SUFFICES ASSUME SessionInv, [Next]_vars, ~PhaseOpen, Here' = Here
               PROVE  ~PhaseOpen'
    OBVIOUS
  <2>1. Still \/ PhaseStep \/ TimersStep \/ Lengthening \/ Turn \/ Settling
    BY EveryStep DEF SessionInv, PaceInv
  <2>2. CASE Turn
    <3>1. session.roundCount \in Nat /\ Here \in AllCheckpoints(session.roundCount)
      BY SessionAssumption, CatalogAssumption DEF SessionInv, PaceInv, TypeOKPace, Here
    <3>2. NextHere # Here
      BY <2>2, <3>1, NextIsAnother DEF Turn, NextHere
    <3> QED
      BY <2>2, <3>2 DEF Turn, Here
  <2>3. CASE ~Turn
    <3>1. /\ session'.phaseTimer.running => session.phaseTimer.running
          /\ timeUp => timeUp'
      BY <2>1, <2>3
      DEF Still, PaceKept, PhaseStep, TimersStep, Lengthening, Settling, KeptBut, Pace
    <3> QED
      BY <3>1 DEF PhaseOpen
  <2> QED
    BY <2>2, <2>3
<1> QED
  BY <1>1, SessionInvHolds, PTL DEF Spec, ClosedStaysClosed

\* The session's file plays the game PacedGame promises: it moves one checkpoint at a
\* time, leaves a Trading period only once it is settled, settles each once, and gets a
\* Round longer only before the last Recap, whatever fails and wherever it restarts.
THEOREM FilePlaysTheGame == Spec => PlaysTheGame
<1> USE DEF Pace
<1>1. Init => Game!GameInit
  BY DEF Init, NewSession, Game!GameInit, Game!NotStarted, NotStarted
<1>2. SessionInv /\ SessionInv' /\ [Next]_vars => [Game!GameNext]_(Game!gameVars)
  <2> SUFFICES ASSUME SessionInv, SessionInv', [Next]_vars
               PROVE  Game!GameNext \/ UNCHANGED Game!gameVars
    OBVIOUS
  <2>1. Still \/ PhaseStep \/ TimersStep \/ Lengthening \/ Turn \/ Settling
    BY EveryStep DEF SessionInv, PaceInv
  <2>2. file = session /\ file' = session'
    BY DEF SessionInv, Sound
  <2>3. Game!LastSettled = session.settledPeriod
    BY <2>2 DEF SessionInv, PaceInv, LastRecorded, Game!LastSettled, Game!NotStarted,
                NoPeriod, NotStarted
  <2>4. CASE Still \/ PhaseStep \/ TimersStep
    BY <2>2, <2>4 DEF Still, PaceKept, PhaseStep, TimersStep, KeptBut, Game!gameVars
  <2>5. CASE Lengthening
    BY <2>2, <2>5
    DEF Lengthening, KeptBut, Here, RecapOpen, IsRecap,
        Game!GameNext, Game!Lengthen, Game!RecapOpen, Game!IsRecap
  <2>6. CASE Turn
    BY <2>2, <2>3, <2>6
    DEF Turn, KeptBut, Here, NextHere, NextCheckpoint, Finished, Investment, TradingPeriod, Recap,
        IsInvestment, IsTrading, IsRecap,
        Game!GameNext, Game!Step, Game!NextCheckpoint, Game!Finished, Game!Investment,
        Game!TradingPeriod, Game!Recap, Game!IsInvestment, Game!IsTrading, Game!IsRecap
  <2>7. CASE Settling
    BY <2>2, <2>3, <2>7
    DEF Settling, KeptBut, Here, IsTrading, Game!GameNext, Game!Settle, Game!IsTrading
  <2> QED
    BY <2>1, <2>4, <2>5, <2>6, <2>7
<1> QED
  BY <1>1, <1>2, SessionInvHolds, PTL DEF Spec, PlaysTheGame, Game!GameSpec

-----------------------------------------------------------------------------
(***************************************************************************)
(* The Rounds' plans, and the votes on a carbon tax.                       *)
(***************************************************************************)

\* What plans and votes depend on.
VoteFields == {"checkpoint", "roundCount"} \cup VoteUndo

VotesKept(fields) == \A f \in VoteFields \ fields : session'[f] = session[f]

\* A plan is valid levers, and events that may be picked.
Planned == [event: Picks, season: Seasons \cup {RoundEvent}]
Plans   == [levers: { l \in Levers : ValidLevers(l) }, events: Seq(Planned)]

(***************************************************************************)
(* What plans are made of.                                                 *)
(***************************************************************************)
\* Some of a sequence's elements are a sequence of them.
LEMMA OnlyTyped ==
    ASSUME NEW E, NEW seq \in Seq(E), NEW places
    PROVE  Only(seq, places) \in Seq(E)
<1> DEFINE n == Len(seq)
           Raw(f) == f = [i \in 0..n |->
                            IF i = 0 THEN <<>>
                            ELSE IF i \in places THEN Append(f[i - 1], seq[i]) ELSE f[i - 1]]
           raw == CHOOSE f : Raw(f)
           F == [ia \in (1..n) \X Seq(E) |->
                   IF ia[1] \in places THEN Append(ia[2], seq[ia[1]]) ELSE ia[2]]
<1>1. n \in Nat /\ <<>> \in Seq(E)
  OBVIOUS
<1>2. ASSUME NEW i \in 1..n, NEW a \in Seq(E)
      PROVE  /\ F[<<i, a>>] = IF i \in places THEN Append(a, seq[i]) ELSE a
             /\ F[<<i, a>>] \in Seq(E)
  <2>1. seq[i] \in E
    OBVIOUS
  <2>2. F[<<i, a>>] = IF i \in places THEN Append(a, seq[i]) ELSE a
    OBVIOUS
  <2>3. Append(a, seq[i]) \in Seq(E)
    BY <2>1
  <2> QED
    BY <2>2, <2>3
<1> HIDE DEF F
<1>3. PICK it : IsRecursion(it, n, <<>>, F)
  BY <1>1, RecursionsExist
<1>4. \A i \in 0..n : it[i] \in Seq(E)
  BY <1>1, <1>2, <1>3, RecursionTyped
<1>5. ASSUME NEW i \in 0..n
      PROVE  it[i] = IF i = 0 THEN <<>>
                     ELSE IF i \in places THEN Append(it[i - 1], seq[i]) ELSE it[i - 1]
  <2>1. it[i] = IF i = 0 THEN <<>> ELSE F[<<i, it[i - 1]>>]
    BY <1>3 DEF IsRecursion
  <2>2. i # 0 => i \in 1..n /\ i - 1 \in 0..n
    BY <1>1
  <2> QED
    BY <1>2, <1>4, <2>1, <2>2
<1>6. it = [i \in 0..n |-> it[i]]
  BY <1>3 DEF IsRecursion
<1>7. Raw(it)
  BY <1>5, <1>6
<1>8. Raw(raw)
  <2> HIDE DEF Raw
  <2> QED
    BY <1>7, Zenon DEF raw
<1> HIDE DEF raw
<1> DEFINE G == { i \in 0..n : raw[i] = it[i] }
<1>9. 0 \in G
  BY <1>1, <1>5, <1>8
<1>10. ASSUME NEW i \in 1..n, i - 1 \in G PROVE i \in G
  <2>1. i \in 0..n /\ i # 0
    BY <1>1
  <2>2. raw[i] = IF i \in places THEN Append(raw[i - 1], seq[i]) ELSE raw[i - 1]
    BY <1>8, <2>1
  <2> QED
    BY <1>5, <1>10, <2>1, <2>2
<1> HIDE DEF G
<1>11. \A i \in 0..n : i \in G
  BY <1>1, <1>9, <1>10, CountingInduction
<1>12. raw[n] \in Seq(E)
  BY <1>1, <1>4, <1>11 DEF G
<1>13. Only(seq, places) = raw[n]
  BY Zenon DEF Only, raw
<1> QED
  BY <1>12, <1>13

\* An event planned or not planned any more leaves a plan (add_planned_event,
\* remove_planned_event).
LEMMA PlanWithAndWithout ==
    ASSUME NEW plan \in Plans, NEW p \in Planned
    PROVE  WithEvent(plan, p) \in Plans /\ WithoutEvent(plan, p) \in Plans
<1> DEFINE others == { i \in DOMAIN plan.events : Slot(plan.events[i]) # Slot(p) }
           kept   == { i \in DOMAIN plan.events : plan.events[i] # p }
<1>1. plan.events \in Seq(Planned)
  BY DEF Plans
<1>2. /\ WithEvent(plan, p) = [plan EXCEPT !.events = Append(Only(plan.events, others), p)]
      /\ WithoutEvent(plan, p) = [plan EXCEPT !.events = Only(plan.events, kept)]
  BY DEF WithEvent, WithoutEvent
<1> HIDE DEF others, kept
<1>3. Only(plan.events, others) \in Seq(Planned) /\ Only(plan.events, kept) \in Seq(Planned)
  BY <1>1, OnlyTyped
<1>4. Append(Only(plan.events, others), p) \in Seq(Planned)
  BY <1>3
<1> QED
  BY <1>2, <1>3, <1>4 DEF Plans

\* So do levers changed, if the change is allowed in every Round it reaches (with_levers).
LEMMA PlansWithLevers ==
    ASSUME NEW plans \in Seq(Plans), NEW r \in 1..Len(plans), NEW changes \in LeverChanges,
           LeversAllowed(plans, r, changes), NEW q \in 1..Len(plans)
    PROVE  WithLevers(plans, r, changes)[q] \in Plans
<1> DEFINE names == Differing(plans, r, changes)
           carried == Carry(plans[q].levers, changes, names)
           after == WithLevers(plans, r, changes)
<1>1. /\ plans[q] \in Plans
      /\ plans[q].levers \in Levers
      /\ ValidLevers(plans[q].levers)
      /\ plans[q].events \in Seq(Planned)
  <2>1. plans[q] \in Plans
    OBVIOUS
  <2> QED
    BY <2>1 DEF Plans
<1>2. after[q] = IF q < r THEN plans[q] ELSE [plans[q] EXCEPT !.levers = carried]
  BY DEF WithLevers
<1>3. CASE q < r
  BY <1>1, <1>2, <1>3
<1>4. CASE ~(q < r)
  <2>1. names \subseteq DOMAIN changes
    BY DEF Differing
  <2>2. PICK l \in Levers : changes = [name \in DOMAIN changes \cap DOMAIN l |-> l[name]]
    <3> DEFINE Gives(c) == \E l \in Levers : c = [name \in DOMAIN c \cap DOMAIN l |-> l[name]]
    <3>1. \A c \in LeverChanges : Gives(c)
      BY LeverChangesAssumption
    <3>2. Gives(changes)
      <4> HIDE DEF Gives
      <4> QED
        BY <3>1
    <3> QED
      BY <3>2
  <2>3. DOMAIN l = {"format", "storage", "procurement", "vote"}
        /\ DOMAIN plans[q].levers = {"format", "storage", "procurement", "vote"}
    BY <1>1 DEF Levers
  <2>4. \A name \in names : name \in DOMAIN l /\ changes[name] = l[name]
    BY <2>1, <2>2
  <2>5. carried = [format |-> carried["format"], storage |-> carried["storage"],
                   procurement |-> carried["procurement"], vote |-> carried["vote"]]
    BY <2>3 DEF Carry
  <2>6. \A name \in DOMAIN l : carried[name] \in {l[name], plans[q].levers[name]}
    BY <2>3, <2>4 DEF Carry
  <2>7. carried \in Levers
    <3> HIDE DEF carried
    <3> QED
      BY <1>1, <2>3, <2>5, <2>6 DEF Levers
  <2>8. after[q].levers = carried
    BY <1>1, <1>2, <1>4 DEF Plans
  <2>9. ValidLevers(carried)
    <3>1. CASE names = {}
      <4>1. carried = plans[q].levers
        BY <2>3, <3>1, <1>1 DEF Carry, Levers
      <4> QED
        BY <1>1, <4>1
    <3>2. CASE names # {}
      <4>1. q \in r..Len(plans)
        BY <1>4
      <4>2. ValidLevers(after[q].levers)
        BY <3>2, <4>1 DEF LeversAllowed
      <4> QED
        BY <2>8, <4>2
    <3> QED
      BY <3>1, <3>2
  <2> HIDE DEF carried
  <2> QED
    BY <1>1, <1>2, <1>4, <2>7, <2>9 DEF Plans
<1> QED
  BY <1>3, <1>4

(***************************************************************************)
(* Everything that can happen to plans and votes.                          *)
(***************************************************************************)
Voting ==
    /\ IsInvestment(Here)
    /\ VoteHeld(session.plans, Here.round, session.voteOutcomes)
    /\ VotesKept({"ballots"})
    /\ DOMAIN session'.ballots \subseteq DOMAIN session.ballots \cup Players

\* After Round r, plans differ from the session's by their levers if at all.
LeversAfter(r, plans) ==
    session.plans \in Seq(Plans) =>
      \A q \in DOMAIN session.plans :
         q > r /\ plans[q] # session.plans[q] => plans[q].levers # session.plans[q].levers

Planning ==
    /\ VotesKept({"plans"})
    /\ session'.plans = [q \in DOMAIN session.plans |-> session'.plans[q]]
    /\ \E r \in 1..session.roundCount :
          /\ r > LockedRounds(Here, session.roundCount)
          /\ \A q \in DOMAIN session.plans : q < r => session'.plans[q] = session.plans[q]
          /\ LeversAfter(r, session'.plans)
    /\ session.plans \in Seq(Plans) => \A q \in DOMAIN session.plans : session'.plans[q] \in Plans

AddingRound ==
    /\ ~RecapOpen(Here, session.roundCount)
    /\ VotesKept({"roundCount", "plans"})
    /\ session'.roundCount = session.roundCount + 1
    /\ session'.plans = Append(session.plans,
                               [levers |-> Last(session.plans).levers, events |-> <<>>])

Counting ==
    /\ IsInvestment(Here)
    /\ session'.checkpoint = NextHere
    /\ session'.roundCount = session.roundCount
    /\ \A f \in VoteUndo : session'[f] = CountVote(session, Here.round)[f]

Leaving ==
    /\ ~IsInvestment(Here)
    /\ Here # Finished
    /\ session'.checkpoint = NextHere
    /\ VotesKept({"checkpoint"})

VoteStep == VotesKept({}) \/ Voting \/ Planning \/ AddingRound \/ Counting \/ Leaving

-----------------------------------------------------------------------------
(***************************************************************************)
(* Which operation is which of these.                                      *)
(***************************************************************************)
\* Whether an update is saved or undone, a field holds what it held or what it was given.
LEMMA FieldsAfterUpdate ==
    ASSUME NEW after, NEW undo, DOMAIN after = SessionFields, Update(after, undo)
    PROVE  \A f \in VoteFields : session'[f] = session[f] \/ session'[f] = after[f]
<1>1. VoteFields \subseteq SessionFields /\ "players" \notin VoteFields
  BY DEF VoteFields, VoteUndo, SessionFields
<1>2. CASE Save(after)
  BY <1>2 DEF Save
<1>3. CASE SaveFails(after, undo)
  <2>1. session' = RolledBack(session, after, undo)
    BY <1>3 DEF SaveFails
  <2>2. \A f \in VoteFields :
          RolledBack(session, after, undo)[f] = IF f \in undo THEN session[f] ELSE after[f]
    BY <1>1 DEF RolledBack
  <2> QED
    BY <2>1, <2>2
<1> QED
  BY <1>2, <1>3 DEF Update

\* An update of one field leaves the others.
LEMMA OneFieldUpdate ==
    ASSUME IsSession(session), NEW f, NEW value, NEW undo,
           Update([session EXCEPT ![f] = value], undo)
    PROVE  /\ VotesKept({f})
           /\ f \in VoteFields => session'[f] = session[f] \/ session'[f] = value
<1> DEFINE after == [session EXCEPT ![f] = value]
<1>1. DOMAIN session = SessionFields /\ DOMAIN after = SessionFields
  BY DEF IsSession
<1>2. VoteFields \subseteq SessionFields
  BY DEF VoteFields, VoteUndo, SessionFields
<1>3. \A g \in VoteFields : after[g] = IF g = f THEN value ELSE session[g]
  BY <1>1, <1>2
<1>4. \A g \in VoteFields : session'[g] = session[g] \/ session'[g] = after[g]
  BY <1>1, FieldsAfterUpdate
<1> QED
  BY <1>3, <1>4 DEF VotesKept

\* What a player does for themselves leaves plans and votes alone.
LEMMA PlayerUpdateKeepsVotes ==
    ASSUME IsSession(session), NEW p, NEW player, NEW undo, UpdatePlayer(p, player, undo)
    PROVE  VotesKept({})
<1>1. PICK roster : Update([session EXCEPT !["players"] = roster], undo)
  BY DEF UpdatePlayer
<1>2. VotesKept({"players"})
  BY <1>1, OneFieldUpdate
<1> QED
  BY <1>2 DEF VotesKept, VoteFields, VoteUndo

\* A player changes plans and votes only by casting a ballot.
LEMMA PlayersVote == Sound /\ PlayerActs => VotesKept({}) \/ Voting
<1> SUFFICES ASSUME IsSession(session), NEW p \in DOMAIN session.players,
                    \/ \E f \in Facilities : Select(p, f) \/ Deselect(p, f)
                    \/ TakeLoan(p)
                    \/ CancelLoan(p)
                    \/ \E choice \in {"yes", "no"} : CastBallot(p, choice)
                    \/ \E f \in Facilities, side \in {"sell", "buy"}, price \in PriceInputs :
                          SetPrice(p, f, side, price)
                    \/ \E u \in Fuels, quantity \in OrderInputs : SetFuelOrder(p, u, quantity)
             PROVE  VotesKept({}) \/ Voting
  BY DEF PlayerActs, Sound
<1>1. CASE \/ \E f \in Facilities : Select(p, f) \/ Deselect(p, f)
           \/ TakeLoan(p)
           \/ CancelLoan(p)
           \/ \E f \in Facilities, side \in {"sell", "buy"}, price \in PriceInputs :
                 SetPrice(p, f, side, price)
           \/ \E u \in Fuels, quantity \in OrderInputs : SetFuelOrder(p, u, quantity)
  <2>1. \E player, undo : UpdatePlayer(p, player, undo)
    BY <1>1 DEF Select, Deselect, TakeLoan, CancelLoan, SetPrice, SetFuelOrder
  <2> QED
    BY <2>1, PlayerUpdateKeepsVotes
<1>2. CASE \E choice \in {"yes", "no"} : CastBallot(p, choice)
  <2>1. /\ IsInvestment(Here)
        /\ VoteHeld(session.plans, RoundNow(session), session.voteOutcomes)
        /\ \E ballots : Update([session EXCEPT !["ballots"] = ballots], {"ballots"})
    BY <1>2 DEF CastBallot, InvestmentOpen
  <2>2. RoundNow(session) = Here.round
    BY <2>1 DEF RoundNow, CurrentRound, IsInvestment, Here
  <2>3. VotesKept({"ballots"})
    BY <2>1, OneFieldUpdate
  <2>4. DOMAIN session'.ballots \subseteq DOMAIN session.ballots \cup Players
    <3>1. PICK choice : Update([session EXCEPT !.ballots = With(@, p, choice)], {"ballots"})
      BY <1>2 DEF CastBallot
    <3> DEFINE ballots == With(session.ballots, p, choice)
               after   == [session EXCEPT !.ballots = ballots]
    <3>2. DOMAIN ballots = DOMAIN session.ballots \cup {p}
      BY DEF With
    <3> HIDE DEF ballots
    <3>3. DOMAIN after = SessionFields /\ after.ballots = ballots
      BY DEF IsSession, SessionFields
    <3>4. Update(after, {"ballots"})
      BY <3>1 DEF ballots
    <3> HIDE DEF after
    <3>5. session'.ballots = session.ballots \/ session'.ballots = ballots
      BY <3>3, <3>4, FieldsAfterUpdate DEF VoteFields, VoteUndo
    <3> QED
      BY <3>2, <3>5 DEF Players
  <2> QED
    BY <2>1, <2>2, <2>3, <2>4 DEF Voting
<1> QED
  BY <1>1, <1>2

\* Planning reaches no Round before the one planned for, which is not locked
\* (set_levers, add_planned_event, remove_planned_event).
LEMMA PlansChangeFromAnEditableRound ==
    ASSUME IsSession(session),
           \E r \in Rounds :
              \/ \E changes \in LeverChanges : SetLevers(r, changes)
              \/ \E e \in Picks, s \in Seasons \cup {RoundEvent} :
                   LET planned == [event |-> e, season |-> s]
                   IN  PlanEvent(r, planned) \/ UnplanEvent(r, planned)
    PROVE  VotesKept({}) \/ Planning
<1> DEFINE Ahead(r, plans) ==
             /\ SetPlans(plans)
             /\ plans = [q \in DOMAIN session.plans |-> plans[q]]
             /\ \A q \in DOMAIN session.plans : q < r => plans[q] = session.plans[q]
             /\ LeversAfter(r, plans)
             /\ session.plans \in Seq(Plans) => \A q \in DOMAIN session.plans : plans[q] \in Plans
<1>1. PICK r \in Rounds :
        \/ \E changes \in LeverChanges : SetLevers(r, changes)
        \/ \E e \in Picks, s \in Seasons \cup {RoundEvent} :
             LET planned == [event |-> e, season |-> s]
             IN  PlanEvent(r, planned) \/ UnplanEvent(r, planned)
  OBVIOUS
<1>2. Editable(r)
  BY <1>1 DEF SetLevers, PlanEvent, UnplanEvent
<1>3. PICK plans : Ahead(r, plans)
  <2>1. ASSUME NEW changes \in LeverChanges, SetLevers(r, changes)
        PROVE  \E plans : Ahead(r, plans)
    <3> DEFINE after == WithLevers(session.plans, r, changes)
    <3>1. /\ SetPlans(after)
          /\ LeversAllowed(session.plans, r, changes)
      BY <2>1 DEF SetLevers
    <3>2. /\ after = [q \in DOMAIN session.plans |-> after[q]]
          /\ \A q \in DOMAIN session.plans : q < r => after[q] = session.plans[q]
      BY DEF WithLevers
    <3>3. ASSUME session.plans \in Seq(Plans), NEW q \in DOMAIN session.plans
          PROVE  after[q] \in Plans
      <4>1. CASE q < r
        <5>1. session.plans[q] \in Plans
          BY <3>3
        <5> QED
          BY <3>2, <4>1, <5>1
      <4>2. CASE ~(q < r)
        <5>1. q \in 1..Len(session.plans) /\ r \in 1..Len(session.plans)
          BY <1>2, <3>3, <4>2 DEF Editable
        <5> HIDE DEF after
        <5> QED
          BY <3>1, <3>3, <5>1, PlansWithLevers DEF after
      <4> QED
        BY <4>1, <4>2
    <3>4. ASSUME session.plans \in Seq(Plans), NEW q \in DOMAIN session.plans,
                 after[q] # session.plans[q]
          PROVE  after[q].levers # session.plans[q].levers
      <4> DEFINE plan    == session.plans[q]
                 carried == Carry(plan.levers, changes, Differing(session.plans, r, changes))
      <4>1. plan \in Plans
        BY <3>4
      <4>2. after[q] = [plan EXCEPT !.levers = carried]
        BY <3>4 DEF WithLevers
      <4> HIDE DEF plan, carried, after
      <4>3. carried # plan.levers
        BY <3>4, <4>1, <4>2 DEF Plans, plan
      <4>4. after[q].levers = carried
        BY <4>1, <4>2 DEF Plans
      <4> QED
        BY <4>3, <4>4 DEF plan
    <3> HIDE DEF after
    <3>5. Ahead(r, after)
      BY <3>1, <3>2, <3>3, <3>4 DEF LeversAfter
    <3> QED
      BY <3>5, Zenon
  <2>2. ASSUME NEW plan, SetPlans([session.plans EXCEPT ![r] = plan]),
               session.plans \in Seq(Plans) => (r \in DOMAIN session.plans => plan \in Plans)
        PROVE  \E plans : Ahead(r, plans)
    <3> DEFINE after == [session.plans EXCEPT ![r] = plan]
    <3>1. after = [q \in DOMAIN session.plans |-> after[q]]
      OBVIOUS
    <3>2. \A q \in DOMAIN session.plans : after[q] = IF q = r THEN plan ELSE session.plans[q]
      OBVIOUS
    <3>3. /\ \A q \in DOMAIN session.plans : q < r => after[q] = session.plans[q]
          /\ LeversAfter(r, after)
      BY <1>2, <3>2 DEF Editable, LeversAfter
    <3>4. ASSUME session.plans \in Seq(Plans), NEW q \in DOMAIN session.plans
          PROVE  after[q] \in Plans
      <4>1. session.plans[q] \in Plans
        BY <3>4
      <4> QED
        BY <2>2, <3>2, <3>4, <4>1
    <3>5. SetPlans(after)
      BY <2>2
    <3> HIDE DEF after
    <3>6. Ahead(r, after)
      BY <3>1, <3>3, <3>4, <3>5
    <3> QED
      BY <3>6, Zenon
  <2>3. ASSUME NEW e \in Picks, NEW s \in Seasons \cup {RoundEvent}, NEW planned,
               planned = [event |-> e, season |-> s],
               PlanEvent(r, planned) \/ UnplanEvent(r, planned)
        PROVE  \E plans : Ahead(r, plans)
    <3>1. planned \in Planned
      BY <2>3 DEF Planned
    <3>2. session.plans \in Seq(Plans) => (r \in DOMAIN session.plans => session.plans[r] \in Plans)
      OBVIOUS
    <3>3. session.plans \in Seq(Plans) =>
            (r \in DOMAIN session.plans =>
                /\ WithEvent(session.plans[r], planned) \in Plans
                /\ WithoutEvent(session.plans[r], planned) \in Plans)
      BY <3>1, <3>2, PlanWithAndWithout
    <3>4. \/ SetPlans([session.plans EXCEPT ![r] = WithEvent(session.plans[r], planned)])
          \/ SetPlans([session.plans EXCEPT ![r] = WithoutEvent(session.plans[r], planned)])
      BY <2>3 DEF PlanEvent, UnplanEvent
    <3> HIDE DEF Ahead
    <3> QED
      BY <2>2, <3>3, <3>4
  <2> HIDE DEF Ahead
  <2> QED
    BY <1>1, <2>1, <2>3
<1>4. Update([session EXCEPT !["plans"] = plans], {"plans"})
  BY <1>3 DEF SetPlans
<1>5. /\ VotesKept({"plans"})
      /\ session'["plans"] = session["plans"] \/ session'["plans"] = plans
  BY <1>4, OneFieldUpdate DEF VoteFields, VoteUndo
<1>6. CASE session'["plans"] = session["plans"]
  BY <1>5, <1>6 DEF VotesKept
<1>7. CASE session'["plans"] = plans
  BY <1>2, <1>3, <1>5, <1>7 DEF Planning, Editable
<1> QED
  BY <1>5, <1>6, <1>7

\* A Round added is planned after the others (add_round).
LEMMA AddingARoundAddsAPlan ==
    ASSUME Sound, AddRound
    PROVE  VotesKept({}) \/ AddingRound
<1> DEFINE longer == AddedRound(session)
           undo   == {"roundCount", "priceRoundCount", "plans"}
<1>1. /\ Touched(session, longer, undo)
      /\ longer.roundCount = session.roundCount + 1
      /\ longer.plans = Append(session.plans,
                               [levers |-> Last(session.plans).levers, events |-> <<>>])
  BY AddingTouches DEF Sound
<1> HIDE DEF longer
<1>2. session' = session \/ session' = longer
  BY <1>1, UpdateOutcome DEF AddRound, longer
<1>3. CASE session' = longer
  <2>1. VotesKept({"roundCount", "plans"})
    BY <1>1, <1>3 DEF Touched, VotesKept, VoteFields, VoteUndo, SessionFields
  <2> QED
    BY <1>1, <1>3, <2>1 DEF AddingRound, AddRound
<1> QED
  BY <1>2, <1>3 DEF VotesKept

\* Of plans and votes, an advance changes what the count of a vote changes, and only as an
\* Investment phase is left (advance, _count_vote).
LEMMA AdvanceCountsVotes ==
    ASSUME NEW s, IsSession(s), NEW c, NEW opened
    PROVE  \A f \in VoteUndo :
              Advanced(s, c, opened)[f] =
                IF IsInvestment(s.checkpoint) THEN CountVote(s, s.checkpoint.round)[f] ELSE s[f]
<1> DEFINE r == s.checkpoint.round
<1>1. /\ Touched(s, Left(s, c), LeavingUndo(s, c))
      /\ Touched(Left(s, c), Advanced(s, c, opened), ArrivingUndo(c))
  BY LeavingTouches, AdvanceLeavesAndArrives
<1>2. \A f \in VoteUndo : f \in SessionFields \ (ArrivingUndo(c) \cup {"players"})
  BY DEF VoteUndo, SessionFields, ArrivingUndo, ClosingUndo, FiringUndo, PricingUndo,
         GrowthUndo, BlackoutUndo, EventsUndo, FuelMarketUndo, UnlocksUndo
<1>3. \A f \in VoteUndo : Advanced(s, c, opened)[f] = Left(s, c)[f]
  BY <1>1, <1>2 DEF Touched
<1>4. CASE IsInvestment(s.checkpoint)
  <2> DEFINE bought == ApplyPurchases(s, r)
  <2>1. Touched(s, bought, PurchasesUndo)
    BY PurchasesTouch
  <2>2. /\ bought.plans = s.plans
        /\ bought.ballots = s.ballots
        /\ bought.voteOutcomes = s.voteOutcomes
    BY <2>1 DEF Touched, SessionFields, PurchasesUndo
  <2>3. DOMAIN s = SessionFields /\ DOMAIN bought = SessionFields
    BY <2>1 DEF Touched, IsSession
  <2> HIDE DEF bought
  <2>4. \A f \in VoteUndo : CountVote(bought, r)[f] = CountVote(s, r)[f]
    BY <2>2, <2>3 DEF CountVote, VoteUndo, SessionFields
  <2> QED
    BY <1>3, <1>4, <2>4 DEF Left, bought
<1>5. CASE ~IsInvestment(s.checkpoint)
  <2>1. \A f \in VoteUndo : f \in SessionFields \ (LeavingUndo(s, c) \cup {"players"})
    BY <1>5 DEF VoteUndo, SessionFields, LeavingUndo, RetirementUndo, LoanUndo
  <2> QED
    BY <1>1, <1>3, <1>5, <2>1 DEF Touched
<1> QED
  BY <1>4, <1>5

\* An advance either fails, or moves on with or without a count.
LEMMA MovingOnCountsOrLeaves ==
    ASSUME Sound, MoveOn
    PROVE  VotesKept({}) \/ Counting \/ Leaving
<1>1. PICK opened \in OpenFuelPrices(NextHere) :
        LET applied == Advanced(session, NextHere, opened)
            moved   == [applied EXCEPT !.checkpoint = NextHere, !.phaseTimer = TimerFor(NextHere)]
        IN  Save(moved) \/ SaveFails(applied, AdvanceUndo(session, NextHere))
  BY DEF MoveOn
<1> DEFINE applied == Advanced(session, NextHere, opened)
           moved   == [applied EXCEPT !.checkpoint = NextHere, !.phaseTimer = TimerFor(NextHere)]
<1>2. Touched(session, applied, AdvanceUndo(session, NextHere))
  BY AdvanceTouches DEF Sound
<1>3. applied.roundCount = session.roundCount
  BY AdvanceKeepsPace DEF Sound, Pace
<1>4. \A f \in VoteUndo :
        applied[f] = IF IsInvestment(Here) THEN CountVote(session, Here.round)[f] ELSE session[f]
  BY AdvanceCountsVotes DEF Sound, Here
<1>5. DOMAIN applied = SessionFields
  BY <1>2 DEF Touched, IsSession
<1> HIDE DEF applied
<1>6. CASE Save(moved)
  <2>1. /\ moved.checkpoint = NextHere
        /\ moved.roundCount = session.roundCount
        /\ \A f \in VoteUndo : moved[f] = applied[f]
    BY <1>3, <1>5 DEF VoteUndo, SessionFields
  <2>2. Here # Finished /\ session' = moved
    BY <1>6 DEF MoveOn, Save
  <2> HIDE DEF moved
  <2>3. CASE IsInvestment(Here)
    BY <1>4, <2>1, <2>2, <2>3 DEF Counting
  <2>4. CASE ~IsInvestment(Here)
    BY <1>4, <2>1, <2>2, <2>4 DEF Leaving, VotesKept, VoteFields
  <2> QED
    BY <2>3, <2>4
<1>7. CASE SaveFails(applied, AdvanceUndo(session, NextHere))
  <2>1. session' = session
    BY <1>2, <1>7, UndoneIsBefore DEF Sound, SaveFails
  <2> QED
    BY <2>1 DEF VotesKept
<1> QED
  BY <1>1, <1>6, <1>7 DEF applied

\* The background tasks leave plans and votes alone.
LEMMA TheBackgroundKeepsVotes == Sound /\ BackgroundActs => VotesKept({})
<1> SUFFICES ASSUME Sound, BackgroundActs PROVE VotesKept({})
  OBVIOUS
<1>1. CASE BuySelections
  <2> DEFINE after == ApplyPurchases(session, Here.round)
  <2>1. Touched(session, after, PurchasesUndo) /\ Update(after, PurchasesUndo)
    BY <1>1, PurchasesTouch DEF Sound, BuySelections
  <2>2. session' = session \/ session' = after
    BY <2>1, UpdateOutcome
  <2> HIDE DEF after
  <2> QED
    BY <2>1, <2>2 DEF Touched, VotesKept, VoteFields, VoteUndo, SessionFields, PurchasesUndo
<1>2. CASE StartSettlement
  BY <1>2 DEF StartSettlement, VotesKept
<1>3. CASE \E i \in DOMAIN jobs : AbandonSettlement(i)
  BY <1>3 DEF AbandonSettlement, VotesKept
<1>4. ASSUME NEW i \in DOMAIN jobs, NEW outcome, FinishSettlement(i, outcome)
      PROVE  VotesKept({})
  <2> DEFINE after == Settled(session, jobs[i], outcome)
  <2>1. Touched(session, after, SettleUndo)
    BY SettledTouches DEF Sound
  <2>2. Save(after) \/ SaveFails(after, SettleUndo)
    BY <1>4 DEF FinishSettlement
  <2> HIDE DEF after
  <2>3. session' = session \/ session' = after
    BY <2>1, <2>2, UndoneIsBefore DEF Sound, Save, SaveFails
  <2> QED
    BY <2>1, <2>3 DEF Touched, VotesKept, VoteFields, VoteUndo, SessionFields, SettleUndo
<1> QED
  BY <1>1, <1>2, <1>3, <1>4 DEF BackgroundActs

\* Whatever happens, plans and votes change in one of these ways.
LEMMA EveryStepIsAVoteStep == Sound /\ [Next]_vars => VoteStep
<1> SUFFICES ASSUME Sound, [Next]_vars PROVE VoteStep
  OBVIOUS
<1>1. IsSession(session)
  BY DEF Sound
<1>2. CASE \E p \in Admitted : Join(p)
  <2>1. \/ UNCHANGED session
        \/ \E roster : session' = [session EXCEPT !["players"] = roster]
    BY <1>2 DEF Join, Save
  <2>2. VotesKept({})
    BY <1>1, <2>1 DEF IsSession, VotesKept, VoteFields, VoteUndo, SessionFields
  <2> QED
    BY <2>2 DEF VoteStep
<1>3. CASE PlayerActs
  BY <1>3, PlayersVote DEF VoteStep
<1>4. CASE ClosePhase
  <2>1. \E timer : Update([session EXCEPT !["phaseTimer"] = timer], {"phaseTimer"})
    BY <1>4 DEF ClosePhase
  <2>2. VotesKept({"phaseTimer"})
    BY <1>1, <2>1, OneFieldUpdate
  <2> QED
    BY <2>2 DEF VoteStep, VotesKept, VoteFields, VoteUndo
<1>5. CASE MoveOn
  BY <1>5, MovingOnCountsOrLeaves DEF VoteStep
<1>6. CASE ExtendPhase
  <2>1. \E timer : Update([session EXCEPT !["phaseTimer"] = timer], {"phaseTimer"})
    BY <1>6 DEF ExtendPhase
  <2>2. VotesKept({"phaseTimer"})
    BY <1>1, <2>1, OneFieldUpdate
  <2> QED
    BY <2>2 DEF VoteStep, VotesKept, VoteFields, VoteUndo
<1>7. CASE AddRound
  BY <1>7, AddingARoundAddsAPlan DEF VoteStep
<1>8. CASE \E r \in Rounds :
             \/ \E changes \in LeverChanges : SetLevers(r, changes)
             \/ \E e \in Picks, s \in Seasons \cup {RoundEvent} :
                  LET planned == [event |-> e, season |-> s]
                  IN  PlanEvent(r, planned) \/ UnplanEvent(r, planned)
  BY <1>1, <1>8, PlansChangeFromAnEditableRound DEF VoteStep
<1>9. CASE \/ \E timers \in TimerSettings : SetTimers(timers)
           \/ \E multiplier \in BonusSettings : SetBonus(multiplier)
  <2>1. \/ \E value : Update([session EXCEPT !["timers"] = value], {"timers"})
        \/ \E value : Update([session EXCEPT !["bonus"] = value], {"bonus"})
    BY <1>9 DEF SetTimers, SetBonus
  <2>2. VotesKept({"timers"}) \/ VotesKept({"bonus"})
    BY <1>1, <2>1, OneFieldUpdate
  <2> QED
    BY <2>2 DEF VoteStep, VotesKept, VoteFields, VoteUndo
<1>10. CASE BackgroundActs
  BY <1>10, TheBackgroundKeepsVotes DEF VoteStep
<1>11. CASE TimeRunsOut
  BY <1>11 DEF TimeRunsOut, VoteStep, VotesKept
<1>12. CASE Restart
  BY <1>12 DEF Restart, Sound, VoteStep, VotesKept
<1>13. CASE UNCHANGED vars
  BY <1>13 DEF vars, VoteStep, VotesKept
<1> QED
  BY <1>2, <1>3, <1>4, <1>5, <1>6, <1>7, <1>8, <1>9, <1>10, <1>11, <1>12, <1>13
  DEF Next, FacilitatorActs, Advance

-----------------------------------------------------------------------------
(***************************************************************************)
(* The inductive invariant.  At a checkpoint, the votes of a first part of *)
(* the Rounds are counted and no other's: so the next count is of a Round  *)
(* after those, and what it finds passed is of a Round before.             *)
(***************************************************************************)
RoundsVoted(c, n) ==
    CASE c.kind = "NotStarted" -> 0
      [] IsInvestment(c)       -> c.round - 1
      [] c.kind = "Finished"   -> n
      [] OTHER                 -> c.round

Counts == [round: Nat \ {0}, passed: BOOLEAN]

VotesInv ==
    /\ session.plans = [r \in 1..session.roundCount |-> session.plans[r]]
    /\ session.voteOutcomes \in Seq(Counts)
    /\ \A i \in DOMAIN session.voteOutcomes :
          session.voteOutcomes[i].round <= RoundsVoted(Here, session.roundCount)
    /\ OneCarbonTax
    /\ BallotsOnlyDuringVote

\* In an Investment phase, its Round's plan is the last one locked, and is one of the plans.
LEMMA InvestmentLocksItsRound ==
    ASSUME NEW n \in Nat, NEW c \in AllCheckpoints(n), IsInvestment(c)
    PROVE  /\ c.round \in 1..n
           /\ LockedRounds(c, n) = c.round
           /\ RoundsVoted(c, n) = c.round - 1
           /\ NextCheckpoint(c, n) = TradingPeriod(c.round, 1)
           /\ RoundsVoted(NextCheckpoint(c, n), n) = c.round
<1>1. PICK r \in 1..n : c = Investment(r)
  BY CheckpointKinds DEF IsInvestment, NotStarted, TradingPeriod, Recap, Finished
<1>2. c.round = r /\ c.kind = "Investment"
  BY <1>1 DEF Investment
<1>3. NextCheckpoint(c, n) = TradingPeriod(r, 1)
  BY <1>1 DEF NextCheckpoint, IsInvestment, IsTrading, IsRecap, Investment
<1>4. LockedRounds(c, n) = r /\ RoundsVoted(c, n) = r - 1
  BY <1>2 DEF LockedRounds, RoundsVoted, IsInvestment, IsRecap
<1>5. RoundsVoted(TradingPeriod(r, 1), n) = r
  BY DEF RoundsVoted, TradingPeriod, IsInvestment
<1> QED
  BY <1>2, <1>3, <1>4, <1>5

\* A step past another checkpoint counts no vote and takes none back.
LEMMA NoVotePassesUncounted ==
    ASSUME NEW n \in Nat \ {0}, NEW c \in AllCheckpoints(n), c # Finished, ~IsInvestment(c)
    PROVE  RoundsVoted(NextCheckpoint(c, n), n) = RoundsVoted(c, n)
<1> USE DEF NextCheckpoint, RoundsVoted, IsInvestment, IsTrading, IsRecap, NotStarted, Investment,
            TradingPeriod, Recap, Finished
<1>1. CASE c = NotStarted
  BY <1>1
<1>2. CASE \E r \in 1..n : c = Investment(r)
  BY <1>2
<1>3. CASE \E r \in 1..n, s \in Seasons : c = TradingPeriod(r, s)
  BY <1>3
<1>4. CASE \E r \in 1..n : c = Recap(r)
  <2>1. PICK r \in 1..n : c = Recap(r)
    BY <1>4
  <2>2. RoundsVoted(c, n) = r
    BY <2>1
  <2>3. CASE r < n
    <3>1. NextCheckpoint(c, n) = Investment(r + 1)
      BY <2>1, <2>3
    <3>2. RoundsVoted(Investment(r + 1), n) = r
      OBVIOUS
    <3> QED
      BY <2>2, <3>1, <3>2
  <2>4. CASE ~(r < n)
    <3>1. NextCheckpoint(c, n) = Finished /\ r = n
      BY <2>1, <2>4
    <3> QED
      BY <2>2, <3>1
  <2> QED
    BY <2>3, <2>4
<1> QED
  BY <1>1, <1>2, <1>3, <1>4, CheckpointKinds

\* One more of a sequence keeps the others where they were.
LEMMA AppendKeeps ==
    ASSUME NEW n \in Nat, NEW f, f = [i \in 1..n |-> f[i]], NEW x
    PROVE  /\ Append(f, x) = [i \in 1..(n + 1) |-> Append(f, x)[i]]
           /\ \A i \in 1..n : Append(f, x)[i] = f[i]
           /\ Append(f, x)[n + 1] = x
<1> DEFINE S == {f[i] : i \in 1..n} \cup {x}
<1>1. f \in Seq(S) /\ Len(f) = n /\ x \in S
  BY DEF S
<1> HIDE DEF S
<1>2. Append(f, x) \in Seq(S) /\ Len(Append(f, x)) = n + 1
  BY <1>1
<1>3. \A i \in 1..n : Append(f, x)[i] = f[i]
  BY <1>1
<1> QED
  BY <1>2, <1>3

\* A vote still held finds none that passed: one that did was of an earlier Round, and
\* the carbon tax is in force since then (vote_held).
LEMMA AVoteHeldFollowsNoneThatPassed ==
    ASSUME NEW plans, NEW r \in Nat, NEW outcomes \in Seq(Counts),
           \A i \in DOMAIN outcomes : outcomes[i].round < r,
           \A i, j \in DOMAIN outcomes : i < j => ~outcomes[i].passed,
           VoteHeld(plans, r, outcomes)
    PROVE  \A i \in DOMAIN outcomes : ~outcomes[i].passed
<1> SUFFICES ASSUME NEW i \in DOMAIN outcomes, outcomes[i].passed PROVE FALSE
  OBVIOUS
<1> DEFINE passed == { j \in DOMAIN outcomes : outcomes[j].passed }
           first  == CHOOSE k \in passed : \A j \in passed : k <= j
<1>1. DOMAIN outcomes \subseteq Nat
  OBVIOUS
<1>2. \A j \in passed : j = i
  BY <1>1
<1>3. i \in passed /\ \A j \in passed : i <= j
  BY <1>1, <1>2
<1>4. first \in passed
  BY <1>3
<1>5. first = i
  BY <1>2, <1>4
<1>6. CarbonTaxSince(outcomes) = outcomes[i].round
  BY <1>3, <1>5 DEF CarbonTaxSince
<1>7. outcomes[i] \in Counts
  OBVIOUS
<1>8. outcomes[i].round \in Nat \ {0} /\ outcomes[i].round < r
  BY <1>7 DEF Counts
<1> QED
  BY <1>6, <1>8 DEF VoteHeld, NoRound

\* A new session satisfies the invariant.
LEMMA VotesStart == Init => VotesInv
<1> SUFFICES ASSUME Init PROVE VotesInv
  OBVIOUS
<1>1. /\ session.plans = DefaultPlans(StartRounds)
      /\ session.roundCount = StartRounds
      /\ session.voteOutcomes = <<>>
      /\ session.ballots = Nobody
  BY DEF Init, NewSession
<1> QED
  BY <1>1 DEF VotesInv, DefaultPlans, OneCarbonTax, BallotsOnlyDuringVote

\* The count of a vote keeps the invariant.
LEMMA CountingKeepsVotes ==
    ASSUME SessionInv, VotesInv, Counting
    PROVE  VotesInv'
<1> DEFINE n        == session.roundCount
           r        == Here.round
           outcomes == session.voteOutcomes
<1>1. n \in Nat \ {0} /\ Here \in AllCheckpoints(n) /\ IsInvestment(Here)
  BY WhereTheSessionIs DEF Counting
<1>2. /\ r \in 1..n
      /\ RoundsVoted(Here, n) = r - 1
      /\ Here' = TradingPeriod(r, 1)
      /\ RoundsVoted(Here', n) = r
  BY <1>1, InvestmentLocksItsRound DEF Counting, Here, NextHere
<1>3. ~IsInvestment(Here') /\ session'.roundCount = n
  BY <1>2 DEF Counting, IsInvestment, TradingPeriod
<1>4. DOMAIN session = SessionFields
  BY DEF SessionInv, Sound, IsSession
<1>5. /\ outcomes \in Seq(Counts)
      /\ \A i \in DOMAIN outcomes : outcomes[i].round \in Nat /\ outcomes[i].round < r
      /\ \A i, j \in DOMAIN outcomes :
            i < j => outcomes[i].round < outcomes[j].round /\ ~outcomes[i].passed
  <2>1. /\ outcomes \in Seq(Counts)
        /\ \A i \in DOMAIN outcomes : outcomes[i].round <= r - 1
        /\ OneCarbonTax
    BY <1>2 DEF VotesInv
  <2>2. \A i \in DOMAIN outcomes : outcomes[i] \in Counts
    BY <2>1
  <2>3. \A i \in DOMAIN outcomes : outcomes[i].round \in Nat
    BY <2>2 DEF Counts
  <2> QED
    BY <1>2, <2>1, <2>3 DEF OneCarbonTax
<1>6. CASE ~VoteHeld(session.plans, r, outcomes)
  <2>1. /\ session'.plans = session.plans
        /\ session'.ballots = session.ballots
        /\ session'.voteOutcomes = outcomes
    BY <1>6 DEF Counting, CountVote, VoteUndo
  <2>2. session.ballots = Nobody
    BY <1>6 DEF VotesInv, BallotsOnlyDuringVote
  <2> QED
    BY <1>2, <1>3, <1>5, <2>1, <2>2 DEF VotesInv, OneCarbonTax, BallotsOnlyDuringVote
<1>7. CASE VoteHeld(session.plans, r, outcomes)
  <2> DEFINE counted == [round |-> r, passed |-> Passes(session.ballots)]
             after   == Append(outcomes, counted)
  <2>1. /\ session'.plans = VoteLeverOff(session.plans, r)
        /\ session'.ballots = Nobody
        /\ session'.voteOutcomes = after
    BY <1>4, <1>7 DEF Counting, CountVote, VoteUndo, SessionFields
  <2>2. counted \in Counts
    <3>1. Passes(session.ballots) \in BOOLEAN
      BY DEF Passes
    <3> QED
      BY <1>2, <3>1 DEF Counts
  <2>3. \A i \in DOMAIN outcomes : ~outcomes[i].passed
    <3>1. /\ r \in Nat
          /\ \A i \in DOMAIN outcomes : outcomes[i].round < r
          /\ \A i, j \in DOMAIN outcomes : i < j => ~outcomes[i].passed
      BY <1>2, <1>5
    <3> HIDE DEF outcomes, r
    <3> QED
      BY <1>5, <1>7, <3>1, AVoteHeldFollowsNoneThatPassed
  <2>4. counted.round = r
    OBVIOUS
  <2> HIDE DEF counted
  <2>5. /\ after \in Seq(Counts)
        /\ \A i \in DOMAIN after : IF i \in DOMAIN outcomes THEN after[i] = outcomes[i]
                                   ELSE i = Len(outcomes) + 1 /\ after[i] = counted
        /\ \A i \in DOMAIN outcomes : i <= Len(outcomes)
    BY <1>5, <2>2
  <2> HIDE DEF after
  <2>6. \A i \in DOMAIN after : after[i].round <= r
    BY <1>2, <1>5, <2>4, <2>5
  <2>7. \A i, j \in DOMAIN after :
          i < j => after[i].round < after[j].round /\ ~after[i].passed
    <3> SUFFICES ASSUME NEW i \in DOMAIN after, NEW j \in DOMAIN after, i < j
                 PROVE  after[i].round < after[j].round /\ ~after[i].passed
      OBVIOUS
    <3>1. i \in Nat /\ j \in Nat /\ Len(outcomes) \in Nat
      BY <1>5, <2>5
    <3>2. i \in DOMAIN outcomes
      BY <2>5, <3>1
    <3> QED
      BY <1>5, <2>3, <2>4, <2>5, <3>2
  <2>8. session'.plans = [q \in 1..n |-> session'.plans[q]]
    BY <2>1 DEF VotesInv, VoteLeverOff
  <2> QED
    BY <1>2, <1>3, <2>1, <2>5, <2>6, <2>7, <2>8
    DEF VotesInv, OneCarbonTax, BallotsOnlyDuringVote
<1> QED
  BY <1>6, <1>7

\* The invariant is inductive, given where a session may be.
LEMMA VotesInvKept == SessionInv /\ VotesInv /\ [Next]_vars => VotesInv'
<1> SUFFICES ASSUME SessionInv, VotesInv, [Next]_vars PROVE VotesInv'
  OBVIOUS
<1> DEFINE n == session.roundCount
<1>1. VoteStep
  BY EveryStepIsAVoteStep DEF SessionInv
<1>2. n \in Nat \ {0} /\ Here \in AllCheckpoints(n)
  BY WhereTheSessionIs
<1>3. /\ session.plans = [r \in 1..n |-> session.plans[r]]
      /\ session.voteOutcomes \in Seq(Counts)
      /\ \A i \in DOMAIN session.voteOutcomes :
            session.voteOutcomes[i].round <= RoundsVoted(Here, n)
  BY DEF VotesInv
<1> USE DEF VoteFields, VoteUndo, VotesKept, Here
<1>4. CASE VotesKept({})
  BY <1>4 DEF VotesInv, OneCarbonTax, BallotsOnlyDuringVote
<1>5. CASE Voting
  BY <1>5 DEF Voting, VotesInv, OneCarbonTax, BallotsOnlyDuringVote
<1>6. ASSUME Here' = Here, UNCHANGED <<session.ballots, session.voteOutcomes>>,
             IsInvestment(Here) => session'.plans[Here.round] = session.plans[Here.round]
      PROVE  BallotsOnlyDuringVote'
  BY <1>6 DEF VotesInv, BallotsOnlyDuringVote, VoteHeld
<1>7. CASE Planning
  <2>1. IsInvestment(Here) => session'.plans[Here.round] = session.plans[Here.round]
    BY <1>2, <1>3, <1>7, InvestmentLocksItsRound DEF Planning
  <2>2. BallotsOnlyDuringVote'
    BY <1>6, <1>7, <2>1 DEF Planning
  <2> QED
    BY <1>3, <1>7, <2>2 DEF Planning, VotesInv, OneCarbonTax
<1>8. CASE AddingRound
  <2> DEFINE plan == [levers |-> Last(session.plans).levers, events |-> <<>>]
  <2>1. session'.plans = Append(session.plans, plan)
    BY <1>8 DEF AddingRound
  <2> HIDE DEF plan
  <2>2. /\ session'.plans = [i \in 1..(n + 1) |-> session'.plans[i]]
        /\ \A i \in 1..n : session'.plans[i] = session.plans[i]
    BY <1>2, <1>3, <2>1, AppendKeeps
  <2>3. BallotsOnlyDuringVote'
    BY <1>2, <1>6, <1>8, <2>2, InvestmentLocksItsRound DEF AddingRound
  <2>4. RoundsVoted(Here', n + 1) = RoundsVoted(Here, n)
    BY <1>8 DEF AddingRound, RoundsVoted, RecapOpen, IsInvestment, IsRecap
  <2> QED
    BY <1>3, <1>8, <2>2, <2>3, <2>4 DEF AddingRound, VotesInv, OneCarbonTax
<1>9. CASE Counting
  BY <1>9, CountingKeepsVotes
<1>10. CASE Leaving
  <2>1. RoundsVoted(Here', n) = RoundsVoted(Here, n)
    BY <1>2, <1>10, NoVotePassesUncounted DEF Leaving, NextHere
  <2>2. session.ballots = Nobody
    BY <1>10 DEF Leaving, VotesInv, BallotsOnlyDuringVote
  <2> QED
    BY <1>3, <1>10, <2>1, <2>2 DEF Leaving, VotesInv, OneCarbonTax, BallotsOnlyDuringVote
<1> QED
  BY <1>1, <1>4, <1>5, <1>7, <1>8, <1>9, <1>10 DEF VoteStep

\* The invariant always holds.
LEMMA VotesInvHolds == Spec => [](SessionInv /\ VotesInv)
<1>1. SessionInv /\ VotesInv /\ [Next]_vars => (SessionInv /\ VotesInv)'
  BY SessionInvKept, VotesInvKept
<1>2. Init => SessionInv /\ VotesInv
  BY SessionStarts, VotesStart
<1> QED
  BY <1>1, <1>2, PTL DEF Spec

\* A step leaves a locked plan as it is.
LEMMA LockedPlanKept ==
    ASSUME SessionInv, VotesInv, [Next]_vars,
           NEW r \in 1..LockedRounds(Here, session.roundCount)
    PROVE  session'.plans[r] = session.plans[r]
<1> DEFINE n == session.roundCount
<1>1. VoteStep
  BY EveryStepIsAVoteStep DEF SessionInv
<1>2. n \in Nat \ {0} /\ Here \in AllCheckpoints(n)
  BY WhereTheSessionIs
<1>3. LockedRounds(Here, n) \in 0..n
  BY <1>2, CheckpointKinds
  DEF LockedRounds, IsRecap, NotStarted, Investment, TradingPeriod, Recap, Finished
<1>4. r \in 1..n /\ r \in DOMAIN session.plans
  BY <1>2, <1>3 DEF VotesInv
<1>5. CASE VotesKept({}) \/ Voting \/ Leaving
  BY <1>5 DEF Voting, Leaving, VotesKept, VoteFields, VoteUndo
<1>6. CASE Planning
  <2>1. PICK q \in 1..n :
          /\ q > LockedRounds(Here, n)
          /\ \A p \in DOMAIN session.plans : p < q => session'.plans[p] = session.plans[p]
    BY <1>6 DEF Planning
  <2>2. r < q
    BY <1>2, <1>3, <2>1
  <2> QED
    BY <1>4, <2>1, <2>2
<1>7. CASE AddingRound
  BY <1>2, <1>4, <1>7, AppendKeeps DEF AddingRound, VotesInv
<1>8. CASE Counting
  <2>1. r <= Here.round
    BY <1>2, <1>8, InvestmentLocksItsRound DEF Counting
  <2>2. session'.plans \in {session.plans, VoteLeverOff(session.plans, Here.round)}
    BY <1>8 DEF Counting, CountVote, VoteUndo, SessionInv, Sound, IsSession, SessionFields
  <2> QED
    BY <1>4, <2>1, <2>2 DEF VoteLeverOff
<1> QED
  BY <1>1, <1>5, <1>6, <1>7, <1>8 DEF VoteStep

-----------------------------------------------------------------------------
(***************************************************************************)
(* The boundaries reached, and the events planned for them, as sequences   *)
(* that a step leaves alone or makes longer by one boundary.               *)
(***************************************************************************)
\* The first k boundaries of Round r; those of the Rounds before r and the first k of r.
Row(r, k)    == [i \in 1..k |-> [round |-> r, season |-> i - 1]]
Rows(r, k)   == [q \in 1..r |-> IF q < r THEN Row(q, NumSeasons + 1) ELSE Row(q, k)]
Passed(r, k) == FlattenSeq(Rows(r, k))

BoundariesUpTo(r) == [round: 1..r, season: 0..NumSeasons]

\* What fires at these boundaries.
Fired == [event: Picks, round: Nat, season: Nat]

FiredFor(plans, bs) ==
    FlattenSeq([i \in DOMAIN bs |-> Firing(plans, bs[i].round, bs[i].season)])

\* A Round's boundaries are boundaries, one more each time.
LEMMA RowTyped ==
    ASSUME NEW r \in Nat \ {0}, NEW q \in 1..r, NEW k \in 0..(NumSeasons + 1)
    PROVE  /\ Row(q, k) \in Seq(BoundariesUpTo(r))
           /\ k <= NumSeasons => Row(q, k + 1) = Append(Row(q, k), [round |-> q, season |-> k])
<1>1. NumSeasons \in Nat \ {0}
  BY NumSeasonsAssumption
<1>2. ASSUME NEW i \in 1..k PROVE [round |-> q, season |-> i - 1] \in BoundariesUpTo(r)
  <2>1. i - 1 \in 0..NumSeasons
    BY <1>1
  <2> QED
    BY <2>1 DEF BoundariesUpTo
<1>3. Row(q, k) \in Seq(BoundariesUpTo(r)) /\ Len(Row(q, k)) = k
  BY <1>1, <1>2 DEF Row
<1>4. ASSUME k <= NumSeasons
      PROVE  Row(q, k + 1) = Append(Row(q, k), [round |-> q, season |-> k])
  <2> DEFINE longer == Append(Row(q, k), [round |-> q, season |-> k])
  <2>1. k \in Nat /\ Row(q, k) = [i \in 1..k |-> Row(q, k)[i]]
    BY <1>1 DEF Row
  <2>2. /\ longer = [i \in 1..(k + 1) |-> longer[i]]
        /\ \A i \in 1..k : longer[i] = Row(q, k)[i]
        /\ longer[k + 1] = [round |-> q, season |-> k]
    BY <2>1, AppendKeeps
  <2> HIDE DEF longer
  <2>3. ASSUME NEW i \in 1..(k + 1) PROVE longer[i] = [round |-> q, season |-> i - 1]
    <3>1. CASE i = k + 1
      <4>1. i - 1 = k
        BY <2>1, <3>1
      <4> QED
        BY <2>2, <3>1, <4>1
    <3>2. CASE i # k + 1
      <4>1. i \in 1..k
        BY <2>1, <3>2
      <4> QED
        BY <2>2, <4>1 DEF Row
    <3> QED
      BY <3>1, <3>2
  <2> QED
    BY <2>2, <2>3 DEF Row, longer
<1> QED
  BY <1>3, <1>4

\* The boundaries passed are boundaries, and each reached comes after the others.
LEMMA PassedMore ==
    ASSUME NEW r \in Nat \ {0}, NEW k \in 0..(NumSeasons + 1)
    PROVE  /\ Passed(r, k) \in Seq(BoundariesUpTo(r))
           /\ k <= NumSeasons =>
                Passed(r, k + 1) = Append(Passed(r, k), [round |-> r, season |-> k])
<1> DEFINE E == BoundariesUpTo(r)
           front == [q \in 1..(r - 1) |-> Row(q, NumSeasons + 1)]
<1>1. NumSeasons \in Nat \ {0} /\ r \in 1..r /\ r - 1 \in Nat /\ k \in Nat
  BY NumSeasonsAssumption
<1>2. /\ \A q \in 1..(r - 1) : Row(q, NumSeasons + 1) \in Seq(E)
      /\ Row(r, k) \in Seq(E)
      /\ k <= NumSeasons => Row(r, k + 1) = Append(Row(r, k), [round |-> r, season |-> k])
      /\ k <= NumSeasons => Row(r, k + 1) \in Seq(E)
  <2>1. /\ NumSeasons + 1 \in 0..(NumSeasons + 1)
        /\ \A q \in 1..(r - 1) : q \in 1..r
        /\ k <= NumSeasons => k + 1 \in 0..(NumSeasons + 1)
    BY <1>1
  <2>2. \A q \in 1..r : Row(q, NumSeasons + 1) \in Seq(E)
    BY <2>1, RowTyped
  <2>3. /\ Row(r, k) \in Seq(E)
        /\ k <= NumSeasons => Row(r, k + 1) = Append(Row(r, k), [round |-> r, season |-> k])
    BY <1>1, RowTyped
  <2>4. k <= NumSeasons => Row(r, k + 1) \in Seq(E)
    BY <1>1, <2>1, RowTyped
  <2> QED
    BY <2>1, <2>2, <2>3, <2>4
<1>3. front \in Seq(Seq(E)) /\ front = [q \in 1..(r - 1) |-> front[q]]
  BY <1>1, <1>2
<1>4. ASSUME NEW m \in Nat PROVE Rows(r, m) = Append(front, Row(r, m))
  <2> DEFINE all == Append(front, Row(r, m))
  <2>1. /\ all = [q \in 1..((r - 1) + 1) |-> all[q]]
        /\ \A q \in 1..(r - 1) : all[q] = front[q]
        /\ all[(r - 1) + 1] = Row(r, m)
    BY <1>1, <1>3, AppendKeeps
  <2>2. (r - 1) + 1 = r
    BY <1>1
  <2> HIDE DEF all
  <2>3. ASSUME NEW q \in 1..r
        PROVE  all[q] = IF q < r THEN Row(q, NumSeasons + 1) ELSE Row(q, m)
    <3>1. CASE q < r
      <4>1. q \in 1..(r - 1)
        BY <1>1, <3>1
      <4> QED
        BY <2>1, <3>1, <4>1
    <3>2. CASE ~(q < r)
      <4>1. q = r
        BY <1>1, <3>2
      <4> QED
        BY <2>1, <2>2, <3>2, <4>1
    <3> QED
      BY <3>1, <3>2
  <2> QED
    BY <2>1, <2>2, <2>3 DEF Rows, all
<1> DEFINE before == FlattenSeq(front)
<1> HIDE DEF E, front
<1>5. before \in Seq(E)
  BY <1>2, <1>3, FlattenMore
<1>6. Passed(r, k) = before \o Row(r, k)
  BY <1>1, <1>2, <1>3, <1>4, FlattenMore DEF Passed
<1>7. k <= NumSeasons => Passed(r, k + 1) = before \o Row(r, k + 1)
  <2>1. k + 1 \in Nat
    BY <1>1
  <2>2. Rows(r, k + 1) = Append(front, Row(r, k + 1))
    BY <1>4, <2>1
  <2> QED
    BY <1>2, <1>3, <2>2, FlattenMore DEF Passed
<1> HIDE DEF before
<1>8. [round |-> r, season |-> k] \in E \/ ~(k <= NumSeasons)
  BY <1>1 DEF E, BoundariesUpTo
<1>9. Passed(r, k) \in Seq(E)
  BY <1>2, <1>5, <1>6
<1>10. ASSUME k <= NumSeasons
       PROVE  Passed(r, k + 1) = Append(Passed(r, k), [round |-> r, season |-> k])
  <2> DEFINE b == [round |-> r, season |-> k]
             row == Row(r, k)
  <2>1. b \in E
    BY <1>8, <1>10
  <2>2. Row(r, k + 1) = Append(row, b) /\ row \in Seq(E)
    BY <1>2, <1>10
  <2> HIDE DEF b, row
  <2>3. before \o Append(row, b) = Append(before \o row, b)
    BY <1>5, <2>1, <2>2
  <2> QED
    BY <1>6, <1>7, <1>10, <2>2, <2>3 DEF b, row
<1> QED
  BY <1>9, <1>10 DEF E

\* Before the boundaries of a Round come all those of the Round before.
LEMMA PassedRound ==
    ASSUME NEW r \in Nat \ {0}
    PROVE  Passed(r + 1, 0) = Passed(r, NumSeasons + 1)
<1> DEFINE E == BoundariesUpTo(r)
           rows == Rows(r, NumSeasons + 1)
           more == Append(rows, <<>>)
<1>1. NumSeasons + 1 \in 0..(NumSeasons + 1) /\ r \in Nat /\ r + 1 \in Nat
  BY NumSeasonsAssumption
<1>2. \A q \in 1..r : rows[q] = Row(q, NumSeasons + 1) /\ rows[q] \in Seq(E)
  BY <1>1, RowTyped DEF Rows
<1>3. rows = [q \in 1..r |-> rows[q]]
  BY DEF Rows
<1>4. Row(r + 1, 0) = <<>>
  BY DEF Row
<1> HIDE DEF rows
<1>5. rows \in Seq(Seq(E)) /\ <<>> \in Seq(E)
  BY <1>1, <1>2, <1>3
<1>6. /\ more = [q \in 1..(r + 1) |-> more[q]]
      /\ \A q \in 1..r : more[q] = rows[q]
      /\ more[r + 1] = <<>>
  BY <1>1, <1>3, AppendKeeps
<1> HIDE DEF more
<1>7. ASSUME NEW q \in 1..(r + 1)
      PROVE  more[q] = IF q < r + 1 THEN Row(q, NumSeasons + 1) ELSE Row(q, 0)
  <2>1. CASE q < r + 1
    <3>1. q \in 1..r
      BY <1>1, <2>1
    <3> QED
      BY <1>2, <1>6, <2>1, <3>1
  <2>2. CASE ~(q < r + 1)
    <3>1. q = r + 1
      BY <1>1, <2>2
    <3> QED
      BY <1>4, <1>6, <2>2, <3>1
  <2> QED
    BY <2>1, <2>2
<1>8. Rows(r + 1, 0) = more
  BY <1>6, <1>7 DEF Rows
<1> DEFINE before == FlattenSeq(rows)
<1>9. FlattenSeq(more) = before \o <<>> /\ before \in Seq(E)
  BY <1>5, FlattenMore DEF more
<1> HIDE DEF before
<1>10. before \o <<>> = before
  BY <1>9
<1> QED
  BY <1>8, <1>9, <1>10 DEF Passed, rows, before

\* What is reached at a checkpoint is what is passed up to some boundary of its Round.
LEMMA ReachedIsPassed ==
    ASSUME NEW n \in Nat \ {0}, NEW c \in AllCheckpoints(n)
    PROVE  /\ c = NotStarted => Reached(c, n) = Passed(1, 0)
           /\ IsInvestment(c) \/ IsTrading(c) => Reached(c, n) = Passed(c.round, c.season + 1)
           /\ IsRecap(c) => Reached(c, n) = Passed(c.round, NumSeasons + 1)
           /\ c = Finished => Reached(c, n) = Passed(n, NumSeasons + 1)
<1> DEFINE last == CurrentRound(c, n)
           Upto(q) == IF c = NotStarted THEN <<>>
                      ELSE IF q < last \/ ~(IsInvestment(c) \/ IsTrading(c))
                        THEN [i \in 1..NumSeasons + 1 |-> i - 1]
                      ELSE [i \in 1..c.season + 1 |-> i - 1]
           Of(q) == [i \in DOMAIN Upto(q) |-> [round |-> q, season |-> Upto(q)[i]]]
<1>0. NumSeasons \in Nat \ {0}
  BY NumSeasonsAssumption
<1>1. Reached(c, n) = FlattenSeq([q \in 1..last |-> Of(q)])
  BY Zenon DEF Reached
<1>2. ASSUME NEW k \in Nat, NEW q, Upto(q) = [i \in 1..k |-> i - 1]
      PROVE  Of(q) = Row(q, k)
  BY <1>2 DEF Row
<1>3. /\ last = IF c = NotStarted THEN 1 ELSE IF c = Finished THEN n ELSE c.round
      /\ last \in Nat \ {0}
      /\ c.season \in Nat
      /\ c = NotStarted \/ c = Finished \/ IsRecap(c) => ~(IsInvestment(c) \/ IsTrading(c))
      /\ IsRecap(c) \/ IsInvestment(c) \/ IsTrading(c) => c # NotStarted /\ c # Finished
  BY CheckpointKinds DEF CurrentRound, IsInvestment, IsTrading, IsRecap, NotStarted, Investment,
     TradingPeriod, Recap, Finished, Seasons
<1> HIDE DEF last
<1>4. ASSUME c = NotStarted PROVE Reached(c, n) = Passed(1, 0)
  <2>1. ASSUME NEW q \in 1..last PROVE Of(q) = Row(q, 0) /\ ~(q < last)
    <3>1. <<>> = [i \in 1..0 |-> i - 1]
      OBVIOUS
    <3>2. q \in 1..1
      BY <1>3, <1>4
    <3> QED
      BY <1>2, <1>3, <1>4, <3>1, <3>2
  <2> HIDE DEF Of
  <2>2. [q \in 1..last |-> Of(q)] = Rows(1, 0)
    BY <1>3, <1>4, <2>1 DEF Rows
  <2> QED
    BY <1>1, <2>2 DEF Passed
<1>5. ASSUME IsInvestment(c) \/ IsTrading(c) PROVE Reached(c, n) = Passed(c.round, c.season + 1)
  <2>1. ASSUME NEW q \in 1..last
        PROVE  Of(q) = IF q < last THEN Row(q, NumSeasons + 1) ELSE Row(q, c.season + 1)
    <3>1. CASE q < last
      <4>1. Upto(q) = [i \in 1..NumSeasons + 1 |-> i - 1]
        BY <1>3, <1>5, <3>1
      <4> HIDE DEF Upto, Of
      <4> QED
        BY <1>0, <1>2, <3>1, <4>1
    <3>2. CASE ~(q < last)
      <4>1. Upto(q) = [i \in 1..c.season + 1 |-> i - 1]
        BY <1>3, <1>5, <3>2
      <4> HIDE DEF Upto, Of
      <4> QED
        BY <1>2, <1>3, <3>2, <4>1
    <3> QED
      BY <3>1, <3>2
  <2> HIDE DEF Of
  <2>2. [q \in 1..last |-> Of(q)] = Rows(c.round, c.season + 1)
    BY <1>3, <1>5, <2>1 DEF Rows
  <2> QED
    BY <1>1, <2>2 DEF Passed
<1>6. ASSUME IsRecap(c) \/ c = Finished PROVE Reached(c, n) = Passed(last, NumSeasons + 1)
  <2>1. ASSUME NEW q \in 1..last PROVE Of(q) = Row(q, NumSeasons + 1)
    <3>1. Upto(q) = [i \in 1..NumSeasons + 1 |-> i - 1]
      BY <1>3, <1>6 DEF NotStarted, Finished
    <3> HIDE DEF Upto, Of
    <3> QED
      BY <1>0, <1>2, <3>1
  <2> HIDE DEF Of
  <2>2. [q \in 1..last |-> Of(q)] = Rows(last, NumSeasons + 1)
    BY <2>1 DEF Rows
  <2> QED
    BY <1>1, <2>2 DEF Passed
<1> QED
  BY <1>3, <1>4, <1>5, <1>6 DEF NotStarted, Finished

\* A sequence of some values is one of more values.
LEMMA SeqOfMore ==
    ASSUME NEW S, NEW T, S \subseteq T, NEW q \in Seq(S)
    PROVE  q \in Seq(T)
<1>1. Len(q) \in Nat /\ q = [i \in 1..Len(q) |-> q[i]] /\ \A i \in 1..Len(q) : q[i] \in T
  OBVIOUS
<1> QED
  BY <1>1

\* A function over a sequence's places is a sequence.
LEMMA SeqOfAll ==
    ASSUME NEW n \in Nat, NEW T, NEW f, f = [i \in 1..n |-> f[i]], \A i \in 1..n : f[i] \in T
    PROVE  f \in Seq(T) /\ Len(f) = n
OBVIOUS

\* No sequences make an empty one.
LEMMA NothingFlat == FlattenSeq(<<>>) = <<>>
<1> DEFINE none == <<>>
<1>1. none \in Seq(Seq(Nat)) /\ Len(none) = 0
  OBVIOUS
<1> HIDE DEF none
<1>2. PICK it : Joins(it, none)
  BY <1>1, JoinsExist
<1>3. FlattenSeq(none) = it[0]
  BY <1>1, <1>2, FlattenJoins
<1> QED
  BY <1>2, <1>3 DEF Joins, none

\* The boundaries reached are of Rounds whose plans are locked.
LEMMA ReachedAreLocked ==
    ASSUME NEW n \in Nat \ {0}, NEW c \in AllCheckpoints(n)
    PROVE  Reached(c, n) \in Seq([round: 1..LockedRounds(c, n), season: 0..NumSeasons])
<1>0. NumSeasons \in Nat \ {0}
  BY NumSeasonsAssumption
<1>1. ASSUME NEW r \in Nat \ {0}, NEW m \in Nat, r <= m,
             NEW k \in 1..(NumSeasons + 1), Reached(c, n) = Passed(r, k)
      PROVE  Reached(c, n) \in Seq([round: 1..m, season: 0..NumSeasons])
  <2>1. BoundariesUpTo(r) \subseteq [round: 1..m, season: 0..NumSeasons]
    BY <1>1 DEF BoundariesUpTo
  <2>2. k \in 0..(NumSeasons + 1)
    BY <1>0
  <2>3. Reached(c, n) \in Seq(BoundariesUpTo(r))
    BY <1>1, <2>2, PassedMore
  <2> DEFINE T == [round: 1..m, season: 0..NumSeasons]
             E == BoundariesUpTo(r)
  <2>4. E \subseteq T /\ Reached(c, n) \in Seq(E)
    BY <2>1, <2>3
  <2> HIDE DEF T, E
  <2>5. Reached(c, n) \in Seq(T)
    BY <2>4, SeqOfMore
  <2> QED
    BY <2>5 DEF T
<1>2. CASE c = NotStarted
  <2>1. Reached(c, n) = Passed(1, 0)
    BY <1>2, ReachedIsPassed
  <2>2. Rows(1, 0) = Append(<<>>, <<>>)
    <3>1. Row(1, 0) = <<>>
      BY DEF Row
    <3>2. Rows(1, 0) = [q \in 1..1 |-> <<>>]
      BY <3>1 DEF Rows
    <3> QED
      BY <3>2
  <2>3. <<>> \in Seq(Seq(Nat)) /\ <<>> \in Seq(Nat)
    OBVIOUS
  <2>4. FlattenSeq(Append(<<>>, <<>>)) = FlattenSeq(<<>>) \o <<>>
    BY <2>3, FlattenMore
  <2>5. FlattenSeq(<<>>) = <<>>
    BY NothingFlat
  <2>6. <<>> \o <<>> = <<>>
    OBVIOUS
  <2>7. Reached(c, n) = <<>>
    BY <2>1, <2>2, <2>4, <2>5, <2>6 DEF Passed
  <2> QED
    BY <2>7
<1>3. CASE IsInvestment(c) \/ IsTrading(c)
  <2>1. /\ c.round \in Nat \ {0} /\ LockedRounds(c, n) = c.round
        /\ c.season + 1 \in 1..(NumSeasons + 1)
    BY <1>0, <1>3, CheckpointKinds DEF LockedRounds, IsInvestment, IsTrading, IsRecap, NotStarted,
       Investment, TradingPeriod, Recap, Finished, Seasons
  <2> QED
    BY <1>1, <1>3, <2>1, ReachedIsPassed
<1>4. CASE IsRecap(c)
  <2>1. /\ c.round \in Nat \ {0} /\ LockedRounds(c, n) \in Nat /\ c.round <= LockedRounds(c, n)
        /\ NumSeasons + 1 \in 1..(NumSeasons + 1)
    BY <1>0, <1>4, CheckpointKinds DEF LockedRounds, IsInvestment, IsTrading, IsRecap, NotStarted,
       Investment, TradingPeriod, Recap, Finished, Seasons
  <2> QED
    BY <1>1, <1>4, <2>1, ReachedIsPassed
<1>5. CASE c = Finished
  <2>1. LockedRounds(c, n) = n /\ NumSeasons + 1 \in 1..(NumSeasons + 1)
    BY <1>0, <1>5 DEF LockedRounds, Finished, IsRecap
  <2> QED
    BY <1>1, <1>5, <2>1, ReachedIsPassed
<1> QED
  BY <1>2, <1>3, <1>4, <1>5, CheckpointKinds
  DEF IsInvestment, IsTrading, IsRecap, Investment, TradingPeriod, Recap

\* A step past a checkpoint reaches the boundary it arrives at, if it arrives at one.
LEMMA ReachedNext ==
    ASSUME NEW n \in Nat \ {0}, NEW c \in AllCheckpoints(n), c # Finished,
           NEW next, next = NextCheckpoint(c, n)
    PROVE  Reached(next, n) =
             IF IsInvestment(next) \/ IsTrading(next)
               THEN Append(Reached(c, n), [round |-> next.round, season |-> next.season])
               ELSE Reached(c, n)
<1>0. NumSeasons \in Nat \ {0} /\ next \in AllCheckpoints(n)
  BY NumSeasonsAssumption, NextIsACheckpoint
<1>1. ASSUME NEW r \in Nat \ {0}, NEW k \in 0..NumSeasons, Reached(c, n) = Passed(r, k),
             IsInvestment(next) \/ IsTrading(next), next.round = r, next.season = k
      PROVE  Reached(next, n) = Append(Reached(c, n), [round |-> next.round, season |-> next.season])
  <2>1. Reached(next, n) = Passed(r, k + 1)
    BY <1>0, <1>1, ReachedIsPassed
  <2>2. k \in 0..(NumSeasons + 1) /\ k <= NumSeasons
    BY <1>0
  <2> QED
    BY <1>1, <2>1, <2>2, PassedMore
<1>2. CASE c = NotStarted
  <2>1. next = Investment(1)
    BY <1>2 DEF NextCheckpoint, NotStarted, IsInvestment, IsTrading, IsRecap
  <2>2. IsInvestment(next) /\ next.round = 1 /\ next.season = 0
    BY <2>1 DEF Investment, IsInvestment
  <2>3. Reached(c, n) = Passed(1, 0) /\ 0 \in 0..NumSeasons
    BY <1>0, <1>2, ReachedIsPassed
  <2> QED
    BY <1>1, <2>2, <2>3
<1>3. CASE IsInvestment(c)
  <2>1. c.round \in 1..n /\ next = TradingPeriod(c.round, 1) /\ c.season = 0
    BY <1>3, CheckpointKinds DEF NextCheckpoint, IsInvestment, IsTrading, IsRecap, NotStarted,
       Investment, TradingPeriod, Recap, Finished
  <2>2. IsTrading(next) /\ next.round = c.round /\ next.season = 1
    BY <2>1 DEF TradingPeriod, IsTrading
  <2>3. Reached(c, n) = Passed(c.round, 1) /\ 1 \in 0..NumSeasons
    BY <1>0, <1>3, <2>1, ReachedIsPassed
  <2> QED
    BY <1>1, <2>1, <2>2, <2>3
<1>4. CASE IsTrading(c)
  <2>1. PICK r \in 1..n, s \in Seasons : c = TradingPeriod(r, s)
    BY <1>4, CheckpointKinds DEF IsTrading, NotStarted, Investment, TradingPeriod, Recap, Finished
  <2>2. c.round = r /\ c.season = s /\ s \in 1..NumSeasons
    BY <2>1 DEF TradingPeriod, Seasons
  <2>3. Reached(c, n) = Passed(r, s + 1)
    BY <1>4, <2>2, ReachedIsPassed
  <2>4. next = IF s < NumSeasons THEN TradingPeriod(r, s + 1) ELSE Recap(r)
    BY <2>1 DEF NextCheckpoint, IsInvestment, IsTrading, IsRecap, TradingPeriod
  <2>5. CASE s < NumSeasons
    <3>1. IsTrading(next) /\ next.round = r /\ next.season = s + 1
      BY <2>4, <2>5 DEF TradingPeriod, IsTrading
    <3>2. s + 1 \in 0..NumSeasons
      BY <1>0, <2>2, <2>5
    <3> QED
      BY <1>1, <2>3, <3>1, <3>2
  <2>6. CASE ~(s < NumSeasons)
    <3>1. IsRecap(next) /\ next.round = r /\ ~(IsInvestment(next) \/ IsTrading(next))
      BY <2>4, <2>6 DEF Recap, IsTrading, IsRecap, IsInvestment
    <3>2. s = NumSeasons
      BY <1>0, <2>2, <2>6
    <3> QED
      BY <1>0, <2>3, <3>1, <3>2, ReachedIsPassed
  <2> QED
    BY <2>5, <2>6
<1>5. CASE IsRecap(c)
  <2>1. PICK r \in 1..n : c = Recap(r)
    BY <1>5, CheckpointKinds DEF IsRecap, NotStarted, Investment, TradingPeriod, Recap, Finished
  <2>2. c.round = r /\ Reached(c, n) = Passed(r, NumSeasons + 1)
    BY <1>5, <2>1, ReachedIsPassed DEF Recap
  <2>3. next = IF r < n THEN Investment(r + 1) ELSE Finished
    BY <1>5, <2>2 DEF NextCheckpoint, IsInvestment, IsTrading, IsRecap
  <2>4. CASE r < n
    <3>1. IsInvestment(next) /\ next.round = r + 1 /\ next.season = 0
      BY <2>3, <2>4 DEF Investment, IsInvestment
    <3>2. r + 1 \in Nat \ {0} /\ 0 \in 0..NumSeasons
      BY <1>0
    <3>3. Passed(r + 1, 0) = Passed(r, NumSeasons + 1)
      BY PassedRound
    <3> QED
      BY <1>1, <2>2, <3>1, <3>2, <3>3
  <2>5. CASE ~(r < n)
    <3>1. next = Finished /\ r = n
      BY <2>3, <2>5
    <3> QED
      BY <1>0, <2>2, <3>1, ReachedIsPassed DEF Finished, IsInvestment, IsTrading
  <2> QED
    BY <2>4, <2>5
<1> QED
  BY <1>2, <1>3, <1>4, <1>5, CheckpointKinds
  DEF IsInvestment, IsTrading, IsRecap, Investment, TradingPeriod, Recap

\* What is fired is picks, each with its boundary.
LEMMA FiringTyped ==
    ASSUME NEW plans, NEW r \in Nat, plans[r] \in Plans, NEW s \in Nat
    PROVE  Firing(plans, r, s) \in Seq(Fired)
<1> DEFINE planned == plans[r].events
           places  == { i \in DOMAIN planned : planned[i].season = s }
           due     == Only(planned, places)
<1>1. planned \in Seq(Planned)
  BY DEF Plans
<1>2. Firing(plans, r, s) = [i \in DOMAIN due |-> [event |-> due[i].event, round |-> r, season |-> s]]
  BY Zenon DEF Firing
<1> HIDE DEF planned, places
<1>3. due \in Seq(Planned)
  BY <1>1, OnlyTyped
<1> HIDE DEF due
<1>4. \A i \in DOMAIN due : due[i] \in Planned
  BY <1>3
<1>5. \A i \in DOMAIN due : [event |-> due[i].event, round |-> r, season |-> s] \in Fired
  BY <1>4 DEF Planned, Fired
<1> QED
  BY <1>2, <1>3, <1>5

\* Plans that agree on the Rounds of some boundaries fire the same at them.
LEMMA FiredForSame ==
    ASSUME NEW n \in Nat, NEW bs \in Seq(BoundariesUpTo(n)), NEW one, NEW two,
           \A r \in 1..n : one[r] = two[r]
    PROVE  FiredFor(one, bs) = FiredFor(two, bs)
<1>1. ASSUME NEW i \in DOMAIN bs
      PROVE  Firing(one, bs[i].round, bs[i].season) = Firing(two, bs[i].round, bs[i].season)
  <2>1. bs[i] \in BoundariesUpTo(n)
    OBVIOUS
  <2>2. one[bs[i].round] = two[bs[i].round]
    BY <2>1 DEF BoundariesUpTo
  <2> QED
    BY <2>2 DEF Firing
<1> QED
  BY <1>1 DEF FiredFor

\* One more boundary fires what is planned for it after all the rest.
LEMMA FiredForMore ==
    ASSUME NEW n \in Nat, NEW plans, \A r \in 1..n : plans[r] \in Plans,
           NEW bs \in Seq(BoundariesUpTo(n)), NEW b \in BoundariesUpTo(n)
    PROVE  FiredFor(plans, Append(bs, b)) = FiredFor(plans, bs) \o Firing(plans, b.round, b.season)
<1> DEFINE At(x) == Firing(plans, x.round, x.season)
           more  == Append(bs, b)
           seqs  == [i \in DOMAIN bs |-> At(bs[i])]
<1>1. ASSUME NEW x \in BoundariesUpTo(n) PROVE At(x) \in Seq(Fired)
  <2>1. x.round \in 1..n /\ x.season \in Nat
    BY NumSeasonsAssumption DEF BoundariesUpTo
  <2>2. x.round \in Nat /\ plans[x.round] \in Plans
    BY <2>1
  <2> DEFINE r == x.round
             t == x.season
  <2>3. r \in Nat /\ plans[r] \in Plans /\ t \in Nat
    BY <2>1, <2>2
  <2> HIDE DEF r, t
  <2>4. Firing(plans, r, t) \in Seq(Fired)
    BY <2>3, FiringTyped
  <2> QED
    BY <2>4 DEF r, t
<1> HIDE DEF At
<1>2. \A i \in DOMAIN bs : bs[i] \in BoundariesUpTo(n)
  OBVIOUS
<1>3. seqs \in Seq(Seq(Fired)) /\ DOMAIN seqs = 1..Len(bs) /\ Len(bs) \in Nat /\ Len(seqs) = Len(bs)
  <2>1. DOMAIN bs = 1..Len(bs) /\ Len(bs) \in Nat
    OBVIOUS
  <2>2. \A i \in 1..Len(bs) : At(bs[i]) \in Seq(Fired)
    BY <1>1, <1>2, <2>1
  <2>3. seqs = [i \in 1..Len(bs) |-> At(bs[i])]
    BY <2>1
  <2> HIDE DEF seqs
  <2> QED
    BY <2>1, <2>2, <2>3
<1>4. /\ DOMAIN more = 1..(Len(bs) + 1)
      /\ \A i \in 1..Len(bs) : more[i] = bs[i]
      /\ more[Len(bs) + 1] = b
  OBVIOUS
<1>5. [i \in DOMAIN more |-> At(more[i])] = Append(seqs, At(b))
  <2> DEFINE all == Append(seqs, At(b))
  <2>1. seqs = [i \in 1..Len(bs) |-> seqs[i]]
    BY <1>3
  <2>2. /\ all = [i \in 1..(Len(bs) + 1) |-> all[i]]
        /\ \A i \in 1..Len(bs) : all[i] = seqs[i]
        /\ all[Len(bs) + 1] = At(b)
    BY <1>3, <2>1, AppendKeeps
  <2> HIDE DEF all
  <2>3. ASSUME NEW i \in 1..(Len(bs) + 1) PROVE all[i] = At(more[i])
    <3>1. CASE i \in 1..Len(bs)
      <4>1. seqs[i] = At(bs[i]) /\ more[i] = bs[i] /\ all[i] = seqs[i]
        BY <1>3, <1>4, <2>2, <3>1
      <4> HIDE DEF more, seqs
      <4> QED
        BY <4>1
    <3>2. CASE i = Len(bs) + 1
      <4>1. more[i] = b /\ all[i] = At(b)
        BY <1>4, <2>2, <3>2
      <4> HIDE DEF more
      <4> QED
        BY <4>1
    <3> QED
      BY <1>3, <3>1, <3>2
  <2> HIDE DEF more, seqs
  <2> QED
    BY <1>4, <2>2, <2>3 DEF all
<1> HIDE DEF more, seqs
<1>6. FlattenSeq(Append(seqs, At(b))) = FlattenSeq(seqs) \o At(b)
  BY <1>1, <1>3, FlattenMore
<1>7. FiredFor(plans, more) = FlattenSeq([i \in DOMAIN more |-> At(more[i])])
  BY Zenon DEF FiredFor, At
<1>8. FiredFor(plans, bs) = FlattenSeq(seqs)
  BY Zenon DEF FiredFor, At, seqs
<1> QED
  BY <1>5, <1>6, <1>7, <1>8 DEF more, At

\* Of what is fired, an advance changes what its boundary fires, by the plans it leaves
\* (_fire_events).
LEMMA AdvanceFires ==
    ASSUME NEW s, IsSession(s), NEW c, NEW opened, NEW after, after = Advanced(s, c, opened)
    PROVE  after.firedEvents =
             IF IsInvestment(c) \/ IsTrading(c)
               THEN s.firedEvents \o Firing(after.plans, c.round, c.season)
               ELSE s.firedEvents
<1> DEFINE left   == Left(s, c)
           closed == Closed(left, c)
           fired  == FireEvents(closed, c)
           priced == Priced(fired, c, opened)
<1>1. /\ Touched(s, left, LeavingUndo(s, c))
      /\ after = Arrived(left, c, opened)
      /\ IsSession(left)
  BY LeavingTouches, AdvanceLeavesAndArrives
<1> HIDE DEF left
<1>2. /\ Touched(left, closed, ClosingUndo(c))
      /\ Touched(closed, fired, FiringUndo(c))
      /\ Touched(fired, priced, PricingUndo(c))
      /\ Touched(priced, after, UnlocksUndo)
  BY <1>1, ArrivingStages
<1>3. fired = IF IsInvestment(c) \/ IsTrading(c)
                THEN [closed EXCEPT !.firedEvents = @ \o Firing(closed.plans, c.round, c.season)]
                ELSE closed
  BY DEF FireEvents
<1> HIDE DEF closed, fired, priced
<1>4. left.firedEvents = s.firedEvents
  BY <1>1 DEF Touched, LeavingUndo, SessionFields, PurchasesUndo, VoteUndo, RetirementUndo, LoanUndo
<1>5. closed.firedEvents = left.firedEvents
  BY <1>2 DEF Touched, ClosingUndo, SessionFields, GrowthUndo, BlackoutUndo
<1>6. fired.plans = closed.plans
  BY <1>2 DEF Touched, FiringUndo, SessionFields, EventsUndo
<1>7. priced.firedEvents = fired.firedEvents /\ priced.plans = fired.plans
  BY <1>2 DEF Touched, PricingUndo, SessionFields, FuelMarketUndo
<1>8. after.firedEvents = priced.firedEvents /\ after.plans = priced.plans
  BY <1>2 DEF Touched, UnlocksUndo, SessionFields
<1>9. DOMAIN closed = SessionFields /\ "firedEvents" \in SessionFields
  BY <1>2 DEF Touched, IsSession, SessionFields
<1> QED
  BY <1>3, <1>4, <1>5, <1>6, <1>7, <1>8, <1>9

\* Events fire only as the session moves on.
LEMMA OnlyMovingFires ==
    ASSUME Sound, [Next]_vars
    PROVE  Moving \/ (session'.firedEvents = session.firedEvents /\ Here' = Here)
<1>1. DOMAIN session = SessionFields /\ {"firedEvents", "checkpoint"} \subseteq SessionFields
  BY DEF Sound, IsSession, SessionFields
<1>2. CASE session' = session
  BY <1>2 DEF Here
<1>3. CASE \E p \in Players : PlayerChange(p)
  <2>1. \E p, y : session' = [session EXCEPT !.players[p] = y]
    BY <1>3 DEF PlayerChange, Becomes
  <2> QED
    BY <1>1, <2>1 DEF Here
<1>4. CASE SideChange
  BY <1>1, <1>4 DEF SideChange, SideFields, Here
<1>5. CASE AddRound /\ session' = AddedRound(session)
  BY <1>1, <1>5 DEF AddedRound, Here
<1>6. CASE Joining
  BY <1>1, <1>6 DEF Joining, Here
<1>7. CASE Buying
  <2>1. Touched(session, session', PurchasesUndo)
    BY <1>7, PurchasesTouch DEF Buying, Sound
  <2> QED
    BY <2>1 DEF Touched, SessionFields, PurchasesUndo, Here
<1>8. CASE Finishing
  <2>1. Touched(session, session', SettleUndo)
    BY <1>8, SettledTouches DEF Finishing, Sound
  <2> QED
    BY <2>1 DEF Touched, SessionFields, SettleUndo, Here
<1>9. session' = session \/ Change
  BY EveryChange
<1> QED
  BY <1>2, <1>3, <1>4, <1>5, <1>6, <1>7, <1>8, <1>9 DEF Change

-----------------------------------------------------------------------------
(***************************************************************************)
(* Plans and the events fired by them: the rest of the inductive           *)
(* invariant.                                                              *)
(***************************************************************************)
PlansInv == /\ session.plans \in Seq(Plans)
            /\ Len(session.plans) = session.roundCount

\* Every plan stays made of valid levers and of events that may be picked.
LEMMA PlansInvKept == SessionInv /\ VotesInv /\ PlansInv /\ [Next]_vars => PlansInv'
<1> SUFFICES ASSUME SessionInv, VotesInv, PlansInv, [Next]_vars PROVE PlansInv'
  OBVIOUS
<1> DEFINE n     == session.roundCount
           plans == session.plans
<1>1. VoteStep
  BY EveryStepIsAVoteStep DEF SessionInv
<1>2. /\ n \in Nat \ {0} /\ Here \in AllCheckpoints(n)
      /\ plans = [r \in 1..n |-> plans[r]] /\ DOMAIN plans = 1..n
      /\ \A r \in 1..n : plans[r] \in Plans
  BY WhereTheSessionIs DEF VotesInv, PlansInv
<1>3. ASSUME session'.roundCount = n, session'.plans = [r \in 1..n |-> session'.plans[r]],
             \A r \in 1..n : session'.plans[r] \in Plans
      PROVE  PlansInv'
  <2> DEFINE after == session'.plans
  <2>1. after = [r \in 1..n |-> after[r]] /\ \A r \in 1..n : after[r] \in Plans
    BY <1>3
  <2> HIDE DEF after
  <2> HIDE DEF n
  <2>2. after \in Seq(Plans) /\ Len(after) = n
    BY <1>2, <2>1, SeqOfAll
  <2> QED
    BY <1>3, <2>2 DEF PlansInv, after
<1>4. CASE VotesKept({}) \/ Voting \/ Leaving
  BY <1>4 DEF Voting, Leaving, VotesKept, VoteFields, VoteUndo, PlansInv
<1>5. CASE Planning
  <2>1. /\ session'.roundCount = n
        /\ session'.plans = [r \in 1..n |-> session'.plans[r]]
        /\ \A r \in 1..n : session'.plans[r] \in Plans
    BY <1>2, <1>5 DEF Planning, PlansInv, VotesKept, VoteFields, VoteUndo
  <2> QED
    BY <1>3, <2>1
<1>6. CASE AddingRound
  <2> DEFINE plan == [levers |-> Last(plans).levers, events |-> <<>>]
  <2>1. session'.plans = Append(plans, plan) /\ session'.roundCount = n + 1
    BY <1>6 DEF AddingRound
  <2>2. Last(plans) = plans[n]
    BY DEF Last, PlansInv
  <2>3. plans[n] \in Plans /\ n \in 1..n
    BY <1>2
  <2>4. plan \in Plans
    BY <2>2, <2>3 DEF Plans
  <2>5. plans \in Seq(Plans) /\ Len(plans) = n
    BY DEF PlansInv
  <2> HIDE DEF plan, plans
  <2>6. Append(plans, plan) \in Seq(Plans) /\ Len(Append(plans, plan)) = n + 1
    BY <2>4, <2>5
  <2> QED
    BY <2>1, <2>6 DEF PlansInv
<1>7. CASE Counting
  <2>1. session'.plans \in {plans, VoteLeverOff(plans, Here.round)} /\ session'.roundCount = n
    BY <1>7 DEF Counting, CountVote, VoteUndo, SessionInv, Sound, IsSession, SessionFields
  <2>2. ASSUME NEW r \in 1..n PROVE [plans[r] EXCEPT !.levers.vote = FALSE] \in Plans
    <3>1. plans[r] \in Plans
      BY <1>2
    <3> DEFINE l == plans[r].levers
               off == [l EXCEPT !.vote = FALSE]
    <3>2. l \in Levers /\ ValidLevers(l) /\ plans[r].events \in Seq(Planned)
      BY <3>1 DEF Plans
    <3>3. off \in Levers /\ off.storage = l.storage /\ off.format = l.format
      BY <3>2 DEF Levers
    <3>4. plans[r] = [levers |-> l, events |-> plans[r].events]
      <4> HIDE DEF plans
      <4> QED
        BY <3>1 DEF Plans
    <3>5. [plans[r] EXCEPT !.levers.vote = FALSE] = [plans[r] EXCEPT !.levers = off]
      OBVIOUS
    <3>6. [plans[r] EXCEPT !.levers.vote = FALSE] = [levers |-> off, events |-> plans[r].events]
      <4> HIDE DEF off, l, plans
      <4> QED
        BY <3>4, <3>5
    <3> HIDE DEF l, off
    <3> QED
      BY <3>2, <3>3, <3>6 DEF Plans, ValidLevers
  <2>3. CASE session'.plans = plans
    BY <1>2, <1>3, <2>1, <2>3
  <2>4. CASE session'.plans = VoteLeverOff(plans, Here.round)
    <3>1. \A r \in 1..n : session'.plans[r] \in {plans[r], [plans[r] EXCEPT !.levers.vote = FALSE]}
      BY <1>2, <2>4 DEF VoteLeverOff
    <3>2. session'.plans = [r \in 1..n |-> session'.plans[r]]
      BY <1>2, <2>4 DEF VoteLeverOff
    <3>3. \A r \in 1..n : session'.plans[r] \in Plans
      BY <1>2, <2>2, <3>1
    <3> QED
      BY <1>3, <2>1, <3>2, <3>3
  <2> QED
    BY <2>1, <2>3, <2>4
<1> QED
  BY <1>1, <1>4, <1>5, <1>6, <1>7 DEF VoteStep

\* Adding a Round reaches no boundary.
LEMMA ReachedStays ==
    ASSUME NEW n \in Nat \ {0}, NEW c \in AllCheckpoints(n), ~RecapOpen(c, n)
    PROVE  Reached(c, n + 1) = Reached(c, n) /\ LockedRounds(c, n + 1) = LockedRounds(c, n)
BY CheckpointKinds DEF Reached, CurrentRound, LockedRounds, RecapOpen, IsInvestment, IsTrading,
   IsRecap, NotStarted, Investment, TradingPeriod, Recap, Finished

\* What has fired stays what the plans of the boundaries reached say, and a step that
\* reaches another fires what its plan, locked by then, says.
LEMMA EventsFiredKept ==
    SessionInv /\ VotesInv /\ PlansInv /\ EventsFiredOnce /\ [Next]_vars => EventsFiredOnce'
<1> SUFFICES ASSUME SessionInv, VotesInv, PlansInv, EventsFiredOnce, [Next]_vars
             PROVE  EventsFiredOnce'
  OBVIOUS
<1> DEFINE n       == session.roundCount
           reached == Reached(Here, n)
           locked  == LockedRounds(Here, n)
           after   == session'.plans
<1>1. n \in Nat \ {0} /\ Here \in AllCheckpoints(n) /\ locked \in 0..n
  BY WhereTheSessionIs, LockedStaysLocked
<1>2. session.firedEvents = FiredFor(session.plans, reached)
  BY Zenon DEF EventsFiredOnce, FiredFor
<1>3. reached \in Seq(BoundariesUpTo(locked)) /\ locked \in Nat
  BY <1>1, ReachedAreLocked DEF BoundariesUpTo
<1>4. \A r \in 1..locked : after[r] = session.plans[r]
  BY LockedPlanKept
<1>5. FiredFor(after, reached) = FiredFor(session.plans, reached)
  <2> HIDE DEF reached, locked, after
  <2> QED
    BY <1>3, <1>4, FiredForSame
<1>6. ASSUME NEW m, m = session'.roundCount,
             session'.firedEvents = FiredFor(after, Reached(Here', m))
      PROVE  EventsFiredOnce'
  BY <1>6, Zenon DEF EventsFiredOnce, FiredFor
<1>7. CASE Moving
  <2> DEFINE next == NextHere
             b == [round |-> next.round, season |-> next.season]
  <2>1. PICK opened : session' = [Advanced(session, next, opened) EXCEPT
                                    !.checkpoint = next, !.phaseTimer = TimerFor(next)]
    BY <1>7 DEF Moving
  <2> DEFINE moved == Advanced(session, next, opened)
  <2>2. Here # Finished /\ next = NextCheckpoint(Here, n) /\ next \in AllCheckpoints(n)
    BY <1>1, <1>7, NextIsACheckpoint DEF Moving, MoveOn, NextHere
  <2>3. moved.firedEvents =
          IF IsInvestment(next) \/ IsTrading(next)
            THEN session.firedEvents \o Firing(moved.plans, next.round, next.season)
            ELSE session.firedEvents
    BY AdvanceFires DEF SessionInv, Sound
  <2>4. moved.roundCount = n
    BY AdvanceKeepsPace DEF SessionInv, Sound, Pace
  <2>5. DOMAIN moved = SessionFields
    <3>1. Touched(session, moved, AdvanceUndo(session, next))
      BY AdvanceTouches DEF SessionInv, Sound
    <3> HIDE DEF moved
    <3> QED
      BY <3>1 DEF Touched, IsSession
  <2> HIDE DEF moved
  <2>6. /\ session' = [moved EXCEPT !.checkpoint = next, !.phaseTimer = TimerFor(next)]
    BY <2>1 DEF moved
  <2>7. /\ session'.firedEvents = moved.firedEvents /\ after = moved.plans
        /\ session'.roundCount = n /\ Here' = next
    BY <2>4, <2>5, <2>6 DEF SessionFields, Here
  <2>8. Reached(next, n) = IF IsInvestment(next) \/ IsTrading(next) THEN Append(reached, b)
                           ELSE reached
    BY <1>1, <2>2, ReachedNext
  <2>9. CASE IsInvestment(next) \/ IsTrading(next)
    <3>1. b \in BoundariesUpTo(n) /\ b.round = next.round /\ b.season = next.season
      BY <2>2, <2>9, NumSeasonsAssumption, CheckpointKinds
      DEF BoundariesUpTo, IsInvestment, IsTrading, NotStarted, Finished, Investment, TradingPeriod,
          Recap, Seasons
    <3>2. reached \in Seq(BoundariesUpTo(n))
      <4>1. BoundariesUpTo(locked) \subseteq BoundariesUpTo(n)
        BY <1>1 DEF BoundariesUpTo
      <4> DEFINE S == BoundariesUpTo(locked)
                 T == BoundariesUpTo(n)
      <4>2. S \subseteq T /\ reached \in Seq(S)
        BY <1>3, <4>1
      <4> HIDE DEF S, T, reached
      <4>3. reached \in Seq(T)
        BY <4>2, SeqOfMore
      <4> QED
        BY <4>3 DEF T
    <3>3. \A r \in 1..n : after[r] \in Plans
      <4>1. PlansInv'
        BY PlansInvKept
      <4> QED
        BY <2>7, <4>1 DEF PlansInv
    <3> HIDE DEF b, reached, after, n
    <3>4. FiredFor(after, Append(reached, b)) =
            FiredFor(after, reached) \o Firing(after, b.round, b.season)
      BY <1>1, <3>1, <3>2, <3>3, FiredForMore
    <3>5. session'.firedEvents = FiredFor(after, Append(reached, b))
      BY <1>2, <1>5, <2>3, <2>7, <2>9, <3>1, <3>4
    <3> QED
      BY <1>6, <2>7, <2>8, <2>9, <3>5
  <2>10. CASE ~(IsInvestment(next) \/ IsTrading(next))
    <3>1. session'.firedEvents = FiredFor(after, reached) /\ Reached(next, n) = reached
      BY <1>2, <1>5, <2>3, <2>7, <2>8, <2>10
    <3> HIDE DEF reached, after, n
    <3> QED
      BY <1>6, <2>7, <3>1
  <2> QED
    BY <2>9, <2>10
<1>8. CASE session'.firedEvents = session.firedEvents /\ Here' = Here
  <2>1. Reached(Here, session'.roundCount) = reached
    <3>1. CASE session'.roundCount = n
      BY <3>1
    <3>2. CASE session'.roundCount # n
      <4>1. AddingRound
        BY <3>2, EveryStepIsAVoteStep
        DEF VoteStep, Voting, Planning, Counting, Leaving, VotesKept, VoteFields, VoteUndo, SessionInv
      <4>2. ~RecapOpen(Here, n) /\ session'.roundCount = n + 1
        BY <4>1 DEF AddingRound
      <4> QED
        BY <1>1, <4>2, ReachedStays
    <3> QED
      BY <3>1, <3>2
  <2> HIDE DEF reached, after
  <2>2. session'.firedEvents = FiredFor(after, reached)
    BY <1>2, <1>5, <1>8
  <2> QED
    BY <1>6, <1>8, <2>1, <2>2
<1> QED
  BY <1>7, <1>8, OnlyMovingFires DEF SessionInv

\* A new session has planned and fired nothing.
LEMMA EventsStart == Init => PlansInv /\ EventsFiredOnce
<1> SUFFICES ASSUME Init PROVE PlansInv /\ EventsFiredOnce
  OBVIOUS
<1>1. /\ session.plans = DefaultPlans(StartRounds)
      /\ session.roundCount = StartRounds
      /\ Here = NotStarted
      /\ session.firedEvents = <<>>
  BY DEF Init, NewSession, Here
<1>2. StartRounds \in Nat \ {0}
  BY SessionAssumption, CatalogAssumption
<1>3. PlansInv
  <2>1. [levers |-> DefaultLevers, events |-> <<>>] \in Plans
    BY DEF Plans, Levers, DefaultLevers, ValidLevers
  <2> DEFINE plan == [levers |-> DefaultLevers, events |-> <<>>]
  <2>2. plan \in Plans
    BY <2>1
  <2>3. session.plans = [r \in 1..StartRounds |-> plan]
    BY <1>1 DEF DefaultPlans
  <2> HIDE DEF plan
  <2>4. session.plans \in Seq(Plans) /\ Len(session.plans) = StartRounds
    BY <1>2, <2>2, <2>3
  <2> QED
    BY <1>1, <2>4 DEF PlansInv
<1>4. EventsFiredOnce
  <2> DEFINE none == Reached(Here, session.roundCount)
  <2>1. none = <<>>
    <3>1. none \in Seq([round: 1..0, season: 0..NumSeasons])
      <4>1. LockedRounds(NotStarted, StartRounds) = 0 /\ NotStarted \in AllCheckpoints(StartRounds)
        BY KindsAreCheckpoints DEF LockedRounds, NotStarted, IsRecap
      <4> QED
        BY <1>1, <1>2, <4>1, ReachedAreLocked
    <3>2. \A i \in 1..Len(none) : none[i] \in [round: 1..0, season: 0..NumSeasons]
      BY <3>1
    <3>3. [round: 1..0, season: 0..NumSeasons] = {}
      OBVIOUS
    <3> HIDE DEF none
    <3>4. Len(none) = 0
      BY <3>1, <3>2, <3>3
    <3> QED
      BY <3>1, <3>4
  <2>2. session.firedEvents = FlattenSeq(<<>>)
    BY <1>1, NothingFlat
  <2> HIDE DEF none
  <2>3. [i \in DOMAIN none |->
           Firing(session.plans, none[i].round, none[i].season)] = <<>>
    BY <2>1
  <2> QED
    BY <2>2, <2>3, Zenon DEF EventsFiredOnce, none
<1> QED
  BY <1>3, <1>4


-----------------------------------------------------------------------------
\* However many Rounds, votes and added Rounds, a Round's vote is counted once and in
\* order, and none is counted after one that passed (carbon_tax_vote.py, _count_vote).
THEOREM AlwaysOneCarbonTax == Spec => []OneCarbonTax
<1>1. SessionInv /\ VotesInv => OneCarbonTax
  BY DEF VotesInv
<1> QED
  BY <1>1, VotesInvHolds, PTL

\* Ballots are always those of the vote held in the Investment phase the session is in:
\* none outlives its phase, whatever was planned, counted or lost meanwhile
\* (cast_vote, _count_vote).
THEOREM BallotsNeverOutliveTheirVote == Spec => []BallotsOnlyDuringVote
<1>1. SessionInv /\ VotesInv => BallotsOnlyDuringVote
  BY DEF VotesInv
<1> QED
  BY <1>1, VotesInvHolds, PTL

\* Once the Recap before a Round has opened, nothing changes the Round's plan: not an
\* edit, a Round added, a vote counted, a failed write or a restart (_editable_plan).
THEOREM LockedPlansStayFrozen == Spec => LockedPlansFrozen
<1>1. SessionInv /\ VotesInv /\ [Next]_vars
        => [\A r \in 1..LockedRounds(Here, session.roundCount) :
              session'.plans[r] = session.plans[r]]_vars
  BY LockedPlanKept
<1> QED
  BY <1>1, VotesInvHolds, PTL DEF Spec, LockedPlansFrozen

\* The events fired are always exactly those that the plans say of the boundaries reached,
\* each once and in the order they are reached in: however many advances failed or were
\* asked for twice, whatever was replanned, and through Rounds added and restarts
\* (_fire_events, round_plan.py).
THEOREM PlannedEventsFireOnce == Spec => []EventsFiredOnce
<1> DEFINE Inv == SessionInv /\ VotesInv /\ PlansInv /\ EventsFiredOnce
<1>1. Init => Inv
  BY SessionStarts, VotesStart, EventsStart
<1>2. Inv /\ [Next]_vars => Inv'
  BY SessionInvKept, VotesInvKept, PlansInvKept, EventsFiredKept
<1>3. Inv => EventsFiredOnce
  OBVIOUS
<1> QED
  BY <1>1, <1>2, <1>3, PTL DEF Spec

-----------------------------------------------------------------------------
(***************************************************************************)
(* What an Investment phase decides: loans, selections and purchases.      *)
(***************************************************************************)

\* The loan after the payments due by the start of Round r.
Paid(loan, r) ==
    IF loan = NoLoan THEN loan ELSE [loan EXCEPT !.made = @ + PaymentsDue(loan, r)]

LoansKept(s, t) ==
    /\ DOMAIN t.players = DOMAIN s.players
    /\ \A p \in DOMAIN s.players : t.players[p].loan = s.players[p].loan

LoansPaid(s, t, r) ==
    /\ DOMAIN t.players = DOMAIN s.players
    /\ \A p \in DOMAIN s.players : t.players[p].loan = Paid(s.players[p].loan, r)

(***************************************************************************)
(* Everything that can happen to loans: at a checkpoint, players join, and *)
(* one may borrow or give the loan back; from one to the next, payments    *)
(* are made.                                                               *)
(***************************************************************************)
LoansStay ==
    \A p \in DOMAIN session'.players :
       LET loan == session'.players[p].loan
       IN  \/ loan = NoLoan
           \/ p \in DOMAIN session.players /\ loan = session.players[p].loan
           \/ /\ IsInvestment(Here)
              /\ Here.round < session.roundCount
              /\ loan = Loan(Here.round)

LoansRest == LoansStay /\ session'.checkpoint = session.checkpoint

LoansTurn ==
    LET c == NextHere
    IN  /\ Here # Finished
        /\ session'.checkpoint = c
        /\ session'.roundCount = session.roundCount
        /\ IF ~IsInvestment(Here) /\ IsInvestment(c) /\ c.round # 1
             THEN LoansPaid(session, session', c.round)
           ELSE IF ~IsInvestment(Here) /\ c = Finished
             THEN LoansPaid(session, session', session.roundCount + 1)
           ELSE LoansKept(session, session')

\* How many payments are due by the start of a Round: one per Round since the loan's.
LEMMA PaymentsByRound ==
    ASSUME NEW loan, loan.round \in Nat, NEW r \in Nat
    PROVE  Cardinality({ i \in 0..LOAN_PAYMENTS - 1 : PaymentRound(loan, i) <= r })
             = IF r <= loan.round THEN 0 ELSE Least(LOAN_PAYMENTS, r - loan.round)
<1> DEFINE due == { i \in 0..LOAN_PAYMENTS - 1 : PaymentRound(loan, i) <= r }
           gap == r - loan.round
<1>1. gap \in Int /\ (r <= loan.round <=> gap <= 0)
  OBVIOUS
<1>2. due = { i \in 0..1 : i < gap }
  BY DEF LOAN_PAYMENTS, PaymentRound
<1>3. /\ Cardinality({}) = 0
      /\ Cardinality(0..0) = 1
      /\ Cardinality(0..1) = 2
  <2>1. Cardinality({}) = 0
    BY FS_EmptySet
  <2>2. \A a, b \in Int : Cardinality(a..b) = IF a > b THEN 0 ELSE b - a + 1
    BY FS_Interval
  <2> DEFINE size(a, b) == Cardinality(a..b)
  <2>3. \A a, b \in Int : size(a, b) = IF a > b THEN 0 ELSE b - a + 1
    BY <2>2
  <2> HIDE DEF size
  <2>4. size(0, 0) = 1 /\ size(0, 1) = 2
    BY <2>3
  <2> QED
    BY <2>1, <2>4 DEF size
<1> HIDE DEF due, gap
<1>4. CASE gap <= 0
  <2>1. due = {}
    BY <1>1, <1>2, <1>4
  <2> QED
    BY <1>1, <1>3, <1>4, <2>1 DEF due
<1>5. CASE gap = 1
  <2>1. due = 0..0
    BY <1>2, <1>5
  <2> QED
    BY <1>1, <1>3, <1>5, <2>1 DEF due, gap, Least, LOAN_PAYMENTS
<1>6. CASE gap > 1
  <2>1. due = 0..1
    BY <1>1, <1>2, <1>6
  <2> QED
    BY <1>1, <1>3, <1>6, <2>1 DEF due, gap, Least, LOAN_PAYMENTS
<1> QED
  BY <1>1, <1>4, <1>5, <1>6

\* A loan not paid off yet, on schedule in Round r, is on schedule by the next.
LEMMA PayingKeepsTheSchedule ==
    ASSUME NEW r \in Nat, NEW round \in 1..r, NEW loan,
           loan = [round |-> round, made |-> Least(LOAN_PAYMENTS, r - round)]
    PROVE  Paid(loan, r + 1) = [round |-> round, made |-> Least(LOAN_PAYMENTS, r + 1 - round)]
<1> DEFINE made == Least(LOAN_PAYMENTS, r - round)
           due  == Least(LOAN_PAYMENTS, r + 1 - round)
<1>1. loan.round = round /\ loan.made = made
  OBVIOUS
<1>2. Cardinality({ i \in 0..LOAN_PAYMENTS - 1 : PaymentRound(loan, i) <= r + 1 }) = due
  BY <1>1, PaymentsByRound
<1>3. PaymentsDue(loan, r + 1) = AtLeastZero(due - made)
  BY <1>1, <1>2 DEF PaymentsDue
<1>4. made + AtLeastZero(due - made) = due
  BY DEF AtLeastZero, Least, LOAN_PAYMENTS
<1>5. loan # NoLoan
  BY <1>1 DEF NoLoan
<1> HIDE DEF made, due
<1>6. [[round |-> round, made |-> made] EXCEPT !.made = @ + AtLeastZero(due - made)]
        = [round |-> round, made |-> made + AtLeastZero(due - made)]
  OBVIOUS
<1>7. loan = [round |-> round, made |-> made]
  BY DEF made
<1>8. Paid(loan, r + 1) = [round |-> round, made |-> made + AtLeastZero(due - made)]
  BY <1>1, <1>3, <1>5, <1>7 DEF Paid
<1> QED
  BY <1>4, <1>8 DEF due

-----------------------------------------------------------------------------
(***************************************************************************)
(* What each operation does to loans.                                      *)
(***************************************************************************)
\* An operation that leaves loans out of what its undo lists leaves them alone.
LEMMA TouchedKeepsLoans ==
    ASSUME NEW s, NEW t, NEW undo, Touched(s, t, undo), "loan" \notin undo
    PROVE  LoansKept(s, t)
BY DEF Touched, PlayerTouched, PlayerFields, LoansKept

\* Payments (_apply_loan_payments).
LEMMA LoanPaymentsPay ==
    ASSUME NEW s, IsSession(s), NEW r
    PROVE  LoansPaid(s, ApplyLoanPayments(s, r), r)
<1> DEFINE due(x) == PaymentsDue(x.loan, r)
           Pay(x) == IF x.loan = NoLoan THEN x
                     ELSE [x EXCEPT !.money = @ - due(x) * LOAN_PAYMENT,
                                    !.loan.made = @ + due(x)]
           roster == [p \in DOMAIN s.players |-> Pay(s.players[p])]
<1>1. ApplyLoanPayments(s, r) = [s EXCEPT !.players = roster]
  BY DEF ApplyLoanPayments, ForEveryPlayer
<1>2. ASSUME NEW x, IsPlayer(x) PROVE Pay(x).loan = Paid(x.loan, r)
  BY <1>2 DEF IsPlayer, PlayerFields, Paid
<1> HIDE DEF Pay
<1>3. /\ DOMAIN roster = DOMAIN s.players
      /\ \A p \in DOMAIN s.players : roster[p].loan = Paid(s.players[p].loan, r)
  BY <1>2 DEF IsSession
<1> HIDE DEF roster
<1>4. [s EXCEPT !.players = roster].players = roster
  BY DEF IsSession, SessionFields
<1> QED
  BY <1>1, <1>3, <1>4 DEF LoansPaid

\* A Round's start pays what is due, then tops up; the first pays nothing
\* (_apply_round_start_money).
LEMMA RoundStartPays ==
    ASSUME NEW s, IsSession(s), NEW r
    PROVE  IF r = 1 THEN LoansKept(s, ApplyRoundStartMoney(s, r))
                    ELSE LoansPaid(s, ApplyRoundStartMoney(s, r), r)
<1> DEFINE paid == ApplyLoanPayments(s, r)
           TopUp(x) == [x EXCEPT !.money = RoundStartMoney(@)]
           roster == [p \in DOMAIN paid.players |-> TopUp(paid.players[p])]
<1>1. ApplyRoundStartMoney(s, r) = IF r = 1 THEN s ELSE [paid EXCEPT !.players = roster]
  BY DEF ApplyRoundStartMoney, ForEveryPlayer
<1>2. IsSession(paid) /\ LoansPaid(s, paid, r)
  BY LoanPaymentsPay, LoanPaymentsTouch, TouchedIsSession
<1>3. ASSUME NEW x, IsPlayer(x) PROVE TopUp(x).loan = x.loan
  BY <1>3 DEF IsPlayer, PlayerFields
<1> HIDE DEF TopUp, paid
<1>4. /\ DOMAIN roster = DOMAIN paid.players
      /\ \A p \in DOMAIN paid.players : roster[p].loan = paid.players[p].loan
  BY <1>2, <1>3 DEF IsSession
<1> HIDE DEF roster
<1>5. [paid EXCEPT !.players = roster].players = roster
  BY <1>2 DEF IsSession, SessionFields
<1> QED
  BY <1>1, <1>2, <1>4, <1>5 DEF LoansPaid, LoansKept

\* Of loans, an advance changes the payments, and only at a Round's start or at the end
\* (advance).
LEMMA AdvancePaysLoans ==
    ASSUME NEW s, IsSession(s), NEW c, NEW opened
    PROVE  IF ~IsInvestment(s.checkpoint) /\ IsInvestment(c) /\ c.round # 1
             THEN LoansPaid(s, Advanced(s, c, opened), c.round)
           ELSE IF ~IsInvestment(s.checkpoint) /\ c = Finished
             THEN LoansPaid(s, Advanced(s, c, opened), s.roundCount + 1)
           ELSE LoansKept(s, Advanced(s, c, opened))
<1> DEFINE retired == ApplyRetirement(s, c.round)
           left    == Left(s, c)
<1>1. \A undo \in {PurchasesUndo, VoteUndo, RetirementUndo, ArrivingUndo(c)} : "loan" \notin undo
  BY DEF PurchasesUndo, VoteUndo, RetirementUndo, ArrivingUndo, ClosingUndo, FiringUndo,
         PricingUndo, GrowthUndo, BlackoutUndo, EventsUndo, FuelMarketUndo, UnlocksUndo
<1>2. LoansKept(left, Advanced(s, c, opened))
  BY <1>1, AdvanceLeavesAndArrives, TouchedKeepsLoans
<1>3. CASE IsInvestment(s.checkpoint)
  <2>1. "loan" \notin LeavingUndo(s, c)
    BY <1>1, <1>3 DEF LeavingUndo
  <2>2. LoansKept(s, left)
    BY <2>1, LeavingTouches, TouchedKeepsLoans
  <2> QED
    BY <1>2, <1>3, <2>2 DEF LoansKept
<1>4. CASE ~IsInvestment(s.checkpoint) /\ IsInvestment(c)
  <2>1. IsSession(retired) /\ LoansKept(s, retired)
    BY <1>1, RetirementTouches, TouchedIsSession, TouchedKeepsLoans
  <2> HIDE DEF retired
  <2>2. left = ApplyRoundStartMoney(retired, c.round)
    BY <1>4 DEF Left, retired
  <2>3. IF c.round = 1 THEN LoansKept(retired, left) ELSE LoansPaid(retired, left, c.round)
    BY <2>1, <2>2, RoundStartPays
  <2>4. c # Finished
    BY <1>4 DEF Finished, IsInvestment
  <2> HIDE DEF left
  <2> QED
    BY <1>2, <1>4, <2>1, <2>3, <2>4 DEF LoansKept, LoansPaid
<1>5. CASE ~IsInvestment(s.checkpoint) /\ ~IsInvestment(c) /\ c = Finished
  <2>1. LoansPaid(s, left, s.roundCount + 1)
    BY <1>5, LoanPaymentsPay DEF Left
  <2> HIDE DEF left
  <2> QED
    BY <1>2, <1>5, <2>1 DEF LoansKept, LoansPaid
<1>6. CASE ~IsInvestment(s.checkpoint) /\ ~IsInvestment(c) /\ c # Finished
  BY <1>2, <1>6 DEF Left, LoansKept
<1> QED
  BY <1>3, <1>4, <1>5, <1>6

\* The advance as a whole.
LEMMA MovingPaysLoans ==
    ASSUME Sound, Moving
    PROVE  LoansTurn
<1>1. PICK opened : session' = [Advanced(session, NextHere, opened) EXCEPT
                                  !.checkpoint = NextHere, !.phaseTimer = TimerFor(NextHere)]
  BY DEF Moving
<1> DEFINE applied == Advanced(session, NextHere, opened)
<1>2. IsSession(applied)
  BY AdvanceTouches, TouchedIsSession DEF Sound
<1>3. applied.roundCount = session.roundCount
  BY AdvanceKeepsPace DEF Sound, Pace
<1>4. IF ~IsInvestment(Here) /\ IsInvestment(NextHere) /\ NextHere.round # 1
        THEN LoansPaid(session, applied, NextHere.round)
      ELSE IF ~IsInvestment(Here) /\ NextHere = Finished
        THEN LoansPaid(session, applied, session.roundCount + 1)
      ELSE LoansKept(session, applied)
  BY AdvancePaysLoans DEF Sound, Here
<1> HIDE DEF applied
<1>5. /\ session'.checkpoint = NextHere
      /\ session'.roundCount = session.roundCount
      /\ session'.players = applied.players
  BY <1>1, <1>2, <1>3 DEF IsSession, SessionFields, applied
<1>6. Here # Finished
  BY DEF Moving, MoveOn
<1> QED
  BY <1>4, <1>5, <1>6 DEF LoansTurn, LoansPaid, LoansKept

\* Of what players do, borrowing alone adds a loan, and only before the last Round
\* (take_loan, cancel_loan).
LEMMA PlayersBorrow ==
    ASSUME Sound, NEW p \in Players, PlayerChange(p)
    PROVE  LoansRest
<1> DEFINE x == session.players[p]
<1>1. ASSUME NEW y, Becomes(p, y),
             \/ y.loan \in {x.loan, NoLoan}
             \/ IsInvestment(Here) /\ Here.round < session.roundCount /\ y.loan = Loan(Here.round)
      PROVE  LoansRest
  <2>1. /\ session'.players = [session.players EXCEPT ![p] = y]
        /\ session'.checkpoint = session.checkpoint
    BY <1>1 DEF Becomes, Sound, IsSession, SessionFields
  <2> QED
    BY <1>1, <2>1 DEF LoansRest, LoansStay, Players
<1>2. CASE TakeLoan(p) /\ Becomes(p, [x EXCEPT !.loan = Loan(RoundNow(session)),
                                               !.money = @ + LOAN_AMOUNT])
  <2>1. IsInvestment(Here) /\ RoundNow(session) < session.roundCount
    BY <1>2 DEF TakeLoan, InvestmentOpen
  <2>2. RoundNow(session) = Here.round
    BY <2>1 DEF RoundNow, CurrentRound, IsInvestment, Here
  <2> DEFINE y == [x EXCEPT !.loan = Loan(RoundNow(session)), !.money = @ + LOAN_AMOUNT]
  <2>3. y.loan = Loan(Here.round)
    BY <2>2 DEF Sound, IsSession, IsPlayer, PlayerFields, Players
  <2> HIDE DEF y
  <2> QED
    BY <1>1, <1>2, <2>1, <2>2, <2>3 DEF y
<1>3. CASE \E y : Becomes(p, y) /\ y.loan \in {x.loan, NoLoan}
  BY <1>1, <1>3
<1> QED
  <2>1. IsPlayer(x)
    BY DEF Sound, IsSession, Players
  <2>2. /\ \A value : [x EXCEPT !.selection = value].loan = x.loan
        /\ \A value : [x EXCEPT !.prices = value].loan = x.loan
        /\ \A value : [x EXCEPT !.fuelOrder = value].loan = x.loan
        /\ \A value : [x EXCEPT !.loan = NoLoan, !.money = value].loan = NoLoan
    BY <2>1 DEF IsPlayer, PlayerFields
  <2> QED
    BY <1>2, <1>3, <2>2 DEF PlayerChange

\* Whatever happens, loans change in one of these ways.
LEMMA EveryStepOfLoans == Sound /\ [Next]_vars => LoansRest \/ LoansTurn
<1> SUFFICES ASSUME Sound, session' = session \/ Change PROVE LoansRest \/ LoansTurn
  BY EveryChange
<1>1. ASSUME NEW after, NEW undo, Touched(session, after, undo), "loan" \notin undo,
             "checkpoint" \notin undo, session' = after
      PROVE  LoansRest
  <2>1. after.checkpoint = session.checkpoint
    BY <1>1 DEF Touched, SessionFields
  <2> QED
    BY <1>1, <2>1, TouchedKeepsLoans DEF LoansKept, LoansStay, LoansRest
<1>2. CASE session' = session
  BY <1>2 DEF LoansStay, LoansRest
<1>3. CASE \E p \in Players : PlayerChange(p)
  BY <1>3, PlayersBorrow
<1>4. CASE SideChange
  <2>0. PICK f \in SideFields : \E value : session' = [session EXCEPT ![f] = value]
    BY <1>4 DEF SideChange
  <2>1. PICK value : session' = [session EXCEPT ![f] = value]
    BY <2>0
  <2>2. Touched(session, [session EXCEPT ![f] = value], {f})
    BY FieldTouched DEF Sound, SideFields, SessionFields
  <2>3. "loan" \notin {f} /\ "checkpoint" \notin {f}
    BY DEF SideFields
  <2> QED
    BY <1>1, <2>1, <2>2, <2>3
<1>5. CASE AddRound /\ session' = AddedRound(session)
  BY <1>1, <1>5, AddingTouches DEF Sound
<1>6. CASE Joining
  <2>1. PICK p : session' = [session EXCEPT !.players = With(@, p, NewPlayer)]
    BY <1>6 DEF Joining
  <2>2. /\ session'.players = With(session.players, p, NewPlayer)
        /\ session'.checkpoint = session.checkpoint
    BY <2>1 DEF Sound, IsSession, SessionFields
  <2>3. NewPlayer.loan = NoLoan
    BY DEF NewPlayer
  <2> QED
    BY <2>2, <2>3 DEF LoansStay, LoansRest, With
<1>7. CASE Buying
  BY <1>1, <1>7, PurchasesTouch DEF Sound, Buying, PurchasesUndo
<1>8. CASE Moving
  BY <1>8, MovingPaysLoans
<1>9. CASE Finishing
  BY <1>1, <1>9, SettledTouches DEF Sound, Finishing, SettleUndo
<1> QED
  BY <1>2, <1>3, <1>4, <1>5, <1>6, <1>7, <1>8, <1>9 DEF Change

-----------------------------------------------------------------------------
(***************************************************************************)
(* The inductive invariant: no loan is taken in the last Round, so that    *)
(* both payments find a Round's start or the session's end to be made at.  *)
(***************************************************************************)
OnSchedule(loan, c, n) ==
    \E r \in 1..(n - 1) :
       /\ c # NotStarted
       /\ r <= CurrentRound(c, n)
       /\ loan = [round |-> r,
                  made  |-> IF c = Finished THEN LOAN_PAYMENTS
                            ELSE Least(LOAN_PAYMENTS, CurrentRound(c, n) - r)]

LoanInv ==
    \A p \in Players :
       LET loan == session.players[p].loan
       IN  loan = NoLoan \/ OnSchedule(loan, Here, session.roundCount)

\* A loan just taken is on schedule.
LEMMA BorrowingIsOnSchedule ==
    ASSUME NEW n \in Nat, NEW c \in AllCheckpoints(n), IsInvestment(c), c.round < n
    PROVE  OnSchedule(Loan(c.round), c, n)
<1>1. PICK r \in 1..n : c = Investment(r)
  BY CheckpointKinds DEF IsInvestment, NotStarted, TradingPeriod, Recap, Finished
<1>2. /\ r \in 1..(n - 1)
      /\ CurrentRound(c, n) = r
      /\ c # NotStarted
      /\ c # Finished
  BY <1>1 DEF Investment, CurrentRound, NotStarted, Finished
<1>3. Loan(c.round) = [round |-> r, made |-> Least(LOAN_PAYMENTS, r - r)]
  BY <1>1 DEF Loan, Investment, Least, LOAN_PAYMENTS
<1> QED
  BY <1>2, <1>3 DEF OnSchedule

\* A Round added leaves every loan on schedule.
LEMMA MoreRoundsKeepTheSchedule ==
    ASSUME NEW n \in Nat, NEW c, c # Finished, c.kind # "Finished", NEW loan,
           OnSchedule(loan, c, n)
    PROVE  OnSchedule(loan, c, n + 1)
<1>1. CurrentRound(c, n + 1) = CurrentRound(c, n)
  BY DEF CurrentRound
<1>2. 1..(n - 1) \subseteq 1..(n + 1 - 1)
  OBVIOUS
<1> QED
  BY <1>1, <1>2 DEF OnSchedule

\* A loan on schedule at a checkpoint is so at the next, once what an advance to there
\* pays is paid.
LEMMA AdvancingKeepsTheSchedule ==
    ASSUME NEW n \in Nat \ {0}, NEW c \in AllCheckpoints(n), c # Finished,
           NEW loan, OnSchedule(loan, c, n), NEW d, d = NextCheckpoint(c, n)
    PROVE  OnSchedule(IF ~IsInvestment(c) /\ IsInvestment(d) /\ d.round # 1 THEN Paid(loan, d.round)
                      ELSE IF ~IsInvestment(c) /\ d = Finished THEN Paid(loan, n + 1)
                      ELSE loan, d, n)
<1>1. PICK r \in 1..(n - 1) :
        /\ c # NotStarted
        /\ r <= CurrentRound(c, n)
        /\ loan = [round |-> r, made |-> Least(LOAN_PAYMENTS, CurrentRound(c, n) - r)]
  BY DEF OnSchedule
<1> USE DEF NextCheckpoint, IsInvestment, IsTrading, IsRecap
<1>2. CASE \E q \in 1..n : c = Investment(q)
  <2>1. PICK q \in 1..n : c = Investment(q)
    BY <1>2
  <2>2. d = TradingPeriod(q, 1) /\ IsInvestment(c)
    BY <2>1 DEF Investment
  <2>3. CurrentRound(c, n) = q /\ CurrentRound(d, n) = q /\ d # NotStarted /\ d # Finished
    BY <2>1, <2>2 DEF Investment, TradingPeriod, CurrentRound, NotStarted, Finished
  <2> QED
    BY <1>1, <2>2, <2>3 DEF OnSchedule
<1>3. CASE \E q \in 1..n, s \in Seasons : c = TradingPeriod(q, s)
  <2>1. PICK q \in 1..n, s \in Seasons : c = TradingPeriod(q, s)
    BY <1>3
  <2>2. d = IF s < NumSeasons THEN TradingPeriod(q, s + 1) ELSE Recap(q)
    BY <2>1 DEF TradingPeriod
  <2>3. /\ CurrentRound(c, n) = q
        /\ CurrentRound(d, n) = q
        /\ d # NotStarted
        /\ d # Finished
        /\ ~IsInvestment(d)
    BY <2>1, <2>2 DEF TradingPeriod, Recap, CurrentRound, NotStarted, Finished
  <2> QED
    BY <1>1, <2>3 DEF OnSchedule
<1>4. CASE \E q \in 1..n : c = Recap(q)
  <2>1. PICK q \in 1..n : c = Recap(q)
    BY <1>4
  <2>2. CurrentRound(c, n) = q /\ ~IsInvestment(c)
    BY <2>1 DEF Recap, CurrentRound
  <2>3. Paid(loan, q + 1) = [round |-> r, made |-> Least(LOAN_PAYMENTS, q + 1 - r)]
    <3>1. r \in 1..q /\ q \in Nat
      BY <1>1, <2>2
    <3> QED
      BY <1>1, <2>2, <3>1, PayingKeepsTheSchedule
  <2>4. CASE q < n
    <3>1. d = Investment(q + 1) /\ q + 1 # 1
      BY <2>1, <2>4 DEF Recap
    <3>2. /\ IsInvestment(d)
          /\ d.round = q + 1
          /\ CurrentRound(d, n) = q + 1
          /\ d # NotStarted
          /\ d # Finished
      BY <3>1 DEF Investment, CurrentRound, NotStarted, Finished
    <3>3. r <= q + 1
      BY <1>1, <2>2
    <3> QED
      BY <2>2, <2>3, <3>1, <3>2, <3>3 DEF OnSchedule
  <2>5. CASE ~(q < n)
    <3>1. d = Finished /\ q = n
      BY <2>1, <2>5 DEF Recap
    <3>2. /\ ~IsInvestment(d)
          /\ CurrentRound(d, n) = n
          /\ d # NotStarted
      BY <3>1 DEF Finished, CurrentRound, NotStarted
    <3>3. Least(LOAN_PAYMENTS, n + 1 - r) = LOAN_PAYMENTS /\ r <= n
      BY DEF Least, LOAN_PAYMENTS
    <3> QED
      BY <2>2, <2>3, <3>1, <3>2, <3>3 DEF OnSchedule
  <2> QED
    BY <2>4, <2>5
<1> QED
  BY <1>1, <1>2, <1>3, <1>4, CheckpointKinds

\* The invariant is inductive.
LEMMA LoanInvKept == SessionInv /\ LoanInv /\ [Next]_vars => LoanInv'
<1> SUFFICES ASSUME SessionInv, LoanInv, [Next]_vars, NEW p \in DOMAIN session'.players,
                    session'.players[p].loan # NoLoan
             PROVE  OnSchedule(session'.players[p].loan, Here', session'.roundCount)
  BY DEF LoanInv, Players
<1> DEFINE n    == session.roundCount
           loan == session'.players[p].loan
<1>1. n \in Nat \ {0} /\ Here \in AllCheckpoints(n)
  BY WhereTheSessionIs
<1>2. LoansRest \/ LoansTurn
  BY EveryStepOfLoans DEF SessionInv
<1>3. CASE LoansRest
  <2>1. OnSchedule(loan, Here, n)
    <3>1. CASE p \in DOMAIN session.players /\ loan = session.players[p].loan
      BY <3>1 DEF LoanInv, Players
    <3>2. CASE IsInvestment(Here) /\ Here.round < n /\ loan = Loan(Here.round)
      BY <1>1, <3>2, BorrowingIsOnSchedule
    <3> QED
      BY <1>3, <3>1, <3>2 DEF LoansRest, LoansStay
  <2>2. Here' = Here
    BY <1>3 DEF LoansRest, Here
  <2>3. \/ session'.roundCount = n
        \/ session'.roundCount = n + 1 /\ Here.kind # "Finished" /\ Here # Finished
    <3>1. Still \/ PhaseStep \/ TimersStep \/ Lengthening \/ Turn \/ Settling
      BY EveryStep DEF SessionInv, PaceInv
    <3>2. CASE Lengthening
      BY <3>2 DEF Lengthening, RecapOpen, IsRecap, Finished
    <3> QED
      BY <3>1, <3>2
      DEF Still, PaceKept, PhaseStep, TimersStep, Turn, Settling, KeptBut, Pace
  <2> QED
    BY <1>1, <2>1, <2>2, <2>3, MoreRoundsKeepTheSchedule
<1>4. CASE LoansTurn
  <2> DEFINE before == session.players[p].loan
             c == Here
             d == NextHere
  <2>1. /\ p \in DOMAIN session.players
        /\ loan = IF ~IsInvestment(c) /\ IsInvestment(d) /\ d.round # 1 THEN Paid(before, d.round)
                  ELSE IF ~IsInvestment(c) /\ d = Finished THEN Paid(before, n + 1)
                  ELSE before
    BY <1>4 DEF LoansTurn, LoansPaid, LoansKept
  <2>2. before # NoLoan
    BY <2>1 DEF Paid
  <2>3. OnSchedule(before, c, n)
    BY <2>1, <2>2 DEF LoanInv, Players
  <2>4. Here' = d /\ session'.roundCount = n /\ c # Finished /\ d = NextCheckpoint(c, n)
    BY <1>4 DEF LoansTurn, Here, NextHere
  <2> HIDE DEF c, d, loan, before
  <2>5. c \in AllCheckpoints(n)
    BY <1>1 DEF c
  <2> QED
    BY <1>1, <2>1, <2>3, <2>4, <2>5, AdvancingKeepsTheSchedule DEF loan
<1> QED
  BY <1>2, <1>3, <1>4

\* The invariant always holds.
LEMMA LoanInvHolds == Spec => [](SessionInv /\ LoanInv)
<1>1. Init => LoanInv
  BY DEF Init, NewSession, LoanInv, Players, Nobody
<1>2. SessionInv /\ LoanInv /\ [Next]_vars => (SessionInv /\ LoanInv)'
  BY SessionInvKept, LoanInvKept
<1> QED
  BY <1>1, <1>2, SessionStarts, PTL DEF Spec

\* At a Recap, a loan on schedule has one payment to be told of, or none, and it is the
\* one the next advance takes.
LEMMA OnePaymentTold ==
    ASSUME NEW n \in Nat, NEW q \in 1..n, NEW r \in 1..(n - 1), r <= q, NEW loan,
           loan = [round |-> r, made |-> Least(LOAN_PAYMENTS, q - r)]
    PROVE  loan.made + Cardinality(paymentAfterRecap(LoanPaymentsOut(loan, n), q, n))
             = Least(LOAN_PAYMENTS, q + 1 - r)
<1> DEFINE out  == LoanPaymentsOut(loan, n)
           made == Least(LOAN_PAYMENTS, q - r)
           told == paymentAfterRecap(out, q, n)
<1>1. loan.round = r /\ loan.made = made /\ loan # NoLoan
  BY DEF NoLoan
<1>2. out = [i \in 1..2 |-> [round |-> IF r + i <= n THEN r + i ELSE 0, paid |-> i - 1 < made]]
  <2>1. \A i \in 1..2 : PaymentRound(loan, i - 1) = r + i
    BY <1>1 DEF PaymentRound
  <2> HIDE DEF made
  <2> QED
    BY <1>1, <2>1 DEF LoanPaymentsOut, LOAN_PAYMENTS, SessionEnd
<1>3. \A i \in 1..2 : /\ out[i].round = IF r + i <= n THEN r + i ELSE 0
                      /\ out[i].paid = (i - 1 < made)
  <2> DEFINE Round(i) == IF r + i <= n THEN r + i ELSE 0
             IsPaid(i) == i - 1 < made
  <2>1. out = [i \in 1..2 |-> [round |-> Round(i), paid |-> IsPaid(i)]]
    BY <1>2
  <2> HIDE DEF out, Round, IsPaid
  <2>2. \A i \in 1..2 : out[i].round = Round(i) /\ out[i].paid = IsPaid(i)
    BY <2>1
  <2>3. \A i \in 1..2 : out[i].round = IF r + i <= n THEN r + i ELSE 0
    BY <2>2 DEF Round
  <2>4. \A i \in 1..2 : out[i].paid = (i - 1 < made)
    BY <2>2, Zenon DEF IsPaid
  <2> QED
    BY <2>3, <2>4
<1>4. told = { i \in 1..2 : i - 1 >= made /\ out[i].round = IF q < n THEN q + 1 ELSE 0 }
  <2>1. DOMAIN out = 1..2
    BY <1>2
  <2>2. made \in Nat
    BY DEF Least, LOAN_PAYMENTS
  <2> HIDE DEF out, made
  <2>3. \A i \in 1..2 : ~out[i].paid <=> ~(i - 1 < made)
    BY <1>3, Zenon
  <2>4. told = { i \in 1..2 : ~(i - 1 < made) /\ out[i].round = IF q < n THEN q + 1 ELSE 0 }
    BY <2>1, <2>3 DEF paymentAfterRecap, SessionEnd
  <2> QED
    BY <2>2, <2>4
<1> HIDE DEF out, told
<1>5. Cardinality({}) = 0 /\ \A x : Cardinality({x}) = 1
  BY FS_EmptySet, FS_Singleton
<1>6. CASE q - r >= 2
  <2>1. made = 2
    BY <1>6 DEF Least, LOAN_PAYMENTS
  <2>2. told = {}
    BY <1>4, <2>1
  <2>3. Least(LOAN_PAYMENTS, q + 1 - r) = 2
    BY <1>6 DEF Least, LOAN_PAYMENTS
  <2> QED
    BY <1>1, <1>5, <2>1, <2>2, <2>3 DEF told, out
<1>7. CASE q - r < 2
  <2>1. made = q - r
    BY <1>7 DEF Least, LOAN_PAYMENTS
  <2>2. told = {q + 1 - r}
    <3>1. \A i \in 1..2 :
            (i - 1 >= made /\ out[i].round = IF q < n THEN q + 1 ELSE 0) <=> i = q + 1 - r
      BY <1>3, <1>7, <2>1
    <3>2. q + 1 - r \in 1..2
      BY <1>7
    <3> QED
      BY <1>4, <3>1, <3>2
  <2>3. Least(LOAN_PAYMENTS, q + 1 - r) = q - r + 1
    BY <1>7 DEF Least, LOAN_PAYMENTS
  <2> QED
    BY <1>1, <1>5, <2>1, <2>2, <2>3 DEF told, out
<1> QED
  BY <1>6, <1>7

-----------------------------------------------------------------------------
\* Whenever a loan was taken, and however many Rounds were added, advances failed and
\* restarts happened since, just the payments due by the Round the session is in are made
\* (_apply_loan_payments).
THEOREM LoanAlwaysOnSchedule == Spec => []LoanOnSchedule
<1>1. LoanInv => LoanOnSchedule
  <2> SUFFICES ASSUME LoanInv, NEW p \in Players, session.players[p].loan # NoLoan
               PROVE  session.players[p].loan.made =
                        IF Here = Finished THEN LOAN_PAYMENTS
                        ELSE Least(LOAN_PAYMENTS, RoundNow(session) - session.players[p].loan.round)
    BY DEF LoanOnSchedule
  <2>1. OnSchedule(session.players[p].loan, Here, session.roundCount)
    BY DEF LoanInv
  <2>2. RoundNow(session) = CurrentRound(Here, session.roundCount)
    BY DEF RoundNow, Here
  <2> QED
    BY <2>1, <2>2 DEF OnSchedule
<1> QED
  BY <1>1, LoanInvHolds, PTL

\* The payment a Recap's page tells of is the one the next advance takes, at the next
\* Round's start or at the session's end (paymentAfterRecap, _apply_loan_payments).
THEOREM RecapAlwaysTellsPayment == Spec => RecapTellsPayment
<1>1. SessionInv /\ LoanInv /\ [Next]_vars
        => [\A p \in Players \cap DOMAIN session'.players :
              LET loan == session.players[p].loan
                  told == paymentAfterRecap(LoanPaymentsOut(loan, session.roundCount), Here.round,
                                            session.roundCount)
              IN  IsRecap(Here) /\ Here' # Here =>
                    session'.players[p].loan.made = loan.made + Cardinality(told)]_vars
  <2> DEFINE n       == session.roundCount
             loan(p) == session.players[p].loan
             told(p) == paymentAfterRecap(LoanPaymentsOut(loan(p), n), Here.round, n)
  <2> SUFFICES ASSUME SessionInv, LoanInv, [Next]_vars, NEW p \in DOMAIN session.players,
                      IsRecap(Here), Here' # Here
               PROVE  session'.players[p].loan.made = loan(p).made + Cardinality(told(p))
    BY DEF Players
  <2>1. n \in Nat \ {0} /\ Here \in AllCheckpoints(n)
    BY WhereTheSessionIs
  <2>2. LoansTurn
    BY EveryStepOfLoans DEF SessionInv, LoansRest, Here
  <2>3. PICK q \in 1..n : Here = Recap(q)
    BY <2>1, CheckpointKinds
    DEF IsRecap, NotStarted, Investment, TradingPeriod, Finished
  <2>4. Here.round = q /\ ~IsInvestment(Here) /\ CurrentRound(Here, n) = q /\ Here # Finished
    BY <2>3 DEF Recap, IsInvestment, CurrentRound, Finished
  <2>5. session'.players[p].loan = Paid(loan(p), q + 1)
    <3>1. NextHere = IF q < n THEN Investment(q + 1) ELSE Finished
      BY <2>3 DEF NextHere, NextCheckpoint, Recap, IsInvestment, IsTrading, IsRecap
    <3>2. CASE q < n
      <4>1. IsInvestment(NextHere) /\ NextHere.round = q + 1 /\ q + 1 # 1
        BY <3>1, <3>2 DEF Investment, IsInvestment
      <4> QED
        BY <2>2, <2>4, <4>1 DEF LoansTurn, LoansPaid
    <3>3. CASE ~(q < n)
      <4>1. NextHere = Finished /\ ~IsInvestment(NextHere) /\ q = n
        BY <2>1, <3>1, <3>3 DEF Finished, IsInvestment
      <4> QED
        BY <2>2, <2>4, <4>1 DEF LoansTurn, LoansPaid
    <3> QED
      BY <3>2, <3>3
  <2>6. CASE loan(p) = NoLoan
    <3>1. told(p) = {}
      BY <2>6 DEF LoanPaymentsOut, paymentAfterRecap
    <3>2. Cardinality(told(p)) = 0
      BY <3>1, FS_EmptySet
    <3>3. session'.players[p].loan = NoLoan
      BY <2>5, <2>6 DEF Paid
    <3> HIDE DEF told
    <3>4. session'.players[p].loan.made = 0 /\ loan(p).made = 0
      BY <2>6, <3>3 DEF NoLoan
    <3> QED
      BY <3>2, <3>4
  <2>7. CASE loan(p) # NoLoan
    <3>1. OnSchedule(loan(p), Here, n)
      BY <2>7 DEF LoanInv, Players
    <3>2. PICK r \in 1..(n - 1) :
            r <= q /\ loan(p) = [round |-> r, made |-> Least(LOAN_PAYMENTS, q - r)]
      BY <2>4, <3>1 DEF OnSchedule
    <3>3. Paid(loan(p), q + 1) = [round |-> r, made |-> Least(LOAN_PAYMENTS, q + 1 - r)]
      BY <3>2, PayingKeepsTheSchedule
    <3>4. loan(p).made + Cardinality(told(p)) = Least(LOAN_PAYMENTS, q + 1 - r)
      BY <2>1, <2>4, <3>2, OnePaymentTold
    <3> QED
      BY <2>5, <3>3, <3>4
  <2> QED
    BY <2>6, <2>7
<1> QED
  BY <1>1, LoanInvHolds, PTL DEF Spec, RecapTellsPayment

-----------------------------------------------------------------------------
(***************************************************************************)
(* Everything that can happen to fleets: what players own, what they have  *)
(* selected and what is stored.  x is a player before, y after.            *)
(***************************************************************************)
FleetFields == {"owned", "selection", "stored"}

SameFleet(x, y) == \A k \in FleetFields : y[k] = x[k]

Bought(x, y, r) ==
    /\ y.owned = [f \in Facilities |-> [x.owned[f] EXCEPT ![r] = @ + x.selection[f]]]
    /\ y.selection = NothingSelected
    /\ y.stored = KeepWhatFits(x.stored, y.owned, r)

WornOut(x, y, r) ==
    /\ y.owned = Retired(x.owned, r)
    /\ y.selection = x.selection
    /\ y.stored = x.stored

Selecting(x, y) ==
    /\ IsInvestment(Here)
    /\ y.owned = x.owned
    /\ y.stored = x.stored
    /\ \E f \in Facilities :
          \/ /\ f \in OfferedFacilities(session)
             /\ y.selection = [x.selection EXCEPT ![f] = @ + 1]
          \/ /\ x.selection[f] > 0
             /\ y.selection = [x.selection EXCEPT ![f] = @ - 1]

FleetsRest ==
    /\ session'.checkpoint = session.checkpoint
    /\ \A p \in DOMAIN session'.players :
          LET x == session.players[p]
              y == session'.players[p]
          IN  \/ p \notin Players /\ y = NewPlayer
              \/ p \in Players /\ (SameFleet(x, y) \/ Selecting(x, y))
              \/ p \in Players /\ IsInvestment(Here) /\ Bought(x, y, Here.round)

FleetsMoved(s, t, c) ==
    /\ DOMAIN t.players = DOMAIN s.players
    /\ \A p \in DOMAIN s.players :
          LET x == s.players[p]
              y == t.players[p]
          IN  IF IsInvestment(s.checkpoint) THEN Bought(x, y, s.checkpoint.round)
              ELSE IF IsInvestment(c) THEN WornOut(x, y, c.round)
              ELSE SameFleet(x, y)

FleetsTurn ==
    /\ Here # Finished
    /\ session'.checkpoint = NextHere
    /\ session'.roundCount = session.roundCount
    /\ FleetsMoved(session, session', NextHere)

\* Players keep what an undo does not list.
LEMMA TouchedKeepsFields ==
    ASSUME NEW s, NEW t, NEW undo, Touched(s, t, undo),
           NEW kept \in SUBSET PlayerFields, kept \cap undo = {}
    PROVE  /\ DOMAIN t.players = DOMAIN s.players
           /\ \A p \in DOMAIN s.players : \A k \in kept : t.players[p][k] = s.players[p][k]
BY DEF Touched, PlayerTouched

\* The purchase at an Investment phase's end (_apply_purchases).
LEMMA PurchasesBuy ==
    ASSUME NEW s, IsSession(s), NEW r
    PROVE  /\ DOMAIN ApplyPurchases(s, r).players = DOMAIN s.players
           /\ \A p \in DOMAIN s.players :
                 Bought(s.players[p], ApplyPurchases(s, r).players[p], r)
<1> DEFINE price == FacilityPrices(s, r)
           owned(x) == [f \in Facilities |-> [x.owned[f] EXCEPT ![r] = @ + x.selection[f]]]
           Buy(x) == [x EXCEPT
                 !.money = @ - SelectionCost(x.selection, price),
                 !.owned = owned(x),
                 !.purchases = [f \in Facilities |->
                        [x.purchases[f] EXCEPT ![r] = @ + x.selection[f] * price[f]]],
                 !.selection = NothingSelected,
                 !.stored = KeepWhatFits(@, owned(x), r)]
           roster == [p \in DOMAIN s.players |-> Buy(s.players[p])]
<1>1. ApplyPurchases(s, r) = [s EXCEPT !.players = roster]
  BY DEF ApplyPurchases, ForEveryPlayer
<1>2. ASSUME NEW x, IsPlayer(x) PROVE Bought(x, Buy(x), r)
  <2> HIDE DEF owned
  <2>1. /\ Buy(x).owned = owned(x)
        /\ Buy(x).selection = NothingSelected
        /\ Buy(x).stored = KeepWhatFits(x.stored, owned(x), r)
    BY <1>2 DEF IsPlayer, PlayerFields
  <2> HIDE DEF Buy
  <2> QED
    BY <2>1 DEF Bought, owned
<1> HIDE DEF Buy
<1>3. /\ DOMAIN roster = DOMAIN s.players
      /\ \A p \in DOMAIN s.players : Bought(s.players[p], roster[p], r)
  BY <1>2 DEF IsSession
<1> HIDE DEF roster
<1>4. [s EXCEPT !.players = roster].players = roster
  BY DEF IsSession, SessionFields
<1> QED
  BY <1>1, <1>3, <1>4

\* Facilities retire at a Round's start (_apply_retirement).
LEMMA RetirementWearsOut ==
    ASSUME NEW s, IsSession(s), NEW r
    PROVE  /\ DOMAIN ApplyRetirement(s, r).players = DOMAIN s.players
           /\ \A p \in DOMAIN s.players :
                 WornOut(s.players[p], ApplyRetirement(s, r).players[p], r)
<1> DEFINE Retire(x) == [x EXCEPT !.owned = Retired(@, r)]
           roster == [p \in DOMAIN s.players |-> Retire(s.players[p])]
<1>1. ApplyRetirement(s, r) = [s EXCEPT !.players = roster]
  BY DEF ApplyRetirement, ForEveryPlayer
<1>2. ASSUME NEW x, IsPlayer(x) PROVE WornOut(x, Retire(x), r)
  BY <1>2 DEF IsPlayer, PlayerFields, WornOut
<1> HIDE DEF Retire
<1>3. /\ DOMAIN roster = DOMAIN s.players
      /\ \A p \in DOMAIN s.players : WornOut(s.players[p], roster[p], r)
  BY <1>2 DEF IsSession
<1> HIDE DEF roster
<1>4. [s EXCEPT !.players = roster].players = roster
  BY DEF IsSession, SessionFields
<1> QED
  BY <1>1, <1>3, <1>4

\* Of fleets, an advance changes what is bought at an Investment phase's end and what
\* retires at its start (advance).
LEMMA AdvanceMovesFleets ==
    ASSUME NEW s, IsSession(s), NEW c, NEW opened
    PROVE  FleetsMoved(s, Advanced(s, c, opened), c)
<1> DEFINE left == Left(s, c)
           t    == Advanced(s, c, opened)
<1>1. FleetFields \in SUBSET PlayerFields
  BY DEF FleetFields, PlayerFields
<1>2. \A undo \in {VoteUndo, LoanUndo, ArrivingUndo(c)} : FleetFields \cap undo = {}
  BY DEF FleetFields, VoteUndo, LoanUndo, ArrivingUndo, ClosingUndo, FiringUndo, PricingUndo,
         GrowthUndo, BlackoutUndo, EventsUndo, FuelMarketUndo, UnlocksUndo
<1>3. /\ DOMAIN t.players = DOMAIN left.players
      /\ \A p \in DOMAIN left.players : SameFleet(left.players[p], t.players[p])
  BY <1>1, <1>2, AdvanceLeavesAndArrives, TouchedKeepsFields DEF SameFleet
<1> HIDE DEF left, t
<1> SUFFICES /\ DOMAIN left.players = DOMAIN s.players
             /\ \A p \in DOMAIN s.players :
                   LET x == s.players[p]
                       y == left.players[p]
                   IN  IF IsInvestment(s.checkpoint) THEN Bought(x, y, s.checkpoint.round)
                       ELSE IF IsInvestment(c) THEN WornOut(x, y, c.round)
                       ELSE SameFleet(x, y)
  BY <1>3 DEF t, FleetsMoved, SameFleet, FleetFields, Bought, WornOut
<1>4. CASE IsInvestment(s.checkpoint)
  <2> DEFINE r == s.checkpoint.round
             bought == ApplyPurchases(s, r)
  <2>1. left = CountVote(bought, r)
    BY <1>4 DEF left, Left
  <2>2. IsSession(bought)
    BY PurchasesTouch, TouchedIsSession
  <2>3. /\ DOMAIN bought.players = DOMAIN s.players
        /\ \A p \in DOMAIN s.players : Bought(s.players[p], bought.players[p], r)
    BY PurchasesBuy
  <2> HIDE DEF bought
  <2>4. /\ DOMAIN left.players = DOMAIN bought.players
        /\ \A p \in DOMAIN bought.players : SameFleet(bought.players[p], left.players[p])
    BY <1>1, <1>2, <2>1, <2>2, VoteTouches, TouchedKeepsFields DEF SameFleet
  <2> QED
    BY <1>4, <2>3, <2>4 DEF SameFleet, FleetFields, Bought
<1>5. CASE ~IsInvestment(s.checkpoint) /\ IsInvestment(c)
  <2> DEFINE worn == ApplyRetirement(s, c.round)
  <2>1. left = ApplyRoundStartMoney(worn, c.round)
    BY <1>5 DEF left, Left
  <2>2. IsSession(worn)
    BY RetirementTouches, TouchedIsSession
  <2>3. /\ DOMAIN worn.players = DOMAIN s.players
        /\ \A p \in DOMAIN s.players : WornOut(s.players[p], worn.players[p], c.round)
    BY RetirementWearsOut
  <2> HIDE DEF worn
  <2>4. /\ DOMAIN left.players = DOMAIN worn.players
        /\ \A p \in DOMAIN worn.players : SameFleet(worn.players[p], left.players[p])
    BY <1>1, <1>2, <2>1, <2>2, RoundStartMoneyTouches, TouchedKeepsFields DEF SameFleet
  <2> QED
    BY <1>5, <2>3, <2>4 DEF SameFleet, FleetFields, WornOut
<1>6. CASE ~IsInvestment(s.checkpoint) /\ ~IsInvestment(c)
  <2>1. left = s \/ left = ApplyLoanPayments(s, s.roundCount + 1)
    BY <1>6 DEF left, Left
  <2>2. CASE left = s
    BY <1>6, <2>2 DEF SameFleet
  <2>3. CASE left = ApplyLoanPayments(s, s.roundCount + 1)
    BY <1>1, <1>2, <1>6, <2>3, LoanPaymentsTouch, TouchedKeepsFields DEF SameFleet
  <2> QED
    BY <2>1, <2>2, <2>3
<1> QED
  BY <1>4, <1>5, <1>6

\* The advance as a whole.
LEMMA MovingMovesFleets ==
    ASSUME Sound, Moving
    PROVE  FleetsTurn
<1>1. PICK opened : session' = [Advanced(session, NextHere, opened) EXCEPT
                                  !.checkpoint = NextHere, !.phaseTimer = TimerFor(NextHere)]
  BY DEF Moving
<1> DEFINE applied == Advanced(session, NextHere, opened)
<1>2. IsSession(applied)
  BY AdvanceTouches, TouchedIsSession DEF Sound
<1>3. applied.roundCount = session.roundCount
  BY AdvanceKeepsPace DEF Sound, Pace
<1>4. FleetsMoved(session, applied, NextHere)
  BY AdvanceMovesFleets DEF Sound
<1> HIDE DEF applied
<1>5. /\ session'.checkpoint = NextHere
      /\ session'.roundCount = session.roundCount
      /\ session'.players = applied.players
  BY <1>1, <1>2, <1>3 DEF IsSession, SessionFields, applied
<1>6. Here # Finished
  BY DEF Moving, MoveOn
<1> QED
  BY <1>4, <1>5, <1>6 DEF FleetsTurn, FleetsMoved

\* Of what players ask for, selecting alone changes a fleet, and only to what is offered
\* (select_facility, deselect_facility).
LEMMA PlayersSelect ==
    ASSUME Sound, NEW p \in Players, PlayerChange(p)
    PROVE  FleetsRest
<1> DEFINE x == session.players[p]
<1>1. ASSUME NEW y, Becomes(p, y), SameFleet(x, y) \/ Selecting(x, y)
      PROVE  FleetsRest
  <2>1. /\ session'.players = [session.players EXCEPT ![p] = y]
        /\ session'.checkpoint = session.checkpoint
    BY <1>1 DEF Becomes, Sound, IsSession, SessionFields
  <2>2. \A q \in Players : session'.players[q] = IF q = p THEN y ELSE session.players[q]
    BY <2>1 DEF Players
  <2> QED
    BY <1>1, <2>1, <2>2 DEF FleetsRest, SameFleet, Players
<1>2. IsPlayer(x)
  BY DEF Sound, IsSession, Players
<1> HIDE DEF x
<1>3. ASSUME NEW f \in Facilities, Select(p, f), Becomes(p, [x EXCEPT !.selection[f] = @ + 1])
      PROVE  FleetsRest
  <2> DEFINE y == [x EXCEPT !.selection[f] = @ + 1]
  <2>1. IsInvestment(Here) /\ f \in OfferedFacilities(session)
    BY <1>3 DEF Select, InvestmentOpen
  <2>2. y.owned = x.owned /\ y.stored = x.stored /\ y.selection = [x.selection EXCEPT ![f] = @ + 1]
    BY <1>2 DEF IsPlayer, PlayerFields
  <2> HIDE DEF y
  <2>3. Selecting(x, y)
    BY <2>1, <2>2 DEF Selecting
  <2> QED
    BY <1>1, <1>3, <2>3 DEF y
<1>4. ASSUME NEW f \in Facilities, Deselect(p, f), Becomes(p, [x EXCEPT !.selection[f] = @ - 1])
      PROVE  FleetsRest
  <2> DEFINE y == [x EXCEPT !.selection[f] = @ - 1]
  <2>1. IsInvestment(Here) /\ x.selection[f] > 0
    BY <1>4 DEF Deselect, InvestmentOpen, x
  <2>2. y.owned = x.owned /\ y.stored = x.stored /\ y.selection = [x.selection EXCEPT ![f] = @ - 1]
    BY <1>2 DEF IsPlayer, PlayerFields
  <2> HIDE DEF y
  <2>3. Selecting(x, y)
    BY <2>1, <2>2 DEF Selecting
  <2> QED
    BY <1>1, <1>4, <2>3 DEF y
<1>5. CASE \E y : Becomes(p, y) /\ SameFleet(x, y)
  BY <1>1, <1>5
<1> QED
  <2>1. /\ \A value : SameFleet(x, [x EXCEPT !.prices = value])
        /\ \A value : SameFleet(x, [x EXCEPT !.fuelOrder = value])
        /\ \A loan, money : SameFleet(x, [x EXCEPT !.loan = loan, !.money = money])
    BY <1>2 DEF IsPlayer, PlayerFields, SameFleet, FleetFields
  <2> QED
    BY <1>3, <1>4, <1>5, <2>1 DEF PlayerChange, x

\* Whatever happens, fleets change in one of these ways, or a period is settled.
LEMMA EveryStepOfFleets ==
    Sound /\ [Next]_vars => FleetsRest \/ FleetsTurn \/ Finishing
<1> SUFFICES ASSUME Sound, session' = session \/ Change
             PROVE  FleetsRest \/ FleetsTurn \/ Finishing
  BY EveryChange
<1>1. ASSUME NEW after, NEW undo, Touched(session, after, undo), FleetFields \cap undo = {},
             "checkpoint" \notin undo, session' = after
      PROVE  FleetsRest
  <2>1. after.checkpoint = session.checkpoint
    BY <1>1 DEF Touched, SessionFields
  <2>2. FleetFields \in SUBSET PlayerFields
    BY DEF FleetFields, PlayerFields
  <2> QED
    BY <1>1, <2>1, <2>2, TouchedKeepsFields DEF FleetsRest, SameFleet, Players
<1>2. CASE session' = session
  BY <1>2 DEF FleetsRest, SameFleet, Players
<1>3. CASE \E p \in Players : PlayerChange(p)
  BY <1>3, PlayersSelect
<1>4. CASE SideChange
  <2>0. PICK f \in SideFields : \E value : session' = [session EXCEPT ![f] = value]
    BY <1>4 DEF SideChange
  <2>1. PICK value : session' = [session EXCEPT ![f] = value]
    BY <2>0
  <2>2. Touched(session, [session EXCEPT ![f] = value], {f})
    BY FieldTouched DEF Sound, SideFields, SessionFields
  <2>3. FleetFields \cap {f} = {} /\ "checkpoint" \notin {f}
    BY DEF SideFields, FleetFields
  <2> QED
    BY <1>1, <2>1, <2>2, <2>3
<1>5. CASE AddRound /\ session' = AddedRound(session)
  BY <1>1, <1>5, AddingTouches DEF Sound, FleetFields
<1>6. CASE Joining
  <2>1. PICK p \in Admitted \ Players :
          session' = [session EXCEPT !.players = With(@, p, NewPlayer)]
    BY <1>6 DEF Joining
  <2>2. /\ session'.players = With(session.players, p, NewPlayer)
        /\ session'.checkpoint = session.checkpoint
    BY <2>1 DEF Sound, IsSession, SessionFields
  <2> QED
    BY <2>2 DEF FleetsRest, SameFleet, Players, With
<1>7. CASE Buying
  <2>1. IsInvestment(Here)
    BY <1>7 DEF Buying, BuySelections, PurchaseDue
  <2>2. session'.checkpoint = session.checkpoint
    BY <1>7, PurchasesTouch DEF Sound, Buying, PurchasesUndo, Touched, SessionFields
  <2> QED
    BY <1>7, <2>1, <2>2, PurchasesBuy DEF Sound, Buying, FleetsRest, Players
<1>8. CASE Moving
  BY <1>8, MovingMovesFleets
<1> QED
  BY <1>2, <1>3, <1>4, <1>5, <1>6, <1>7, <1>8 DEF Change

-----------------------------------------------------------------------------
(***************************************************************************)
(* What a player has was theirs to buy.  An offer of a Round whose plan is *)
(* locked lasts: the lever is frozen, and nothing is ever locked again.    *)
(***************************************************************************)
Offered(s, f, r) ==
    /\ Allowed(f, LeversIn(s, r).storage)
    /\ \/ f \in Starting \cup FullSeasonStorage
       \/ \E u \in s.unlocks : u.facility = f /\ u.round <= r

\* An advance unlocks, and nothing else touches what is unlocked (_apply_unlocks).
LEMMA UnlocksOnlyGrow == Sound /\ [Next]_vars => session.unlocks \subseteq session'.unlocks
<1> SUFFICES ASSUME Sound, session' = session \/ Change
             PROVE  session.unlocks \subseteq session'.unlocks
  BY EveryChange
<1>1. ASSUME NEW after, NEW undo, Touched(session, after, undo), "unlocks" \notin undo,
             session' = after
      PROVE  session'.unlocks = session.unlocks
  BY <1>1 DEF Touched, SessionFields
<1>2. CASE \E p \in Players : PlayerChange(p)
  <2>1. \E p, y : Becomes(p, y)
    BY <1>2, Zenon DEF PlayerChange
  <2> QED
    BY <2>1 DEF Becomes, Sound, IsSession, SessionFields
<1>3. CASE SideChange
  <2>0. PICK f \in SideFields : \E value : session' = [session EXCEPT ![f] = value]
    BY <1>3 DEF SideChange
  <2>1. PICK value : session' = [session EXCEPT ![f] = value]
    BY <2>0
  <2>2. Touched(session, [session EXCEPT ![f] = value], {f})
    BY FieldTouched DEF Sound, SideFields, SessionFields
  <2>3. "unlocks" \notin {f}
    BY DEF SideFields
  <2> QED
    BY <1>1, <2>1, <2>2, <2>3
<1>4. CASE AddRound /\ session' = AddedRound(session)
  BY <1>1, <1>4, AddingTouches DEF Sound
<1>5. CASE Joining
  BY <1>5 DEF Joining, Sound, IsSession, SessionFields
<1>6. CASE Buying
  BY <1>1, <1>6, PurchasesTouch DEF Sound, Buying, PurchasesUndo
<1>7. CASE Finishing
  BY <1>1, <1>7, SettledTouches DEF Sound, Finishing, SettleUndo
<1>8. CASE Moving
  <2> DEFINE c == NextHere
             left == Left(session, c)
             closed == Closed(left, c)
             fired == FireEvents(closed, c)
  <2>1. PICK opened : session' = [Advanced(session, c, opened) EXCEPT
                                    !.checkpoint = c, !.phaseTimer = TimerFor(c)]
    BY <1>8 DEF Moving
  <2> DEFINE priced == Priced(fired, c, opened)
             applied == Advanced(session, c, opened)
  <2>2. applied = Arrived(left, c, opened) /\ IsSession(left) /\ IsSession(applied)
    BY AdvanceLeavesAndArrives, AdvanceTouches, TouchedIsSession DEF Sound
  <2>3. /\ Touched(left, closed, ClosingUndo(c))
        /\ Touched(closed, fired, FiringUndo(c))
        /\ Touched(fired, priced, PricingUndo(c))
    BY <2>2, ArrivingStages
  <2>4. Touched(session, left, LeavingUndo(session, c))
    BY LeavingTouches DEF Sound
  <2>5. applied = ApplyUnlocks(priced, c)
    BY <2>2 DEF Arrived
  <2> HIDE DEF left, closed, fired, priced, applied
  <2>6. /\ "unlocks" \notin LeavingUndo(session, c)
        /\ "unlocks" \notin ClosingUndo(c) \cup FiringUndo(c) \cup PricingUndo(c)
    BY DEF LeavingUndo, PurchasesUndo, VoteUndo, RetirementUndo, LoanUndo, ClosingUndo,
           FiringUndo, PricingUndo, GrowthUndo, BlackoutUndo, EventsUndo, FuelMarketUndo
  <2>7. priced.unlocks = session.unlocks
    BY <2>3, <2>4, <2>6 DEF Touched, SessionFields
  <2>8. applied.unlocks = priced.unlocks \cup NewUnlocks(priced, c)
    BY <2>3, <2>5 DEF ApplyUnlocks, Touched, IsSession, SessionFields
  <2>9. session'.unlocks = applied.unlocks
    BY <2>1, <2>2 DEF applied, IsSession, SessionFields
  <2> QED
    BY <2>7, <2>8, <2>9
<1> QED
  BY <1>2, <1>3, <1>4, <1>5, <1>6, <1>7, <1>8 DEF Change

\* A plan once locked is locked for good, also as Rounds are added.
LEMMA LockedOnlyGrows ==
    ASSUME SessionInv, [Next]_vars
    PROVE  /\ LockedRounds(Here, session.roundCount) \in 0..session.roundCount
           /\ LockedRounds(Here', session'.roundCount) \in Nat
           /\ LockedRounds(Here, session.roundCount)
                <= LockedRounds(Here', session'.roundCount)
<1> DEFINE n == session.roundCount
<1>1. n \in Nat \ {0} /\ Here \in AllCheckpoints(n)
  BY WhereTheSessionIs
<1>2. Still \/ PhaseStep \/ TimersStep \/ Lengthening \/ Turn \/ Settling
  BY EveryStep DEF SessionInv, PaceInv
<1>3. LockedRounds(Here, n) \in 0..n
  BY <1>1, LockedStaysLocked
<1>4. CASE Lengthening
  <2>1. ~RecapOpen(Here, n) /\ session'.roundCount = n + 1 /\ Here' = Here
    BY <1>4 DEF Lengthening, KeptBut, Pace, Here
  <2>2. Here \in AllCheckpoints(n + 1) /\ n + 1 \in Nat \ {0}
    BY <1>1, MoreRoundsMoreCheckpoints
  <2> QED
    BY <1>1, <1>3, <2>1, <2>2, LockedStaysLocked
<1>5. CASE Turn
  <2>1. Here # Finished /\ Here' = NextCheckpoint(Here, n) /\ session'.roundCount = n
    BY <1>5 DEF Turn, KeptBut, Pace, Here, NextHere
  <2>2. Here' \in AllCheckpoints(n)
    BY <1>1, <2>1, NextIsACheckpoint
  <2> QED
    BY <1>1, <1>3, <2>1, <2>2, LockedStaysLocked
<1>6. CASE Still \/ PhaseStep \/ TimersStep \/ Settling
  <2>1. Here' = Here /\ session'.roundCount = n
    BY <1>6 DEF Still, PaceKept, PhaseStep, TimersStep, Settling, KeptBut, Pace, Here
  <2> QED
    BY <1>3, <2>1
<1> QED
  BY <1>2, <1>4, <1>5, <1>6

\* What a locked Round offers it goes on offering.
LEMMA OffersLast ==
    ASSUME SessionInv, VotesInv, [Next]_vars, NEW f, NEW r \in Nat \ {0},
           r <= LockedRounds(Here, session.roundCount), Offered(session, f, r)
    PROVE  /\ r <= LockedRounds(Here', session'.roundCount)
           /\ Offered(session', f, r)
<1>1. r \in 1..LockedRounds(Here, session.roundCount)
  BY LockedOnlyGrows
<1>2. r <= LockedRounds(Here', session'.roundCount)
  BY <1>1, LockedOnlyGrows
<1>3. LeversIn(session', r) = LeversIn(session, r)
  BY <1>1, LockedPlanKept DEF LeversIn
<1>4. session.unlocks \subseteq session'.unlocks
  BY UnlocksOnlyGrow DEF SessionInv
<1> QED
  BY <1>2, <1>3, <1>4 DEF Offered

\* The inductive invariant: what a player owns was built in a Round now locked and offered
\* then, and what they have selected is offered in the Investment phase they are in.
RightlyHas(s, x) ==
    /\ x.owned \in [Facilities -> [Rounds -> Nat]]
    /\ x.selection \in [Facilities -> Nat]
    /\ \A f \in Facilities, r \in Rounds :
          x.owned[f][r] > 0 => /\ r <= LockedRounds(s.checkpoint, s.roundCount)
                               /\ Offered(s, f, r)
    /\ \A f \in Facilities :
          x.selection[f] > 0 => /\ IsInvestment(s.checkpoint)
                                /\ Offered(s, f, s.checkpoint.round)

OffersInv == \A p \in Players : RightlyHas(session, session.players[p])

\* A player goes on having things rightly if all they come to own is what they had
\* selected, and all they come to select is on offer.
LEMMA RightlyKept ==
    ASSUME SessionInv, VotesInv, [Next]_vars, NEW x, RightlyHas(session, x), NEW y,
           y.owned \in [Facilities -> [Rounds -> Nat]],
           y.selection \in [Facilities -> Nat],
           \A f \in Facilities, r \in Rounds :
              y.owned[f][r] > 0 => \/ x.owned[f][r] > 0
                                   \/ /\ IsInvestment(Here)
                                      /\ r = Here.round
                                      /\ Offered(session, f, r),
           \A f \in Facilities :
              y.selection[f] > 0 => /\ IsInvestment(Here)
                                    /\ Here' = Here
                                    /\ Offered(session, f, Here.round)
    PROVE  RightlyHas(session', y)
<1> DEFINE n == session.roundCount
<1>1. n \in Nat \ {0} /\ Here \in AllCheckpoints(n)
  BY WhereTheSessionIs
<1>2. IsInvestment(Here) => Here.round \in 1..n /\ LockedRounds(Here, n) = Here.round
  BY <1>1, InvestmentLocksItsRound
<1>3. ASSUME NEW f \in Facilities, NEW r \in Rounds, y.owned[f][r] > 0
      PROVE  r <= LockedRounds(Here', session'.roundCount) /\ Offered(session', f, r)
  <2>1. r \in Nat \ {0}
    BY CatalogAssumption DEF Rounds
  <2>2. r <= LockedRounds(Here, n) /\ Offered(session, f, r)
    <3>1. CASE x.owned[f][r] > 0
      BY <3>1 DEF RightlyHas, Here
    <3>2. CASE IsInvestment(Here) /\ r = Here.round /\ Offered(session, f, r)
      BY <1>2, <2>1, <3>2
    <3> QED
      BY <1>3, <3>1, <3>2
  <2> QED
    BY <2>1, <2>2, OffersLast
<1>4. ASSUME NEW f \in Facilities, y.selection[f] > 0
      PROVE  IsInvestment(Here') /\ Offered(session', f, Here'.round)
  <2>1. IsInvestment(Here) /\ Here' = Here /\ Offered(session, f, Here.round)
    BY <1>4
  <2>2. Here.round \in Nat \ {0} /\ Here.round <= LockedRounds(Here, n)
    BY <1>1, <1>2, <2>1
  <2> QED
    BY <2>1, <2>2, OffersLast
<1> QED
  BY <1>3, <1>4 DEF RightlyHas, Here

\* The invariant is inductive.
LEMMA OffersInvKept == SessionInv /\ VotesInv /\ OffersInv /\ [Next]_vars => OffersInv'
<1> SUFFICES ASSUME SessionInv, VotesInv, OffersInv, [Next]_vars,
                    NEW p \in DOMAIN session'.players
             PROVE  RightlyHas(session', session'.players[p])
  BY DEF OffersInv, Players
<1> DEFINE x == session.players[p]
           y == session'.players[p]
<1> SUFFICES RightlyHas(session', y)
  OBVIOUS
<1>1. FleetsRest \/ FleetsTurn \/ Finishing
  BY EveryStepOfFleets DEF SessionInv
<1>2. p \in Players => RightlyHas(session, x)
  BY DEF OffersInv
<1>3. ASSUME p \in Players, y.owned = x.owned, y.selection = x.selection,
             Here' = Here \/ ~IsInvestment(Here)
      PROVE  RightlyHas(session', y)
  <2> HIDE DEF x, y
  <2> QED
    BY <1>2, <1>3, RightlyKept DEF RightlyHas, Here
<1>4. ASSUME p \in Players, IsInvestment(Here), Bought(x, y, Here.round)
      PROVE  RightlyHas(session', y)
  <2> HIDE DEF x, y
  <2>1. RightlyHas(session, x)
    BY <1>2, <1>4
  <2>2. y.selection = NothingSelected /\ \A f \in Facilities : NothingSelected[f] = 0
    BY <1>4 DEF Bought, NothingSelected
  <2>3. \A f \in Facilities, r \in Rounds :
           y.owned[f][r] = IF r = Here.round THEN x.owned[f][r] + x.selection[f]
                           ELSE x.owned[f][r]
    BY <1>4, <2>1 DEF Bought, RightlyHas
  <2>4. y.owned \in [Facilities -> [Rounds -> Nat]] /\ y.selection \in [Facilities -> Nat]
    <3>1. ASSUME NEW f \in Facilities
          PROVE  [x.owned[f] EXCEPT ![Here.round] = @ + x.selection[f]] \in [Rounds -> Nat]
      <4> DEFINE had == x.owned[f]
                 more == x.selection[f]
      <4>1. had \in [Rounds -> Nat] /\ more \in Nat
        BY <2>1 DEF RightlyHas
      <4> HIDE DEF had, more
      <4>2. [had EXCEPT ![Here.round] = @ + more]
              = [b \in Rounds |-> IF b = Here.round THEN had[b] + more ELSE had[b]]
        BY <4>1
      <4>3. [b \in Rounds |-> IF b = Here.round THEN had[b] + more ELSE had[b]]
              \in [Rounds -> Nat]
        BY <4>1
      <4> QED
        BY <4>2, <4>3 DEF had, more
    <3> QED
      BY <1>4, <2>2, <3>1 DEF Bought, NothingSelected
  <2>5. ASSUME NEW f \in Facilities, NEW r \in Rounds, y.owned[f][r] > 0
        PROVE  \/ x.owned[f][r] > 0
               \/ IsInvestment(Here) /\ r = Here.round /\ Offered(session, f, r)
    <3>1. x.owned[f][r] \in Nat /\ x.selection[f] \in Nat
      BY <2>1 DEF RightlyHas
    <3>2. x.owned[f][r] > 0 \/ (r = Here.round /\ x.selection[f] > 0)
      BY <2>3, <2>5, <3>1
    <3> QED
      BY <2>1, <3>2 DEF RightlyHas, Here
  <2> QED
    BY <2>1, <2>2, <2>4, <2>5, RightlyKept
<1>5. CASE FleetsRest
  <2>1. Here' = Here
    BY <1>5 DEF FleetsRest, Here
  <2>2. CASE p \notin Players /\ y = NewPlayer
    <3>1. y.owned = NothingOwned /\ y.selection = NothingSelected
      BY <2>2 DEF NewPlayer
    <3> HIDE DEF y
    <3>2. /\ y.owned \in [Facilities -> [Rounds -> Nat]]
          /\ y.selection \in [Facilities -> Nat]
          /\ \A f \in Facilities, r \in Rounds : y.owned[f][r] = 0
          /\ \A f \in Facilities : y.selection[f] = 0
      BY <3>1 DEF NothingOwned, NothingSelected
    <3> QED
      BY <3>2 DEF RightlyHas
  <2>3. CASE p \in Players /\ SameFleet(x, y)
    BY <1>3, <2>1, <2>3 DEF SameFleet, FleetFields
  <2>4. CASE p \in Players /\ Selecting(x, y)
    <3> HIDE DEF x, y
    <3>1. RightlyHas(session, x)
      BY <1>2, <2>4
    <3>2. IsInvestment(Here) /\ y.owned = x.owned
      BY <2>4 DEF Selecting
    <3>3. PICK f \in Facilities :
            \/ f \in OfferedFacilities(session) /\ y.selection = [x.selection EXCEPT ![f] = @ + 1]
            \/ x.selection[f] > 0 /\ y.selection = [x.selection EXCEPT ![f] = @ - 1]
      BY <2>4 DEF Selecting
    <3>4. y.selection \in [Facilities -> Nat]
      BY <3>1, <3>3 DEF RightlyHas
    <3>5. \A g \in Facilities : x.selection[g] > 0 => Offered(session, g, Here.round)
      BY <3>1 DEF RightlyHas, Here
    <3>6. ASSUME NEW g \in Facilities, y.selection[g] > 0
          PROVE  Offered(session, g, Here.round)
      <4>1. CASE x.selection[g] > 0
        BY <3>5, <4>1
      <4>2. CASE ~(x.selection[g] > 0)
        <5>1. g = f /\ f \in OfferedFacilities(session)
          BY <3>1, <3>3, <3>6, <4>2 DEF RightlyHas
        <5>2. RoundNow(session) = Here.round
          BY <3>2 DEF RoundNow, CurrentRound, IsInvestment, Here
        <5> QED
          BY <5>1, <5>2 DEF OfferedFacilities, AvailableFacilities, Offered
      <4> QED
        BY <4>1, <4>2
    <3> QED
      BY <2>1, <3>1, <3>2, <3>4, <3>6, RightlyKept DEF RightlyHas
  <2>5. CASE p \in Players /\ IsInvestment(Here) /\ Bought(x, y, Here.round)
    BY <1>4, <2>5
  <2> QED
    BY <1>5, <2>2, <2>3, <2>4, <2>5 DEF FleetsRest
<1>6. CASE FleetsTurn
  <2>1. p \in Players
    BY <1>6 DEF FleetsTurn, FleetsMoved, Players
  <2>2. CASE IsInvestment(Here)
    BY <1>4, <1>6, <2>1, <2>2 DEF FleetsTurn, FleetsMoved, Here, Players
  <2>3. CASE ~IsInvestment(Here) /\ IsInvestment(NextHere)
    <3>1. WornOut(x, y, NextHere.round)
      BY <1>6, <2>1, <2>3 DEF FleetsTurn, FleetsMoved, Here, Players
    <3> HIDE DEF x, y
    <3>2. RightlyHas(session, x)
      BY <1>2, <2>1
    <3>3. /\ y.owned \in [Facilities -> [Rounds -> Nat]]
          /\ \A f \in Facilities, r \in Rounds : y.owned[f][r] > 0 => x.owned[f][r] > 0
      BY <3>1, <3>2 DEF WornOut, Retired, RightlyHas
    <3>4. y.selection \in [Facilities -> Nat] /\ \A f \in Facilities : ~(y.selection[f] > 0)
      BY <2>3, <3>1, <3>2 DEF WornOut, RightlyHas, Here
    <3> QED
      BY <3>2, <3>3, <3>4, RightlyKept
  <2>4. CASE ~IsInvestment(Here) /\ ~IsInvestment(NextHere)
    <3>1. SameFleet(x, y)
      BY <1>6, <2>1, <2>4 DEF FleetsTurn, FleetsMoved, Here, Players
    <3> QED
      BY <1>3, <2>1, <2>4, <3>1 DEF SameFleet, FleetFields
  <2> QED
    BY <2>2, <2>3, <2>4
<1>7. CASE Finishing
  <2>1. PICK job, outcome : session' = Settled(session, job, outcome)
    BY <1>7 DEF Finishing
  <2>2. Touched(session, session', SettleUndo)
    BY <2>1, SettledTouches DEF SessionInv, Sound
  <2>3. p \in Players /\ y.owned = x.owned /\ y.selection = x.selection /\ Here' = Here
    BY <2>2 DEF Touched, PlayerTouched, SettleUndo, SessionFields, PlayerFields, Players, Here
  <2> QED
    BY <1>3, <2>3
<1> QED
  BY <1>1, <1>5, <1>6, <1>7

\* The invariant always holds.
LEMMA OffersInvHolds == Spec => [](SessionInv /\ VotesInv /\ OffersInv)
<1>1. Init => OffersInv
  BY DEF Init, NewSession, OffersInv, Players, Nobody
<1>2. SessionInv /\ VotesInv /\ OffersInv /\ [Next]_vars
        => (SessionInv /\ VotesInv /\ OffersInv)'
  BY SessionInvKept, VotesInvKept, OffersInvKept
<1> QED
  BY <1>1, <1>2, SessionStarts, VotesStart, PTL DEF Spec

\* Nobody ever owns or selects what they were not offered: the lever and the unlocks that
\* offered it are those of the Round it was built in, whatever was replanned or unlocked,
\* however the selection was changed and whatever failed since (select_facility,
\* offered_facilities, _apply_unlocks).
THEOREM OwnedAlwaysWasOffered == Spec => []OwnedWasOffered
<1>1. SessionInv /\ OffersInv => OwnedWasOffered
  <2> SUFFICES ASSUME SessionInv, OffersInv,
                      NEW p \in Players, NEW f \in Facilities, NEW r \in 1..session.roundCount,
                      \/ session.players[p].owned[f][r] > 0
                      \/ session.players[p].selection[f] > 0 /\ r = RoundNow(session)
               PROVE  Offered(session, f, r)
    BY DEF OwnedWasOffered, Offered
  <2>1. RightlyHas(session, session.players[p])
    BY DEF OffersInv
  <2>2. r \in Rounds
    BY CatalogAssumption, SessionAssumption DEF SessionInv, PaceInv, TypeOKPace, Rounds
  <2>3. CASE session.players[p].owned[f][r] > 0
    BY <2>1, <2>2, <2>3 DEF RightlyHas
  <2>4. CASE session.players[p].selection[f] > 0 /\ r = RoundNow(session)
    <3>1. IsInvestment(Here) /\ Offered(session, f, Here.round)
      BY <2>1, <2>4 DEF RightlyHas, Here
    <3>2. RoundNow(session) = Here.round
      BY <3>1 DEF RoundNow, CurrentRound, IsInvestment, Here
    <3> QED
      BY <2>4, <3>1, <3>2
  <2> QED
    BY <2>3, <2>4
<1> QED
  BY <1>1, OffersInvHolds, PTL
=============================================================================
