------------------------------ MODULE Finance -------------------------------
(***************************************************************************)
(* The rules that move a player's cash: the loan and its payments, the     *)
(* cash floor, the cost of blackouts, the carbon tax and fuel.  Pure       *)
(* operators.  Money is in millions and every amount is an integer: the    *)
(* divisions below are exact for the amounts the models use.               *)
(***************************************************************************)
EXTENDS Fleet

CONSTANT FuelUnit   \* fuel -> what a default order is rounded up to, in kg

ASSUME FuelUnitAssumption == \A u \in Fuels : FuelUnit[u] \in Nat \ {0}

LOAN_AMOUNT         == 50
LOAN_PAYMENT        == 35
LOAN_PAYMENTS       == 2
LOAN_COST           == LOAN_PAYMENT * LOAN_PAYMENTS - LOAN_AMOUNT
WORKSHOP_CASH_FLOOR == 35
CARBON_TAX_RATE     == 1
STOCKPILE_SEASONS   == 3

NoLoan  == [round |-> 0, made |-> 0]
Loan(r) == [round |-> r, made |-> 0]

PaymentRound(loan, index) == loan.round + 1 + index

\* Payments of the loan due by the start of Round r and not made yet.
PaymentsDue(loan, r) ==
    AtLeastZero(Cardinality({ i \in 0..LOAN_PAYMENTS - 1 : PaymentRound(loan, i) <= r })
                - loan.made)

RoundStartMoney(money) == IF money < WORKSHOP_CASH_FLOOR THEN WORKSHOP_CASH_FLOOR ELSE money

Power(b, n) ==
    LET Times(i, product) == b * product
    IN  FoldSet(Times, 1, 1..n)

\* n blackouts cost 1 - 0.7^n of the Round's operating profit, a loss nothing.
BlackoutCost(profit, n) == (AtLeastZero(profit) * (Power(10, n) - Power(7, n))) \div Power(10, n)

\* Next Round's demand factor in thousandths, from the Round's average profit:
\* 1 + 0.3 * performance, with the performance clamped to 0.3 .. 2.
GrowthFactor(profit, players) ==
    LET performance == (profit * 1000) \div (150 * players)
        clamped     == IF performance < 300 THEN 300 ELSE Least(performance, 2000)
    IN  1000 + (300 * clamped) \div 1000

(***************************************************************************)
(* Carbon tax: emitted is a function from the players settled together to  *)
(* what they emitted.  All that is paid is shared out equally.             *)
(***************************************************************************)
CarbonTaxOf(emitted, rate) ==
    LET share == (rate * SumFunction(emitted)) \div Cardinality(DOMAIN emitted)
    IN  [p \in DOMAIN emitted |-> rate * emitted[p] - share]

(***************************************************************************)
(* Fuel.                                                                   *)
(***************************************************************************)
NoFuelHeld == [u \in Fuels |-> 0]

BurnedFuels(owned, r) == { Catalog[f].fuel : f \in Operating(owned, r) } \ {NoFuel}

SeasonNeed(owned, u, r) ==
    SumFunction([f \in { x \in Facilities : Catalog[x].fuel = u } |->
                   Catalog[f].burn * OperatingCount(owned, f, r)])

CappedOrder(quantity, stock, need) ==
    Least(quantity, AtLeastZero(STOCKPILE_SEASONS * need - stock))

RoundedUp(quantity, unit) == ((quantity + unit - 1) \div unit) * unit

\* What a window's order starts from: the season need less the stock held.
DefaultOrder(u, need, stock) ==
    CappedOrder(RoundedUp(AtLeastZero(need - stock), FuelUnit[u]), stock, need)

DefaultOrders(owned, stock, r) ==
    [u \in Fuels |-> IF u \in BurnedFuels(owned, r)
                       THEN DefaultOrder(u, SeasonNeed(owned, u, r), stock[u]) ELSE 0]

\* Under manual procurement the order is bought and the burn comes out of stock
\* and order; under automatic, the burn comes out of the stock and the rest is
\* bought.  A fuel no operating facility burns is neither bought nor burned.
FuelBought(manual, burning, stock, order, burned) ==
    [u \in Fuels |-> IF u \notin burning THEN 0
                     ELSE IF manual THEN order[u]
                     ELSE burned[u] - Least(stock[u], burned[u])]

FuelLeft(stock, bought, burned) == [u \in Fuels |-> stock[u] + bought[u] - burned[u]]

FuelCost(bought, price) == SumFunction([u \in Fuels |-> bought[u] * price[u]])
=============================================================================
