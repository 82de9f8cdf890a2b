--------------------------- MODULE TradingPeriod ----------------------------
(***************************************************************************)
(* A Trading period's simulation (workshop/trading.py): the market clears  *)
(* at each settlement point of the simulated days, on the weather, the     *)
(* demand block and what the players' pools can offer: the wind there is,  *)
(* the fuel that is left, the energy stored.  Must-serve demand that is    *)
(* not served is a blackout: the grid is down for a day and demand is      *)
(* rationed from then on.  A representative week is cleared twice, and     *)
(* only the second time counts.                                            *)
(***************************************************************************)
EXTENDS Market, SequencesExt

CONSTANTS
    Plants,           \* the pools, in the order the session lists them: what each is
    Tiers,            \* the demand block's tiers, from must-serve down: share and bid
    ClearingsPerDay, DayCount,
    WeekScale,        \* how many days a simulated day of a representative week stands for
    FullWeather,      \* the share of its power a renewable makes at most is one of 0..FullWeather
    Inputs            \* what the session may ask to be simulated

ASSUME TradingAssumption ==
    /\ ClearingsPerDay \in Nat \ {0}
    /\ DayCount \in Nat \ {0}
    /\ WeekScale \in Nat \ {0}
    /\ FullWeather \in Nat \ {0}

DUMP_COST      == 1
PRICE_FLOOR    == -DUMP_COST
SCARCITY_PRICE == 40

PoolIds    == DOMAIN Plants
PointCount == DayCount * ClearingsPerDay
MustServe  == 1

\* What players may ask and bid (PRICE_CEILING is SCARCITY_PRICE).
Prices == PRICE_FLOOR..SCARCITY_PRICE

\* A plant is of one of three kinds; a fuel plant burns some of its player's stock.
ASSUME PlantAssumption ==
    /\ Len(Plants) \in Nat /\ PoolIds = 1..Len(Plants)
    /\ \A f \in PoolIds :
          /\ Plants[f].kind \in {"renewable", "storage", "fuel"}
          /\ Plants[f].power \in Nat /\ Plants[f].capacity \in Nat
          /\ Plants[f].kind = "fuel" => Plants[f].use \in Nat \ {0}

\* There is a first tier, and only demand that must be served bids without limit.
ASSUME TierAssumption ==
    /\ Len(Tiers) \in Nat \ {0} /\ DOMAIN Tiers = 1..Len(Tiers)
    /\ \A tier \in DOMAIN Tiers :
          Tiers[tier].share \in Nat /\ Tiers[tier].bid \in Prices \cup {Unbounded}

\* A storage starts with no more than it holds.
ASSUME InputAssumption ==
    \A i \in Inputs :
       /\ i.fullSeason \in BOOLEAN /\ i.manual \in BOOLEAN /\ i.earlier \in Nat
       /\ i.sell \in [PoolIds -> Prices] /\ i.buy \in [PoolIds -> Prices]
       /\ i.stored \in [PoolIds -> Nat]
       /\ \A f \in PoolIds : Plants[f].kind = "storage" => i.stored[f] <= Plants[f].capacity
       /\ \A f \in PoolIds :
             Plants[f].kind = "fuel" => i.fuel[<<Plants[f].player, Plants[f].fuel>>] \in Nat
       /\ i.weather \in [1..PointCount -> 0..FullWeather]
       /\ i.demand \in [1..PointCount -> Nat]

VARIABLES
    input,   \* the bidders, the weather and the demand: one of Inputs, for good
    pass,    \* which pass is under way
    point,   \* the settlement point to come
    pool,    \* what each pool holds and has done so far
    tank,    \* the fuel left to each player and fuel
    grid,    \* until when the grid is down, the blackouts listed, the peak of demand
    record   \* what each point cleared did

vars == <<input, pass, point, pool, tank, grid, record>>

-----------------------------------------------------------------------------
(***************************************************************************)
(* Pools.                                                                  *)
(***************************************************************************)
Is(f, kind) == Plants[f].kind = kind

TankOf(f) == <<Plants[f].player, Plants[f].fuel>>
Tanks     == { TankOf(f) : f \in { g \in PoolIds : Is(g, "fuel") } }

\* Fuel under automatic procurement never runs short.
BurnsLimitedFuel(f) == Is(f, "fuel") /\ input.manual

Scale == IF input.fullSeason THEN 1 ELSE WeekScale

\* A simulated day gets its share of the stock.
FullTanks == [t \in Tanks |-> input.fuel[t] \div Scale]

NewPool(stored) ==
    [stored |-> stored, sold |-> 0, dumped |-> 0, bought |-> 0, revenue |-> 0,
     dumpCost |-> 0, purchaseCost |-> 0, burned |-> 0, ranOut |-> FALSE]

\* Storage loses half both ways: what of an amount of energy goes through, and what
\* it takes out of the store to deliver it.
Through(energy)  == energy \div 2
DrawnFor(output) == output * 2

StorageLimit(energy) == Through(AtLeast(0, energy))

-----------------------------------------------------------------------------
(***************************************************************************)
(* Fuel.  At each point, the cheapest offer first, each pool reserves what *)
(* it could burn, and the next ones of the same player and fuel can offer  *)
(* only what is left.                                                      *)
(***************************************************************************)
Cheaper(f, g) == input.sell[f] < input.sell[g] \/ (input.sell[f] = input.sell[g] /\ f < g)

FuelPools ==
    LET burning == { f \in PoolIds : BurnsLimitedFuel(f) }
        Turn(f) == Cardinality({ g \in burning : Cheaper(g, f) }) + 1
    IN  [k \in 1..Cardinality(burning) |-> CHOOSE f \in burning : Turn(f) = k]

ReservedNext(free, f) == AtMost(free[TankOf(f)] \div Plants[f].use, Plants[f].power)

\* The most each pool can offer with the fuel there is.
FuelLimits ==
    LET Reserve(held, f) ==
            LET most == ReservedNext(held.free, f)
            IN  [free  |-> [held.free EXCEPT ![TankOf(f)] = AtLeast(0, @ - most * Plants[f].use)],
                 limit |-> [held.limit EXCEPT ![f] = most]]
    IN  FoldLeft(Reserve, [free |-> tank, limit |-> [f \in PoolIds |-> Plants[f].power]],
                 FuelPools).limit

FuelShort(limits, f) == BurnsLimitedFuel(f) /\ limits[f] < Plants[f].power

-----------------------------------------------------------------------------
(***************************************************************************)
(* The book of a settlement point.                                         *)
(***************************************************************************)
Place(limits, market, f) ==
    LET plant == Plants[f]
        sell  == input.sell[f]
    IN  CASE plant.kind = "renewable" ->
               PlaceAsk(market, f, (plant.power * input.weather[point + 1]) \div FullWeather, sell,
                        TRUE)
          [] plant.kind = "storage" ->
               LET discharge == AtMost(StorageLimit(pool[f].stored), plant.power)
                   charge    == AtMost(StorageLimit(plant.capacity - pool[f].stored), plant.power)
               IN  PlaceBid(PlaceAsk(market, f, discharge, sell, FALSE), f, charge, input.buy[f])
          [] plant.kind = "fuel" -> PlaceAsk(market, f, limits[f], sell, FALSE)

Power(base, times) ==
    LET power[n \in 0..times] == IF n = 0 THEN 1 ELSE base * power[n - 1] IN power[times]

\* Each blackout rations demand to nine tenths of what it was.
Rationed(demand, times) == (demand * Power(9, times)) \div Power(10, times)

Nominal(p, tier) == (input.demand[p + 1] * Tiers[tier].share) \div 100

\* A slip: a period starts with demand in full, whatever the Round's blackouts so far.
TimesRationedInPeriod == Len(grid.blackouts)
TimesRationed == input.earlier + Len(grid.blackouts)

DemandBlock ==
    [tier \in DOMAIN Tiers |->
       Entry(-tier, Rationed(Nominal(point, tier), TimesRationed), Tiers[tier].bid, FALSE)]

BookWith(limits) ==
    LET PlaceNext(market, f) == Place(limits, market, f)
        placed == FoldLeft(PlaceNext, EmptyMarket, [f \in PoolIds |-> f])
    IN  [placed EXCEPT !.demands = @ \o DemandBlock]

IsBlackout(clearing) ==
    \E k \in DOMAIN clearing.demands :
       /\ clearing.demands[k].owner = -MustServe
       /\ Unmet(clearing.demands[k], clearing.quantity) > MIN_SETTLED_QUANTITY

\* Supply that just meets must-serve demand clears at its bid, and settles at scarcity.
Settled(clearing) ==
    IF clearing.price = Unbounded THEN [clearing EXCEPT !.price = SCARCITY_PRICE] ELSE clearing

-----------------------------------------------------------------------------
(***************************************************************************)
(* What a clearing does to the pools.                                      *)
(***************************************************************************)
NoSale     == [sold |-> 0, dumped |-> 0, revenue |-> 0]
NoPurchase == [bought |-> 0, cost |-> 0]

\* The entry of an owner, or that of who placed none.
EntryOf(entries, owner, none) ==
    LET own == { k \in DOMAIN entries : entries[k].owner = owner }
    IN  IF own = {} THEN none ELSE entries[CHOOSE k \in own : TRUE]

Produced(sale) == sale.sold + sale.dumped

Sold(f, held, sale) ==
    [held EXCEPT
       !.sold     = @ + sale.sold,
       !.dumped   = @ + sale.dumped,
       !.revenue  = @ + sale.revenue,
       !.dumpCost = @ + sale.dumped * DUMP_COST,
       !.stored   = IF Is(f, "storage") THEN AtLeast(0, @ - DrawnFor(Produced(sale))) ELSE @,
       !.burned   = IF Is(f, "fuel") THEN @ + Produced(sale) * Plants[f].use ELSE @]

\* A slip: the energy a storage bought is not stored.
PaidFor(f, held, purchase) ==
    [held EXCEPT !.bought = @ + purchase.bought, !.purchaseCost = @ + purchase.cost]

Bought(f, held, purchase) ==
    [held EXCEPT
       !.bought       = @ + purchase.bought,
       !.purchaseCost = @ + purchase.cost,
       !.stored       = IF Is(f, "storage")
                          THEN AtMost(Plants[f].capacity, @ + Through(purchase.bought)) ELSE @]

\* A slip: a pool whose own price clears the market is not told.
NoteRunOutAbovePrice(limits, clearing, f, held) ==
    [held EXCEPT !.ranOut = \/ @
                            \/ /\ FuelShort(limits, f)
                               /\ IsBlackout(clearing) \/ clearing.price > input.sell[f]]

\* A pool has run out of fuel if its offer was cut short and the market cleared at its
\* price or above, or the grid went down.
NoteRunOut(limits, clearing, f, held) ==
    [held EXCEPT !.ranOut = \/ @
                            \/ /\ FuelShort(limits, f)
                               /\ IsBlackout(clearing) \/ clearing.price >= input.sell[f]]

\* What one point did: of each pool, what it offered, produced, bought and held after it;
\* of each tier, what it asked for and was served.
Nothing  == [f \in PoolIds |-> 0]
Unserved == [tier \in DOMAIN Tiers |-> 0]
PointDown(pools) ==
    [state |-> "down", price |-> 0, offered |-> Nothing, produced |-> Nothing, bought |-> Nothing,
     stored |-> [f \in PoolIds |-> pools[f].stored], asked |-> Unserved, served |-> Unserved]

-----------------------------------------------------------------------------
(***************************************************************************)
(* The steps of a simulation.                                              *)
(***************************************************************************)
NewGrid == [downUntil |-> 0, blackouts |-> <<>>, peak |-> 0]

\* A representative week is cleared from empty first, to find the charge it ends with.
Init ==
    /\ input \in Inputs
    /\ pass = IF input.fullSeason THEN "counted" ELSE "warming"
    /\ point = 0
    /\ pool = [f \in PoolIds |-> NewPool(IF input.fullSeason THEN input.stored[f] ELSE 0)]
    /\ tank = FullTanks
    /\ grid = NewGrid
    /\ record = <<>>

Simulating == pass # "over" /\ point < PointCount

\* The peak counts must-serve demand before rationing, at every point.
PeakNow == AtLeast(grid.peak, Nominal(point, MustServe))

\* The grid is down: nothing is placed, and storage keeps what it held.
StayDown ==
    /\ Simulating
    /\ point < grid.downUntil
    /\ grid' = [grid EXCEPT !.peak = PeakNow]
    /\ record' = Append(record, PointDown(pool))
    /\ point' = point + 1
    /\ UNCHANGED <<input, pass, pool, tank>>

PointCleared(clearing, state, sales, purchases, pools) ==
    [state    |-> state,
     price    |-> clearing.price,
     offered  |-> [f \in PoolIds |-> EntryOf(clearing.offers, f, [capacity |-> 0]).capacity],
     produced |-> [f \in PoolIds |-> Produced(EntryOf(sales, f, NoSale))],
     bought   |-> [f \in PoolIds |-> EntryOf(purchases, f, NoPurchase).bought],
     stored   |-> [f \in PoolIds |-> pools[f].stored],
     asked    |-> [tier \in DOMAIN Tiers |-> DemandBlock[tier].capacity],
     served   |-> [tier \in DOMAIN Tiers |-> EntryOf(purchases, -tier, NoPurchase).bought]]

\* The first point the grid is back up at.
BackUpAt == point + ClearingsPerDay

\* Must-serve demand goes unserved: nothing is settled, and, unless this is the first pass
\* of a week, the grid goes down for a day.
GoDown ==
    LET limits   == FuelLimits
        clearing == ClearMarket(BookWith(limits))
        noted    == [f \in PoolIds |-> NoteRunOut(limits, clearing, f, pool[f])]
    IN  /\ Simulating
        /\ point >= grid.downUntil
        /\ IsBlackout(clearing)
        /\ pool' = noted
        /\ grid' = IF pass = "counted"
                     THEN [downUntil |-> BackUpAt,
                           blackouts |-> Append(grid.blackouts, point), peak |-> PeakNow]
                   ELSE [grid EXCEPT !.peak = PeakNow]
        /\ record' = Append(record, PointCleared(clearing, "blackout", <<>>, <<>>, noted))
        /\ point' = point + 1
        /\ UNCHANGED <<input, pass, tank>>

Trade ==
    LET limits   == FuelLimits
        cleared  == ClearMarket(BookWith(limits))
        clearing == Settled(cleared)
        settled  == SettleClearing(clearing)
        sale     == [f \in PoolIds |-> EntryOf(settled.sales, f, NoSale)]
        purchase == [f \in PoolIds |-> EntryOf(settled.purchases, f, NoPurchase)]
        After(f) == Bought(f, Sold(f, NoteRunOut(limits, cleared, f, pool[f]), sale[f]), purchase[f])
        pools    == [f \in PoolIds |-> After(f)]
        Burned(t) == SumFunctionOnSet([f \in PoolIds |-> Produced(sale[f]) * Plants[f].use],
                                      { f \in PoolIds : BurnsLimitedFuel(f) /\ TankOf(f) = t })
    IN  /\ Simulating
        /\ point >= grid.downUntil
        /\ ~IsBlackout(cleared)
        /\ pool' = pools
        /\ tank' = [t \in Tanks |-> AtLeast(0, tank[t] - Burned(t))]
        /\ grid' = [grid EXCEPT !.peak = PeakNow]
        /\ record' = Append(record, PointCleared(clearing, "trade", settled.sales, settled.purchases,
                                                 pools))
        /\ point' = point + 1
        /\ UNCHANGED <<input, pass>>

\* A slip: the second pass goes on with the pools of the first.
PoolsGoOn == pool

\* The second pass starts afresh, but for the charge the first ended with.
PoolsAfresh == [f \in PoolIds |-> NewPool(pool[f].stored)]

EndPass ==
    /\ pass # "over"
    /\ point = PointCount
    /\ IF pass = "warming"
         THEN /\ pass' = "counted"
              /\ point' = 0
              /\ pool' = PoolsAfresh
              /\ tank' = FullTanks
              /\ grid' = NewGrid
              /\ record' = <<>>
       ELSE /\ pass' = "over"
            /\ UNCHANGED <<point, pool, tank, grid, record>>
    /\ UNCHANGED input

Next == StayDown \/ GoDown \/ Trade \/ EndPass

Spec == Init /\ [][Next]_vars
=============================================================================
