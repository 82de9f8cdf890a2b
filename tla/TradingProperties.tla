------------------------- MODULE TradingProperties --------------------------
(***************************************************************************)
(* What a Trading period's simulation promises the session and players.    *)
(***************************************************************************)
EXTENDS TradingPeriod

PointsDone == DOMAIN record
Did(k)     == record[k].state
SumOf(S, Of(_)) == SumFunction([x \in S |-> Of(x)])

\* At each point, either must-serve demand is served, whatever the players ask for their
\* power, or nobody sells, buys or loses stored energy: no player profits from a blackout,
\* and the consumers are never cut to charge a storage.  Demand that is met but for what is
\* too small to settle can be itself too small to settle.
MustServeComesFirst ==
    \A k \in PointsDone :
       LET r    == record[k]
           Before(f) == IF k > 1 THEN record[k - 1].stored[f] ELSE r.stored[f]
       IN  IF Did(k) = "trade"
             THEN \/ r.served[MustServe] >= r.asked[MustServe] - MIN_SETTLED_QUANTITY
                  \/ r.asked[MustServe] <= 2 * MIN_SETTLED_QUANTITY
           ELSE /\ \A f \in PoolIds : r.produced[f] = 0 /\ r.bought[f] = 0 /\ r.stored[f] = Before(f)
                /\ \A tier \in DOMAIN Tiers : r.served[tier] = 0

\* A blackout keeps the grid down for a day, no more and no less, so that a period has at
\* most one a day; and the first pass of a week, which starts from empty, has none.
DownForADay ==
    LET out == { grid.blackouts[i] : i \in DOMAIN grid.blackouts }
    IN  /\ pass = "warming" => out = {} /\ \A k \in PointsDone : Did(k) # "down"
        /\ pass # "warming" => out = { k - 1 : k \in { q \in PointsDone : Did(q) = "blackout" } }
        /\ \A k \in PointsDone :
              Did(k) = "down" <=> \E b \in out : k - 1 \in b + 1..b + ClearingsPerDay - 1

\* The demand bid at a point is rationed once for each blackout before it, in the Round's
\* earlier periods and in this one; the peak, which later Rounds' blackouts are measured
\* by, is of demand as it would have been.
DemandIsRationed ==
    /\ \A k \in PointsDone :
          LET before == Cardinality({ i \in DOMAIN grid.blackouts : grid.blackouts[i] < k - 1 })
          IN  Did(k) # "down" =>
                \A tier \in DOMAIN Tiers :
                   record[k].asked[tier] = Rationed(Nominal(k - 1, tier), input.earlier + before)
    /\ \A k \in PointsDone : grid.peak >= Nominal(k - 1, MustServe)

\* A blackout harms everyone alike, for a day, and rations the days after it.  A point the
\* grid is down at is in the record as any other.
BlackoutsAreKept ==
    Len(record) = point /\ MustServeComesFirst /\ DownForADay /\ DemandIsRationed

\* Energy is conserved: what a storage holds is what it started with, plus what it bought
\* and less what it sold, with the losses of both; so it never sells what it does not
\* hold, nor pays for what it has no room for, even if it does both at one point.
StorageHoldsWhatItBought ==
    \A k \in PointsDone, f \in PoolIds :
       Is(f, "storage") /\ k > 1 =>
         /\ record[k].stored[f] = record[k - 1].stored[f] + Through(record[k].bought[f])
                                    - DrawnFor(record[k].produced[f])
         /\ record[k].stored[f] \in 0..Plants[f].capacity

\* A player's pools never burn more than the stock between them, though each offers
\* before any of them has sold, and what the session then pays for, scaled to the season,
\* is within what the player held.
FuelIsWithinStock ==
    input.manual =>
      \A t \in Tanks :
         LET sharing == { f \in PoolIds : Is(f, "fuel") /\ TankOf(f) = t }
             Output(f) == SumOf(PointsDone, LAMBDA k : record[k].produced[f])
             burned  == SumOf(sharing, LAMBDA f : Output(f) * Plants[f].use)
         IN  /\ burned + tank[t] = FullTanks[t]
             /\ burned = SumOf(sharing, LAMBDA f : pool[f].burned)
             /\ burned * Scale <= input.fuel[t]

\* Fuel held for an offer that does not sell is never fuel a cheaper one could have sold:
\* if a pool's offer is cut short, what a dearer one of the same fuel offers is no more
\* than the cheaper one has no use for.
CheaperOfferGetsTheFuel ==
    \A k \in PointsDone, f, g \in PoolIds :
       /\ Did(k) = "trade" /\ input.manual
       /\ Is(f, "fuel") /\ Is(g, "fuel") /\ TankOf(f) = TankOf(g)
       /\ Cheaper(f, g)
       /\ record[k].offered[f] < Plants[f].power
       => record[k].offered[g] * Plants[g].use < Plants[f].use

\* Over a period, what the players earned from each other and the consumers is what the
\* consumers paid, but for trades too small to settle: of the pass that counts, no more
\* and no less, at prices from what dumping costs to scarcity.
ConsumersPayThePlayers ==
    LET earned == SumOf(PoolIds, LAMBDA f : pool[f].revenue - pool[f].purchaseCost)
        Served(k) == SumOf(DOMAIN Tiers, LAMBDA tier : record[k].served[tier])
        paid   == SumOf(PointsDone, LAMBDA k : record[k].price * Served(k))
        slack  == SumOf(PointsDone, LAMBDA k : MIN_SETTLED_QUANTITY * AtLeast(record[k].price,
                                                                              -record[k].price))
    IN  /\ earned - paid \in -slack..slack
        /\ \A k \in PointsDone : Did(k) = "trade" => record[k].price \in PRICE_FLOOR..SCARCITY_PRICE

-----------------------------------------------------------------------------
(***************************************************************************)
(* Running out of fuel.  Against what f would sell at the point to come,   *)
(* had it all the fuel it can burn.                                        *)
(***************************************************************************)
SoldBy(f, limits) ==
    LET c == ClearMarket(BookWith(limits))
    IN  IF IsBlackout(c) THEN 0
        ELSE SumOf({ k \in DOMAIN c.offers : c.offers[k].owner = f },
                   LAMBDA k : Cleared(c.offers[k], c.quantity))
WouldSellMore(f) ==
    SoldBy(f, [FuelLimits EXCEPT ![f] = Plants[f].power]) > SoldBy(f, FuelLimits)

\* Whoever would have sold more with more fuel is told that they ran out of it, at each
\* point with any offer, or any must-serve demand to speak of.  At one with neither the
\* market names no price, and the code takes it for zero: nobody who asks more is told.
AnyToTrade(r) ==
    \/ r.asked[MustServe] > MIN_SETTLED_QUANTITY
    \/ \E f \in PoolIds : r.offered[f] > 0

NotesMissedSales ==
    \A f \in PoolIds :
       /\ Len(record') > Len(record)
       /\ record'[Len(record')].state # "down" /\ AnyToTrade(record'[Len(record')])
       /\ FuelShort(FuelLimits, f) /\ WouldSellMore(f)
       => pool'[f].ranOut

MissedSalesAreNoted == [][NotesMissedSales]_vars

\* A stock of fuel is shared between the pools that burn it: never burned twice, never kept
\* from a cheaper offer, and not silently short.
FuelIsShared == []FuelIsWithinStock /\ []CheaperOfferGetsTheFuel /\ MissedSalesAreNoted
=============================================================================
