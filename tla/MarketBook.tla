----------------------------- MODULE MarketBook -----------------------------
(***************************************************************************)
(* A market's book as it is filled, and what its clearing promises at any  *)
(* time: for any offers and bids, placed in any order.                     *)
(***************************************************************************)
EXTENDS Market

CONSTANTS
    Capacities,  \* what an entry may offer or ask for
    AskPrices, BidPrices,
    MaxAsks, MaxBids   \* bounds of the model

\* Prices are finite, but for a bid at no limit: that is what Unbounded stands for.
ASSUME BookAssumption ==
    /\ Capacities \subseteq Nat \ {0}
    /\ AskPrices \subseteq 1 - Unbounded..Unbounded - 1
    /\ BidPrices \subseteq 1 - Unbounded..Unbounded

VARIABLE market

NewBook == market = EmptyMarket

Ask(capacity, price, mustRun) ==
    /\ Len(market.offers) < MaxAsks
    /\ market' = PlaceAsk(market, Len(market.offers) + 1, capacity, price, mustRun)

Bid(demand, price) ==
    /\ Len(market.demands) < MaxBids
    /\ market' = PlaceBid(market, Len(market.demands) + 1, demand, price)

PlaceEntry ==
    \/ \E capacity \in Capacities, price \in AskPrices, mustRun \in BOOLEAN :
          Ask(capacity, price, mustRun)
    \/ \E demand \in Capacities, price \in BidPrices : Bid(demand, price)

BookSpec == NewBook /\ [][PlaceEntry]_market

-----------------------------------------------------------------------------
Clearing   == ClearMarket(market)
Settlement == SettleClearing(Clearing)
Total(entries, Of(_)) == SumFunction([k \in DOMAIN entries |-> Of(entries[k])])

\* Whatever the book, the market clears exactly as much as can be traded to the benefit
\* of both sides: the most power that offers at or below a price supply and bids at or
\* above it ask for; and no walk over the book's steps may stop earlier or go on too far
\* (market_optimum).
Offered(price) == Total(market.offers, LAMBDA e : IF e.price <= price THEN e.capacity ELSE 0)
AskedFor(price) == Total(market.demands, LAMBDA e : IF e.price >= price THEN e.capacity ELSE 0)
MostIsTraded ==
    LET prices == { market.offers[i].price : i \in DOMAIN market.offers }
                    \cup { market.demands[j].price : j \in DOMAIN market.demands }
    IN  Clearing.quantity = Max({0} \cup { AtMost(Offered(p), AskedFor(p)) : p \in prices })

\* Nobody sells below their price or buys above it, and whoever is left with power or
\* demand would have had to ask less, or bid more, than the price all others got.  The
\* empty book and one without offers have no price to speak of.
PriceSuitsEveryone ==
    market.offers # <<>> /\ market.demands # <<>> =>
       LET c == Clearing
       IN  /\ \A k \in DOMAIN c.offers :
                 /\ Cleared(c.offers[k], c.quantity) > 0 => c.offers[k].price <= c.price
                 /\ Unmet(c.offers[k], c.quantity) > 0 => c.offers[k].price >= c.price
           /\ \A k \in DOMAIN c.demands :
                 /\ Cleared(c.demands[k], c.quantity) > 0 => c.demands[k].price >= c.price
                 /\ Unmet(c.demands[k], c.quantity) > 0 => c.demands[k].price <= c.price

\* What sellers earn is what buyers pay, but for the one entry whose trade is too small
\* to settle; and so is the power, of which that which must run is sold or dumped whole.
BooksBalance ==
    LET sold    == Total(Settlement.sales, LAMBDA s : s.sold)
        bought  == Total(Settlement.purchases, LAMBDA p : p.bought)
        revenue == Total(Settlement.sales, LAMBDA s : s.revenue)
        cost    == Total(Settlement.purchases, LAMBDA p : p.cost)
        mustRun == Total(market.offers, LAMBDA e : IF e.mustRun THEN e.capacity ELSE 0)
        forced  == { k \in DOMAIN Clearing.offers : Clearing.offers[k].mustRun }
    IN  /\ sold - bought \in -MIN_SETTLED_QUANTITY..MIN_SETTLED_QUANTITY
        /\ revenue - cost = (sold - bought) * Clearing.price
        /\ mustRun = SumFunction([k \in forced |->
                                    Settlement.sales[k].sold + Settlement.sales[k].dumped])

\* Among offers at one price, power sells in the order it was offered in; among bids at
\* one price, the first is served first (merit_order's stable sort).
FirstComeFirstServed ==
    LET c == Clearing
        InTurn(entries) ==
            \A j, k \in DOMAIN entries :
               /\ entries[j].price = entries[k].price
               /\ entries[j].owner < entries[k].owner
               /\ Cleared(entries[k], c.quantity) > 0
               => Unmet(entries[j], c.quantity) = 0
    IN  InTurn(c.offers) /\ InTurn(c.demands)

\* A clearing is the best trade there is: as much as can be, at a price that suits every
\* entry, and in turn among those who ask for the same.
BestTrade == MostIsTraded /\ PriceSuitsEveryone /\ FirstComeFirstServed
=============================================================================
