------------------------------- MODULE Market -------------------------------
(***************************************************************************)
(* The electricity market of both modes (sim/market.py, settlement.py): a  *)
(* book of supply offers and demand bids, its uniform-price clearing, and  *)
(* what each entry sells, dumps and buys.  Power is in tenths of a watt,   *)
(* so that MIN_SETTLED_QUANTITY is one; a price is per unit of power.      *)
(***************************************************************************)
EXTENDS Integers, Sequences, FiniteSetsExt, Functions

MIN_SETTLED_QUANTITY == 1

\* math.inf: above every price of an offer.
Unbounded == 1000000

AtMost(a, b)  == IF a < b THEN a ELSE b
AtLeast(a, b) == IF a > b THEN a ELSE b

EmptyMarket == [offers |-> <<>>, demands |-> <<>>]

\* An entry.  Its cumulative capacity is set when it is put into merit order.
Entry(owner, capacity, price, mustRun) ==
    [owner |-> owner, capacity |-> capacity, price |-> price, mustRun |-> mustRun, cumul |-> 0]

PlaceAsk(market, owner, capacity, price, mustRun) ==
    IF capacity > 0
      THEN [market EXCEPT !.offers = Append(@, Entry(owner, capacity, price, mustRun))]
    ELSE market

PlaceBid(market, owner, demand, price) ==
    IF demand > 0 THEN [market EXCEPT !.demands = Append(@, Entry(owner, demand, price, FALSE))]
    ELSE market

(***************************************************************************)
(* Merit order: offers from the cheapest, demands from the dearest, and    *)
(* entries at one price in the order they were placed in.                  *)
(***************************************************************************)
Ranked(entries, Before(_, _)) ==
    LET Place(i)  == Cardinality({ j \in DOMAIN entries : Before(j, i) }) + 1
        At(k)     == CHOOSE i \in DOMAIN entries : Place(i) = k
        Upto(k)   == { i \in DOMAIN entries : Place(i) <= k }
        Cumul(k)  == SumFunctionOnSet([i \in DOMAIN entries |-> entries[i].capacity], Upto(k))
    IN  [k \in DOMAIN entries |-> [entries[At(k)] EXCEPT !.cumul = Cumul(k)]]

MeritOrder(entries, descending) ==
    LET Before(i, j) ==
            \/ IF descending THEN entries[i].price > entries[j].price
                             ELSE entries[i].price < entries[j].price
            \/ entries[i].price = entries[j].price /\ i < j
    IN  Ranked(entries, Before)

(***************************************************************************)
(* Where supply meets demand.  Going up in cumulative capacity, an offer   *)
(* before a demand that ends where it does, each entry used up moves its   *)
(* side on to its next price, and the market clears at the first of them   *)
(* after which the next bid is below the next offer, or no offer is left.  *)
(***************************************************************************)
NextAsk(offers, used)  == IF used < Len(offers) THEN offers[used + 1].price ELSE Unbounded
NextBid(demands, used) == IF used < Len(demands) THEN demands[used + 1].price ELSE -Unbounded

\* The bid that stands when the i-th offer is used up, and the ask when the j-th demand is.
BidAt(offers, demands, i) ==
    NextBid(demands, Cardinality({ j \in DOMAIN demands : demands[j].cumul < offers[i].cumul }))

AskAt(offers, demands, j) ==
    NextAsk(offers, Cardinality({ i \in DOMAIN offers : offers[i].cumul <= demands[j].cumul }))

\* A slip: prices alone are compared, and an unbounded bid is not below an offer that is not there.
OffersThatStopByPrice(offers, demands) ==
    { i \in DOMAIN offers : BidAt(offers, demands, i) < NextAsk(offers, i) }

OffersThatStop(offers, demands) ==
    { i \in DOMAIN offers : \/ BidAt(offers, demands, i) < NextAsk(offers, i)
                            \/ NextAsk(offers, i) = Unbounded }

DemandsThatStop(offers, demands) ==
    { j \in DOMAIN demands : NextBid(demands, j) < AskAt(offers, demands, j) }

MarketOptimum(offers, demands) ==
    IF offers = <<>> \/ demands = <<>> THEN [price |-> 0, quantity |-> 0]
    ELSE IF offers[1].price > demands[1].price
      THEN [price |-> demands[1].price, quantity |-> 0]
    ELSE LET atOffer  == { offers[i].cumul : i \in OffersThatStop(offers, demands) }
             atDemand == { demands[j].cumul : j \in DemandsThatStop(offers, demands) }
             quantity == Min(atOffer \cup atDemand)
         IN  [quantity |-> quantity,
              price    |-> IF quantity \in atOffer
                             THEN BidAt(offers, demands,
                                        CHOOSE i \in DOMAIN offers : offers[i].cumul = quantity)
                           ELSE AskAt(offers, demands,
                                      CHOOSE j \in DOMAIN demands : demands[j].cumul = quantity)]

ClearMarket(market) ==
    LET offers  == MeritOrder(market.offers, FALSE)
        demands == MeritOrder(market.demands, TRUE)
        optimum == MarketOptimum(offers, demands)
    IN  [price |-> optimum.price, quantity |-> optimum.quantity,
         offers |-> offers, demands |-> demands]

\* How much of an entry clears.
Cleared(entry, quantity) ==
    IF entry.cumul > quantity
      THEN AtLeast(0, AtMost(entry.capacity, entry.capacity - entry.cumul + quantity))
    ELSE entry.capacity
Unmet(entry, quantity) == entry.capacity - Cleared(entry, quantity)

(***************************************************************************)
(* Settling a clearing.  What an entry that clears in part trades is       *)
(* nothing if it is next to nothing.  Must-run power that does not sell is *)
(* dumped, wherever its offer stands.                                      *)
(***************************************************************************)
Traded(entry, quantity) ==
    IF entry.cumul <= quantity THEN entry.capacity
    ELSE IF Cleared(entry, quantity) > MIN_SETTLED_QUANTITY THEN Cleared(entry, quantity)
    ELSE 0

\* A slip: only the marginal offer's unsold power is dumped.
DumpedAtMargin(entry, quantity) ==
    IF entry.mustRun /\ Cleared(entry, quantity) > 0
      THEN entry.capacity - Traded(entry, quantity) ELSE 0

Dumped(entry, quantity) ==
    IF entry.mustRun THEN entry.capacity - Traded(entry, quantity) ELSE 0

Sale(clearing, entry) ==
    LET sold   == Traded(entry, clearing.quantity)
        dumped == Dumped(entry, clearing.quantity)
    IN  [owner |-> entry.owner, sold |-> sold, dumped |-> dumped,
         revenue |-> sold * clearing.price]

Purchase(clearing, entry) ==
    LET bought == Traded(entry, clearing.quantity)
    IN  [owner |-> entry.owner, bought |-> bought, unserved |-> entry.capacity - bought,
         cost |-> bought * clearing.price]

SettleClearing(clearing) ==
    [sales     |-> [k \in DOMAIN clearing.offers |-> Sale(clearing, clearing.offers[k])],
     purchases |-> [k \in DOMAIN clearing.demands |-> Purchase(clearing, clearing.demands[k])]]
=============================================================================
