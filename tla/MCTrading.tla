----------------------------- MODULE MCTrading ------------------------------
(***************************************************************************)
(* Small instances for TLC: a period of two days of two settlement points, *)
(* with ann's wind and two plants that burn one fuel, and ben's storage;   *)
(* or a book that is filled in any way.  The two share no state: a book is *)
(* filled before one of the periods begins, and none begins after it.      *)
(***************************************************************************)
EXTENDS TradingProperties, MarketBook

MCPlants ==
    << [player |-> "ann", kind |-> "renewable", power |-> 8, capacity |-> 0, fuel |-> "", use |-> 0],
       [player |-> "ann", kind |-> "fuel", power |-> 6, capacity |-> 0, fuel |-> "gas", use |-> 2],
       [player |-> "ann", kind |-> "fuel", power |-> 6, capacity |-> 0, fuel |-> "gas", use |-> 1],
       [player |-> "ben", kind |-> "storage", power |-> 6, capacity |-> 12, fuel |-> "", use |-> 0] >>

MCTiers == << [share |-> 100, bid |-> Unbounded], [share |-> 30, bid |-> 4] >>

\* Prices at the tier's bid, below and above it; ben may even bid more than he asks.
MCInputs ==
    { [fullSeason |-> full, manual |-> manual, earlier |-> earlier,
       sell |-> <<wind, 3, gas, battery>>, buy |-> <<0, 0, 0, charge>>,
       stored |-> <<0, 0, 0, stored>>, fuel |-> [t \in {<<"ann", "gas">>} |-> fuel],
       weather |-> weather, demand |-> demand] :
         full, manual \in BOOLEAN, earlier \in {0, 1}, wind \in {-1, 4}, gas \in {2, 4},
         battery \in {1, 5}, charge \in {2, 5}, stored \in {0, 12}, fuel \in {8, 24},
         weather \in {<<1, 1, 0, 0>>, <<0, 1, 1, 1>>}, demand \in {<<10, 10, 20, 10>>, <<8, 20, 10, 8>>} }

FillingBook ==
    /\ point = 0 /\ input = CHOOSE i \in MCInputs : i.fullSeason
    /\ PlaceEntry
    /\ UNCHANGED vars

MCInit == Init /\ NewBook
MCNext == (market = EmptyMarket /\ Next /\ UNCHANGED market) \/ FillingBook
MCSpec == MCInit /\ [][MCNext]_<<vars, market>>
=============================================================================
