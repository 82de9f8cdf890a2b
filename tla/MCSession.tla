----------------------------- MODULE MCSession ------------------------------
(***************************************************************************)
(* Small instances of the session for TLC.  Each run's .cfg picks one      *)
(* catalog and the inputs its question needs, and leaves the others empty. *)
(***************************************************************************)
EXTENDS SessionProperties

\* Facility types.  Money is in millions: a starting budget is 50, the floor 35.
Wind    == [category |-> "wind", price |-> 20, short |-> <<>>, life |-> 1,
            lag |-> 0, maxOwned |-> 1, capacity |-> 0, fuel |-> "none", burn |-> 0]
Coal    == [category |-> "coal", price |-> 20, short |-> <<>>, life |-> 2,
            lag |-> 0, maxOwned |-> 2, capacity |-> 0, fuel |-> "coal", burn |-> 2]
Plant   == [category |-> "coal", price |-> 30,
            short |-> <<[rounds |-> 1, price |-> 20], [rounds |-> 2, price |-> 26]>>, life |-> 2,
            lag |-> 1, maxOwned |-> 2, capacity |-> 0, fuel |-> "none", burn |-> 0]
Battery == [category |-> "batteries", price |-> 10, short |-> <<>>, life |-> 1,
            lag |-> 0, maxOwned |-> 2, capacity |-> 2, fuel |-> "none", burn |-> 0]
Hydrogen == [category |-> "hydrogen", price |-> 10, short |-> <<>>, life |-> 2,
             lag |-> 0, maxOwned |-> 1, capacity |-> 2, fuel |-> "none", burn |-> 0]

AnyFacility == [wind |-> Wind, coal |-> Coal, plant |-> Plant, battery |-> Battery,
                hydrogen |-> Hydrogen, windTwo |-> [Wind EXCEPT !.life = 2],
                csp |-> [Wind EXCEPT !.category = "solar", !.price = 30]]
MCCatalog == [f \in Facilities |-> AnyFacility[f]]

\* Events, one pick each.
AnyEvent == [shock |-> [category |-> "capex", boundary |-> "round", seasons |-> {},
                        kind |-> "facility_capex_multiplier", target |-> {"coal", "wind"},
                        percent |-> 150],
             levy  |-> [category |-> "climate", boundary |-> "trading_period", seasons |-> Seasons,
                        kind |-> "revenue_tax", target |-> {}, percent |-> 50]]
MCEvent == [e \in Picks |-> AnyEvent[e]]

\* Players differ only in what they do: sound for safety, which is all these runs check.
AnyPlayer  == Permutations(Admitted)

NoUpgrades == [x \in {} |-> "none"]
NoShares   == [x \in {} |-> 100]
OneUnit    == [u \in Fuels |-> 1]
MCTimers   == [investment |-> 8, priceSetting |-> 5]
OneTimer   == {MCTimers}
TwoTimers  == {MCTimers, [investment |-> 10, priceSetting |-> 5]}

WindUpgrade  == [wind |-> "windTwo"]
WindShare    == [wind |-> 40]

VoteOn       == [vote |-> TRUE]
ProposeVote  == {VoteOn}
PlanChanges  == {VoteOn, [format |-> "full_season", storage |-> "all"],
                 [format |-> "representative_week"]}
ManualOn     == [procurement |-> "manual"]
ManualOff    == [procurement |-> "automatic"]
FuelChanges  == {ManualOn, ManualOff}
StorageChanges == {[format |-> "full_season", storage |-> "all"], [storage |-> "off"]}
=============================================================================
