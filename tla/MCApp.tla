------------------------------- MODULE MCApp --------------------------------
(***************************************************************************)
(* A small instance of the app for TLC: one player, one facility type.     *)
(***************************************************************************)
EXTENDS WorkshopApp

Wind == [category |-> "wind", price |-> 20, short |-> <<>>, life |-> 1,
         lag |-> 0, maxOwned |-> 1, capacity |-> 0, fuel |-> "none", burn |-> 0]
MCCatalog  == [f \in Facilities |-> Wind]
MCEvent    == [e \in Picks |-> [category |-> "none", boundary |-> "round", seasons |-> {}]]
NoUpgrades == [x \in {} |-> "none"]
NoShares   == [x \in {} |-> 100]
OneUnit    == [u \in Fuels |-> 1]
MCTimers   == [investment |-> 8, priceSetting |-> 5]
OneTimer   == {MCTimers}
=============================================================================
