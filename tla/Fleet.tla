------------------------------- MODULE Fleet --------------------------------
(***************************************************************************)
(* What a player owns: facilities counted per type and per Round they were *)
(* bought in, how long each works, the energy its storage holds, and which *)
(* types the session offers.  Pure operators over                          *)
(*                                                                         *)
(*   owned     \in [Facilities -> [Rounds -> Nat]]   copies, by Round built *)
(*   selection \in [Facilities -> Nat]               copies picked          *)
(*   stored    \in [Facilities -> Nat]               energy, 0 if none      *)
(*   unlocks, a set of [facility, round]                                   *)
(*                                                                         *)
(* Money is counted in millions.  A type that the code does not limit has  *)
(* a limit here, which only bounds the model.                              *)
(***************************************************************************)
EXTENDS Integers, Sequences, FiniteSets, FiniteSetsExt, Functions

CONSTANTS
    Facilities,   \* the facility types of the catalog
    Catalog,      \* type -> its catalog entry: see CatalogAssumption
    MaxRounds,    \* bound: no session has more Rounds than this
    Starting,     \* types every session starts with
    Upgrades,     \* base tier -> the upgrade that investing in it unlocks
    ThresholdShare, \* base tier -> percent of all starting budgets that unlocks it
    CspSolar,     \* the types that unlock from a set Round: Concentrated solar power
    CspUnlockRound,
    FullSeasonStorage, \* types the storage lever unlocks
    Fuels,
    NoFuel

ASSUME CatalogAssumption ==
    /\ IsFiniteSet(Facilities) /\ IsFiniteSet(Fuels)
    /\ MaxRounds \in Nat \ {0}
    /\ NoFuel \notin Fuels
    /\ \A f \in Facilities :
         Catalog[f] \in [category: STRING, price: Nat, short: Seq([rounds: Nat, price: Nat]),
                         life: Nat \ {0}, lag: Nat, maxOwned: Nat \ {0},
                         capacity: Nat, fuel: Fuels \cup {NoFuel}, burn: Nat]

Rounds == 1..MaxRounds
WORKSHOP_STARTING_BUDGET == 50

AtLeastZero(n) == IF n > 0 THEN n ELSE 0
Least(m, n)    == IF m < n THEN m ELSE n

\* The price for the length the session started with, before any shock: the first of
\* the type's short-session prices that a session of n Rounds is short enough for.
SessionPrice(f, n) ==
    LET fits == { i \in DOMAIN Catalog[f].short : n <= Catalog[f].short[i].rounds }
    IN  IF fits = {} THEN Catalog[f].price ELSE Catalog[f].short[Min(fits)].price

UnderConstruction(f, built, r) == r < built + Catalog[f].lag

\* Rounds a copy still works for at Round r, counting r.
LifetimeLeft(f, built, r) ==
    IF UnderConstruction(f, built, r) THEN Catalog[f].life
    ELSE AtLeastZero(built + Catalog[f].lag + Catalog[f].life - r)

IsOperating(f, built, r) ==
    ~UnderConstruction(f, built, r) /\ LifetimeLeft(f, built, r) > 0

OperatingCount(owned, f, r) ==
    SumFunctionOnSet(owned[f], { b \in 1..r : IsOperating(f, b, r) })

Operating(owned, r) == { f \in Facilities : OperatingCount(owned, f, r) > 0 }

Retired(owned, r) ==
    [f \in Facilities |->
       [b \in Rounds |-> IF LifetimeLeft(f, b, r) > 0 THEN owned[f][b] ELSE 0]]

\* maxOwned counts the copies owned, built or not, and those selected.
AtLimit(owned, selection, f) ==
    SumFunction(owned[f]) + selection[f] >= Catalog[f].maxOwned

NothingSelected == [f \in Facilities |-> 0]
NothingOwned    == [f \in Facilities |-> [b \in Rounds |-> 0]]

SelectionCost(selection, price) ==
    SumFunction([f \in Facilities |-> selection[f] * price[f]])

StorageCapacity(f, owned, r) == Catalog[f].capacity * OperatingCount(owned, f, r)

\* A slip: only the types still operating are looked at.
KeepWhatFitsOperating(stored, owned, r) ==
    [f \in Facilities |-> IF f \in Operating(owned, r)
                            THEN Least(stored[f], StorageCapacity(f, owned, r)) ELSE stored[f]]

KeepWhatFits(stored, owned, r) ==
    [f \in Facilities |-> Least(stored[f], StorageCapacity(f, owned, r))]

IsStorage(f) == Catalog[f].capacity > 0

(***************************************************************************)
(* Unlocks.                                                                *)
(***************************************************************************)
Allowed(f, storage) ==
    ~IsStorage(f) \/ storage = "all"
      \/ (storage = "batteries" /\ Catalog[f].category = "batteries")

AvailableFacilities(storage, unlocked) ==
    { f \in Starting \cup FullSeasonStorage \cup unlocked : Allowed(f, storage) }

\* Whether 100 * spent reaches the share of `players` starting budgets.
ReachesThreshold(base, spent, players) ==
    spent > 0 /\ 100 * spent >= ThresholdShare[base] * players * WORKSHOP_STARTING_BUDGET

RoundEndUnlocks(next, spent, players, unlocked) ==
    { [facility |-> Upgrades[b], round |-> next] :
        b \in { x \in DOMAIN Upgrades : /\ Upgrades[x] \notin unlocked
                                        /\ ReachesThreshold(x, spent[x], players) } }
    \cup { [facility |-> f, round |-> next] :
             f \in { x \in CspSolar : next >= CspUnlockRound /\ x \notin unlocked } }

FormatLeverUnlocks(r, storage, unlocked) ==
    { [facility |-> f, round |-> r] :
        f \in { x \in FullSeasonStorage : storage = "all" /\ x \notin unlocked } }
=============================================================================
