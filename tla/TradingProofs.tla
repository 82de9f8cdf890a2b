--------------------------- MODULE TradingProofs ----------------------------
(***************************************************************************)
(* Proofs about a Trading period's simulation, for any plants, tiers,      *)
(* inputs and days.                                                        *)
(***************************************************************************)
EXTENDS TradingProperties, MarketProofs

-----------------------------------------------------------------------------
(***************************************************************************)
(* Folds from the left.                                                    *)
(***************************************************************************)
\* The first n places of a sequence, from which a fold from the left picks the last.
LastOf(n) == [s \in SUBSET (1..n) |-> Max(s)]

\* A fold from the left over n places is a recursion over them.
LEMMA LeftFoldsExist ==
    ASSUME NEW n \in Nat, NEW D, NEW base \in D, NEW F,
           \A i \in 1..n, d \in D : F[<<i, d>>] \in D
    PROVE  /\ PicksFrom(LastOf(n), 1..n)
           /\ \E it : /\ IsFoldBy(LastOf(n), it, 1..n, base, F)
                      /\ \A s \in SUBSET (1..n) : it[s] \in D
<1> DEFINE S == 1..n
           pick == LastOf(n)
<1>1. IsFiniteSet(S) /\ S \subseteq Int
  BY FS_Interval
<1>2. \A s \in SUBSET S : s # {} => Max(s) \in s
  BY <1>1, FS_Subset, MaxAndMinAreIn
<1>3. PicksFrom(pick, S)
  BY <1>2 DEF PicksFrom, LastOf
<1> HIDE DEF S, pick
<1>4. PICK it : IsFoldBy(pick, it, S, base, F)
  BY <1>1, <1>3, FoldsByExist
<1>5. \A x \in S, d \in D : F[<<x, d>>] \in D
  BY DEF S
<1>6. \A s \in SUBSET S : it[s] \in D
  BY <1>1, <1>3, <1>4, <1>5, FoldByTyped
<1> QED
  BY <1>3, <1>4, <1>6 DEF S, pick

-----------------------------------------------------------------------------
(***************************************************************************)
(* What is known of plants, tiers and inputs.                              *)
(***************************************************************************)
\* Prices that players set, and those of tiers, are ones a book may have.
LEMMA PricesSuitBooks ==
    /\ Prices \subseteq Int /\ Unbounded \in Int
    /\ \A p \in Prices : /\ -Unbounded < p /\ p < Unbounded
                         /\ PRICE_FLOOR <= p /\ p <= SCARCITY_PRICE
    /\ -Unbounded < Unbounded
BY SMT DEF Prices, PRICE_FLOOR, SCARCITY_PRICE, DUMP_COST, Unbounded

\* What the session gives a simulation.
LEMMA InputIs ==
    ASSUME input \in Inputs
    PROVE  /\ input.fullSeason \in BOOLEAN /\ input.manual \in BOOLEAN /\ input.earlier \in Nat
           /\ \A f \in PoolIds :
                 /\ input.sell[f] \in Prices /\ input.buy[f] \in Prices
                 /\ input.stored[f] \in Nat
                 /\ Is(f, "storage") => input.stored[f] <= Plants[f].capacity
           /\ \A t \in Tanks : input.fuel[t] \in Nat
           /\ \A p \in 1..PointCount :
                 input.weather[p] \in 0..FullWeather /\ input.demand[p] \in Nat
<1> DEFINE i == input
<1>1. i \in Inputs
  OBVIOUS
<1> HIDE DEF i
<1>2. /\ i.fullSeason \in BOOLEAN /\ i.manual \in BOOLEAN /\ i.earlier \in Nat
      /\ i.sell \in [PoolIds -> Prices] /\ i.buy \in [PoolIds -> Prices]
      /\ i.stored \in [PoolIds -> Nat]
      /\ i.weather \in [1..PointCount -> 0..FullWeather]
      /\ i.demand \in [1..PointCount -> Nat]
  BY <1>1, InputAssumption
<1>3. \A f \in PoolIds : Plants[f].kind = "storage" => i.stored[f] <= Plants[f].capacity
  BY <1>1, InputAssumption
<1>4. \A f \in PoolIds : Plants[f].kind = "fuel"
         => i.fuel[<<Plants[f].player, Plants[f].fuel>>] \in Nat
  BY <1>1, InputAssumption
<1>5. \A t \in Tanks : i.fuel[t] \in Nat
  BY <1>4 DEF Tanks, TankOf, Is
<1> QED
  BY <1>2, <1>3, <1>5 DEF i, Is

\* The pools are finitely many.
LEMMA PoolsAreFinite == IsFiniteSet(PoolIds) /\ Len(Plants) \in Nat /\ PoolIds = 1..Len(Plants)
<1> DEFINE n == Len(Plants)
<1>1. n \in Nat /\ PoolIds = 1..n
  BY PlantAssumption
<1> HIDE DEF n
<1>2. IsFiniteSet(1..n)
  BY <1>1, FS_Interval
<1> QED
  BY <1>1, <1>2 DEF n

\* A simulated day's share of the stocks.
LEMMA FullTanksAre ==
    ASSUME input \in Inputs
    PROVE  FullTanks \in [Tanks -> Nat] /\ Scale \in Nat \ {0}
           /\ \A t \in Tanks : FullTanks[t] * Scale <= input.fuel[t]
<1>1. Scale \in Nat \ {0}
  BY TradingAssumption DEF Scale
<1>2. \A t \in Tanks : input.fuel[t] \in Nat
  BY InputIs
<1>3. ASSUME NEW a \in Nat, NEW b \in Nat \ {0} PROVE a \div b \in Nat /\ (a \div b) * b <= a
  BY <1>3, SMT
<1>4. \A t \in Tanks : FullTanks[t] = input.fuel[t] \div Scale
  BY DEF FullTanks
<1>5. ASSUME NEW t \in Tanks PROVE FullTanks[t] \in Nat /\ FullTanks[t] * Scale <= input.fuel[t]
  <2> DEFINE a == input.fuel[t]
             b == Scale
  <2>1. a \in Nat /\ b \in Nat \ {0} /\ FullTanks[t] = a \div b
    BY <1>1, <1>2, <1>4
  <2> HIDE DEF a, b
  <2>2. a \div b \in Nat /\ (a \div b) * b <= a
    BY <1>3, <2>1
  <2> QED
    BY <2>1, <2>2 DEF a, b
<1>6. FullTanks \in [Tanks -> Nat]
  <2>1. FullTanks = [t \in Tanks |-> FullTanks[t]]
    BY DEF FullTanks
  <2> QED
    BY <1>5, <2>1
<1> QED
  BY <1>1, <1>5, <1>6

-----------------------------------------------------------------------------
(***************************************************************************)
(* Fuel is reserved for the cheapest offer first.                          *)
(***************************************************************************)
Burning == { f \in PoolIds : BurnsLimitedFuel(f) }

\* fp is the pools that burn limited fuel, each once, from the cheapest offer.
InTurnOf(fp, n) ==
    /\ n \in Nat /\ fp \in [1..n -> Burning] /\ fp = FuelPools
    /\ \A i, j \in 1..n : i < j => Cheaper(fp[i], fp[j])
    /\ \A i, j \in 1..n : fp[i] = fp[j] => i = j
    /\ \A f \in Burning : \E k \in 1..n : fp[k] = f

\* The fuel pools have their turn in the order of their offers.
LEMMA FuelPoolsInTurn ==
    ASSUME input \in Inputs
    PROVE  InTurnOf(FuelPools, Cardinality(Burning))
<1> DEFINE S == Burning
           n == Cardinality(S)
           R == { fg \in S \X S : Cheaper(fg[1], fg[2]) }
           fp == FuelPools
<1>1. IsFiniteSet(S) /\ n \in Nat /\ S \subseteq PoolIds /\ S \subseteq Int
  <2>1. S \subseteq PoolIds
    BY DEF Burning
  <2> HIDE DEF S
  <2>2. IsFiniteSet(S)
    BY <2>1, PoolsAreFinite, FS_Subset
  <2> QED
    BY <2>1, <2>2, PoolsAreFinite, FS_CardinalityType
<1>2. \A f \in S : input.sell[f] \in Int
  BY <1>1, InputIs, PricesSuitBooks
<1>3. \A f, g \in S : <<f, g>> \in R <=> Cheaper(f, g)
  OBVIOUS
<1> HIDE DEF S, R
<1>4. StrictlyOrders(R, S)
  <2>1. \A f \in S : ~Cheaper(f, f)
    BY <1>1, <1>2 DEF Cheaper
  <2>2. \A f, g, h \in S : Cheaper(f, g) /\ Cheaper(g, h) => Cheaper(f, h)
    BY <1>1, <1>2 DEF Cheaper
  <2>3. \A f, g \in S : f = g \/ Cheaper(f, g) \/ Cheaper(g, f)
    <3> SUFFICES ASSUME NEW f \in S, NEW g \in S, f # g
                 PROVE  Cheaper(f, g) \/ Cheaper(g, f)
      OBVIOUS
    <3>1. f \in Int /\ g \in Int /\ input.sell[f] \in Int /\ input.sell[g] \in Int
      BY <1>1, <1>2
    <3>2. \/ f < g \/ g < f
      BY <3>1
    <3> QED
      BY <3>1, <3>2 DEF Cheaper
  <2> QED
    BY <1>3, <2>1, <2>2, <2>3 DEF StrictlyOrders
<1>5. RanksTaken(R, S, n)
  BY <1>1, <1>4, RanksAreTaken
<1>6. \A f \in S : RankOf(R, S, f) = Cardinality({ g \in S : Cheaper(g, f) }) + 1
  <2> SUFFICES ASSUME NEW f \in S
               PROVE  RankOf(R, S, f) = Cardinality({ g \in S : Cheaper(g, f) }) + 1
    OBVIOUS
  <2>1. { g \in S : <<g, f>> \in R } = { g \in S : Cheaper(g, f) }
    BY <1>3
  <2> QED
    BY <2>1 DEF RankOf
<1>7. fp = [k \in 1..n |-> CHOOSE f \in S : Cardinality({ g \in S : Cheaper(g, f) }) + 1 = k]
  BY Zenon DEF FuelPools, S, Burning
<1> HIDE DEF n, fp
<1>8. ASSUME NEW k \in 1..n PROVE fp[k] \in S /\ RankOf(R, S, fp[k]) = k
  <2>1. \E f \in S : Cardinality({ g \in S : Cheaper(g, f) }) + 1 = k
    BY <1>5, <1>6 DEF RanksTaken
  <2>2. fp[k] = CHOOSE f \in S : Cardinality({ g \in S : Cheaper(g, f) }) + 1 = k
    BY <1>7
  <2>3. fp[k] \in S /\ Cardinality({ g \in S : Cheaper(g, fp[k]) }) + 1 = k
    BY <2>1, <2>2, Zenon
  <2> QED
    BY <1>6, <2>3
<1>9. fp \in [1..n -> S]
  BY <1>7, <1>8
<1>10. \A i, j \in 1..n : fp[i] = fp[j] => i = j
  BY <1>8
<1>11. ASSUME NEW i \in 1..n, NEW j \in 1..n, i < j PROVE Cheaper(fp[i], fp[j])
  <2>1. fp[i] # fp[j] /\ fp[i] \in S /\ fp[j] \in S
    BY <1>8, <1>10, <1>11
  <2>2. CASE <<fp[j], fp[i]>> \in R
    <3>1. RankOf(R, S, fp[j]) < RankOf(R, S, fp[i])
      BY <1>5, <2>1, <2>2 DEF RanksTaken
    <3> QED
      BY <1>8, <1>11, <3>1
  <2> QED
    BY <1>3, <1>4, <2>1, <2>2 DEF StrictlyOrders
<1>12. ASSUME NEW f \in S PROVE \E k \in 1..n : fp[k] = f
  <2> DEFINE k == RankOf(R, S, f)
  <2>1. k \in 1..n
    BY <1>5 DEF RanksTaken
  <2>2. fp[k] \in S /\ RankOf(R, S, fp[k]) = k
    BY <1>8, <2>1
  <2>3. k \in Int
    BY <2>1
  <2>4. ~(RankOf(R, S, fp[k]) < k) /\ ~(k < RankOf(R, S, fp[k]))
    BY <2>2, <2>3
  <2>5. fp[k] = f
    BY <1>4, <1>5, <2>2, <2>4 DEF StrictlyOrders, RanksTaken
  <2> QED
    BY <2>1, <2>5
<1> QED
  BY <1>1, <1>9, <1>10, <1>11, <1>12 DEF InTurnOf, S, fp, n

\* What is left of each fuel, and what each pool may offer, as the pools have their turn.
Held     == [free : [Tanks -> Nat], limit : [PoolIds -> Nat]]
AllFree  == [free |-> tank, limit |-> [f \in PoolIds |-> Plants[f].power]]
Reserving(held, f) ==
    LET most == ReservedNext(held.free, f)
    IN  [free  |-> [held.free EXCEPT ![TankOf(f)] = AtLeast(0, @ - most * Plants[f].use)],
         limit |-> [held.limit EXCEPT ![f] = most]]
Reservation(n) == [kh \in (1..n) \X Held |-> Reserving(kh[2], FuelPools[kh[1]])]

\* The most that can be reserved takes no more than there is.
LEMMA ReservedIsThere ==
    ASSUME NEW a \in Nat, NEW b \in Nat \ {0}, NEW p \in Nat, NEW most, most = AtMost(a \div b, p)
    PROVE  /\ most \in Nat /\ most <= p /\ most * b \in Nat /\ most * b <= a
           /\ AtLeast(0, a - most * b) = a - most * b
           /\ most < p => a - most * b < b
<1>1. a \div b \in Nat /\ (a \div b) * b <= a /\ a - (a \div b) * b < b
  OBVIOUS
<1> DEFINE d == a \div b
<1>2. d \in Nat /\ most = IF d < p THEN d ELSE p
  BY <1>1 DEF AtMost
<1>3. d * b \in Nat /\ d * b <= a /\ a - d * b < b
  BY <1>1, <1>2
<1> HIDE DEF d
<1>4. most \in Nat /\ most <= p /\ most <= d /\ (most < p => most = d)
  BY <1>2
<1>5. ASSUME NEW x \in Nat, NEW y \in Nat, NEW z \in Nat, x <= y PROVE x * z \in Nat /\ x * z <= y * z
  BY <1>5, SMT
<1>6. most * b \in Nat /\ most * b <= d * b
  BY <1>2, <1>4, <1>5
<1> DEFINE m == most * b
           e == d * b
<1>7. m \in Nat /\ e \in Nat /\ m <= e /\ e <= a /\ a - e < b
  BY <1>3, <1>6
<1>8. most < p => m = e
  BY <1>4
<1> HIDE DEF m, e
<1>9. m <= a /\ AtLeast(0, a - m) = a - m /\ (most < p => a - m < b)
  BY <1>7, <1>8 DEF AtLeast
<1> QED
  BY <1>4, <1>6, <1>9 DEF m

\* A pool that has its turn reserves of its own stock alone, and what it could burn.
LEMMA ReservingIs ==
    ASSUME NEW held \in Held, NEW f \in Burning, NEW after, after = Reserving(held, f),
           NEW most, most = AtMost(held.free[TankOf(f)] \div Plants[f].use, Plants[f].power)
    PROVE  /\ after \in Held /\ TankOf(f) \in Tanks /\ Plants[f].use \in Nat \ {0}
           /\ most \in Nat /\ most <= Plants[f].power /\ most * Plants[f].use \in Nat
           /\ most * Plants[f].use <= held.free[TankOf(f)]
           /\ after.limit = [held.limit EXCEPT ![f] = most]
           /\ after.free = [held.free EXCEPT
                              ![TankOf(f)] = held.free[TankOf(f)] - most * Plants[f].use]
           /\ most < Plants[f].power => after.free[TankOf(f)] < Plants[f].use
<1> DEFINE a == held.free[TankOf(f)]
           b == Plants[f].use
           p == Plants[f].power
           t == TankOf(f)
<1>1. f \in PoolIds /\ Is(f, "fuel")
  BY DEF Burning, BurnsLimitedFuel
<1>2. t \in Tanks /\ b \in Nat \ {0} /\ p \in Nat
  BY <1>1, PlantAssumption DEF Tanks, Is
<1>3. held.free \in [Tanks -> Nat] /\ held.limit \in [PoolIds -> Nat]
  BY DEF Held
<1>4. a \in Nat
  BY <1>2, <1>3
<1>5. after = [free  |-> [held.free EXCEPT ![t] = AtLeast(0, a - most * b)],
               limit |-> [held.limit EXCEPT ![f] = most]]
  BY DEF Reserving, ReservedNext
<1> HIDE DEF a, b, p, t
<1>6. /\ most \in Nat /\ most <= p /\ most * b \in Nat /\ most * b <= a
      /\ AtLeast(0, a - most * b) = a - most * b
      /\ most < p => a - most * b < b
  <2>1. most = AtMost(a \div b, p)
    BY DEF a, b, p
  <2> QED
    BY <1>2, <1>4, <2>1, ReservedIsThere
<1> DEFINE left == a - most * b
<1>7. left \in Nat
  BY <1>4, <1>6
<1>8. after.free = [held.free EXCEPT ![t] = left] /\ after.limit = [held.limit EXCEPT ![f] = most]
  BY <1>5, <1>6
<1>9. after = [free |-> after.free, limit |-> after.limit]
  BY <1>5
<1>10. most < p => left < b
  BY <1>6
<1> HIDE DEF left
<1>11. /\ after.free \in [Tanks -> Nat] /\ after.limit \in [PoolIds -> Nat]
       /\ after.free[t] = left
  BY <1>1, <1>2, <1>3, <1>6, <1>7, <1>8
<1>12. after \in Held
  BY <1>9, <1>11 DEF Held
<1> QED
  BY <1>2, <1>6, <1>8, <1>10, <1>11, <1>12 DEF left, a, b, p, t

-----------------------------------------------------------------------------
(***************************************************************************)
(* The limits of fuel.                                                     *)
(***************************************************************************)
\* The first places up to one end with it.
LEMMA LastOfTheFirst ==
    ASSUME NEW n \in Nat, NEW i \in 1..n
    PROVE  /\ 1..i \in SUBSET (1..n) /\ 1..i # {}
           /\ Max(1..i) = i /\ (1..i) \ {i} = 1..(i - 1)
<1> DEFINE s == 1..i
<1>0. i \in s /\ \A y \in s : y \in Int /\ y <= i /\ y \in 1..n
  OBVIOUS
<1>1. s \in SUBSET (1..n) /\ s # {} /\ s \subseteq Int /\ i \in s /\ \A y \in s : y <= i
  BY <1>0
<1>2. IsFiniteSet(s)
  BY FS_Interval
<1>3. s \ {i} = 1..(i - 1)
  OBVIOUS
<1> HIDE DEF s
<1>4. Max(s) \in s /\ \A y \in s : y <= Max(s)
  BY <1>1, <1>2, MaxAndMinAreIn
<1>5. Max(s) \in Int /\ Max(s) <= i /\ i <= Max(s)
  BY <1>1, <1>4
<1>6. Max(s) = i
  BY <1>5
<1> QED
  BY <1>1, <1>3, <1>6 DEF s

\* A fold from the left that steps as F does from what is of type D.
FoldsFromLeft(raw, n, base, D, F) ==
    /\ raw[{}] = base
    /\ \A s \in SUBSET (1..n) :
          s # {} /\ raw[s \ {Max(s)}] \in D => raw[s] = F[<<Max(s), raw[s \ {Max(s)}]>>]

\* F steps from what is of type D to what is.
StepsWithin(n, D, F) == \A i \in 1..n, d \in D : F[<<i, d>>] \in D

\* What a fold from the left makes of a sequence is the end of a recursion over it.
LEMMA FoldedFromLeft ==
    ASSUME NEW n \in Nat, NEW D, NEW base \in D, NEW F, StepsWithin(n, D, F),
           NEW raw, FoldsFromLeft(raw, n, base, D, F)
    PROVE  \E h : /\ IsRecursion(h, n, base, F) /\ raw[1..n] = h[n]
                  /\ \A i \in 0..n : h[i] \in D
<1>1. PICK h : IsRecursion(h, n, base, F)
  BY RecursionsExist
<1>2. \A i \in 0..n : h[i] \in D
  <2>1. \A i \in 1..n, d \in D : F[<<i, d>>] \in D
    BY DEF StepsWithin
  <2> QED
    BY <1>1, <2>1, RecursionTyped
<1> DEFINE G == { i \in 0..n : raw[1..i] = h[i] }
<1>3. 0 \in G
  <2>1. 1..0 = {}
    OBVIOUS
  <2>2. h[0] = base
    BY <1>1 DEF IsRecursion
  <2> QED
    BY <2>1, <2>2 DEF FoldsFromLeft
<1>4. ASSUME NEW i \in 1..n, i - 1 \in G PROVE i \in G
  <2>1. i \in 0..n /\ i # 0 /\ i - 1 \in 0..n
    OBVIOUS
  <2>2. h[i] = F[<<i, h[i - 1]>>]
    BY <1>1, <2>1 DEF IsRecursion
  <2> DEFINE s == 1..i
  <2>3. s \in SUBSET (1..n) /\ s # {} /\ Max(s) = i /\ s \ {i} = 1..(i - 1)
    BY LastOfTheFirst
  <2> HIDE DEF s
  <2>4. raw[s \ {Max(s)}] = h[i - 1] /\ h[i - 1] \in D
    BY <1>2, <1>4, <2>1, <2>3
  <2>5. raw[s] = F[<<Max(s), raw[s \ {Max(s)}]>>]
    BY <2>3, <2>4 DEF FoldsFromLeft
  <2>6. raw[s] = h[i]
    BY <2>2, <2>3, <2>4, <2>5
  <2> QED
    BY <2>1, <2>6 DEF s
<1> HIDE DEF G
<1>5. n \in G
  BY <1>3, <1>4, CountingInduction
<1> QED
  BY <1>1, <1>2, <1>5 DEF G

\* What pools may offer for want of fuel is what they come to reserve when each has had
\* its turn.
LEMMA LimitsAreReserved ==
    ASSUME input \in Inputs, tank \in [Tanks -> Nat], NEW n, n = Cardinality(Burning)
    PROVE  \E h : /\ IsRecursion(h, n, AllFree, Reservation(n)) /\ FuelLimits = h[n].limit
                  /\ \A i \in 0..n : h[i] \in Held
<1> DEFINE F == Reservation(n)
<1>1. /\ n \in Nat /\ FuelPools \in [1..n -> Burning] /\ DOMAIN FuelPools = 1..n
  <2>1. InTurnOf(FuelPools, n)
    BY FuelPoolsInTurn
  <2> QED
    BY <2>1 DEF InTurnOf
<1>2. AllFree \in Held
  <2>1. \A f \in PoolIds : Plants[f].power \in Nat
    BY PlantAssumption
  <2> QED
    BY <2>1 DEF AllFree, Held
<1>3. \A k \in 1..n, d \in Held : F[<<k, d>>] = Reserving(d, FuelPools[k])
  BY DEF Reservation
<1>4. ASSUME NEW k \in 1..n, NEW d \in Held PROVE F[<<k, d>>] \in Held
  <2> DEFINE f == FuelPools[k]
             after == Reserving(d, f)
             most == AtMost(d.free[TankOf(f)] \div Plants[f].use, Plants[f].power)
  <2>1. f \in Burning
    BY <1>1
  <2> HIDE DEF f
  <2>2. after \in Held
    <3>1. after = Reserving(d, f) /\ most = AtMost(d.free[TankOf(f)] \div Plants[f].use, Plants[f].power)
      OBVIOUS
    <3> HIDE DEF after, most
    <3> QED
      BY <2>1, <3>1, ReservingIs
  <2> QED
    BY <1>3, <2>2 DEF f
<1> HIDE DEF F
<1> DEFINE Raw(it) == it = [s \in SUBSET (DOMAIN FuelPools) |->
                              IF s = {} THEN AllFree
                              ELSE Reserving(it[s \ {Max(s)}], FuelPools[Max(s)])]
           raw == CHOOSE it : Raw(it)
<1>5. FuelLimits = raw[DOMAIN FuelPools].limit
  BY Zenon DEF FuelLimits, FoldLeft, MapThenFoldSet, Reserving, AllFree
<1>6. \E it : Raw(it)
  <2>1. PICK it : /\ IsFoldBy(LastOf(n), it, 1..n, AllFree, F)
                  /\ \A s \in SUBSET (1..n) : it[s] \in Held
    BY <1>1, <1>2, <1>4, LeftFoldsExist
  <2>2. PicksFrom(LastOf(n), 1..n)
    BY <1>1, <1>2, <1>4, LeftFoldsExist
  <2>3. ASSUME NEW s \in SUBSET (1..n), s # {}
        PROVE  it[s] = Reserving(it[s \ {Max(s)}], FuelPools[Max(s)])
    <3>1. LastOf(n)[s] = Max(s) /\ RestBy(LastOf(n), s) = s \ {Max(s)}
      BY DEF LastOf, RestBy
    <3>2. Max(s) \in 1..n
      BY <2>2, <2>3, <3>1 DEF PicksFrom
    <3>3. it[s] = F[<<Max(s), it[s \ {Max(s)}]>>]
      BY <2>1, <2>3, <3>1 DEF IsFoldBy
    <3>4. it[s \ {Max(s)}] \in Held
      BY <2>1
    <3> QED
      BY <1>3, <3>2, <3>3, <3>4
  <2>4. it[{}] = AllFree /\ it = [s \in SUBSET (1..n) |-> it[s]]
    BY <2>1 DEF IsFoldBy
  <2>5. it = [s \in SUBSET (1..n) |-> IF s = {} THEN AllFree
                                      ELSE Reserving(it[s \ {Max(s)}], FuelPools[Max(s)])]
    BY <2>3, <2>4
  <2> QED
    BY <1>1, <2>5
<1>7. Raw(raw)
  <2> HIDE DEF Raw
  <2> QED
    BY <1>6, Zenon DEF raw
<1> HIDE DEF raw
<1>8. raw = [s \in SUBSET (1..n) |-> IF s = {} THEN AllFree
                                     ELSE Reserving(raw[s \ {Max(s)}], FuelPools[Max(s)])]
  BY <1>1, <1>7
<1>9. FoldsFromLeft(raw, n, AllFree, Held, F)
  <2>1. raw[{}] = AllFree
    BY <1>8
  <2>2. ASSUME NEW s \in SUBSET (1..n), s # {}, raw[s \ {Max(s)}] \in Held
        PROVE  raw[s] = F[<<Max(s), raw[s \ {Max(s)}]>>]
    <3>1. raw[s] = Reserving(raw[s \ {Max(s)}], FuelPools[Max(s)])
      BY <1>8, <2>2
    <3>2. Max(s) \in 1..n
      <4>1. s \in SUBSET Int
        BY <1>1
      <4> DEFINE S == 1..n
      <4>2. IsFiniteSet(S) /\ s \in SUBSET S /\ S \subseteq Int
        BY <1>1, FS_Interval
      <4> HIDE DEF S
      <4>3. IsFiniteSet(s)
        BY <4>2, FS_Subset
      <4>4. Max(s) \in s
        BY <2>2, <4>1, <4>3, MaxAndMinAreIn
      <4> QED
        BY <4>2, <4>4 DEF S
    <3> QED
      BY <1>3, <2>2, <3>1, <3>2
  <2> QED
    BY <2>1, <2>2 DEF FoldsFromLeft
<1>10. StepsWithin(n, Held, F)
  BY <1>4 DEF StepsWithin
<1> HIDE DEF Raw
<1>11. PICK h : /\ IsRecursion(h, n, AllFree, F) /\ raw[1..n] = h[n]
                /\ \A i \in 0..n : h[i] \in Held
  <2>1. n \in Nat
    BY <1>1
  <2> QED
    BY <1>2, <1>9, <1>10, <2>1, FoldedFromLeft
<1> QED
  BY <1>1, <1>5, <1>11 DEF F

\* There are limits of fuel, as of power.
LEMMA LimitsAreTyped ==
    ASSUME input \in Inputs, tank \in [Tanks -> Nat]
    PROVE  FuelLimits \in [PoolIds -> Nat]
<1> DEFINE n == Cardinality(Burning)
<1>1. PICK h : /\ FuelLimits = h[n].limit
               /\ \A i \in 0..n : h[i] \in Held
  BY LimitsAreReserved
<1>2. n \in Nat
  BY FuelPoolsInTurn DEF InTurnOf
<1> HIDE DEF n
<1>3. h[n] \in Held
  BY <1>1, <1>2
<1> QED
  BY <1>1, <1>3 DEF Held

-----------------------------------------------------------------------------
(***************************************************************************)
(* The book of a point lists what each pool offers and bids, once.         *)
(***************************************************************************)
\* Each entry is one of the owners', as listed, and each owner with an amount has one.
Lists(entries, owners, amount, price, must) ==
    /\ \A k \in DOMAIN entries :
          /\ entries[k].owner \in owners
          /\ entries[k].capacity = amount[entries[k].owner]
          /\ entries[k].price = price[entries[k].owner]
          /\ entries[k].mustRun = must[entries[k].owner]
    /\ \A k, l \in DOMAIN entries : entries[k].owner = entries[l].owner => k = l
    /\ \A o \in owners : amount[o] > 0 => \E k \in DOMAIN entries : entries[k].owner = o

\* A sequence of entries to which one is added if there is an amount of it.
With(entries, f, amount, price, must) ==
    IF amount > 0 THEN Append(entries, Entry(f, amount, price, must)) ELSE entries

\* One more owner's entry.
LEMMA ListedNext ==
    ASSUME NEW f \in Nat \ {0}, NEW amount, NEW price, NEW must,
           NEW entries \in Seq(EntryType), Lists(entries, 1..(f - 1), amount, price, must),
           amount[f] \in Nat, price[f] \in Int, must[f] \in BOOLEAN,
           NEW more,
           more = With(entries, f, amount[f], price[f], must[f])
    PROVE  more \in Seq(EntryType) /\ Lists(more, 1..f, amount, price, must)
<1>1. \A o \in 1..f : o \in 1..(f - 1) \/ o = f
  OBVIOUS
<1>2. \A o \in 1..(f - 1) : o \in 1..f /\ o # f
  OBVIOUS
<1>3. f \in 1..f
  OBVIOUS
<1>4. CASE ~(amount[f] > 0)
  <2>1. more = entries
    BY <1>4 DEF With
  <2> QED
    BY <1>1, <1>2, <1>4, <2>1 DEF Lists
<1>5. CASE amount[f] > 0
  <2> DEFINE entry == Entry(f, amount[f], price[f], must[f])
             n == Len(entries)
  <2>1. /\ entry \in EntryType /\ entry.owner = f /\ entry.capacity = amount[f]
        /\ entry.price = price[f] /\ entry.mustRun = must[f]
    BY DEF Entry, EntryType
  <2>2. more = Append(entries, entry)
    BY <1>5 DEF With
  <2> HIDE DEF entry
  <2>3. /\ more \in Seq(EntryType) /\ more[n + 1] = entry
        /\ DOMAIN more = 1..(n + 1) /\ n \in Nat
        /\ \A i \in DOMAIN entries : i \in DOMAIN more /\ more[i] = entries[i]
        /\ \A i \in DOMAIN more : i \in DOMAIN entries \/ i = n + 1
    BY <2>1, <2>2, OneMoreEntry
  <2>4. n + 1 \in DOMAIN more
    BY <2>3
  <2> HIDE DEF n
  <2>5. ASSUME NEW k \in DOMAIN more
        PROVE  /\ more[k].owner \in 1..f
               /\ more[k].capacity = amount[more[k].owner]
               /\ more[k].price = price[more[k].owner]
               /\ more[k].mustRun = must[more[k].owner]
    BY <1>2, <1>3, <2>1, <2>3 DEF Lists
  <2>6. ASSUME NEW k \in DOMAIN more, NEW l \in DOMAIN more, more[k].owner = more[l].owner
        PROVE  k = l
    <3>1. \A i \in DOMAIN entries : more[i].owner # f
      BY <1>2, <2>3 DEF Lists
    <3> QED
      BY <2>1, <2>3, <2>6, <3>1 DEF Lists
  <2>7. ASSUME NEW o \in 1..f, amount[o] > 0 PROVE \E k \in DOMAIN more : more[k].owner = o
    <3>1. CASE o = f
      BY <2>1, <2>3, <2>4, <3>1
    <3>2. CASE o \in 1..(f - 1)
      <4>1. \A x \in 1..(f - 1) : amount[x] > 0 => \E k \in DOMAIN entries : entries[k].owner = x
        BY DEF Lists
      <4>2. PICK k \in DOMAIN entries : entries[k].owner = o
        BY <2>7, <3>2, <4>1
      <4>3. k \in DOMAIN more /\ more[k].owner = o
        BY <2>3, <4>2
      <4> QED
        BY <4>3
    <3> QED
      BY <1>1, <3>1, <3>2
  <2> QED
    BY <2>3, <2>5, <2>6, <2>7 DEF Lists
<1> QED
  BY <1>4, <1>5

\* An arrangement lists what the entries do.
LEMMA ArrangedLists ==
    ASSUME NEW entries, NEW owners, NEW amount, NEW price, NEW must,
           Lists(entries, owners, amount, price, must),
           NEW out, NEW place, KeepsEntries(out, entries, place)
    PROVE  Lists(out, owners, amount, price, must)
<1>1. /\ DOMAIN out = DOMAIN entries
      /\ \A k \in DOMAIN out :
            /\ place[k] \in DOMAIN entries
            /\ out[k].owner = entries[place[k]].owner
            /\ out[k].capacity = entries[place[k]].capacity
            /\ out[k].price = entries[place[k]].price
            /\ out[k].mustRun = entries[place[k]].mustRun
      /\ \A k, l \in DOMAIN out : place[k] = place[l] => k = l
      /\ \A i \in DOMAIN entries : \E k \in DOMAIN out : place[k] = i
  BY DEF KeepsEntries
<1>2. ASSUME NEW k \in DOMAIN out
      PROVE  /\ out[k].owner \in owners
             /\ out[k].capacity = amount[out[k].owner]
             /\ out[k].price = price[out[k].owner]
             /\ out[k].mustRun = must[out[k].owner]
  <2> DEFINE e == entries[place[k]]
  <2>1. /\ place[k] \in DOMAIN entries
        /\ out[k].owner = e.owner /\ out[k].capacity = e.capacity
        /\ out[k].price = e.price /\ out[k].mustRun = e.mustRun
    BY <1>1
  <2>2. /\ e.owner \in owners /\ e.capacity = amount[e.owner]
        /\ e.price = price[e.owner] /\ e.mustRun = must[e.owner]
    BY <2>1 DEF Lists
  <2> HIDE DEF e
  <2> QED
    BY <2>1, <2>2
<1>3. ASSUME NEW k \in DOMAIN out, NEW l \in DOMAIN out, out[k].owner = out[l].owner
      PROVE  k = l
  <2>1. place[k] \in DOMAIN entries /\ place[l] \in DOMAIN entries
    BY <1>1
  <2>2. entries[place[k]].owner = entries[place[l]].owner
    BY <1>1, <1>3
  <2>3. \A i, j \in DOMAIN entries : entries[i].owner = entries[j].owner => i = j
    BY DEF Lists
  <2>4. place[k] = place[l]
    BY <2>1, <2>2, <2>3
  <2> QED
    BY <1>1, <2>4
<1>4. ASSUME NEW o \in owners, amount[o] > 0 PROVE \E k \in DOMAIN out : out[k].owner = o
  <2>1. PICK i \in DOMAIN entries : entries[i].owner = o
    <3>1. \A x \in owners : amount[x] > 0 => \E k \in DOMAIN entries : entries[k].owner = x
      BY DEF Lists
    <3> QED
      BY <1>4, <3>1
  <2>2. PICK k \in DOMAIN out : place[k] = i
    BY <1>1
  <2> QED
    BY <1>1, <2>1, <2>2
<1> QED
  BY <1>2, <1>3, <1>4 DEF Lists

\* What a pool may offer and bid for at the point to come.
Offerable(limits) ==
    [f \in PoolIds |-> IF Is(f, "renewable")
                         THEN (Plants[f].power * input.weather[point + 1]) \div FullWeather
                       ELSE IF Is(f, "storage")
                         THEN AtMost(StorageLimit(pool[f].stored), Plants[f].power)
                       ELSE limits[f]]
Chargeable ==
    [f \in PoolIds |-> IF Is(f, "storage")
                         THEN AtMost(StorageLimit(Plants[f].capacity - pool[f].stored),
                                     Plants[f].power)
                       ELSE 0]

\* When the market is to clear, storages hold what they can.
ReadyToClear ==
    /\ input \in Inputs /\ point \in 0..(PointCount - 1)
    /\ tank \in [Tanks -> Nat] /\ Len(grid.blackouts) \in Nat
    /\ \A f \in PoolIds : Is(f, "storage") => pool[f].stored \in 0..Plants[f].capacity

\* Offers and bids are for amounts, and a storage has what it offers and room for what it
\* bids for.
LEMMA AmountsAre ==
    ASSUME ReadyToClear, NEW limits \in [PoolIds -> Nat]
    PROVE  /\ Offerable(limits) \in [PoolIds -> Nat] /\ Chargeable \in [PoolIds -> Nat]
           /\ \A f \in PoolIds :
                 Is(f, "storage") =>
                    /\ DrawnFor(Offerable(limits)[f]) <= pool[f].stored
                    /\ DrawnFor(Chargeable[f]) <= Plants[f].capacity - pool[f].stored
           /\ \A f \in PoolIds : ~Is(f, "storage") => Chargeable[f] = 0
<1> DEFINE A == Offerable(limits)
           B == Chargeable
<1>1. ASSUME NEW e \in Nat, NEW p \in Nat
      PROVE  /\ AtMost(StorageLimit(e), p) \in Nat /\ DrawnFor(AtMost(StorageLimit(e), p)) <= e
  <2>1. e \div 2 \in Nat /\ (e \div 2) * 2 <= e
    OBVIOUS
  <2> DEFINE d == e \div 2
  <2>2. StorageLimit(e) = d
    BY DEF StorageLimit, Through, AtLeast
  <2>3. d \in Nat /\ d * 2 <= e
    BY <2>1
  <2> HIDE DEF d
  <2> QED
    BY <2>2, <2>3 DEF AtMost, DrawnFor
<1>2. \A f \in PoolIds : /\ Plants[f].power \in Nat /\ Plants[f].capacity \in Nat
                         /\ Plants[f].kind \in {"renewable", "storage", "fuel"}
  BY PlantAssumption
<1>3. point + 1 \in 1..PointCount
  <2>1. PointCount \in Int
    BY TradingAssumption DEF PointCount
  <2>2. point \in 0..(PointCount - 1)
    BY DEF ReadyToClear
  <2> QED
    BY <2>1, <2>2
<1>4. input.weather[point + 1] \in Nat
  BY <1>3, InputIs DEF ReadyToClear
<1>5. \A f \in PoolIds : Is(f, "storage") => pool[f].stored \in 0..Plants[f].capacity
  BY DEF ReadyToClear
<1>6. ASSUME NEW f \in PoolIds
      PROVE  /\ A[f] \in Nat
             /\ Is(f, "storage") => DrawnFor(A[f]) <= pool[f].stored
  <2>1. CASE Is(f, "renewable")
    <3>1. ~Is(f, "storage")
      BY <2>1 DEF Is
    <3>2. A[f] = (Plants[f].power * input.weather[point + 1]) \div FullWeather
      BY <2>1 DEF Offerable
    <3>3. ASSUME NEW x \in Nat, NEW y \in Nat, NEW z \in Nat \ {0} PROVE (x * y) \div z \in Nat
      <4>1. x * y \in Nat
        OBVIOUS
      <4> DEFINE m == x * y
      <4>2. m \in Nat
        BY <4>1
      <4> HIDE DEF m
      <4>3. m \div z \in Nat
        BY <4>2
      <4> QED
        BY <4>3 DEF m
    <3>4. FullWeather \in Nat \ {0}
      BY TradingAssumption
    <3>5. Plants[f].power \in Nat
      BY <1>2
    <3> QED
      BY <1>4, <3>1, <3>2, <3>3, <3>4, <3>5
  <2>2. CASE Is(f, "storage")
    <3>1. A[f] = AtMost(StorageLimit(pool[f].stored), Plants[f].power)
      BY <2>2 DEF Offerable, Is
    <3>2. pool[f].stored \in Nat /\ Plants[f].power \in Nat
      BY <1>2, <1>5, <2>2
    <3> QED
      BY <1>1, <3>1, <3>2
  <2>3. CASE ~Is(f, "renewable") /\ ~Is(f, "storage")
    BY <2>3 DEF Offerable
  <2> QED
    BY <2>1, <2>2, <2>3
<1>7. ASSUME NEW f \in PoolIds
      PROVE  /\ B[f] \in Nat /\ (~Is(f, "storage") => B[f] = 0)
             /\ Is(f, "storage") => DrawnFor(B[f]) <= Plants[f].capacity - pool[f].stored
  <2>1. CASE Is(f, "storage")
    <3>1. B[f] = AtMost(StorageLimit(Plants[f].capacity - pool[f].stored), Plants[f].power)
      BY <2>1 DEF Chargeable
    <3>2. Plants[f].capacity - pool[f].stored \in Nat /\ Plants[f].power \in Nat
      BY <1>2, <1>5, <2>1
    <3> QED
      BY <1>1, <2>1, <3>1, <3>2
  <2>2. CASE ~Is(f, "storage")
    BY <2>2 DEF Chargeable
  <2> QED
    BY <2>1, <2>2
<1>8. A = [f \in PoolIds |-> A[f]] /\ B = [f \in PoolIds |-> B[f]]
  BY DEF Offerable, Chargeable
<1>9. A \in [PoolIds -> Nat] /\ B \in [PoolIds -> Nat]
  BY <1>6, <1>7, <1>8
<1> QED
  BY <1>6, <1>7, <1>9

\* A pool places its offer, and a storage its bid as well.
LEMMA PlacingIs ==
    ASSUME ReadyToClear, NEW limits \in [PoolIds -> Nat], NEW f \in PoolIds,
           NEW offers, NEW demands
    PROVE  Place(limits, [offers |-> offers, demands |-> demands], f)
             = [offers  |-> With(offers, f, Offerable(limits)[f], input.sell[f], Is(f, "renewable")),
                demands |-> With(demands, f, Chargeable[f], input.buy[f], FALSE)]
<1>1. Plants[f].kind \in {"renewable", "storage", "fuel"}
  BY PlantAssumption
<1>2. ASSUME NEW amount, NEW must
      PROVE  PlaceAsk([offers |-> offers, demands |-> demands], f, amount, input.sell[f], must)
               = [offers |-> With(offers, f, amount, input.sell[f], must), demands |-> demands]
  BY DEF PlaceAsk, With
<1>3. ASSUME NEW amount, NEW some
      PROVE  PlaceBid([offers |-> some, demands |-> demands], f, amount, input.buy[f])
               = [offers |-> some, demands |-> With(demands, f, amount, input.buy[f], FALSE)]
  BY DEF PlaceBid, With
<1>4. With(demands, f, 0, input.buy[f], FALSE) = demands
  BY DEF With
<1>5. CASE Plants[f].kind = "renewable"
  <2>1. /\ Is(f, "renewable") = TRUE /\ Chargeable[f] = 0
        /\ Offerable(limits)[f] = (Plants[f].power * input.weather[point + 1]) \div FullWeather
    BY <1>5 DEF Is, Chargeable, Offerable
  <2> QED
    BY <1>2, <1>4, <1>5, <2>1 DEF Place
<1>6. CASE Plants[f].kind = "storage"
  <2>1. /\ Is(f, "renewable") = FALSE
        /\ Chargeable[f] = AtMost(StorageLimit(Plants[f].capacity - pool[f].stored),
                                  Plants[f].power)
        /\ Offerable(limits)[f] = AtMost(StorageLimit(pool[f].stored), Plants[f].power)
    BY <1>6 DEF Is, Chargeable, Offerable
  <2> QED
    BY <1>2, <1>3, <1>6, <2>1 DEF Place
<1>7. CASE Plants[f].kind = "fuel"
  <2>1. Is(f, "renewable") = FALSE /\ Chargeable[f] = 0 /\ Offerable(limits)[f] = limits[f]
    BY <1>7 DEF Is, Chargeable, Offerable
  <2> QED
    BY <1>2, <1>4, <1>7, <2>1 DEF Place
<1> QED
  BY <1>1, <1>5, <1>6, <1>7

Books    == [offers : Seq(EntryType), demands : Seq(EntryType)]
MustRuns == [f \in PoolIds |-> Is(f, "renewable")]
NoneMust == [f \in PoolIds |-> FALSE]

\* The book once the first pools have placed what they have to.
HoldsFirst(book, limits, i) ==
    /\ Lists(book.offers, 1..i, Offerable(limits), input.sell, MustRuns)
    /\ Lists(book.demands, 1..i, Chargeable, input.buy, NoneMust)

\* Placing the pools one after the other.
Placing(n, limits) == [kb \in (1..n) \X Books |-> Place(limits, kb[2], kb[1])]

\* The next pool's place in the book.
LEMMA PlacedNext ==
    ASSUME ReadyToClear, NEW limits \in [PoolIds -> Nat], NEW f \in PoolIds, NEW book \in Books
    PROVE  /\ Place(limits, book, f) \in Books
           /\ HoldsFirst(book, limits, f - 1) => HoldsFirst(Place(limits, book, f), limits, f)
<1> DEFINE A == Offerable(limits)
           B == Chargeable
           offers == book.offers
           demands == book.demands
           o == With(offers, f, A[f], input.sell[f], MustRuns[f])
           d == With(demands, f, B[f], input.buy[f], NoneMust[f])
<1>1. /\ A \in [PoolIds -> Nat] /\ B \in [PoolIds -> Nat]
  BY AmountsAre
<1>2. input.sell[f] \in Int /\ input.buy[f] \in Int
  BY InputIs, PricesSuitBooks DEF ReadyToClear
<1>3. /\ MustRuns[f] = Is(f, "renewable") /\ NoneMust[f] = FALSE
      /\ MustRuns[f] \in BOOLEAN /\ NoneMust[f] \in BOOLEAN
  BY DEF MustRuns, NoneMust, Is
<1>4. /\ book = [offers |-> offers, demands |-> demands]
      /\ offers \in Seq(EntryType) /\ demands \in Seq(EntryType)
  BY DEF Books
<1>5. Place(limits, book, f) = [offers |-> o, demands |-> d]
  BY <1>3, <1>4, PlacingIs
<1>6. f \in Nat \ {0}
  BY PoolsAreFinite
<1> HIDE DEF A, B, offers, demands
<1>7. A[f] \in Nat /\ B[f] \in Nat
  BY <1>1
<1>8. o \in Seq(EntryType) /\ d \in Seq(EntryType)
  <2>0. ASSUME NEW x \in Nat, NEW p \in Int, NEW m \in BOOLEAN
        PROVE  Entry(f, x, p, m) \in EntryType
    BY <1>6 DEF Entry, EntryType
  <2>1. /\ Entry(f, A[f], input.sell[f], MustRuns[f]) \in EntryType
        /\ Entry(f, B[f], input.buy[f], NoneMust[f]) \in EntryType
    BY <1>2, <1>3, <1>7, <2>0
  <2> QED
    BY <1>4, <2>1 DEF With
<1>9. ASSUME HoldsFirst(book, limits, f - 1)
      PROVE  Lists(o, 1..f, A, input.sell, MustRuns) /\ Lists(d, 1..f, B, input.buy, NoneMust)
  <2>1. /\ Lists(offers, 1..(f - 1), A, input.sell, MustRuns)
        /\ Lists(demands, 1..(f - 1), B, input.buy, NoneMust)
    BY <1>9 DEF HoldsFirst, A, B, offers, demands
  <2>2. Lists(o, 1..f, A, input.sell, MustRuns)
    BY <1>2, <1>3, <1>4, <1>6, <1>7, <2>1, ListedNext
  <2>3. NoneMust[f] \in BOOLEAN
    BY <1>3
  <2>4. Lists(d, 1..f, B, input.buy, NoneMust)
    BY <1>2, <1>4, <1>6, <1>7, <2>1, <2>3, ListedNext
  <2> QED
    BY <2>2, <2>4
<1> HIDE DEF o, d
<1> QED
  BY <1>5, <1>8, <1>9 DEF Books, HoldsFirst, A, B

\* All the pools' offers and bids are in the book, and demand comes after them.
LEMMA PoolsArePlaced ==
    ASSUME ReadyToClear, NEW limits \in [PoolIds -> Nat]
    PROVE  \E book \in Books :
              /\ BookWith(limits) = [book EXCEPT !.demands = @ \o DemandBlock]
              /\ Lists(book.offers, PoolIds, Offerable(limits), input.sell, MustRuns)
              /\ Lists(book.demands, PoolIds, Chargeable, input.buy, NoneMust)
<1> DEFINE n == Len(Plants)
           F == Placing(n, limits)
           places == [f \in PoolIds |-> f]
<1>1. n \in Nat /\ PoolIds = 1..n
  BY PoolsAreFinite
<1>2. EmptyMarket \in Books /\ HoldsFirst(EmptyMarket, limits, 0)
  <2>1. EmptyMarket.offers = <<>> /\ EmptyMarket.demands = <<>> /\ EmptyMarket \in Books
    BY DEF EmptyMarket, Books
  <2>2. \A o \in 1..0 : FALSE
    OBVIOUS
  <2> QED
    BY <2>1, <2>2 DEF HoldsFirst, Lists
<1> HIDE DEF n
<1>3. \A k \in 1..n, b \in Books : F[<<k, b>>] = Place(limits, b, k)
  BY DEF Placing
<1>4. StepsWithin(n, Books, F)
  <2>1. \A k \in PoolIds, b \in Books : Place(limits, b, k) \in Books
    BY PlacedNext
  <2> QED
    BY <1>1, <1>3, <2>1 DEF StepsWithin
<1> HIDE DEF F
<1> DEFINE Raw(it) == it = [s \in SUBSET (DOMAIN places) |->
                              IF s = {} THEN EmptyMarket
                              ELSE Place(limits, it[s \ {Max(s)}], places[Max(s)])]
           raw == CHOOSE it : Raw(it)
<1>5. BookWith(limits) = [raw[DOMAIN places] EXCEPT !.demands = @ \o DemandBlock]
  BY Zenon DEF BookWith, FoldLeft, MapThenFoldSet
<1>6. DOMAIN places = 1..n /\ \A k \in 1..n : places[k] = k
  BY <1>1
<1>7. \A s \in SUBSET (1..n) : s # {} => Max(s) \in 1..n
  <2> SUFFICES ASSUME NEW s \in SUBSET (1..n), s # {} PROVE Max(s) \in 1..n
    OBVIOUS
  <2>1. s \in SUBSET Int
    BY <1>1
  <2> DEFINE S == 1..n
  <2>2. IsFiniteSet(S) /\ s \in SUBSET S
    BY <1>1, FS_Interval
  <2> HIDE DEF S
  <2>3. IsFiniteSet(s)
    BY <2>2, FS_Subset
  <2>4. Max(s) \in s
    BY <2>1, <2>3, MaxAndMinAreIn
  <2> QED
    BY <2>2, <2>4 DEF S
<1> HIDE DEF places
<1>8. \E it : Raw(it)
  <2>0. \A k \in 1..n, b \in Books : F[<<k, b>>] \in Books
    BY <1>4 DEF StepsWithin
  <2>1. PICK it : /\ IsFoldBy(LastOf(n), it, 1..n, EmptyMarket, F)
                  /\ \A s \in SUBSET (1..n) : it[s] \in Books
    BY <1>1, <1>2, <2>0, LeftFoldsExist
  <2>2. ASSUME NEW s \in SUBSET (1..n), s # {}
        PROVE  it[s] = Place(limits, it[s \ {Max(s)}], places[Max(s)])
    <3>1. LastOf(n)[s] = Max(s) /\ RestBy(LastOf(n), s) = s \ {Max(s)}
      BY DEF LastOf, RestBy
    <3>2. Max(s) \in 1..n
      BY <1>7, <2>2
    <3>3. it[s] = F[<<Max(s), it[s \ {Max(s)}]>>]
      BY <2>1, <2>2, <3>1 DEF IsFoldBy
    <3>4. it[s \ {Max(s)}] \in Books
      BY <2>1
    <3> QED
      BY <1>3, <1>6, <3>2, <3>3, <3>4
  <2>3. it[{}] = EmptyMarket /\ it = [s \in SUBSET (1..n) |-> it[s]]
    BY <2>1 DEF IsFoldBy
  <2>4. it = [s \in SUBSET (1..n) |-> IF s = {} THEN EmptyMarket
                                      ELSE Place(limits, it[s \ {Max(s)}], places[Max(s)])]
    BY <2>2, <2>3
  <2> QED
    BY <1>6, <2>4
<1>9. Raw(raw)
  <2> HIDE DEF Raw
  <2> QED
    BY <1>8, Zenon DEF raw
<1> HIDE DEF raw
<1>10. raw = [s \in SUBSET (1..n) |-> IF s = {} THEN EmptyMarket
                                      ELSE Place(limits, raw[s \ {Max(s)}], places[Max(s)])]
  BY <1>6, <1>9
<1> HIDE DEF Raw
<1>11. FoldsFromLeft(raw, n, EmptyMarket, Books, F)
  <2>1. raw[{}] = EmptyMarket
    BY <1>10
  <2>2. ASSUME NEW s \in SUBSET (1..n), s # {}, raw[s \ {Max(s)}] \in Books
        PROVE  raw[s] = F[<<Max(s), raw[s \ {Max(s)}]>>]
    <3>1. raw[s] = Place(limits, raw[s \ {Max(s)}], places[Max(s)])
      BY <1>10, <2>2
    <3>2. Max(s) \in 1..n
      BY <1>7, <2>2
    <3> QED
      BY <1>3, <1>6, <2>2, <3>1, <3>2
  <2> QED
    BY <2>1, <2>2 DEF FoldsFromLeft
<1>12. PICK h : /\ IsRecursion(h, n, EmptyMarket, F) /\ raw[1..n] = h[n]
                /\ \A i \in 0..n : h[i] \in Books
  BY <1>1, <1>2, <1>4, <1>11, FoldedFromLeft
<1> DEFINE G == { i \in 0..n : HoldsFirst(h[i], limits, i) }
<1>13. 0 \in G
  BY <1>1, <1>2, <1>12 DEF IsRecursion
<1>14. ASSUME NEW i \in 1..n, i - 1 \in G PROVE i \in G
  <2>1. i \in 0..n /\ i # 0 /\ i - 1 \in 0..n /\ i \in PoolIds
    BY <1>1
  <2>2. h[i] = F[<<i, h[i - 1]>>]
    BY <1>12, <2>1 DEF IsRecursion
  <2>3. h[i - 1] \in Books
    BY <1>12, <2>1
  <2>4. h[i] = Place(limits, h[i - 1], i)
    BY <1>3, <2>2, <2>3
  <2>5. HoldsFirst(h[i - 1], limits, i - 1)
    BY <1>14
  <2>6. HoldsFirst(h[i], limits, i)
    BY <2>1, <2>3, <2>4, <2>5, PlacedNext
  <2> QED
    BY <2>1, <2>6
<1> HIDE DEF G
<1>15. n \in G
  <2>1. n \in Nat /\ n \in 0..n
    BY <1>1
  <2>2. \A i \in 1..n : i - 1 \in G => i \in G
    BY <1>14
  <2>3. \A i \in 0..n : i \in G
    BY <1>13, <2>1, <2>2, CountingInduction
  <2> QED
    BY <2>1, <2>3
<1>16. HoldsFirst(h[n], limits, n) /\ h[n] \in Books
  BY <1>1, <1>12, <1>15 DEF G
<1>17. BookWith(limits) = [h[n] EXCEPT !.demands = @ \o DemandBlock]
  BY <1>5, <1>6, <1>12
<1> QED
  BY <1>1, <1>16, <1>17 DEF HoldsFirst

-----------------------------------------------------------------------------
(***************************************************************************)
(* Demand.                                                                 *)
(***************************************************************************)
\* A power of a positive number is one.
LEMMA PowersArePositive ==
    ASSUME NEW base \in Nat \ {0}, NEW times \in Nat
    PROVE  Power(base, times) \in Nat \ {0}
<1> DEFINE D == Nat \ {0}
           F == [nx \in (1..times) \X D |-> base * nx[2]]
           Raw(p) == p = [n \in 0..times |-> IF n = 0 THEN 1 ELSE base * p[n - 1]]
           power == CHOOSE p : Raw(p)
<1>1. Power(base, times) = power[times]
  BY Zenon DEF Power
<1>2. \A n \in 1..times, x \in D : F[<<n, x>>] = base * x
  OBVIOUS
<1>3. ASSUME NEW n \in 1..times, NEW x \in D PROVE F[<<n, x>>] \in D
  <2>1. base * x \in Nat /\ base * x # 0
    OBVIOUS
  <2> QED
    BY <1>2, <2>1
<1>4. 1 \in D
  OBVIOUS
<1>5. \A n \in 1..times, x \in D : F[<<n, x>>] \in D
  BY <1>3
<1> HIDE DEF D, F
<1>6. PICK it : IsRecursion(it, times, 1, F)
  BY RecursionsExist
<1>7. \A n \in 0..times : it[n] \in D
  BY <1>4, <1>5, <1>6, RecursionTyped
<1>8. it = [n \in 0..times |-> IF n = 0 THEN 1 ELSE base * it[n - 1]]
  <2>1. ASSUME NEW n \in 0..times PROVE it[n] = IF n = 0 THEN 1 ELSE base * it[n - 1]
    <3>1. it[n] = IF n = 0 THEN 1 ELSE F[<<n, it[n - 1]>>]
      BY <1>6 DEF IsRecursion
    <3>2. n # 0 => n \in 1..times /\ n - 1 \in 0..times
      OBVIOUS
    <3>3. n # 0 => F[<<n, it[n - 1]>>] = base * it[n - 1]
      BY <1>2, <1>7, <3>2
    <3> QED
      BY <3>1, <3>3
  <2>2. it = [n \in 0..times |-> it[n]]
    BY <1>6 DEF IsRecursion
  <2> QED
    BY <2>1, <2>2
<1>9. Raw(power)
  <2>1. Raw(it)
    BY <1>8
  <2> HIDE DEF Raw
  <2> QED
    BY <2>1, Zenon DEF power
<1> HIDE DEF power
<1>10. \A n \in 0..times : power[n] = IF n = 0 THEN 1 ELSE base * power[n - 1]
  BY <1>9
<1> DEFINE G == { n \in 0..times : power[n] \in D }
<1>11. 0 \in G
  BY <1>4, <1>10
<1>12. ASSUME NEW n \in 1..times, n - 1 \in G PROVE n \in G
  <2>1. n \in 0..times /\ n # 0
    OBVIOUS
  <2>2. power[n] = base * power[n - 1] /\ power[n - 1] \in D
    BY <1>10, <1>12, <2>1
  <2>3. base * power[n - 1] \in D
    BY <1>2, <1>3, <2>2
  <2> QED
    BY <2>1, <2>2, <2>3
<1> HIDE DEF G
<1>13. times \in G
  <2>1. \A n \in 1..times : n - 1 \in G => n \in G
    BY <1>12
  <2>2. \A n \in 0..times : n \in G
    BY <1>11, <2>1, CountingInduction
  <2> QED
    BY <2>2
<1> QED
  BY <1>1, <1>13 DEF G, D

\* Demand that is rationed is demand.
LEMMA RationedIs ==
    ASSUME NEW demand \in Nat, NEW times \in Nat
    PROVE  Rationed(demand, times) \in Nat
<1> DEFINE a == Power(9, times)
           b == Power(10, times)
<1>1. a \in Nat /\ b \in Nat \ {0}
  BY PowersArePositive
<1>2. Rationed(demand, times) = (demand * a) \div b
  BY DEF Rationed
<1> HIDE DEF a, b
<1> DEFINE m == demand * a
<1>3. m \in Nat
  BY <1>1
<1> HIDE DEF m
<1>4. m \div b \in Nat
  BY <1>1, <1>3
<1> QED
  BY <1>2, <1>4 DEF m

\* What the tiers ask for at each point, as it would have been.
LEMMA NominalIs ==
    ASSUME input \in Inputs, NEW p \in 0..(PointCount - 1), NEW tier \in DOMAIN Tiers
    PROVE  Nominal(p, tier) \in Nat
<1>1. p + 1 \in 1..PointCount
  <2>1. PointCount \in Int
    BY TradingAssumption DEF PointCount
  <2> QED
    BY <2>1
<1>2. input.demand[p + 1] \in Nat
  BY <1>1, InputIs
<1>3. Tiers[tier].share \in Nat
  BY TierAssumption
<1> DEFINE m == input.demand[p + 1] * Tiers[tier].share
<1>4. m \in Nat
  BY <1>2, <1>3
<1>5. Nominal(p, tier) = m \div 100
  BY DEF Nominal
<1> HIDE DEF m
<1> QED
  BY <1>4, <1>5

\* Who bids: a pool by its number, a tier by its negative; for how much, and at what price.
Bidders == PoolIds \cup { -tier : tier \in DOMAIN Tiers }
Wanted  == [o \in Bidders |-> IF o \in PoolIds THEN Chargeable[o] ELSE DemandBlock[-o].capacity]
Worth   == [o \in Bidders |-> IF o \in PoolIds THEN input.buy[o] ELSE Tiers[-o].bid]
NoneMustBuy == [o \in Bidders |-> FALSE]

\* Pools and tiers are told apart.
LEMMA BiddersAre ==
    /\ \A tier \in DOMAIN Tiers :
          tier \in Nat \ {0} /\ -tier \in Bidders /\ -tier \notin PoolIds /\ -(-tier) = tier
    /\ \A f \in PoolIds : f \in Bidders /\ f \in Nat \ {0}
    /\ \A o \in Bidders : o \in Int /\ (o \in PoolIds \/ -o \in DOMAIN Tiers)
    /\ MustServe \in DOMAIN Tiers
<1> DEFINE n == Len(Tiers)
<1>1. n \in Nat \ {0} /\ DOMAIN Tiers = 1..n
  BY TierAssumption
<1> HIDE DEF n
<1>2. \A tier \in DOMAIN Tiers : tier \in Nat \ {0} /\ -(-tier) = tier
  BY <1>1
<1>3. \A f \in PoolIds : f \in Nat \ {0}
  BY PoolsAreFinite
<1>4. \A tier \in DOMAIN Tiers : -tier \notin PoolIds
  BY <1>2, <1>3
<1>5. MustServe \in DOMAIN Tiers
  BY <1>1 DEF MustServe
<1>6. ASSUME NEW o \in Bidders PROVE o \in Int /\ (o \in PoolIds \/ -o \in DOMAIN Tiers)
  <2>1. CASE o \in PoolIds
    BY <1>3, <2>1
  <2>2. CASE o \notin PoolIds
    <3>1. PICK tier \in DOMAIN Tiers : o = -tier
      BY <2>2 DEF Bidders
    <3> QED
      BY <1>2, <3>1
  <2> QED
    BY <2>1, <2>2
<1> QED
  BY <1>2, <1>3, <1>4, <1>5, <1>6 DEF Bidders

\* The demand block's entries.
LEMMA DemandBlockIs ==
    ASSUME ReadyToClear
    PROVE  /\ DemandBlock \in Seq(EntryType) /\ DOMAIN DemandBlock = DOMAIN Tiers
           /\ Len(DemandBlock) = Len(Tiers)
           /\ \A tier \in DOMAIN Tiers :
                 /\ DemandBlock[tier].owner = -tier
                 /\ DemandBlock[tier].capacity = Rationed(Nominal(point, tier), TimesRationed)
                 /\ DemandBlock[tier].capacity \in Nat
                 /\ DemandBlock[tier].price = Tiers[tier].bid
                 /\ DemandBlock[tier].mustRun = FALSE
<1>1. /\ input \in Inputs /\ point \in 0..(PointCount - 1)
      /\ TimesRationed \in Nat
  <2>1. input.earlier \in Nat /\ Len(grid.blackouts) \in Nat
    BY InputIs DEF ReadyToClear
  <2> QED
    BY <2>1 DEF ReadyToClear, TimesRationed
<1>2. \A tier \in DOMAIN Tiers : Nominal(point, tier) \in Nat
  BY <1>1, NominalIs
<1>3. \A tier \in DOMAIN Tiers : Rationed(Nominal(point, tier), TimesRationed) \in Nat
  BY <1>1, <1>2, RationedIs
<1>4. \A tier \in DOMAIN Tiers : tier \in Int /\ -tier \in Int
  BY BiddersAre
<1>5. \A tier \in DOMAIN Tiers : Tiers[tier].bid \in Int
  BY TierAssumption, PricesSuitBooks
<1>6. ASSUME NEW tier \in DOMAIN Tiers
      PROVE  /\ DemandBlock[tier] \in EntryType
             /\ DemandBlock[tier].owner = -tier
             /\ DemandBlock[tier].capacity = Rationed(Nominal(point, tier), TimesRationed)
             /\ DemandBlock[tier].price = Tiers[tier].bid
             /\ DemandBlock[tier].mustRun = FALSE
  <2> DEFINE x == Rationed(Nominal(point, tier), TimesRationed)
             y == Tiers[tier].bid
  <2>1. x \in Nat /\ y \in Int /\ -tier \in Int
    BY <1>3, <1>4, <1>5
  <2>2. DemandBlock[tier] = Entry(-tier, x, y, FALSE)
    BY DEF DemandBlock
  <2> HIDE DEF x, y
  <2>3. DemandBlock[tier] \in EntryType
    BY <2>1, <2>2 DEF Entry, EntryType
  <2>4. /\ DemandBlock[tier].owner = -tier /\ DemandBlock[tier].capacity = x
        /\ DemandBlock[tier].price = y /\ DemandBlock[tier].mustRun = FALSE
    BY <2>2 DEF Entry
  <2> QED
    BY <2>3, <2>4 DEF x, y
<1> DEFINE n == Len(Tiers)
<1>7. n \in Nat /\ DOMAIN Tiers = 1..n
  BY TierAssumption
<1>8. DemandBlock = [tier \in DOMAIN Tiers |-> DemandBlock[tier]]
  BY DEF DemandBlock
<1>9. DemandBlock \in [1..n -> EntryType]
  BY <1>6, <1>7, <1>8
<1> HIDE DEF n
<1>10. DemandBlock \in Seq(EntryType) /\ Len(DemandBlock) = n /\ DOMAIN DemandBlock = 1..n
  BY <1>7, <1>9
<1> QED
  BY <1>3, <1>6, <1>7, <1>10 DEF n

\* A sequence after another.
LEMMA OneAfterAnother ==
    ASSUME NEW a \in Seq(EntryType), NEW b \in Seq(EntryType), NEW c, c = a \o b
    PROVE  /\ c \in Seq(EntryType)
           /\ \A k \in DOMAIN a : k \in DOMAIN c /\ c[k] = a[k]
           /\ \A k \in DOMAIN b : Len(a) + k \in DOMAIN c /\ c[Len(a) + k] = b[k]
           /\ \A k \in DOMAIN c : k \in DOMAIN a \/ \E l \in DOMAIN b : k = Len(a) + l
           /\ DOMAIN a \subseteq Int /\ DOMAIN b \subseteq Int /\ Len(a) \in Nat
<1> DEFINE m == Len(a)
           n == Len(b)
<1>1. m \in Nat /\ n \in Nat /\ DOMAIN a = 1..m /\ DOMAIN b = 1..n
  OBVIOUS
<1>2. c \in Seq(EntryType) /\ DOMAIN c = 1..(m + n)
  OBVIOUS
<1>3. \A k \in 1..m : c[k] = a[k]
  OBVIOUS
<1>4. \A k \in 1..n : c[m + k] = b[k]
  OBVIOUS
<1> HIDE DEF m, n
<1>5. \A k \in 1..m : k \in 1..(m + n)
  BY <1>1
<1>6. \A k \in 1..n : m + k \in 1..(m + n)
  BY <1>1
<1>7. ASSUME NEW k \in 1..(m + n) PROVE k \in 1..m \/ \E l \in 1..n : k = m + l
  <2>1. CASE k <= m
    BY <1>1, <2>1
  <2>2. CASE k > m
    <3>1. k - m \in 1..n /\ k = m + (k - m)
      BY <1>1, <2>2
    <3> QED
      BY <3>1
  <2> QED
    BY <1>1, <2>1, <2>2
<1>8. DOMAIN a \subseteq Int /\ DOMAIN b \subseteq Int
  BY <1>1
<1> QED
  BY <1>1, <1>2, <1>3, <1>4, <1>5, <1>6, <1>7, <1>8 DEF m

\* The bidders' demands are listed once.
LEMMA DemandsAreListed ==
    ASSUME ReadyToClear, NEW pools \in Seq(EntryType),
           Lists(pools, PoolIds, Chargeable, input.buy, NoneMust),
           NEW all, all = pools \o DemandBlock
    PROVE  all \in Seq(EntryType) /\ Lists(all, Bidders, Wanted, Worth, NoneMustBuy)
<1> DEFINE m == Len(pools)
           tiers == DemandBlock
<1>1. /\ tiers \in Seq(EntryType) /\ DOMAIN tiers = DOMAIN Tiers
      /\ \A tier \in DOMAIN Tiers : /\ tiers[tier].owner = -tier
                                    /\ tiers[tier].price = Tiers[tier].bid
                                    /\ tiers[tier].mustRun = FALSE
  BY DemandBlockIs
<1>2. /\ all \in Seq(EntryType)
      /\ \A k \in DOMAIN pools : k \in DOMAIN all /\ all[k] = pools[k]
      /\ \A k \in DOMAIN tiers : m + k \in DOMAIN all /\ all[m + k] = tiers[k]
      /\ \A k \in DOMAIN all : k \in DOMAIN pools \/ \E l \in DOMAIN tiers : k = m + l
      /\ DOMAIN pools \subseteq Int /\ DOMAIN tiers \subseteq Int /\ m \in Nat
  <2>1. tiers \in Seq(EntryType) /\ all = pools \o tiers
    BY <1>1
  <2> HIDE DEF tiers
  <2> QED
    BY <2>1, OneAfterAnother
<1>3. \A f \in PoolIds : /\ f \in Bidders /\ Wanted[f] = Chargeable[f]
                         /\ Worth[f] = input.buy[f] /\ NoneMustBuy[f] = NoneMust[f]
  <2>1. \A f \in PoolIds : f \in Bidders
    BY BiddersAre
  <2> QED
    BY <2>1 DEF Wanted, Worth, NoneMustBuy, NoneMust
<1>4. \A tier \in DOMAIN Tiers :
         /\ -tier \in Bidders /\ -tier \notin PoolIds /\ -(-tier) = tier /\ tier \in Int
  BY BiddersAre
<1>5. ASSUME NEW tier \in DOMAIN Tiers
      PROVE  /\ Wanted[-tier] = tiers[tier].capacity /\ Worth[-tier] = tiers[tier].price
             /\ NoneMustBuy[-tier] = tiers[tier].mustRun
  <2>1. -tier \in Bidders /\ -tier \notin PoolIds /\ -(-tier) = tier
    BY <1>4
  <2>2. /\ Wanted[-tier] = tiers[-(-tier)].capacity /\ Worth[-tier] = Tiers[-(-tier)].bid
        /\ NoneMustBuy[-tier] = FALSE
    BY <2>1 DEF Wanted, Worth, NoneMustBuy
  <2> QED
    BY <1>1, <2>1, <2>2
<1>6. \A o \in Bidders : o \in PoolIds \/ \E tier \in DOMAIN Tiers : o = -tier
  BY DEF Bidders
<1> HIDE DEF m, tiers
<1>7. ASSUME NEW k \in DOMAIN all
      PROVE  /\ all[k].owner \in Bidders
             /\ all[k].capacity = Wanted[all[k].owner]
             /\ all[k].price = Worth[all[k].owner]
             /\ all[k].mustRun = NoneMustBuy[all[k].owner]
  <2>1. CASE k \in DOMAIN pools
    <3> DEFINE e == pools[k]
    <3>1. all[k] = e
      BY <1>2, <2>1
    <3>2. /\ e.owner \in PoolIds /\ e.capacity = Chargeable[e.owner]
          /\ e.price = input.buy[e.owner] /\ e.mustRun = NoneMust[e.owner]
      BY <2>1 DEF Lists
    <3> HIDE DEF e
    <3> QED
      BY <1>3, <3>1, <3>2
  <2>2. CASE \E l \in DOMAIN tiers : k = m + l
    <3>1. PICK l \in DOMAIN tiers : k = m + l
      BY <2>2
    <3>2. all[k] = tiers[l] /\ l \in DOMAIN Tiers
      BY <1>1, <1>2, <3>1
    <3>3. all[k].owner = -l /\ -l \in Bidders
      BY <1>1, <1>4, <3>2
    <3> QED
      BY <1>5, <3>2, <3>3
  <2> QED
    BY <1>2, <2>1, <2>2
<1>8. ASSUME NEW k \in DOMAIN all, NEW l \in DOMAIN all, all[k].owner = all[l].owner PROVE k = l
  <2>1. \A i \in DOMAIN pools : all[i] = pools[i] /\ all[i].owner \in PoolIds
    BY <1>2 DEF Lists
  <2>2. \A i \in DOMAIN tiers :
           /\ all[m + i].owner = -i /\ i \in Int /\ all[m + i].owner \notin PoolIds
    BY <1>1, <1>2, <1>4
  <2>3. CASE k \in DOMAIN pools /\ l \in DOMAIN pools
    <3>1. \A i, j \in DOMAIN pools : pools[i].owner = pools[j].owner => i = j
      BY DEF Lists
    <3> QED
      BY <1>8, <2>1, <2>3, <3>1
  <2>4. CASE k \notin DOMAIN pools /\ l \notin DOMAIN pools
    <3>1. PICK i \in DOMAIN tiers : k = m + i
      BY <1>2, <2>4
    <3>2. PICK j \in DOMAIN tiers : l = m + j
      BY <1>2, <2>4
    <3>3. -i = -j /\ i \in Int /\ j \in Int
      BY <1>8, <2>2, <3>1, <3>2
    <3> QED
      BY <3>1, <3>2, <3>3
  <2>5. CASE k \in DOMAIN pools /\ l \notin DOMAIN pools
    BY <1>2, <1>8, <2>1, <2>2, <2>5
  <2>6. CASE k \notin DOMAIN pools /\ l \in DOMAIN pools
    BY <1>2, <1>8, <2>1, <2>2, <2>6
  <2> QED
    BY <2>3, <2>4, <2>5, <2>6
<1>9. ASSUME NEW o \in Bidders, Wanted[o] > 0 PROVE \E k \in DOMAIN all : all[k].owner = o
  <2>1. CASE o \in PoolIds
    <3>1. Chargeable[o] > 0
      BY <1>3, <1>9, <2>1
    <3>2. \A f \in PoolIds : Chargeable[f] > 0 => \E k \in DOMAIN pools : pools[k].owner = f
      BY DEF Lists
    <3>3. PICK k \in DOMAIN pools : pools[k].owner = o
      BY <2>1, <3>1, <3>2
    <3> QED
      BY <1>2, <3>3
  <2>2. CASE \E tier \in DOMAIN Tiers : o = -tier
    <3>1. PICK tier \in DOMAIN Tiers : o = -tier
      BY <2>2
    <3>2. m + tier \in DOMAIN all /\ all[m + tier].owner = -tier
      BY <1>1, <1>2
    <3> QED
      BY <3>1, <3>2
  <2> QED
    BY <1>6, <2>1, <2>2
<1> QED
  BY <1>2, <1>7, <1>8, <1>9 DEF Lists

\* What bidders want and bid.
LEMMA BidsAre ==
    ASSUME ReadyToClear
    PROVE  /\ Wanted \in [Bidders -> Nat]
           /\ \A o \in Bidders : Worth[o] \in Prices \cup {Unbounded}
           /\ \A f \in PoolIds : Wanted[f] = Chargeable[f]
           /\ \A tier \in DOMAIN Tiers : Wanted[-tier] = DemandBlock[tier].capacity
<1>0. \E limits : limits \in [PoolIds -> Nat]
  <2>1. [f \in PoolIds |-> 0] \in [PoolIds -> Nat]
    OBVIOUS
  <2> QED
    BY <2>1
<1>1. Chargeable \in [PoolIds -> Nat]
  BY <1>0, AmountsAre
<1>2. \A f \in PoolIds : input.buy[f] \in Prices
  BY InputIs DEF ReadyToClear
<1>3. \A tier \in DOMAIN Tiers :
         DemandBlock[tier].capacity \in Nat /\ Tiers[tier].bid \in Prices \cup {Unbounded}
  BY DemandBlockIs, TierAssumption
<1>4. \A o \in Bidders : o \in PoolIds \/ -o \in DOMAIN Tiers
  BY BiddersAre
<1>5. \A o \in Bidders :
         /\ Wanted[o] = IF o \in PoolIds THEN Chargeable[o] ELSE DemandBlock[-o].capacity
         /\ Worth[o] = IF o \in PoolIds THEN input.buy[o] ELSE Tiers[-o].bid
  BY DEF Wanted, Worth
<1>6. \A o \in Bidders : Wanted[o] \in Nat /\ Worth[o] \in Prices \cup {Unbounded}
  BY <1>1, <1>2, <1>3, <1>4, <1>5
<1>7. Wanted = [o \in Bidders |-> Wanted[o]]
  BY DEF Wanted
<1>8. Wanted \in [Bidders -> Nat]
  BY <1>6, <1>7
<1> QED
  BY <1>5, <1>6, <1>8, BiddersAre

\* The book of a point.
LEMMA PointsBookIs ==
    ASSUME ReadyToClear, NEW limits \in [PoolIds -> Nat], NEW book, book = BookWith(limits)
    PROVE  /\ IsBook(book)
           /\ Lists(book.offers, PoolIds, Offerable(limits), input.sell, MustRuns)
           /\ Lists(book.demands, Bidders, Wanted, Worth, NoneMustBuy)
<1>1. PICK placed \in Books :
         /\ book = [placed EXCEPT !.demands = @ \o DemandBlock]
         /\ Lists(placed.offers, PoolIds, Offerable(limits), input.sell, MustRuns)
         /\ Lists(placed.demands, PoolIds, Chargeable, input.buy, NoneMust)
  BY PoolsArePlaced
<1>2. /\ placed.offers \in Seq(EntryType) /\ placed.demands \in Seq(EntryType)
      /\ book.offers = placed.offers /\ book.demands = placed.demands \o DemandBlock
  BY <1>1 DEF Books
<1>3. /\ book.demands \in Seq(EntryType)
      /\ Lists(book.demands, Bidders, Wanted, Worth, NoneMustBuy)
  BY <1>1, <1>2, DemandsAreListed
<1>4. ASSUME NEW i \in DOMAIN book.offers
      PROVE  -Unbounded < book.offers[i].price /\ book.offers[i].price < Unbounded
  <2>1. book.offers[i].owner \in PoolIds /\ book.offers[i].price = input.sell[book.offers[i].owner]
    BY <1>1, <1>2 DEF Lists
  <2>2. book.offers[i].price \in Prices
    BY <2>1, InputIs DEF ReadyToClear
  <2> QED
    BY <2>2, PricesSuitBooks
<1>5. ASSUME NEW j \in DOMAIN book.demands PROVE -Unbounded < book.demands[j].price
  <2>1. book.demands[j].owner \in Bidders /\ book.demands[j].price = Worth[book.demands[j].owner]
    BY <1>3 DEF Lists
  <2>2. book.demands[j].price \in Prices \cup {Unbounded}
    BY <2>1, BidsAre
  <2> QED
    BY <2>2, PricesSuitBooks
<1> QED
  BY <1>1, <1>2, <1>3, <1>4, <1>5 DEF IsBook

-----------------------------------------------------------------------------
(***************************************************************************)
(* A point's clearing, and what is settled with each pool and tier.        *)
(***************************************************************************)
\* The clearing of a point's book puts each pool's and tier's entry in order.
LEMMA PointClears ==
    ASSUME ReadyToClear, NEW limits \in [PoolIds -> Nat], NEW c, c = ClearMarket(BookWith(limits))
    PROVE  /\ OffersInOrder(c.offers) /\ DemandsInOrder(c.demands)
           /\ Stacked(c.offers) /\ Stacked(c.demands)
           /\ c.quantity \in Nat /\ c.price \in Int
           /\ Lists(c.offers, PoolIds, Offerable(limits), input.sell, MustRuns)
           /\ Lists(c.demands, Bidders, Wanted, Worth, NoneMustBuy)
<1> DEFINE book == BookWith(limits)
<1>1. /\ IsBook(book)
      /\ Lists(book.offers, PoolIds, Offerable(limits), input.sell, MustRuns)
      /\ Lists(book.demands, Bidders, Wanted, Worth, NoneMustBuy)
  BY PointsBookIs
<1>2. c = ClearMarket(book)
  OBVIOUS
<1> HIDE DEF book
<1>3. /\ c.offers = MeritOrder(book.offers, FALSE)
      /\ c.demands = MeritOrder(book.demands, TRUE)
      /\ OffersInOrder(c.offers) /\ DemandsInOrder(c.demands)
      /\ c.quantity \in Nat /\ c.price \in Int
  BY <1>1, <1>2, BookClears
<1>4. Stacked(c.offers) /\ Stacked(c.demands)
  BY <1>3 DEF OffersInOrder, DemandsInOrder
<1>5. book.offers \in Seq(EntryType) /\ book.demands \in Seq(EntryType)
  BY <1>1 DEF IsBook
<1>6. Lists(c.offers, PoolIds, Offerable(limits), input.sell, MustRuns)
  <2> DEFINE descending == FALSE
  <2>1. PICK place : Arranges(c.offers, book.offers, descending, place)
    BY <1>1, <1>3, OffersAreOrdered
  <2>2. descending \in BOOLEAN
    OBVIOUS
  <2> HIDE DEF descending
  <2>3. KeepsEntries(c.offers, book.offers, place)
    BY <1>4, <1>5, <2>1, <2>2, ArrangedKeeps
  <2> QED
    BY <1>1, <2>3, ArrangedLists
<1>7. Lists(c.demands, Bidders, Wanted, Worth, NoneMustBuy)
  <2> DEFINE descending == TRUE
  <2>1. PICK place : Arranges(c.demands, book.demands, descending, place)
    BY <1>1, <1>3, DemandsAreOrdered
  <2>2. descending \in BOOLEAN
    OBVIOUS
  <2> HIDE DEF descending
  <2>3. KeepsEntries(c.demands, book.demands, place)
    BY <1>4, <1>5, <2>1, <2>2, ArrangedKeeps
  <2> QED
    BY <1>1, <2>3, ArrangedLists
<1> QED
  BY <1>3, <1>4, <1>6, <1>7

\* Each owner's entry, if there is one.
LEMMA OwnEntryIs ==
    ASSUME NEW entries, NEW o, NEW none
    PROVE  \/ /\ \A k \in DOMAIN entries : entries[k].owner # o
              /\ EntryOf(entries, o, none) = none
           \/ \E k \in DOMAIN entries :
                 entries[k].owner = o /\ EntryOf(entries, o, none) = entries[k]
<1> DEFINE own == { k \in DOMAIN entries : entries[k].owner = o }
           some == CHOOSE k \in own : TRUE
<1>1. EntryOf(entries, o, none) = IF own = {} THEN none ELSE entries[some]
  BY DEF EntryOf
<1>2. CASE own = {}
  BY <1>1, <1>2
<1>3. CASE own # {}
  <2>1. some \in own
    BY <1>3
  <2> QED
    BY <1>1, <1>3, <2>1
<1> QED
  BY <1>2, <1>3

\* Offers of this owner that do not sell are kept for later, not dumped.
CanWait(must, o) == must[o] = FALSE

\* What a pool sells and dumps at a price, of the most it offered.
SaleFits(sale, most, waits, price) ==
    /\ sale.sold \in Nat /\ sale.dumped \in Nat
    /\ sale.sold + sale.dumped <= most
    /\ waits => sale.dumped = 0
    /\ sale.revenue = sale.sold * price

\* A clearing of the offers these owners made.
ClearsOffers(c, owners, amount, price, must) ==
    /\ Stacked(c.offers) /\ c.quantity \in Nat /\ c.price \in Int
    /\ amount \in [owners -> Nat]
    /\ Lists(c.offers, owners, amount, price, must)

\* What a pool sells and dumps is no more than it offered, and it dumps only what must run.
LEMMA SalesAre ==
    ASSUME NEW c, NEW owners, NEW amount, NEW price, NEW must,
           ClearsOffers(c, owners, amount, price, must), NEW o \in owners
    PROVE  SaleFits(EntryOf(SettleClearing(c).sales, o, NoSale), amount[o], CanWait(must, o), c.price)
<1> DEFINE sale == EntryOf(SettleClearing(c).sales, o, NoSale)
<1>a. Stacked(c.offers) /\ c.quantity \in Nat /\ c.price \in Int
  BY DEF ClearsOffers
<1>b. amount \in [owners -> Nat]
  BY DEF ClearsOffers
<1>c. Lists(c.offers, owners, amount, price, must)
  BY DEF ClearsOffers
<1> DEFINE s == SettleClearing(c)
           q == c.quantity
<1>1. /\ DOMAIN s.sales = DOMAIN c.offers
      /\ \A k \in DOMAIN c.offers :
            /\ s.sales[k].owner = c.offers[k].owner
            /\ s.sales[k].sold = Traded(c.offers[k], q)
            /\ s.sales[k].dumped = Dumped(c.offers[k], q)
            /\ s.sales[k].revenue = Traded(c.offers[k], q) * c.price
  BY <1>a, SettlementIs
<1>5. sale = EntryOf(s.sales, o, NoSale)
  OBVIOUS
<1>6. amount[o] \in Nat
  BY <1>b
<1> SUFFICES SaleFits(sale, amount[o], CanWait(must, o), c.price)
  OBVIOUS
<1> HIDE DEF s, sale
<1>2. ASSUME sale = NoSale
      PROVE  /\ sale.sold \in Nat /\ sale.dumped \in Nat
             /\ sale.sold + sale.dumped <= amount[o]
             /\ CanWait(must, o) => sale.dumped = 0
             /\ sale.revenue = sale.sold * c.price
  <2>1. sale.sold = 0 /\ sale.dumped = 0 /\ sale.revenue = 0 /\ 0 = 0 * c.price
    BY <1>2, <1>a DEF NoSale
  <2> QED
    BY <2>1, <1>6
<1>3. ASSUME NEW k \in DOMAIN s.sales, s.sales[k].owner = o, sale = s.sales[k]
      PROVE  /\ sale.sold \in Nat /\ sale.dumped \in Nat
             /\ sale.sold + sale.dumped <= amount[o]
             /\ CanWait(must, o) => sale.dumped = 0
             /\ sale.revenue = sale.sold * c.price
  <2> DEFINE e == c.offers[k]
             t == Traded(e, q)
  <2>1. k \in DOMAIN c.offers
    BY <1>1
  <2>2. e.owner = o /\ sale.sold = t /\ sale.dumped = Dumped(e, q) /\ sale.revenue = t * c.price
    BY <1>1, <1>3
  <2>3. e.capacity = amount[o] /\ e.mustRun = must[o]
    BY <1>c, <2>1, <2>2 DEF Lists
  <2>4. t \in 0..e.capacity
    BY <1>a, <2>1, TradedIs
  <2>5. Dumped(e, q) = IF e.mustRun THEN e.capacity - t ELSE 0
    BY DEF Dumped
  <2> HIDE DEF e, t
  <2>6. amount[o] \in Nat
    BY <1>b
  <2>7. t \in Nat /\ t <= e.capacity /\ e.capacity \in Nat
    BY <2>3, <2>4, <2>6
  <2>8. sale.dumped = e.capacity - t \/ sale.dumped = 0
    BY <2>2, <2>5
  <2>9. CanWait(must, o) => sale.dumped = 0
    BY <2>2, <2>3, <2>5 DEF CanWait
  <2> QED
    BY <2>2, <2>3, <2>7, <2>8, <2>9
<1>4. \/ sale = NoSale
      \/ \E k \in DOMAIN s.sales : s.sales[k].owner = o /\ sale = s.sales[k]
  BY <1>5, OwnEntryIs
<1>7. /\ sale.sold \in Nat /\ sale.dumped \in Nat
      /\ sale.sold + sale.dumped <= amount[o]
      /\ CanWait(must, o) => sale.dumped = 0
      /\ sale.revenue = sale.sold * c.price
  BY <1>2, <1>3, <1>4
<1> QED
  BY <1>7 DEF SaleFits

\* A clearing of the demands these owners made; and whether an owner's are met in it, but for
\* what is too little to settle.
ClearsDemands(c, owners, amount, price, must) ==
    /\ Stacked(c.demands) /\ c.quantity \in Nat /\ c.price \in Int
    /\ amount \in [owners -> Nat]
    /\ Lists(c.demands, owners, amount, price, must)

FullyMet(c, o) ==
    \A k \in DOMAIN c.demands :
       c.demands[k].owner = o => ~(Unmet(c.demands[k], c.quantity) > MIN_SETTLED_QUANTITY)

\* What a pool or tier buys at a price, of the most it wanted, and whether that is met.
PurchaseFits(purchase, most, met, price) ==
    /\ purchase.bought \in Nat /\ purchase.bought <= most
    /\ purchase.cost = purchase.bought * price
    /\ met => \/ purchase.bought >= most - MIN_SETTLED_QUANTITY
              \/ most <= 2 * MIN_SETTLED_QUANTITY

\* What a pool or tier buys is no more than it wanted; and what would be met of it, but for
\* too little to settle, it gets, unless it wanted hardly more than that.
LEMMA PurchasesAre ==
    ASSUME NEW c, NEW owners, NEW amount, NEW price, NEW must,
           ClearsDemands(c, owners, amount, price, must), NEW o \in owners
    PROVE  PurchaseFits(EntryOf(SettleClearing(c).purchases, o, NoPurchase), amount[o],
                        FullyMet(c, o), c.price)
<1> DEFINE purchase == EntryOf(SettleClearing(c).purchases, o, NoPurchase)
<1>a. Stacked(c.demands) /\ c.quantity \in Nat /\ c.price \in Int
  BY DEF ClearsDemands
<1>b. amount \in [owners -> Nat]
  BY DEF ClearsDemands
<1>c. Lists(c.demands, owners, amount, price, must)
  BY DEF ClearsDemands
<1> DEFINE s == SettleClearing(c)
           q == c.quantity
<1>1. /\ DOMAIN s.purchases = DOMAIN c.demands
      /\ \A k \in DOMAIN c.demands :
            /\ s.purchases[k].owner = c.demands[k].owner
            /\ s.purchases[k].bought = Traded(c.demands[k], q)
            /\ s.purchases[k].cost = Traded(c.demands[k], q) * c.price
  BY <1>a, SettlementIs
<1>2. purchase = EntryOf(s.purchases, o, NoPurchase)
  OBVIOUS
<1> SUFFICES PurchaseFits(purchase, amount[o], FullyMet(c, o), c.price)
  OBVIOUS
<1> HIDE DEF s, purchase
<1>3. ASSUME /\ \A k \in DOMAIN s.purchases : s.purchases[k].owner # o
             /\ purchase = NoPurchase
      PROVE  PurchaseFits(purchase, amount[o], FullyMet(c, o), c.price)
  <2>1. purchase.bought = 0 /\ purchase.cost = 0 /\ 0 = 0 * c.price
    BY <1>3, <1>a DEF NoPurchase
  <2>2. ~(amount[o] > 0)
    <3>1. \A x \in owners : amount[x] > 0 => \E k \in DOMAIN c.demands : c.demands[k].owner = x
      BY <1>c DEF Lists
    <3> QED
      BY <1>1, <1>3, <3>1
  <2>3. amount[o] \in Nat
    BY <1>b
  <2> QED
    BY <2>1, <2>2, <2>3 DEF MIN_SETTLED_QUANTITY, PurchaseFits
<1>4. ASSUME NEW k \in DOMAIN s.purchases, s.purchases[k].owner = o, purchase = s.purchases[k]
      PROVE  /\ purchase.bought \in Nat /\ purchase.bought <= amount[o]
             /\ purchase.cost = purchase.bought * c.price
             /\ \/ Unmet(c.demands[k], q) > MIN_SETTLED_QUANTITY
                \/ purchase.bought >= amount[o] - MIN_SETTLED_QUANTITY
                \/ amount[o] <= 2 * MIN_SETTLED_QUANTITY
             /\ k \in DOMAIN c.demands /\ c.demands[k].owner = o
  <2> DEFINE e == c.demands[k]
             t == Traded(e, q)
             x == Cleared(e, q)
  <2>1. k \in DOMAIN c.demands
    BY <1>1
  <2>2. e.owner = o /\ purchase.bought = t /\ purchase.cost = t * c.price
    BY <1>1, <1>4
  <2>3. e.capacity = amount[o]
    BY <1>c, <2>1, <2>2 DEF Lists
  <2>4. t \in 0..e.capacity /\ x - t \in 0..MIN_SETTLED_QUANTITY /\ (t # x => t = 0)
    BY <1>a, <2>1, TradedIs
  <2>5. x \in 0..e.capacity /\ Unmet(e, q) = e.capacity - x
    BY <1>a, <2>1, ClearedIs
  <2>6. amount[o] \in Nat
    BY <1>b
  <2> DEFINE u == Unmet(e, q)
  <2>7. u = e.capacity - x
    BY <2>5
  <2> HIDE DEF e, t, x, u
  <2>8. t \in Nat /\ t <= e.capacity /\ e.capacity \in Nat
    BY <2>3, <2>4, <2>6
  <2>9. u > MIN_SETTLED_QUANTITY \/ t >= e.capacity - MIN_SETTLED_QUANTITY
           \/ e.capacity <= 2 * MIN_SETTLED_QUANTITY
    BY <2>4, <2>5, <2>7, <2>8 DEF MIN_SETTLED_QUANTITY
  <2>10. u = Unmet(c.demands[k], q)
    BY DEF u, e
  <2>11. c.demands[k].owner = o
    BY <2>2 DEF e
  <2> QED
    BY <2>1, <2>2, <2>3, <2>8, <2>9, <2>10, <2>11
<1>5. \/ /\ \A k \in DOMAIN s.purchases : s.purchases[k].owner # o
         /\ purchase = NoPurchase
      \/ \E k \in DOMAIN s.purchases : s.purchases[k].owner = o /\ purchase = s.purchases[k]
  BY <1>2, OwnEntryIs
<1>6. ASSUME NEW k \in DOMAIN s.purchases, s.purchases[k].owner = o, purchase = s.purchases[k]
      PROVE  PurchaseFits(purchase, amount[o], FullyMet(c, o), c.price)
  BY <1>4, <1>6 DEF PurchaseFits, FullyMet
<1> QED
  BY <1>3, <1>5, <1>6

-----------------------------------------------------------------------------
(***************************************************************************)
(* The inductive invariant of a simulation.                                *)
(***************************************************************************)
PoolType == [stored : Nat, sold : Nat, dumped : Nat, bought : Nat, revenue : Int,
             dumpCost : Nat, purchaseCost : Int, burned : Nat, ranOut : BOOLEAN]

PointType == [state : {"down", "blackout", "trade"}, price : Int, offered : [PoolIds -> Nat],
              produced : [PoolIds -> Nat], bought : [PoolIds -> Nat], stored : [PoolIds -> Nat],
              asked : [DOMAIN Tiers -> Nat], served : [DOMAIN Tiers -> Nat]]

GridType == [downUntil : Nat, blackouts : Seq(Nat), peak : Nat]

SimulationFits ==
    /\ input \in Inputs
    /\ pass \in {"warming", "counted", "over"}
    /\ point \in 0..PointCount
    /\ pool \in [PoolIds -> PoolType]
    /\ tank \in [Tanks -> Nat]
    /\ grid \in GridType
    /\ record \in Seq(PointType) /\ Len(record) = point

\* The grid is down for a day from the last of the blackouts, all of which are past.
GridFits ==
    /\ \A i \in DOMAIN grid.blackouts :
          grid.blackouts[i] < point /\ grid.blackouts[i] + ClearingsPerDay <= grid.downUntil
    /\ grid.downUntil > 0
         => \E i \in DOMAIN grid.blackouts : grid.downUntil = grid.blackouts[i] + ClearingsPerDay
    /\ pass = "warming" => grid.blackouts = <<>>

\* No storage holds more than it can, and the record says what each pool holds.
StorageFits ==
    /\ \A f \in PoolIds : Is(f, "storage") => pool[f].stored <= Plants[f].capacity
    /\ \A k \in PointsDone : k = point => \A f \in PoolIds : record[k].stored[f] = pool[f].stored

TradeFits == \A k \in PointsDone : Did(k) = "trade" => record[k].price \in Prices

TradingInv ==
    /\ SimulationFits /\ GridFits /\ StorageFits /\ TradeFits
    /\ BlackoutsAreKept /\ StorageHoldsWhatItBought

-----------------------------------------------------------------------------
(***************************************************************************)
(* What a point adds.                                                      *)
(***************************************************************************)
\* What a new point records, if the pools are then as given.
PointFits(r, pools) ==
    /\ r \in PointType /\ pools \in [PoolIds -> PoolType]
    /\ \A f \in PoolIds : r.stored[f] = pools[f].stored
    /\ \A f \in PoolIds :
          Is(f, "storage") =>
             /\ r.stored[f] = pool[f].stored + Through(r.bought[f]) - DrawnFor(r.produced[f])
             /\ r.stored[f] <= Plants[f].capacity
    /\ r.state = "trade" =>
          /\ \/ r.served[MustServe] >= r.asked[MustServe] - MIN_SETTLED_QUANTITY
             \/ r.asked[MustServe] <= 2 * MIN_SETTLED_QUANTITY
          /\ r.price \in Prices
    /\ r.state # "trade" =>
          /\ \A f \in PoolIds : r.produced[f] = 0 /\ r.bought[f] = 0 /\ r.stored[f] = pool[f].stored
          /\ \A tier \in DOMAIN Tiers : r.served[tier] = 0
    /\ r.state # "down" =>
          \A tier \in DOMAIN Tiers : r.asked[tier] = Rationed(Nominal(point, tier), TimesRationed)

\* Nothing goes through, and nothing is drawn for nothing.
LEMMA NothingMoves == \A n \in Nat : n + Through(0) - DrawnFor(0) = n
BY DEF Through, DrawnFor

\* What becomes of a pool that is told whether it ran out.
LEMMA NotedPoolIs ==
    ASSUME NEW held \in PoolType, NEW limits, NEW clearing, NEW f,
           NEW after, after = NoteRunOut(limits, clearing, f, held)
    PROVE  /\ after \in PoolType /\ after.stored = held.stored /\ after.burned = held.burned
           /\ after.revenue = held.revenue /\ after.purchaseCost = held.purchaseCost
<1> DEFINE b == \/ held.ranOut
                \/ /\ FuelShort(limits, f)
                   /\ IsBlackout(clearing) \/ clearing.price >= input.sell[f]
<1>1. b \in BOOLEAN
  OBVIOUS
<1>2. after = [held EXCEPT !.ranOut = b]
  BY DEF NoteRunOut
<1> HIDE DEF b
<1> QED
  BY <1>1, <1>2 DEF PoolType

\* What becomes of a pool that sells and buys.
LEMMA TradedPoolIs ==
    ASSUME NEW held \in PoolType, NEW f \in PoolIds, NEW sale, NEW purchase,
           sale.sold \in Nat, sale.dumped \in Nat, sale.revenue \in Int,
           purchase.bought \in Nat, purchase.cost \in Int,
           Is(f, "storage") => /\ DrawnFor(sale.sold + sale.dumped) <= held.stored
                               /\ held.stored <= Plants[f].capacity
                               /\ DrawnFor(purchase.bought) <= Plants[f].capacity - held.stored,
           NEW after, after = Bought(f, Sold(f, held, sale), purchase)
    PROVE  /\ after \in PoolType
           /\ after.revenue = held.revenue + sale.revenue
           /\ after.purchaseCost = held.purchaseCost + purchase.cost
           /\ after.burned = IF Is(f, "fuel") THEN held.burned + Produced(sale) * Plants[f].use
                             ELSE held.burned
           /\ ~Is(f, "storage") => after.stored = held.stored
           /\ Is(f, "storage") =>
                 /\ after.stored = held.stored + Through(purchase.bought)
                                     - DrawnFor(Produced(sale))
                 /\ after.stored <= Plants[f].capacity
<1> DEFINE made == sale.sold + sale.dumped
           x == IF Is(f, "storage") THEN AtLeast(0, held.stored - DrawnFor(made)) ELSE held.stored
           y == IF Is(f, "storage") THEN AtMost(Plants[f].capacity, x + Through(purchase.bought))
                ELSE x
           burned == IF Is(f, "fuel") THEN held.burned + made * Plants[f].use ELSE held.burned
<1>1. /\ held.stored \in Nat /\ held.sold \in Nat /\ held.dumped \in Nat /\ held.bought \in Nat
      /\ held.revenue \in Int /\ held.dumpCost \in Nat /\ held.purchaseCost \in Int
      /\ held.burned \in Nat /\ held.ranOut \in BOOLEAN
      /\ held = [stored |-> held.stored, sold |-> held.sold, dumped |-> held.dumped,
                 bought |-> held.bought, revenue |-> held.revenue, dumpCost |-> held.dumpCost,
                 purchaseCost |-> held.purchaseCost, burned |-> held.burned,
                 ranOut |-> held.ranOut]
  BY DEF PoolType
<1>2. made \in Nat /\ Produced(sale) = made
  BY DEF Produced
<1>3. Is(f, "fuel") => Plants[f].use \in Nat
  BY PlantAssumption DEF Is
<1>4. burned \in Nat
  <2>1. CASE Is(f, "fuel")
    <3>1. made * Plants[f].use \in Nat
      BY <1>2, <1>3, <2>1
    <3> QED
      BY <1>1, <2>1, <3>1
  <2> QED
    BY <1>1, <2>1
<1>5. Plants[f].capacity \in Nat
  BY PlantAssumption
<1>6. /\ x \in Nat /\ y \in Nat /\ (~Is(f, "storage") => y = held.stored)
      /\ Is(f, "storage") =>
            /\ y = held.stored + Through(purchase.bought) - DrawnFor(made)
            /\ y <= Plants[f].capacity
  <2> DEFINE d == purchase.bought \div 2
             cap == Plants[f].capacity
             h == held.stored
             g == made * 2
             b == purchase.bought
  <2>1. d \in Nat /\ d * 2 <= b /\ b \in Nat /\ g \in Nat /\ cap \in Nat /\ h \in Nat
    BY <1>1, <1>2, <1>5
  <2>2. Through(b) = d /\ DrawnFor(made) = g /\ DrawnFor(b) = b * 2
    BY DEF Through, DrawnFor
  <2>3. CASE ~Is(f, "storage")
    BY <1>1, <2>3
  <2>4. CASE Is(f, "storage")
    <3>1. g <= h /\ h <= cap /\ b * 2 <= cap - h
      BY <2>2, <2>4
    <3>2. x = AtLeast(0, h - g) /\ y = AtMost(cap, x + d)
      BY <2>2, <2>4
    <3> HIDE DEF d, cap, h, g, b, x, y
    <3>3. x = h - g /\ x \in Nat
      BY <2>1, <3>1, <3>2 DEF AtLeast
    <3>4. d <= b /\ h + b <= cap
      BY <2>1, <3>1
    <3>5. x + d <= cap
      BY <2>1, <3>1, <3>3, <3>4
    <3>6. y = x + d
      BY <2>1, <3>2, <3>3, <3>5 DEF AtMost
    <3>7. y = h + d - g /\ y \in Nat /\ y <= cap
      BY <2>1, <3>3, <3>5, <3>6
    <3> QED
      BY <2>2, <2>4, <3>3, <3>7 DEF h, cap, b
  <2> QED
    BY <2>3, <2>4
<1>7. after = [stored |-> y, sold |-> held.sold + sale.sold, dumped |-> held.dumped + sale.dumped,
               bought |-> held.bought + purchase.bought, revenue |-> held.revenue + sale.revenue,
               dumpCost |-> held.dumpCost + sale.dumped * DUMP_COST,
               purchaseCost |-> held.purchaseCost + purchase.cost, burned |-> burned,
               ranOut |-> held.ranOut]
  BY <1>1, <1>2 DEF Bought, Sold
<1> HIDE DEF x, y, burned, made
<1>8. sale.dumped * DUMP_COST \in Nat
  BY DEF DUMP_COST
<1>9. after \in PoolType
  BY <1>1, <1>4, <1>6, <1>7, <1>8 DEF PoolType
<1> QED
  BY <1>2, <1>6, <1>7, <1>9 DEF burned

\* A point settles at a price that players may ask.
LEMMA SettledPriceIs ==
    ASSUME ReadyToClear, NEW limits \in [PoolIds -> Nat],
           NEW c, c = ClearMarket(BookWith(limits)), NEW clearing, clearing = Settled(c)
    PROVE  /\ clearing.price \in Prices
           /\ clearing.quantity = c.quantity
           /\ clearing.offers = c.offers /\ clearing.demands = c.demands
<1>1. /\ OffersInOrder(c.offers) /\ DemandsInOrder(c.demands)
      /\ Lists(c.offers, PoolIds, Offerable(limits), input.sell, MustRuns)
      /\ Lists(c.demands, Bidders, Wanted, Worth, NoneMustBuy)
  BY PointClears
<1> DEFINE offers == c.offers
           demands == c.demands
           optimum == MarketOptimum(offers, demands)
<1>2. c = [price |-> optimum.price, quantity |-> optimum.quantity,
           offers |-> offers, demands |-> demands]
  BY DEF ClearMarket
<1>3. \A k \in DOMAIN offers : offers[k].price \in Prices
  <2>1. \A k \in DOMAIN offers :
           offers[k].owner \in PoolIds /\ offers[k].price = input.sell[offers[k].owner]
    BY <1>1 DEF Lists
  <2>2. \A f \in PoolIds : input.sell[f] \in Prices
    BY InputIs DEF ReadyToClear
  <2> QED
    BY <2>1, <2>2
<1>4. \A k \in DOMAIN demands : demands[k].price \in Prices \cup {Unbounded}
  <2>1. \A k \in DOMAIN demands :
           demands[k].owner \in Bidders /\ demands[k].price = Worth[demands[k].owner]
    BY <1>1 DEF Lists
  <2>2. \A o \in Bidders : Worth[o] \in Prices \cup {Unbounded}
    BY BidsAre
  <2> QED
    BY <2>1, <2>2
<1>5. optimum.price \in Prices \cup {Unbounded}
  <2>1. CASE offers = <<>> \/ demands = <<>>
    <3>1. optimum.price = 0
      BY <2>1 DEF MarketOptimum
    <3>2. 0 \in Prices
      BY DEF Prices, PRICE_FLOOR, SCARCITY_PRICE, DUMP_COST
    <3> QED
      BY <3>1, <3>2
  <2>2. CASE offers # <<>> /\ demands # <<>>
    <3>1. Named(offers, demands, optimum.price)
      <4>1. OffersInOrder(offers) /\ DemandsInOrder(demands)
        BY <1>1
      <4> DEFINE best == optimum
      <4>2. best = MarketOptimum(offers, demands)
        OBVIOUS
      <4> HIDE DEF best, offers, demands
      <4>3. Named(offers, demands, best.price)
        BY <2>2, <4>1, <4>2, ClearingSuits
      <4> QED
        BY <4>3 DEF best
    <3> QED
      BY <1>3, <1>4, <3>1 DEF Named
  <2> QED
    BY <2>1, <2>2
<1> HIDE DEF optimum, offers, demands
<1>6. c.price \in Prices \cup {Unbounded}
  BY <1>2, <1>5
<1>7. SCARCITY_PRICE \in Prices
  BY DEF Prices, PRICE_FLOOR, SCARCITY_PRICE, DUMP_COST
<1>8. CASE c.price = Unbounded
  BY <1>2, <1>7, <1>8 DEF Settled, offers, demands
<1>9. CASE c.price # Unbounded
  BY <1>6, <1>9 DEF Settled
<1> QED
  BY <1>8, <1>9

\* While a simulation goes on, the market is ready to clear.
LEMMA SimulatingIsReady ==
    ASSUME TradingInv, Simulating
    PROVE  ReadyToClear
<1>1. /\ input \in Inputs /\ point \in 0..PointCount /\ tank \in [Tanks -> Nat]
      /\ pool \in [PoolIds -> PoolType] /\ grid \in GridType
      /\ \A f \in PoolIds : Is(f, "storage") => pool[f].stored <= Plants[f].capacity
  BY DEF TradingInv, SimulationFits, StorageFits
<1>2. point \in 0..(PointCount - 1)
  <2>1. point < PointCount
    BY DEF Simulating
  <2>2. PointCount \in Int
    BY TradingAssumption DEF PointCount
  <2> QED
    BY <1>1, <2>1, <2>2
<1>3. Len(grid.blackouts) \in Nat
  <2>1. grid.blackouts \in Seq(Nat)
    BY <1>1 DEF GridType
  <2> QED
    BY <2>1
<1>4. \A f \in PoolIds : Is(f, "storage") => pool[f].stored \in 0..Plants[f].capacity
  <2> SUFFICES ASSUME NEW f \in PoolIds, Is(f, "storage")
               PROVE  pool[f].stored \in 0..Plants[f].capacity
    OBVIOUS
  <2>1. pool[f].stored \in Nat
    BY <1>1 DEF PoolType
  <2>2. pool[f].stored <= Plants[f].capacity /\ Plants[f].capacity \in Nat
    BY <1>1, PlantAssumption
  <2> QED
    BY <2>1, <2>2
<1> QED
  BY <1>1, <1>2, <1>3, <1>4 DEF ReadyToClear

\* A point at which the grid is down.
LEMMA DownPoint ==
    ASSUME TradingInv, StayDown
    PROVE  /\ record' = Append(record, PointDown(pool)) /\ point' = point + 1
           /\ PointFits(PointDown(pool), pool') /\ PointDown(pool).state = "down"
           /\ tank' \in [Tanks -> Nat]
<1> DEFINE r == PointDown(pool)
<1>1. pool \in [PoolIds -> PoolType] /\ pool' = pool /\ tank' = tank /\ tank \in [Tanks -> Nat]
  BY DEF TradingInv, SimulationFits, StayDown
<1>2. \A f \in PoolIds : pool[f].stored \in Nat
  BY <1>1 DEF PoolType
<1>3. /\ r.state = "down" /\ r.price = 0 /\ r.offered = Nothing /\ r.produced = Nothing
      /\ r.bought = Nothing /\ r.stored = [f \in PoolIds |-> pool[f].stored]
      /\ r.asked = Unserved /\ r.served = Unserved
      /\ r = [state |-> r.state, price |-> r.price, offered |-> r.offered,
              produced |-> r.produced, bought |-> r.bought, stored |-> r.stored,
              asked |-> r.asked, served |-> r.served]
  BY DEF PointDown
<1>4. Nothing \in [PoolIds -> Nat] /\ Unserved \in [DOMAIN Tiers -> Nat]
  BY DEF Nothing, Unserved
<1>5. r.stored \in [PoolIds -> Nat]
  BY <1>2, <1>3
<1> HIDE DEF r
<1>6. r \in PointType
  BY <1>3, <1>4, <1>5 DEF PointType
<1>7. \A f \in PoolIds : /\ r.produced[f] = 0 /\ r.bought[f] = 0 /\ r.stored[f] = pool[f].stored
                         /\ pool[f].stored + Through(0) - DrawnFor(0) = pool[f].stored
  BY <1>2, <1>3, NothingMoves DEF Nothing
<1>8. \A tier \in DOMAIN Tiers : r.served[tier] = 0
  BY <1>3 DEF Unserved
<1>9. \A f \in PoolIds : Is(f, "storage") => r.stored[f] <= Plants[f].capacity
  BY <1>7 DEF TradingInv, StorageFits
<1>10. PointFits(r, pool')
  BY <1>1, <1>3, <1>6, <1>7, <1>8, <1>9 DEF PointFits
<1>11. record' = Append(record, r) /\ point' = point + 1
  BY DEF StayDown, r
<1> QED
  BY <1>1, <1>3, <1>10, <1>11 DEF r

\* What a cleared point offered and asked for.
LEMMA PointsOffers ==
    ASSUME ReadyToClear, NEW limits \in [PoolIds -> Nat],
           NEW c, c = ClearMarket(BookWith(limits))
    PROVE  /\ [f \in PoolIds |-> EntryOf(c.offers, f, [capacity |-> 0]).capacity]
                \in [PoolIds -> Nat]
           /\ [tier \in DOMAIN Tiers |-> DemandBlock[tier].capacity] \in [DOMAIN Tiers -> Nat]
           /\ \A f \in PoolIds :
                 EntryOf(c.offers, f, [capacity |-> 0]).capacity = Offerable(limits)[f]
           /\ \A tier \in DOMAIN Tiers :
                 DemandBlock[tier].capacity = Rationed(Nominal(point, tier), TimesRationed)
<1>1. Lists(c.offers, PoolIds, Offerable(limits), input.sell, MustRuns)
  BY PointClears
<1>2. Offerable(limits) \in [PoolIds -> Nat]
  BY AmountsAre
<1>3. ASSUME NEW f \in PoolIds
      PROVE  EntryOf(c.offers, f, [capacity |-> 0]).capacity = Offerable(limits)[f]
  <2> DEFINE none == [capacity |-> 0]
             entry == EntryOf(c.offers, f, none)
             A == Offerable(limits)
             entries == c.offers
  <2> SUFFICES entry.capacity = A[f]
    OBVIOUS
  <2>0. none.capacity = 0 /\ A[f] \in Nat
    BY <1>2
  <2>1. \/ (\A k \in DOMAIN entries : entries[k].owner # f) /\ entry = none
        \/ \E k \in DOMAIN entries : entries[k].owner = f /\ entry = entries[k]
    <3>1. entry = EntryOf(entries, f, none)
      OBVIOUS
    <3> HIDE DEF none, entry, entries
    <3> QED
      BY <3>1, OwnEntryIs
  <2>2. /\ \A x \in PoolIds : A[x] > 0 => \E k \in DOMAIN entries : entries[k].owner = x
        /\ \A k \in DOMAIN entries : entries[k].capacity = A[entries[k].owner]
    BY <1>1 DEF Lists
  <2> HIDE DEF A, none, entry, entries
  <2>3. CASE (\A k \in DOMAIN entries : entries[k].owner # f) /\ entry = none
    <3>1. ~(A[f] > 0)
      BY <2>2, <2>3
    <3> QED
      BY <2>0, <2>3, <3>1
  <2>4. CASE \E k \in DOMAIN entries : entries[k].owner = f /\ entry = entries[k]
    BY <2>2, <2>4
  <2> QED
    BY <2>1, <2>3, <2>4
<1>4. \A tier \in DOMAIN Tiers :
         /\ DemandBlock[tier].capacity \in Nat
         /\ DemandBlock[tier].capacity = Rationed(Nominal(point, tier), TimesRationed)
  BY DemandBlockIs
<1> HIDE DEF ReadyToClear
<1>5. [f \in PoolIds |-> EntryOf(c.offers, f, [capacity |-> 0]).capacity] \in [PoolIds -> Nat]
  BY <1>2, <1>3
<1>6. [tier \in DOMAIN Tiers |-> DemandBlock[tier].capacity] \in [DOMAIN Tiers -> Nat]
  BY <1>4
<1> QED
  BY <1>3, <1>4, <1>5, <1>6

\* A point at which must-serve demand is not met.
LEMMA BlackoutPoint ==
    ASSUME TradingInv, GoDown
    PROVE  \E r : /\ record' = Append(record, r) /\ point' = point + 1
                  /\ PointFits(r, pool') /\ r.state = "blackout"
                  /\ tank' \in [Tanks -> Nat]
<1> DEFINE limits == FuelLimits
           c == ClearMarket(BookWith(limits))
           noted == [f \in PoolIds |-> NoteRunOut(limits, c, f, pool[f])]
           r == PointCleared(c, "blackout", <<>>, <<>>, noted)
<1>1. pool \in [PoolIds -> PoolType] /\ tank \in [Tanks -> Nat] /\ input \in Inputs
  BY DEF TradingInv, SimulationFits
<1>2. ReadyToClear
  BY SimulatingIsReady DEF GoDown
<1>3. limits \in [PoolIds -> Nat]
  BY <1>1, LimitsAreTyped
<1>4. record' = Append(record, r) /\ point' = point + 1 /\ pool' = noted /\ tank' = tank
  BY DEF GoDown
<1> HIDE DEF limits
<1>5. c = ClearMarket(BookWith(limits))
  OBVIOUS
<1> HIDE DEF c
<1>6. c.price \in Int
  BY <1>2, <1>3, <1>5, PointClears
<1>7. /\ [f \in PoolIds |-> EntryOf(c.offers, f, [capacity |-> 0]).capacity] \in [PoolIds -> Nat]
      /\ [tier \in DOMAIN Tiers |-> DemandBlock[tier].capacity] \in [DOMAIN Tiers -> Nat]
      /\ \A tier \in DOMAIN Tiers :
            DemandBlock[tier].capacity = Rationed(Nominal(point, tier), TimesRationed)
  BY <1>2, <1>3, <1>5, PointsOffers
<1>8. \A f \in PoolIds : noted[f] \in PoolType /\ noted[f].stored = pool[f].stored
  <2> SUFFICES ASSUME NEW f \in PoolIds
               PROVE  noted[f] \in PoolType /\ noted[f].stored = pool[f].stored
    OBVIOUS
  <2>1. noted[f] = NoteRunOut(limits, c, f, pool[f]) /\ pool[f] \in PoolType
    BY <1>1
  <2> HIDE DEF noted
  <2> QED
    BY <2>1, NotedPoolIs
<1>9. noted \in [PoolIds -> PoolType]
  BY <1>8
<1> HIDE DEF noted
<1>10. \A o : EntryOf(<<>>, o, NoSale) = NoSale /\ EntryOf(<<>>, o, NoPurchase) = NoPurchase
  BY DEF EntryOf
<1>11. Produced(NoSale) = 0 /\ NoPurchase.bought = 0
  BY DEF Produced, NoSale, NoPurchase
<1>12. /\ r.state = "blackout" /\ r.price = c.price
       /\ r.offered = [f \in PoolIds |-> EntryOf(c.offers, f, [capacity |-> 0]).capacity]
       /\ r.produced = [f \in PoolIds |-> 0] /\ r.bought = [f \in PoolIds |-> 0]
       /\ r.stored = [f \in PoolIds |-> noted[f].stored]
       /\ r.asked = [tier \in DOMAIN Tiers |-> DemandBlock[tier].capacity]
       /\ r.served = [tier \in DOMAIN Tiers |-> 0]
       /\ r = [state |-> r.state, price |-> r.price, offered |-> r.offered,
               produced |-> r.produced, bought |-> r.bought, stored |-> r.stored,
               asked |-> r.asked, served |-> r.served]
  BY <1>10, <1>11 DEF PointCleared
<1> HIDE DEF r
<1>13. /\ r.produced \in [PoolIds -> Nat] /\ r.bought \in [PoolIds -> Nat]
       /\ r.stored \in [PoolIds -> Nat] /\ r.served \in [DOMAIN Tiers -> Nat]
  <2>1. \A f \in PoolIds : noted[f].stored \in Nat
    BY <1>8 DEF PoolType
  <2> QED
    BY <1>12, <2>1
<1>14. r \in PointType
  BY <1>6, <1>7, <1>12, <1>13 DEF PointType
<1>15. \A f \in PoolIds : /\ r.produced[f] = 0 /\ r.bought[f] = 0 /\ r.stored[f] = pool[f].stored
                          /\ r.stored[f] = noted[f].stored
                          /\ pool[f].stored + Through(0) - DrawnFor(0) = pool[f].stored
  <2>1. \A f \in PoolIds : pool[f].stored \in Nat
    BY <1>1 DEF PoolType
  <2> QED
    BY <1>8, <1>12, <2>1, NothingMoves
<1>16. \A tier \in DOMAIN Tiers :
          /\ r.served[tier] = 0
          /\ r.asked[tier] = Rationed(Nominal(point, tier), TimesRationed)
  BY <1>7, <1>12
<1>17. \A f \in PoolIds : Is(f, "storage") => r.stored[f] <= Plants[f].capacity
  BY <1>15 DEF TradingInv, StorageFits
<1>18. PointFits(r, noted)
  BY <1>9, <1>12, <1>14, <1>15, <1>16, <1>17 DEF PointFits
<1> QED
  BY <1>1, <1>4, <1>12, <1>18

\* What is cleared and settled at the point to come, and what becomes of the pools.
ClearingNow    == ClearMarket(BookWith(FuelLimits))
SettledNow     == Settled(ClearingNow)
SettlementNow  == SettleClearing(SettledNow)
SaleNow(f)     == EntryOf(SettlementNow.sales, f, NoSale)
PurchaseNow(o) == EntryOf(SettlementNow.purchases, o, NoPurchase)
PoolNow(f)     == Bought(f, Sold(f, NoteRunOut(FuelLimits, ClearingNow, f, pool[f]), SaleNow(f)),
                         PurchaseNow(f))
PointNow       == PointCleared(SettledNow, "trade", SettlementNow.sales, SettlementNow.purchases,
                               [f \in PoolIds |-> PoolNow(f)])
BurnedNow(t)   == SumFunctionOnSet([f \in PoolIds |-> Produced(SaleNow(f)) * Plants[f].use],
                                   { f \in PoolIds : BurnsLimitedFuel(f) /\ TankOf(f) = t })

\* A step that trades.
LEMMA TradeIs ==
    ASSUME TradingInv, Trade
    PROVE  /\ ReadyToClear /\ FuelLimits \in [PoolIds -> Nat] /\ Simulating
           /\ point >= grid.downUntil /\ ~IsBlackout(ClearingNow)
           /\ pool' = [f \in PoolIds |-> PoolNow(f)]
           /\ tank' = [t \in Tanks |-> AtLeast(0, tank[t] - BurnedNow(t))]
           /\ grid' = [grid EXCEPT !.peak = PeakNow]
           /\ record' = Append(record, PointNow)
           /\ point' = point + 1 /\ input' = input /\ pass' = pass
<1>1. Simulating /\ tank \in [Tanks -> Nat] /\ input \in Inputs
  BY DEF Trade, TradingInv, SimulationFits
<1>2. ReadyToClear /\ FuelLimits \in [PoolIds -> Nat]
  BY <1>1, SimulatingIsReady, LimitsAreTyped
<1> DEFINE sale == [f \in PoolIds |-> SaleNow(f)]
           purchase == [f \in PoolIds |-> PurchaseNow(f)]
           After(f) == Bought(f, Sold(f, NoteRunOut(FuelLimits, ClearingNow, f, pool[f]), sale[f]),
                              purchase[f])
           Burned(t) == SumFunctionOnSet([f \in PoolIds |-> Produced(sale[f]) * Plants[f].use],
                                         { f \in PoolIds : BurnsLimitedFuel(f) /\ TankOf(f) = t })
           pools == [f \in PoolIds |-> After(f)]
<1>3. /\ point >= grid.downUntil /\ ~IsBlackout(ClearingNow)
      /\ pool' = pools
      /\ tank' = [t \in Tanks |-> AtLeast(0, tank[t] - Burned(t))]
      /\ grid' = [grid EXCEPT !.peak = PeakNow]
      /\ record' = Append(record, PointCleared(SettledNow, "trade", SettlementNow.sales,
                                               SettlementNow.purchases, pools))
      /\ point' = point + 1 /\ input' = input /\ pass' = pass
  BY Zenon DEF Trade, ClearingNow, SettledNow, SettlementNow, SaleNow, PurchaseNow
<1>4. \A f \in PoolIds : After(f) = PoolNow(f) /\ sale[f] = SaleNow(f)
  BY DEF PoolNow
<1>5. pools = [f \in PoolIds |-> PoolNow(f)]
  BY <1>4
<1>6. [f \in PoolIds |-> Produced(sale[f]) * Plants[f].use]
         = [f \in PoolIds |-> Produced(SaleNow(f)) * Plants[f].use]
  BY <1>4
<1>7. \A t : Burned(t) = BurnedNow(t)
  BY <1>6, Zenon DEF BurnedNow
<1> HIDE DEF pools, Burned
<1>8. tank' = [t \in Tanks |-> AtLeast(0, tank[t] - BurnedNow(t))]
  BY <1>3, <1>7
<1>9. record' = Append(record, PointNow)
  BY <1>3, <1>5 DEF PointNow
<1> QED
  BY <1>1, <1>2, <1>3, <1>5, <1>8, <1>9

\* What is settled with the pools and tiers.
LEMMA SettlementsNow ==
    ASSUME ReadyToClear, FuelLimits \in [PoolIds -> Nat]
    PROVE  /\ SettledNow.price \in Prices
           /\ \A f \in PoolIds :
                 SaleFits(SaleNow(f), Offerable(FuelLimits)[f], CanWait(MustRuns, f), SettledNow.price)
           /\ \A o \in Bidders :
                 PurchaseFits(PurchaseNow(o), Wanted[o], FullyMet(SettledNow, o), SettledNow.price)
           /\ ~IsBlackout(ClearingNow) => FullyMet(SettledNow, -MustServe)
<1> DEFINE c == ClearingNow
           clearing == SettledNow
           A == Offerable(FuelLimits)
<1>1. /\ Stacked(c.offers) /\ Stacked(c.demands) /\ c.quantity \in Nat
      /\ Lists(c.offers, PoolIds, A, input.sell, MustRuns)
      /\ Lists(c.demands, Bidders, Wanted, Worth, NoneMustBuy)
  BY PointClears DEF ClearingNow
<1>2. /\ clearing.price \in Prices /\ clearing.quantity = c.quantity
      /\ clearing.offers = c.offers /\ clearing.demands = c.demands
  BY SettledPriceIs DEF ClearingNow, SettledNow
<1>3. clearing.price \in Int
  BY <1>2, PricesSuitBooks
<1>4. A \in [PoolIds -> Nat] /\ Wanted \in [Bidders -> Nat]
  BY AmountsAre, BidsAre
<1>5. \A o : /\ SaleNow(o) = EntryOf(SettleClearing(clearing).sales, o, NoSale)
             /\ PurchaseNow(o) = EntryOf(SettleClearing(clearing).purchases, o, NoPurchase)
  BY DEF SaleNow, PurchaseNow, SettlementNow
<1>6. ~IsBlackout(c) => FullyMet(clearing, -MustServe)
  BY <1>2 DEF IsBlackout, FullyMet
<1> HIDE DEF A, c, clearing
<1>7. ClearsOffers(clearing, PoolIds, A, input.sell, MustRuns)
  BY <1>1, <1>2, <1>3, <1>4 DEF ClearsOffers
<1>8. ClearsDemands(clearing, Bidders, Wanted, Worth, NoneMustBuy)
  BY <1>1, <1>2, <1>3, <1>4 DEF ClearsDemands
<1>9. \A f \in PoolIds : SaleFits(SaleNow(f), A[f], CanWait(MustRuns, f), clearing.price)
  BY <1>5, <1>7, SalesAre
<1>10. \A o \in Bidders : PurchaseFits(PurchaseNow(o), Wanted[o], FullyMet(clearing, o), clearing.price)
  BY <1>5, <1>8, PurchasesAre
<1> QED
  BY <1>2, <1>6, <1>9, <1>10 DEF A, c, clearing

\* What becomes of a pool at a point that trades.
LEMMA PoolTraded ==
    ASSUME TradingInv, ReadyToClear, FuelLimits \in [PoolIds -> Nat], NEW f \in PoolIds
    PROVE  /\ SaleNow(f).sold \in Nat /\ PurchaseNow(f).bought \in Nat
           /\ Produced(SaleNow(f)) \in Nat
           /\ Produced(SaleNow(f)) <= Offerable(FuelLimits)[f]
           /\ PoolNow(f) \in PoolType
           /\ PoolNow(f).revenue = pool[f].revenue + SaleNow(f).sold * SettledNow.price
           /\ PoolNow(f).purchaseCost
                = pool[f].purchaseCost + PurchaseNow(f).bought * SettledNow.price
           /\ PoolNow(f).burned = IF Is(f, "fuel")
                                    THEN pool[f].burned + Produced(SaleNow(f)) * Plants[f].use
                                  ELSE pool[f].burned
           /\ ~Is(f, "storage") => PoolNow(f).stored = pool[f].stored
           /\ Is(f, "storage") =>
                 /\ PoolNow(f).stored = pool[f].stored + Through(PurchaseNow(f).bought)
                                          - DrawnFor(Produced(SaleNow(f)))
                 /\ PoolNow(f).stored <= Plants[f].capacity
<1> DEFINE sale == SaleNow(f)
           purchase == PurchaseNow(f)
           held == NoteRunOut(FuelLimits, ClearingNow, f, pool[f])
           after == PoolNow(f)
           price == SettledNow.price
           most == Offerable(FuelLimits)[f]
           wanted == Wanted[f]
<1>1. price \in Int
  BY SettlementsNow, PricesSuitBooks
<1>2. SaleFits(sale, most, CanWait(MustRuns, f), price)
  BY SettlementsNow
<1>3. \E met : PurchaseFits(purchase, wanted, met, price)
  <2>1. f \in Bidders
    BY BiddersAre
  <2> QED
    BY <2>1, SettlementsNow
<1>4. pool[f] \in PoolType
  BY DEF TradingInv, SimulationFits
<1>5. /\ held \in PoolType /\ held.stored = pool[f].stored /\ held.burned = pool[f].burned
      /\ held.revenue = pool[f].revenue /\ held.purchaseCost = pool[f].purchaseCost
  <2> DEFINE before == pool[f]
             clearing == ClearingNow
             limits == FuelLimits
  <2> SUFFICES /\ held \in PoolType /\ held.stored = before.stored /\ held.burned = before.burned
               /\ held.revenue = before.revenue /\ held.purchaseCost = before.purchaseCost
    OBVIOUS
  <2>1. held = NoteRunOut(limits, clearing, f, before) /\ before \in PoolType
    BY <1>4
  <2> HIDE DEF held, before, clearing, limits
  <2> QED
    BY <2>1, NotedPoolIs
<1>6. most \in Nat /\ wanted \in Nat /\ wanted = Chargeable[f]
  <2>1. Offerable(FuelLimits) \in [PoolIds -> Nat] /\ Chargeable \in [PoolIds -> Nat]
    BY AmountsAre
  <2>2. Wanted[f] = Chargeable[f]
    BY BidsAre
  <2> QED
    BY <2>1, <2>2
<1>7. Is(f, "storage") => /\ DrawnFor(most) <= held.stored
                          /\ held.stored <= Plants[f].capacity
                          /\ DrawnFor(wanted) <= Plants[f].capacity - held.stored
  BY <1>5, <1>6, AmountsAre DEF TradingInv, StorageFits
<1>8. after = Bought(f, Sold(f, held, sale), purchase)
  BY Zenon DEF PoolNow
<1>9. held.stored \in Nat /\ Plants[f].capacity \in Nat
  BY <1>5, PlantAssumption DEF PoolType
<1> HIDE DEF sale, purchase, held, after, price, most, wanted
<1>10. /\ sale.sold \in Nat /\ sale.dumped \in Nat /\ sale.sold + sale.dumped <= most
       /\ sale.revenue = sale.sold * price
  BY <1>2 DEF SaleFits
<1>11. /\ purchase.bought \in Nat /\ purchase.bought <= wanted
       /\ purchase.cost = purchase.bought * price
  BY <1>3 DEF PurchaseFits
<1>12. sale.revenue \in Int /\ purchase.cost \in Int
  BY <1>1, <1>10, <1>11
<1>13. Is(f, "storage") => /\ DrawnFor(sale.sold + sale.dumped) <= held.stored
                           /\ held.stored <= Plants[f].capacity
                           /\ DrawnFor(purchase.bought) <= Plants[f].capacity - held.stored
  BY <1>6, <1>7, <1>9, <1>10, <1>11 DEF DrawnFor
<1>14. /\ after \in PoolType
       /\ after.revenue = held.revenue + sale.revenue
       /\ after.purchaseCost = held.purchaseCost + purchase.cost
       /\ after.burned = IF Is(f, "fuel") THEN held.burned + Produced(sale) * Plants[f].use
                         ELSE held.burned
       /\ ~Is(f, "storage") => after.stored = held.stored
       /\ Is(f, "storage") =>
             /\ after.stored = held.stored + Through(purchase.bought) - DrawnFor(Produced(sale))
             /\ after.stored <= Plants[f].capacity
  BY <1>5, <1>8, <1>10, <1>11, <1>12, <1>13, TradedPoolIs
<1>15. Produced(sale) \in Nat /\ Produced(sale) <= most
  BY <1>10 DEF Produced
<1> QED
  BY <1>5, <1>10, <1>11, <1>14, <1>15 DEF sale, purchase, after, price, most

\* The pools that share a stock of fuel.
Sharing(t) == { f \in PoolIds : BurnsLimitedFuel(f) /\ TankOf(f) = t }

\* There are finitely many of them.
LEMMA SharingIsFinite == \A t : IsFiniteSet(Sharing(t)) /\ Sharing(t) \subseteq PoolIds
<1> SUFFICES ASSUME NEW t PROVE IsFiniteSet(Sharing(t)) /\ Sharing(t) \subseteq PoolIds
  OBVIOUS
<1> DEFINE S == PoolIds
           T == Sharing(t)
<1>1. T \in SUBSET S /\ IsFiniteSet(S)
  BY PoolsAreFinite DEF Sharing
<1> HIDE DEF S, T
<1>2. IsFiniteSet(T)
  BY <1>1, FS_Subset
<1> QED
  BY <1>1, <1>2 DEF S, T

\* What they burn of it is a count, the sum of what each burns.
LEMMA BurnedIs ==
    ASSUME TradingInv, ReadyToClear, FuelLimits \in [PoolIds -> Nat], NEW t
    PROVE  BurnedNow(t) \in Nat
<1> DEFINE g == [f \in PoolIds |-> Produced(SaleNow(f)) * Plants[f].use]
<1>1. IsFiniteSet(Sharing(t))
  BY SharingIsFinite
<1>2. ASSUME NEW f \in Sharing(t) PROVE g[f] \in Nat
  <2>1. f \in PoolIds /\ Is(f, "fuel")
    BY DEF Sharing, BurnsLimitedFuel
  <2>2. Produced(SaleNow(f)) \in Nat
    BY <2>1, PoolTraded
  <2>3. Plants[f].use \in Nat
    BY <2>1, PlantAssumption DEF Is
  <2> DEFINE made == Produced(SaleNow(f))
             use == Plants[f].use
  <2>4. g[f] = made * use
    BY <2>1
  <2> HIDE DEF g, made, use
  <2>5. made \in Nat /\ use \in Nat
    BY <2>2, <2>3 DEF made, use
  <2> QED
    BY <2>4, <2>5
<1>3. BurnedNow(t) = SumFunctionOnSet(g, Sharing(t))
  BY Zenon DEF BurnedNow, Sharing
<1> HIDE DEF g
<1> QED
  BY <1>1, <1>2, <1>3, SumOfNaturals

\* A point that trades.
LEMMA TradePoint ==
    ASSUME TradingInv, Trade
    PROVE  /\ record' = Append(record, PointNow) /\ point' = point + 1
           /\ PointFits(PointNow, pool') /\ PointNow.state = "trade"
           /\ tank' \in [Tanks -> Nat]
<1> DEFINE r == PointNow
           pools == [f \in PoolIds |-> PoolNow(f)]
<1>1. /\ ReadyToClear /\ FuelLimits \in [PoolIds -> Nat] /\ ~IsBlackout(ClearingNow)
      /\ pool' = pools /\ record' = Append(record, r) /\ point' = point + 1
      /\ tank' = [t \in Tanks |-> AtLeast(0, tank[t] - BurnedNow(t))]
  BY TradeIs
<1>2. tank \in [Tanks -> Nat]
  BY DEF TradingInv, SimulationFits
<1>3. tank' \in [Tanks -> Nat]
  <2>1. ASSUME NEW t \in Tanks PROVE AtLeast(0, tank[t] - BurnedNow(t)) \in Nat
    <3> DEFINE b == BurnedNow(t)
               l == tank[t]
    <3>1. b \in Nat /\ l \in Nat
      BY <1>1, <1>2, BurnedIs
    <3> HIDE DEF b, l
    <3> QED
      BY <3>1 DEF AtLeast, b, l
  <2> QED
    BY <1>1, <2>1
<1>4. /\ r.state = "trade" /\ r.price = SettledNow.price
      /\ r.offered = [f \in PoolIds |-> EntryOf(SettledNow.offers, f, [capacity |-> 0]).capacity]
      /\ r.produced = [f \in PoolIds |-> Produced(SaleNow(f))]
      /\ r.bought = [f \in PoolIds |-> PurchaseNow(f).bought]
      /\ r.stored = [f \in PoolIds |-> pools[f].stored]
      /\ r.asked = [tier \in DOMAIN Tiers |-> DemandBlock[tier].capacity]
      /\ r.served = [tier \in DOMAIN Tiers |-> PurchaseNow(-tier).bought]
      /\ r = [state |-> r.state, price |-> r.price, offered |-> r.offered,
              produced |-> r.produced, bought |-> r.bought, stored |-> r.stored,
              asked |-> r.asked, served |-> r.served]
  BY DEF PointNow, PointCleared, SaleNow, PurchaseNow
<1> DEFINE price == SettledNow.price
<1>5. /\ price \in Prices
      /\ \A o \in Bidders : PurchaseFits(PurchaseNow(o), Wanted[o], FullyMet(SettledNow, o), price)
      /\ FullyMet(SettledNow, -MustServe)
  BY <1>1, SettlementsNow
<1>6. price \in Int
  BY <1>5, PricesSuitBooks
<1>7. /\ r.offered \in [PoolIds -> Nat] /\ r.asked \in [DOMAIN Tiers -> Nat]
      /\ \A tier \in DOMAIN Tiers :
            DemandBlock[tier].capacity = Rationed(Nominal(point, tier), TimesRationed)
  <2> DEFINE c == ClearingNow
             limits == FuelLimits
  <2>1. c = ClearMarket(BookWith(limits)) /\ limits \in [PoolIds -> Nat]
    BY <1>1, Zenon DEF ClearingNow
  <2>2. SettledNow.offers = c.offers
    BY <1>1, SettledPriceIs DEF ClearingNow, SettledNow
  <2> HIDE DEF c, limits
  <2>3. /\ [f \in PoolIds |-> EntryOf(c.offers, f, [capacity |-> 0]).capacity] \in [PoolIds -> Nat]
        /\ [tier \in DOMAIN Tiers |-> DemandBlock[tier].capacity] \in [DOMAIN Tiers -> Nat]
        /\ \A tier \in DOMAIN Tiers :
              DemandBlock[tier].capacity = Rationed(Nominal(point, tier), TimesRationed)
    BY <1>1, <2>1, PointsOffers
  <2> QED
    BY <1>4, <2>2, <2>3
<1>8. \A f \in PoolIds :
         /\ PurchaseNow(f).bought \in Nat /\ Produced(SaleNow(f)) \in Nat
         /\ PoolNow(f) \in PoolType
         /\ Is(f, "storage") =>
               /\ PoolNow(f).stored = pool[f].stored + Through(PurchaseNow(f).bought)
                                        - DrawnFor(Produced(SaleNow(f)))
               /\ PoolNow(f).stored <= Plants[f].capacity
  BY <1>1, PoolTraded
<1>9. pools \in [PoolIds -> PoolType] /\ \A f \in PoolIds : pools[f].stored \in Nat
  BY <1>8 DEF PoolType
<1>10. \A tier \in DOMAIN Tiers :
          PurchaseFits(PurchaseNow(-tier), Wanted[-tier], FullyMet(SettledNow, -tier), price)
  BY <1>5, BiddersAre
<1>11. \A tier \in DOMAIN Tiers : PurchaseNow(-tier).bought \in Nat
  BY <1>10 DEF PurchaseFits
<1>12. MustServe \in DOMAIN Tiers
  BY BiddersAre
<1>13. Wanted[-MustServe] = DemandBlock[MustServe].capacity
  BY <1>1, <1>12, BidsAre
<1>14. r.served[MustServe] = PurchaseNow(-MustServe).bought
          /\ r.asked[MustServe] = Wanted[-MustServe]
  BY <1>4, <1>12, <1>13
<1>15. \/ r.served[MustServe] >= r.asked[MustServe] - MIN_SETTLED_QUANTITY
       \/ r.asked[MustServe] <= 2 * MIN_SETTLED_QUANTITY
  BY <1>5, <1>10, <1>12, <1>14 DEF PurchaseFits
<1> HIDE DEF r, price
<1>16. /\ r.produced \in [PoolIds -> Nat] /\ r.bought \in [PoolIds -> Nat]
       /\ r.stored \in [PoolIds -> Nat] /\ r.served \in [DOMAIN Tiers -> Nat]
  BY <1>4, <1>8, <1>9, <1>11
<1>17. r.price = price
  BY <1>4 DEF price
<1>18. r \in PointType
  BY <1>4, <1>6, <1>7, <1>16, <1>17 DEF PointType
<1>19. \A f \in PoolIds :
          /\ r.stored[f] = pools[f].stored
          /\ Is(f, "storage") =>
                /\ r.stored[f] = pool[f].stored + Through(r.bought[f]) - DrawnFor(r.produced[f])
                /\ r.stored[f] <= Plants[f].capacity
  BY <1>4, <1>8
<1>20. \A tier \in DOMAIN Tiers : r.asked[tier] = Rationed(Nominal(point, tier), TimesRationed)
  BY <1>4, <1>7
<1> HIDE DEF pools
<1>21. PointFits(r, pools)
  BY <1>4, <1>5, <1>9, <1>15, <1>17, <1>18, <1>19, <1>20 DEF PointFits
<1> QED
  BY <1>1, <1>3, <1>4, <1>21 DEF r

-----------------------------------------------------------------------------
(***************************************************************************)
(* Each step keeps the invariant.                                          *)
(***************************************************************************)
\* A step that records a point, and what it leaves of the grid: it is up, down already, or
\* goes down for a day.
AddsPoint(r) ==
    /\ Simulating /\ input' = input /\ pass' = pass /\ point' = point + 1
    /\ record' = Append(record, r) /\ PointFits(r, pool') /\ tank' \in [Tanks -> Nat]

StaysAsIs(r) ==
    /\ grid' = [grid EXCEPT !.peak = PeakNow]
    /\ r.state = "down" <=> point < grid.downUntil
    /\ r.state = "blackout" => pass = "warming"

BreaksDown(r) ==
    /\ grid' = [downUntil |-> BackUpAt, blackouts |-> Append(grid.blackouts, point),
                peak |-> PeakNow]
    /\ r.state = "blackout" /\ pass = "counted" /\ point >= grid.downUntil

\* The steps that record a point.
LEMMA StepsThatAdd ==
    ASSUME TradingInv, StayDown \/ GoDown \/ Trade
    PROVE  \E r : AddsPoint(r) /\ (StaysAsIs(r) \/ BreaksDown(r))
<1>0. pass \in {"warming", "counted", "over"} /\ point \in Nat /\ grid.downUntil \in Nat
  <2>1. grid.downUntil \in Nat
    BY DEF TradingInv, SimulationFits, GridType
  <2> QED
    BY <2>1 DEF TradingInv, SimulationFits
<1>1. CASE StayDown
  <2> DEFINE r == PointDown(pool)
  <2>1. /\ record' = Append(record, r) /\ point' = point + 1
        /\ PointFits(r, pool') /\ r.state = "down" /\ tank' \in [Tanks -> Nat]
    BY <1>1, DownPoint
  <2>2. /\ Simulating /\ input' = input /\ pass' = pass /\ point < grid.downUntil
        /\ grid' = [grid EXCEPT !.peak = PeakNow]
    BY <1>1 DEF StayDown
  <2> HIDE DEF r
  <2>3. AddsPoint(r) /\ StaysAsIs(r)
    BY <2>1, <2>2 DEF AddsPoint, StaysAsIs
  <2> QED
    BY <2>3
<1>2. CASE GoDown
  <2>1. PICK r : /\ record' = Append(record, r) /\ point' = point + 1
                 /\ PointFits(r, pool') /\ r.state = "blackout" /\ tank' \in [Tanks -> Nat]
    BY <1>2, BlackoutPoint
  <2>2. /\ Simulating /\ input' = input /\ pass' = pass /\ point >= grid.downUntil
        /\ grid' = IF pass = "counted"
                     THEN [downUntil |-> BackUpAt,
                           blackouts |-> Append(grid.blackouts, point), peak |-> PeakNow]
                   ELSE [grid EXCEPT !.peak = PeakNow]
    BY <1>2 DEF GoDown
  <2>3. AddsPoint(r)
    BY <2>1, <2>2 DEF AddsPoint
  <2>4. CASE pass = "counted"
    <3>1. BreaksDown(r)
      BY <2>1, <2>2, <2>4 DEF BreaksDown
    <3> QED
      BY <2>3, <3>1
  <2>5. CASE pass # "counted"
    <3>1. pass = "warming"
      BY <1>0, <2>2, <2>5 DEF Simulating
    <3>2. StaysAsIs(r)
      BY <1>0, <2>1, <2>2, <2>5, <3>1 DEF StaysAsIs
    <3> QED
      BY <2>3, <3>2
  <2> QED
    BY <2>4, <2>5
<1>3. CASE Trade
  <2> DEFINE r == PointNow
  <2>1. /\ record' = Append(record, r) /\ point' = point + 1
        /\ PointFits(r, pool') /\ r.state = "trade" /\ tank' \in [Tanks -> Nat]
    BY <1>3, TradePoint
  <2>2. /\ Simulating /\ input' = input /\ pass' = pass /\ point >= grid.downUntil
        /\ grid' = [grid EXCEPT !.peak = PeakNow]
    BY <1>3, TradeIs
  <2> HIDE DEF r
  <2>3. AddsPoint(r) /\ StaysAsIs(r)
    BY <1>0, <2>1, <2>2 DEF AddsPoint, StaysAsIs
  <2> QED
    BY <2>3
<1> QED
  BY <1>1, <1>2, <1>3

\* The record with one point more.
LEMMA RecordGrows ==
    ASSUME TradingInv, NEW r, AddsPoint(r)
    PROVE  /\ point \in Nat /\ point' = point + 1 /\ point \in 0..(PointCount - 1)
           /\ point' \in 0..PointCount
           /\ r \in PointType
           /\ DOMAIN record = 1..point /\ DOMAIN record' = 1..point'
           /\ record' \in Seq(PointType) /\ Len(record') = point'
           /\ \A k \in 1..point : record'[k] = record[k]
           /\ record'[point + 1] = r
<1>1. /\ record \in Seq(PointType) /\ Len(record) = point /\ point \in 0..PointCount
      /\ point' = point + 1 /\ record' = Append(record, r) /\ r \in PointType
      /\ point < PointCount
  BY DEF TradingInv, SimulationFits, AddsPoint, PointFits, Simulating
<1>2. PointCount \in Int
  BY TradingAssumption DEF PointCount
<1>3. point \in Nat /\ point \in 0..(PointCount - 1) /\ point' \in 0..PointCount
  BY <1>1, <1>2
<1>4. /\ record' \in Seq(PointType) /\ Len(record') = Len(record) + 1
      /\ \A k \in 1..Len(record) : record'[k] = record[k]
      /\ record'[Len(record) + 1] = r
  BY <1>1
<1>5. DOMAIN record = 1..Len(record) /\ DOMAIN record' = 1..Len(record')
  BY <1>1, <1>4
<1> QED
  BY <1>1, <1>3, <1>4, <1>5

\* The blackouts and the peak, after a step that records a point.
LEMMA GridGrows ==
    ASSUME TradingInv, NEW r, AddsPoint(r), StaysAsIs(r) \/ BreaksDown(r)
    PROVE  /\ grid' \in GridType /\ GridFits'
           /\ \A i \in DOMAIN grid.blackouts :
                 i \in DOMAIN grid.blackouts' /\ grid.blackouts'[i] = grid.blackouts[i]
           /\ \A i \in DOMAIN grid.blackouts' :
                 i \in DOMAIN grid.blackouts \/ (grid.blackouts'[i] = point /\ BreaksDown(r))
           /\ BreaksDown(r) => \E i \in DOMAIN grid.blackouts' : grid.blackouts'[i] = point
           /\ grid'.peak = PeakNow
<1>1. /\ grid \in GridType /\ grid.downUntil \in Nat /\ grid.blackouts \in Seq(Nat)
      /\ grid.peak \in Nat
      /\ grid = [downUntil |-> grid.downUntil, blackouts |-> grid.blackouts, peak |-> grid.peak]
  BY DEF TradingInv, SimulationFits, GridType
<1>2. point \in Nat /\ point' = point + 1 /\ point \in 0..(PointCount - 1) /\ pass' = pass
  <2>1. pass' = pass
    BY DEF AddsPoint
  <2> QED
    BY <2>1, RecordGrows
<1>3. PeakNow \in Nat
  <2>1. Nominal(point, MustServe) \in Nat
    BY <1>2, NominalIs, BiddersAre DEF TradingInv, SimulationFits
  <2> QED
    BY <1>1, <2>1 DEF PeakNow, AtLeast
<1>4. ClearingsPerDay \in Nat \ {0} /\ BackUpAt = point + ClearingsPerDay
  BY TradingAssumption DEF BackUpAt
<1> DEFINE b == grid.blackouts
           d == grid.downUntil
<1>5. /\ \A i \in DOMAIN b : b[i] \in Nat /\ b[i] < point /\ b[i] + ClearingsPerDay <= d
      /\ d > 0 => \E i \in DOMAIN b : d = b[i] + ClearingsPerDay
      /\ pass = "warming" => b = <<>>
  BY <1>1 DEF TradingInv, GridFits
<1>6. CASE StaysAsIs(r)
  <2>1. /\ grid' = [downUntil |-> d, blackouts |-> b, peak |-> PeakNow]
    BY <1>1, <1>6 DEF StaysAsIs
  <2>2. grid'.blackouts = b /\ grid'.downUntil = d /\ grid'.peak = PeakNow
    BY <2>1
  <2>3. grid' \in GridType
    BY <1>1, <1>3, <2>1 DEF GridType
  <2> HIDE DEF b, d
  <2>4. \A i \in DOMAIN b : b[i] < point + 1
    BY <1>2, <1>5
  <2>5. GridFits'
    BY <1>2, <1>5, <2>2, <2>4 DEF GridFits
  <2>6. BreaksDown(r) => r.state = "blackout" /\ pass = "counted"
    BY DEF BreaksDown
  <2>7. ~BreaksDown(r)
    BY <1>6, <2>6 DEF StaysAsIs
  <2> QED
    BY <2>2, <2>3, <2>5, <2>7 DEF b
<1>7. CASE BreaksDown(r)
  <2>1. /\ grid' = [downUntil |-> BackUpAt, blackouts |-> Append(b, point), peak |-> PeakNow]
        /\ pass = "counted" /\ point >= d
    BY <1>7 DEF BreaksDown
  <2>2. /\ grid'.blackouts = Append(b, point) /\ grid'.downUntil = point + ClearingsPerDay
        /\ grid'.peak = PeakNow
    BY <1>4, <2>1
  <2>3. b \in Seq(Nat) /\ d \in Nat
    BY <1>1
  <2> HIDE DEF b, d
  <2>4. Append(b, point) \in Seq(Nat) /\ BackUpAt \in Nat
    BY <1>2, <1>4, <2>3
  <2>5. grid' \in GridType
    BY <1>3, <2>1, <2>4 DEF GridType
  <2> DEFINE n == Len(b)
             a == Append(b, point)
  <2>6. /\ n \in Nat /\ DOMAIN b = 1..n /\ DOMAIN a = 1..(n + 1)
        /\ a[n + 1] = point /\ \A i \in 1..n : a[i] = b[i]
    BY <1>2, <2>3
  <2>7. grid'.blackouts = a
    BY <2>2
  <2> HIDE DEF a, n
  <2>8. \A i \in DOMAIN a : i \in DOMAIN b \/ i = n + 1
    BY <2>6
  <2>9. \A i \in DOMAIN b : i \in DOMAIN a /\ a[i] = b[i]
    BY <2>6
  <2>10. n + 1 \in DOMAIN a /\ a[n + 1] = point
    BY <2>6
  <2>11. ASSUME NEW i \in DOMAIN a
         PROVE  a[i] < point + 1 /\ a[i] + ClearingsPerDay <= point + ClearingsPerDay
    <3>1. CASE i \in DOMAIN b
      <4>1. a[i] = b[i] /\ b[i] \in Nat /\ b[i] < point
        BY <1>5, <2>9, <3>1
      <4> QED
        BY <1>2, <1>4, <4>1
    <3>2. CASE i = n + 1
      BY <1>2, <1>4, <2>10, <3>2
    <3> QED
      BY <2>8, <3>1, <3>2
  <2>12. GridFits'
    BY <1>2, <2>1, <2>2, <2>7, <2>10, <2>11 DEF GridFits
  <2> QED
    BY <1>7, <2>2, <2>5, <2>7, <2>8, <2>9, <2>10, <2>12 DEF b
<1> QED
  BY <1>6, <1>7

\* Must-serve demand goes first at the new point too.
LEMMA MustServeGrows ==
    ASSUME TradingInv, NEW r, AddsPoint(r)
    PROVE  MustServeComesFirst'
<1>1. /\ point \in Nat /\ point' = point + 1
      /\ DOMAIN record = 1..point /\ DOMAIN record' = 1..(point + 1)
      /\ \A k \in 1..point : record'[k] = record[k]
      /\ record'[point + 1] = r
  BY RecordGrows
<1>2. /\ r.state = "trade" => \/ r.served[MustServe] >= r.asked[MustServe] - MIN_SETTLED_QUANTITY
                              \/ r.asked[MustServe] <= 2 * MIN_SETTLED_QUANTITY
      /\ r.state # "trade" =>
            /\ \A f \in PoolIds : r.produced[f] = 0 /\ r.bought[f] = 0 /\ r.stored[f] = pool[f].stored
            /\ \A tier \in DOMAIN Tiers : r.served[tier] = 0
  BY DEF AddsPoint, PointFits
<1>3. point > 0 => \A f \in PoolIds : record[point].stored[f] = pool[f].stored
  <2>1. point > 0 => point \in DOMAIN record
    BY <1>1
  <2> QED
    BY <2>1 DEF TradingInv, StorageFits, PointsDone
<1>4. MustServeComesFirst
  BY DEF TradingInv, BlackoutsAreKept
<1> SUFFICES ASSUME NEW k \in 1..(point + 1)
             PROVE  IF record'[k].state = "trade"
                      THEN \/ record'[k].served[MustServe]
                                >= record'[k].asked[MustServe] - MIN_SETTLED_QUANTITY
                           \/ record'[k].asked[MustServe] <= 2 * MIN_SETTLED_QUANTITY
                    ELSE /\ \A f \in PoolIds :
                               /\ record'[k].produced[f] = 0 /\ record'[k].bought[f] = 0
                               /\ record'[k].stored[f] = IF k > 1 THEN record'[k - 1].stored[f]
                                                         ELSE record'[k].stored[f]
                         /\ \A tier \in DOMAIN Tiers : record'[k].served[tier] = 0
  BY <1>1, Zenon DEF MustServeComesFirst, PointsDone, Did
<1>5. CASE k \in 1..point
  <2>1. k > 1 => k - 1 \in 1..point
    BY <1>1, <1>5
  <2>2. record'[k] = record[k] /\ (k > 1 => record'[k - 1] = record[k - 1])
    BY <1>1, <1>5, <2>1
  <2>3. IF record[k].state = "trade"
          THEN \/ record[k].served[MustServe] >= record[k].asked[MustServe] - MIN_SETTLED_QUANTITY
               \/ record[k].asked[MustServe] <= 2 * MIN_SETTLED_QUANTITY
        ELSE /\ \A f \in PoolIds :
                   /\ record[k].produced[f] = 0 /\ record[k].bought[f] = 0
                   /\ record[k].stored[f] = IF k > 1 THEN record[k - 1].stored[f]
                                            ELSE record[k].stored[f]
             /\ \A tier \in DOMAIN Tiers : record[k].served[tier] = 0
    BY <1>1, <1>4, <1>5, Zenon DEF MustServeComesFirst, PointsDone, Did
  <2> QED
    BY <2>2, <2>3
<1>6. CASE k = point + 1
  <2>1. record'[k] = r
    BY <1>1, <1>6
  <2>2. k > 1 => record'[k - 1] = record[point] /\ point > 0
    <3>1. k > 1 => point \in 1..point /\ k - 1 = point
      BY <1>1, <1>6
    <3> QED
      BY <1>1, <3>1
  <2>3. CASE r.state = "trade"
    BY <1>2, <2>1, <2>3
  <2>4. CASE r.state # "trade"
    BY <1>2, <1>3, <2>1, <2>2, <2>4
  <2> QED
    BY <2>3, <2>4
<1> QED
  BY <1>1, <1>5, <1>6

\* Energy is conserved at the new point too.
LEMMA StorageGrows ==
    ASSUME TradingInv, NEW r, AddsPoint(r)
    PROVE  StorageHoldsWhatItBought' /\ StorageFits' /\ TradeFits'
<1>1. /\ point \in Nat /\ point' = point + 1
      /\ DOMAIN record = 1..point /\ DOMAIN record' = 1..(point + 1)
      /\ \A k \in 1..point : record'[k] = record[k]
      /\ record'[point + 1] = r
  BY RecordGrows
<1>2. /\ pool' \in [PoolIds -> PoolType]
      /\ \A f \in PoolIds : r.stored[f] = pool'[f].stored
      /\ \A f \in PoolIds :
            Is(f, "storage") =>
               /\ r.stored[f] = pool[f].stored + Through(r.bought[f]) - DrawnFor(r.produced[f])
               /\ r.stored[f] <= Plants[f].capacity
      /\ r.state = "trade" => r.price \in Prices
  BY DEF AddsPoint, PointFits
<1>3. point > 0 => \A f \in PoolIds : record[point].stored[f] = pool[f].stored
  <2>1. point > 0 => point \in DOMAIN record
    BY <1>1
  <2> QED
    BY <2>1 DEF TradingInv, StorageFits, PointsDone
<1>4. StorageHoldsWhatItBought /\ TradeFits
  BY DEF TradingInv
<1>5. StorageHoldsWhatItBought'
  <2> SUFFICES ASSUME NEW k \in 1..(point + 1), NEW f \in PoolIds, Is(f, "storage"), k > 1
               PROVE  /\ record'[k].stored[f]
                           = record'[k - 1].stored[f] + Through(record'[k].bought[f])
                               - DrawnFor(record'[k].produced[f])
                      /\ record'[k].stored[f] \in 0..Plants[f].capacity
    BY <1>1, Zenon DEF StorageHoldsWhatItBought, PointsDone
  <2>1. CASE k \in 1..point
    <3>1. k - 1 \in 1..point
      BY <1>1, <2>1
    <3>2. record'[k] = record[k] /\ record'[k - 1] = record[k - 1]
      BY <1>1, <2>1, <3>1
    <3>3. /\ record[k].stored[f] = record[k - 1].stored[f] + Through(record[k].bought[f])
                                     - DrawnFor(record[k].produced[f])
          /\ record[k].stored[f] \in 0..Plants[f].capacity
      BY <1>1, <1>4, <2>1, Zenon DEF StorageHoldsWhatItBought, PointsDone
    <3> QED
      BY <3>2, <3>3
  <2>2. CASE k = point + 1
    <3>1. record'[k] = r
      BY <1>1, <2>2
    <3>2. point \in 1..point /\ k - 1 = point /\ point > 0
      BY <1>1, <2>2
    <3>3. record'[k - 1] = record[point]
      BY <1>1, <3>2
    <3>4. r.stored[f] \in 0..Plants[f].capacity
      <4>1. r.stored[f] \in Nat
        BY <1>2 DEF PoolType
      <4>2. Plants[f].capacity \in Nat /\ r.stored[f] <= Plants[f].capacity
        BY <1>2, PlantAssumption
      <4> QED
        BY <4>1, <4>2
    <3> QED
      BY <1>2, <1>3, <3>1, <3>2, <3>3, <3>4
  <2> QED
    BY <1>1, <2>1, <2>2
<1>6. StorageFits'
  <2>1. \A f \in PoolIds : Is(f, "storage") => pool'[f].stored <= Plants[f].capacity
    BY <1>2
  <2>2. \A k \in DOMAIN record' : k = point' => \A f \in PoolIds : record'[k].stored[f] = pool'[f].stored
    BY <1>1, <1>2
  <2> QED
    BY <2>1, <2>2 DEF StorageFits, PointsDone
<1>7. TradeFits'
  <2> SUFFICES ASSUME NEW k \in 1..(point + 1), record'[k].state = "trade"
               PROVE  record'[k].price \in Prices
    BY <1>1, Zenon DEF TradeFits, PointsDone, Did
  <2>1. CASE k \in 1..point
    <3>1. record[k].state = "trade" => record[k].price \in Prices
      BY <1>1, <1>4, <2>1 DEF TradeFits, PointsDone, Did
    <3> QED
      BY <1>1, <2>1, <3>1
  <2>2. CASE k = point + 1
    BY <1>1, <1>2, <2>2
  <2> QED
    BY <1>1, <2>1, <2>2
<1> QED
  BY <1>5, <1>6, <1>7

\* When the grid is down.
Blackouts == { grid.blackouts[i] : i \in DOMAIN grid.blackouts }

\* The blackouts listed are those recorded, and each keeps the grid down for a day, at the new
\* point too.
LEMMA DownForADayGrows ==
    ASSUME TradingInv, NEW r, AddsPoint(r), StaysAsIs(r) \/ BreaksDown(r)
    PROVE  DownForADay'
<1>1. /\ point \in Nat /\ point' = point + 1
      /\ DOMAIN record = 1..point /\ DOMAIN record' = 1..(point + 1)
      /\ \A k \in 1..point : record'[k] = record[k]
      /\ record'[point + 1] = r
  BY RecordGrows
<1> DEFINE out == Blackouts
           new == Blackouts'
           day == ClearingsPerDay
<1>2. /\ pass' = pass /\ pass \in {"warming", "counted", "over"}
      /\ pass = "warming" => out = {}
      /\ BreaksDown(r) => r.state = "blackout" /\ pass # "warming" /\ point >= grid.downUntil
      /\ ~BreaksDown(r) => /\ r.state = "down" <=> point < grid.downUntil
                           /\ r.state = "blackout" => pass = "warming"
  <2>1. pass' = pass /\ pass \in {"warming", "counted", "over"}
    BY DEF AddsPoint, TradingInv, SimulationFits
  <2>2. pass = "warming" => out = {}
    BY DEF TradingInv, GridFits, Blackouts
  <2>3. BreaksDown(r) => r.state = "blackout" /\ pass # "warming" /\ point >= grid.downUntil
    BY DEF BreaksDown
  <2>4. ~BreaksDown(r) => StaysAsIs(r)
    OBVIOUS
  <2> QED
    BY <2>1, <2>2, <2>3, <2>4 DEF StaysAsIs
<1>3. /\ \A b \in out : b \in Nat /\ b < point /\ b + day <= grid.downUntil
      /\ grid.downUntil > 0 => \E b \in out : grid.downUntil = b + day
      /\ grid.downUntil \in Nat
  <2>1. /\ grid.blackouts \in Seq(Nat) /\ grid.downUntil \in Nat
        /\ \A i \in DOMAIN grid.blackouts :
              grid.blackouts[i] < point /\ grid.blackouts[i] + day <= grid.downUntil
        /\ grid.downUntil > 0 => \E i \in DOMAIN grid.blackouts : grid.downUntil = grid.blackouts[i] + day
    BY DEF TradingInv, SimulationFits, GridFits, GridType
  <2>2. \A i \in DOMAIN grid.blackouts : grid.blackouts[i] \in Nat
    BY <2>1
  <2> QED
    BY <2>1, <2>2 DEF Blackouts
<1>4. day \in Nat \ {0}
  BY TradingAssumption
<1>5. IF BreaksDown(r) THEN new = out \cup {point} ELSE new = out
  <2>1. /\ \A i \in DOMAIN grid.blackouts :
              i \in DOMAIN grid.blackouts' /\ grid.blackouts'[i] = grid.blackouts[i]
        /\ \A i \in DOMAIN grid.blackouts' :
              i \in DOMAIN grid.blackouts \/ (grid.blackouts'[i] = point /\ BreaksDown(r))
        /\ BreaksDown(r) => \E i \in DOMAIN grid.blackouts' : grid.blackouts'[i] = point
    BY GridGrows
  <2>2. new = { grid.blackouts'[i] : i \in DOMAIN grid.blackouts' }
    BY DEF Blackouts
  <2>3. \A b \in out : b \in new
    BY <2>1, <2>2 DEF Blackouts
  <2>4. \A b \in new : b \in out \/ (b = point /\ BreaksDown(r))
    BY <2>1, <2>2 DEF Blackouts
  <2>5. BreaksDown(r) => point \in new
    BY <2>1, <2>2
  <2> HIDE DEF out, new
  <2> QED
    BY <2>3, <2>4, <2>5
<1>6. /\ pass = "warming" => out = {} /\ \A k \in 1..point : record[k].state # "down"
      /\ pass # "warming" => out = { k - 1 : k \in { q \in 1..point : record[q].state = "blackout" } }
      /\ \A k \in 1..point :
            record[k].state = "down" <=> \E b \in out : k - 1 \in b + 1..b + day - 1
  BY <1>1, Zenon DEF TradingInv, BlackoutsAreKept, DownForADay, PointsDone, Did, Blackouts
<1>7. ASSUME /\ pass = "warming" => new = {} /\ \A k \in 1..(point + 1) : record'[k].state # "down"
             /\ pass # "warming" => new = { k - 1 : k \in { q \in 1..(point + 1) :
                                                              record'[q].state = "blackout" } }
             /\ \A k \in 1..(point + 1) :
                   record'[k].state = "down" <=> \E b \in new : k - 1 \in b + 1..b + day - 1
      PROVE  DownForADay'
  BY <1>1, <1>2, <1>7, Zenon DEF DownForADay, PointsDone, Did, Blackouts
<1> HIDE DEF out, new, day
<1>8. \A k \in 1..(point + 1) : k \in 1..point \/ k = point + 1
  BY <1>1
<1>9. ASSUME NEW k \in 1..point, NEW b \in new, k - 1 \in b + 1..b + day - 1
      PROVE  b \in out
  BY <1>1, <1>4, <1>5, <1>9
<1>10. ASSUME NEW k \in 1..(point + 1)
       PROVE  record'[k].state = "down" <=> \E b \in new : k - 1 \in b + 1..b + day - 1
  <2>1. CASE k \in 1..point
    <3>1. record'[k].state = "down" <=> \E b \in out : k - 1 \in b + 1..b + day - 1
      BY <1>1, <1>6, <2>1
    <3>2. \A b \in out : b \in new
      BY <1>5
    <3> QED
      BY <1>9, <2>1, <3>1, <3>2
  <2>2. CASE k = point + 1
    <3>1. record'[k] = r /\ k - 1 = point
      BY <1>1, <2>2
    <3>2. CASE BreaksDown(r)
      <4>1. ASSUME NEW b \in new, point \in b + 1..b + day - 1 PROVE FALSE
        <5>1. CASE b = point
          BY <1>1, <1>4, <4>1, <5>1
        <5>2. CASE b \in out
          <6>1. b \in Nat /\ b + day <= point
            BY <1>1, <1>2, <1>3, <1>4, <3>2, <5>2
          <6> QED
            BY <1>1, <1>4, <4>1, <6>1
        <5> QED
          BY <1>5, <3>2, <5>1, <5>2
      <4>2. r.state # "down"
        BY <1>2, <3>2
      <4> QED
        BY <3>1, <4>1, <4>2
    <3>3. CASE ~BreaksDown(r)
      <4>1. new = out /\ (r.state = "down" <=> point < grid.downUntil)
        BY <1>2, <1>5, <3>3
      <4>2. ASSUME point < grid.downUntil
            PROVE  \E b \in out : point \in b + 1..b + day - 1
        <5>1. grid.downUntil > 0
          BY <1>1, <1>3, <4>2
        <5>2. PICK b \in out : grid.downUntil = b + day
          BY <1>3, <5>1
        <5>3. b \in Nat /\ b < point
          BY <1>3
        <5>4. point \in b + 1..b + day - 1
          BY <1>1, <1>4, <4>2, <5>2, <5>3
        <5> QED
          BY <5>4
      <4>3. ASSUME NEW b \in out, point \in b + 1..b + day - 1
            PROVE  point < grid.downUntil
        <5>1. b \in Nat /\ b + day <= grid.downUntil
          BY <1>3
        <5> QED
          BY <1>1, <1>3, <1>4, <4>3, <5>1
      <4> QED
        BY <3>1, <4>1, <4>2, <4>3
    <3> QED
      BY <3>2, <3>3
  <2> QED
    BY <1>8, <2>1, <2>2
<1>11. ASSUME pass = "warming"
       PROVE  new = {} /\ \A k \in 1..(point + 1) : record'[k].state # "down"
  <2>1. new = {}
    BY <1>2, <1>5, <1>11
  <2> QED
    BY <1>10, <2>1
<1>12. ASSUME pass # "warming"
       PROVE  new = { k - 1 : k \in { q \in 1..(point + 1) : record'[q].state = "blackout" } }
  <2> DEFINE was == { k - 1 : k \in { q \in 1..point : record[q].state = "blackout" } }
             is == { k - 1 : k \in { q \in 1..(point + 1) : record'[q].state = "blackout" } }
  <2>1. out = was
    BY <1>6, <1>12
  <2>2. r.state = "blackout" <=> BreaksDown(r)
    BY <1>2, <1>12
  <2>3. point + 1 \in 1..(point + 1) /\ (point + 1) - 1 = point
    BY <1>1
  <2>4. \A b \in was : b \in is
    <3>1. \A q \in 1..point : q \in 1..(point + 1) /\ record'[q] = record[q]
      BY <1>1
    <3> QED
      BY <3>1
  <2>5. \A b \in is : b \in was \/ (b = point /\ r.state = "blackout")
    BY <1>1, <1>8, <2>3
  <2>6. r.state = "blackout" => point \in is
    BY <1>1, <2>3
  <2> HIDE DEF was, is
  <2>7. new = is
    BY <1>5, <2>1, <2>2, <2>4, <2>5, <2>6
  <2> QED
    BY <2>7 DEF is
<1> QED
  BY <1>7, <1>10, <1>11, <1>12

\* Demand is rationed once for each blackout before it, at the new point too.
LEMMA DemandGrows ==
    ASSUME TradingInv, NEW r, AddsPoint(r), StaysAsIs(r) \/ BreaksDown(r)
    PROVE  DemandIsRationed'
<1>1. /\ point \in Nat /\ point' = point + 1 /\ point \in 0..(PointCount - 1)
      /\ DOMAIN record = 1..point /\ DOMAIN record' = 1..(point + 1)
      /\ \A k \in 1..point : record'[k] = record[k]
      /\ record'[point + 1] = r
  BY RecordGrows
<1>2. /\ input' = input /\ input \in Inputs
      /\ r.state # "down" => \A tier \in DOMAIN Tiers :
                                r.asked[tier] = Rationed(Nominal(point, tier), TimesRationed)
  BY DEF AddsPoint, PointFits, TradingInv, SimulationFits
<1> DEFINE old == grid.blackouts
           new == grid.blackouts'
           n == Len(old)
           Earlier(outs, k) == { i \in DOMAIN outs : outs[i] < k - 1 }
<1>3. /\ n \in Nat /\ DOMAIN old = 1..n
      /\ \A i \in DOMAIN old : old[i] \in Nat /\ old[i] < point
      /\ grid.peak \in Nat
  <2>1. old \in Seq(Nat) /\ grid.peak \in Nat
    BY DEF TradingInv, SimulationFits, GridType
  <2>2. n \in Nat /\ DOMAIN old = 1..n /\ \A i \in DOMAIN old : old[i] \in Nat
    BY <2>1
  <2>3. \A i \in DOMAIN old : old[i] < point
    BY DEF TradingInv, GridFits
  <2> QED
    BY <2>1, <2>2, <2>3
<1>4. /\ \A i \in DOMAIN old : i \in DOMAIN new /\ new[i] = old[i]
      /\ \A i \in DOMAIN new : i \in DOMAIN old \/ new[i] = point
      /\ grid'.peak = PeakNow
  BY GridGrows
<1>5. /\ \A k \in 1..point :
            record[k].state # "down" =>
              \A tier \in DOMAIN Tiers :
                 record[k].asked[tier]
                   = Rationed(Nominal(k - 1, tier), input.earlier + Cardinality(Earlier(old, k)))
      /\ \A k \in 1..point : grid.peak >= Nominal(k - 1, MustServe)
  BY <1>1, Zenon DEF TradingInv, BlackoutsAreKept, DemandIsRationed, PointsDone, Did
<1>6. \A p, tier : Nominal(p, tier)' = Nominal(p, tier)
  BY <1>2 DEF Nominal
<1>7. ASSUME /\ \A k \in 1..(point + 1) :
                   record'[k].state # "down" =>
                     \A tier \in DOMAIN Tiers :
                        record'[k].asked[tier]
                          = Rationed(Nominal(k - 1, tier), input.earlier + Cardinality(Earlier(new, k)))
             /\ \A k \in 1..(point + 1) : grid'.peak >= Nominal(k - 1, MustServe)
      PROVE  DemandIsRationed'
  BY <1>1, <1>2, <1>6, <1>7, Zenon DEF DemandIsRationed, PointsDone, Did
<1>8. TimesRationed = input.earlier + n
  BY DEF TimesRationed
<1> HIDE DEF old, new, n
<1>9. ASSUME NEW k \in 1..(point + 1)
      PROVE  Earlier(new, k) = Earlier(old, k)
  <2>1. k - 1 <= point /\ ~(point < k - 1)
    BY <1>1
  <2>2. \A i : i \in Earlier(new, k) <=> i \in Earlier(old, k)
    BY <1>4, <2>1
  <2> QED
    BY <2>2
<1>10. Cardinality(Earlier(old, point + 1)) = n
  <2>1. (point + 1) - 1 = point
    BY <1>1
  <2>2. \A i : i \in Earlier(old, point + 1) <=> i \in 1..n
    BY <1>3, <2>1
  <2>3. Earlier(old, point + 1) = 1..n
    BY <2>2
  <2>4. Cardinality(1..n) = n
    BY <1>3, FS_Interval
  <2> QED
    BY <2>3, <2>4
<1> HIDE DEF Earlier
<1>11. ASSUME NEW k \in 1..(point + 1), record'[k].state # "down", NEW tier \in DOMAIN Tiers
       PROVE  record'[k].asked[tier]
                = Rationed(Nominal(k - 1, tier), input.earlier + Cardinality(Earlier(new, k)))
  <2>1. CASE k \in 1..point
    <3>1. record'[k] = record[k]
      BY <1>1, <2>1
    <3>2. record[k].asked[tier]
            = Rationed(Nominal(k - 1, tier), input.earlier + Cardinality(Earlier(old, k)))
      BY <1>5, <1>11, <2>1, <3>1
    <3> QED
      BY <1>9, <3>1, <3>2
  <2>2. CASE k = point + 1
    <3>1. record'[k] = r /\ k - 1 = point
      BY <1>1, <2>2
    <3>2. Cardinality(Earlier(new, k)) = n
      BY <1>9, <1>10, <2>2
    <3> QED
      BY <1>2, <1>8, <1>11, <3>1, <3>2
  <2>3. k \in 1..point \/ k = point + 1
    BY <1>1
  <2> QED
    BY <2>1, <2>2, <2>3
<1>12. ASSUME NEW k \in 1..(point + 1)
       PROVE  grid'.peak >= Nominal(k - 1, MustServe)
  <2>1. k - 1 \in 0..(PointCount - 1) /\ PointCount \in Int
    <3>1. PointCount \in Int
      BY TradingAssumption DEF PointCount
    <3> QED
      BY <1>1, <3>1
  <2> DEFINE nominal == Nominal(k - 1, MustServe)
             now == Nominal(point, MustServe)
  <2>2. nominal \in Nat /\ now \in Nat
    BY <1>1, <1>2, <2>1, NominalIs, BiddersAre
  <2>3. k \in 1..point => grid.peak >= nominal
    BY <1>5
  <2>4. k = point + 1 => nominal = now
    <3>1. k = point + 1 => k - 1 = point
      BY <1>1
    <3> QED
      BY <3>1
  <2>5. k \in 1..point \/ k = point + 1
    BY <1>1
  <2>6. PeakNow = AtLeast(grid.peak, now)
    BY DEF PeakNow
  <2> HIDE DEF nominal, now
  <2>7. PeakNow >= grid.peak /\ PeakNow >= now /\ PeakNow \in Nat
    BY <1>3, <2>2, <2>6 DEF AtLeast
  <2>8. PeakNow >= nominal
    BY <1>3, <2>2, <2>3, <2>4, <2>5, <2>7
  <2> QED
    BY <1>4, <2>8 DEF nominal
<1> QED
  BY <1>7, <1>11, <1>12

\* A step that records a point keeps the invariant.
LEMMA PointKeepsInv ==
    ASSUME TradingInv, NEW r, AddsPoint(r), StaysAsIs(r) \/ BreaksDown(r)
    PROVE  TradingInv'
<1>1. /\ input' = input /\ pass' = pass /\ tank' \in [Tanks -> Nat]
      /\ pool' \in [PoolIds -> PoolType]
  BY DEF AddsPoint, PointFits
<1>2. input \in Inputs /\ pass \in {"warming", "counted", "over"}
  BY DEF TradingInv, SimulationFits
<1>3. point' \in 0..PointCount /\ record' \in Seq(PointType) /\ Len(record') = point'
  BY RecordGrows
<1>4. grid' \in GridType /\ GridFits'
  BY GridGrows
<1>5. SimulationFits'
  BY <1>1, <1>2, <1>3, <1>4 DEF SimulationFits
<1>6. MustServeComesFirst' /\ DownForADay' /\ DemandIsRationed'
  BY MustServeGrows, DownForADayGrows, DemandGrows
<1>7. BlackoutsAreKept'
  BY <1>3, <1>6 DEF BlackoutsAreKept
<1>8. StorageHoldsWhatItBought' /\ StorageFits' /\ TradeFits'
  BY StorageGrows
<1> QED
  BY <1>4, <1>5, <1>7, <1>8 DEF TradingInv

\* A pass that starts: nothing is recorded yet.
StartsAfresh ==
    /\ input \in Inputs /\ pass \in {"warming", "counted"} /\ point = 0
    /\ pool \in [PoolIds -> PoolType]
    /\ \A f \in PoolIds : Is(f, "storage") => pool[f].stored <= Plants[f].capacity
    /\ tank \in [Tanks -> Nat] /\ grid = NewGrid /\ record = <<>>

\* The invariant holds of a pass that starts.
LEMMA StartFits == StartsAfresh => TradingInv
<1> SUFFICES ASSUME StartsAfresh PROVE TradingInv
  OBVIOUS
<1>1. /\ point = 0 /\ record = <<>> /\ DOMAIN record = {} /\ Len(record) = 0
      /\ grid.blackouts = <<>> /\ DOMAIN grid.blackouts = {} /\ grid.downUntil = 0
      /\ grid = [downUntil |-> 0, blackouts |-> <<>>, peak |-> 0]
  BY DEF StartsAfresh, NewGrid
<1>2. PointCount \in Nat
  BY TradingAssumption DEF PointCount
<1>3. record \in Seq(PointType) /\ grid \in GridType
  BY <1>1 DEF GridType
<1>4. SimulationFits
  BY <1>1, <1>2, <1>3 DEF StartsAfresh, SimulationFits
<1>5. GridFits
  BY <1>1 DEF GridFits
<1>6. StorageFits /\ TradeFits /\ StorageHoldsWhatItBought
  BY <1>1 DEF StartsAfresh, StorageFits, TradeFits, StorageHoldsWhatItBought, PointsDone
<1>7. MustServeComesFirst /\ DemandIsRationed
  BY <1>1 DEF MustServeComesFirst, DemandIsRationed, PointsDone
<1>8. DownForADay
  <2>1. { grid.blackouts[i] : i \in DOMAIN grid.blackouts } = {}
    BY <1>1
  <2>2. { k - 1 : k \in { q \in PointsDone : Did(q) = "blackout" } } = {}
    BY <1>1 DEF PointsDone
  <2> QED
    BY <1>1, <2>1, <2>2 DEF DownForADay, PointsDone
<1>9. BlackoutsAreKept
  BY <1>1, <1>7, <1>8 DEF BlackoutsAreKept
<1> QED
  BY <1>4, <1>5, <1>6, <1>9 DEF TradingInv

\* A pool starts with nothing sold or bought.
LEMMA NewPoolIs ==
    ASSUME NEW stored \in Nat
    PROVE  /\ NewPool(stored) \in PoolType /\ NewPool(stored).stored = stored
           /\ NewPool(stored).burned = 0
           /\ NewPool(stored).revenue = 0 /\ NewPool(stored).purchaseCost = 0
BY DEF NewPool, PoolType

\* A simulation starts with such a pass.
LEMMA InitFits == Init => StartsAfresh
<1> SUFFICES ASSUME Init PROVE StartsAfresh
  OBVIOUS
<1> DEFINE held(f) == IF input.fullSeason THEN input.stored[f] ELSE 0
<1>1. /\ input \in Inputs /\ pass \in {"warming", "counted"} /\ point = 0
      /\ pool = [f \in PoolIds |-> NewPool(held(f))]
      /\ tank = FullTanks /\ grid = NewGrid /\ record = <<>>
  BY DEF Init
<1>2. \A f \in PoolIds :
         held(f) \in Nat /\ (Is(f, "storage") => held(f) <= Plants[f].capacity)
  <2>1. \A f \in PoolIds : Plants[f].capacity \in Nat
    BY PlantAssumption
  <2> QED
    BY <1>1, <2>1, InputIs
<1> HIDE DEF held
<1>3. \A f \in PoolIds : NewPool(held(f)) \in PoolType /\ NewPool(held(f)).stored = held(f)
  BY <1>2, NewPoolIs
<1>4. pool \in [PoolIds -> PoolType]
  BY <1>1, <1>3
<1>5. \A f \in PoolIds : Is(f, "storage") => pool[f].stored <= Plants[f].capacity
  BY <1>1, <1>2, <1>3
<1> QED
  BY <1>1, <1>4, <1>5, FullTanksAre DEF StartsAfresh

\* The end of a pass keeps the invariant.
LEMMA EndKeepsInv ==
    ASSUME TradingInv, EndPass
    PROVE  TradingInv'
<1>1. input' = input /\ input \in Inputs /\ pool \in [PoolIds -> PoolType]
  BY DEF EndPass, TradingInv, SimulationFits
<1>2. CASE pass = "warming"
  <2>1. /\ pass' = "counted" /\ point' = 0 /\ pool' = [f \in PoolIds |-> NewPool(pool[f].stored)]
        /\ tank' = FullTanks /\ grid' = NewGrid /\ record' = <<>>
    BY <1>2 DEF EndPass, PoolsAfresh
  <2>2. \A f \in PoolIds : pool[f].stored \in Nat
    BY <1>1 DEF PoolType
  <2>3. \A f \in PoolIds : /\ NewPool(pool[f].stored) \in PoolType
                           /\ NewPool(pool[f].stored).stored = pool[f].stored
    BY <2>2, NewPoolIs
  <2>4. pool' \in [PoolIds -> PoolType]
    BY <2>1, <2>3
  <2>5. \A f \in PoolIds : Is(f, "storage") => pool'[f].stored <= Plants[f].capacity
    BY <2>1, <2>3 DEF TradingInv, StorageFits
  <2>6. FullTanks \in [Tanks -> Nat]
    BY <1>1, FullTanksAre
  <2>7. NewGrid' = NewGrid
    BY DEF NewGrid
  <2>8. StartsAfresh'
    BY <1>1, <2>1, <2>4, <2>5, <2>6, <2>7 DEF StartsAfresh
  <2>9. (StartsAfresh => TradingInv)'
    BY StartFits, PTL
  <2> QED
    BY <2>8, <2>9
<1>3. CASE pass # "warming"
  <2>1. /\ pass' = "over" /\ pass' # "warming"
        /\ point' = point /\ pool' = pool /\ tank' = tank /\ grid' = grid /\ record' = record
    BY <1>3 DEF EndPass
  <2>2. SimulationFits'
    BY <1>1, <2>1 DEF TradingInv, SimulationFits
  <2>3. GridFits' /\ StorageFits' /\ TradeFits' /\ StorageHoldsWhatItBought'
    BY <2>1 DEF TradingInv, GridFits, StorageFits, TradeFits, StorageHoldsWhatItBought, PointsDone,
                Did
  <2>4. MustServeComesFirst'
    BY <2>1, Zenon DEF TradingInv, BlackoutsAreKept, MustServeComesFirst, PointsDone, Did
  <2>5. DownForADay'
    BY <1>3, <2>1, Zenon DEF TradingInv, BlackoutsAreKept, DownForADay, PointsDone, Did
  <2>6. DemandIsRationed'
    BY <1>1, <2>1, Zenon DEF TradingInv, BlackoutsAreKept, DemandIsRationed, PointsDone, Did, Nominal
  <2>7. BlackoutsAreKept'
    BY <2>1, <2>4, <2>5, <2>6 DEF TradingInv, BlackoutsAreKept
  <2> QED
    BY <2>2, <2>3, <2>7 DEF TradingInv
<1> QED
  BY <1>2, <1>3

\* The invariant holds all along a simulation.
LEMMA SimulationKeepsInv == Spec => []TradingInv
<1>1. Init => TradingInv
  BY InitFits, StartFits
<1>2. ASSUME TradingInv, [Next]_vars
      PROVE  TradingInv'
  <2>1. CASE StayDown \/ GoDown \/ Trade
    <3>1. PICK r : AddsPoint(r) /\ (StaysAsIs(r) \/ BreaksDown(r))
      BY <1>2, <2>1, StepsThatAdd
    <3> QED
      BY <1>2, <3>1, PointKeepsInv
  <2>2. CASE EndPass
    BY <1>2, <2>2, EndKeepsInv
  <2>3. CASE UNCHANGED vars
    <3>1. /\ input' = input /\ pass' = pass /\ point' = point /\ pool' = pool /\ tank' = tank
          /\ grid' = grid /\ record' = record
      BY <2>3 DEF vars
    <3>2. SimulationFits'
      BY <1>2, <3>1 DEF TradingInv, SimulationFits
    <3>3. GridFits' /\ StorageFits' /\ TradeFits' /\ StorageHoldsWhatItBought'
      BY <1>2, <3>1 DEF TradingInv, GridFits, StorageFits, TradeFits, StorageHoldsWhatItBought,
                        PointsDone, Did
    <3>4. MustServeComesFirst' /\ DownForADay' /\ DemandIsRationed'
      <4>1. MustServeComesFirst /\ DownForADay /\ DemandIsRationed
        BY <1>2 DEF TradingInv, BlackoutsAreKept
      <4>2. MustServeComesFirst'
        BY <3>1, <4>1, ZenonT(60) DEF MustServeComesFirst, PointsDone, Did
      <4>3. DownForADay'
        BY <3>1, <4>1, ZenonT(60) DEF DownForADay, PointsDone, Did
      <4>4. DemandIsRationed'
        BY <3>1, <4>1, ZenonT(60) DEF DemandIsRationed, PointsDone, Did, Nominal
      <4> QED
        BY <4>2, <4>3, <4>4
    <3>5. BlackoutsAreKept'
      BY <1>2, <3>1, <3>4 DEF TradingInv, BlackoutsAreKept
    <3> QED
      BY <3>2, <3>3, <3>5 DEF TradingInv
  <2> QED
    BY <1>2, <2>1, <2>2, <2>3 DEF Next
<1> QED
  BY <1>1, <1>2, PTL DEF Spec

-----------------------------------------------------------------------------
(***************************************************************************)
(* The promises of a simulation.                                           *)
(***************************************************************************)
\* However the players bid, and whatever the weather: must-serve demand is served or nobody
\* trades, a blackout keeps the grid down for a day, and demand is rationed once for each.
THEOREM BlackoutsAlwaysKept == Spec => []BlackoutsAreKept
<1>1. TradingInv => BlackoutsAreKept
  BY DEF TradingInv
<1> QED
  BY <1>1, SimulationKeepsInv, PTL

\* What a storage holds is always accounted for, and no more than it can hold.
THEOREM StorageAlwaysHoldsWhatItBought == Spec => []StorageHoldsWhatItBought
<1>1. TradingInv => StorageHoldsWhatItBought
  BY DEF TradingInv
<1> QED
  BY <1>1, SimulationKeepsInv, PTL

-----------------------------------------------------------------------------
(***************************************************************************)
(* The players' earnings and the consumers' payments.                      *)
(***************************************************************************)
\* Each owner has the amount of their entry, or none.
GivesEach(entries, owners, g, h) ==
    /\ \A k \in DOMAIN entries : entries[k].owner \in owners
    /\ \A k, l \in DOMAIN entries : entries[k].owner = entries[l].owner => k = l
    /\ \A o \in owners : \/ \E k \in DOMAIN entries : entries[k].owner = o /\ h[o] = g[k]
                         \/ (\A k \in DOMAIN entries : entries[k].owner # o) /\ h[o] = 0

\* What the owners have in all is what their entries do.
LEMMA ListedSum ==
    ASSUME NEW entries, IsFiniteSet(DOMAIN entries), NEW owners, IsFiniteSet(owners),
           NEW g, \A k \in DOMAIN entries : g[k] \in Int, NEW h, GivesEach(entries, owners, g, h)
    PROVE  /\ \A o \in owners : h[o] \in Int
           /\ SumFunctionOnSet(h, owners) = SumFunctionOnSet(g, DOMAIN entries)
<1> DEFINE S == DOMAIN entries
           p == [k \in S |-> entries[k].owner]
           T == { p[k] : k \in S }
<1>1. /\ \A k \in S : entries[k].owner \in owners
      /\ \A k, l \in S : entries[k].owner = entries[l].owner => k = l
      /\ \A o \in owners : \/ \E k \in S : entries[k].owner = o /\ h[o] = g[k]
                           \/ (\A k \in S : entries[k].owner # o) /\ h[o] = 0
  BY DEF GivesEach
<1>2. \A k \in S : p[k] = entries[k].owner /\ p[k] \in T /\ p[k] \in owners
  BY <1>1
<1>3. T \in SUBSET owners /\ p \in [S -> T]
  BY <1>2
<1>4. \A k, l \in S : p[k] = p[l] => k = l
  BY <1>1, <1>2
<1>5. \A t \in T : \E k \in S : p[k] = t
  OBVIOUS
<1> HIDE DEF S, T, p
<1>6. \A o \in owners : h[o] \in Int
  BY <1>1 DEF S
<1>7. \A o \in owners \ T : h[o] = 0
  BY <1>1, <1>2
<1>8. \A k \in S : g[k] = h[p[k]]
  BY <1>1, <1>2
<1>9. IsFiniteSet(T) /\ IsFiniteSet(S)
  BY <1>3, FS_Subset DEF S
<1>10. SumFunctionOnSet(h, owners) = SumFunctionOnSet(h, T)
  BY <1>3, <1>6, <1>7, SumOfPart
<1>11. \A t \in T : h[t] \in Int
  BY <1>3, <1>6
<1>12. SumFunctionOnSet(g, S) = SumFunctionOnSet(h, T)
  BY <1>3, <1>4, <1>5, <1>8, <1>9, <1>11, SumRearranged
<1> QED
  BY <1>6, <1>10, <1>12 DEF S

\* A sum over two groups is the sum over one and over the other.
LEMMA SumOfTwo ==
    ASSUME NEW A, IsFiniteSet(A), NEW B, IsFiniteSet(B), A \cap B = {},
           NEW g, \A x \in A : g[x] \in Int, \A x \in B : g[x] \in Int
    PROVE  SumFunctionOnSet(g, A \cup B) = SumFunctionOnSet(g, A) + SumFunctionOnSet(g, B)
<1> DEFINE S == A \cup B
           a == [x \in S |-> IF x \in A THEN g[x] ELSE 0]
           b == [x \in S |-> IF x \in B THEN g[x] ELSE 0]
<1>1. IsFiniteSet(S)
  BY FS_Union
<1>2. \A x \in S : a[x] \in Int /\ b[x] \in Int /\ g[x] \in Int /\ g[x] = a[x] + b[x]
  OBVIOUS
<1>3. /\ A \in SUBSET S /\ \A x \in S \ A : a[x] = 0
      /\ B \in SUBSET S /\ \A x \in S \ B : b[x] = 0
  OBVIOUS
<1>4. /\ \A x \in A : g[x] \in Int /\ a[x] = g[x]
      /\ \A x \in B : g[x] \in Int /\ b[x] = g[x]
  OBVIOUS
<1> HIDE DEF S, a, b
<1>5. SumFunctionOnSet(g, S) = SumFunctionOnSet(a, S) + SumFunctionOnSet(b, S)
  BY <1>1, <1>2, SumOfSums
<1>6. SumFunctionOnSet(a, S) = SumFunctionOnSet(a, A)
  BY <1>1, <1>2, <1>3, SumOfPart
<1>7. SumFunctionOnSet(b, S) = SumFunctionOnSet(b, B)
  BY <1>1, <1>2, <1>3, SumOfPart
<1>8. SumFunctionOnSet(a, A) = SumFunctionOnSet(g, A)
  BY <1>4, SumSame
<1>9. SumFunctionOnSet(b, B) = SumFunctionOnSet(g, B)
  BY <1>4, SumSame
<1> QED
  BY <1>5, <1>6, <1>7, <1>8, <1>9 DEF S

\* The tiers are finitely many.
LEMMA TiersAreFinite == IsFiniteSet(DOMAIN Tiers) /\ IsFiniteSet({ -tier : tier \in DOMAIN Tiers })
<1> DEFINE n == Len(Tiers)
           T == DOMAIN Tiers
<1>1. n \in Nat /\ T = 1..n
  BY TierAssumption
<1> HIDE DEF n
<1>2. IsFiniteSet(T)
  BY <1>1, FS_Interval
<1>3. IsFiniteSet({ -tier : tier \in T })
  <2> DEFINE B == { -tier : tier \in T }
  <2>1. -n \in Int /\ -1 \in Int
    BY <1>1
  <2>2. IsFiniteSet((-n)..(-1))
    BY <2>1, FS_Interval
  <2>3. B \in SUBSET ((-n)..(-1))
    BY <1>1
  <2> HIDE DEF B
  <2>4. IsFiniteSet(B)
    BY <2>2, <2>3, FS_Subset
  <2> QED
    BY <2>4 DEF B
<1> QED
  BY <1>2, <1>3

\* Each owner's sale is the one of their offer in the clearing, and their purchase that of
\* their demand.
LEMMA OwnSettlements ==
    ASSUME NEW c, NEW owners, NEW amount, NEW price, NEW must
    PROVE  /\ Lists(c.offers, owners, amount, price, must) =>
                GivesEach(c.offers, owners, [k \in DOMAIN c.offers |-> Traded(c.offers[k], c.quantity)],
                          [o \in owners |-> EntryOf(SettleClearing(c).sales, o, NoSale).sold])
           /\ Lists(c.demands, owners, amount, price, must) =>
                GivesEach(c.demands, owners,
                          [k \in DOMAIN c.demands |-> Traded(c.demands[k], c.quantity)],
                          [o \in owners |-> EntryOf(SettleClearing(c).purchases, o, NoPurchase).bought])
<1> DEFINE s == SettleClearing(c)
           sold == [k \in DOMAIN c.offers |-> Traded(c.offers[k], c.quantity)]
           bought == [k \in DOMAIN c.demands |-> Traded(c.demands[k], c.quantity)]
           sale(o) == EntryOf(s.sales, o, NoSale)
           purchase(o) == EntryOf(s.purchases, o, NoPurchase)
<1>1. /\ DOMAIN s.sales = DOMAIN c.offers /\ DOMAIN s.purchases = DOMAIN c.demands
      /\ \A k \in DOMAIN c.offers :
            s.sales[k].owner = c.offers[k].owner /\ s.sales[k].sold = sold[k]
      /\ \A k \in DOMAIN c.demands :
            s.purchases[k].owner = c.demands[k].owner /\ s.purchases[k].bought = bought[k]
  BY SettlementIs
<1>2. \A o : \/ (\A k \in DOMAIN s.sales : s.sales[k].owner # o) /\ sale(o) = NoSale
             \/ \E k \in DOMAIN s.sales : s.sales[k].owner = o /\ sale(o) = s.sales[k]
  BY OwnEntryIs
<1>3. \A o : \/ (\A k \in DOMAIN s.purchases : s.purchases[k].owner # o) /\ purchase(o) = NoPurchase
             \/ \E k \in DOMAIN s.purchases : s.purchases[k].owner = o /\ purchase(o) = s.purchases[k]
  BY OwnEntryIs
<1>4. NoSale.sold = 0 /\ NoPurchase.bought = 0
  BY DEF NoSale, NoPurchase
<1> DEFINE soldBy == [o \in owners |-> sale(o).sold]
           boughtBy == [o \in owners |-> purchase(o).bought]
<1>5. \A o \in owners : soldBy[o] = sale(o).sold /\ boughtBy[o] = purchase(o).bought
  OBVIOUS
<1> SUFFICES /\ Lists(c.offers, owners, amount, price, must) => GivesEach(c.offers, owners, sold, soldBy)
             /\ Lists(c.demands, owners, amount, price, must)
                  => GivesEach(c.demands, owners, bought, boughtBy)
  OBVIOUS
<1> HIDE DEF s, sold, bought, sale, purchase, soldBy, boughtBy
<1>6. \A o \in owners : \/ \E k \in DOMAIN c.offers : c.offers[k].owner = o /\ soldBy[o] = sold[k]
                        \/ (\A k \in DOMAIN c.offers : c.offers[k].owner # o) /\ soldBy[o] = 0
  BY <1>1, <1>2, <1>4, <1>5
<1>7. \A o \in owners : \/ \E k \in DOMAIN c.demands : c.demands[k].owner = o /\ boughtBy[o] = bought[k]
                        \/ (\A k \in DOMAIN c.demands : c.demands[k].owner # o) /\ boughtBy[o] = 0
  BY <1>1, <1>3, <1>4, <1>5
<1>8. ASSUME Lists(c.offers, owners, amount, price, must)
      PROVE  GivesEach(c.offers, owners, sold, soldBy)
  <2>1. /\ \A k \in DOMAIN c.offers : c.offers[k].owner \in owners
        /\ \A k, l \in DOMAIN c.offers : c.offers[k].owner = c.offers[l].owner => k = l
    BY <1>8 DEF Lists
  <2> QED
    BY <1>6, <2>1, Zenon DEF GivesEach
<1>9. ASSUME Lists(c.demands, owners, amount, price, must)
      PROVE  GivesEach(c.demands, owners, bought, boughtBy)
  <2>1. /\ \A k \in DOMAIN c.demands : c.demands[k].owner \in owners
        /\ \A k, l \in DOMAIN c.demands : c.demands[k].owner = c.demands[l].owner => k = l
    BY <1>9 DEF Lists
  <2> QED
    BY <1>7, <2>1, Zenon DEF GivesEach
<1> QED
  BY <1>8, <1>9

\* What is traded of an entry is an amount.
LEMMA AmountsTraded ==
    ASSUME NEW out, Stacked(out), NEW q \in Nat
    PROVE  \A k \in DOMAIN out : Traded(out[k], q) \in Int
<1> SUFFICES ASSUME NEW k \in DOMAIN out PROVE Traded(out[k], q) \in Int
  OBVIOUS
<1>1. out[k].capacity \in Nat
  BY StackGrows
<1>2. Traded(out[k], q) \in 0..out[k].capacity
  BY TradedIs
<1> QED
  BY <1>1, <1>2

\* What players sell at a point, and what they and the consumers buy.
SoldNow   == SumFunctionOnSet([f \in PoolIds |-> SaleNow(f).sold], PoolIds)
KeptNow   == SumFunctionOnSet([f \in PoolIds |-> PurchaseNow(f).bought], PoolIds)
ServedNow == SumFunctionOnSet([tier \in DOMAIN Tiers |-> PurchaseNow(-tier).bought], DOMAIN Tiers)

\* All that is sold at a point is bought, but for a trade that is too small to settle.
LEMMA PointBalances ==
    ASSUME ReadyToClear, FuelLimits \in [PoolIds -> Nat]
    PROVE  /\ SoldNow \in Int /\ KeptNow \in Int /\ ServedNow \in Int
           /\ SoldNow - KeptNow - ServedNow \in -MIN_SETTLED_QUANTITY..MIN_SETTLED_QUANTITY
<1> DEFINE c == ClearingNow
           d == SettledNow
           book == BookWith(FuelLimits)
           sold == [k \in DOMAIN c.offers |-> Traded(c.offers[k], c.quantity)]
           bought == [k \in DOMAIN c.demands |-> Traded(c.demands[k], c.quantity)]
           soldBy == [f \in PoolIds |-> SaleNow(f).sold]
           boughtBy == [o \in Bidders |-> PurchaseNow(o).bought]
           keptBy == [f \in PoolIds |-> PurchaseNow(f).bought]
           servedTo == [tier \in DOMAIN Tiers |-> PurchaseNow(-tier).bought]
           Minus == { -tier : tier \in DOMAIN Tiers }
<1>1. c = ClearMarket(book) /\ IsBook(book)
  BY PointsBookIs DEF ClearingNow
<1>2. /\ Stacked(c.offers) /\ Stacked(c.demands) /\ c.quantity \in Nat
      /\ Lists(c.offers, PoolIds, Offerable(FuelLimits), input.sell, MustRuns)
      /\ Lists(c.demands, Bidders, Wanted, Worth, NoneMustBuy)
  BY PointClears DEF ClearingNow
<1>3. d.quantity = c.quantity /\ d.offers = c.offers /\ d.demands = c.demands
  BY SettledPriceIs DEF ClearingNow, SettledNow
<1>4. /\ \A o : SaleNow(o) = EntryOf(SettleClearing(d).sales, o, NoSale)
      /\ \A o : PurchaseNow(o) = EntryOf(SettleClearing(d).purchases, o, NoPurchase)
  BY DEF SaleNow, PurchaseNow, SettlementNow
<1>5. /\ soldBy = [f \in PoolIds |-> EntryOf(SettleClearing(d).sales, f, NoSale).sold]
      /\ boughtBy = [o \in Bidders |-> EntryOf(SettleClearing(d).purchases, o, NoPurchase).bought]
  BY <1>4
<1>6. /\ sold = [k \in DOMAIN d.offers |-> Traded(d.offers[k], d.quantity)]
      /\ bought = [k \in DOMAIN d.demands |-> Traded(d.demands[k], d.quantity)]
  BY <1>3
<1>7. /\ DOMAIN sold = DOMAIN c.offers /\ DOMAIN bought = DOMAIN c.demands
      /\ \A k \in DOMAIN c.offers : sold[k] = Traded(c.offers[k], c.quantity)
      /\ \A k \in DOMAIN c.demands : bought[k] = Traded(c.demands[k], c.quantity)
  OBVIOUS
<1>8. SumFunction(sold) - SumFunction(bought) \in -MIN_SETTLED_QUANTITY..MIN_SETTLED_QUANTITY
      /\ SumFunction(sold) \in Int /\ SumFunction(bought) \in Int
  <2> HIDE DEF c, book
  <2>1. sold = [k \in DOMAIN c.offers |-> Traded(c.offers[k], c.quantity)]
        /\ bought = [k \in DOMAIN c.demands |-> Traded(c.demands[k], c.quantity)]
    OBVIOUS
  <2> DEFINE x == SumFunction(sold)
             y == SumFunction(bought)
  <2>2. /\ x = SumFunction([k \in DOMAIN c.offers |-> Traded(c.offers[k], c.quantity)])
        /\ y = SumFunction([k \in DOMAIN c.demands |-> Traded(c.demands[k], c.quantity)])
    OBVIOUS
  <2> HIDE DEF sold, bought, x, y
  <2>3. x \in Int /\ y \in Int /\ x - y \in -MIN_SETTLED_QUANTITY..MIN_SETTLED_QUANTITY
    BY <1>1, <2>2, BookBalances
  <2> QED
    BY <2>3 DEF x, y
<1>9. \A f \in PoolIds : keptBy[f] = boughtBy[f]
  BY BiddersAre
<1>10. \A tier \in DOMAIN Tiers : servedTo[tier] = boughtBy[-tier]
  BY BiddersAre
<1>11. /\ SoldNow = SumFunctionOnSet(soldBy, PoolIds) /\ KeptNow = SumFunctionOnSet(keptBy, PoolIds)
       /\ ServedNow = SumFunctionOnSet(servedTo, DOMAIN Tiers)
  BY Zenon DEF SoldNow, KeptNow, ServedNow
<1> HIDE DEF c, d, book, sold, bought, soldBy, boughtBy, keptBy, servedTo, Minus
<1>12. GivesEach(d.offers, PoolIds, sold, soldBy) /\ GivesEach(d.demands, Bidders, bought, boughtBy)
  <2>1. /\ Lists(d.offers, PoolIds, Offerable(FuelLimits), input.sell, MustRuns)
        /\ Lists(d.demands, Bidders, Wanted, Worth, NoneMustBuy)
    BY <1>2, <1>3
  <2> QED
    BY <1>5, <1>6, <2>1, OwnSettlements
<1>13. /\ \A k \in DOMAIN c.offers : sold[k] \in Int
       /\ \A k \in DOMAIN c.demands : bought[k] \in Int
  <2>1. \A k \in DOMAIN c.offers : Traded(c.offers[k], c.quantity) \in Int
    BY <1>2, AmountsTraded
  <2>2. \A k \in DOMAIN c.demands : Traded(c.demands[k], c.quantity) \in Int
    BY <1>2, AmountsTraded
  <2> QED
    BY <1>7, <2>1, <2>2
<1>14. IsFiniteSet(DOMAIN c.offers) /\ IsFiniteSet(DOMAIN c.demands)
  BY <1>2, StackIsFinite
<1>15. /\ IsFiniteSet(PoolIds) /\ IsFiniteSet(Minus) /\ IsFiniteSet(DOMAIN Tiers)
       /\ Bidders = PoolIds \cup Minus /\ PoolIds \cap Minus = {}
  <2>1. \A tier \in DOMAIN Tiers : -tier \notin PoolIds
    BY BiddersAre
  <2> QED
    BY <2>1, PoolsAreFinite, TiersAreFinite DEF Bidders, Minus
<1>16. IsFiniteSet(Bidders)
  BY <1>15, FS_Union
<1>17. SumFunctionOnSet(soldBy, PoolIds) = SumFunction(sold)
  <2>1. SumFunctionOnSet(soldBy, PoolIds) = SumFunctionOnSet(sold, DOMAIN d.offers)
    BY <1>3, <1>12, <1>13, <1>14, <1>15, ListedSum
  <2> QED
    BY <1>3, <1>7, <2>1 DEF SumFunction
<1>18. /\ \A o \in Bidders : boughtBy[o] \in Int
       /\ SumFunctionOnSet(boughtBy, Bidders) = SumFunction(bought)
  <2>1. /\ \A o \in Bidders : boughtBy[o] \in Int
        /\ SumFunctionOnSet(boughtBy, Bidders) = SumFunctionOnSet(bought, DOMAIN d.demands)
    BY <1>3, <1>12, <1>13, <1>14, <1>16, ListedSum
  <2> QED
    BY <1>3, <1>7, <2>1 DEF SumFunction
<1>19. SumFunctionOnSet(boughtBy, Bidders)
         = SumFunctionOnSet(boughtBy, PoolIds) + SumFunctionOnSet(boughtBy, Minus)
  <2>1. (\A x \in PoolIds : boughtBy[x] \in Int) /\ \A x \in Minus : boughtBy[x] \in Int
    BY <1>15, <1>18
  <2> QED
    BY <1>15, <2>1, SumOfTwo
<1>20. SumFunctionOnSet(keptBy, PoolIds) = SumFunctionOnSet(boughtBy, PoolIds)
  <2>1. \A x \in PoolIds : boughtBy[x] \in Int /\ keptBy[x] = boughtBy[x]
    BY <1>9, <1>15, <1>18
  <2> QED
    BY <1>15, <2>1, SumSame
<1>21. SumFunctionOnSet(servedTo, DOMAIN Tiers) = SumFunctionOnSet(boughtBy, Minus)
  <2> DEFINE S == DOMAIN Tiers
             p == [tier \in S |-> -tier]
  <2>0. \A tier \in S : tier \in Int /\ p[tier] = -tier /\ -tier \in Minus
    BY BiddersAre DEF Minus
  <2>1. p \in [S -> Minus]
    BY <2>0
  <2>2. \A x, y \in S : p[x] = p[y] => x = y
    <3>1. \A x, y \in Int : -x = -y => x = y
      OBVIOUS
    <3> QED
      BY <2>0, <3>1
  <2>3. \A t \in Minus : \E x \in S : p[x] = t
    BY <2>0 DEF Minus
  <2>4. \A t \in Minus : boughtBy[t] \in Int
    BY <1>15, <1>18
  <2>5. \A x \in S : servedTo[x] = boughtBy[p[x]]
    BY <1>10, <2>0
  <2>6. IsFiniteSet(S)
    BY <1>15
  <2> HIDE DEF S, p
  <2>7. SumFunctionOnSet(servedTo, S) = SumFunctionOnSet(boughtBy, Minus)
    BY <1>15, <2>1, <2>2, <2>3, <2>4, <2>5, <2>6, SumRearranged
  <2> QED
    BY <2>7 DEF S
<1>22. SumFunctionOnSet(boughtBy, PoolIds) \in Int /\ SumFunctionOnSet(boughtBy, Minus) \in Int
  <2>1. (\A x \in PoolIds : boughtBy[x] \in Int) /\ \A x \in Minus : boughtBy[x] \in Int
    BY <1>15, <1>18
  <2>2. SumFunctionOnSet(boughtBy, PoolIds) \in Int
    BY <1>15, <2>1, SumStep
  <2>3. SumFunctionOnSet(boughtBy, Minus) \in Int
    BY <1>15, <2>1, SumStep
  <2> QED
    BY <2>2, <2>3
<1> QED
  BY <1>8, <1>11, <1>17, <1>18, <1>19, <1>20, <1>21, <1>22 DEF MIN_SETTLED_QUANTITY

\* What the players have earned from each other and the consumers; what a point served the
\* consumers; and what they pay for it, within a trade that is too small to settle.
Earned(pools) == SumFunction([f \in PoolIds |-> pools[f].revenue - pools[f].purchaseCost])
ServedIn(r)   == SumFunction([tier \in DOMAIN Tiers |-> r.served[tier]])
Slack(price)  == MIN_SETTLED_QUANTITY * AtLeast(price, -price)
PaysFor(gain, r) ==
    /\ gain \in Int /\ ServedIn(r) \in Int /\ r.price \in Int
    /\ gain - r.price * ServedIn(r) \in -Slack(r.price)..Slack(r.price)

\* What is earned is an amount, for any pools.
LEMMA EarningsAre ==
    ASSUME NEW pools \in [PoolIds -> PoolType]
    PROVE  Earned(pools) \in Int
<1> DEFINE g == [f \in PoolIds |-> pools[f].revenue - pools[f].purchaseCost]
<1>1. \A f \in PoolIds : pools[f].revenue \in Int /\ pools[f].purchaseCost \in Int
  BY DEF PoolType
<1>2. DOMAIN g = PoolIds /\ \A f \in PoolIds : g[f] \in Int
  BY <1>1
<1>3. Earned(pools) = SumFunction(g)
  BY Zenon DEF Earned
<1> HIDE DEF g
<1>4. SumFunctionOnSet(g, PoolIds) \in Int
  BY <1>2, PoolsAreFinite, SumStep
<1> QED
  BY <1>2, <1>3, <1>4 DEF SumFunction

\* Pools that earn and pay as before have earned as much.
LEMMA EarningsStay ==
    ASSUME NEW pools, NEW more,
           \A f \in PoolIds : /\ more[f].revenue = pools[f].revenue
                              /\ more[f].purchaseCost = pools[f].purchaseCost
    PROVE  Earned(more) = Earned(pools)
<1>1. [f \in PoolIds |-> more[f].revenue - more[f].purchaseCost]
        = [f \in PoolIds |-> pools[f].revenue - pools[f].purchaseCost]
  OBVIOUS
<1> QED
  BY <1>1, Zenon DEF Earned

\* Nothing is paid when nothing is served.
LEMMA NothingIsPaid ==
    ASSUME NEW r, r.price \in Int, \A tier \in DOMAIN Tiers : r.served[tier] = 0
    PROVE  PaysFor(0, r)
<1> DEFINE g == [tier \in DOMAIN Tiers |-> r.served[tier]]
<1>1. DOMAIN g = DOMAIN Tiers /\ \A tier \in DOMAIN Tiers : g[tier] = 0
  OBVIOUS
<1>2. ServedIn(r) = SumFunction(g)
  BY Zenon DEF ServedIn
<1> HIDE DEF g
<1>3. SumFunctionOnSet(g, DOMAIN Tiers) = 0
  BY <1>1, TiersAreFinite, SumOfZeroes
<1>4. ServedIn(r) = 0
  BY <1>1, <1>2, <1>3 DEF SumFunction
<1>5. r.price * 0 = 0
  OBVIOUS
<1>6. Slack(r.price) \in Nat
  BY DEF Slack, AtLeast, MIN_SETTLED_QUANTITY
<1> DEFINE s == Slack(r.price)
<1> HIDE DEF s
<1>7. s \in Nat => 0 - 0 \in -s..s
  OBVIOUS
<1> QED
  BY <1>4, <1>5, <1>6, <1>7 DEF PaysFor, s

\* What players earn at a point that trades, the consumers pay.
LEMMA TradeIsPaidFor ==
    ASSUME TradingInv, Trade
    PROVE  PaysFor(Earned(pool') - Earned(pool), PointNow)
<1> DEFINE price == SettledNow.price
           sold == [f \in PoolIds |-> SaleNow(f).sold]
           kept == [f \in PoolIds |-> PurchaseNow(f).bought]
           had == [f \in PoolIds |-> pool[f].revenue - pool[f].purchaseCost]
           has == [f \in PoolIds |-> pool'[f].revenue - pool'[f].purchaseCost]
           net == [f \in PoolIds |-> sold[f] - kept[f]]
           gain == [f \in PoolIds |-> net[f] * price]
           Sum(g) == SumFunctionOnSet(g, PoolIds)
<1>1. /\ ReadyToClear /\ FuelLimits \in [PoolIds -> Nat]
      /\ pool' = [f \in PoolIds |-> PoolNow(f)]
  BY TradeIs
<1>2. price \in Int
  BY <1>1, SettlementsNow, PricesSuitBooks
<1>3. \A f \in PoolIds :
         /\ SaleNow(f).sold \in Nat /\ PurchaseNow(f).bought \in Nat
         /\ PoolNow(f).revenue = pool[f].revenue + SaleNow(f).sold * price
         /\ PoolNow(f).purchaseCost = pool[f].purchaseCost + PurchaseNow(f).bought * price
  BY <1>1, PoolTraded
<1>4. \A f \in PoolIds : pool[f].revenue \in Int /\ pool[f].purchaseCost \in Int
  BY DEF TradingInv, SimulationFits, PoolType
<1>5. ASSUME NEW f \in PoolIds
      PROVE  /\ sold[f] \in Int /\ kept[f] \in Int /\ net[f] \in Int /\ sold[f] = net[f] + kept[f]
             /\ gain[f] = net[f] * price /\ gain[f] \in Int
             /\ had[f] \in Int /\ has[f] = had[f] + gain[f]
  <2> DEFINE s == sold[f]
             k == kept[f]
             u == pool[f].revenue
             v == pool[f].purchaseCost
  <2>1. s \in Nat /\ k \in Nat /\ u \in Int /\ v \in Int
    BY <1>3, <1>4
  <2>2. /\ had[f] = u - v /\ has[f] = (u + s * price) - (v + k * price)
        /\ net[f] = s - k /\ gain[f] = net[f] * price
    BY <1>1, <1>3
  <2>3. sold[f] = s /\ kept[f] = k
    OBVIOUS
  <2> HIDE DEF s, k, u, v, price, had, has, net, gain, sold, kept
  <2>4. (s - k) * price = s * price - k * price /\ s * price \in Int /\ k * price \in Int
    BY <1>2, <2>1
  <2> DEFINE sp == s * price
             kp == k * price
  <2>5. gain[f] = sp - kp /\ has[f] = (u + sp) - (v + kp) /\ sp \in Int /\ kp \in Int
    BY <2>2, <2>4
  <2> HIDE DEF sp, kp
  <2> QED
    BY <2>1, <2>2, <2>3, <2>5
<1>6. /\ Earned(pool') = SumFunction(has) /\ Earned(pool) = SumFunction(had)
      /\ DOMAIN has = PoolIds /\ DOMAIN had = PoolIds
      /\ SoldNow = Sum(sold) /\ KeptNow = Sum(kept)
  BY Zenon DEF Earned, SoldNow, KeptNow
<1> HIDE DEF sold, kept, had, has, net, gain, price
<1>7. Earned(pool') = Sum(has) /\ Earned(pool) = Sum(had)
  BY <1>6 DEF SumFunction
<1>8. IsFiniteSet(PoolIds)
  BY PoolsAreFinite
<1>9. Sum(has) = Sum(had) + Sum(gain)
  BY <1>5, <1>8, SumOfSums
<1>10. Sum(gain) = Sum(net) * price
  BY <1>2, <1>5, <1>8, SumScaled
<1>11. Sum(sold) = Sum(net) + Sum(kept)
  BY <1>5, <1>8, SumOfSums
<1>12. Sum(net) \in Int /\ Sum(had) \in Int
  <2>1. Sum(net) \in Int
    BY <1>5, <1>8, SumStep
  <2>2. Sum(had) \in Int
    BY <1>5, <1>8, SumStep
  <2> QED
    BY <2>1, <2>2
<1>13. /\ SoldNow \in Int /\ KeptNow \in Int /\ ServedNow \in Int
       /\ SoldNow - KeptNow - ServedNow \in -MIN_SETTLED_QUANTITY..MIN_SETTLED_QUANTITY
  BY <1>1, PointBalances
<1>14. ServedIn(PointNow) = ServedNow /\ PointNow.price = price
  <2> DEFINE served == [tier \in DOMAIN Tiers |-> PurchaseNow(-tier).bought]
  <2>1. PointNow.price = price /\ PointNow.served = served
    BY DEF PointNow, PointCleared, PurchaseNow, price
  <2>2. [tier \in DOMAIN Tiers |-> PointNow.served[tier]] = served
    BY <2>1
  <2>3. ServedIn(PointNow) = SumFunction(served) /\ DOMAIN served = DOMAIN Tiers
    BY <2>2, Zenon DEF ServedIn
  <2>4. ServedNow = SumFunctionOnSet(served, DOMAIN Tiers)
    BY Zenon DEF ServedNow
  <2> HIDE DEF served
  <2> QED
    BY <2>1, <2>3, <2>4 DEF SumFunction
<1> DEFINE n == Sum(net)
           s == ServedNow
           e == Sum(had)
           x == n - s
<1>15. x \in -1..1 /\ n \in Int /\ s \in Int /\ e \in Int
  BY <1>6, <1>11, <1>12, <1>13 DEF MIN_SETTLED_QUANTITY
<1>16. Earned(pool') - Earned(pool) = n * price
  <2> DEFINE a == n * price
  <2>1. a \in Int /\ Earned(pool') = e + a /\ Earned(pool) = e /\ e \in Int
    BY <1>2, <1>7, <1>9, <1>10, <1>12
  <2> HIDE DEF a, e
  <2>2. Earned(pool') - Earned(pool) = a
    BY <2>1
  <2> QED
    BY <2>2 DEF a
<1> HIDE DEF n, s, e
<1>17. n * price - price * s = x * price /\ n * price \in Int
  BY <1>2, <1>15
<1> HIDE DEF x
<1>18. x * price \in -Slack(price)..Slack(price)
  <2>1. x = -1 \/ x = 0 \/ x = 1
    BY <1>15
  <2>2. CASE x = -1
    BY <1>2, <2>2 DEF Slack, AtLeast, MIN_SETTLED_QUANTITY
  <2>3. CASE x = 0
    BY <1>2, <2>3 DEF Slack, AtLeast, MIN_SETTLED_QUANTITY
  <2>4. CASE x = 1
    BY <1>2, <2>4 DEF Slack, AtLeast, MIN_SETTLED_QUANTITY
  <2> QED
    BY <2>1, <2>2, <2>3, <2>4
<1> QED
  BY <1>2, <1>13, <1>14, <1>16, <1>17, <1>18 DEF PaysFor, s

\* What a step adds to the earnings is paid for by the point it records.
LEMMA StepIsPaidFor ==
    ASSUME TradingInv, StayDown \/ GoDown \/ Trade, NEW r, AddsPoint(r)
    PROVE  PaysFor(Earned(pool') - Earned(pool), r)
<1>1. /\ record \in Seq(PointType) /\ pool \in [PoolIds -> PoolType] /\ Len(record) = point
      /\ point \in Nat
  BY DEF TradingInv, SimulationFits
<1>2. record' = Append(record, r) /\ r \in PointType
  BY DEF AddsPoint, PointFits
<1>3. \A q : record' = Append(record, q) => q = r
  <2> SUFFICES ASSUME NEW q, record' = Append(record, q) PROVE q = r
    OBVIOUS
  <2>1. Append(record, q)[Len(record) + 1] = q /\ Append(record, r)[Len(record) + 1] = r
    BY <1>1
  <2> QED
    BY <1>2, <2>1
<1>4. r.price \in Int
  BY <1>2 DEF PointType
<1>5. r.state # "trade" => \A tier \in DOMAIN Tiers : r.served[tier] = 0
  BY DEF AddsPoint, PointFits
<1>6. Earned(pool) \in Int
  BY <1>1, EarningsAre
<1>7. ASSUME r.state # "trade", Earned(pool') = Earned(pool)
      PROVE  PaysFor(Earned(pool') - Earned(pool), r)
  <2>1. PaysFor(0, r)
    BY <1>4, <1>5, <1>7, NothingIsPaid
  <2>2. Earned(pool') - Earned(pool) = 0
    BY <1>6, <1>7
  <2> QED
    BY <2>1, <2>2
<1>8. CASE StayDown
  <2>1. PointDown(pool).state = "down" /\ record' = Append(record, PointDown(pool)) /\ pool' = pool
    BY <1>8, DownPoint DEF StayDown
  <2>2. r.state # "trade"
    BY <1>3, <2>1
  <2> QED
    BY <1>7, <2>1, <2>2
<1>9. CASE GoDown
  <2>1. r.state # "trade"
    <3>1. PICK q : record' = Append(record, q) /\ q.state = "blackout"
      BY <1>9, BlackoutPoint
    <3> QED
      BY <1>3, <3>1
  <2> DEFINE limits == FuelLimits
             c == ClearMarket(BookWith(limits))
  <2>2. pool' = [f \in PoolIds |-> NoteRunOut(limits, c, f, pool[f])]
    BY <1>9 DEF GoDown
  <2> HIDE DEF limits, c
  <2>3. ASSUME NEW f \in PoolIds
        PROVE  /\ pool'[f].revenue = pool[f].revenue
               /\ pool'[f].purchaseCost = pool[f].purchaseCost
    <3> DEFINE before == pool[f]
               after == pool'[f]
    <3>1. before \in PoolType /\ after = NoteRunOut(limits, c, f, before)
      BY <1>1, <2>2
    <3> HIDE DEF before, after
    <3>2. after.revenue = before.revenue /\ after.purchaseCost = before.purchaseCost
      BY <3>1, NotedPoolIs
    <3> QED
      BY <3>2 DEF before, after
  <2>4. Earned(pool') = Earned(pool)
    BY <2>3, EarningsStay
  <2> QED
    BY <1>7, <2>1, <2>4
<1>10. CASE Trade
  <2>1. record' = Append(record, PointNow)
    BY <1>10, TradeIs
  <2>2. PointNow = r
    BY <1>3, <2>1
  <2>3. PaysFor(Earned(pool') - Earned(pool), PointNow)
    BY <1>10, TradeIsPaidFor
  <2> QED
    BY <2>2, <2>3
<1> QED
  BY <1>8, <1>9, <1>10

\* What the consumers have paid at the points recorded, and what may be missing of it.
PaidAt  == [k \in PointsDone |-> record[k].price * ServedIn(record[k])]
SlackAt == [k \in PointsDone |-> Slack(record[k].price)]

\* Over all points, the consumers pay the players.
LedgerFits ==
    /\ Earned(pool) - SumFunction(PaidAt) \in -SumFunction(SlackAt)..SumFunction(SlackAt)
    /\ \A k \in PointsDone : Did(k) = "trade" => record[k].price \in PRICE_FLOOR..SCARCITY_PRICE

\* The ledger is what consumers and players have paid and earned.
LEMMA LedgerIs == ConsumersPayThePlayers <=> LedgerFits
<1>1. Earned(pool) = SumOf(PoolIds, LAMBDA f : pool[f].revenue - pool[f].purchaseCost)
  BY Zenon DEF Earned, SumOf
<1>2. \A k : ServedIn(record[k]) = SumOf(DOMAIN Tiers, LAMBDA tier : record[k].served[tier])
  BY Zenon DEF ServedIn, SumOf
<1>3. SumFunction(SlackAt) = SumOf(PointsDone, LAMBDA k : MIN_SETTLED_QUANTITY
                                                       * AtLeast(record[k].price, -record[k].price))
  BY Zenon DEF SlackAt, SumOf, Slack
<1>4. SumFunction(PaidAt)
        = SumOf(PointsDone, LAMBDA k : record[k].price
                                         * SumOf(DOMAIN Tiers, LAMBDA tier : record[k].served[tier]))
  <2> DEFINE at(k) == SumOf(DOMAIN Tiers, LAMBDA tier : record[k].served[tier])
  <2>1. \A k : ServedIn(record[k]) = at(k)
    BY <1>2
  <2> HIDE DEF at
  <2>2. PaidAt = [k \in PointsDone |-> record[k].price * at(k)]
    BY <2>1 DEF PaidAt
  <2>3. SumFunction(PaidAt) = SumOf(PointsDone, LAMBDA k : record[k].price * at(k))
    BY <2>2, Zenon DEF SumOf
  <2> QED
    BY <2>3, Zenon DEF at
<1> QED
  BY <1>1, <1>3, <1>4, Zenon DEF ConsumersPayThePlayers, LedgerFits

\* What a point of the record served the consumers is an amount.
LEMMA ServingIs ==
    ASSUME NEW r \in PointType
    PROVE  ServedIn(r) \in Int /\ r.price \in Int /\ Slack(r.price) \in Int
<1> DEFINE g == [tier \in DOMAIN Tiers |-> r.served[tier]]
<1>1. DOMAIN g = DOMAIN Tiers /\ \A tier \in DOMAIN Tiers : g[tier] \in Int
  BY DEF PointType
<1>2. ServedIn(r) = SumFunction(g)
  BY Zenon DEF ServedIn
<1>3. r.price \in Int
  BY DEF PointType
<1>4. Slack(r.price) \in Int
  BY <1>3 DEF Slack, AtLeast, MIN_SETTLED_QUANTITY
<1> HIDE DEF g
<1>5. SumFunctionOnSet(g, DOMAIN Tiers) \in Int
  BY <1>1, TiersAreFinite, SumStep
<1> QED
  BY <1>1, <1>2, <1>3, <1>4, <1>5 DEF SumFunction

\* The consumers pay the players at the new point too.
LEMMA LedgerGrows ==
    ASSUME TradingInv, ConsumersPayThePlayers, StayDown \/ GoDown \/ Trade
    PROVE  ConsumersPayThePlayers'
<1>1. PICK r : AddsPoint(r) /\ (StaysAsIs(r) \/ BreaksDown(r))
  BY StepsThatAdd
<1>2. PaysFor(Earned(pool') - Earned(pool), r)
  BY <1>1, StepIsPaidFor
<1>3. /\ point \in Nat /\ point' = point + 1 /\ r \in PointType
      /\ DOMAIN record = 1..point /\ DOMAIN record' = 1..point'
      /\ \A k \in 1..point : record'[k] = record[k]
      /\ record'[point + 1] = r
  BY <1>1, RecordGrows
<1>4. \A k \in 1..point : record[k] \in PointType
  <2>1. record \in Seq(PointType)
    BY DEF TradingInv, SimulationFits
  <2> QED
    BY <1>3, <2>1
<1> DEFINE n == point
           paid == PaidAt
           paid2 == PaidAt'
           slack == SlackAt
           slack2 == SlackAt'
<1>5. /\ DOMAIN paid = 1..n /\ DOMAIN paid2 = 1..(n + 1)
      /\ DOMAIN slack = 1..n /\ DOMAIN slack2 = 1..(n + 1)
      /\ \A k \in 1..n : paid[k] = record[k].price * ServedIn(record[k])
      /\ \A k \in 1..(n + 1) : paid2[k] = record'[k].price * ServedIn(record'[k])
      /\ \A k \in 1..n : slack[k] = Slack(record[k].price)
      /\ \A k \in 1..(n + 1) : slack2[k] = Slack(record'[k].price)
  <2>1. /\ paid = [k \in DOMAIN record |-> record[k].price * ServedIn(record[k])]
        /\ slack = [k \in DOMAIN record |-> Slack(record[k].price)]
    BY DEF PaidAt, SlackAt, PointsDone
  <2>2. /\ paid2 = [k \in DOMAIN record' |-> record'[k].price * ServedIn(record'[k])]
        /\ slack2 = [k \in DOMAIN record' |-> Slack(record'[k].price)]
    BY Zenon DEF PaidAt, SlackAt, PointsDone, ServedIn, Slack
  <2> HIDE DEF paid, paid2, slack, slack2
  <2> QED
    BY <1>3, <2>1, <2>2
<1> HIDE DEF paid, paid2, slack, slack2
<1>6. \A k \in 1..n : paid[k] \in Int /\ slack[k] \in Int
  <2> SUFFICES ASSUME NEW k \in 1..n PROVE paid[k] \in Int /\ slack[k] \in Int
    OBVIOUS
  <2>1. /\ ServedIn(record[k]) \in Int /\ record[k].price \in Int /\ Slack(record[k].price) \in Int
    BY <1>4, ServingIs
  <2>2. paid[k] = record[k].price * ServedIn(record[k]) /\ slack[k] = Slack(record[k].price)
    BY <1>5
  <2> DEFINE a == record[k].price
             b == ServedIn(record[k])
  <2>3. a \in Int /\ b \in Int /\ paid[k] = a * b
    BY <2>1, <2>2
  <2> HIDE DEF a, b
  <2>4. paid[k] \in Int
    BY <2>3
  <2> QED
    BY <2>1, <2>2, <2>4
<1>7. \A k \in 1..n : paid2[k] = paid[k] /\ slack2[k] = slack[k]
  <2>1. \A k \in 1..n : k \in 1..(n + 1) /\ record'[k] = record[k]
    BY <1>3
  <2> QED
    BY <1>5, <2>1
<1> DEFINE p == r.price
           s == ServedIn(r)
           t == Slack(p)
           gain == Earned(pool') - Earned(pool)
<1>8. p \in Int /\ s \in Int /\ t \in Int /\ gain \in Int /\ gain - p * s \in -t..t
  BY <1>2, <1>3, ServingIs DEF PaysFor
<1>9. paid2[n + 1] = p * s /\ slack2[n + 1] = t
  <2>1. n + 1 \in 1..(n + 1)
    BY <1>3
  <2> QED
    BY <1>3, <1>5, <2>1
<1>10. Earned(pool) - SumFunction(paid) \in -SumFunction(slack)..SumFunction(slack)
  BY LedgerIs DEF LedgerFits, paid, slack
<1>11. Earned(pool) \in Int /\ Earned(pool') \in Int
  <2>1. pool \in [PoolIds -> PoolType] /\ pool' \in [PoolIds -> PoolType]
    BY <1>1 DEF AddsPoint, PointFits, TradingInv, SimulationFits
  <2> QED
    BY <2>1, EarningsAre
<1> DEFINE e == Earned(pool)
           e2 == Earned(pool')
           ps == p * s
<1>12. e2 = e + gain /\ e \in Int /\ e2 \in Int /\ ps \in Int
  BY <1>8, <1>11
<1>13. e = Earned(pool) /\ e2 = Earned(pool)'
  BY Zenon DEF Earned
<1>14. gain - ps \in -t..t /\ paid2[n + 1] = ps
  BY <1>8, <1>9
<1> HIDE DEF p, s, t, gain, n, e, e2, ps
<1>15. /\ SumFunction(paid) \in Int /\ SumFunction(paid2) = SumFunction(paid) + ps
       /\ SumFunction(slack) \in Int /\ SumFunction(slack2) = SumFunction(slack) + t
  <2>0. n \in Nat
    BY <1>3 DEF n
  <2>1. SumFunction(paid) \in Int /\ SumFunction(paid2) = SumFunction(paid) + paid2[n + 1]
    BY <1>5, <1>6, <1>7, <1>12, <1>14, <2>0, SumOneMore
  <2>2. SumFunction(slack) \in Int /\ SumFunction(slack2) = SumFunction(slack) + slack2[n + 1]
    BY <1>5, <1>6, <1>7, <1>8, <1>9, <2>0, SumOneMore
  <2> QED
    BY <1>9, <1>14, <2>1, <2>2
<1>16. e2 - SumFunction(paid2) \in -SumFunction(slack2)..SumFunction(slack2)
  <2> DEFINE a == SumFunction(paid)
             b == SumFunction(slack)
             a2 == SumFunction(paid2)
             b2 == SumFunction(slack2)
  <2>1. /\ a \in Int /\ b \in Int /\ t \in Int /\ ps \in Int /\ gain \in Int /\ e \in Int
        /\ a2 = a + ps /\ b2 = b + t
        /\ e - a \in -b..b /\ e2 = e + gain
    BY <1>8, <1>10, <1>12, <1>13, <1>15
  <2> HIDE DEF a, b, a2, b2
  <2>2. e2 - a2 \in -b2..b2
    BY <1>14, <2>1
  <2> QED
    BY <2>2 DEF a2, b2
<1>17. \A k \in PointsDone' :
          record'[k].state = "trade" => record'[k].price \in PRICE_FLOOR..SCARCITY_PRICE
  <2>1. TradeFits'
    BY <1>1, StorageGrows
  <2> QED
    BY <2>1, Zenon DEF TradeFits, Did, Prices
<1>18. ConsumersPayThePlayers' <=> LedgerFits'
  BY LedgerIs, PTL
<1>19. LedgerFits'
  BY <1>13, <1>16, <1>17, Zenon DEF LedgerFits, paid2, slack2, Did, PRICE_FLOOR, SCARCITY_PRICE
<1> QED
  BY <1>18, <1>19

\* A pass starts with nothing earned, paid or recorded.
NothingEarned ==
    /\ record = <<>>
    /\ \A f \in PoolIds : pool[f].revenue = 0 /\ pool[f].purchaseCost = 0

\* Nothing is owed when nothing is earned.
LEMMA LedgerStarts == NothingEarned => ConsumersPayThePlayers
<1> SUFFICES ASSUME NothingEarned PROVE ConsumersPayThePlayers
  OBVIOUS
<1> DEFINE g == [f \in PoolIds |-> pool[f].revenue - pool[f].purchaseCost]
<1>1. DOMAIN g = PoolIds /\ \A f \in PoolIds : g[f] = 0
  BY DEF NothingEarned
<1>2. Earned(pool) = SumFunction(g)
  BY Zenon DEF Earned
<1> HIDE DEF g
<1>3. SumFunctionOnSet(g, PoolIds) = 0
  BY <1>1, PoolsAreFinite, SumOfZeroes
<1>4. Earned(pool) = 0
  BY <1>1, <1>2, <1>3 DEF SumFunction
<1>5. PointsDone = {}
  BY DEF NothingEarned, PointsDone
<1>6. DOMAIN PaidAt = {} /\ DOMAIN SlackAt = {}
  BY <1>5 DEF PaidAt, SlackAt
<1>7. SumFunction(PaidAt) = 0 /\ SumFunction(SlackAt) = 0
  <2>1. SumFunction(PaidAt) = 0
    BY <1>6, SumOfNothing
  <2>2. SumFunction(SlackAt) = 0
    BY <1>6, SumOfNothing
  <2> QED
    BY <2>1, <2>2
<1>8. LedgerFits
  BY <1>4, <1>5, <1>7 DEF LedgerFits
<1> QED
  BY <1>8, LedgerIs

\* The books of a simulation always balance, pool by pool and point by point.
LEMMA SimulationKeepsBooks == Spec => [](TradingInv /\ ConsumersPayThePlayers)
<1>1. Init => TradingInv /\ ConsumersPayThePlayers
  <2> SUFFICES ASSUME Init PROVE TradingInv /\ ConsumersPayThePlayers
    OBVIOUS
  <2>1. TradingInv
    BY InitFits, StartFits
  <2> DEFINE held(f) == IF input.fullSeason THEN input.stored[f] ELSE 0
  <2>2. /\ input \in Inputs /\ record = <<>> /\ pool = [f \in PoolIds |-> NewPool(held(f))]
    BY DEF Init
  <2>3. \A f \in PoolIds : held(f) \in Nat
    BY <2>2, InputIs
  <2> HIDE DEF held
  <2>4. NothingEarned
    BY <2>2, <2>3, NewPoolIs DEF NothingEarned
  <2> QED
    BY <2>1, <2>4, LedgerStarts
<1>2. ASSUME TradingInv, ConsumersPayThePlayers, TradingInv', [Next]_vars
      PROVE  ConsumersPayThePlayers'
  <2>1. CASE StayDown \/ GoDown \/ Trade
    BY <1>2, <2>1, LedgerGrows
  <2>2. CASE EndPass /\ pass = "warming"
    <3>1. pool' = [f \in PoolIds |-> NewPool(pool[f].stored)] /\ record' = <<>>
      BY <2>2 DEF EndPass, PoolsAfresh
    <3>2. \A f \in PoolIds : pool[f].stored \in Nat
      BY <1>2 DEF TradingInv, SimulationFits, PoolType
    <3>3. NothingEarned'
      BY <3>1, <3>2, NewPoolIs DEF NothingEarned
    <3>4. NothingEarned' => ConsumersPayThePlayers'
      BY LedgerStarts, PTL
    <3> QED
      BY <3>3, <3>4
  <2>3. CASE (EndPass /\ pass # "warming") \/ UNCHANGED vars
    <3>1. pool' = pool /\ record' = record
      BY <2>3 DEF EndPass, vars
    <3>2. LedgerFits' <=> LedgerFits
      BY <3>1, Zenon DEF LedgerFits, Earned, PaidAt, SlackAt, PointsDone, Did, ServedIn
    <3>3. /\ ConsumersPayThePlayers <=> LedgerFits
          /\ ConsumersPayThePlayers' <=> LedgerFits'
      BY LedgerIs, PTL
    <3> QED
      BY <1>2, <3>2, <3>3
  <2> QED
    BY <1>2, <2>1, <2>2, <2>3 DEF Next
<1>3. Spec => []TradingInv
  BY SimulationKeepsInv
<1> QED
  BY <1>1, <1>2, <1>3, PTL DEF Spec

\* Whatever the players ask and bid, what they earn over a period is what the consumers pay,
\* but for trades too small to settle, at prices from what dumping costs to scarcity.
THEOREM ConsumersAlwaysPayThePlayers == Spec => []ConsumersPayThePlayers
BY SimulationKeepsBooks, PTL

-----------------------------------------------------------------------------
(***************************************************************************)
(* What is reserved of a stock is within it, the cheapest offer's first.   *)
(***************************************************************************)
\* h is what is left and what each pool may offer, as pools have their turn.
Reserved(h, n) ==
    /\ input \in Inputs /\ tank \in [Tanks -> Nat] /\ n = Cardinality(Burning)
    /\ IsRecursion(h, n, AllFree, Reservation(n)) /\ \A i \in 0..n : h[i] \in Held

\* What a pool that has its turn changes.
TakesTurn(held, after, f) ==
    /\ f \in Burning /\ f \in PoolIds /\ TankOf(f) \in Tanks
    /\ held \in Held /\ after \in Held
    /\ Plants[f].use \in Nat \ {0} /\ Plants[f].power \in Nat
    /\ \E most \in Nat :
          /\ after.limit = [held.limit EXCEPT ![f] = most]
          /\ most * Plants[f].use \in Nat
          /\ most * Plants[f].use <= held.free[TankOf(f)]
          /\ after.free = [held.free EXCEPT
                             ![TankOf(f)] = held.free[TankOf(f)] - most * Plants[f].use]
          /\ most < Plants[f].power => after.free[TankOf(f)] < Plants[f].use

\* Each pool has its turn after those before it.
LEMMA TurnTaken ==
    ASSUME NEW h, NEW n, Reserved(h, n), NEW i \in 1..n
    PROVE  TakesTurn(h[i - 1], h[i], FuelPools[i])
<1>1. n \in Nat /\ FuelPools \in [1..n -> Burning]
  <2>1. InTurnOf(FuelPools, n)
    BY FuelPoolsInTurn DEF Reserved
  <2> QED
    BY <2>1 DEF InTurnOf
<1> DEFINE f == FuelPools[i]
           held == h[i - 1]
           after == h[i]
           most == AtMost(held.free[TankOf(f)] \div Plants[f].use, Plants[f].power)
<1>2. i \in 0..n /\ i - 1 \in 0..n /\ i # 0
  BY <1>1
<1>3. f \in Burning /\ held \in Held /\ after \in Held
  BY <1>1, <1>2 DEF Reserved
<1>4. after = Reserving(held, f)
  <2>1. after = Reservation(n)[<<i, held>>]
    BY <1>2 DEF Reserved, IsRecursion
  <2> HIDE DEF held, after
  <2> QED
    BY <1>3, <2>1 DEF Reservation, f
<1>5. f \in PoolIds /\ Plants[f].power \in Nat
  BY <1>3, PlantAssumption DEF Burning
<1>6. most = AtMost(held.free[TankOf(f)] \div Plants[f].use, Plants[f].power)
  OBVIOUS
<1> HIDE DEF f, held, after, most
<1>7. /\ TankOf(f) \in Tanks /\ Plants[f].use \in Nat \ {0}
      /\ most \in Nat /\ most * Plants[f].use \in Nat
      /\ most * Plants[f].use <= held.free[TankOf(f)]
      /\ after.limit = [held.limit EXCEPT ![f] = most]
      /\ after.free = [held.free EXCEPT
                         ![TankOf(f)] = held.free[TankOf(f)] - most * Plants[f].use]
      /\ most < Plants[f].power => after.free[TankOf(f)] < Plants[f].use
  BY <1>3, <1>4, <1>6, ReservingIs
<1>8. TakesTurn(held, after, f)
  BY <1>3, <1>5, <1>7 DEF TakesTurn
<1> QED
  BY <1>8 DEF f, held, after

\* What the first i pools could burn, by what they may offer.
HadTurn(i)        == { FuelPools[j] : j \in 1..i }
NeededBy(held, i) ==
    [f \in PoolIds |-> IF f \in HadTurn(i) THEN held.limit[f] * Plants[f].use ELSE 0]

\* One pool's turn changes what that pool needs.
LEMMA NeededNext ==
    ASSUME NEW h, NEW n, Reserved(h, n), NEW i \in 1..n, NEW f, f = FuelPools[i],
           NEW g, g = NeededBy(h[i - 1], i - 1), NEW g2, g2 = NeededBy(h[i], i)
    PROVE  /\ \A x \in PoolIds : g[x] \in Nat /\ g2[x] \in Nat
           /\ \A x \in PoolIds \ {f} : g2[x] = g[x]
           /\ f \in Burning /\ g[f] = 0
           /\ g2[f] + h[i].free[TankOf(f)] = h[i - 1].free[TankOf(f)]
           /\ \A t \in Tanks : t # TankOf(f) => h[i].free[t] = h[i - 1].free[t]
<1>1. /\ n \in Nat /\ FuelPools \in [1..n -> Burning]
      /\ \A j, k \in 1..n : FuelPools[j] = FuelPools[k] => j = k
  <2>1. InTurnOf(FuelPools, n)
    BY FuelPoolsInTurn DEF Reserved
  <2> QED
    BY <2>1 DEF InTurnOf
<1>2. HadTurn(i) = HadTurn(i - 1) \cup {f} /\ f \notin HadTurn(i - 1)
  <2>1. \A j \in 1..i : j \in 1..(i - 1) \/ j = i
    OBVIOUS
  <2>2. \A j \in 1..(i - 1) : j \in 1..i /\ j \in 1..n /\ j # i
    BY <1>1
  <2>3. i \in 1..i
    OBVIOUS
  <2> QED
    BY <1>1, <2>1, <2>2, <2>3 DEF HadTurn
<1> DEFINE held == h[i - 1]
           after == h[i]
           had == HadTurn(i - 1)
           has == HadTurn(i)
<1>3. TakesTurn(held, after, f)
  BY TurnTaken
<1>4. /\ g = [x \in PoolIds |-> IF x \in had THEN held.limit[x] * Plants[x].use ELSE 0]
      /\ g2 = [x \in PoolIds |-> IF x \in has THEN after.limit[x] * Plants[x].use ELSE 0]
  BY DEF NeededBy
<1>5. \A x \in had : x \in Burning
  BY <1>1 DEF HadTurn
<1>6. has = had \cup {f} /\ f \notin had
  BY <1>2
<1> HIDE DEF held, after, had, has
<1>7. PICK most \in Nat :
         /\ after.limit = [held.limit EXCEPT ![f] = most]
         /\ most * Plants[f].use \in Nat
         /\ most * Plants[f].use <= held.free[TankOf(f)]
         /\ after.free = [held.free EXCEPT
                            ![TankOf(f)] = held.free[TankOf(f)] - most * Plants[f].use]
  BY <1>3 DEF TakesTurn
<1>8. /\ f \in Burning /\ f \in PoolIds /\ TankOf(f) \in Tanks
      /\ held.limit \in [PoolIds -> Nat] /\ held.free \in [Tanks -> Nat]
  BY <1>3 DEF TakesTurn, Held
<1>9. \A x \in PoolIds \ {f} : g2[x] = g[x]
  BY <1>4, <1>6, <1>7, <1>8
<1> DEFINE need == most * Plants[f].use
<1>10. g[f] = 0 /\ g2[f] = need
  BY <1>4, <1>6, <1>7, <1>8
<1>11. ASSUME NEW x \in PoolIds PROVE g[x] \in Nat
  <2>1. CASE x \in had
    <3>1. Plants[x].use \in Nat /\ held.limit[x] \in Nat
      BY <1>5, <1>8, <2>1, PlantAssumption DEF Burning, BurnsLimitedFuel, Is
    <3> DEFINE a == held.limit[x]
               b == Plants[x].use
    <3>2. a \in Nat /\ b \in Nat /\ g[x] = a * b
      BY <1>4, <2>1, <3>1
    <3> HIDE DEF a, b
    <3> QED
      BY <3>2
  <2>2. CASE x \notin had
    BY <1>4, <2>2
  <2> QED
    BY <2>1, <2>2
<1>12. \A x \in PoolIds : g2[x] \in Nat
  BY <1>7, <1>9, <1>10, <1>11
<1>13. g2[f] + after.free[TankOf(f)] = held.free[TankOf(f)]
  <2> DEFINE a == held.free[TankOf(f)]
             b == after.free[TankOf(f)]
  <2>1. a \in Nat /\ need \in Nat /\ b = a - need
    BY <1>7, <1>8
  <2> HIDE DEF a, b, need
  <2>2. need + b = a
    BY <2>1
  <2> QED
    BY <1>10, <2>2 DEF a, b
<1>14. \A t \in Tanks : t # TankOf(f) => after.free[t] = held.free[t]
  BY <1>7, <1>8
<1> QED
  BY <1>8, <1>9, <1>10, <1>11, <1>12, <1>13, <1>14 DEF held, after

\* As pools have their turn, what they may burn of a stock and what is left of it are what
\* there was.
LEMMA ReservedAddsUp ==
    ASSUME NEW h, NEW n, Reserved(h, n), NEW t \in Tanks
    PROVE  \A i \in 0..n :
              /\ SumFunctionOnSet(NeededBy(h[i], i), Sharing(t)) \in Nat
              /\ SumFunctionOnSet(NeededBy(h[i], i), Sharing(t)) + h[i].free[t] = tank[t]
<1> DEFINE S == Sharing(t)
           Needs(i) == SumFunctionOnSet(NeededBy(h[i], i), S)
           G == { i \in 0..n : Needs(i) \in Nat /\ Needs(i) + h[i].free[t] = tank[t] }
<1>1. /\ n \in Nat /\ tank \in [Tanks -> Nat] /\ \A i \in 0..n : h[i].free \in [Tanks -> Nat]
  <2>1. InTurnOf(FuelPools, n)
    BY FuelPoolsInTurn DEF Reserved
  <2> QED
    BY <2>1 DEF InTurnOf, Reserved, Held
<1>2. IsFiniteSet(S) /\ S \subseteq PoolIds
  BY SharingIsFinite
<1>3. \A f \in Burning : f \in S <=> TankOf(f) = t
  BY DEF Sharing, Burning
<1> HIDE DEF S
<1>4. 0 \in G
  <2> DEFINE g == NeededBy(h[0], 0)
  <2>1. h[0] = AllFree /\ 0 \in 0..n
    <3> DEFINE F == Reservation(n)
               base == AllFree
    <3>1. IsRecursion(h, n, base, F) /\ 0 \in 0..n
      BY <1>1 DEF Reserved
    <3> HIDE DEF F, base
    <3>2. h[0] = base
      BY <3>1 DEF IsRecursion
    <3> QED
      BY <3>1, <3>2 DEF base
  <2>2. h[0].free[t] = tank[t]
    BY <2>1 DEF AllFree
  <2>3. \A f \in S : g[f] = 0
    <3>1. HadTurn(0) = {}
      BY DEF HadTurn
    <3> QED
      BY <1>2, <3>1 DEF NeededBy
  <2>4. Needs(0) = SumFunctionOnSet(g, S)
    OBVIOUS
  <2> HIDE DEF g
  <2>5. SumFunctionOnSet(g, S) = 0
    BY <1>2, <2>3, SumOfZeroes
  <2> QED
    BY <1>1, <2>1, <2>2, <2>4, <2>5
<1>5. ASSUME NEW i \in 1..n, i - 1 \in G PROVE i \in G
  <2> DEFINE f == FuelPools[i]
             g == NeededBy(h[i - 1], i - 1)
             g2 == NeededBy(h[i], i)
             left == h[i - 1].free[t]
             left2 == h[i].free[t]
             needs == Needs(i - 1)
             needs2 == Needs(i)
  <2>1. i \in 0..n /\ i - 1 \in 0..n
    BY <1>1
  <2>2. /\ needs \in Nat /\ needs + left = tank[t] /\ left \in Nat /\ left2 \in Nat
        /\ needs = SumFunctionOnSet(g, S) /\ needs2 = SumFunctionOnSet(g2, S)
    BY <1>1, <1>5, <2>1
  <2>3. f = FuelPools[i] /\ g = NeededBy(h[i - 1], i - 1) /\ g2 = NeededBy(h[i], i)
    OBVIOUS
  <2>4. left = h[i - 1].free[t] /\ left2 = h[i].free[t]
    OBVIOUS
  <2>5. i \in G <=> needs2 \in Nat /\ needs2 + left2 = tank[t]
    BY <2>1
  <2> HIDE DEF f, g, g2, G, left, left2, needs, needs2, Needs
  <2>6. /\ \A x \in PoolIds : g[x] \in Nat /\ g2[x] \in Nat
        /\ \A x \in PoolIds \ {f} : g2[x] = g[x]
        /\ f \in Burning /\ g[f] = 0
        /\ g2[f] + h[i].free[TankOf(f)] = h[i - 1].free[TankOf(f)]
        /\ \A u \in Tanks : u # TankOf(f) => h[i].free[u] = h[i - 1].free[u]
    BY <2>3, NeededNext
  <2>7. CASE TankOf(f) = t
    <3>1. f \in S /\ f \in PoolIds
      BY <1>2, <1>3, <2>6, <2>7
    <3>2. SumFunctionOnSet(g2, S) = SumFunctionOnSet(g, S) + g2[f] - g[f]
      BY <1>2, <2>6, <3>1, SumChange
    <3> DEFINE d == g2[f]
    <3>3. d \in Nat /\ needs2 = needs + d /\ d + left2 = left
      BY <2>2, <2>4, <2>6, <2>7, <3>1, <3>2
    <3> HIDE DEF d
    <3> QED
      BY <2>2, <2>5, <3>3
  <2>8. CASE TankOf(f) # t
    <3>1. f \notin S
      BY <1>3, <2>6, <2>8
    <3>2. SumFunctionOnSet(g2, S) = SumFunctionOnSet(g, S)
      BY <1>2, <2>6, <3>1, SumSame
    <3>3. left2 = left
      BY <2>4, <2>6, <2>8
    <3> QED
      BY <2>2, <2>5, <3>2, <3>3
  <2> QED
    BY <2>7, <2>8
<1>6. \A i \in 0..n : i \in G
  <2> HIDE DEF G
  <2> QED
    BY <1>1, <1>4, <1>5, CountingInduction
<1> QED
  BY <1>6 DEF S

\* What pools may offer takes no more of a stock than there is.
LEMMA LimitsFitTheStock ==
    ASSUME input \in Inputs, tank \in [Tanks -> Nat], NEW t \in Tanks,
           NEW g, g = [f \in PoolIds |-> FuelLimits[f] * Plants[f].use]
    PROVE  /\ \A f \in Sharing(t) : g[f] \in Nat
           /\ SumFunctionOnSet(g, Sharing(t)) <= tank[t]
<1> DEFINE n == Cardinality(Burning)
           S == Sharing(t)
<1>1. PICK h : Reserved(h, n) /\ FuelLimits = h[n].limit
  BY LimitsAreReserved DEF Reserved
<1>2. /\ n \in Nat /\ \A f \in Burning : \E k \in 1..n : FuelPools[k] = f
  <2>1. InTurnOf(FuelPools, n)
    BY FuelPoolsInTurn
  <2> QED
    BY <2>1 DEF InTurnOf
<1>3. IsFiniteSet(S) /\ S \subseteq PoolIds /\ S \subseteq Burning
  BY SharingIsFinite DEF Sharing, Burning
<1>4. Burning \subseteq HadTurn(n)
  BY <1>2 DEF HadTurn
<1> DEFINE r == NeededBy(h[n], n)
<1>5. \A f \in S : r[f] = g[f]
  BY <1>1, <1>3, <1>4 DEF NeededBy
<1>6. n \in 0..n
  BY <1>2
<1>7. \A f \in S : g[f] \in Nat
  <2> SUFFICES ASSUME NEW f \in S PROVE g[f] \in Nat
    OBVIOUS
  <2>1. FuelLimits[f] \in Nat /\ Plants[f].use \in Nat
    BY <1>3, LimitsAreTyped, PlantAssumption DEF Burning, BurnsLimitedFuel, Is
  <2> DEFINE a == FuelLimits[f]
             b == Plants[f].use
  <2>2. a \in Nat /\ b \in Nat /\ g[f] = a * b
    BY <1>3, <2>1
  <2> HIDE DEF a, b
  <2> QED
    BY <2>2
<1>8. /\ SumFunctionOnSet(r, S) \in Nat /\ SumFunctionOnSet(r, S) + h[n].free[t] = tank[t]
  <2> HIDE DEF n
  <2>1. \A i \in 0..n : /\ SumFunctionOnSet(NeededBy(h[i], i), Sharing(t)) \in Nat
                        /\ SumFunctionOnSet(NeededBy(h[i], i), Sharing(t)) + h[i].free[t] = tank[t]
    BY <1>1, ReservedAddsUp
  <2> QED
    BY <1>6, <2>1
<1>9. h[n].free[t] \in Nat
  <2> HIDE DEF n
  <2>1. h[n] \in Held
    BY <1>1, <1>6 DEF Reserved
  <2>2. h[n].free \in [Tanks -> Nat]
    BY <2>1 DEF Held
  <2> QED
    BY <2>2
<1> HIDE DEF r
<1>10. SumFunctionOnSet(r, S) = SumFunctionOnSet(g, S)
  <2>1. /\ IsFiniteSet(S) /\ \A f \in S : r[f] = g[f]
        /\ \A f \in S : g[f] \in Int
    BY <1>3, <1>5, <1>7
  <2> HIDE DEF S
  <2> QED
    BY <2>1, SumSame
<1>11. SumFunctionOnSet(g, S) <= tank[t]
  <2> DEFINE a == SumFunctionOnSet(g, S)
             b == h[n].free[t]
  <2>1. a \in Nat /\ b \in Nat /\ a + b = tank[t]
    BY <1>8, <1>9, <1>10
  <2> HIDE DEF a, b
  <2>2. a <= tank[t]
    BY <2>1
  <2> QED
    BY <2>2 DEF a
<1> QED
  BY <1>7, <1>11 DEF S

\* So a point that trades burns no more than there is.
LEMMA BurnedIsThere ==
    ASSUME TradingInv, ReadyToClear, FuelLimits \in [PoolIds -> Nat], NEW t \in Tanks
    PROVE  BurnedNow(t) \in Nat /\ BurnedNow(t) <= tank[t]
<1> DEFINE g == [f \in PoolIds |-> Produced(SaleNow(f)) * Plants[f].use]
           m == [f \in PoolIds |-> FuelLimits[f] * Plants[f].use]
           S == Sharing(t)
<1>1. IsFiniteSet(S) /\ S \subseteq PoolIds
  BY SharingIsFinite
<1>2. BurnedNow(t) = SumFunctionOnSet(g, S)
  BY Zenon DEF BurnedNow, Sharing
<1>3. input \in Inputs /\ tank \in [Tanks -> Nat]
  BY DEF ReadyToClear
<1>4. m = [f \in PoolIds |-> FuelLimits[f] * Plants[f].use]
  OBVIOUS
<1>5. ASSUME NEW f \in S PROVE g[f] \in Nat /\ m[f] \in Nat /\ g[f] <= m[f]
  <2>1. f \in PoolIds /\ Is(f, "fuel")
    BY DEF Sharing, BurnsLimitedFuel
  <2>2. ~Is(f, "renewable") /\ ~Is(f, "storage")
    BY <2>1 DEF Is
  <2>3. Offerable(FuelLimits)[f] = FuelLimits[f]
    <3> DEFINE limits == FuelLimits
    <3> HIDE DEF limits
    <3>1. Offerable(limits)[f] = limits[f]
      BY <2>1, <2>2 DEF Offerable
    <3> QED
      BY <3>1 DEF limits
  <2>4. Produced(SaleNow(f)) \in Nat /\ Produced(SaleNow(f)) <= Offerable(FuelLimits)[f]
    BY <2>1, PoolTraded
  <2>5. Plants[f].use \in Nat /\ FuelLimits[f] \in Nat
    BY <2>1, PlantAssumption DEF Is
  <2> DEFINE a == Produced(SaleNow(f))
             b == FuelLimits[f]
             c == Plants[f].use
  <2>6. a \in Nat /\ b \in Nat /\ c \in Nat /\ a <= b /\ g[f] = a * c /\ m[f] = b * c
    BY <2>1, <2>3, <2>4, <2>5
  <2> HIDE DEF a, b, c, g, m
  <2>7. a * c \in Nat /\ b * c \in Nat /\ a * c <= b * c
    BY <2>6, SMT
  <2> QED
    BY <2>6, <2>7
<1> HIDE DEF g, m
<1>6. SumFunctionOnSet(m, S) <= tank[t]
  BY <1>3, <1>4, LimitsFitTheStock DEF S
<1> HIDE DEF S
<1>7. SumFunctionOnSet(g, S) <= SumFunctionOnSet(m, S)
  BY <1>1, <1>5, SumNoMore
<1>8. SumFunctionOnSet(g, S) \in Nat /\ SumFunctionOnSet(m, S) \in Nat
  BY <1>1, <1>5, SumOfNaturals
<1>9. tank[t] \in Nat
  BY <1>3
<1> QED
  BY <1>2, <1>6, <1>7, <1>8, <1>9

\* What a pool may offer stays as its turn left it, and what is left of a stock only falls.
LEMMA LimitsLast ==
    ASSUME NEW h, NEW n, Reserved(h, n)
    PROVE  \A i \in 0..n : \A j \in 0..i :
              /\ j >= 1 => h[i].limit[FuelPools[j]] = h[j].limit[FuelPools[j]]
              /\ \A t \in Tanks : h[i].free[t] <= h[j].free[t]
<1> DEFINE Kept(i, j) ==
              /\ j >= 1 => h[i].limit[FuelPools[j]] = h[j].limit[FuelPools[j]]
              /\ \A t \in Tanks : h[i].free[t] <= h[j].free[t]
           G == { i \in 0..n : \A j \in 0..i : Kept(i, j) }
<1>1. /\ n \in Nat /\ FuelPools \in [1..n -> Burning]
      /\ \A j, k \in 1..n : FuelPools[j] = FuelPools[k] => j = k
      /\ \A i \in 0..n : h[i].free \in [Tanks -> Nat] /\ h[i].limit \in [PoolIds -> Nat]
  <2>1. InTurnOf(FuelPools, n)
    BY FuelPoolsInTurn DEF Reserved
  <2> QED
    BY <2>1 DEF InTurnOf, Reserved, Held
<1>2. \A i \in 0..n : Kept(i, i)
  BY <1>1
<1>3. 0 \in G
  <2>1. \A j \in 0..0 : j = 0
    OBVIOUS
  <2>2. 0 \in 0..n
    BY <1>1
  <2> HIDE DEF Kept
  <2> QED
    BY <1>2, <2>1, <2>2
<1>4. ASSUME NEW i \in 1..n, i - 1 \in G PROVE i \in G
  <2>1. i \in 0..n /\ i - 1 \in 0..n
    BY <1>1
  <2> DEFINE held == h[i - 1]
             after == h[i]
             f == FuelPools[i]
  <2>2. TakesTurn(held, after, f)
    BY TurnTaken
  <2>3. held.free \in [Tanks -> Nat] /\ after.free \in [Tanks -> Nat]
    BY <1>1, <2>1
  <2> HIDE DEF held, after, f
  <2>4. PICK most \in Nat :
           /\ after.limit = [held.limit EXCEPT ![f] = most]
           /\ most * Plants[f].use \in Nat
           /\ after.free = [held.free EXCEPT
                              ![TankOf(f)] = held.free[TankOf(f)] - most * Plants[f].use]
    BY <2>2 DEF TakesTurn
  <2>5. /\ held.limit \in [PoolIds -> Nat]
        /\ \A x \in PoolIds : x # f => after.limit[x] = held.limit[x]
    BY <2>2, <2>4 DEF TakesTurn, Held
  <2>6. \A t \in Tanks : after.free[t] <= held.free[t]
    <3> SUFFICES ASSUME NEW t \in Tanks PROVE after.free[t] <= held.free[t]
      OBVIOUS
    <3> DEFINE a == held.free[t]
               need == most * Plants[f].use
    <3>1. a \in Nat /\ need \in Nat /\ (after.free[t] = a \/ after.free[t] = a - need)
      BY <2>3, <2>4
    <3> HIDE DEF a, need
    <3>2. after.free[t] <= a
      BY <3>1
    <3> QED
      BY <3>2 DEF a
  <2>7. ASSUME NEW j \in 0..(i - 1) PROVE Kept(i, j)
    <3>1. j \in 0..n /\ Kept(i - 1, j)
      <4>1. j \in 0..n
        BY <1>1
      <4> HIDE DEF Kept
      <4> QED
        BY <1>4, <4>1
    <3>2. j >= 1 => after.limit[FuelPools[j]] = held.limit[FuelPools[j]]
      <4> SUFFICES ASSUME j >= 1 PROVE after.limit[FuelPools[j]] = held.limit[FuelPools[j]]
        OBVIOUS
      <4>1. j \in 1..n /\ j # i
        BY <1>1
      <4>2. FuelPools[j] # f /\ FuelPools[j] \in PoolIds
        BY <1>1, <4>1 DEF f, Burning
      <4> QED
        BY <2>5, <4>2
    <3>3. \A t \in Tanks : /\ after.free[t] <= held.free[t] /\ held.free[t] <= h[j].free[t]
                           /\ after.free[t] \in Nat /\ held.free[t] \in Nat /\ h[j].free[t] \in Nat
      BY <1>1, <2>3, <2>6, <3>1 DEF held
    <3>4. \A t \in Tanks : after.free[t] <= h[j].free[t]
      BY <3>3
    <3> QED
      BY <3>1, <3>2, <3>4 DEF held, after
  <2>8. \A j \in 0..i : j = i \/ j \in 0..(i - 1)
    OBVIOUS
  <2> HIDE DEF Kept
  <2>9. \A j \in 0..i : Kept(i, j)
    BY <1>2, <2>1, <2>7, <2>8
  <2> QED
    BY <2>1, <2>9
<1>5. \A i \in 0..n : i \in G
  <2> HIDE DEF G
  <2> QED
    BY <1>1, <1>3, <1>4, CountingInduction
<1> QED
  BY <1>5

\* A pool that may offer less than it can for want of fuel leaves too little of it for one
\* unit, whoever of the same stock has their turn later.
LEMMA CheaperTakesFirst ==
    ASSUME input \in Inputs, tank \in [Tanks -> Nat],
           NEW f \in Burning, NEW g \in Burning, TankOf(f) = TankOf(g), Cheaper(f, g),
           FuelLimits[f] < Plants[f].power
    PROVE  FuelLimits[g] * Plants[g].use < Plants[f].use
<1> DEFINE n == Cardinality(Burning)
           t == TankOf(f)
<1>1. PICK h : Reserved(h, n) /\ FuelLimits = h[n].limit
  BY LimitsAreReserved DEF Reserved
<1>2. InTurnOf(FuelPools, n)
  BY FuelPoolsInTurn
<1> HIDE DEF n
<1>3. PICK a \in 1..n : FuelPools[a] = f
  BY <1>2 DEF InTurnOf
<1>4. PICK b \in 1..n : FuelPools[b] = g
  BY <1>2 DEF InTurnOf
<1>5. n \in Nat /\ a \in 0..n /\ b \in 0..n /\ b - 1 \in 0..n /\ n \in 0..n
  BY <1>2 DEF InTurnOf
<1>6. f \in PoolIds /\ g \in PoolIds /\ f \in Int /\ g \in Int
  BY PlantAssumption DEF Burning
<1>7. input.sell[f] \in Int /\ input.sell[g] \in Int
  BY <1>6, InputIs, PricesSuitBooks
<1>8. a < b
  <2>1. f # g /\ ~Cheaper(g, f)
    BY <1>6, <1>7 DEF Cheaper
  <2>2. ~(b < a) /\ a # b
    BY <1>2, <1>3, <1>4, <2>1 DEF InTurnOf
  <2> QED
    BY <2>2
<1>9. a \in 0..n /\ a \in 0..(b - 1) /\ b \in 0..n /\ a >= 1 /\ b >= 1
  BY <1>5, <1>8
<1>10. /\ h[n].limit[f] = h[a].limit[f] /\ h[n].limit[g] = h[b].limit[g]
       /\ \A u \in Tanks : h[b - 1].free[u] <= h[a].free[u]
  BY <1>1, <1>3, <1>4, <1>5, <1>9, LimitsLast
<1>11. TakesTurn(h[a - 1], h[a], f) /\ TakesTurn(h[b - 1], h[b], g)
  BY <1>1, <1>3, <1>4, TurnTaken
<1> DEFINE before == h[a - 1]
           short == h[a]
           held == h[b - 1]
           after == h[b]
<1>12. /\ TakesTurn(before, short, f) /\ TakesTurn(held, after, g)
       /\ short.limit[f] < Plants[f].power /\ FuelLimits[g] = after.limit[g]
       /\ held.free[t] <= short.free[t]
  <2>1. t \in Tanks
    BY <1>11 DEF TakesTurn
  <2> QED
    BY <1>1, <1>10, <1>11, <2>1
<1> HIDE DEF before, short, held, after
<1>13. /\ t \in Tanks /\ before \in Held /\ short \in Held /\ held \in Held
       /\ Plants[f].use \in Nat
  BY <1>12 DEF TakesTurn
<1>14. short.free[t] < Plants[f].use /\ short.free[t] \in Nat /\ held.free[t] \in Nat
  <2>1. PICK most \in Nat :
           /\ short.limit = [before.limit EXCEPT ![f] = most]
           /\ most < Plants[f].power => short.free[t] < Plants[f].use
    BY <1>12 DEF TakesTurn
  <2>2. short.limit[f] = most
    BY <1>6, <1>13, <2>1 DEF Held
  <2> QED
    BY <1>12, <1>13, <2>1, <2>2 DEF Held
<1>15. PICK most \in Nat :
          /\ after.limit = [held.limit EXCEPT ![g] = most]
          /\ most * Plants[g].use \in Nat
          /\ most * Plants[g].use <= held.free[TankOf(g)]
  BY <1>12 DEF TakesTurn
<1>16. after.limit[g] = most
  BY <1>6, <1>13, <1>15 DEF Held
<1> DEFINE need == most * Plants[g].use
<1>17. need \in Nat /\ need <= held.free[t] /\ FuelLimits[g] * Plants[g].use = need
  BY <1>12, <1>15, <1>16
<1> HIDE DEF need
<1>18. need < Plants[f].use
  BY <1>12, <1>13, <1>14, <1>17
<1> QED
  BY <1>17, <1>18

-----------------------------------------------------------------------------
(***************************************************************************)
(* What is burned, and what is left.                                       *)
(***************************************************************************)
\* What a point of the record burned of a stock.
BurnedAt(r, t) == SumFunctionOnSet([f \in PoolIds |-> r.produced[f] * Plants[f].use], Sharing(t))

\* A point's offers share the fuel that there is: the cheapest first.
SharesFuel(r) ==
    \A f, g \in PoolIds :
       /\ r.state = "trade" /\ input.manual
       /\ Is(f, "fuel") /\ Is(g, "fuel") /\ TankOf(f) = TankOf(g)
       /\ Cheaper(f, g)
       /\ r.offered[f] < Plants[f].power
       => r.offered[g] * Plants[g].use < Plants[f].use

\* What a step that records a point does with fuel.
BurnsAsRecorded(r) ==
    /\ SharesFuel(r)
    /\ \A f \in PoolIds :
          Is(f, "fuel") => pool'[f].burned = pool[f].burned + r.produced[f] * Plants[f].use
    /\ input.manual => \A t \in Tanks : tank'[t] + BurnedAt(r, t) = tank[t]

\* At a point that does not trade nothing is burned.
LEMMA NothingBurns ==
    ASSUME NEW r \in PointType, r.state # "trade", \A f \in PoolIds : r.produced[f] = 0,
           tank \in [Tanks -> Nat], tank' = tank, pool \in [PoolIds -> PoolType],
           \A f \in PoolIds : pool'[f].burned = pool[f].burned
    PROVE  BurnsAsRecorded(r)
<1>1. SharesFuel(r)
  BY DEF SharesFuel
<1>2. ASSUME NEW f \in PoolIds, Is(f, "fuel")
      PROVE  /\ Plants[f].use \in Nat /\ pool[f].burned \in Nat
             /\ r.produced[f] * Plants[f].use = 0
  <2>1. Plants[f].use \in Nat /\ pool[f].burned \in Nat
    BY <1>2, PlantAssumption DEF Is, PoolType
  <2>2. r.produced[f] = 0
    OBVIOUS
  <2> QED
    BY <2>1, <2>2
<1>3. ASSUME NEW t \in Tanks PROVE tank'[t] + BurnedAt(r, t) = tank[t]
  <2> DEFINE g == [f \in PoolIds |-> r.produced[f] * Plants[f].use]
             S == Sharing(t)
  <2>1. IsFiniteSet(S) /\ \A f \in S : f \in PoolIds /\ Is(f, "fuel")
    BY SharingIsFinite DEF Sharing, BurnsLimitedFuel
  <2>2. \A f \in S : g[f] = 0
    BY <1>2, <2>1
  <2>3. BurnedAt(r, t) = SumFunctionOnSet(g, S)
    BY DEF BurnedAt
  <2> HIDE DEF g, S
  <2>4. BurnedAt(r, t) = 0
    BY <2>1, <2>2, <2>3, SumOfZeroes
  <2>5. tank[t] \in Nat
    OBVIOUS
  <2> QED
    BY <2>4, <2>5
<1> QED
  BY <1>1, <1>2, <1>3 DEF BurnsAsRecorded

\* A point that trades burns what its pools produce, and they offer what fuel lets them.
LEMMA TradeBurns ==
    ASSUME TradingInv, Trade
    PROVE  BurnsAsRecorded(PointNow)
<1> DEFINE r == PointNow
<1>1. /\ ReadyToClear /\ FuelLimits \in [PoolIds -> Nat]
      /\ pool' = [f \in PoolIds |-> PoolNow(f)]
      /\ tank' = [t \in Tanks |-> AtLeast(0, tank[t] - BurnedNow(t))]
  BY TradeIs
<1>2. input \in Inputs /\ tank \in [Tanks -> Nat]
  BY <1>1 DEF ReadyToClear
<1>3. /\ r.offered = [f \in PoolIds |-> EntryOf(SettledNow.offers, f, [capacity |-> 0]).capacity]
      /\ r.produced = [f \in PoolIds |-> Produced(SaleNow(f))]
  BY DEF PointNow, PointCleared, SaleNow
<1>4. ASSUME NEW f \in PoolIds, Is(f, "fuel") PROVE r.offered[f] = FuelLimits[f]
  <2> DEFINE c == ClearingNow
             limits == FuelLimits
  <2>1. c = ClearMarket(BookWith(limits)) /\ limits \in [PoolIds -> Nat]
    BY <1>1, Zenon DEF ClearingNow
  <2>2. SettledNow.offers = c.offers
    BY <1>1, SettledPriceIs DEF ClearingNow, SettledNow
  <2> HIDE DEF c, limits, r
  <2>3. EntryOf(c.offers, f, [capacity |-> 0]).capacity = Offerable(limits)[f]
    BY <1>1, <2>1, PointsOffers
  <2>4. ~Is(f, "renewable") /\ ~Is(f, "storage")
    BY <1>4 DEF Is
  <2>5. Offerable(limits)[f] = limits[f]
    BY <2>4 DEF Offerable
  <2>6. r.offered[f] = limits[f]
    BY <1>3, <2>2, <2>3, <2>5
  <2> QED
    BY <2>6 DEF limits
<1>5. SharesFuel(r)
  <2> SUFFICES ASSUME NEW f \in PoolIds, NEW g \in PoolIds, input.manual,
                      Is(f, "fuel"), Is(g, "fuel"), TankOf(f) = TankOf(g),
                      Cheaper(f, g), r.offered[f] < Plants[f].power
               PROVE  r.offered[g] * Plants[g].use < Plants[f].use
    BY DEF SharesFuel
  <2>1. f \in Burning /\ g \in Burning
    BY DEF Burning, BurnsLimitedFuel
  <2>2. r.offered[f] = FuelLimits[f] /\ r.offered[g] = FuelLimits[g]
    BY <1>4
  <2> HIDE DEF r
  <2> QED
    BY <1>2, <2>1, <2>2, CheaperTakesFirst
<1>6. ASSUME NEW f \in PoolIds, Is(f, "fuel")
      PROVE  pool'[f].burned = pool[f].burned + r.produced[f] * Plants[f].use
  <2>1. pool'[f] = PoolNow(f) /\ r.produced[f] = Produced(SaleNow(f))
    BY <1>1, <1>3
  <2>2. PoolNow(f).burned = pool[f].burned + Produced(SaleNow(f)) * Plants[f].use
    BY <1>1, <1>6, PoolTraded
  <2> HIDE DEF r
  <2> QED
    BY <2>1, <2>2
<1>7. ASSUME NEW t \in Tanks PROVE tank'[t] + BurnedAt(r, t) = tank[t]
  <2>1. [f \in PoolIds |-> r.produced[f] * Plants[f].use]
           = [f \in PoolIds |-> Produced(SaleNow(f)) * Plants[f].use]
    BY <1>3
  <2>2. BurnedAt(r, t) = BurnedNow(t)
    <3> HIDE DEF r
    <3> QED
      BY <2>1, Zenon DEF BurnedAt, BurnedNow, Sharing
  <2> DEFINE b == BurnedNow(t)
             l == tank[t]
  <2>3. b \in Nat /\ b <= l /\ l \in Nat
    BY <1>1, <1>2, BurnedIsThere
  <2>4. tank'[t] = AtLeast(0, l - b)
    BY <1>1
  <2> HIDE DEF b, l, r
  <2>5. tank'[t] + b = l
    BY <2>3, <2>4 DEF AtLeast
  <2> QED
    BY <2>2, <2>5 DEF b, l
<1> QED
  BY <1>5, <1>6, <1>7 DEF BurnsAsRecorded

\* Whatever point is recorded, fuel is burned as it says.
LEMMA PointBurns ==
    ASSUME TradingInv, StayDown \/ GoDown \/ Trade, NEW r, AddsPoint(r)
    PROVE  BurnsAsRecorded(r)
<1>1. /\ record \in Seq(PointType) /\ pool \in [PoolIds -> PoolType] /\ Len(record) = point
      /\ point \in Nat /\ tank \in [Tanks -> Nat]
  BY DEF TradingInv, SimulationFits
<1>2. record' = Append(record, r) /\ r \in PointType
  BY DEF AddsPoint, PointFits
<1>3. \A q : record' = Append(record, q) => q = r
  <2> SUFFICES ASSUME NEW q, record' = Append(record, q) PROVE q = r
    OBVIOUS
  <2>1. Append(record, q)[Len(record) + 1] = q /\ Append(record, r)[Len(record) + 1] = r
    BY <1>1
  <2> QED
    BY <1>2, <2>1
<1>4. r.state # "trade" => \A f \in PoolIds : r.produced[f] = 0
  BY DEF AddsPoint, PointFits
<1>5. CASE StayDown
  <2>1. /\ PointDown(pool).state = "down" /\ record' = Append(record, PointDown(pool))
        /\ pool' = pool /\ tank' = tank
    BY <1>5, DownPoint DEF StayDown
  <2>2. r.state # "trade"
    BY <1>3, <2>1
  <2> QED
    BY <1>1, <1>2, <1>4, <2>1, <2>2, NothingBurns
<1>6. CASE GoDown
  <2>1. r.state # "trade"
    <3>1. PICK q : record' = Append(record, q) /\ q.state = "blackout"
      BY <1>6, BlackoutPoint
    <3> QED
      BY <1>3, <3>1
  <2> DEFINE limits == FuelLimits
             c == ClearMarket(BookWith(limits))
  <2>2. pool' = [f \in PoolIds |-> NoteRunOut(limits, c, f, pool[f])] /\ tank' = tank
    BY <1>6 DEF GoDown
  <2> HIDE DEF limits, c
  <2>3. ASSUME NEW f \in PoolIds PROVE pool'[f].burned = pool[f].burned
    <3> DEFINE before == pool[f]
               after == pool'[f]
    <3>1. before \in PoolType /\ after = NoteRunOut(limits, c, f, before)
      BY <1>1, <2>2
    <3> HIDE DEF before, after
    <3>2. after.burned = before.burned
      BY <3>1, NotedPoolIs
    <3> QED
      BY <3>2 DEF before, after
  <2> QED
    BY <1>1, <1>2, <1>4, <2>1, <2>2, <2>3, NothingBurns
<1>7. CASE Trade
  <2>1. record' = Append(record, PointNow)
    BY <1>7, TradeIs
  <2>2. PointNow = r
    BY <1>3, <2>1
  <2>3. BurnsAsRecorded(PointNow)
    BY <1>7, TradeBurns
  <2> QED
    BY <2>2, <2>3
<1> QED
  BY <1>5, <1>6, <1>7

\* What a pool has produced at the points recorded, the pools of a stock, and what they have
\* burned of it.
ProducedAt(f)      == [k \in PointsDone |-> record[k].produced[f]]
Fueled(t)          == { f \in PoolIds : Is(f, "fuel") /\ TankOf(f) = t }
BurnedOf(pools, t) == SumFunctionOnSet([f \in PoolIds |-> pools[f].burned], Fueled(t))

\* Each pool has burned what it produced takes, and a stock is what was burned and is left.
FuelFits ==
    /\ \A f \in PoolIds :
          Is(f, "fuel") => pool[f].burned = SumFunction(ProducedAt(f)) * Plants[f].use
    /\ input.manual => \A t \in Tanks : BurnedOf(pool, t) + tank[t] = FullTanks[t]

FuelInv == FuelFits /\ CheaperOfferGetsTheFuel

\* There are finitely many pools of a stock; they are those that share it, if it is limited.
LEMMA FueledAre ==
    /\ \A t : IsFiniteSet(Fueled(t)) /\ Fueled(t) \subseteq PoolIds
    /\ input.manual => \A t : Fueled(t) = Sharing(t)
<1>1. ASSUME NEW t PROVE IsFiniteSet(Fueled(t)) /\ Fueled(t) \subseteq PoolIds
  <2> DEFINE S == PoolIds
             T == Fueled(t)
  <2>1. T \in SUBSET S /\ IsFiniteSet(S)
    BY PoolsAreFinite DEF Fueled
  <2> HIDE DEF S, T
  <2>2. IsFiniteSet(T)
    BY <2>1, FS_Subset
  <2> QED
    BY <2>1, <2>2 DEF S, T
<1>2. ASSUME input.manual, NEW t PROVE Fueled(t) = Sharing(t)
  BY <1>2 DEF Fueled, Sharing, BurnsLimitedFuel
<1> QED
  BY <1>1, <1>2

\* What the pools have burned is then within the stock, also scaled to the season.
LEMMA FuelFitsTheStock ==
    ASSUME TradingInv, FuelFits
    PROVE  FuelIsWithinStock
<1>1. input \in Inputs /\ tank \in [Tanks -> Nat] /\ pool \in [PoolIds -> PoolType]
  BY DEF TradingInv, SimulationFits
<1>2. ASSUME input.manual, NEW t \in Tanks
      PROVE  LET sharing == { f \in PoolIds : Is(f, "fuel") /\ TankOf(f) = t }
                 Output(f) == SumOf(PointsDone, LAMBDA k : record[k].produced[f])
                 burned  == SumOf(sharing, LAMBDA f : Output(f) * Plants[f].use)
             IN  /\ burned + tank[t] = FullTanks[t]
                 /\ burned = SumOf(sharing, LAMBDA f : pool[f].burned)
                 /\ burned * Scale <= input.fuel[t]
  <2> DEFINE sharing == { f \in PoolIds : Is(f, "fuel") /\ TankOf(f) = t }
             Output(f) == SumOf(PointsDone, LAMBDA k : record[k].produced[f])
             burned  == SumOf(sharing, LAMBDA f : Output(f) * Plants[f].use)
             used    == SumOf(sharing, LAMBDA f : pool[f].burned)
             g == [f \in sharing |-> Output(f) * Plants[f].use]
             h == [f \in sharing |-> pool[f].burned]
             p == [f \in PoolIds |-> pool[f].burned]
  <2>1. sharing = Fueled(t) /\ IsFiniteSet(sharing) /\ sharing \subseteq PoolIds
    BY FueledAre DEF Fueled
  <2>2. \A f : Output(f) = SumFunction(ProducedAt(f))
    BY Zenon DEF SumOf, ProducedAt
  <2>3. burned = SumFunction(g) /\ used = SumFunction(h)
    BY Zenon DEF SumOf
  <2>4. \A f \in sharing : f \in PoolIds /\ Is(f, "fuel")
    OBVIOUS
  <2> HIDE DEF sharing, Output
  <2>5. \A f \in sharing : Output(f) * Plants[f].use = pool[f].burned
    BY <2>2, <2>4 DEF FuelFits
  <2>6. g = h
    BY <2>5
  <2>7. \A f \in sharing : p[f] \in Nat /\ h[f] = p[f]
    BY <1>1, <2>1 DEF PoolType
  <2>8. BurnedOf(pool, t) = SumFunctionOnSet(p, sharing)
    BY <2>1, Zenon DEF BurnedOf
  <2>9. DOMAIN h = sharing
    OBVIOUS
  <2> HIDE DEF g, h, p, burned, used
  <2>10. SumFunctionOnSet(h, sharing) = SumFunctionOnSet(p, sharing)
    BY <2>1, <2>7, SumSame
  <2>11. SumFunctionOnSet(p, sharing) \in Nat
    BY <2>1, <2>7, SumOfNaturals
  <2>12. burned = used /\ used = BurnedOf(pool, t) /\ used \in Nat
    BY <2>3, <2>6, <2>8, <2>9, <2>10, <2>11 DEF SumFunction
  <2>13. BurnedOf(pool, t) + tank[t] = FullTanks[t] /\ tank[t] \in Nat
    BY <1>1, <1>2 DEF FuelFits
  <2>14. /\ FullTanks[t] \in Nat /\ Scale \in Nat \ {0} /\ FullTanks[t] * Scale <= input.fuel[t]
         /\ input.fuel[t] \in Int
    BY <1>1, FullTanksAre, InputIs
  <2> DEFINE a == used
             b == FullTanks[t]
             c == Scale
             d == input.fuel[t]
  <2>15. a \in Nat /\ b \in Nat /\ c \in Nat /\ d \in Int /\ a <= b /\ b * c <= d
    BY <2>12, <2>13, <2>14
  <2> HIDE DEF a, b, c, d
  <2>16. a * c \in Nat /\ b * c \in Nat /\ a * c <= b * c
    BY <2>15, SMT
  <2>17. a * c <= d
    BY <2>15, <2>16
  <2>18. /\ burned + tank[t] = FullTanks[t] /\ burned = used /\ burned * Scale <= input.fuel[t]
    BY <2>12, <2>13, <2>17 DEF a, c, d
  <2> QED
    BY <2>18, Zenon DEF burned, used, sharing, Output
<1> QED
  BY <1>2, Zenon DEF FuelIsWithinStock

\* A step that records a point keeps the stock in balance.
LEMMA FuelGrows ==
    ASSUME TradingInv, FuelInv, StayDown \/ GoDown \/ Trade
    PROVE  FuelInv'
<1>1. PICK r : AddsPoint(r) /\ (StaysAsIs(r) \/ BreaksDown(r))
  BY StepsThatAdd
<1>2. BurnsAsRecorded(r)
  BY <1>1, PointBurns
<1>3. /\ point \in Nat /\ point' = point + 1 /\ r \in PointType
      /\ DOMAIN record = 1..point /\ DOMAIN record' = 1..point'
      /\ \A k \in 1..point : record'[k] = record[k]
      /\ record'[point + 1] = r
  BY <1>1, RecordGrows
<1>4. /\ input' = input /\ pool \in [PoolIds -> PoolType] /\ pool' \in [PoolIds -> PoolType]
      /\ tank \in [Tanks -> Nat] /\ tank' \in [Tanks -> Nat] /\ input \in Inputs
  BY <1>1 DEF AddsPoint, PointFits, TradingInv, SimulationFits
<1>5. \A k \in 1..point : record[k] \in PointType
  <2>1. record \in Seq(PointType)
    BY DEF TradingInv, SimulationFits
  <2> QED
    BY <1>3, <2>1
<1>6. ASSUME NEW f \in PoolIds, Is(f, "fuel")
      PROVE  pool'[f].burned = SumFunction(ProducedAt(f))' * Plants[f].use
  <2> DEFINE n == point
             g == ProducedAt(f)
             h == ProducedAt(f)'
  <2>1. /\ DOMAIN g = 1..n /\ DOMAIN h = 1..(n + 1)
        /\ \A k \in 1..n : g[k] = record[k].produced[f]
        /\ \A k \in 1..(n + 1) : h[k] = record'[k].produced[f]
    <3>1. g = [k \in DOMAIN record |-> record[k].produced[f]]
      BY DEF ProducedAt, PointsDone
    <3>2. h = [k \in DOMAIN record' |-> record'[k].produced[f]]
      BY Zenon DEF ProducedAt, PointsDone
    <3>3. DOMAIN record = 1..n /\ DOMAIN record' = 1..(n + 1)
      BY <1>3
    <3> HIDE DEF g, h, n
    <3> QED
      BY <3>1, <3>2, <3>3
  <2> HIDE DEF g, h
  <2>2. \A k \in 1..n : g[k] \in Nat /\ h[k] = g[k]
    <3> SUFFICES ASSUME NEW k \in 1..n PROVE g[k] \in Nat /\ h[k] = g[k]
      OBVIOUS
    <3>1. record[k] \in PointType
      BY <1>5
    <3>2. record[k].produced \in [PoolIds -> Nat]
      BY <3>1 DEF PointType
    <3>3. n \in Nat /\ record'[k] = record[k]
      BY <1>3
    <3> HIDE DEF n
    <3>4. k \in 1..(n + 1)
      BY <3>3
    <3>5. g[k] = record[k].produced[f] /\ h[k] = record'[k].produced[f]
      BY <2>1, <3>4
    <3> QED
      BY <3>2, <3>3, <3>5
  <2>3. h[n + 1] = r.produced[f] /\ r.produced[f] \in Nat
    <3>1. n + 1 \in 1..(n + 1) /\ r.produced \in [PoolIds -> Nat]
      BY <1>3 DEF PointType
    <3> QED
      BY <1>3, <2>1, <3>1
  <2>4. n \in Nat
    BY <1>3
  <2> HIDE DEF n
  <2>5. \A k \in 1..n : g[k] \in Int
    BY <2>2
  <2>6. SumFunction(g) \in Int /\ SumFunction(h) = SumFunction(g) + h[n + 1]
    BY <2>1, <2>2, <2>3, <2>4, <2>5, SumOneMore
  <2>7. pool[f].burned = SumFunction(g) * Plants[f].use
    BY <1>6 DEF FuelInv, FuelFits, g
  <2>8. pool'[f].burned = pool[f].burned + r.produced[f] * Plants[f].use
    BY <1>2, <1>6 DEF BurnsAsRecorded
  <2>9. Plants[f].use \in Nat
    BY <1>6, PlantAssumption DEF Is
  <2> DEFINE a == SumFunction(g)
             b == r.produced[f]
             c == Plants[f].use
             d == SumFunction(h)
  <2>10. a \in Int /\ b \in Int /\ c \in Int /\ d = a + b /\ pool'[f].burned = a * c + b * c
    BY <2>3, <2>6, <2>7, <2>8, <2>9
  <2> HIDE DEF a, b, c, d
  <2>11. (a + b) * c = a * c + b * c
    BY <2>10, SMT
  <2>12. pool'[f].burned = d * c
    BY <2>10, <2>11
  <2> QED
    BY <2>12, Zenon DEF d, c, h
<1>7. ASSUME input.manual, NEW t \in Tanks
      PROVE  BurnedOf(pool', t) + tank'[t] = FullTanks[t]
  <2> DEFINE S == Fueled(t)
             before == [f \in PoolIds |-> pool[f].burned]
             after == [f \in PoolIds |-> pool'[f].burned]
             more == [f \in PoolIds |-> r.produced[f] * Plants[f].use]
  <2>1. IsFiniteSet(S) /\ S \subseteq PoolIds /\ S = Sharing(t)
    BY <1>7, FueledAre
  <2>2. /\ BurnedOf(pool, t) = SumFunctionOnSet(before, S)
        /\ BurnedOf(pool', t) = SumFunctionOnSet(after, S)
    BY Zenon DEF BurnedOf
  <2>3. BurnedAt(r, t) = SumFunctionOnSet(more, S)
    BY <2>1, Zenon DEF BurnedAt
  <2>4. ASSUME NEW f \in S
        PROVE  before[f] \in Nat /\ more[f] \in Nat /\ after[f] = before[f] + more[f]
    <3>1. f \in PoolIds /\ Is(f, "fuel")
      BY DEF Fueled
    <3>2. pool[f].burned \in Nat
      BY <1>4, <3>1 DEF PoolType
    <3>3. r.produced[f] \in Nat /\ Plants[f].use \in Nat
      BY <1>3, <3>1, PlantAssumption DEF PointType, Is
    <3> DEFINE a == r.produced[f]
               b == Plants[f].use
    <3>4. a \in Nat /\ b \in Nat /\ more[f] = a * b
      BY <3>1, <3>3
    <3>5. pool'[f].burned = pool[f].burned + a * b
      BY <1>2, <3>1 DEF BurnsAsRecorded
    <3>6. after[f] = before[f] + a * b /\ before[f] \in Nat
      BY <3>1, <3>2, <3>5
    <3> HIDE DEF a, b, before, after, more
    <3>7. a * b \in Nat
      BY <3>4
    <3> QED
      BY <3>4, <3>6, <3>7
  <2> HIDE DEF S, before, after, more
  <2>5. SumFunctionOnSet(after, S) = SumFunctionOnSet(before, S) + SumFunctionOnSet(more, S)
    BY <2>1, <2>4, SumOfSums
  <2>6. SumFunctionOnSet(before, S) \in Nat /\ SumFunctionOnSet(more, S) \in Nat
    BY <2>1, <2>4, SumOfNaturals
  <2>7. tank'[t] + BurnedAt(r, t) = tank[t] /\ tank[t] \in Nat /\ tank'[t] \in Nat
    BY <1>2, <1>4, <1>7 DEF BurnsAsRecorded
  <2>8. BurnedOf(pool, t) + tank[t] = FullTanks[t]
    BY <1>7 DEF FuelInv, FuelFits
  <2> DEFINE x == tank[t]
             y == tank'[t]
             u == SumFunctionOnSet(before, S)
             v == SumFunctionOnSet(more, S)
             w == SumFunctionOnSet(after, S)
  <2>9. /\ x \in Nat /\ y \in Nat /\ u \in Nat /\ v \in Nat /\ w = u + v /\ y + v = x
        /\ u + x = FullTanks[t] /\ BurnedOf(pool', t) = w
    BY <2>2, <2>3, <2>5, <2>6, <2>7, <2>8
  <2> HIDE DEF x, y, u, v, w
  <2>10. w + y = u + x
    BY <2>9
  <2> QED
    BY <2>9, <2>10 DEF y
<1>8. FullTanks' = FullTanks /\ input'.manual = input.manual
  BY <1>4 DEF FullTanks, Scale
<1>9. FuelFits'
  <2>1. \A f \in PoolIds :
           Is(f, "fuel") => pool'[f].burned = SumFunction(ProducedAt(f))' * Plants[f].use
    BY <1>6
  <2>2. input'.manual => \A t \in Tanks : BurnedOf(pool', t) + tank'[t] = FullTanks'[t]
    BY <1>7, <1>8
  <2>3. \A t : BurnedOf(pool, t)' = BurnedOf(pool', t)
    BY Zenon DEF BurnedOf
  <2> QED
    BY <2>1, <2>2, <2>3, Zenon DEF FuelFits
<1>10. \A f, g \in PoolIds : Cheaper(f, g)' <=> Cheaper(f, g)
  BY <1>4 DEF Cheaper
<1>11. \A k \in 1..point : SharesFuel(record[k])
  BY <1>3 DEF FuelInv, CheaperOfferGetsTheFuel, SharesFuel, PointsDone, Did
<1>12. \A k \in 1..(point + 1) : SharesFuel(record'[k])
  <2>1. \A k \in 1..(point + 1) : k \in 1..point \/ k = point + 1
    BY <1>3
  <2>2. SharesFuel(r)
    BY <1>2 DEF BurnsAsRecorded
  <2> QED
    BY <1>3, <1>11, <2>1, <2>2
<1>13. CheaperOfferGetsTheFuel'
  <2>1. PointsDone' = 1..(point + 1)
    BY <1>3 DEF PointsDone
  <2> QED
    BY <1>8, <1>10, <1>12, <2>1, Zenon DEF CheaperOfferGetsTheFuel, SharesFuel, Did
<1> QED
  BY <1>9, <1>13 DEF FuelInv

\* A pass starts with full stocks, and nothing burned or recorded.
NothingBurned ==
    /\ record = <<>> /\ input \in Inputs /\ tank = FullTanks
    /\ \A f \in PoolIds : pool[f].burned = 0

\* Nothing is missing of a stock when nothing is burned.
LEMMA FuelStarts == NothingBurned => FuelInv
<1> SUFFICES ASSUME NothingBurned PROVE FuelInv
  OBVIOUS
<1>1. PointsDone = {}
  BY DEF NothingBurned, PointsDone
<1>2. CheaperOfferGetsTheFuel
  BY <1>1 DEF CheaperOfferGetsTheFuel
<1>3. ASSUME NEW f \in PoolIds, Is(f, "fuel")
      PROVE  pool[f].burned = SumFunction(ProducedAt(f)) * Plants[f].use
  <2> DEFINE g == ProducedAt(f)
  <2>1. DOMAIN g = {}
    BY <1>1 DEF ProducedAt
  <2> HIDE DEF g
  <2>2. SumFunction(g) = 0
    BY <2>1, SumOfNothing
  <2>3. Plants[f].use \in Nat /\ pool[f].burned = 0
    BY <1>3, PlantAssumption DEF Is, NothingBurned
  <2>4. 0 * Plants[f].use = 0
    BY <2>3
  <2> QED
    BY <2>2, <2>3, <2>4 DEF g
<1>4. ASSUME NEW t \in Tanks PROVE BurnedOf(pool, t) + tank[t] = FullTanks[t]
  <2> DEFINE g == [f \in PoolIds |-> pool[f].burned]
             S == Fueled(t)
  <2>1. BurnedOf(pool, t) = SumFunctionOnSet(g, S)
    BY Zenon DEF BurnedOf
  <2>2. IsFiniteSet(S) /\ S \subseteq PoolIds
    BY FueledAre
  <2>3. \A f \in S : g[f] = 0
    BY <2>2 DEF NothingBurned
  <2> HIDE DEF g, S
  <2>4. BurnedOf(pool, t) = 0
    BY <2>1, <2>2, <2>3, SumOfZeroes
  <2>5. tank[t] = FullTanks[t] /\ FullTanks[t] \in Nat
    BY FullTanksAre DEF NothingBurned
  <2> QED
    BY <2>4, <2>5
<1>5. FuelFits
  BY <1>3, <1>4 DEF FuelFits
<1> QED
  BY <1>2, <1>5 DEF FuelInv

\* The stocks are in balance all along a simulation.
LEMMA SimulationKeepsFuel == Spec => [](TradingInv /\ FuelInv)
<1>1. Init => TradingInv /\ FuelInv
  <2> SUFFICES ASSUME Init PROVE TradingInv /\ FuelInv
    OBVIOUS
  <2>1. TradingInv
    BY InitFits, StartFits
  <2> DEFINE held(f) == IF input.fullSeason THEN input.stored[f] ELSE 0
  <2>2. /\ input \in Inputs /\ record = <<>> /\ pool = [f \in PoolIds |-> NewPool(held(f))]
        /\ tank = FullTanks
    BY DEF Init
  <2>3. \A f \in PoolIds : held(f) \in Nat
    BY <2>2, InputIs
  <2> HIDE DEF held
  <2>4. NothingBurned
    BY <2>2, <2>3, NewPoolIs DEF NothingBurned
  <2> QED
    BY <2>1, <2>4, FuelStarts
<1>2. ASSUME TradingInv, FuelInv, TradingInv', [Next]_vars
      PROVE  FuelInv'
  <2>1. CASE StayDown \/ GoDown \/ Trade
    BY <1>2, <2>1, FuelGrows
  <2>2. CASE EndPass /\ pass = "warming"
    <3>1. /\ pool' = [f \in PoolIds |-> NewPool(pool[f].stored)] /\ record' = <<>>
          /\ tank' = FullTanks /\ input' = input /\ input \in Inputs
      BY <1>2, <2>2 DEF EndPass, PoolsAfresh, TradingInv, SimulationFits
    <3>2. \A f \in PoolIds : pool[f].stored \in Nat
      BY <1>2 DEF TradingInv, SimulationFits, PoolType
    <3>3. FullTanks' = FullTanks
      BY <3>1 DEF FullTanks, Scale
    <3>4. NothingBurned'
      BY <3>1, <3>2, <3>3, NewPoolIs DEF NothingBurned
    <3>5. NothingBurned' => FuelInv'
      BY FuelStarts, PTL
    <3> QED
      BY <3>4, <3>5
  <2>3. CASE (EndPass /\ pass # "warming") \/ UNCHANGED vars
    <3>1. pool' = pool /\ record' = record /\ tank' = tank /\ input' = input
      BY <2>3 DEF EndPass, vars
    <3>2. FuelFits' <=> FuelFits
      BY <3>1, Zenon DEF FuelFits, BurnedOf, ProducedAt, PointsDone, FullTanks, Scale
    <3>3. CheaperOfferGetsTheFuel' <=> CheaperOfferGetsTheFuel
      BY <3>1, Zenon DEF CheaperOfferGetsTheFuel, PointsDone, Did, Cheaper
    <3> QED
      BY <1>2, <3>2, <3>3 DEF FuelInv
  <2> QED
    BY <1>2, <2>1, <2>2, <2>3 DEF Next
<1>3. Spec => []TradingInv
  BY SimulationKeepsInv
<1> QED
  BY <1>1, <1>2, <1>3, PTL DEF Spec

-----------------------------------------------------------------------------
(***************************************************************************)
(* Whoever would have sold more with more fuel is told.                    *)
(***************************************************************************)
\* What each owner would trade at one of the prices P.
WillingBy(owners, amount, price, P) == [o \in owners |-> IF price[o] \in P THEN amount[o] ELSE 0]

\* What would trade at one of the prices P is what the owners of the entries would.
LEMMA WillingByOwner ==
    ASSUME NEW out, Stacked(out), NEW owners, IsFiniteSet(owners),
           NEW amount, amount \in [owners -> Nat], NEW price, NEW must,
           Lists(out, owners, amount, price, must), NEW P
    PROVE  /\ SumFunction(WillingAt(out, P)) \in Int
           /\ SumFunction(WillingAt(out, P))
                = SumFunctionOnSet(WillingBy(owners, amount, price, P), owners)
<1> DEFINE g == WillingAt(out, P)
           h == WillingBy(owners, amount, price, P)
           S == DOMAIN out
<1>1. /\ DOMAIN g = S
      /\ \A k \in S : g[k] = IF out[k].price \in P THEN out[k].capacity ELSE 0
      /\ \A o \in owners : h[o] = IF price[o] \in P THEN amount[o] ELSE 0
  BY DEF WillingAt, WillingBy
<1>2. IsFiniteSet(S) /\ \A k \in S : out[k].capacity \in Nat
  BY StackIsFinite, StackGrows
<1>3. /\ \A k \in S : /\ out[k].owner \in owners
                      /\ out[k].capacity = amount[out[k].owner]
                      /\ out[k].price = price[out[k].owner]
      /\ \A k, l \in S : out[k].owner = out[l].owner => k = l
      /\ \A o \in owners : amount[o] > 0 => \E k \in S : out[k].owner = o
  BY DEF Lists
<1> HIDE DEF g, h
<1>4. ASSUME NEW o \in owners
      PROVE  \/ \E k \in S : out[k].owner = o /\ h[o] = g[k]
             \/ (\A k \in S : out[k].owner # o) /\ h[o] = 0
  <2>1. CASE \E k \in S : out[k].owner = o
    <3>1. PICK k \in S : out[k].owner = o
      BY <2>1
    <3>2. h[o] = g[k]
      BY <1>1, <1>3, <3>1
    <3> QED
      BY <3>1, <3>2
  <2>2. CASE \A k \in S : out[k].owner # o
    <3>1. amount[o] \in Nat /\ ~(amount[o] > 0)
      BY <1>3, <2>2
    <3>2. h[o] = 0
      BY <1>1, <3>1
    <3> QED
      BY <2>2, <3>2
  <2> QED
    BY <2>1, <2>2
<1>5. GivesEach(out, owners, g, h)
  BY <1>3, <1>4 DEF GivesEach
<1>6. \A k \in S : g[k] \in Nat
  BY <1>1, <1>2
<1>7. SumFunctionOnSet(h, owners) = SumFunctionOnSet(g, S)
  BY <1>2, <1>5, <1>6, ListedSum
<1>8. SumFunctionOnSet(g, S) \in Nat
  <2> HIDE DEF S
  <2> QED
    BY <1>2, <1>6, SumOfNaturals
<1>9. SumFunction(g) = SumFunctionOnSet(g, S)
  BY <1>1, Zenon DEF SumFunction
<1> QED
  BY <1>7, <1>8, <1>9 DEF g, h

\* The prices above one.
PricesAbove(p) == { x \in Int : x > p }

\* A clearing in merit order, at a price that suits everyone.
Suited(c) ==
    /\ OffersInOrder(c.offers) /\ DemandsInOrder(c.demands)
    /\ c.quantity \in Nat /\ c.price \in Int
    /\ c.quantity <= Height(c.offers) /\ c.quantity <= Height(c.demands)
    /\ PriceSuits(c.offers, c.demands, c.quantity, c.price)

\* What trades at a price is all that bids above it, and no more than is offered up to it.
LEMMA TradesBetween ==
    ASSUME NEW c, Suited(c)
    PROVE  /\ SumFunction(WillingAt(c.demands, PricesAbove(c.price))) \in Int
                => SumFunction(WillingAt(c.demands, PricesAbove(c.price))) <= c.quantity
           /\ c.quantity <= SumFunction(WillingAt(c.offers, UpTo(c.price)))
<1> DEFINE A == PricesAbove(c.price)
           B == UpTo(c.price)
           q == c.quantity
           w == SumFunction(WillingAt(c.demands, A))
<1>1. /\ Stacked(c.offers) /\ Stacked(c.demands) /\ q \in Nat /\ c.price \in Int
      /\ q <= Height(c.offers) /\ q <= Height(c.demands)
      /\ PriceSuits(c.offers, c.demands, q, c.price)
  BY DEF Suited, OffersInOrder, DemandsInOrder
<1>2. /\ \A k \in DOMAIN c.offers : c.offers[k].price \in Int
      /\ \A k \in DOMAIN c.demands : c.demands[k].price \in Int
  BY <1>1, StackGrows
<1>3. \A k \in DOMAIN c.offers : Cleared(c.offers[k], q) > 0 => c.offers[k].price \in B
  BY <1>1, <1>2 DEF PriceSuits, UpTo
<1>4. \A k \in DOMAIN c.demands : ~(c.demands[k].price \in A /\ Unmet(c.demands[k], q) > 0)
  BY <1>1, <1>2 DEF PriceSuits, PricesAbove
<1> HIDE DEF A, B, q
<1>5. q <= SumFunction(WillingAt(c.offers, B))
  BY <1>1, <1>3, WillingTrade
<1>6. ~(q < w)
  BY <1>1, <1>4, WillingTrade
<1> HIDE DEF w
<1>7. w \in Int => w <= q
  BY <1>1, <1>6
<1> QED
  BY <1>5, <1>7 DEF A, B, q, w

\* All that is offered up to a price lies below an offer above it.
LEMMA CheaperLiesBelow ==
    ASSUME NEW out, OffersInOrder(out), NEW k \in DOMAIN out, NEW p \in Int, p < out[k].price,
           SumFunction(WillingAt(out, UpTo(p))) \in Int
    PROVE  SumFunction(WillingAt(out, UpTo(p))) <= Below(out[k])
<1> DEFINE B == UpTo(p)
           b == Below(out[k])
           w == SumFunction(WillingAt(out, B))
<1>1. Stacked(out) /\ \A i, j \in DOMAIN out : i < j => out[i].price <= out[j].price
  BY DEF OffersInOrder
<1>2. /\ DOMAIN out = 1..Len(out) /\ Len(out) \in Nat
      /\ \A i \in DOMAIN out : /\ out[i].price \in Int /\ out[i].cumul \in Nat
                               /\ Below(out[i]) \in Nat /\ out[i].capacity \in Nat
                               /\ out[i].cumul = Below(out[i]) + out[i].capacity
                               /\ out[i].cumul <= Height(out)
      /\ Height(out) \in Nat
      /\ \A i, j \in DOMAIN out : i < j => out[i].cumul <= Below(out[j])
  BY <1>1, StackGrows
<1>3. b \in Nat /\ b <= Height(out)
  BY <1>2
<1> HIDE DEF b
<1>4. ASSUME NEW i \in DOMAIN out, out[i].price \in B, Unmet(out[i], b) > 0
      PROVE  FALSE
  <2>1. b < out[i].cumul
    BY <1>1, <1>3, <1>4, ClearedLiesBelow
  <2>2. out[i].price <= p /\ out[i].price \in Int
    BY <1>4 DEF UpTo
  <2>3. k \in Int /\ i \in Int /\ i # k /\ ~(k < i)
    BY <1>1, <1>2, <2>2
  <2>4. i < k
    BY <2>3
  <2>5. out[i].cumul <= b
    BY <1>2, <2>4 DEF b
  <2> QED
    BY <1>2, <1>3, <2>1, <2>5
<1> HIDE DEF B
<1>5. ~(b < w)
  BY <1>1, <1>3, <1>4, WillingTrade
<1>6. w \in Int
  BY DEF B
<1> HIDE DEF w
<1>7. w <= b
  BY <1>3, <1>5, <1>6
<1> QED
  BY <1>7 DEF B, b, w

\* A point's market clears at a price that suits everyone, if there are offers and demands.
LEMMA PointSuits ==
    ASSUME ReadyToClear, NEW limits \in [PoolIds -> Nat], NEW c, c = ClearMarket(BookWith(limits))
    PROVE  /\ c.offers # <<>> /\ c.demands # <<>> => Suited(c)
           /\ c.offers = <<>> \/ c.demands = <<>> => c.quantity = 0
<1> DEFINE os == c.offers
           ds == c.demands
           optimum == MarketOptimum(os, ds)
<1>1. OffersInOrder(os) /\ DemandsInOrder(ds)
  BY PointClears
<1>2. c.quantity = optimum.quantity /\ c.price = optimum.price
  BY Zenon DEF ClearMarket
<1> HIDE DEF os, ds
<1>3. optimum = MarketOptimum(os, ds)
  OBVIOUS
<1> HIDE DEF optimum
<1>4. /\ os # <<>> /\ ds # <<>> => PriceSuits(os, ds, optimum.quantity, optimum.price)
      /\ os = <<>> \/ ds = <<>> => optimum.quantity = 0
  BY <1>1, <1>3, ClearingSuits
<1>5. /\ optimum.quantity \in Nat /\ optimum.price \in Int
      /\ optimum.quantity <= Height(os) /\ optimum.quantity <= Height(ds)
  BY <1>1, <1>3, ClearsWhatThereIs
<1>6. os # <<>> /\ ds # <<>> => Suited(c)
  BY <1>1, <1>2, <1>4, <1>5 DEF Suited, os, ds
<1> QED
  BY <1>2, <1>4, <1>6 DEF os, ds

\* The limits if one pool had all the fuel it can burn.
LimitsBut(f) == [FuelLimits EXCEPT ![f] = Plants[f].power]
ClearingBut(f) == ClearMarket(BookWith(LimitsBut(f)))

\* One pool's fuel changes what that pool offers alone.
LEMMA OffersBut ==
    ASSUME FuelLimits \in [PoolIds -> Nat], NEW f \in PoolIds
    PROVE  /\ LimitsBut(f) \in [PoolIds -> Nat]
           /\ \A g \in PoolIds \ {f} : Offerable(LimitsBut(f))[g] = Offerable(FuelLimits)[g]
<1>1. Plants[f].power \in Nat
  BY PlantAssumption
<1> DEFINE L == FuelLimits
<1>2. /\ LimitsBut(f) \in [PoolIds -> Nat]
      /\ \A g \in PoolIds \ {f} : LimitsBut(f)[g] = L[g]
  <2> HIDE DEF L
  <2>1. LimitsBut(f) = [L EXCEPT ![f] = Plants[f].power]
    BY Zenon DEF LimitsBut, L
  <2>2. L \in [PoolIds -> Nat]
    BY DEF L
  <2> QED
    BY <1>1, <2>1, <2>2
<1> HIDE DEF L
<1>3. \A g \in PoolIds \ {f} : Offerable(LimitsBut(f))[g] = Offerable(L)[g]
  BY <1>2 DEF Offerable
<1> QED
  BY <1>2, <1>3 DEF L

\* Who sells in a clearing has an offer that clears.
LEMMA SellersHaveOffers ==
    ASSUME ReadyToClear, NEW limits \in [PoolIds -> Nat], NEW c, c = ClearMarket(BookWith(limits)),
           NEW f
    PROVE  /\ SoldBy(f, limits) \in Nat
           /\ SoldBy(f, limits) > 0
                => \E k \in DOMAIN c.offers : /\ c.offers[k].owner = f
                                              /\ Cleared(c.offers[k], c.quantity) > 0
<1> DEFINE S == { k \in DOMAIN c.offers : c.offers[k].owner = f }
           g == [k \in S |-> Cleared(c.offers[k], c.quantity)]
<1>1. SoldBy(f, limits) = IF IsBlackout(c) THEN 0 ELSE SumFunction(g)
  BY Zenon DEF SoldBy, SumOf
<1>2. Stacked(c.offers) /\ c.quantity \in Nat
  BY PointClears
<1>3. IsFiniteSet(S)
  <2> DEFINE D == DOMAIN c.offers
  <2>1. IsFiniteSet(D) /\ S \in SUBSET D
    BY <1>2, StackIsFinite
  <2> HIDE DEF D, S
  <2> QED
    BY <2>1, FS_Subset
<1>4. \A k \in S : Cleared(c.offers[k], c.quantity) \in Nat
  <2> SUFFICES ASSUME NEW k \in DOMAIN c.offers PROVE Cleared(c.offers[k], c.quantity) \in Nat
    OBVIOUS
  <2>1. c.offers[k].capacity \in Nat
    BY <1>2, StackGrows
  <2>2. Cleared(c.offers[k], c.quantity) \in 0..c.offers[k].capacity
    BY <1>2, ClearedIs
  <2> QED
    BY <2>1, <2>2
<1>5. DOMAIN g = S /\ \A k \in S : g[k] \in Nat /\ g[k] = Cleared(c.offers[k], c.quantity)
  BY <1>4
<1> HIDE DEF S, g
<1>6. SumFunction(g) = SumFunctionOnSet(g, S)
  BY <1>5, Zenon DEF SumFunction
<1>7. SumFunctionOnSet(g, S) \in Nat
  BY <1>3, <1>5, SumOfNaturals
<1>8. SoldBy(f, limits) \in Nat
  BY <1>1, <1>6, <1>7
<1>9. CASE \A k \in S : g[k] = 0
  <2>1. SumFunctionOnSet(g, S) = 0
    BY <1>3, <1>9, SumOfZeroes
  <2>2. SoldBy(f, limits) = 0
    BY <1>1, <1>6, <2>1
  <2> QED
    BY <2>2
<1>10. CASE \E k \in S : g[k] # 0
  <2>1. PICK k \in S : g[k] # 0
    BY <1>10
  <2>2. Cleared(c.offers[k], c.quantity) > 0
    BY <1>5, <2>1
  <2> QED
    BY <1>8, <2>1, <2>2 DEF S
<1> QED
  BY <1>9, <1>10

\* With demand to be served, or any offer, an offer that would sell means there is a market
\* both ways, unless must-serve demand goes unserved.
LEMMA ThereIsAMarket ==
    ASSUME ReadyToClear, NEW limits \in [PoolIds -> Nat], NEW more \in [PoolIds -> Nat],
           NEW c, c = ClearMarket(BookWith(limits)), NEW d, d = ClearMarket(BookWith(more)),
           ~IsBlackout(c), d.quantity > 0,
           \/ DemandBlock[MustServe].capacity > MIN_SETTLED_QUANTITY
           \/ \E g \in PoolIds : Offerable(limits)[g] > 0
    PROVE  Suited(c) /\ Suited(d)
<1>1. d.offers # <<>> /\ d.demands # <<>> /\ Suited(d)
  BY PointSuits
<1>2. /\ Lists(c.offers, PoolIds, Offerable(limits), input.sell, MustRuns)
      /\ Lists(c.demands, Bidders, Wanted, Worth, NoneMustBuy)
      /\ Stacked(c.offers) /\ Stacked(c.demands) /\ c.quantity \in Nat
  BY PointClears
<1>3. /\ Lists(d.demands, Bidders, Wanted, Worth, NoneMustBuy)
      /\ Stacked(d.offers) /\ Stacked(d.demands) /\ d.quantity \in Nat
      /\ d.quantity <= Height(d.demands)
  BY <1>1, PointClears DEF Suited
<1>4. c.demands # <<>>
  <2> SUFFICES ASSUME c.demands = <<>> PROVE FALSE
    OBVIOUS
  <2>1. \A o \in Bidders : ~(Wanted[o] > 0)
    BY <1>2 DEF Lists
  <2>2. ASSUME NEW l \in DOMAIN d.demands PROVE d.demands[l].capacity = 0
    <3>1. d.demands[l].capacity \in Nat
      BY <1>3, StackGrows
    <3>2. /\ d.demands[l].owner \in Bidders
          /\ d.demands[l].capacity = Wanted[d.demands[l].owner]
      BY <1>3 DEF Lists
    <3>3. ~(d.demands[l].capacity > 0)
      BY <2>1, <3>2
    <3> QED
      BY <3>1, <3>3
  <2>3. PICK l \in DOMAIN d.demands : Cleared(d.demands[l], d.quantity) > 0
    <3> DEFINE P == {}
    <3>1. SumFunction(WillingAt(d.demands, P)) = 0
      <4> DEFINE g == WillingAt(d.demands, P)
                 S == DOMAIN d.demands
      <4>1. DOMAIN g = S /\ \A k \in S : g[k] = 0
        BY DEF WillingAt
      <4>2. IsFiniteSet(S)
        BY <1>3, StackIsFinite
      <4> HIDE DEF g, S
      <4>3. SumFunctionOnSet(g, S) = 0
        BY <4>1, <4>2, SumOfZeroes
      <4> QED
        BY <4>1, <4>3, Zenon DEF SumFunction, g
    <3> HIDE DEF P
    <3>2. ~(d.quantity <= SumFunction(WillingAt(d.demands, P)))
      BY <1>3, <3>1
    <3> QED
      BY <1>3, <3>2, WillingTrade
  <2>4. Cleared(d.demands[l], d.quantity) \in 0..d.demands[l].capacity
    BY <1>3, <2>3, ClearedIs
  <2> QED
    BY <2>2, <2>3, <2>4
<1>5. c.offers # <<>>
  <2> SUFFICES ASSUME c.offers = <<>> PROVE FALSE
    OBVIOUS
  <2>1. ~\E g \in PoolIds : Offerable(limits)[g] > 0
    BY <1>2 DEF Lists
  <2>2. Wanted[-MustServe] > MIN_SETTLED_QUANTITY /\ -MustServe \in Bidders
    BY <2>1, BidsAre, BiddersAre
  <2>3. MIN_SETTLED_QUANTITY = 1 /\ Wanted[-MustServe] \in Nat
    BY <2>2, BidsAre DEF MIN_SETTLED_QUANTITY
  <2>4. Wanted[-MustServe] > 0
    BY <2>2, <2>3
  <2>5. PICK l \in DOMAIN c.demands : c.demands[l].owner = -MustServe
    BY <1>2, <2>2, <2>4 DEF Lists
  <2>6. c.demands[l].capacity = Wanted[-MustServe]
    BY <1>2, <2>5 DEF Lists
  <2>7. c.quantity = 0
    BY PointSuits
  <2>8. Unmet(c.demands[l], c.quantity) = c.demands[l].capacity
    <3>1. Below(c.demands[l]) \in Nat
      BY <1>2, StackGrows
    <3>2. /\ Cleared(c.demands[l], c.quantity) = 0
          /\ Unmet(c.demands[l], c.quantity)
               = c.demands[l].capacity - Cleared(c.demands[l], c.quantity)
      BY <1>2, <2>7, <3>1, ClearedIs
    <3> QED
      BY <2>3, <2>6, <3>2
  <2>9. IsBlackout(c)
    BY <2>2, <2>5, <2>6, <2>8 DEF IsBlackout
  <2> QED
    BY <2>9
<1> QED
  BY <1>1, <1>4, <1>5, PointSuits

\* Who would sell more with all the fuel they can burn has asked no more than the price there
\* is without it: what is offered up to that price is then all that trades, and theirs comes
\* after.
LEMMA MoreFuelSells ==
    ASSUME ReadyToClear, FuelLimits \in [PoolIds -> Nat], NEW f \in PoolIds, WouldSellMore(f),
           ~IsBlackout(ClearingNow),
           \/ DemandBlock[MustServe].capacity > MIN_SETTLED_QUANTITY
           \/ \E g \in PoolIds : Offerable(FuelLimits)[g] > 0
    PROVE  ClearingNow.price >= input.sell[f]
<1> DEFINE limits == FuelLimits
           more == LimitsBut(f)
           c == ClearingNow
           d == ClearingBut(f)
<1>1. /\ more \in [PoolIds -> Nat] /\ limits \in [PoolIds -> Nat]
      /\ \A g \in PoolIds \ {f} : Offerable(more)[g] = Offerable(limits)[g]
  BY OffersBut
<1>2. SoldBy(f, more) > SoldBy(f, limits)
  BY Zenon DEF WouldSellMore, LimitsBut
<1>3. c = ClearMarket(BookWith(limits)) /\ d = ClearMarket(BookWith(more))
  BY Zenon DEF ClearingNow, ClearingBut
<1>4. ~IsBlackout(c) /\ (\/ DemandBlock[MustServe].capacity > MIN_SETTLED_QUANTITY
                         \/ \E g \in PoolIds : Offerable(limits)[g] > 0)
  OBVIOUS
<1>5. input.sell[f] \in Int
  BY InputIs, PricesSuitBooks DEF ReadyToClear
<1> HIDE DEF limits, more, c, d
<1>6. PICK k \in DOMAIN d.offers : /\ d.offers[k].owner = f
                                   /\ Cleared(d.offers[k], d.quantity) > 0
  <2>1. SoldBy(f, limits) \in Nat
    BY <1>1, <1>3, SellersHaveOffers
  <2>2. SoldBy(f, more) \in Nat /\ SoldBy(f, more) > 0
    BY <1>1, <1>2, <1>3, <2>1, SellersHaveOffers
  <2> QED
    BY <1>1, <1>3, <2>2, SellersHaveOffers
<1>7. /\ Stacked(d.offers) /\ Stacked(d.demands) /\ d.quantity \in Nat
      /\ Lists(d.offers, PoolIds, Offerable(more), input.sell, MustRuns)
      /\ Lists(d.demands, Bidders, Wanted, Worth, NoneMustBuy)
  BY <1>1, <1>3, PointClears
<1>8. /\ Stacked(c.offers) /\ Stacked(c.demands)
      /\ Lists(c.offers, PoolIds, Offerable(limits), input.sell, MustRuns)
      /\ Lists(c.demands, Bidders, Wanted, Worth, NoneMustBuy)
  BY <1>1, <1>3, PointClears
<1>9. Below(d.offers[k]) \in Nat /\ Below(d.offers[k]) < d.quantity /\ d.quantity > 0
  <2>1. Below(d.offers[k]) < d.quantity
    BY <1>6, <1>7, ClearedLiesBelow
  <2>2. Below(d.offers[k]) \in Nat
    BY <1>7, StackGrows
  <2> QED
    BY <1>7, <2>1, <2>2
<1>10. Suited(c) /\ Suited(d)
  BY <1>1, <1>3, <1>4, <1>9, ThereIsAMarket
<1>11. d.offers[k].price = input.sell[f] /\ d.offers[k].price <= d.price /\ d.price \in Int
  <2>1. d.offers[k].price = input.sell[f]
    BY <1>6, <1>7 DEF Lists
  <2> QED
    BY <1>6, <1>10, <2>1 DEF Suited, PriceSuits
<1> DEFINE p == c.price
<1>12. SUFFICES ASSUME p < input.sell[f] PROVE FALSE
  BY <1>5, <1>10 DEF Suited, c
<1>13. c.quantity \in Nat /\ p \in Int
  BY <1>10 DEF Suited
<1> DEFINE A == PricesAbove(p)
           B == UpTo(p)
           asked == SumFunction(WillingAt(c.demands, A))
           given == SumFunction(WillingAt(c.offers, B))
<1>14. asked \in Int /\ asked = SumFunction(WillingAt(d.demands, A))
  <2> DEFINE W == SumFunctionOnSet(WillingBy(Bidders, Wanted, Worth, A), Bidders)
  <2>1. IsFiniteSet(Bidders)
    <3> DEFINE T == { -tier : tier \in DOMAIN Tiers }
    <3>1. Bidders = PoolIds \cup T /\ IsFiniteSet(PoolIds) /\ IsFiniteSet(T)
      BY PoolsAreFinite, TiersAreFinite DEF Bidders
    <3> HIDE DEF T
    <3> QED
      BY <3>1, FS_Union
  <2>2. Wanted \in [Bidders -> Nat]
    BY BidsAre
  <2> HIDE DEF A
  <2>3. asked \in Int /\ asked = W
    BY <1>8, <2>1, <2>2, WillingByOwner
  <2>4. SumFunction(WillingAt(d.demands, A)) = W
    BY <1>7, <2>1, <2>2, WillingByOwner
  <2> QED
    BY <2>3, <2>4
<1>15. given \in Int /\ given = SumFunction(WillingAt(d.offers, B))
  <2> DEFINE g == WillingBy(PoolIds, Offerable(limits), input.sell, B)
             h == WillingBy(PoolIds, Offerable(more), input.sell, B)
  <2>1. IsFiniteSet(PoolIds)
    BY PoolsAreFinite
  <2>2. Offerable(limits) \in [PoolIds -> Nat] /\ Offerable(more) \in [PoolIds -> Nat]
    BY <1>1, AmountsAre
  <2>3. ASSUME NEW x \in PoolIds PROVE g[x] \in Int /\ h[x] = g[x]
    <3> DEFINE a == Offerable(limits)
               b == Offerable(more)
    <3>1. /\ g[x] = IF input.sell[x] \in B THEN a[x] ELSE 0
          /\ h[x] = IF input.sell[x] \in B THEN b[x] ELSE 0
      BY DEF WillingBy
    <3>2. a[x] \in Nat /\ (x # f => b[x] = a[x])
      BY <1>1, <2>2
    <3>3. input.sell[f] \notin B
      BY <1>5, <1>12, <1>13 DEF UpTo
    <3> HIDE DEF a, b, g, h, B
    <3> QED
      BY <3>1, <3>2, <3>3
  <2> HIDE DEF B
  <2>4. given \in Int /\ given = SumFunctionOnSet(g, PoolIds)
    BY <1>8, <2>1, <2>2, WillingByOwner
  <2>5. SumFunction(WillingAt(d.offers, B)) = SumFunctionOnSet(h, PoolIds)
    BY <1>7, <2>1, <2>2, WillingByOwner
  <2> HIDE DEF g, h
  <2>6. SumFunctionOnSet(h, PoolIds) = SumFunctionOnSet(g, PoolIds)
    BY <2>1, <2>3, SumSame
  <2> QED
    BY <2>4, <2>5, <2>6
<1>16. asked <= c.quantity /\ c.quantity <= given
  BY <1>10, <1>14, TradesBetween
<1>17. d.quantity <= asked
  <2>1. ASSUME NEW l \in DOMAIN d.demands, Cleared(d.demands[l], d.quantity) > 0
        PROVE  d.demands[l].price \in A
    <3>1. d.demands[l].price >= d.price /\ d.demands[l].price \in Int
      BY <1>7, <1>10, <2>1, StackGrows DEF Suited, PriceSuits
    <3>2. d.demands[l].price > p
      BY <1>5, <1>11, <1>12, <1>13, <3>1
    <3> QED
      BY <3>1, <3>2 DEF PricesAbove
  <2>2. d.quantity <= Height(d.demands)
    BY <1>10 DEF Suited
  <2> HIDE DEF A
  <2>3. d.quantity <= SumFunction(WillingAt(d.demands, A))
    BY <1>7, <2>1, <2>2, WillingTrade
  <2> QED
    BY <1>14, <2>3
<1>18. given <= Below(d.offers[k])
  <2>1. OffersInOrder(d.offers) /\ p < d.offers[k].price
    BY <1>10, <1>11, <1>12 DEF Suited
  <2> HIDE DEF p
  <2>2. SumFunction(WillingAt(d.offers, UpTo(p))) <= Below(d.offers[k])
    BY <1>13, <1>15, <2>1, CheaperLiesBelow
  <2> QED
    BY <1>15, <2>2
<1> HIDE DEF asked, given, p
<1> QED
  BY <1>7, <1>9, <1>13, <1>14, <1>15, <1>16, <1>17, <1>18

\* A step that notes of each pool whether it ran out.
NotesRunningOut(c) ==
    \A f \in PoolIds :
       FuelShort(FuelLimits, f) /\ (IsBlackout(c) \/ c.price >= input.sell[f]) => pool'[f].ranOut

\* What is added to a sequence is there.
LEMMA LastAppended ==
    ASSUME NEW S, NEW s \in Seq(S), NEW e, NEW d, Append(s, e) = Append(s, d)
    PROVE  e = d
<1>1. Append(s, e)[Len(s) + 1] = e /\ Append(s, d)[Len(s) + 1] = d
  OBVIOUS
<1> QED
  BY <1>1

\* What a point that is not down offers and asks for, it records, and it notes who ran out.
LEMMA PointNotes ==
    ASSUME TradingInv, GoDown \/ Trade, NEW r, record' = Append(record, r)
    PROVE  /\ ReadyToClear /\ FuelLimits \in [PoolIds -> Nat]
           /\ \A f \in PoolIds : r.offered[f] = Offerable(FuelLimits)[f]
           /\ r.asked[MustServe] = DemandBlock[MustServe].capacity
           /\ NotesRunningOut(ClearingNow)
<1>1. /\ ReadyToClear /\ FuelLimits \in [PoolIds -> Nat] /\ record \in Seq(PointType)
  <2>1. tank \in [Tanks -> Nat] /\ input \in Inputs /\ record \in Seq(PointType)
    BY DEF TradingInv, SimulationFits
  <2>2. ReadyToClear
    BY SimulatingIsReady DEF GoDown, Trade
  <2> QED
    BY <2>1, <2>2, LimitsAreTyped
<1> DEFINE limits == FuelLimits
           c == ClearingNow
<1>2. /\ \A f \in PoolIds : EntryOf(c.offers, f, [capacity |-> 0]).capacity = Offerable(limits)[f]
      /\ MustServe \in DOMAIN Tiers
  <2>1. c = ClearMarket(BookWith(limits)) /\ limits \in [PoolIds -> Nat]
    BY <1>1, Zenon DEF ClearingNow
  <2> HIDE DEF c, limits
  <2>2. \A f \in PoolIds : EntryOf(c.offers, f, [capacity |-> 0]).capacity = Offerable(limits)[f]
    BY <1>1, <2>1, PointsOffers
  <2> QED
    BY <2>2, BiddersAre
<1>3. CASE GoDown
  <2> DEFINE noted == [f \in PoolIds |-> NoteRunOut(limits, c, f, pool[f])]
             s == PointCleared(c, "blackout", <<>>, <<>>, noted)
  <2>1. record' = Append(record, s) /\ pool' = noted
    BY <1>3, Zenon DEF GoDown, ClearingNow
  <2>2. /\ s.offered = [f \in PoolIds |-> EntryOf(c.offers, f, [capacity |-> 0]).capacity]
        /\ s.asked = [tier \in DOMAIN Tiers |-> DemandBlock[tier].capacity]
    BY DEF PointCleared
  <2> HIDE DEF s, c, limits
  <2>3. \A f \in PoolIds : pool'[f] = NoteRunOut(limits, c, f, pool[f])
    BY <2>1
  <2> HIDE DEF noted
  <2>4. r = s
    BY <1>1, <2>1, LastAppended
  <2>5. \A f \in PoolIds : pool[f] \in PoolType
    BY DEF TradingInv, SimulationFits
  <2>6. ASSUME NEW f \in PoolIds, FuelShort(limits, f), IsBlackout(c) \/ c.price >= input.sell[f]
        PROVE  pool'[f].ranOut
    BY <2>3, <2>5, <2>6 DEF NoteRunOut, PoolType
  <2>7. NotesRunningOut(c)
    BY <2>6 DEF NotesRunningOut, limits
  <2> QED
    BY <1>1, <1>2, <2>2, <2>4, <2>7 DEF c, limits
<1>4. CASE Trade
  <2>1. /\ record' = Append(record, PointNow) /\ pool' = [f \in PoolIds |-> PoolNow(f)]
    BY <1>4, TradeIs
  <2>2. r = PointNow
    BY <1>1, <2>1, LastAppended
  <2>3. SettledNow.offers = c.offers
    BY <1>1, Zenon, SettledPriceIs DEF SettledNow, ClearingNow
  <2>4. /\ PointNow.offered = [f \in PoolIds |-> EntryOf(SettledNow.offers, f, [capacity |-> 0]).capacity]
        /\ PointNow.asked = [tier \in DOMAIN Tiers |-> DemandBlock[tier].capacity]
    BY DEF PointNow, PointCleared
  <2> HIDE DEF c, limits
  <2>5. /\ \A f \in PoolIds : r.offered[f] = Offerable(limits)[f]
        /\ r.asked[MustServe] = DemandBlock[MustServe].capacity
    BY <1>2, <2>2, <2>3, <2>4
  <2>6. ASSUME NEW f \in PoolIds, FuelShort(limits, f), IsBlackout(c) \/ c.price >= input.sell[f]
        PROVE  pool'[f].ranOut
    <3> DEFINE held == NoteRunOut(limits, c, f, pool[f])
    <3>1. pool'[f] = Bought(f, Sold(f, held, SaleNow(f)), PurchaseNow(f))
      BY <2>1 DEF PoolNow, c, limits
    <3>2. pool[f] \in PoolType
      BY DEF TradingInv, SimulationFits
    <3>3. held \in PoolType
      BY <3>2, NotedPoolIs
    <3>4. held.ranOut
      BY <2>6, <3>2 DEF NoteRunOut, PoolType
    <3> HIDE DEF held
    <3>5. pool'[f].ranOut = held.ranOut
      BY <3>1, <3>3 DEF Bought, Sold, PoolType
    <3> QED
      BY <3>4, <3>5
  <2>7. NotesRunningOut(c)
    BY <2>6 DEF NotesRunningOut, limits
  <2> QED
    BY <1>1, <2>5, <2>7 DEF c, limits
<1> QED
  BY <1>3, <1>4

\* Each step that records a point tells those who would have sold more of it.
LEMMA MissedSalesNoted ==
    ASSUME TradingInv, [Next]_vars
    PROVE  NotesMissedSales
<1> SUFFICES ASSUME NEW f \in PoolIds, Len(record') > Len(record),
                    record'[Len(record')].state # "down", AnyToTrade(record'[Len(record')]),
                    FuelShort(FuelLimits, f), WouldSellMore(f)
             PROVE  pool'[f].ranOut
  BY Zenon DEF NotesMissedSales
<1>1. record \in Seq(PointType) /\ Len(record) \in Nat
  BY DEF TradingInv, SimulationFits
<1>2. GoDown \/ Trade
  <2>1. CASE StayDown
    <3>1. record' = Append(record, PointDown(pool)) /\ PointDown(pool).state = "down"
      BY <2>1, DownPoint
    <3>2. record'[Len(record')] = PointDown(pool)
      BY <1>1, <3>1
    <3> QED
      BY <3>1, <3>2
  <2>2. CASE EndPass
    <3>1. record' = <<>> \/ record' = record
      BY <2>2 DEF EndPass
    <3> QED
      BY <1>1, <3>1
  <2>3. CASE UNCHANGED vars
    BY <1>1, <2>3 DEF vars
  <2> QED
    BY <2>1, <2>2, <2>3 DEF Next
<1>3. PICK r : record' = Append(record, r)
  BY <1>2, Zenon DEF GoDown, Trade
<1>4. record'[Len(record')] = r
  BY <1>1, <1>3
<1>5. /\ ReadyToClear /\ FuelLimits \in [PoolIds -> Nat]
      /\ \A g \in PoolIds : r.offered[g] = Offerable(FuelLimits)[g]
      /\ r.asked[MustServe] = DemandBlock[MustServe].capacity
      /\ NotesRunningOut(ClearingNow)
  BY <1>2, <1>3, PointNotes
<1>6. \/ DemandBlock[MustServe].capacity > MIN_SETTLED_QUANTITY
      \/ \E g \in PoolIds : Offerable(FuelLimits)[g] > 0
  BY <1>4, <1>5 DEF AnyToTrade
<1>7. IsBlackout(ClearingNow) \/ ClearingNow.price >= input.sell[f]
  BY <1>5, <1>6, MoreFuelSells
<1> QED
  BY <1>5, <1>7 DEF NotesRunningOut

-----------------------------------------------------------------------------
(***************************************************************************)
(* The promises about fuel.                                                *)
(***************************************************************************)
\* Whatever the stocks and the offers: no fuel is burned twice or kept from a cheaper offer,
\* and whoever misses a sale for want of it is told.
THEOREM FuelAlwaysShared == Spec => FuelIsShared
<1>1. TradingInv /\ FuelInv => FuelIsWithinStock /\ CheaperOfferGetsTheFuel
  BY FuelFitsTheStock DEF FuelInv
<1>2. TradingInv /\ [Next]_vars => NotesMissedSales
  BY MissedSalesNoted
<1>3. Spec => [](TradingInv /\ FuelInv)
  BY SimulationKeepsFuel
<1>4. Spec => []FuelIsWithinStock /\ []CheaperOfferGetsTheFuel
  BY <1>1, <1>3, PTL
<1>5. Spec => [][NotesMissedSales]_vars
  BY <1>2, <1>3, PTL DEF Spec
<1> QED
  BY <1>4, <1>5, PTL DEF FuelIsShared, MissedSalesAreNoted
=============================================================================
