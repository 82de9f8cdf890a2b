---------------------------- MODULE MarketProofs ----------------------------
(***************************************************************************)
(* Proofs about the electricity market, for any book of offers and bids:   *)
(* what merit order makes of a book's entries, where the market clears,    *)
(* and what the entries then trade.                                        *)
(***************************************************************************)
EXTENDS MarketBook, OperatorProofs

-----------------------------------------------------------------------------
(***************************************************************************)
(* Ranks.                                                                  *)
(***************************************************************************)
\* The rank of i in S by a strict order R: one more than how many come before it.
RankOf(R, S, i) == Cardinality({ j \in S : <<j, i>> \in R }) + 1

\* R is a strict total order of S.
StrictlyOrders(R, S) ==
    /\ \A i \in S : <<i, i>> \notin R
    /\ \A i, j, k \in S : <<i, j>> \in R /\ <<j, k>> \in R => <<i, k>> \in R
    /\ \A i, j \in S : i = j \/ <<i, j>> \in R \/ <<j, i>> \in R

\* Each of the ranks 1..n is taken, and who comes before has the lower one.
RanksTaken(R, S, n) ==
    /\ \A i \in S : RankOf(R, S, i) \in 1..n
    /\ \A i, j \in S : <<i, j>> \in R => RankOf(R, S, i) < RankOf(R, S, j)
    /\ \A k \in 1..n : \E i \in S : RankOf(R, S, i) = k

\* In a strict total order of n things, each of the ranks 1..n is taken, by one of them.
LEMMA RanksAreTaken ==
    ASSUME NEW S, IsFiniteSet(S), NEW R, StrictlyOrders(R, S)
    PROVE  RanksTaken(R, S, Cardinality(S))
<1> DEFINE n == Cardinality(S)
           First(i) == { j \in S : <<j, i>> \in R }
<1>1. IsFiniteSet(S) /\ Cardinality(S) = n /\ n \in Nat
  BY FS_CardinalityType
<1> HIDE DEF n
<1>2. ASSUME NEW i \in S
      PROVE  /\ IsFiniteSet(First(i)) /\ Cardinality(First(i)) \in Nat
             /\ Cardinality(First(i)) < n
  <2>1. First(i) \in SUBSET S /\ i \notin First(i) /\ First(i) # S
    BY DEF StrictlyOrders
  <2> DEFINE T == First(i)
  <2> HIDE DEF First, T
  <2>2. T \in SUBSET S /\ T # S
    BY <2>1 DEF T
  <2>3. IsFiniteSet(T) /\ Cardinality(T) <= Cardinality(S) /\ Cardinality(T) # Cardinality(S)
    BY <1>1, <2>2, FS_Subset
  <2>4. Cardinality(T) \in Nat
    BY <2>3, FS_CardinalityType
  <2> QED
    BY <1>1, <2>3, <2>4 DEF T
<1>3. ASSUME NEW i \in S, NEW j \in S, <<i, j>> \in R
      PROVE  Cardinality(First(i)) < Cardinality(First(j))
  <2>1. First(i) \in SUBSET First(j) /\ i \in First(j) /\ i \notin First(i)
    BY <1>3 DEF StrictlyOrders
  <2>2. /\ IsFiniteSet(First(j)) /\ Cardinality(First(j)) \in Nat
        /\ Cardinality(First(i)) \in Nat
    BY <1>2
  <2> HIDE DEF First
  <2>3. Cardinality(First(i)) <= Cardinality(First(j)) /\ Cardinality(First(i)) # Cardinality(First(j))
    BY <2>1, <2>2, FS_Subset
  <2> QED
    BY <2>2, <2>3
<1>4. \A i \in S : RankOf(R, S, i) = Cardinality(First(i)) + 1
  BY DEF RankOf
<1>5. \A i \in S : RankOf(R, S, i) \in 1..n
  <2> SUFFICES ASSUME NEW i \in S PROVE RankOf(R, S, i) \in 1..n
    OBVIOUS
  <2> HIDE DEF First
  <2> QED
    BY <1>1, <1>2, <1>4
<1>6. \A i, j \in S : <<i, j>> \in R => RankOf(R, S, i) < RankOf(R, S, j)
  <2> SUFFICES ASSUME NEW i \in S, NEW j \in S, <<i, j>> \in R
               PROVE  RankOf(R, S, i) < RankOf(R, S, j)
    OBVIOUS
  <2>1. /\ Cardinality(First(i)) < Cardinality(First(j)) /\ Cardinality(First(i)) \in Nat
        /\ Cardinality(First(j)) \in Nat
    BY <1>2, <1>3
  <2> HIDE DEF First
  <2> QED
    BY <1>4, <2>1
<1> DEFINE rank == [i \in S |-> RankOf(R, S, i)]
<1>7. rank \in Injection(S, 1..n)
  <2>1. rank \in [S -> 1..n]
    BY <1>5
  <2>2. ASSUME NEW i \in S, NEW j \in S, rank[i] = rank[j] PROVE i = j
    <3>1. RankOf(R, S, i) = RankOf(R, S, j) /\ RankOf(R, S, i) \in Int
      BY <1>5, <2>2
    <3>2. ~(RankOf(R, S, i) < RankOf(R, S, j)) /\ ~(RankOf(R, S, j) < RankOf(R, S, i))
      BY <3>1
    <3>3. <<i, j>> \notin R /\ <<j, i>> \notin R
      BY <1>6, <3>2
    <3> QED
      BY <3>3 DEF StrictlyOrders
  <2> HIDE DEF rank
  <2> QED
    BY <2>1, <2>2 DEF Injection, IsInjective
<1>8. rank \in Surjection(S, 1..n)
  <2>1. IsFiniteSet(1..n) /\ Cardinality(1..n) = n
    BY <1>1, FS_Interval
  <2> QED
    BY <1>1, <1>7, <2>1, FS_Injection
<1>9. \A k \in 1..n : \E i \in S : rank[i] = k
  BY <1>8 DEF Surjection
<1> QED
  BY <1>1, <1>5, <1>6, <1>9 DEF RanksTaken

-----------------------------------------------------------------------------
(***************************************************************************)
(* Merit order.                                                            *)
(***************************************************************************)
EntryType == [owner : Int, capacity : Nat, price : Int, mustRun : BOOLEAN, cumul : Int]

\* Whether entry i goes before entry j in merit order.
GoesBefore(entries, descending, i, j) ==
    \/ IF descending THEN entries[i].price > entries[j].price
                     ELSE entries[i].price < entries[j].price
    \/ entries[i].price = entries[j].price /\ i < j

\* The place of entry i, the entry at a place, and the power of entries up to a place.
PlaceOf(entries, descending, i) ==
    Cardinality({ j \in DOMAIN entries : GoesBefore(entries, descending, j, i) }) + 1
EntryAt(entries, descending, k) ==
    CHOOSE i \in DOMAIN entries : PlaceOf(entries, descending, i) = k
PlacedUpto(entries, descending, k) ==
    { i \in DOMAIN entries : PlaceOf(entries, descending, i) <= k }
CapacityOf(entries) == [i \in DOMAIN entries |-> entries[i].capacity]

\* Each entry's capacity comes on top of those before it.
Stacked(out) ==
    /\ out \in Seq(EntryType)
    /\ \A k \in DOMAIN out :
          out[k].cumul = (IF k = 1 THEN 0 ELSE out[k - 1].cumul) + out[k].capacity

\* out is the entries, each once, with the one that was at place[k] at k.
Arranges(out, entries, descending, place) ==
    /\ place \in [DOMAIN out -> DOMAIN entries]
    /\ Len(out) = Len(entries)
    /\ \A i \in DOMAIN entries : \E k \in DOMAIN out : place[k] = i
    /\ \A k, l \in DOMAIN out :
          k < l => GoesBefore(entries, descending, place[k], place[l])
    /\ \A k \in DOMAIN out : out[k] = [entries[place[k]] EXCEPT !.cumul = out[k].cumul]

\* What merit order is, in these terms.
LEMMA MeritOrderIs ==
    ASSUME NEW entries, NEW descending
    PROVE  MeritOrder(entries, descending) =
             [k \in DOMAIN entries |->
                [entries[EntryAt(entries, descending, k)] EXCEPT
                   !.cumul = SumFunctionOnSet(CapacityOf(entries),
                                              PlacedUpto(entries, descending, k))]]
BY Zenon DEF MeritOrder, Ranked, EntryAt, PlacedUpto, PlaceOf, GoesBefore, CapacityOf

\* What is known of each entry of a sequence of them.
LEMMA EntriesTyped ==
    ASSUME NEW entries \in Seq(EntryType)
    PROVE  /\ Len(entries) \in Nat /\ DOMAIN entries = 1..Len(entries)
           /\ \A i \in DOMAIN entries :
                 /\ entries[i] \in EntryType
                 /\ entries[i].owner \in Int /\ entries[i].capacity \in Nat
                 /\ entries[i].price \in Int /\ entries[i].mustRun \in BOOLEAN
                 /\ entries[i].cumul \in Int
<1>1. \A i \in DOMAIN entries : entries[i] \in EntryType
  OBVIOUS
<1> QED
  BY <1>1 DEF EntryType

\* The places of entries are a strict total order of them, each taken.
LEMMA PlacesAreTaken ==
    ASSUME NEW entries \in Seq(EntryType), NEW descending \in BOOLEAN
    PROVE  /\ \A i \in DOMAIN entries : PlaceOf(entries, descending, i) \in DOMAIN entries
           /\ \A i, j \in DOMAIN entries :
                 GoesBefore(entries, descending, i, j)
                   <=> PlaceOf(entries, descending, i) < PlaceOf(entries, descending, j)
           /\ \A k \in DOMAIN entries :
                 /\ EntryAt(entries, descending, k) \in DOMAIN entries
                 /\ PlaceOf(entries, descending, EntryAt(entries, descending, k)) = k
           /\ \A i, j \in DOMAIN entries :
                 PlaceOf(entries, descending, i) = PlaceOf(entries, descending, j) => i = j
<1> DEFINE n == Len(entries)
           R == { ij \in (1..n) \X (1..n) : GoesBefore(entries, descending, ij[1], ij[2]) }
<1>1. n \in Nat /\ DOMAIN entries = 1..n /\ \A i \in 1..n : entries[i].price \in Int
  BY EntriesTyped
<1>2. \A i, j \in 1..n : <<i, j>> \in R <=> GoesBefore(entries, descending, i, j)
  OBVIOUS
<1> HIDE DEF n, R
<1>3. \A i \in 1..n : <<i, i>> \notin R
  BY <1>1, <1>2 DEF GoesBefore
<1>4. \A i, j, k \in 1..n : <<i, j>> \in R /\ <<j, k>> \in R => <<i, k>> \in R
  <2> SUFFICES ASSUME NEW i \in 1..n, NEW j \in 1..n, NEW k \in 1..n,
                      GoesBefore(entries, descending, i, j), GoesBefore(entries, descending, j, k)
               PROVE  GoesBefore(entries, descending, i, k)
    BY <1>2
  <2> QED
    BY <1>1 DEF GoesBefore
<1>5. \A i, j \in 1..n : i = j \/ <<i, j>> \in R \/ <<j, i>> \in R
  <2> SUFFICES ASSUME NEW i \in 1..n, NEW j \in 1..n, i # j
               PROVE  \/ GoesBefore(entries, descending, i, j)
                      \/ GoesBefore(entries, descending, j, i)
    BY <1>2
  <2>1. entries[i].price \in Int /\ entries[j].price \in Int /\ i \in Int /\ j \in Int
    BY <1>1
  <2> QED
    BY <2>1 DEF GoesBefore
<1>6. \A i \in 1..n : PlaceOf(entries, descending, i) = RankOf(R, 1..n, i)
  <2> SUFFICES ASSUME NEW i \in 1..n
               PROVE  PlaceOf(entries, descending, i) = RankOf(R, 1..n, i)
    OBVIOUS
  <2>1. { j \in DOMAIN entries : GoesBefore(entries, descending, j, i) }
          = { j \in 1..n : <<j, i>> \in R }
    BY <1>1, <1>2
  <2> QED
    BY <2>1 DEF PlaceOf, RankOf
<1>7. /\ \A i \in 1..n : RankOf(R, 1..n, i) \in 1..n
      /\ \A i, j \in 1..n : <<i, j>> \in R => RankOf(R, 1..n, i) < RankOf(R, 1..n, j)
      /\ \A k \in 1..n : \E i \in 1..n : RankOf(R, 1..n, i) = k
  <2> DEFINE S == 1..n
  <2>1. IsFiniteSet(S) /\ Cardinality(S) = n
    BY <1>1, FS_Interval
  <2>2. StrictlyOrders(R, S)
    BY <1>3, <1>4, <1>5 DEF StrictlyOrders
  <2> HIDE DEF S
  <2>3. RanksTaken(R, S, n)
    BY <2>1, <2>2, RanksAreTaken
  <2> QED
    BY <2>3 DEF S, RanksTaken
<1>8. \A i, j \in 1..n : GoesBefore(entries, descending, i, j)
         <=> PlaceOf(entries, descending, i) < PlaceOf(entries, descending, j)
  <2> SUFFICES ASSUME NEW i \in 1..n, NEW j \in 1..n
               PROVE  GoesBefore(entries, descending, i, j)
                        <=> PlaceOf(entries, descending, i) < PlaceOf(entries, descending, j)
    OBVIOUS
  <2>1. RankOf(R, 1..n, i) \in Int /\ RankOf(R, 1..n, j) \in Int
    BY <1>7
  <2>2. /\ <<i, j>> \in R => RankOf(R, 1..n, i) < RankOf(R, 1..n, j)
        /\ <<j, i>> \in R => RankOf(R, 1..n, j) < RankOf(R, 1..n, i)
        /\ i = j \/ <<i, j>> \in R \/ <<j, i>> \in R
    BY <1>5, <1>7
  <2> QED
    BY <1>2, <1>6, <2>1, <2>2
<1>9. ASSUME NEW k \in 1..n
      PROVE  /\ EntryAt(entries, descending, k) \in 1..n
             /\ PlaceOf(entries, descending, EntryAt(entries, descending, k)) = k
  <2>1. PICK i \in 1..n : PlaceOf(entries, descending, i) = k
    BY <1>6, <1>7
  <2> QED
    BY <1>1, <2>1, Zenon DEF EntryAt
<1>10. ASSUME NEW i \in 1..n, NEW j \in 1..n,
              PlaceOf(entries, descending, i) = PlaceOf(entries, descending, j)
       PROVE  i = j
  <2>1. PlaceOf(entries, descending, i) \in Int
    BY <1>6, <1>7
  <2>2. ~(PlaceOf(entries, descending, i) < PlaceOf(entries, descending, j))
        /\ ~(PlaceOf(entries, descending, j) < PlaceOf(entries, descending, i))
    BY <1>10, <2>1
  <2> QED
    BY <1>2, <1>5, <1>8, <2>2
<1>11. \A i \in 1..n : PlaceOf(entries, descending, i) \in 1..n
  BY <1>6, <1>7
<1>12. DOMAIN entries = 1..n
  BY <1>1
<1> QED
  BY <1>8, <1>9, <1>10, <1>11, <1>12

\* In merit order the entries are stacked: each once, in order, on top of those before it.
LEMMA MeritOrderArranges ==
    ASSUME NEW entries \in Seq(EntryType), NEW descending \in BOOLEAN
    PROVE  /\ Stacked(MeritOrder(entries, descending))
           /\ \E place : Arranges(MeritOrder(entries, descending), entries, descending, place)
<1> DEFINE n == Len(entries)
           out == MeritOrder(entries, descending)
           At(k) == EntryAt(entries, descending, k)
           Place(i) == PlaceOf(entries, descending, i)
           Upto(k) == PlacedUpto(entries, descending, k)
           g == CapacityOf(entries)
           Cumul(k) == SumFunctionOnSet(g, Upto(k))
           place == [k \in 1..n |-> At(k)]
<1>1. n \in Nat /\ DOMAIN entries = 1..n
  BY EntriesTyped
<1>2. \A i \in 1..n : entries[i] \in EntryType /\ entries[i].capacity \in Nat
  BY EntriesTyped, <1>1
<1>3. /\ \A i \in 1..n : Place(i) \in 1..n
      /\ \A k \in 1..n : At(k) \in 1..n /\ Place(At(k)) = k
      /\ \A i, j \in 1..n : Place(i) = Place(j) => i = j
      /\ \A i, j \in 1..n : GoesBefore(entries, descending, i, j) <=> Place(i) < Place(j)
  BY <1>1, PlacesAreTaken
<1>4. out = [k \in 1..n |-> [entries[At(k)] EXCEPT !.cumul = Cumul(k)]]
  BY <1>1, MeritOrderIs
<1>5. \A k : Upto(k) = { i \in 1..n : Place(i) <= k }
  BY <1>1 DEF PlacedUpto
<1>6. DOMAIN g = 1..n /\ \A i \in 1..n : g[i] = entries[i].capacity /\ g[i] \in Nat
  BY <1>1, <1>2 DEF CapacityOf
<1> HIDE DEF n, out, At, Place, Upto, g
<1>7. ASSUME NEW k \in 0..n
      PROVE  IsFiniteSet(Upto(k)) /\ (\A i \in Upto(k) : g[i] \in Nat) /\ Cumul(k) \in Nat
  <2> DEFINE all == 1..n
  <2>1. IsFiniteSet(all)
    BY <1>1, FS_Interval
  <2>2. Upto(k) \in SUBSET all
    BY <1>5
  <2> HIDE DEF all
  <2>3. IsFiniteSet(Upto(k))
    BY <2>1, <2>2, FS_Subset
  <2>4. \A i \in Upto(k) : g[i] \in Nat
    BY <1>5, <1>6
  <2> QED
    BY <2>3, <2>4, SumOfNaturals
<1>8. Cumul(0) = 0
  <2>1. Upto(0) = {}
    BY <1>3, <1>5
  <2>2. IsFiniteSet(Upto(0)) /\ \A i \in Upto(0) : g[i] \in Int
    BY <2>1, FS_EmptySet
  <2> QED
    BY <2>1, <2>2, SumStep
<1>9. ASSUME NEW k \in 1..n
      PROVE  Cumul(k) = Cumul(k - 1) + entries[At(k)].capacity
  <2>1. Upto(k) \ {At(k)} = Upto(k - 1) /\ At(k) \in Upto(k)
    <3>1. \A i \in 1..n : Place(i) <= k /\ i # At(k) <=> Place(i) <= k - 1
      <4> SUFFICES ASSUME NEW i \in 1..n PROVE Place(i) <= k /\ i # At(k) <=> Place(i) <= k - 1
        OBVIOUS
      <4>1. i # At(k) <=> Place(i) # k
        BY <1>3
      <4>2. Place(i) \in Int /\ k \in Int
        BY <1>1, <1>3
      <4> QED
        BY <4>1, <4>2
    <3> QED
      BY <1>3, <1>5, <3>1
  <2>2. IsFiniteSet(Upto(k)) /\ \A i \in Upto(k) : g[i] \in Int
    BY <1>7
  <2>3. Cumul(k) = g[At(k)] + SumFunctionOnSet(g, Upto(k) \ {At(k)})
    BY <2>1, <2>2, SumSplit
  <2>4. k - 1 \in 0..n /\ k \in 0..n
    BY <1>1
  <2>5. Cumul(k) \in Nat /\ Cumul(k - 1) \in Nat /\ g[At(k)] \in Nat
    BY <1>3, <1>6, <1>7, <2>4
  <2>6. Cumul(k) = g[At(k)] + Cumul(k - 1)
    BY <2>1, <2>3
  <2>7. g[At(k)] = entries[At(k)].capacity
    BY <1>3, <1>6
  <2> HIDE DEF Cumul
  <2> QED
    BY <2>5, <2>6, <2>7
<1> HIDE DEF Cumul
<1>10. ASSUME NEW k \in 1..n
       PROVE  /\ out[k] \in EntryType /\ out[k].cumul = Cumul(k)
              /\ out[k] = [entries[At(k)] EXCEPT !.cumul = out[k].cumul]
              /\ out[k].capacity = entries[At(k)].capacity
  <2>1. entries[At(k)] \in EntryType /\ Cumul(k) \in Int
    BY <1>1, <1>2, <1>3, <1>7
  <2>2. out[k] = [entries[At(k)] EXCEPT !.cumul = Cumul(k)]
    BY <1>4
  <2> QED
    BY <2>1, <2>2 DEF EntryType
<1>11. DOMAIN out = 1..n /\ Len(out) = n /\ out \in Seq(EntryType)
  <2>1. DOMAIN out = 1..n
    BY <1>4
  <2>2. out = [k \in 1..n |-> out[k]]
    BY <1>4, <2>1
  <2>3. \A k \in 1..n : out[k] \in EntryType
    BY <1>10
  <2> QED
    BY <1>1, <2>1, <2>2, <2>3
<1>12. Stacked(out)
  <2> SUFFICES ASSUME NEW k \in 1..n
               PROVE  out[k].cumul = (IF k = 1 THEN 0 ELSE out[k - 1].cumul) + out[k].capacity
    BY <1>11 DEF Stacked
  <2>1. Cumul(k) = Cumul(k - 1) + out[k].capacity
    BY <1>9, <1>10
  <2>2. CASE k = 1
    <3>1. Cumul(k - 1) = 0
      BY <1>8, <2>2
    <3> QED
      BY <1>10, <2>1, <2>2, <3>1
  <2>3. CASE k # 1
    <3>1. k - 1 \in 1..n
      BY <1>1, <2>3
    <3> QED
      BY <1>10, <2>1, <2>3, <3>1
  <2> QED
    BY <2>2, <2>3
<1>13. Arranges(out, entries, descending, place)
  <2>1. place \in [1..n -> 1..n] /\ \A k \in 1..n : place[k] = At(k)
    BY <1>3
  <2> HIDE DEF place
  <2>2. \A i \in 1..n : \E k \in 1..n : place[k] = i
    <3> SUFFICES ASSUME NEW i \in 1..n PROVE \E k \in 1..n : place[k] = i
      OBVIOUS
    <3>1. Place(i) \in 1..n /\ At(Place(i)) = i
      BY <1>3
    <3> QED
      BY <2>1, <3>1
  <2>3. \A k, l \in 1..n : k < l => GoesBefore(entries, descending, place[k], place[l])
    BY <1>3, <2>1
  <2>4. \A k \in 1..n : out[k] = [entries[place[k]] EXCEPT !.cumul = out[k].cumul]
    BY <1>10, <2>1
  <2> QED
    BY <1>1, <1>11, <2>1, <2>2, <2>3, <2>4 DEF Arranges, n
<1> QED
  BY <1>12, <1>13 DEF out

-----------------------------------------------------------------------------
(***************************************************************************)
(* What clears of a stack, and what is traded of it.                       *)
(***************************************************************************)
\* How much power lies below an entry, and in all of a stack.
Below(entry) == entry.cumul - entry.capacity
Height(out)  == IF out = <<>> THEN 0 ELSE out[Len(out)].cumul

\* What a stack's entries are, and that each lies above all that come before it.
LEMMA StackGrows ==
    ASSUME NEW out, Stacked(out)
    PROVE  /\ Len(out) \in Nat /\ DOMAIN out = 1..Len(out)
           /\ Height(out) \in Nat
           /\ \A k \in DOMAIN out :
                 /\ out[k].capacity \in Nat /\ out[k].price \in Int /\ out[k].owner \in Int
                 /\ out[k].mustRun \in BOOLEAN
                 /\ out[k].cumul \in Nat /\ Below(out[k]) \in Nat
                 /\ out[k].cumul = Below(out[k]) + out[k].capacity
                 /\ Below(out[k]) = IF k = 1 THEN 0 ELSE out[k - 1].cumul
                 /\ out[k].cumul <= Height(out)
           /\ \A k, l \in DOMAIN out : k < l => out[k].cumul <= Below(out[l])
<1> DEFINE n == Len(out)
<1>1. out \in Seq(EntryType)
  BY DEF Stacked
<1>2. /\ n \in Nat /\ DOMAIN out = 1..n
      /\ \A k \in 1..n : /\ out[k].capacity \in Nat /\ out[k].price \in Int
                         /\ out[k].owner \in Int /\ out[k].mustRun \in BOOLEAN
                         /\ out[k].cumul \in Int
  BY <1>1, EntriesTyped
<1>3. \A k \in 1..n :
         out[k].cumul = (IF k = 1 THEN 0 ELSE out[k - 1].cumul) + out[k].capacity
  BY <1>2 DEF Stacked
<1> DEFINE G == { l \in 0..n : l > 0 => /\ out[l].cumul \in Nat /\ Below(out[l]) \in Nat
                                        /\ \A k \in 1..(l - 1) : out[k].cumul <= Below(out[l]) }
<1> HIDE DEF n
<1>4. 0 \in G
  BY <1>2
<1>5. ASSUME NEW l \in 1..n, l - 1 \in G PROVE l \in G
  <2>1. CASE l = 1
    <3>1. Below(out[l]) = 0 /\ out[l].cumul = out[l].capacity
      BY <1>2, <1>3, <2>1 DEF Below
    <3> QED
      BY <1>2, <2>1, <3>1
  <2>2. CASE l # 1
    <3>1. l - 1 \in 1..n /\ l - 1 > 0
      BY <1>2, <2>2
    <3>2. /\ out[l - 1].cumul \in Nat /\ Below(out[l - 1]) \in Nat
          /\ \A k \in 1..(l - 1 - 1) : out[k].cumul <= Below(out[l - 1])
      BY <1>5, <3>1
    <3>3. /\ Below(out[l]) = out[l - 1].cumul
          /\ out[l].cumul = out[l - 1].cumul + out[l].capacity
          /\ Below(out[l - 1]) <= out[l - 1].cumul
      BY <1>2, <1>3, <2>2, <3>1, <3>2 DEF Below
    <3>4. ASSUME NEW k \in 1..(l - 1) PROVE out[k].cumul <= Below(out[l])
      <4>1. CASE k = l - 1
        BY <3>2, <3>3, <4>1
      <4>2. CASE k # l - 1
        <5>1. k \in 1..(l - 1 - 1) /\ k \in 1..n
          BY <1>2, <4>2
        <5>2. out[k].cumul <= Below(out[l - 1]) /\ out[k].cumul \in Int
          BY <1>2, <3>2, <5>1
        <5> QED
          BY <3>2, <3>3, <5>2
      <4> QED
        BY <4>1, <4>2
    <3>5. out[l].cumul \in Nat /\ Below(out[l]) \in Nat
      BY <1>2, <3>2, <3>3
    <3>6. l \in 0..n
      BY <1>2
    <3> QED
      BY <3>4, <3>5, <3>6
  <2> QED
    BY <2>1, <2>2
<1> HIDE DEF G
<1>6. \A l \in 0..n : l \in G
  BY <1>2, <1>4, <1>5, CountingInduction
<1>7. \A l \in 1..n : /\ out[l].cumul \in Nat /\ Below(out[l]) \in Nat
                      /\ \A k \in 1..(l - 1) : out[k].cumul <= Below(out[l])
  <2> SUFFICES ASSUME NEW l \in 1..n
               PROVE  /\ out[l].cumul \in Nat /\ Below(out[l]) \in Nat
                      /\ \A k \in 1..(l - 1) : out[k].cumul <= Below(out[l])
    OBVIOUS
  <2>1. l \in 0..n /\ l > 0
    BY <1>2
  <2> QED
    BY <1>6, <2>1 DEF G
<1>8. \A k, l \in 1..n : k < l => out[k].cumul <= Below(out[l])
  <2> SUFFICES ASSUME NEW k \in 1..n, NEW l \in 1..n, k < l PROVE out[k].cumul <= Below(out[l])
    OBVIOUS
  <2>1. k \in 1..(l - 1)
    BY <1>2
  <2> QED
    BY <1>7, <2>1
<1>9. \A k \in 1..n : /\ out[k].cumul = Below(out[k]) + out[k].capacity
                      /\ Below(out[k]) = IF k = 1 THEN 0 ELSE out[k - 1].cumul
  <2> SUFFICES ASSUME NEW k \in 1..n
               PROVE  /\ out[k].cumul = Below(out[k]) + out[k].capacity
                      /\ Below(out[k]) = IF k = 1 THEN 0 ELSE out[k - 1].cumul
    OBVIOUS
  <2>1. k # 1 => out[k - 1].cumul \in Int
    <3>1. k # 1 => k - 1 \in 1..n
      BY <1>2
    <3> QED
      BY <1>2, <3>1
  <2> QED
    BY <1>2, <1>3, <2>1 DEF Below
<1>10. /\ Height(out) \in Nat
       /\ \A k \in 1..n : out[k].cumul <= Height(out)
  <2>1. CASE out = <<>>
    BY <1>2, <2>1 DEF Height, n
  <2>2. CASE out # <<>>
    <3>1. n \in 1..n /\ Height(out) = out[n].cumul
      BY <1>1, <1>2, <2>2 DEF Height, n
    <3>2. ASSUME NEW k \in 1..n PROVE out[k].cumul <= out[n].cumul
      <4>1. CASE k = n
        BY <1>7, <4>1
      <4>2. CASE k # n
        <5>1. k < n
          BY <1>2, <4>2
        <5>2. out[k].cumul <= Below(out[n]) /\ out[n].capacity \in Nat
              /\ out[n].cumul = Below(out[n]) + out[n].capacity
          BY <1>2, <1>8, <1>9, <3>1, <5>1
        <5>3. Below(out[n]) \in Nat /\ out[k].cumul \in Nat
          BY <1>7, <3>1
        <5> QED
          BY <5>2, <5>3
      <4> QED
        BY <4>1, <4>2
    <3> QED
      BY <1>7, <3>1, <3>2
  <2> QED
    BY <2>1, <2>2
<1>11. /\ Len(out) \in Nat /\ DOMAIN out = 1..Len(out) /\ DOMAIN out = 1..n
  BY <1>2 DEF n
<1>12. \A k \in 1..n :
          /\ out[k].capacity \in Nat /\ out[k].price \in Int /\ out[k].owner \in Int
          /\ out[k].mustRun \in BOOLEAN /\ out[k].cumul \in Nat /\ Below(out[k]) \in Nat
  BY <1>2, <1>7
<1> QED
  BY <1>8, <1>9, <1>10, <1>11, <1>12

\* Of an entry there clears what of it lies within the quantity that clears.
LEMMA ClearedIs ==
    ASSUME NEW out, Stacked(out), NEW k \in DOMAIN out, NEW q \in Nat
    PROVE  /\ Cleared(out[k], q) = AtMost(out[k].cumul, q) - AtMost(Below(out[k]), q)
           /\ Cleared(out[k], q) \in 0..out[k].capacity
           /\ out[k].cumul <= q => Cleared(out[k], q) = out[k].capacity
           /\ q <= Below(out[k]) => Cleared(out[k], q) = 0
           /\ Below(out[k]) <= q /\ q <= out[k].cumul => Cleared(out[k], q) = q - Below(out[k])
           /\ Unmet(out[k], q) = out[k].capacity - Cleared(out[k], q)
<1>1. /\ out[k].capacity \in Nat /\ out[k].cumul \in Nat /\ Below(out[k]) \in Nat
      /\ out[k].cumul = Below(out[k]) + out[k].capacity
  BY StackGrows
<1> QED
  BY <1>1 DEF Cleared, AtMost, AtLeast, Unmet

\* A sum over 1..n comes to h[n] if h starts from 0 and grows by each of its terms.
LEMMA SumTelescopes ==
    ASSUME NEW n \in Nat, NEW g, DOMAIN g = 1..n, \A k \in 1..n : g[k] \in Int,
           NEW h, h[0] = 0, \A k \in 1..n : h[k] = h[k - 1] + g[k]
    PROVE  SumFunction(g) = h[n] /\ h[n] \in Int
<1> DEFINE Part(m) == [k \in 1..m |-> g[k]]
           G == { m \in 0..n : SumFunction(Part(m)) = h[m] /\ h[m] \in Int }
<1>1. 0 \in G
  <2>1. DOMAIN Part(0) = {}
    OBVIOUS
  <2> HIDE DEF Part
  <2>2. SumFunction(Part(0)) = 0
    BY <2>1, SumOfNothing
  <2> QED
    BY <2>2
<1>2. ASSUME NEW m \in 1..n, m - 1 \in G PROVE m \in G
  <2>1. m - 1 \in Nat /\ m \in 0..n
    OBVIOUS
  <2>2. /\ DOMAIN Part(m - 1) = 1..(m - 1) /\ DOMAIN Part(m) = 1..(m - 1 + 1)
        /\ \A i \in 1..(m - 1) : Part(m - 1)[i] \in Int /\ Part(m)[i] = Part(m - 1)[i]
        /\ Part(m)[m - 1 + 1] \in Int /\ Part(m)[m] = g[m] /\ g[m] \in Int
    OBVIOUS
  <2> HIDE DEF Part
  <2>3. SumFunction(Part(m)) = SumFunction(Part(m - 1)) + Part(m)[m - 1 + 1]
    BY <2>1, <2>2, SumOneMore
  <2>4. SumFunction(Part(m - 1)) = h[m - 1] /\ h[m - 1] \in Int /\ h[m] = h[m - 1] + g[m]
    BY <1>2
  <2>5. m - 1 + 1 = m
    OBVIOUS
  <2> QED
    BY <2>1, <2>2, <2>3, <2>4, <2>5
<1>3. SumFunction(Part(n)) = SumFunction(g)
  <2>1. DOMAIN Part(n) = 1..n /\ \A k \in 1..n : g[k] \in Int /\ Part(n)[k] = g[k]
    OBVIOUS
  <2>2. IsFiniteSet(1..n)
    BY FS_Interval
  <2> HIDE DEF Part
  <2>3. SumFunctionOnSet(Part(n), 1..n) = SumFunctionOnSet(g, 1..n)
    BY <2>1, <2>2, SumSame
  <2> QED
    BY <2>1, <2>3 DEF SumFunction
<1> HIDE DEF G, Part
<1>4. \A m \in 0..n : m \in G
  BY <1>1, <1>2, CountingInduction
<1>5. n \in G
  BY <1>4
<1> QED
  BY <1>3, <1>5 DEF G

\* Altogether there clears of a stack the quantity that does, or all if there is no more.
LEMMA ClearedInAll ==
    ASSUME NEW out, Stacked(out), NEW q \in Nat
    PROVE  SumFunction([k \in DOMAIN out |-> Cleared(out[k], q)]) = AtMost(Height(out), q)
<1> DEFINE n == Len(out)
           g == [k \in DOMAIN out |-> Cleared(out[k], q)]
           h == [k \in 0..n |-> AtMost(IF k = 0 THEN 0 ELSE out[k].cumul, q)]
<1>1. n \in Nat /\ DOMAIN out = 1..n
  BY StackGrows
<1>2. DOMAIN g = 1..n /\ \A k \in 1..n : g[k] = Cleared(out[k], q)
  BY <1>1
<1>3. \A k \in 0..n : h[k] = AtMost(IF k = 0 THEN 0 ELSE out[k].cumul, q)
  OBVIOUS
<1> HIDE DEF n, g, h
<1>4. ASSUME NEW k \in 1..n PROVE g[k] \in Int /\ h[k] = h[k - 1] + g[k]
  <2>1. /\ out[k].cumul \in Nat /\ Below(out[k]) \in Nat
        /\ Below(out[k]) = IF k = 1 THEN 0 ELSE out[k - 1].cumul
    BY <1>1, StackGrows
  <2>2. g[k] = AtMost(out[k].cumul, q) - AtMost(Below(out[k]), q)
    BY <1>1, <1>2, ClearedIs
  <2>3. k \in 0..n /\ k - 1 \in 0..n /\ k # 0 /\ (k - 1 = 0 <=> k = 1)
    BY <1>1
  <2>4. h[k] = AtMost(out[k].cumul, q) /\ h[k - 1] = AtMost(Below(out[k]), q)
    BY <1>3, <2>1, <2>3
  <2> QED
    BY <2>1, <2>2, <2>4 DEF AtMost
<1>5. h[0] = 0
  BY <1>1, <1>3 DEF AtMost
<1>6. SumFunction(g) = h[n]
  BY <1>1, <1>2, <1>4, <1>5, SumTelescopes
<1>7. h[n] = AtMost(Height(out), q)
  <2>1. out \in Seq(EntryType)
    BY DEF Stacked
  <2>2. n = 0 <=> out = <<>>
    BY <2>1 DEF n
  <2> QED
    BY <1>1, <1>3, <2>2 DEF Height, n
<1> QED
  BY <1>6, <1>7 DEF g

\* An entry trades what clears of it, unless it clears in part and that is next to nothing.
LEMMA TradedIs ==
    ASSUME NEW out, Stacked(out), NEW k \in DOMAIN out, NEW q \in Nat
    PROVE  /\ Traded(out[k], q) \in 0..out[k].capacity
           /\ Traded(out[k], q) <= Cleared(out[k], q)
           /\ Cleared(out[k], q) - Traded(out[k], q) \in 0..MIN_SETTLED_QUANTITY
           /\ Traded(out[k], q) # Cleared(out[k], q)
                => Traded(out[k], q) = 0 /\ Below(out[k]) < q /\ q < out[k].cumul
<1>1. /\ out[k].capacity \in Nat /\ out[k].cumul \in Nat /\ Below(out[k]) \in Nat
      /\ out[k].cumul = Below(out[k]) + out[k].capacity
  BY StackGrows
<1>2. /\ Cleared(out[k], q) \in 0..out[k].capacity
      /\ out[k].cumul <= q => Cleared(out[k], q) = out[k].capacity
      /\ q <= Below(out[k]) => Cleared(out[k], q) = 0
  BY ClearedIs
<1> QED
  BY <1>1, <1>2 DEF Traded, MIN_SETTLED_QUANTITY

\* Altogether there is traded of a stack what clears, but for one entry that clears next
\* to nothing.
LEMMA TradedInAll ==
    ASSUME NEW out, Stacked(out), NEW q \in Nat
    PROVE  /\ SumFunction([k \in DOMAIN out |-> Traded(out[k], q)]) \in Int
           /\ AtMost(Height(out), q) - SumFunction([k \in DOMAIN out |-> Traded(out[k], q)])
                \in 0..MIN_SETTLED_QUANTITY
<1> DEFINE n == Len(out)
           S == 1..n
           g == [k \in DOMAIN out |-> Cleared(out[k], q)]
           h == [k \in DOMAIN out |-> Traded(out[k], q)]
<1>1. n \in Nat /\ DOMAIN out = S
  BY StackGrows
<1>2. \A k \in S : /\ g[k] = Cleared(out[k], q) /\ h[k] = Traded(out[k], q)
                   /\ g[k] \in Int /\ h[k] \in Int
                   /\ g[k] - h[k] \in 0..MIN_SETTLED_QUANTITY
                   /\ h[k] # g[k] => Below(out[k]) < q /\ q < out[k].cumul
  <2> SUFFICES ASSUME NEW k \in S
               PROVE  LET c == Cleared(out[k], q)
                          t == Traded(out[k], q)
                      IN  /\ c \in Int /\ t \in Int /\ c - t \in 0..MIN_SETTLED_QUANTITY
                          /\ t # c => Below(out[k]) < q /\ q < out[k].cumul
    BY <1>1
  <2>1. out[k].capacity \in Nat /\ k \in DOMAIN out
    BY <1>1, StackGrows
  <2>2. /\ Traded(out[k], q) \in 0..out[k].capacity
        /\ Cleared(out[k], q) - Traded(out[k], q) \in 0..MIN_SETTLED_QUANTITY
        /\ Traded(out[k], q) # Cleared(out[k], q) => Below(out[k]) < q /\ q < out[k].cumul
    BY <2>1, TradedIs
  <2>3. Cleared(out[k], q) \in 0..out[k].capacity
    BY <2>1, ClearedIs
  <2> QED
    BY <2>1, <2>2, <2>3
<1>3. IsFiniteSet(S)
  BY <1>1, FS_Interval
<1>4. DOMAIN g = S /\ DOMAIN h = S
  BY <1>1
<1>5. SumFunction(g) = AtMost(Height(out), q) /\ AtMost(Height(out), q) \in Nat
  <2>1. Height(out) \in Nat
    BY StackGrows
  <2> QED
    BY <2>1, ClearedInAll DEF AtMost
<1> HIDE DEF g, h, n
<1>6. SumFunction(g) = SumFunctionOnSet(g, S) /\ SumFunction(h) = SumFunctionOnSet(h, S)
  BY <1>4 DEF SumFunction
<1>7. CASE \A k \in S : h[k] = g[k]
  <2> HIDE DEF S
  <2>1. SumFunctionOnSet(h, S) = SumFunctionOnSet(g, S)
    BY <1>2, <1>3, <1>7, SumSame
  <2> QED
    BY <1>5, <1>6, <2>1 DEF MIN_SETTLED_QUANTITY, h
<1>8. CASE ~\A k \in S : h[k] = g[k]
  <2>1. PICK y \in S : h[y] # g[y]
    BY <1>8
  <2>2. ASSUME NEW x \in S \ {y} PROVE h[x] = g[x]
    <3>1. SUFFICES ASSUME h[x] # g[x] PROVE FALSE
      OBVIOUS
    <3>2. /\ Below(out[y]) < q /\ q < out[y].cumul /\ Below(out[x]) < q /\ q < out[x].cumul
      BY <1>2, <2>1, <3>1
    <3>3. /\ \A k \in S : out[k].cumul \in Nat /\ Below(out[k]) \in Nat
          /\ \A k, l \in S : k < l => out[k].cumul <= Below(out[l])
      BY <1>1, StackGrows
    <3>4. x < y \/ y < x
      BY <1>1
    <3> QED
      BY <3>2, <3>3, <3>4
  <2> HIDE DEF S
  <2>3. SumFunctionOnSet(h, S) = SumFunctionOnSet(g, S) + h[y] - g[y]
    BY <1>2, <1>3, <2>2, SumChange
  <2>4. /\ g[y] \in Int /\ h[y] \in Int /\ g[y] - h[y] \in 0..MIN_SETTLED_QUANTITY
    BY <1>2
  <2> QED
    BY <1>5, <1>6, <2>3, <2>4 DEF MIN_SETTLED_QUANTITY, h
<1> QED
  BY <1>7, <1>8

-----------------------------------------------------------------------------
(***************************************************************************)
(* Greatest and least of a finite set, and how many entries end by a       *)
(* quantity.                                                               *)
(***************************************************************************)
\* A finite set of numbers that is not empty has a greatest and a least one.
LEMMA MaxAndMinAreIn ==
    ASSUME NEW S \in SUBSET Int, IsFiniteSet(S), S # {}
    PROVE  /\ Max(S) \in S /\ \A y \in S : y <= Max(S)
           /\ Min(S) \in S /\ \A y \in S : Min(S) <= y
<1> DEFINE G == { T \in SUBSET S : T # {} => \E hi, lo \in T : \A y \in T : lo <= y /\ y <= hi }
<1>1. ASSUME NEW T \in SUBSET S, \A U \in SUBSET T : U # T => U \in G
      PROVE  T \in G
  <2> SUFFICES ASSUME T # {}
               PROVE  \E hi, lo \in T : \A y \in T : lo <= y /\ y <= hi
    OBVIOUS
  <2>1. PICK x \in T : TRUE
    OBVIOUS
  <2> DEFINE U == T \ {x}
  <2>2. U \in G /\ x \in Int
    BY <1>1, <2>1
  <2>3. CASE U = {}
    <3>1. \A y \in T : x <= y /\ y <= x
      BY <2>2, <2>3
    <3> QED
      BY <2>1, <3>1
  <2>4. CASE U # {}
    <3>1. PICK hi \in U, lo \in U : \A y \in U : lo <= y /\ y <= hi
      BY <2>2, <2>4
    <3> DEFINE up   == IF x > hi THEN x ELSE hi
               down == IF x < lo THEN x ELSE lo
    <3>2. up \in T /\ down \in T
      BY <2>1
    <3>3. \A y \in T : down <= y /\ y <= up
      <4> SUFFICES ASSUME NEW y \in T PROVE down <= y /\ y <= up
        OBVIOUS
      <4>1. y \in Int /\ hi \in Int /\ lo \in Int /\ (y = x \/ (lo <= y /\ y <= hi))
        BY <3>1
      <4> QED
        BY <2>2, <4>1
    <3> HIDE DEF up, down
    <3> QED
      BY <3>2, <3>3
  <2> QED
    BY <2>3, <2>4
<1> HIDE DEF G
<1>2. S \in G
  <2>1. \A T \in SUBSET S : T \in G
    BY <1>1, SubsetInduction
  <2> QED
    BY <2>1
<1>3. PICK hi \in S, lo \in S : \A y \in S : lo <= y /\ y <= hi
  BY <1>2 DEF G
<1>4. /\ hi \in S /\ \A y \in S : hi >= y
      /\ lo \in S /\ \A y \in S : lo <= y
  BY <1>3
<1>5. Max(S) \in S /\ \A y \in S : Max(S) >= y
  BY <1>4, Zenon DEF Max
<1>6. Min(S) \in S /\ \A y \in S : Min(S) <= y
  BY <1>4, Zenon DEF Min
<1> QED
  BY <1>5, <1>6

\* A set that has, with any of 1..n in it, all that come before it, is 1..u of its size u.
LEMMA FirstOnesCounted ==
    ASSUME NEW n \in Nat, NEW S \in SUBSET (1..n),
           \A i \in S, j \in 1..n : j < i => j \in S
    PROVE  Cardinality(S) \in 0..n /\ S = 1..Cardinality(S)
<1>1. IsFiniteSet(S)
  <2> DEFINE all == 1..n
  <2>1. IsFiniteSet(all) /\ S \in SUBSET all
    BY FS_Interval
  <2> HIDE DEF all
  <2> QED
    BY <2>1, FS_Subset
<1>2. \E u \in 0..n : S = 1..u
  <2>1. CASE S = {}
    BY <2>1
  <2>2. CASE S # {}
    <3> DEFINE top == Max(S)
    <3>1. top \in S /\ \A y \in S : y <= top
      BY <1>1, <2>2, MaxAndMinAreIn
    <3> HIDE DEF top
    <3>2. top \in 1..n
      BY <3>1
    <3>3. \A y \in S : y \in 1..top
      BY <3>1, <3>2
    <3>4. \A y \in 1..top : y \in S
      <4> SUFFICES ASSUME NEW y \in 1..top PROVE y \in S
        OBVIOUS
      <4>1. y \in 1..n /\ (y = top \/ y < top)
        BY <3>2
      <4> QED
        BY <3>1, <4>1
    <3>5. S = 1..top
      BY <3>3, <3>4
    <3>6. top \in 0..n
      BY <3>2
    <3> QED
      BY <3>5, <3>6
  <2> QED
    BY <2>1, <2>2
<1>3. PICK u \in 0..n : S = 1..u
  BY <1>2
<1>4. Cardinality(1..u) = u
  BY FS_Interval
<1> QED
  BY <1>3, <1>4

\* How many entries of a stack end below a quantity, or at it: the first ones.
LEMMA FirstEntriesCounted ==
    ASSUME NEW out, Stacked(out), NEW x \in Int
    PROVE  /\ LET u == Cardinality({ i \in DOMAIN out : out[i].cumul < x })
              IN  u \in 0..Len(out) /\ \A i \in DOMAIN out : out[i].cumul < x <=> i <= u
           /\ LET u == Cardinality({ i \in DOMAIN out : out[i].cumul <= x })
              IN  u \in 0..Len(out) /\ \A i \in DOMAIN out : out[i].cumul <= x <=> i <= u
<1> DEFINE n == Len(out)
           S == { i \in DOMAIN out : out[i].cumul < x }
           T == { i \in DOMAIN out : out[i].cumul <= x }
<1>1. /\ n \in Nat /\ DOMAIN out = 1..n
      /\ \A i \in 1..n : out[i].cumul \in Nat /\ Below(out[i]) \in Nat
                         /\ Below(out[i]) <= out[i].cumul
      /\ \A k, l \in 1..n : k < l => out[k].cumul <= Below(out[l])
  <2>1. \A i \in DOMAIN out : /\ out[i].cumul \in Nat /\ Below(out[i]) \in Nat
                              /\ out[i].capacity \in Nat
                              /\ out[i].cumul = Below(out[i]) + out[i].capacity
    BY StackGrows
  <2>2. \A i \in DOMAIN out : Below(out[i]) <= out[i].cumul
    BY <2>1
  <2> QED
    BY <2>1, <2>2, StackGrows
<1>2. \A i, j \in 1..n : j < i => out[j].cumul <= out[i].cumul
  <2> SUFFICES ASSUME NEW i \in 1..n, NEW j \in 1..n, j < i PROVE out[j].cumul <= out[i].cumul
    OBVIOUS
  <2> QED
    BY <1>1
<1>3. S \in SUBSET (1..n) /\ \A i \in S, j \in 1..n : j < i => j \in S
  BY <1>1, <1>2
<1>4. T \in SUBSET (1..n) /\ \A i \in T, j \in 1..n : j < i => j \in T
  BY <1>1, <1>2
<1>5. Cardinality(S) \in 0..n /\ S = 1..Cardinality(S)
  BY <1>1, <1>3, FirstOnesCounted
<1>6. Cardinality(T) \in 0..n /\ T = 1..Cardinality(T)
  BY <1>1, <1>4, FirstOnesCounted
<1>7. \A i \in DOMAIN out : (out[i].cumul < x <=> i \in S) /\ (out[i].cumul <= x <=> i \in T)
  OBVIOUS
<1> HIDE DEF S, T
<1>8. \A i \in DOMAIN out : out[i].cumul < x <=> i <= Cardinality(S)
  BY <1>1, <1>5, <1>7
<1>9. \A i \in DOMAIN out : out[i].cumul <= x <=> i <= Cardinality(T)
  BY <1>1, <1>6, <1>7
<1> QED
  BY <1>5, <1>6, <1>8, <1>9 DEF S, T

-----------------------------------------------------------------------------
(***************************************************************************)
(* Where the market clears.                                                *)
(***************************************************************************)
\* Offers and demands in merit order.
OffersInOrder(out) ==
    /\ Stacked(out)
    /\ \A k \in DOMAIN out : -Unbounded < out[k].price /\ out[k].price < Unbounded
    /\ \A k, l \in DOMAIN out : k < l => out[k].price <= out[l].price
DemandsInOrder(out) ==
    /\ Stacked(out)
    /\ \A k \in DOMAIN out : -Unbounded < out[k].price
    /\ \A k, l \in DOMAIN out : k < l => out[l].price <= out[k].price

\* Nobody who could trade is left when the market clears at q: of what ends before q,
\* each offer leaves a next one that the bid there meets, and each demand a next bid that
\* meets the ask.
NoStopBefore(offers, demands, q) ==
    /\ \A i \in DOMAIN offers :
          offers[i].cumul < q => /\ i < Len(offers)
                                 /\ NextAsk(offers, i) <= BidAt(offers, demands, i)
    /\ \A j \in DOMAIN demands :
          demands[j].cumul < q => AskAt(offers, demands, j) <= NextBid(demands, j)

\* The market clears where an offer ends, at the bid there, or else where a demand does,
\* at the ask there.
StopsAtOffer(offers, demands, q, price, i) ==
    /\ i \in OffersThatStop(offers, demands) /\ offers[i].cumul = q
    /\ price = BidAt(offers, demands, i)
StopsAtDemand(offers, demands, q, price, j) ==
    /\ \A i \in OffersThatStop(offers, demands) : offers[i].cumul # q
    /\ j \in DemandsThatStop(offers, demands) /\ demands[j].cumul = q
    /\ price = AskAt(offers, demands, j)

\* The asks and bids to come are integers; that to come of an offer used up is unbounded
\* if it was the last.
LEMMA AsksAndBids ==
    ASSUME NEW offers, OffersInOrder(offers), NEW demands, DemandsInOrder(demands)
    PROVE  /\ \A i \in 0..Len(offers) :
                 /\ NextAsk(offers, i) \in Int
                 /\ NextAsk(offers, i) = Unbounded <=> i = Len(offers)
                 /\ -Unbounded < NextAsk(offers, i)
                 /\ i < Len(offers) => NextAsk(offers, i) = offers[i + 1].price
           /\ \A j \in 0..Len(demands) :
                 /\ NextBid(demands, j) \in Int
                 /\ NextBid(demands, j) = -Unbounded <=> j = Len(demands)
                 /\ -Unbounded <= NextBid(demands, j)
                 /\ j < Len(demands) => NextBid(demands, j) = demands[j + 1].price
           /\ \A i \in DOMAIN offers : BidAt(offers, demands, i) \in Int
           /\ \A j \in DOMAIN demands : AskAt(offers, demands, j) \in Int
<1> DEFINE n == Len(offers)
           m == Len(demands)
<1>1. Stacked(offers) /\ Stacked(demands)
  BY DEF OffersInOrder, DemandsInOrder
<1>2. /\ n \in Nat /\ DOMAIN offers = 1..n
      /\ \A k \in 1..n : offers[k].cumul \in Int /\ offers[k].price \in Int
  BY <1>1, StackGrows
<1>3. /\ m \in Nat /\ DOMAIN demands = 1..m
      /\ \A k \in 1..m : demands[k].cumul \in Int /\ demands[k].price \in Int
  BY <1>1, StackGrows
<1> HIDE DEF n, m
<1>4. ASSUME NEW i \in 0..n
      PROVE  /\ NextAsk(offers, i) \in Int
             /\ NextAsk(offers, i) = Unbounded <=> i = n
             /\ -Unbounded < NextAsk(offers, i)
             /\ i < n => NextAsk(offers, i) = offers[i + 1].price
  <2>1. CASE i < n
    <3>1. i + 1 \in 1..n
      BY <1>2, <2>1
    <3>2. /\ offers[i + 1].price \in Int /\ -Unbounded < offers[i + 1].price
          /\ offers[i + 1].price < Unbounded
      BY <1>2, <3>1 DEF OffersInOrder
    <3> QED
      BY <1>2, <2>1, <3>2, SMT DEF NextAsk, Unbounded, n
  <2>2. CASE i = n
    BY <1>2, <2>2, SMT DEF NextAsk, Unbounded, n
  <2>3. i < n \/ i = n
    BY <1>2
  <2> QED
    BY <2>1, <2>2, <2>3
<1>5. ASSUME NEW j \in 0..m
      PROVE  /\ NextBid(demands, j) \in Int
             /\ NextBid(demands, j) = -Unbounded <=> j = m
             /\ -Unbounded <= NextBid(demands, j)
             /\ j < m => NextBid(demands, j) = demands[j + 1].price
  <2>1. CASE j < m
    <3>1. j + 1 \in 1..m
      BY <1>3, <2>1
    <3>2. demands[j + 1].price \in Int /\ -Unbounded < demands[j + 1].price
      BY <1>3, <3>1 DEF DemandsInOrder
    <3> QED
      BY <1>3, <2>1, <3>2, SMT DEF NextBid, Unbounded, m
  <2>2. CASE j = m
    BY <1>3, <2>2, SMT DEF NextBid, Unbounded, m
  <2>3. j < m \/ j = m
    BY <1>3
  <2> QED
    BY <2>1, <2>2, <2>3
<1>6. ASSUME NEW i \in DOMAIN offers PROVE BidAt(offers, demands, i) \in Int
  <2>1. offers[i].cumul \in Int
    BY <1>2
  <2>2. Cardinality({ j \in DOMAIN demands : demands[j].cumul < offers[i].cumul }) \in 0..m
    BY <1>1, <2>1, FirstEntriesCounted DEF m
  <2> QED
    BY <1>5, <2>2 DEF BidAt
<1>7. ASSUME NEW j \in DOMAIN demands PROVE AskAt(offers, demands, j) \in Int
  <2>1. demands[j].cumul \in Int
    BY <1>3
  <2>2. Cardinality({ i \in DOMAIN offers : offers[i].cumul <= demands[j].cumul }) \in 0..n
    BY <1>1, <2>1, FirstEntriesCounted DEF n
  <2> QED
    BY <1>4, <2>2 DEF AskAt
<1> QED
  BY <1>4, <1>5, <1>6, <1>7 DEF n, m

\* Where the market clears, if its best offer and bid meet: within both stacks, and as
\* soon as there is a stop.
LEMMA MarketStops ==
    ASSUME NEW offers, OffersInOrder(offers), NEW demands, DemandsInOrder(demands),
           offers # <<>>, demands # <<>>, ~(offers[1].price > demands[1].price),
           NEW optimum, optimum = MarketOptimum(offers, demands)
    PROVE  /\ optimum.quantity \in Nat
           /\ optimum.quantity <= Height(offers) /\ optimum.quantity <= Height(demands)
           /\ NoStopBefore(offers, demands, optimum.quantity)
           /\ \/ \E i \in DOMAIN offers :
                    StopsAtOffer(offers, demands, optimum.quantity, optimum.price, i)
              \/ \E j \in DOMAIN demands :
                    StopsAtDemand(offers, demands, optimum.quantity, optimum.price, j)
<1> DEFINE n == Len(offers)
           m == Len(demands)
           ends(i) == offers[i].cumul
           wants(j) == demands[j].cumul
           stopI == OffersThatStop(offers, demands)
           stopJ == DemandsThatStop(offers, demands)
           atOffer  == { offers[i].cumul : i \in stopI }
           atDemand == { demands[j].cumul : j \in stopJ }
           q == Min(atOffer \cup atDemand)
<1>1. Stacked(offers) /\ Stacked(demands)
  BY DEF OffersInOrder, DemandsInOrder
<1>2. /\ n \in Nat /\ n > 0 /\ DOMAIN offers = 1..n /\ Height(offers) = ends(n)
      /\ \A i \in 1..n : ends(i) \in Nat /\ ends(i) <= Height(offers)
  <2>1. offers \in Seq(EntryType)
    BY <1>1 DEF Stacked
  <2>2. n # 0
    BY <2>1
  <2> QED
    BY <1>1, <2>2, StackGrows DEF Height
<1>3. /\ m \in Nat /\ m > 0 /\ DOMAIN demands = 1..m /\ Height(demands) = wants(m)
      /\ \A j \in 1..m : wants(j) \in Nat /\ wants(j) <= Height(demands)
  <2>1. demands \in Seq(EntryType)
    BY <1>1 DEF Stacked
  <2>2. m # 0
    BY <2>1
  <2> QED
    BY <1>1, <2>2, StackGrows DEF Height
<1>4. /\ stopI = { i \in 1..n : \/ BidAt(offers, demands, i) < NextAsk(offers, i)
                                \/ NextAsk(offers, i) = Unbounded }
      /\ stopJ = { j \in 1..m : NextBid(demands, j) < AskAt(offers, demands, j) }
  BY <1>2, <1>3 DEF OffersThatStop, DemandsThatStop
<1>5. /\ optimum.quantity = q
      /\ optimum.price = IF q \in atOffer
                           THEN BidAt(offers, demands,
                                      CHOOSE i \in DOMAIN offers : offers[i].cumul = q)
                         ELSE AskAt(offers, demands,
                                    CHOOSE j \in DOMAIN demands : demands[j].cumul = q)
  BY DEF MarketOptimum
<1> HIDE DEF stopI, stopJ, n, m
<1>6. /\ \A i \in 0..n : /\ NextAsk(offers, i) \in Int
                         /\ NextAsk(offers, i) = Unbounded <=> i = n
                         /\ -Unbounded < NextAsk(offers, i)
      /\ \A j \in 0..m : /\ NextBid(demands, j) \in Int
                         /\ NextBid(demands, j) = -Unbounded <=> j = m
      /\ \A i \in 1..n : BidAt(offers, demands, i) \in Int
      /\ \A j \in 1..m : AskAt(offers, demands, j) \in Int
  BY <1>2, <1>3, AsksAndBids DEF n, m
<1>7. stopI \subseteq 1..n /\ stopJ \subseteq 1..m /\ n \in stopI
  <2>1. n \in 1..n /\ NextAsk(offers, n) = Unbounded
    BY <1>2, <1>6
  <2> QED
    BY <1>4, <2>1
<1>8. /\ q \in atOffer \cup atDemand
      /\ \A x \in atOffer \cup atDemand : q <= x
  <2> DEFINE S == atOffer \cup atDemand
             top == Height(offers) + Height(demands)
  <2>1. Height(offers) \in Nat /\ Height(demands) \in Nat
    BY <1>1, StackGrows
  <2>2. \A x \in S : x \in Nat /\ (x <= Height(offers) \/ x <= Height(demands))
    BY <1>2, <1>3, <1>7
  <2>3. S \in SUBSET Nat /\ S \in SUBSET Int /\ top \in Nat /\ \A x \in S : x <= top
    <3> HIDE DEF S
    <3>1. \A x \in S : x <= top
      BY <2>1, <2>2
    <3> QED
      BY <2>1, <2>2, <3>1
  <2>4. S # {}
    BY <1>7
  <2> HIDE DEF S, top
  <2>5. IsFiniteSet(S)
    BY <2>3, FS_BoundedSetOfNaturals
  <2> QED
    BY <2>3, <2>4, <2>5, MaxAndMinAreIn DEF S
<1> HIDE DEF q
<1>9. q \in Nat /\ q <= Height(offers)
  <2>1. q \in Nat
    BY <1>2, <1>3, <1>7, <1>8
  <2>2. ends(n) \in atOffer
    BY <1>7
  <2> QED
    BY <1>2, <1>8, <2>1, <2>2
<1>10. q <= Height(demands)
  <2>1. CASE Height(offers) <= Height(demands)
    <3>1. Height(offers) \in Nat /\ Height(demands) \in Nat
      BY <1>1, StackGrows
    <3> QED
      BY <1>9, <2>1, <3>1
  <2>2. CASE ~(Height(offers) <= Height(demands))
    <3> DEFINE used == Cardinality({ i \in DOMAIN offers : offers[i].cumul <= demands[m].cumul })
    <3>1. m \in 1..m /\ m \in 0..m /\ n \in 1..n
      BY <1>2, <1>3
    <3>2. wants(m) \in Int
      BY <1>3, <3>1
    <3>3. used \in 0..n /\ \A i \in DOMAIN offers : offers[i].cumul <= demands[m].cumul <=> i <= used
      BY <1>1, <3>2, FirstEntriesCounted DEF n
    <3>4. ~(ends(n) <= wants(m))
      BY <1>2, <1>3, <2>2
    <3>5. NextBid(demands, m) = -Unbounded /\ AskAt(offers, demands, m) = NextAsk(offers, used)
      BY <1>6, <3>1 DEF AskAt
    <3> HIDE DEF used
    <3>6. -Unbounded < NextAsk(offers, used)
      BY <1>6, <3>3
    <3>7. m \in stopJ
      BY <1>4, <3>1, <3>5, <3>6
    <3>8. wants(m) \in atDemand
      BY <3>7
    <3> QED
      BY <1>3, <1>8, <3>8
  <2> QED
    BY <2>1, <2>2
<1>11. NoStopBefore(offers, demands, q)
  <2>1. ASSUME NEW i \in 1..n, ends(i) < q
        PROVE  i < n /\ NextAsk(offers, i) <= BidAt(offers, demands, i)
    <3>1. i \notin stopI
      <4>1. SUFFICES ASSUME i \in stopI PROVE FALSE
        OBVIOUS
      <4>2. ends(i) \in atOffer
        BY <4>1
      <4>3. q <= ends(i)
        BY <1>8, <4>2
      <4>4. ends(i) \in Int /\ q \in Int
        BY <1>2, <1>9
      <4> QED
        BY <2>1, <4>3, <4>4
    <3>2. /\ ~(BidAt(offers, demands, i) < NextAsk(offers, i))
          /\ NextAsk(offers, i) # Unbounded
      BY <1>4, <3>1
    <3>3. i \in 0..n /\ i # n
      BY <1>2, <1>6, <3>2
    <3>4. BidAt(offers, demands, i) \in Int /\ NextAsk(offers, i) \in Int
      BY <1>6, <3>3
    <3> QED
      BY <1>2, <3>2, <3>3, <3>4
  <2>2. ASSUME NEW j \in 1..m, wants(j) < q
        PROVE  AskAt(offers, demands, j) <= NextBid(demands, j)
    <3>1. j \notin stopJ
      <4>1. SUFFICES ASSUME j \in stopJ PROVE FALSE
        OBVIOUS
      <4>2. wants(j) \in atDemand
        BY <4>1
      <4>3. q <= wants(j)
        BY <1>8, <4>2
      <4>4. wants(j) \in Int /\ q \in Int
        BY <1>3, <1>9
      <4> QED
        BY <2>2, <4>3, <4>4
    <3>2. ~(NextBid(demands, j) < AskAt(offers, demands, j))
      BY <1>4, <3>1
    <3>3. j \in 0..m
      BY <1>3
    <3>4. AskAt(offers, demands, j) \in Int /\ NextBid(demands, j) \in Int
      BY <1>6, <3>3
    <3> QED
      BY <3>2, <3>4
  <2> QED
    BY <1>2, <1>3, <2>1, <2>2 DEF NoStopBefore, n
<1>12. \/ \E i \in DOMAIN offers : StopsAtOffer(offers, demands, q, optimum.price, i)
       \/ \E j \in DOMAIN demands : StopsAtDemand(offers, demands, q, optimum.price, j)
  <2>1. CASE q \in atOffer
    <3>1. PICK i \in stopI : offers[i].cumul = q
      BY <2>1
    <3> DEFINE c == CHOOSE k \in DOMAIN offers : offers[k].cumul = q
    <3>2. i \in DOMAIN offers
      BY <1>2, <1>7, <3>1
    <3>3. c \in DOMAIN offers /\ offers[c].cumul = q
      BY <3>1, <3>2, Zenon
    <3>4. optimum.price = BidAt(offers, demands, c)
      BY <1>5, <2>1
    <3> HIDE DEF c
    <3>5. BidAt(offers, demands, c) = BidAt(offers, demands, i)
      BY <3>1, <3>3 DEF BidAt
    <3>6. StopsAtOffer(offers, demands, q, optimum.price, i)
      BY <3>1, <3>4, <3>5 DEF StopsAtOffer, stopI
    <3> QED
      BY <3>2, <3>6
  <2>2. CASE q \notin atOffer
    <3>1. PICK j \in stopJ : demands[j].cumul = q
      BY <1>8, <2>2
    <3> DEFINE c == CHOOSE k \in DOMAIN demands : demands[k].cumul = q
    <3>2. j \in DOMAIN demands
      BY <1>3, <1>7, <3>1
    <3>3. c \in DOMAIN demands /\ demands[c].cumul = q
      BY <3>1, <3>2, Zenon
    <3>4. optimum.price = AskAt(offers, demands, c)
      BY <1>5, <2>2
    <3> HIDE DEF c
    <3>5. AskAt(offers, demands, c) = AskAt(offers, demands, j)
      BY <3>1, <3>3 DEF AskAt
    <3>6. \A i \in stopI : offers[i].cumul # q
      BY <2>2
    <3>7. StopsAtDemand(offers, demands, q, optimum.price, j)
      BY <3>1, <3>4, <3>5, <3>6 DEF StopsAtDemand, stopI, stopJ
    <3> QED
      BY <3>2, <3>7
  <2> QED
    BY <2>1, <2>2
<1> QED
  BY <1>5, <1>9, <1>10, <1>11, <1>12

\* However a market's book ends up, it clears a quantity that both sides can trade.
LEMMA ClearsWhatThereIs ==
    ASSUME NEW offers, OffersInOrder(offers), NEW demands, DemandsInOrder(demands),
           NEW optimum, optimum = MarketOptimum(offers, demands)
    PROVE  /\ optimum.quantity \in Nat /\ optimum.price \in Int
           /\ optimum.quantity <= Height(offers) /\ optimum.quantity <= Height(demands)
<1>1. Stacked(offers) /\ Stacked(demands)
  BY DEF OffersInOrder, DemandsInOrder
<1>2. Height(offers) \in Nat /\ Height(demands) \in Nat
  BY <1>1, StackGrows
<1>3. CASE offers = <<>> \/ demands = <<>>
  <2>1. optimum = [price |-> 0, quantity |-> 0]
    BY <1>3 DEF MarketOptimum
  <2> QED
    BY <1>2, <2>1
<1>4. CASE offers # <<>> /\ demands # <<>> /\ offers[1].price > demands[1].price
  <2>1. optimum = [price |-> demands[1].price, quantity |-> 0]
    BY <1>4 DEF MarketOptimum
  <2>2. 1 \in DOMAIN demands
    <3>1. demands \in Seq(EntryType)
      BY <1>1 DEF Stacked
    <3> QED
      BY <1>4, <3>1
  <2>3. demands[1].price \in Int
    BY <1>1, <2>2, StackGrows
  <2> QED
    BY <1>2, <2>1, <2>3
<1>5. CASE offers # <<>> /\ demands # <<>> /\ ~(offers[1].price > demands[1].price)
  <2>1. /\ optimum.quantity \in Nat
        /\ optimum.quantity <= Height(offers) /\ optimum.quantity <= Height(demands)
        /\ \/ \E i \in DOMAIN offers :
                 StopsAtOffer(offers, demands, optimum.quantity, optimum.price, i)
           \/ \E j \in DOMAIN demands :
                 StopsAtDemand(offers, demands, optimum.quantity, optimum.price, j)
    BY <1>5, MarketStops
  <2>2. optimum.price \in Int
    BY <2>1, AsksAndBids DEF StopsAtOffer, StopsAtDemand
  <2> QED
    BY <2>1, <2>2
<1> QED
  BY <1>3, <1>4, <1>5

-----------------------------------------------------------------------------
(***************************************************************************)
(* Sums over a book's entries, in whatever order.                          *)
(***************************************************************************)
\* A sum may be taken in any order: over S of g, or over what S is matched with by p.
LEMMA SumRearranged ==
    ASSUME NEW S, IsFiniteSet(S), NEW T, IsFiniteSet(T), NEW p \in [S -> T],
           \A x, y \in S : p[x] = p[y] => x = y, \A t \in T : \E x \in S : p[x] = t,
           NEW f, \A t \in T : f[t] \in Int, NEW g, \A x \in S : g[x] = f[p[x]]
    PROVE  SumFunctionOnSet(g, S) = SumFunctionOnSet(f, T)
<1> DEFINE Image(U) == { p[x] : x \in U }
           G == { U \in SUBSET S : SumFunctionOnSet(g, U) = SumFunctionOnSet(f, Image(U)) }
<1>1. ASSUME NEW U \in SUBSET S, \A V \in SUBSET U : V # U => V \in G
      PROVE  U \in G
  <2>1. IsFiniteSet(U) /\ \A x \in U : g[x] \in Int
    BY FS_Subset
  <2>2. Image(U) \in SUBSET T
    OBVIOUS
  <2>3. IsFiniteSet(Image(U)) /\ \A t \in Image(U) : f[t] \in Int
    <3> HIDE DEF Image
    <3> QED
      BY <2>2, FS_Subset
  <2>4. CASE U = {}
    <3>1. Image(U) = {}
      BY <2>4
    <3>2. SumFunctionOnSet(g, U) = 0
      BY <2>1, <2>4, SumStep
    <3>3. SumFunctionOnSet(f, Image(U)) = 0
      BY <2>3, <3>1, SumStep
    <3> QED
      BY <3>2, <3>3
  <2>5. CASE U # {}
    <3>1. PICK x \in U : TRUE
      BY <2>5
    <3>2. U \ {x} \in G
      BY <1>1, <3>1
    <3>3. p[x] \in Image(U)
      OBVIOUS
    <3>4. Image(U) \ {p[x]} = Image(U \ {x})
      BY <3>1
    <3> HIDE DEF Image
    <3>5. SumFunctionOnSet(g, U) = g[x] + SumFunctionOnSet(g, U \ {x})
      BY <2>1, <3>1, SumSplit
    <3>6. SumFunctionOnSet(f, Image(U)) = f[p[x]] + SumFunctionOnSet(f, Image(U) \ {p[x]})
      BY <2>3, <3>3, SumSplit
    <3>7. SumFunctionOnSet(g, U \ {x}) = SumFunctionOnSet(f, Image(U \ {x}))
      BY <3>2
    <3> QED
      BY <3>1, <3>4, <3>5, <3>6, <3>7
  <2> QED
    BY <2>4, <2>5
<1>2. Image(S) = T
  OBVIOUS
<1> HIDE DEF G, Image
<1>3. \A U \in SUBSET S : U \in G
  BY <1>1, SubsetInduction
<1>4. S \in G
  BY <1>3
<1> QED
  BY <1>2, <1>4 DEF G

\* A factor common to all terms of a sum is one of the sum.
LEMMA SumScaled ==
    ASSUME NEW S, IsFiniteSet(S), NEW g, NEW h, NEW c \in Int,
           \A x \in S : g[x] \in Int /\ h[x] = g[x] * c
    PROVE  SumFunctionOnSet(h, S) = SumFunctionOnSet(g, S) * c
<1> DEFINE G == { T \in SUBSET S : SumFunctionOnSet(h, T) = SumFunctionOnSet(g, T) * c }
<1>1. ASSUME NEW T \in SUBSET S, \A U \in SUBSET T : U # T => U \in G
      PROVE  T \in G
  <2>1. IsFiniteSet(T) /\ \A x \in T : g[x] \in Int /\ h[x] \in Int
    BY FS_Subset
  <2>2. CASE T = {}
    BY <2>1, <2>2, SumStep
  <2>3. CASE T # {}
    <3>1. PICK x \in T : TRUE
      BY <2>3
    <3>2. T \ {x} \in G
      BY <1>1, <3>1
    <3>3. /\ SumFunctionOnSet(g, T) = g[x] + SumFunctionOnSet(g, T \ {x})
          /\ SumFunctionOnSet(g, T \ {x}) \in Int
          /\ SumFunctionOnSet(h, T) = h[x] + SumFunctionOnSet(h, T \ {x})
      BY <2>1, <3>1, SumSplit
    <3> DEFINE a == SumFunctionOnSet(g, T \ {x})
    <3>4. SumFunctionOnSet(h, T \ {x}) = a * c
      BY <3>2
    <3>5. SumFunctionOnSet(g, T) = g[x] + a /\ a \in Int /\ g[x] \in Int /\ h[x] = g[x] * c
      BY <2>1, <3>1, <3>3
    <3>6. SumFunctionOnSet(h, T) = g[x] * c + a * c
      BY <3>3, <3>4, <3>5
    <3> HIDE DEF a
    <3>7. (g[x] + a) * c = g[x] * c + a * c
      BY <3>5
    <3> QED
      BY <3>5, <3>6, <3>7
  <2> QED
    BY <2>2, <2>3
<1> HIDE DEF G
<1>2. \A T \in SUBSET S : T \in G
  BY <1>1, SubsetInduction
<1>3. S \in G
  BY <1>2
<1> QED
  BY <1>3 DEF G

\* A sum whose terms are no more than those of another is no more than it.
LEMMA SumNoMore ==
    ASSUME NEW S, IsFiniteSet(S), NEW g, NEW h,
           \A x \in S : g[x] \in Int /\ h[x] \in Int /\ g[x] <= h[x]
    PROVE  SumFunctionOnSet(g, S) <= SumFunctionOnSet(h, S)
<1> DEFINE G == { T \in SUBSET S : SumFunctionOnSet(g, T) <= SumFunctionOnSet(h, T) }
<1>1. ASSUME NEW T \in SUBSET S, \A U \in SUBSET T : U # T => U \in G
      PROVE  T \in G
  <2>1. IsFiniteSet(T) /\ \A x \in T : g[x] \in Int /\ h[x] \in Int
    BY FS_Subset
  <2>2. CASE T = {}
    BY <2>1, <2>2, SumStep
  <2>3. CASE T # {}
    <3>1. PICK x \in T : TRUE
      BY <2>3
    <3>2. T \ {x} \in G
      BY <1>1, <3>1
    <3>3. /\ SumFunctionOnSet(g, T) = g[x] + SumFunctionOnSet(g, T \ {x})
          /\ SumFunctionOnSet(g, T \ {x}) \in Int
          /\ SumFunctionOnSet(h, T) = h[x] + SumFunctionOnSet(h, T \ {x})
          /\ SumFunctionOnSet(h, T \ {x}) \in Int
      BY <2>1, <3>1, SumSplit
    <3>4. g[x] <= h[x] /\ g[x] \in Int /\ h[x] \in Int
      BY <3>1
    <3> QED
      BY <3>2, <3>3, <3>4
  <2> QED
    BY <2>2, <2>3
<1> HIDE DEF G
<1>2. \A T \in SUBSET S : T \in G
  BY <1>1, SubsetInduction
<1>3. S \in G
  BY <1>2
<1> QED
  BY <1>3 DEF G

-----------------------------------------------------------------------------
(***************************************************************************)
(* The clearing of a book, and its balance.                                *)
(***************************************************************************)
\* A book's prices are finite, but for bids at no limit.
IsBook(book) ==
    /\ book.offers \in Seq(EntryType) /\ book.demands \in Seq(EntryType)
    /\ \A i \in DOMAIN book.offers :
          -Unbounded < book.offers[i].price /\ book.offers[i].price < Unbounded
    /\ \A j \in DOMAIN book.demands : -Unbounded < book.demands[j].price

\* out[k] is what place[k] is among the entries, but for how high it lies.
KeepsEntries(out, entries, place) ==
    /\ DOMAIN out = DOMAIN entries
    /\ \A k \in DOMAIN out :
          /\ place[k] \in DOMAIN entries
          /\ out[k].owner = entries[place[k]].owner
          /\ out[k].capacity = entries[place[k]].capacity
          /\ out[k].price = entries[place[k]].price
          /\ out[k].mustRun = entries[place[k]].mustRun
    /\ \A k, l \in DOMAIN out : place[k] = place[l] => k = l
    /\ \A i \in DOMAIN entries : \E k \in DOMAIN out : place[k] = i

\* What an arrangement keeps of an entry.
LEMMA ArrangedKeeps ==
    ASSUME NEW entries \in Seq(EntryType), NEW descending \in BOOLEAN, NEW out, Stacked(out),
           NEW place, Arranges(out, entries, descending, place)
    PROVE  KeepsEntries(out, entries, place)
<1>1. /\ DOMAIN entries = 1..Len(entries) /\ Len(entries) \in Nat
      /\ DOMAIN out = 1..Len(out) /\ Len(out) = Len(entries)
  BY EntriesTyped, StackGrows DEF Arranges
<1>2. \A i \in DOMAIN entries : entries[i] \in EntryType
  BY EntriesTyped
<1>3. ASSUME NEW k \in DOMAIN out
      PROVE  /\ place[k] \in DOMAIN entries
             /\ out[k].owner = entries[place[k]].owner
             /\ out[k].capacity = entries[place[k]].capacity
             /\ out[k].price = entries[place[k]].price
             /\ out[k].mustRun = entries[place[k]].mustRun
  <2>1. place[k] \in DOMAIN entries
    BY DEF Arranges
  <2> DEFINE entry == entries[place[k]]
  <2>2. entry \in EntryType
    BY <1>2, <2>1
  <2>3. out[k] = [entry EXCEPT !.cumul = out[k].cumul]
    BY DEF Arranges
  <2> HIDE DEF entry
  <2>4. /\ out[k].owner = entry.owner /\ out[k].capacity = entry.capacity
        /\ out[k].price = entry.price /\ out[k].mustRun = entry.mustRun
    BY <2>2, <2>3 DEF EntryType
  <2> QED
    BY <2>1, <2>4 DEF entry
<1>4. ASSUME NEW k \in DOMAIN out, NEW l \in DOMAIN out, place[k] = place[l] PROVE k = l
  <2>1. SUFFICES ASSUME k < l \/ l < k PROVE FALSE
    BY <1>1
  <2>2. GoesBefore(entries, descending, place[k], place[k])
    BY <1>4, <2>1 DEF Arranges
  <2>3. place[k] \in Int /\ entries[place[k]].price \in Int
    BY <1>1, <1>3, EntriesTyped
  <2> QED
    BY <2>2, <2>3 DEF GoesBefore
<1> QED
  BY <1>1, <1>3, <1>4 DEF Arranges, KeepsEntries

\* A book's offers and demands are put in order, each once.
LEMMA OffersAreOrdered ==
    ASSUME NEW book, IsBook(book)
    PROVE  /\ OffersInOrder(MeritOrder(book.offers, FALSE))
           /\ \E place : Arranges(MeritOrder(book.offers, FALSE), book.offers, FALSE, place)
<1> DEFINE entries == book.offers
           out == MeritOrder(entries, FALSE)
<1>1. entries \in Seq(EntryType)
  BY DEF IsBook
<1>2. Stacked(out) /\ \E place : Arranges(out, entries, FALSE, place)
  BY <1>1, MeritOrderArranges
<1>3. PICK place : Arranges(out, entries, FALSE, place)
  BY <1>2
<1> HIDE DEF out
<1>4. /\ DOMAIN out = DOMAIN entries
      /\ \A k \in DOMAIN out : /\ place[k] \in DOMAIN entries
                               /\ out[k].price = entries[place[k]].price
  <2> HIDE DEF entries
  <2>1. Stacked(out) /\ FALSE \in BOOLEAN
    BY <1>2
  <2>2. KeepsEntries(out, entries, place)
    BY <1>1, <1>3, <2>1, ArrangedKeeps
  <2> QED
    BY <2>2 DEF KeepsEntries
<1>5. \A k \in DOMAIN out : -Unbounded < out[k].price /\ out[k].price < Unbounded
  BY <1>4 DEF IsBook
<1>6. ASSUME NEW k \in DOMAIN out, NEW l \in DOMAIN out, k < l PROVE out[k].price <= out[l].price
  <2>1. GoesBefore(entries, FALSE, place[k], place[l])
    BY <1>3, <1>6 DEF Arranges
  <2>2. out[k].price \in Int /\ out[l].price \in Int
    BY <1>2, StackGrows
  <2>3. entries[place[k]].price <= entries[place[l]].price
    BY <1>4, <2>1, <2>2 DEF GoesBefore
  <2> QED
    BY <1>4, <2>3
<1>7. OffersInOrder(out)
  BY <1>2, <1>5, <1>6 DEF OffersInOrder
<1> QED
  BY <1>2, <1>7 DEF out

\* The same of its demands.
LEMMA DemandsAreOrdered ==
    ASSUME NEW book, IsBook(book)
    PROVE  /\ DemandsInOrder(MeritOrder(book.demands, TRUE))
           /\ \E place : Arranges(MeritOrder(book.demands, TRUE), book.demands, TRUE, place)
<1> DEFINE entries == book.demands
           out == MeritOrder(entries, TRUE)
<1>1. entries \in Seq(EntryType)
  BY DEF IsBook
<1>2. Stacked(out) /\ \E place : Arranges(out, entries, TRUE, place)
  BY <1>1, MeritOrderArranges
<1>3. PICK place : Arranges(out, entries, TRUE, place)
  BY <1>2
<1> HIDE DEF out
<1>4. /\ DOMAIN out = DOMAIN entries
      /\ \A k \in DOMAIN out : /\ place[k] \in DOMAIN entries
                               /\ out[k].price = entries[place[k]].price
  <2> HIDE DEF entries
  <2>1. Stacked(out) /\ TRUE \in BOOLEAN
    BY <1>2
  <2>2. KeepsEntries(out, entries, place)
    BY <1>1, <1>3, <2>1, ArrangedKeeps
  <2> QED
    BY <2>2 DEF KeepsEntries
<1>5. \A k \in DOMAIN out : -Unbounded < out[k].price
  BY <1>4 DEF IsBook
<1>6. ASSUME NEW k \in DOMAIN out, NEW l \in DOMAIN out, k < l PROVE out[l].price <= out[k].price
  <2>1. GoesBefore(entries, TRUE, place[k], place[l])
    BY <1>3, <1>6 DEF Arranges
  <2>2. out[k].price \in Int /\ out[l].price \in Int
    BY <1>2, StackGrows
  <2>3. entries[place[l]].price <= entries[place[k]].price
    BY <1>4, <2>1, <2>2 DEF GoesBefore
  <2> QED
    BY <1>4, <2>3
<1>7. DemandsInOrder(out)
  BY <1>2, <1>5, <1>6 DEF DemandsInOrder
<1> QED
  BY <1>2, <1>7 DEF out

\* g is of an arrangement's entries what f is of the entries arranged: whole numbers.
Carries(g, out, f, entries, place) ==
    /\ DOMAIN f = DOMAIN entries /\ DOMAIN g = DOMAIN out
    /\ \A i \in DOMAIN entries : f[i] \in Int
    /\ \A k \in DOMAIN out : g[k] = f[place[k]]

\* A function of an arrangement's entries sums up as it does over the entries arranged.
LEMMA ArrangedSum ==
    ASSUME NEW entries \in Seq(EntryType), NEW descending \in BOOLEAN, NEW out, Stacked(out),
           NEW place, Arranges(out, entries, descending, place),
           NEW f, NEW g, Carries(g, out, f, entries, place)
    PROVE  SumFunction(g) = SumFunction(f)
<1> DEFINE S == DOMAIN out
           T == DOMAIN entries
<1>1. IsFiniteSet(S) /\ IsFiniteSet(T)
  <2>1. S = 1..Len(out) /\ T = 1..Len(entries) /\ Len(out) \in Nat /\ Len(entries) \in Nat
    BY EntriesTyped, StackGrows
  <2> QED
    BY <2>1, FS_Interval
<1>2. /\ place \in [S -> T] /\ \A k, l \in S : place[k] = place[l] => k = l
      /\ \A i \in T : \E k \in S : place[k] = i
  <2>1. place \in [S -> T]
    BY DEF Arranges
  <2>2. /\ \A k, l \in S : place[k] = place[l] => k = l
        /\ \A i \in T : \E k \in S : place[k] = i
    <3>1. KeepsEntries(out, entries, place)
      BY ArrangedKeeps
    <3> QED
      BY <3>1 DEF KeepsEntries
  <2> QED
    BY <2>1, <2>2
<1> HIDE DEF S, T
<1>3. SumFunctionOnSet(g, S) = SumFunctionOnSet(f, T)
  <2>1. (\A t \in T : f[t] \in Int) /\ \A x \in S : g[x] = f[place[x]]
    BY DEF S, T, Carries
  <2> QED
    BY <1>1, <1>2, <2>1, SumRearranged
<1> QED
  BY <1>3 DEF SumFunction, S, T, Carries

\* What is known of the clearing of a book.
LEMMA BookClears ==
    ASSUME NEW book, IsBook(book), NEW c, c = ClearMarket(book)
    PROVE  /\ c.offers = MeritOrder(book.offers, FALSE)
           /\ c.demands = MeritOrder(book.demands, TRUE)
           /\ OffersInOrder(c.offers) /\ DemandsInOrder(c.demands)
           /\ c.price = MarketOptimum(c.offers, c.demands).price
           /\ c.quantity = MarketOptimum(c.offers, c.demands).quantity
           /\ c.quantity \in Nat /\ c.price \in Int
           /\ c.quantity <= Height(c.offers) /\ c.quantity <= Height(c.demands)
<1>1. /\ c.offers = MeritOrder(book.offers, FALSE)
      /\ c.demands = MeritOrder(book.demands, TRUE)
      /\ c.price = MarketOptimum(c.offers, c.demands).price
      /\ c.quantity = MarketOptimum(c.offers, c.demands).quantity
  BY DEF ClearMarket
<1>2. OffersInOrder(c.offers) /\ DemandsInOrder(c.demands)
  BY <1>1, OffersAreOrdered, DemandsAreOrdered
<1> DEFINE optimum == MarketOptimum(c.offers, c.demands)
<1> HIDE DEF optimum
<1>3. /\ optimum.quantity \in Nat /\ optimum.price \in Int
      /\ optimum.quantity <= Height(c.offers) /\ optimum.quantity <= Height(c.demands)
  BY <1>2, ClearsWhatThereIs DEF optimum
<1> QED
  BY <1>1, <1>2, <1>3 DEF optimum

\* What is sold of a book's offers and bought by its demands differ by no more than a trade
\* that is too small to settle.
LEMMA BookBalances ==
    ASSUME NEW book, IsBook(book), NEW c, c = ClearMarket(book),
           NEW sold, sold = SumFunction([k \in DOMAIN c.offers |-> Traded(c.offers[k], c.quantity)]),
           NEW bought, bought = SumFunction([k \in DOMAIN c.demands
                                               |-> Traded(c.demands[k], c.quantity)])
    PROVE  sold \in Int /\ bought \in Int /\ sold - bought \in -MIN_SETTLED_QUANTITY..MIN_SETTLED_QUANTITY
<1> DEFINE q == c.quantity
<1>1. /\ Stacked(c.offers) /\ Stacked(c.demands) /\ q \in Nat
      /\ q <= Height(c.offers) /\ q <= Height(c.demands)
  BY BookClears DEF OffersInOrder, DemandsInOrder
<1>2. Height(c.offers) \in Nat /\ Height(c.demands) \in Nat
  BY <1>1, StackGrows
<1>3. /\ sold \in Int /\ AtMost(Height(c.offers), q) - sold \in 0..MIN_SETTLED_QUANTITY
      /\ bought \in Int /\ AtMost(Height(c.demands), q) - bought \in 0..MIN_SETTLED_QUANTITY
  BY <1>1, TradedInAll
<1>4. AtMost(Height(c.offers), q) = q /\ AtMost(Height(c.demands), q) = q
  BY <1>1, <1>2 DEF AtMost
<1> HIDE DEF q
<1> QED
  BY <1>1, <1>3, <1>4 DEF MIN_SETTLED_QUANTITY

\* What an entry of a clearing sells and dumps, or buys.
LEMMA SettlementIs ==
    ASSUME NEW c, NEW s, s = SettleClearing(c)
    PROVE  /\ DOMAIN s.sales = DOMAIN c.offers /\ DOMAIN s.purchases = DOMAIN c.demands
           /\ \A k \in DOMAIN c.offers :
                 /\ s.sales[k].owner = c.offers[k].owner
                 /\ s.sales[k].sold = Traded(c.offers[k], c.quantity)
                 /\ s.sales[k].dumped = Dumped(c.offers[k], c.quantity)
                 /\ s.sales[k].revenue = Traded(c.offers[k], c.quantity) * c.price
           /\ \A k \in DOMAIN c.demands :
                 /\ s.purchases[k].owner = c.demands[k].owner
                 /\ s.purchases[k].bought = Traded(c.demands[k], c.quantity)
                 /\ s.purchases[k].cost = Traded(c.demands[k], c.quantity) * c.price
BY DEF SettleClearing, Sale, Purchase

(***************************************************************************)
(* A book as it is filled.                                                 *)
(***************************************************************************)
\* Entries are owned by their number, and each is for some power.
BookInv ==
    /\ market \in [offers : Seq(EntryType), demands : Seq(EntryType)]
    /\ IsBook(market)
    /\ \A i \in DOMAIN market.offers : market.offers[i].owner = i /\ market.offers[i].capacity > 0
    /\ \A j \in DOMAIN market.demands : market.demands[j].owner = j /\ market.demands[j].capacity > 0

\* One more entry at the end of a sequence of them.
LEMMA OneMoreEntry ==
    ASSUME NEW entries \in Seq(EntryType), NEW entry \in EntryType,
           NEW more, more = Append(entries, entry)
    PROVE  /\ more \in Seq(EntryType)
           /\ DOMAIN more = 1..(Len(entries) + 1) /\ DOMAIN entries = 1..Len(entries)
           /\ Len(entries) \in Nat
           /\ more[Len(entries) + 1] = entry
           /\ \A i \in DOMAIN entries : i \in DOMAIN more /\ more[i] = entries[i]
           /\ \A i \in DOMAIN more : i \in DOMAIN entries \/ i = Len(entries) + 1
<1> DEFINE n == Len(entries)
<1>1. n \in Nat /\ DOMAIN entries = 1..n
  OBVIOUS
<1>2. /\ more \in Seq(EntryType) /\ DOMAIN more = 1..(n + 1) /\ more[n + 1] = entry
      /\ \A i \in 1..n : more[i] = entries[i]
  OBVIOUS
<1> HIDE DEF n
<1>3. \A i \in 1..n : i \in 1..(n + 1)
  BY <1>1
<1>4. \A i \in 1..(n + 1) : i \in 1..n \/ i = n + 1
  BY <1>1
<1> QED
  BY <1>1, <1>2, <1>3, <1>4 DEF n

\* What may be placed.
LEMMA PricesAreFinite ==
    /\ \A c \in Capacities : c \in Nat /\ c > 0
    /\ \A p \in AskPrices : p \in Int /\ -Unbounded < p /\ p < Unbounded
    /\ \A p \in BidPrices : p \in Int /\ -Unbounded < p
<1>0. ASSUME NEW u \in Int
      PROVE  /\ \A p \in (1 - u)..u : p \in Int /\ -u < p
             /\ \A p \in (1 - u)..(u - 1) : p \in Int /\ -u < p /\ p < u
  OBVIOUS
<1>u. Unbounded \in Int
  BY SMT DEF Unbounded
<1> DEFINE u == Unbounded
<1>i. u \in Int
  BY <1>u
<1>1. \A p \in (1 - u)..u : p \in Int /\ -u < p
  BY <1>0, <1>i
<1>2. \A p \in (1 - u)..(u - 1) : p \in Int /\ -u < p /\ p < u
  BY <1>0, <1>i
<1>3. /\ \A c \in Capacities : c \in Nat \ {0}
      /\ \A p \in AskPrices : p \in 1 - Unbounded..Unbounded - 1
      /\ \A p \in BidPrices : p \in 1 - Unbounded..Unbounded
  BY BookAssumption
<1> QED
  BY <1>1, <1>2, <1>3

\* A book as it is filled is always one, of entries owned by their number.
LEMMA BookInvHolds == BookSpec => []BookInv
<1>1. NewBook => BookInv
  <2> SUFFICES ASSUME NewBook PROVE BookInv
    OBVIOUS
  <2>1. market.offers = <<>> /\ market.demands = <<>> /\ market = [offers |-> <<>>, demands |-> <<>>]
    BY DEF NewBook, EmptyMarket
  <2> QED
    BY <2>1 DEF BookInv, IsBook
<1>2. BookInv /\ [PlaceEntry]_market => BookInv'
  <2> SUFFICES ASSUME BookInv, [PlaceEntry]_market PROVE BookInv'
    OBVIOUS
  <2>1. CASE UNCHANGED market
    BY <2>1 DEF BookInv
  <2> DEFINE offers == market.offers
             demands == market.demands
  <2>2. /\ offers \in Seq(EntryType) /\ demands \in Seq(EntryType)
        /\ market = [offers |-> offers, demands |-> demands]
    BY DEF BookInv
  <2>3. Len(offers) \in Nat /\ Len(demands) \in Nat
    BY <2>2
  <2>4. ASSUME NEW capacity \in Capacities, NEW price \in AskPrices, NEW mustRun \in BOOLEAN,
               Ask(capacity, price, mustRun)
        PROVE  BookInv'
    <3> DEFINE entry == Entry(Len(offers) + 1, capacity, price, mustRun)
               more  == Append(offers, entry)
    <3>1. /\ capacity \in Nat /\ capacity > 0 /\ price \in Int
          /\ -Unbounded < price /\ price < Unbounded
      BY PricesAreFinite
    <3>2. /\ entry \in EntryType /\ entry.owner = Len(offers) + 1 /\ entry.capacity > 0
          /\ -Unbounded < entry.price /\ entry.price < Unbounded
      BY <2>3, <3>1 DEF Entry, EntryType
    <3>3. market' = [offers |-> more, demands |-> demands]
      BY <2>2, <2>4, <3>1 DEF Ask, PlaceAsk
    <3> HIDE DEF entry
    <3>4. /\ more \in Seq(EntryType) /\ more[Len(offers) + 1] = entry
          /\ \A i \in DOMAIN offers : more[i] = offers[i]
          /\ \A i \in DOMAIN more : i \in DOMAIN offers \/ i = Len(offers) + 1
      BY <2>2, <3>2, OneMoreEntry
    <3> HIDE DEF more
    <3>5. market'.offers = more /\ market'.demands = demands
      BY <3>3
    <3>6. \A i \in DOMAIN more : /\ more[i].owner = i /\ more[i].capacity > 0
                                 /\ -Unbounded < more[i].price /\ more[i].price < Unbounded
      BY <3>2, <3>4 DEF BookInv, IsBook
    <3>7. /\ \A i \in DOMAIN demands : /\ demands[i].owner = i /\ demands[i].capacity > 0
                                       /\ -Unbounded < demands[i].price
      BY DEF BookInv, IsBook
    <3> HIDE DEF offers, demands
    <3> QED
      BY <2>2, <3>3, <3>4, <3>5, <3>6, <3>7 DEF BookInv, IsBook
  <2>5. ASSUME NEW demand \in Capacities, NEW price \in BidPrices, Bid(demand, price)
        PROVE  BookInv'
    <3> DEFINE entry == Entry(Len(demands) + 1, demand, price, FALSE)
               more  == Append(demands, entry)
    <3>1. demand \in Nat /\ demand > 0 /\ price \in Int /\ -Unbounded < price
      BY PricesAreFinite
    <3>2. /\ entry \in EntryType /\ entry.owner = Len(demands) + 1 /\ entry.capacity > 0
          /\ -Unbounded < entry.price
      BY <2>3, <3>1 DEF Entry, EntryType
    <3>3. market' = [offers |-> offers, demands |-> more]
      BY <2>2, <2>5, <3>1 DEF Bid, PlaceBid
    <3> HIDE DEF entry
    <3>4. /\ more \in Seq(EntryType) /\ more[Len(demands) + 1] = entry
          /\ \A i \in DOMAIN demands : more[i] = demands[i]
          /\ \A i \in DOMAIN more : i \in DOMAIN demands \/ i = Len(demands) + 1
      BY <2>2, <3>2, OneMoreEntry
    <3> HIDE DEF more
    <3>5. market'.offers = offers /\ market'.demands = more
      BY <3>3
    <3>6. \A i \in DOMAIN more : /\ more[i].owner = i /\ more[i].capacity > 0
                                 /\ -Unbounded < more[i].price
      BY <3>2, <3>4 DEF BookInv, IsBook
    <3>7. /\ \A i \in DOMAIN offers : /\ offers[i].owner = i /\ offers[i].capacity > 0
                                      /\ -Unbounded < offers[i].price /\ offers[i].price < Unbounded
      BY DEF BookInv, IsBook
    <3> HIDE DEF offers, demands
    <3> QED
      BY <2>2, <3>3, <3>4, <3>5, <3>6, <3>7 DEF BookInv, IsBook
  <2> QED
    BY <2>1, <2>4, <2>5 DEF PlaceEntry
<1> QED
  BY <1>1, <1>2, PTL DEF BookSpec

(***************************************************************************)
(* The books balance.                                                      *)
(***************************************************************************)
\* What is settled of all entries is what is settled of each, added up; and what they earn
\* or pay is that at the price.
LEMMA SettledInAll ==
    ASSUME NEW S, IsFiniteSet(S), NEW amount, DOMAIN amount = S,
           \A k \in S : amount[k] \in Int,
           NEW price \in Int, NEW money, DOMAIN money = S,
           \A k \in S : money[k] = amount[k] * price
    PROVE  SumFunction(money) = SumFunction(amount) * price
<1>1. SumFunctionOnSet(money, S) = SumFunctionOnSet(amount, S) * price
  BY SumScaled
<1> QED
  BY <1>1 DEF SumFunction

\* A stack has finitely many entries.
LEMMA StackIsFinite ==
    ASSUME NEW out, Stacked(out)
    PROVE  IsFiniteSet(DOMAIN out)
<1>1. DOMAIN out = 1..Len(out) /\ Len(out) \in Nat
  BY StackGrows
<1> DEFINE n == Len(out)
<1>2. n \in Nat /\ DOMAIN out = 1..n
  BY <1>1
<1> HIDE DEF n
<1>3. IsFiniteSet(1..n)
  BY <1>2, FS_Interval
<1> QED
  BY <1>2, <1>3

\* Power that must run is sold or dumped, all of it.
LEMMA ForcedPowerGoes ==
    ASSUME NEW book, IsBook(book), NEW c, c = ClearMarket(book),
           NEW s, s = SettleClearing(c),
           NEW forced, forced = { k \in DOMAIN c.offers : c.offers[k].mustRun }
    PROVE  SumFunction([i \in DOMAIN book.offers |->
                          IF book.offers[i].mustRun THEN book.offers[i].capacity ELSE 0])
             = SumFunction([k \in forced |-> s.sales[k].sold + s.sales[k].dumped])
<1> DEFINE S == DOMAIN c.offers
           q == c.quantity
           g == [k \in S |-> IF c.offers[k].mustRun THEN c.offers[k].capacity ELSE 0]
           power == [i \in DOMAIN book.offers |->
                       IF book.offers[i].mustRun THEN book.offers[i].capacity ELSE 0]
           gone == [k \in forced |-> s.sales[k].sold + s.sales[k].dumped]
<1>1. /\ Stacked(c.offers) /\ q \in Nat /\ c.offers = MeritOrder(book.offers, FALSE)
      /\ book.offers \in Seq(EntryType)
  BY BookClears DEF OffersInOrder, IsBook
<1>2. PICK place : Arranges(c.offers, book.offers, FALSE, place)
  BY <1>1, OffersAreOrdered
<1>3. KeepsEntries(c.offers, book.offers, place)
  BY <1>1, <1>2, ArrangedKeeps
<1>4. \A k \in S : c.offers[k].capacity \in Nat /\ c.offers[k].mustRun \in BOOLEAN
  BY <1>1, StackGrows
<1>5. IsFiniteSet(S)
  BY <1>1, StackIsFinite
<1>6. SumFunction(g) = SumFunction(power)
  <2>1. DOMAIN power = DOMAIN book.offers /\ DOMAIN g = DOMAIN c.offers
    OBVIOUS
  <2>2. \A i \in DOMAIN book.offers : power[i] \in Int
    BY <1>1, EntriesTyped
  <2>3. \A k \in DOMAIN c.offers : g[k] = power[place[k]]
    BY <1>3 DEF KeepsEntries
  <2> DEFINE out == c.offers
             entries == book.offers
             descending == FALSE
  <2>4. /\ entries \in Seq(EntryType) /\ Stacked(out)
        /\ Arranges(out, entries, descending, place) /\ descending \in BOOLEAN
    BY <1>1, <1>2
  <2>5. Carries(g, out, power, entries, place)
    BY <1>1, <1>2, <2>1, <2>2, <2>3 DEF Carries
  <2> HIDE DEF g, S, power, out, entries, descending
  <2> QED
    BY <2>4, <2>5, ArrangedSum
<1>7. /\ \A k \in S : g[k] \in Int
      /\ \A k \in S \ forced : g[k] = 0
      /\ forced \in SUBSET S
  BY <1>4
<1>8. \A k \in forced : gone[k] = g[k]
  <2> SUFFICES ASSUME NEW k \in forced PROVE gone[k] = g[k]
    OBVIOUS
  <2>1. k \in DOMAIN c.offers /\ c.offers[k].mustRun /\ g[k] = c.offers[k].capacity
    OBVIOUS
  <2>2. s.sales[k].sold = Traded(c.offers[k], q) /\ s.sales[k].dumped = Dumped(c.offers[k], q)
    BY <2>1, SettlementIs
  <2>3. Traded(c.offers[k], q) \in 0..c.offers[k].capacity
    BY <1>1, <2>1, TradedIs
  <2>4. Dumped(c.offers[k], q) = c.offers[k].capacity - Traded(c.offers[k], q)
    BY <2>1 DEF Dumped
  <2> QED
    BY <1>4, <2>1, <2>2, <2>3, <2>4
<1>9. DOMAIN gone = forced /\ DOMAIN g = S
  OBVIOUS
<1> HIDE DEF g, S, gone
<1>10. SumFunctionOnSet(g, S) = SumFunctionOnSet(g, forced)
  BY <1>5, <1>7, SumOfPart
<1>11. SumFunctionOnSet(gone, forced) = SumFunctionOnSet(g, forced)
  <2>1. IsFiniteSet(forced) /\ \A k \in forced : g[k] \in Int
    BY <1>5, <1>7, FS_Subset
  <2> QED
    BY <1>8, <2>1, SumSame
<1>12. SumFunction(g) = SumFunction(gone)
  BY <1>9, <1>10, <1>11 DEF SumFunction
<1> QED
  BY <1>6, <1>12 DEF gone

\* Of any book, what is sold and bought, earned and paid, and must run, balances.
LEMMA ABookBalances ==
    ASSUME IsBook(market)
    PROVE  BooksBalance
<1> DEFINE c == Clearing
           s == Settlement
           soldOf == [k \in DOMAIN s.sales |-> s.sales[k].sold]
           boughtOf == [k \in DOMAIN s.purchases |-> s.purchases[k].bought]
           revenueOf == [k \in DOMAIN s.sales |-> s.sales[k].revenue]
           costOf == [k \in DOMAIN s.purchases |-> s.purchases[k].cost]
           forced == { k \in DOMAIN c.offers : c.offers[k].mustRun }
           power == [i \in DOMAIN market.offers |->
                       IF market.offers[i].mustRun THEN market.offers[i].capacity ELSE 0]
           gone == [k \in forced |-> s.sales[k].sold + s.sales[k].dumped]
           sold == SumFunction(soldOf)
           bought == SumFunction(boughtOf)
           revenue == SumFunction(revenueOf)
           cost == SumFunction(costOf)
<1>1. c = ClearMarket(market) /\ s = SettleClearing(c)
  BY DEF Clearing, Settlement
<1>2. /\ sold = Total(Settlement.sales, LAMBDA e : e.sold)
      /\ bought = Total(Settlement.purchases, LAMBDA e : e.bought)
      /\ revenue = Total(Settlement.sales, LAMBDA e : e.revenue)
      /\ cost = Total(Settlement.purchases, LAMBDA e : e.cost)
      /\ SumFunction(power) = Total(market.offers, LAMBDA e : IF e.mustRun THEN e.capacity ELSE 0)
  BY Zenon DEF Total
<1>3. forced = { k \in DOMAIN Clearing.offers : Clearing.offers[k].mustRun }
  OBVIOUS
<1>4. gone = [k \in forced |-> Settlement.sales[k].sold + Settlement.sales[k].dumped]
  OBVIOUS
<1> HIDE DEF c, s
<1>5. SumFunction(power) = SumFunction(gone)
  BY <1>1, ForcedPowerGoes
<1>6. /\ Stacked(c.offers) /\ Stacked(c.demands) /\ c.quantity \in Nat /\ c.price \in Int
  BY <1>1, BookClears DEF OffersInOrder, DemandsInOrder
<1>7. IsFiniteSet(DOMAIN c.offers) /\ IsFiniteSet(DOMAIN c.demands)
  BY <1>6, StackIsFinite
<1>8. DOMAIN s.sales = DOMAIN c.offers /\ DOMAIN s.purchases = DOMAIN c.demands
  BY <1>1, SettlementIs
<1>9. /\ soldOf = [k \in DOMAIN c.offers |-> Traded(c.offers[k], c.quantity)]
      /\ boughtOf = [k \in DOMAIN c.demands |-> Traded(c.demands[k], c.quantity)]
  <2>1. /\ \A k \in DOMAIN c.offers : s.sales[k].sold = Traded(c.offers[k], c.quantity)
        /\ \A k \in DOMAIN c.demands : s.purchases[k].bought = Traded(c.demands[k], c.quantity)
    BY <1>1, SettlementIs
  <2> QED
    BY <1>8, <2>1
<1>10. /\ DOMAIN soldOf = DOMAIN c.offers /\ DOMAIN revenueOf = DOMAIN c.offers
       /\ DOMAIN boughtOf = DOMAIN c.demands /\ DOMAIN costOf = DOMAIN c.demands
  BY <1>8
<1>11. /\ \A k \in DOMAIN c.offers : /\ soldOf[k] \in Int
                                     /\ revenueOf[k] = soldOf[k] * c.price
       /\ \A k \in DOMAIN c.demands : /\ boughtOf[k] \in Int
                                      /\ costOf[k] = boughtOf[k] * c.price
  <2>1. ASSUME NEW k \in DOMAIN c.offers
        PROVE  soldOf[k] \in Int /\ revenueOf[k] = soldOf[k] * c.price
    <3>1. s.sales[k].revenue = Traded(c.offers[k], c.quantity) * c.price
      BY <1>1, SettlementIs
    <3>2. Traded(c.offers[k], c.quantity) \in 0..c.offers[k].capacity /\ c.offers[k].capacity \in Nat
      BY <1>6, TradedIs, StackGrows
    <3>3. soldOf[k] = Traded(c.offers[k], c.quantity) /\ revenueOf[k] = s.sales[k].revenue
      BY <1>8, <1>9
    <3> QED
      BY <3>1, <3>2, <3>3
  <2>2. ASSUME NEW k \in DOMAIN c.demands
        PROVE  boughtOf[k] \in Int /\ costOf[k] = boughtOf[k] * c.price
    <3>1. s.purchases[k].cost = Traded(c.demands[k], c.quantity) * c.price
      BY <1>1, SettlementIs
    <3>2. Traded(c.demands[k], c.quantity) \in 0..c.demands[k].capacity /\ c.demands[k].capacity \in Nat
      BY <1>6, TradedIs, StackGrows
    <3>3. boughtOf[k] = Traded(c.demands[k], c.quantity) /\ costOf[k] = s.purchases[k].cost
      BY <1>8, <1>9
    <3> QED
      BY <3>1, <3>2, <3>3
  <2> QED
    BY <2>1, <2>2
<1> HIDE DEF soldOf, boughtOf, revenueOf, costOf, forced, power, gone
<1>12. revenue = sold * c.price /\ cost = bought * c.price
  BY <1>6, <1>7, <1>10, <1>11, SettledInAll
<1>13. sold \in Int /\ bought \in Int /\ sold - bought \in -MIN_SETTLED_QUANTITY..MIN_SETTLED_QUANTITY
  BY <1>1, <1>9, BookBalances
<1> HIDE DEF sold, bought, revenue, cost
<1>14. revenue - cost = (sold - bought) * c.price
  BY <1>6, <1>12, <1>13
<1> QED
  <2>1. SumFunction(power) = SumFunction([k \in { k \in DOMAIN Clearing.offers : Clearing.offers[k].mustRun }
                              |-> Settlement.sales[k].sold + Settlement.sales[k].dumped])
    BY <1>3, <1>4, <1>5
  <2> QED
    BY <1>2, <1>13, <1>14, <2>1, Zenon DEF BooksBalance, c

\* Whatever is offered and bid for, what sellers earn is what buyers pay, but for one trade
\* too small to settle, and power that must run is sold or dumped whole.
THEOREM BooksAlwaysBalance == BookSpec => []BooksBalance
<1>1. BookInv => BooksBalance
  BY ABookBalances DEF BookInv
<1> QED
  BY <1>1, BookInvHolds, PTL

-----------------------------------------------------------------------------
(***************************************************************************)
(* The clearing of a book is the best trade there is.                      *)
(***************************************************************************)
\* The offers and the demands yet to come are at no better a price than the next one.
LEMMA NextIsBest ==
    ASSUME NEW offers, OffersInOrder(offers), NEW demands, DemandsInOrder(demands)
    PROVE  /\ \A i, k \in DOMAIN offers : i < k => /\ NextAsk(offers, i) <= offers[k].price
                                                   /\ NextAsk(offers, i) # Unbounded
           /\ \A j, l \in DOMAIN demands : j < l => demands[l].price <= NextBid(demands, j)
           /\ \A k \in DOMAIN offers : k # 1 => /\ k - 1 \in DOMAIN offers
                                                /\ NextAsk(offers, k - 1) = offers[k].price
                                                /\ offers[k - 1].cumul = Below(offers[k])
           /\ \A l \in DOMAIN demands : l # 1 => /\ l - 1 \in DOMAIN demands
                                                 /\ NextBid(demands, l - 1) = demands[l].price
                                                 /\ demands[l - 1].cumul = Below(demands[l])
<1> DEFINE n == Len(offers)
           m == Len(demands)
<1>1. Stacked(offers) /\ Stacked(demands)
  BY DEF OffersInOrder, DemandsInOrder
<1>2. /\ n \in Nat /\ DOMAIN offers = 1..n /\ m \in Nat /\ DOMAIN demands = 1..m
      /\ \A k \in 1..n : /\ offers[k].price \in Int
                         /\ k # 1 => Below(offers[k]) = offers[k - 1].cumul
      /\ \A l \in 1..m : /\ demands[l].price \in Int
                         /\ l # 1 => Below(demands[l]) = demands[l - 1].cumul
  BY <1>1, StackGrows
<1>3. /\ \A i \in 0..n : /\ NextAsk(offers, i) = Unbounded <=> i = n
                         /\ i < n => NextAsk(offers, i) = offers[i + 1].price
      /\ \A j \in 0..m : j < m => NextBid(demands, j) = demands[j + 1].price
  BY AsksAndBids
<1>4. /\ \A k, l \in 1..n : k < l => offers[k].price <= offers[l].price
      /\ \A k, l \in 1..m : k < l => demands[l].price <= demands[k].price
  BY <1>2 DEF OffersInOrder, DemandsInOrder
<1> HIDE DEF n, m
<1>5. ASSUME NEW i \in 1..n, NEW k \in 1..n, i < k
      PROVE  NextAsk(offers, i) <= offers[k].price /\ NextAsk(offers, i) # Unbounded
  <2>1. i \in 0..n /\ i < n /\ i + 1 \in 1..n /\ i # n
    BY <1>2, <1>5
  <2>2. NextAsk(offers, i) = offers[i + 1].price /\ NextAsk(offers, i) # Unbounded
    BY <1>3, <2>1
  <2>3. i + 1 < k \/ i + 1 = k
    BY <1>2, <1>5
  <2> QED
    BY <1>2, <1>4, <2>1, <2>2, <2>3
<1>6. ASSUME NEW j \in 1..m, NEW l \in 1..m, j < l
      PROVE  demands[l].price <= NextBid(demands, j)
  <2>1. j \in 0..m /\ j < m /\ j + 1 \in 1..m
    BY <1>2, <1>6
  <2>2. NextBid(demands, j) = demands[j + 1].price
    BY <1>3, <2>1
  <2>3. j + 1 < l \/ j + 1 = l
    BY <1>2, <1>6
  <2> QED
    BY <1>2, <1>4, <2>1, <2>2, <2>3
<1>7. ASSUME NEW k \in 1..n, k # 1
      PROVE  /\ k - 1 \in 1..n /\ NextAsk(offers, k - 1) = offers[k].price
             /\ offers[k - 1].cumul = Below(offers[k])
  <2>1. k - 1 \in 1..n /\ k - 1 \in 0..n /\ k - 1 < n /\ (k - 1) + 1 = k
    BY <1>2, <1>7
  <2> QED
    BY <1>2, <1>3, <1>7, <2>1
<1>8. ASSUME NEW l \in 1..m, l # 1
      PROVE  /\ l - 1 \in 1..m /\ NextBid(demands, l - 1) = demands[l].price
             /\ demands[l - 1].cumul = Below(demands[l])
  <2>1. l - 1 \in 1..m /\ l - 1 \in 0..m /\ l - 1 < m /\ (l - 1) + 1 = l
    BY <1>2, <1>8
  <2> QED
    BY <1>2, <1>3, <1>8, <2>1
<1> QED
  BY <1>2, <1>5, <1>6, <1>7, <1>8

\* The bid that stands when an offer is used up: no more than bids that start below it,
\* no less than those that end at it or above, and one of them while there are any.
LEMMA BidStands ==
    ASSUME NEW offers, OffersInOrder(offers), NEW demands, DemandsInOrder(demands),
           NEW i \in DOMAIN offers
    PROVE  /\ \A l \in DOMAIN demands :
                 /\ l = 1 \/ Below(demands[l]) < offers[i].cumul
                      => BidAt(offers, demands, i) <= demands[l].price
                 /\ offers[i].cumul <= demands[l].cumul
                      => demands[l].price <= BidAt(offers, demands, i)
           /\ demands # <<>> /\ offers[i].cumul <= Height(demands)
                => \E l \in DOMAIN demands :
                      /\ BidAt(offers, demands, i) = demands[l].price
                      /\ l = 1 \/ Below(demands[l]) < offers[i].cumul
<1> DEFINE m == Len(demands)
           x == offers[i].cumul
           u == Cardinality({ j \in DOMAIN demands : demands[j].cumul < x })
<1>1. Stacked(offers) /\ Stacked(demands)
  BY DEF OffersInOrder, DemandsInOrder
<1>2. x \in Nat
  BY <1>1, StackGrows
<1>3. /\ m \in Nat /\ DOMAIN demands = 1..m
      /\ \A l \in 1..m : demands[l].cumul \in Nat /\ demands[l].price \in Int
  BY <1>1, StackGrows
<1>4. u \in 0..m /\ \A l \in 1..m : demands[l].cumul < x <=> l <= u
  <2>1. x \in Int
    BY <1>2
  <2> QED
    BY <1>1, <1>3, <2>1, FirstEntriesCounted
<1>5. BidAt(offers, demands, i) = NextBid(demands, u)
  BY DEF BidAt
<1>6. /\ u < m => NextBid(demands, u) = demands[u + 1].price
      /\ u = m => NextBid(demands, u) = -Unbounded
  BY <1>4, AsksAndBids
<1>7. /\ \A k, l \in 1..m : k < l => demands[l].price <= demands[k].price
      /\ \A l \in 1..m : -Unbounded < demands[l].price
  BY <1>3 DEF DemandsInOrder
<1>8. \A l \in 1..m : l # 1 => l - 1 \in 1..m /\ demands[l - 1].cumul = Below(demands[l])
  BY <1>3, NextIsBest
<1>9. demands # <<>> => m # 0 /\ Height(demands) = demands[m].cumul
  <2>1. demands \in Seq(EntryType)
    BY <1>1 DEF Stacked
  <2> QED
    BY <2>1 DEF Height
<1> DEFINE bid == BidAt(offers, demands, i)
<1>10. bid = NextBid(demands, u)
  BY <1>5
<1>b. bid \in Int /\ -Unbounded \in Int
  <2>1. -Unbounded \in Int
    BY SMT DEF Unbounded
  <2> QED
    BY <2>1, AsksAndBids
<1> HIDE DEF u, m, x, bid
<1>11. ASSUME NEW l \in 1..m, l = 1 \/ Below(demands[l]) < x
       PROVE  bid <= demands[l].price
  <2>1. l <= u + 1
    <3>1. CASE l = 1
      BY <1>4, <3>1
    <3>2. CASE l # 1
      BY <1>3, <1>4, <1>8, <1>11, <3>2
    <3> QED
      BY <3>1, <3>2
  <2>2. CASE u < m
    <3>1. u + 1 \in 1..m /\ (l < u + 1 \/ l = u + 1)
      BY <1>3, <1>4, <2>1, <2>2
    <3> QED
      BY <1>3, <1>6, <1>7, <1>10, <2>2, <3>1
  <2>3. CASE u = m
    <3>1. bid = -Unbounded /\ -Unbounded < demands[l].price /\ demands[l].price \in Int
      BY <1>3, <1>6, <1>7, <1>10, <2>3
    <3> QED
      BY <1>b, <3>1
  <2>4. u < m \/ u = m
    BY <1>3, <1>4
  <2> QED
    BY <2>2, <2>3, <2>4
<1>12. ASSUME NEW l \in 1..m, x <= demands[l].cumul
       PROVE  demands[l].price <= bid
  <2>1. ~(demands[l].cumul < x)
    BY <1>2, <1>3, <1>12
  <2>2. u + 1 \in 1..m /\ u < m /\ (u + 1 < l \/ u + 1 = l)
    BY <1>3, <1>4, <2>1
  <2> QED
    BY <1>3, <1>6, <1>7, <1>10, <2>2
<1>13. ASSUME demands # <<>>, x <= Height(demands)
       PROVE  \E l \in 1..m : bid = demands[l].price /\ (l = 1 \/ Below(demands[l]) < x)
  <2>1. m \in 1..m /\ x <= demands[m].cumul
    BY <1>3, <1>9, <1>13
  <2>2. ~(demands[m].cumul < x)
    BY <1>2, <1>3, <2>1
  <2>3. u + 1 \in 1..m /\ u < m
    BY <1>3, <1>4, <2>1, <2>2
  <2>4. bid = demands[u + 1].price
    BY <1>6, <1>10, <2>3
  <2>5. CASE u + 1 = 1
    BY <2>3, <2>4, <2>5
  <2>6. CASE u + 1 # 1
    <3>1. (u + 1) - 1 = u
      BY <1>4
    <3>2. u \in 1..m /\ demands[u].cumul = Below(demands[u + 1])
      BY <1>8, <2>3, <2>6, <3>1
    <3>3. u <= u
      BY <1>4
    <3>4. demands[u].cumul < x
      BY <1>4, <3>2, <3>3
    <3> QED
      BY <2>3, <2>4, <3>2, <3>4
  <2> QED
    BY <2>5, <2>6
<1> QED
  BY <1>3, <1>11, <1>12, <1>13 DEF x, bid

\* The ask that stands when a demand is used up: no less than offers that start below it
\* or at it, no more than those that end above, and one of them while there are any.
LEMMA AskStands ==
    ASSUME NEW offers, OffersInOrder(offers), NEW demands, DemandsInOrder(demands),
           NEW j \in DOMAIN demands
    PROVE  /\ \A k \in DOMAIN offers :
                 /\ k = 1 \/ Below(offers[k]) <= demands[j].cumul
                      => offers[k].price <= AskAt(offers, demands, j)
                 /\ demands[j].cumul < offers[k].cumul
                      => AskAt(offers, demands, j) <= offers[k].price
           /\ offers # <<>> /\ demands[j].cumul < Height(offers)
                => \E k \in DOMAIN offers :
                      /\ AskAt(offers, demands, j) = offers[k].price
                      /\ k = 1 \/ Below(offers[k]) <= demands[j].cumul
<1> DEFINE n == Len(offers)
           x == demands[j].cumul
           u == Cardinality({ i \in DOMAIN offers : offers[i].cumul <= x })
<1>1. Stacked(offers) /\ Stacked(demands)
  BY DEF OffersInOrder, DemandsInOrder
<1>2. x \in Nat
  BY <1>1, StackGrows
<1>3. /\ n \in Nat /\ DOMAIN offers = 1..n
      /\ \A k \in 1..n : offers[k].cumul \in Nat /\ offers[k].price \in Int
  BY <1>1, StackGrows
<1>4. u \in 0..n /\ \A k \in 1..n : offers[k].cumul <= x <=> k <= u
  <2>1. x \in Int
    BY <1>2
  <2> QED
    BY <1>1, <1>3, <2>1, FirstEntriesCounted
<1>5. AskAt(offers, demands, j) = NextAsk(offers, u)
  BY DEF AskAt
<1>6. /\ u < n => NextAsk(offers, u) = offers[u + 1].price
      /\ u = n => NextAsk(offers, u) = Unbounded
  BY <1>4, AsksAndBids
<1>7. /\ \A k, l \in 1..n : k < l => offers[k].price <= offers[l].price
      /\ \A k \in 1..n : offers[k].price < Unbounded
  BY <1>3 DEF OffersInOrder
<1>8. \A k \in 1..n : k # 1 => k - 1 \in 1..n /\ offers[k - 1].cumul = Below(offers[k])
  BY <1>3, NextIsBest
<1>9. offers # <<>> => n # 0 /\ Height(offers) = offers[n].cumul
  <2>1. offers \in Seq(EntryType)
    BY <1>1 DEF Stacked
  <2> QED
    BY <2>1 DEF Height
<1> DEFINE ask == AskAt(offers, demands, j)
<1>10. ask = NextAsk(offers, u)
  BY <1>5
<1>b. ask \in Int /\ Unbounded \in Int
  <2>1. Unbounded \in Int
    BY SMT DEF Unbounded
  <2> QED
    BY <2>1, AsksAndBids
<1> HIDE DEF u, n, x, ask
<1>11. ASSUME NEW k \in 1..n, k = 1 \/ Below(offers[k]) <= x
       PROVE  offers[k].price <= ask
  <2>1. k <= u + 1
    <3>1. CASE k = 1
      BY <1>4, <3>1
    <3>2. CASE k # 1
      BY <1>3, <1>4, <1>8, <1>11, <3>2
    <3> QED
      BY <3>1, <3>2
  <2>2. CASE u < n
    <3>1. u + 1 \in 1..n /\ (k < u + 1 \/ k = u + 1)
      BY <1>3, <1>4, <2>1, <2>2
    <3> QED
      BY <1>3, <1>6, <1>7, <1>10, <2>2, <3>1
  <2>3. CASE u = n
    <3>1. ask = Unbounded /\ offers[k].price < Unbounded /\ offers[k].price \in Int
      BY <1>3, <1>6, <1>7, <1>10, <2>3
    <3> QED
      BY <1>b, <3>1
  <2>4. u < n \/ u = n
    BY <1>3, <1>4
  <2> QED
    BY <2>2, <2>3, <2>4
<1>12. ASSUME NEW k \in 1..n, x < offers[k].cumul
       PROVE  ask <= offers[k].price
  <2>1. ~(offers[k].cumul <= x)
    BY <1>2, <1>3, <1>12
  <2>2. u + 1 \in 1..n /\ u < n /\ (u + 1 < k \/ u + 1 = k)
    BY <1>3, <1>4, <2>1
  <2> QED
    BY <1>3, <1>6, <1>7, <1>10, <2>2
<1>13. ASSUME offers # <<>>, x < Height(offers)
       PROVE  \E k \in 1..n : ask = offers[k].price /\ (k = 1 \/ Below(offers[k]) <= x)
  <2>1. n \in 1..n /\ x < offers[n].cumul
    BY <1>3, <1>9, <1>13
  <2>2. ~(offers[n].cumul <= x)
    BY <1>2, <1>3, <2>1
  <2>3. u + 1 \in 1..n /\ u < n
    BY <1>3, <1>4, <2>1, <2>2
  <2>4. ask = offers[u + 1].price
    BY <1>6, <1>10, <2>3
  <2>5. CASE u + 1 = 1
    BY <2>3, <2>4, <2>5
  <2>6. CASE u + 1 # 1
    <3>1. (u + 1) - 1 = u
      BY <1>4
    <3>2. u \in 1..n /\ offers[u].cumul = Below(offers[u + 1])
      BY <1>8, <2>3, <2>6, <3>1
    <3>3. u <= u
      BY <1>4
    <3>4. offers[u].cumul <= x
      BY <1>4, <3>2, <3>3
    <3> QED
      BY <2>3, <2>4, <3>2, <3>4
  <2> QED
    BY <2>5, <2>6
<1> QED
  BY <1>3, <1>11, <1>12, <1>13 DEF x, ask

\* An offer and a demand that both start below where nobody who could trade is left agree
\* on a price.
LEMMA TradersAgree ==
    ASSUME NEW offers, OffersInOrder(offers), NEW demands, DemandsInOrder(demands),
           NEW q \in Nat, NoStopBefore(offers, demands, q),
           NEW k \in DOMAIN offers, NEW l \in DOMAIN demands,
           ~(offers[1].price > demands[1].price),
           Below(offers[k]) < q, Below(demands[l]) < q
    PROVE  offers[k].price <= demands[l].price
<1>1. Stacked(offers) /\ Stacked(demands)
  BY DEF OffersInOrder, DemandsInOrder
<1>2. /\ offers[k].price \in Int /\ demands[l].price \in Int
      /\ Below(offers[k]) \in Nat /\ Below(demands[l]) \in Nat
      /\ l = 1 => Below(demands[l]) = 0
  BY <1>1, StackGrows
<1>3. ASSUME k # 1, l = 1 \/ Below(demands[l]) < Below(offers[k])
      PROVE  offers[k].price <= demands[l].price
  <2> DEFINE i == k - 1
  <2>1. i \in DOMAIN offers /\ NextAsk(offers, i) = offers[k].price
        /\ offers[i].cumul = Below(offers[k])
    BY <1>3, NextIsBest
  <2> HIDE DEF i
  <2>2. NextAsk(offers, i) <= BidAt(offers, demands, i)
    BY <2>1 DEF NoStopBefore
  <2>3. BidAt(offers, demands, i) <= demands[l].price
    BY <1>3, <2>1, BidStands
  <2>4. BidAt(offers, demands, i) \in Int
    BY <2>1, AsksAndBids
  <2> QED
    BY <1>2, <2>1, <2>2, <2>3, <2>4
<1>4. ASSUME l # 1, Below(offers[k]) <= Below(demands[l])
      PROVE  offers[k].price <= demands[l].price
  <2> DEFINE j == l - 1
  <2>1. j \in DOMAIN demands /\ NextBid(demands, j) = demands[l].price
        /\ demands[j].cumul = Below(demands[l])
    BY <1>4, NextIsBest
  <2> HIDE DEF j
  <2>2. AskAt(offers, demands, j) <= NextBid(demands, j)
    BY <2>1 DEF NoStopBefore
  <2>3. offers[k].price <= AskAt(offers, demands, j)
    BY <1>4, <2>1, AskStands
  <2>4. AskAt(offers, demands, j) \in Int
    BY <2>1, AsksAndBids
  <2> QED
    BY <1>2, <2>1, <2>2, <2>3, <2>4
<1>5. CASE k = 1 /\ l = 1
  BY <1>2, <1>5
<1>6. Below(demands[l]) < Below(offers[k]) \/ Below(offers[k]) <= Below(demands[l])
  BY <1>2
<1>7. k = 1 => Below(offers[k]) = 0
  BY <1>1, StackGrows
<1>8. CASE l = 1
  BY <1>3, <1>5, <1>8
<1>9. CASE l # 1 /\ k = 1
  <2>1. Below(offers[k]) <= Below(demands[l])
    BY <1>2, <1>7, <1>9
  <2> QED
    BY <1>4, <1>9, <2>1
<1>10. CASE l # 1 /\ k # 1
  BY <1>3, <1>4, <1>6, <1>10
<1> QED
  BY <1>8, <1>9, <1>10

\* What has cleared of an entry, and what is left of it, says where the entry lies.
LEMMA ClearedLiesBelow ==
    ASSUME NEW out, Stacked(out), NEW k \in DOMAIN out, NEW q \in Nat
    PROVE  /\ Cleared(out[k], q) > 0 => Below(out[k]) < q
           /\ Unmet(out[k], q) > 0 => q < out[k].cumul
<1>1. /\ out[k].capacity \in Nat /\ out[k].cumul \in Nat /\ Below(out[k]) \in Nat
  BY StackGrows
<1>2. /\ out[k].cumul <= q => Cleared(out[k], q) = out[k].capacity
      /\ q <= Below(out[k]) => Cleared(out[k], q) = 0
      /\ Unmet(out[k], q) = out[k].capacity - Cleared(out[k], q)
  BY ClearedIs
<1> QED
  BY <1>1, <1>2

\* A price suits all that trade at it, and those that are left would trade at no such price.
PriceSuits(offers, demands, q, price) ==
    /\ \A k \in DOMAIN offers :
          /\ Cleared(offers[k], q) > 0 => offers[k].price <= price
          /\ Unmet(offers[k], q) > 0 => offers[k].price >= price
    /\ \A l \in DOMAIN demands :
          /\ Cleared(demands[l], q) > 0 => demands[l].price >= price
          /\ Unmet(demands[l], q) > 0 => demands[l].price <= price

\* Of those that are left, no two could trade.
NobodyLeftAgrees(offers, demands, q) ==
    \A k \in DOMAIN offers, l \in DOMAIN demands :
       Unmet(offers[k], q) > 0 /\ Unmet(demands[l], q) > 0 => demands[l].price < offers[k].price

\* A price is one that some entry names.
Named(offers, demands, price) ==
    \/ \E k \in DOMAIN offers : price = offers[k].price
    \/ \E l \in DOMAIN demands : price = demands[l].price

\* Where an offer's end stops the market, the price suits everyone.
LEMMA OfferStopSuits ==
    ASSUME NEW offers, OffersInOrder(offers), NEW demands, DemandsInOrder(demands),
           demands # <<>>, ~(offers[1].price > demands[1].price),
           NEW q \in Nat, q <= Height(demands), NoStopBefore(offers, demands, q),
           NEW price, NEW i \in DOMAIN offers, StopsAtOffer(offers, demands, q, price, i)
    PROVE  /\ PriceSuits(offers, demands, q, price)
           /\ NobodyLeftAgrees(offers, demands, q)
           /\ Named(offers, demands, price)
<1>1. Stacked(offers) /\ Stacked(demands)
  BY DEF OffersInOrder, DemandsInOrder
<1>2. /\ offers[i].cumul = q /\ price = BidAt(offers, demands, i) /\ price \in Int
      /\ price < NextAsk(offers, i) \/ NextAsk(offers, i) = Unbounded
  BY AsksAndBids DEF StopsAtOffer, OffersThatStop
<1>3. /\ \A k \in DOMAIN offers : /\ offers[k].price \in Int /\ offers[k].cumul \in Nat
                                  /\ Below(offers[k]) \in Nat /\ k \in Nat
                                  /\ k < i => offers[k].cumul <= Below(offers[i])
      /\ \A l \in DOMAIN demands : /\ demands[l].price \in Int /\ Below(demands[l]) \in Nat
                                   /\ l = 1 => Below(demands[l]) = 0
                                   /\ demands[l].cumul \in Nat
      /\ Below(offers[i]) <= offers[i].cumul /\ i \in Nat
  <2>1. /\ DOMAIN offers = 1..Len(offers) /\ Len(offers) \in Nat
    BY <1>1, StackGrows
  <2>2. offers[i].cumul = Below(offers[i]) + offers[i].capacity /\ offers[i].capacity \in Nat
        /\ Below(offers[i]) \in Nat
    BY <1>1, StackGrows
  <2>3. \A k \in DOMAIN offers : k < i => offers[k].cumul <= Below(offers[i])
    BY <1>1, StackGrows
  <2>4. \A k \in DOMAIN offers : k \in Nat
    BY <2>1
  <2>5. Below(offers[i]) <= offers[i].cumul
    BY <2>2
  <2>6. /\ \A k \in DOMAIN offers : /\ offers[k].price \in Int /\ offers[k].cumul \in Nat
                                    /\ Below(offers[k]) \in Nat
        /\ \A l \in DOMAIN demands : /\ demands[l].price \in Int /\ Below(demands[l]) \in Nat
                                     /\ l = 1 => Below(demands[l]) = 0
                                     /\ demands[l].cumul \in Nat
    BY <1>1, StackGrows
  <2> QED
    BY <2>3, <2>4, <2>5, <2>6
<1>4. PICK d \in DOMAIN demands : /\ price = demands[d].price
                                  /\ d = 1 \/ Below(demands[d]) < q
  BY <1>2, BidStands
<1>5. ASSUME NEW k \in DOMAIN offers, Unmet(offers[k], q) > 0 PROVE price < offers[k].price
  <2>1. q < offers[k].cumul
    BY <1>1, <1>5, ClearedLiesBelow
  <2>2. i < k
    <3>1. k # i
      BY <1>2, <1>3, <2>1
    <3>2. ~(k < i)
      <4>1. SUFFICES ASSUME k < i PROVE FALSE
        OBVIOUS
      <4>2. /\ offers[k].cumul <= Below(offers[i]) /\ Below(offers[i]) <= offers[i].cumul
            /\ offers[k].cumul \in Nat /\ Below(offers[i]) \in Nat
        BY <1>3, <4>1
      <4> QED
        BY <1>2, <2>1, <4>2
    <3> QED
      BY <1>3, <3>1, <3>2
  <2>3. NextAsk(offers, i) <= offers[k].price /\ NextAsk(offers, i) # Unbounded
    BY <2>2, NextIsBest
  <2>4. NextAsk(offers, i) \in Int
    <3>1. i \in 0..Len(offers)
      BY <1>1, StackGrows
    <3> QED
      BY <3>1, AsksAndBids
  <2> QED
    BY <1>2, <1>3, <2>3, <2>4
<1>6. ASSUME NEW k \in DOMAIN offers, Cleared(offers[k], q) > 0 PROVE offers[k].price <= price
  <2>1. Below(offers[k]) < q
    BY <1>1, <1>6, ClearedLiesBelow
  <2>2. Below(demands[d]) < q
    BY <1>3, <1>4, <2>1
  <2> QED
    BY <1>4, <2>1, <2>2, TradersAgree
<1>7. ASSUME NEW l \in DOMAIN demands, Cleared(demands[l], q) > 0 PROVE price <= demands[l].price
  <2>1. Below(demands[l]) < q
    BY <1>1, <1>7, ClearedLiesBelow
  <2> QED
    BY <1>2, <2>1, BidStands
<1>8. ASSUME NEW l \in DOMAIN demands, Unmet(demands[l], q) > 0 PROVE demands[l].price <= price
  <2>1. q < demands[l].cumul
    BY <1>1, <1>8, ClearedLiesBelow
  <2>2. q <= demands[l].cumul
    BY <1>3, <2>1
  <2> QED
    BY <1>2, <2>2, BidStands
<1>9. PriceSuits(offers, demands, q, price)
  BY <1>2, <1>3, <1>5, <1>6, <1>7, <1>8 DEF PriceSuits
<1>10. NobodyLeftAgrees(offers, demands, q)
  <2> SUFFICES ASSUME NEW k \in DOMAIN offers, NEW l \in DOMAIN demands,
                      Unmet(offers[k], q) > 0, Unmet(demands[l], q) > 0
               PROVE  demands[l].price < offers[k].price
    BY DEF NobodyLeftAgrees
  <2>1. price < offers[k].price /\ demands[l].price <= price
    BY <1>5, <1>8
  <2> QED
    BY <1>2, <1>3, <2>1
<1> QED
  BY <1>4, <1>9, <1>10 DEF Named

\* Where a demand's end does and no offer's, the price suits everyone too.
LEMMA DemandStopSuits ==
    ASSUME NEW offers, OffersInOrder(offers), NEW demands, DemandsInOrder(demands),
           offers # <<>>, ~(offers[1].price > demands[1].price),
           NEW q \in Nat, q <= Height(offers), NoStopBefore(offers, demands, q),
           NEW price, NEW j \in DOMAIN demands, StopsAtDemand(offers, demands, q, price, j)
    PROVE  /\ PriceSuits(offers, demands, q, price)
           /\ NobodyLeftAgrees(offers, demands, q)
           /\ Named(offers, demands, price)
<1>1. Stacked(offers) /\ Stacked(demands)
  BY DEF OffersInOrder, DemandsInOrder
<1>2. /\ demands[j].cumul = q /\ price = AskAt(offers, demands, j) /\ price \in Int
      /\ NextBid(demands, j) < price
  BY AsksAndBids DEF StopsAtDemand, DemandsThatStop
<1>3. /\ \A k \in DOMAIN offers : /\ offers[k].price \in Int /\ offers[k].cumul \in Nat
                                  /\ Below(offers[k]) \in Nat
                                  /\ k = 1 => Below(offers[k]) = 0
      /\ \A l \in DOMAIN demands : /\ demands[l].price \in Int /\ Below(demands[l]) \in Nat
                                   /\ demands[l].cumul \in Nat
  BY <1>1, StackGrows
<1>4. /\ \A l \in DOMAIN demands : /\ l \in Nat /\ l < j => demands[l].cumul <= Below(demands[j])
      /\ Below(demands[j]) <= demands[j].cumul
  <2>1. /\ DOMAIN demands = 1..Len(demands) /\ Len(demands) \in Nat
    BY <1>1, StackGrows
  <2>2. demands[j].cumul = Below(demands[j]) + demands[j].capacity /\ demands[j].capacity \in Nat
        /\ Below(demands[j]) \in Nat
    BY <1>1, StackGrows
  <2>3. \A l \in DOMAIN demands : l < j => demands[l].cumul <= Below(demands[j])
    BY <1>1, StackGrows
  <2>4. \A l \in DOMAIN demands : l \in Nat
    BY <2>1
  <2>5. Below(demands[j]) <= demands[j].cumul
    BY <2>2
  <2> QED
    BY <2>3, <2>4, <2>5
<1>5. ASSUME NEW i \in DOMAIN offers, offers[i].cumul = q
      PROVE  /\ ~(BidAt(offers, demands, i) < NextAsk(offers, i))
             /\ NextAsk(offers, i) # Unbounded
  BY <1>5 DEF StopsAtDemand, OffersThatStop
<1>6. q < Height(offers)
  <2> DEFINE n == Len(offers)
  <2>1. n \in Nat /\ DOMAIN offers = 1..n
    BY <1>1, StackGrows
  <2>2. n # 0 /\ Height(offers) = offers[n].cumul
    <3>1. offers \in Seq(EntryType)
      BY <1>1 DEF Stacked
    <3> QED
      BY <3>1 DEF Height
  <2>3. n \in 0..n => NextAsk(offers, n) = Unbounded
    BY AsksAndBids
  <2> HIDE DEF n
  <2>4. n \in DOMAIN offers /\ NextAsk(offers, n) = Unbounded
    BY <2>1, <2>2, <2>3
  <2>5. offers[n].cumul # q /\ offers[n].cumul \in Nat
    BY <1>3, <1>5, <2>4
  <2> QED
    BY <2>2, <2>5
<1>7. PICK d \in DOMAIN offers : /\ price = offers[d].price
                                 /\ d = 1 \/ Below(offers[d]) <= q
  BY <1>2, <1>6, AskStands
<1>8. ASSUME NEW k \in DOMAIN offers, Unmet(offers[k], q) > 0 PROVE price <= offers[k].price
  <2>1. q < offers[k].cumul
    BY <1>1, <1>8, ClearedLiesBelow
  <2> QED
    BY <1>2, <2>1, AskStands
<1>9. ASSUME NEW k \in DOMAIN offers, Cleared(offers[k], q) > 0 PROVE offers[k].price <= price
  <2>1. Below(offers[k]) < q
    BY <1>1, <1>9, ClearedLiesBelow
  <2>2. Below(offers[k]) <= q
    BY <1>3, <2>1
  <2> QED
    BY <1>2, <2>2, AskStands
<1>10. ASSUME NEW l \in DOMAIN demands, Cleared(demands[l], q) > 0 PROVE price <= demands[l].price
  <2>1. Below(demands[l]) < q
    BY <1>1, <1>10, ClearedLiesBelow
  <2>2. CASE Below(offers[d]) < q
    BY <1>7, <2>1, <2>2, TradersAgree
  <2>3. CASE ~(Below(offers[d]) < q)
    <3>1. d # 1 /\ Below(offers[d]) = q
      BY <1>3, <1>7, <2>1, <2>3
    <3> DEFINE i == d - 1
    <3>2. /\ i \in DOMAIN offers /\ NextAsk(offers, i) = offers[d].price
          /\ offers[i].cumul = Below(offers[d])
      BY <3>1, NextIsBest
    <3> HIDE DEF i
    <3>3. ~(BidAt(offers, demands, i) < NextAsk(offers, i))
      BY <1>5, <3>1, <3>2
    <3>4. BidAt(offers, demands, i) <= demands[l].price
      BY <2>1, <3>1, <3>2, BidStands
    <3>5. BidAt(offers, demands, i) \in Int /\ offers[d].price \in Int /\ demands[l].price \in Int
      BY <1>3, <3>2, AsksAndBids
    <3> QED
      BY <1>7, <3>2, <3>3, <3>4, <3>5
  <2> QED
    BY <2>2, <2>3
<1>11. ASSUME NEW l \in DOMAIN demands, Unmet(demands[l], q) > 0 PROVE demands[l].price < price
  <2>1. q < demands[l].cumul
    BY <1>1, <1>11, ClearedLiesBelow
  <2>2. j < l
    <3>1. l # j
      BY <1>2, <1>3, <2>1
    <3>2. ~(l < j)
      <4>1. SUFFICES ASSUME l < j PROVE FALSE
        OBVIOUS
      <4>2. demands[l].cumul <= Below(demands[j]) /\ Below(demands[j]) <= demands[j].cumul
        BY <1>4, <4>1
      <4>3. demands[l].cumul \in Nat /\ Below(demands[j]) \in Nat
        BY <1>3
      <4> QED
        BY <1>2, <2>1, <4>2, <4>3
    <3> QED
      BY <1>4, <3>1, <3>2
  <2>3. demands[l].price <= NextBid(demands, j)
    BY <2>2, NextIsBest
  <2>4. NextBid(demands, j) \in Int
    <3>1. j \in 0..Len(demands)
      BY <1>1, StackGrows
    <3> QED
      BY <3>1, AsksAndBids
  <2> QED
    BY <1>2, <1>3, <2>3, <2>4
<1>12. PriceSuits(offers, demands, q, price)
  BY <1>2, <1>3, <1>8, <1>9, <1>10, <1>11 DEF PriceSuits
<1>13. NobodyLeftAgrees(offers, demands, q)
  <2> SUFFICES ASSUME NEW k \in DOMAIN offers, NEW l \in DOMAIN demands,
                      Unmet(offers[k], q) > 0, Unmet(demands[l], q) > 0
               PROVE  demands[l].price < offers[k].price
    BY DEF NobodyLeftAgrees
  <2>1. price <= offers[k].price /\ demands[l].price < price
    BY <1>8, <1>11
  <2> QED
    BY <1>2, <1>3, <2>1
<1> QED
  BY <1>7, <1>12, <1>13 DEF Named

\* However a market's book ends up, nobody is left who could trade; and its price, if there
\* are both offers and bids, is one of theirs and suits everyone.
LEMMA ClearingSuits ==
    ASSUME NEW offers, OffersInOrder(offers), NEW demands, DemandsInOrder(demands),
           NEW optimum, optimum = MarketOptimum(offers, demands)
    PROVE  /\ NobodyLeftAgrees(offers, demands, optimum.quantity)
           /\ offers # <<>> /\ demands # <<>>
                => /\ PriceSuits(offers, demands, optimum.quantity, optimum.price)
                   /\ Named(offers, demands, optimum.price)
           /\ offers = <<>> \/ demands = <<>> => optimum.quantity = 0
<1>1. Stacked(offers) /\ Stacked(demands)
  BY DEF OffersInOrder, DemandsInOrder
<1>2. /\ offers \in Seq(EntryType) /\ demands \in Seq(EntryType)
      /\ DOMAIN offers = 1..Len(offers) /\ DOMAIN demands = 1..Len(demands)
      /\ \A k \in DOMAIN offers : offers[k].price \in Int /\ Below(offers[k]) \in Nat
      /\ \A l \in DOMAIN demands : demands[l].price \in Int /\ Below(demands[l]) \in Nat
  BY <1>1, StackGrows DEF Stacked
<1>3. CASE offers = <<>> \/ demands = <<>>
  <2>1. optimum = [price |-> 0, quantity |-> 0]
    BY <1>3 DEF MarketOptimum
  <2>2. DOMAIN offers = {} \/ DOMAIN demands = {}
    BY <1>3
  <2> QED
    BY <1>3, <2>1, <2>2 DEF NobodyLeftAgrees
<1>4. CASE offers # <<>> /\ demands # <<>> /\ offers[1].price > demands[1].price
  <2> DEFINE price == demands[1].price
  <2>1. optimum.price = price /\ optimum.quantity = 0
    BY <1>4 DEF MarketOptimum
  <2>2. 1 \in DOMAIN offers /\ 1 \in DOMAIN demands /\ price \in Int
    BY <1>2, <1>4
  <2>3. ASSUME NEW k \in DOMAIN offers
        PROVE  price < offers[k].price /\ ~(Cleared(offers[k], 0) > 0)
    <3>1. ~(Cleared(offers[k], 0) > 0)
      <4>1. ~(Below(offers[k]) < 0) /\ 0 \in Nat
        BY <1>2
      <4> QED
        BY <1>1, <4>1, ClearedLiesBelow
    <3>2. offers[1].price <= offers[k].price
      <4>1. k = 1 \/ 1 < k
        BY <1>2
      <4> QED
        BY <1>2, <2>2, <4>1 DEF OffersInOrder
    <3> QED
      BY <1>2, <1>4, <2>2, <3>1, <3>2
  <2>4. ASSUME NEW l \in DOMAIN demands
        PROVE  demands[l].price <= price /\ ~(Cleared(demands[l], 0) > 0)
    <3>1. ~(Cleared(demands[l], 0) > 0)
      <4>1. ~(Below(demands[l]) < 0) /\ 0 \in Nat
        BY <1>2
      <4> QED
        BY <1>1, <4>1, ClearedLiesBelow
    <3>2. l = 1 \/ 1 < l
      BY <1>2
    <3> QED
      BY <1>2, <2>2, <3>1, <3>2 DEF DemandsInOrder
  <2> HIDE DEF price
  <2>5. PriceSuits(offers, demands, 0, price)
    BY <1>2, <2>2, <2>3, <2>4 DEF PriceSuits
  <2>6. NobodyLeftAgrees(offers, demands, 0)
    <3> SUFFICES ASSUME NEW k \in DOMAIN offers, NEW l \in DOMAIN demands
                 PROVE  demands[l].price < offers[k].price
      BY DEF NobodyLeftAgrees
    <3> QED
      BY <1>2, <2>2, <2>3, <2>4
  <2>7. Named(offers, demands, price)
    BY <2>2 DEF Named, price
  <2> QED
    BY <1>4, <2>1, <2>5, <2>6, <2>7
<1>5. CASE offers # <<>> /\ demands # <<>> /\ ~(offers[1].price > demands[1].price)
  <2> DEFINE q == optimum.quantity
             price == optimum.price
  <2>1. /\ q \in Nat /\ q <= Height(offers) /\ q <= Height(demands)
        /\ NoStopBefore(offers, demands, q)
        /\ \/ \E i \in DOMAIN offers : StopsAtOffer(offers, demands, q, price, i)
           \/ \E j \in DOMAIN demands : StopsAtDemand(offers, demands, q, price, j)
    BY <1>5, MarketStops
  <2> HIDE DEF q, price
  <2>2. /\ PriceSuits(offers, demands, q, price)
        /\ NobodyLeftAgrees(offers, demands, q)
        /\ Named(offers, demands, price)
    <3>1. CASE \E i \in DOMAIN offers : StopsAtOffer(offers, demands, q, price, i)
      BY <1>5, <2>1, <3>1, OfferStopSuits
    <3>2. CASE \E j \in DOMAIN demands : StopsAtDemand(offers, demands, q, price, j)
      BY <1>5, <2>1, <3>2, DemandStopSuits
    <3> QED
      BY <2>1, <3>1, <3>2
  <2> QED
    BY <1>5, <2>2 DEF q, price
<1> QED
  BY <1>3, <1>4, <1>5

\* What entries offer or ask for that name one of the prices P.
WillingAt(entries, P) ==
    [i \in DOMAIN entries |-> IF entries[i].price \in P THEN entries[i].capacity ELSE 0]

\* Which is the same in merit order.
LEMMA WillingInAll ==
    ASSUME NEW entries \in Seq(EntryType), NEW descending \in BOOLEAN, NEW out, Stacked(out),
           NEW place, Arranges(out, entries, descending, place), NEW P
    PROVE  /\ SumFunction(WillingAt(out, P)) = SumFunction(WillingAt(entries, P))
           /\ SumFunction(WillingAt(out, P)) \in Nat
<1>1. KeepsEntries(out, entries, place)
  BY ArrangedKeeps
<1> DEFINE f == WillingAt(entries, P)
           g == WillingAt(out, P)
<1>2. \A k \in DOMAIN out : out[k].capacity \in Nat
  BY StackGrows
<1>3. \A i \in DOMAIN entries : entries[i].capacity \in Nat
  BY EntriesTyped
<1>4. Carries(g, out, f, entries, place)
  <2>1. /\ DOMAIN f = DOMAIN entries /\ DOMAIN g = DOMAIN out
        /\ \A i \in DOMAIN entries :
              f[i] = IF entries[i].price \in P THEN entries[i].capacity ELSE 0
        /\ \A k \in DOMAIN out : g[k] = IF out[k].price \in P THEN out[k].capacity ELSE 0
    BY DEF WillingAt
  <2> HIDE DEF f, g
  <2>2. ASSUME NEW k \in DOMAIN out PROVE g[k] = f[place[k]]
    <3>1. /\ place[k] \in DOMAIN entries /\ out[k].price = entries[place[k]].price
          /\ out[k].capacity = entries[place[k]].capacity
      BY <1>1 DEF KeepsEntries
    <3> QED
      BY <2>1, <3>1
  <2>3. \A i \in DOMAIN entries : f[i] \in Int
    BY <1>3, <2>1
  <2> QED
    BY <2>1, <2>2, <2>3 DEF Carries
<1>5. DOMAIN g = DOMAIN out /\ \A k \in DOMAIN out : g[k] \in Nat
  BY <1>2 DEF WillingAt
<1>6. IsFiniteSet(DOMAIN out)
  BY StackIsFinite
<1> HIDE DEF f, g
<1>7. SumFunction(g) = SumFunction(f)
  BY <1>4, ArrangedSum
<1> DEFINE S == DOMAIN out
<1>8. IsFiniteSet(S) /\ \A k \in S : g[k] \in Nat
  BY <1>5, <1>6
<1> HIDE DEF S
<1>9. SumFunctionOnSet(g, S) \in Nat
  BY <1>8, SumOfNaturals
<1>10. SumFunction(g) \in Nat
  BY <1>5, <1>9 DEF SumFunction, S
<1> QED
  BY <1>7, <1>10 DEF f, g

\* If all that trades names one of the prices P, those are at least what trades; and if they
\* are more, one of them is left with some.
LEMMA WillingTrade ==
    ASSUME NEW out, Stacked(out), NEW q \in Nat, q <= Height(out), NEW P
    PROVE  /\ (\A k \in DOMAIN out : Cleared(out[k], q) > 0 => out[k].price \in P)
                => q <= SumFunction(WillingAt(out, P))
           /\ q < SumFunction(WillingAt(out, P))
                => \E k \in DOMAIN out : out[k].price \in P /\ Unmet(out[k], q) > 0
<1> DEFINE S == DOMAIN out
           g == [k \in DOMAIN out |-> Cleared(out[k], q)]
           w == WillingAt(out, P)
<1>1. IsFiniteSet(S)
  BY StackIsFinite
<1>2. SumFunction(g) = AtMost(Height(out), q) /\ Height(out) \in Nat
  BY ClearedInAll, StackGrows
<1>3. SumFunction(g) = q
  BY <1>2 DEF AtMost
<1>4. ASSUME NEW k \in S
      PROVE  /\ Cleared(out[k], q) \in 0..out[k].capacity /\ out[k].capacity \in Nat
             /\ Unmet(out[k], q) = out[k].capacity - Cleared(out[k], q)
  BY ClearedIs, StackGrows
<1>5. ASSUME NEW k \in S
      PROVE  /\ g[k] = Cleared(out[k], q) /\ g[k] \in Int /\ w[k] \in Int
             /\ w[k] = IF out[k].price \in P THEN out[k].capacity ELSE 0
  BY <1>4 DEF WillingAt
<1>6. DOMAIN g = S /\ DOMAIN w = S
  BY DEF WillingAt
<1> HIDE DEF S, g, w
<1>7. SumFunction(g) = SumFunctionOnSet(g, S) /\ SumFunction(w) = SumFunctionOnSet(w, S)
  BY <1>6 DEF SumFunction
<1>8. SumFunctionOnSet(w, S) \in Int
  <2>1. \A k \in S : w[k] \in Int
    BY <1>5
  <2> QED
    BY <1>1, <2>1, SumStep
<1>9. ASSUME \A k \in S : Cleared(out[k], q) > 0 => out[k].price \in P
      PROVE  q <= SumFunction(w)
  <2>1. ASSUME NEW k \in S PROVE g[k] <= w[k]
    BY <1>4, <1>5, <1>9
  <2>2. \A k \in S : g[k] \in Int /\ w[k] \in Int /\ g[k] <= w[k]
    BY <1>5, <2>1
  <2>3. SumFunctionOnSet(g, S) <= SumFunctionOnSet(w, S)
    BY <1>1, <2>2, SumNoMore
  <2> QED
    BY <1>3, <1>7, <2>3
<1>10. ASSUME q < SumFunction(w)
       PROVE  \E k \in S : out[k].price \in P /\ Unmet(out[k], q) > 0
  <2> SUFFICES ASSUME \A k \in S : ~(out[k].price \in P /\ Unmet(out[k], q) > 0)
               PROVE  FALSE
    OBVIOUS
  <2>1. ASSUME NEW k \in S PROVE w[k] <= g[k]
    BY <1>4, <1>5
  <2>2. \A k \in S : w[k] \in Int /\ g[k] \in Int /\ w[k] <= g[k]
    BY <1>5, <2>1
  <2>3. SumFunctionOnSet(w, S) <= SumFunctionOnSet(g, S)
    BY <1>1, <2>2, SumNoMore
  <2> QED
    BY <1>3, <1>7, <1>8, <1>10, <2>3
<1> QED
  BY <1>9, <1>10 DEF S, w

\* Prices at which an offer that is no dearer sells, and at which a bid that is no lower buys.
UpTo(p) == { x \in Int : x <= p }
From(p) == { x \in Int : p <= x }

\* What is offered at a price, and asked for, does not depend on the order of the book.
LEMMA OfferedIs ==
    ASSUME IsBook(market), NEW c, c = ClearMarket(market), NEW p \in Int
    PROVE  /\ Offered(p) = SumFunction(WillingAt(c.offers, UpTo(p))) /\ Offered(p) \in Nat
           /\ AskedFor(p) = SumFunction(WillingAt(c.demands, From(p))) /\ AskedFor(p) \in Nat
<1> DEFINE offers == market.offers
           demands == market.demands
           sell == [i \in DOMAIN offers |-> IF offers[i].price <= p THEN offers[i].capacity ELSE 0]
           buy == [j \in DOMAIN demands |-> IF demands[j].price >= p THEN demands[j].capacity ELSE 0]
<1>1. Offered(p) = SumFunction(sell)
  BY Zenon DEF Offered, Total
<1>2. AskedFor(p) = SumFunction(buy)
  BY Zenon DEF AskedFor, Total
<1>3. /\ offers \in Seq(EntryType) /\ demands \in Seq(EntryType)
      /\ OffersInOrder(c.offers) /\ DemandsInOrder(c.demands)
      /\ c.offers = MeritOrder(offers, FALSE) /\ c.demands = MeritOrder(demands, TRUE)
  BY BookClears DEF IsBook
<1>4. Stacked(c.offers) /\ Stacked(c.demands)
  BY <1>3 DEF OffersInOrder, DemandsInOrder
<1>5. /\ \E place : Arranges(c.offers, offers, FALSE, place)
      /\ \E place : Arranges(c.demands, demands, TRUE, place)
  BY <1>3, OffersAreOrdered, DemandsAreOrdered
<1>6. sell = WillingAt(offers, UpTo(p))
  <2>1. \A i \in DOMAIN offers : offers[i].price \in Int
    BY <1>3, EntriesTyped
  <2>2. \A i \in DOMAIN offers : offers[i].price <= p <=> offers[i].price \in UpTo(p)
    BY <2>1 DEF UpTo
  <2>3. WillingAt(offers, UpTo(p)) = [i \in DOMAIN offers |->
                    IF offers[i].price \in UpTo(p) THEN offers[i].capacity ELSE 0]
    BY Zenon DEF WillingAt
  <2> HIDE DEF offers
  <2> QED
    BY <2>2, <2>3
<1>7. buy = WillingAt(demands, From(p))
  <2>1. \A j \in DOMAIN demands : demands[j].price \in Int
    BY <1>3, EntriesTyped
  <2>2. \A j \in DOMAIN demands : demands[j].price >= p <=> demands[j].price \in From(p)
    BY <2>1 DEF From
  <2>3. WillingAt(demands, From(p)) = [j \in DOMAIN demands |->
                    IF demands[j].price \in From(p) THEN demands[j].capacity ELSE 0]
    BY Zenon DEF WillingAt
  <2> HIDE DEF demands
  <2> QED
    BY <2>2, <2>3
<1> DEFINE up == FALSE
           down == TRUE
<1>8. /\ up \in BOOLEAN /\ down \in BOOLEAN
      /\ \E place : Arranges(c.offers, offers, up, place)
      /\ \E place : Arranges(c.demands, demands, down, place)
  BY <1>5
<1> HIDE DEF offers, demands, sell, buy, up, down
<1>9. /\ SumFunction(WillingAt(c.offers, UpTo(p))) = SumFunction(WillingAt(offers, UpTo(p)))
      /\ SumFunction(WillingAt(c.offers, UpTo(p))) \in Nat
  BY <1>3, <1>4, <1>8, WillingInAll
<1>10. /\ SumFunction(WillingAt(c.demands, From(p))) = SumFunction(WillingAt(demands, From(p)))
       /\ SumFunction(WillingAt(c.demands, From(p))) \in Nat
  BY <1>3, <1>4, <1>8, WillingInAll
<1> QED
  BY <1>1, <1>2, <1>6, <1>7, <1>9, <1>10

\* A price that an entry in merit order names is one that an entry of the book does.
LEMMA NamedInTheBook ==
    ASSUME IsBook(market), NEW c, c = ClearMarket(market), NEW p, Named(c.offers, c.demands, p)
    PROVE  p \in { market.offers[i].price : i \in DOMAIN market.offers }
                   \cup { market.demands[j].price : j \in DOMAIN market.demands }
<1>1. /\ OffersInOrder(c.offers) /\ DemandsInOrder(c.demands)
      /\ c.offers = MeritOrder(market.offers, FALSE)
      /\ c.demands = MeritOrder(market.demands, TRUE)
      /\ market.offers \in Seq(EntryType) /\ market.demands \in Seq(EntryType)
  BY BookClears DEF IsBook
<1>2. Stacked(c.offers) /\ Stacked(c.demands)
  BY <1>1 DEF OffersInOrder, DemandsInOrder
<1>3. CASE \E k \in DOMAIN c.offers : p = c.offers[k].price
  <2>1. PICK place : Arranges(c.offers, market.offers, FALSE, place)
    BY <1>1, OffersAreOrdered
  <2>2. KeepsEntries(c.offers, market.offers, place)
    BY <1>1, <1>2, <2>1, ArrangedKeeps
  <2>3. PICK k \in DOMAIN c.offers : p = c.offers[k].price
    BY <1>3
  <2>4. place[k] \in DOMAIN market.offers /\ p = market.offers[place[k]].price
    BY <2>2, <2>3 DEF KeepsEntries
  <2> QED
    BY <2>4
<1>4. CASE \E l \in DOMAIN c.demands : p = c.demands[l].price
  <2>1. PICK place : Arranges(c.demands, market.demands, TRUE, place)
    BY <1>1, DemandsAreOrdered
  <2>2. KeepsEntries(c.demands, market.demands, place)
    BY <1>1, <1>2, <2>1, ArrangedKeeps
  <2>3. PICK l \in DOMAIN c.demands : p = c.demands[l].price
    BY <1>4
  <2>4. place[l] \in DOMAIN market.demands /\ p = market.demands[place[l]].price
    BY <2>2, <2>3 DEF KeepsEntries
  <2> QED
    BY <2>4
<1> QED
  BY <1>3, <1>4 DEF Named

\* Of any book, as much trades as can at any price its entries name.
LEMMA ABookTradesMost ==
    ASSUME IsBook(market)
    PROVE  MostIsTraded
<1> DEFINE c == Clearing
           q == c.quantity
           prices == { market.offers[i].price : i \in DOMAIN market.offers }
                       \cup { market.demands[j].price : j \in DOMAIN market.demands }
           amounts == { AtMost(Offered(p), AskedFor(p)) : p \in prices }
           S == {0} \cup amounts
<1>1. c = ClearMarket(market)
  BY DEF Clearing
<1>2. prices \subseteq Int
  <2>1. market.offers \in Seq(EntryType) /\ market.demands \in Seq(EntryType)
    BY DEF IsBook
  <2>2. /\ \A i \in DOMAIN market.offers : market.offers[i].price \in Int
        /\ \A j \in DOMAIN market.demands : market.demands[j].price \in Int
    BY <2>1, EntriesTyped
  <2> QED
    BY <2>2
<1>3. SUFFICES q = Max(S)
  BY Zenon DEF MostIsTraded, c
<1> HIDE DEF c
<1>4. /\ OffersInOrder(c.offers) /\ DemandsInOrder(c.demands) /\ q \in Nat
      /\ q <= Height(c.offers) /\ q <= Height(c.demands)
      /\ q = MarketOptimum(c.offers, c.demands).quantity
      /\ c.price = MarketOptimum(c.offers, c.demands).price /\ c.price \in Int
  BY <1>1, BookClears
<1>5. Stacked(c.offers) /\ Stacked(c.demands)
  BY <1>4 DEF OffersInOrder, DemandsInOrder
<1>6. /\ NobodyLeftAgrees(c.offers, c.demands, q)
      /\ c.offers # <<>> /\ c.demands # <<>>
           => PriceSuits(c.offers, c.demands, q, c.price) /\ Named(c.offers, c.demands, c.price)
      /\ c.offers = <<>> \/ c.demands = <<>> => q = 0
  BY <1>4, ClearingSuits
<1> HIDE DEF q, prices
<1>7. ASSUME NEW p \in Int
      PROVE  /\ Offered(p) \in Nat /\ AskedFor(p) \in Nat
             /\ AtMost(Offered(p), AskedFor(p)) <= q
  <2>1. /\ Offered(p) = SumFunction(WillingAt(c.offers, UpTo(p))) /\ Offered(p) \in Nat
        /\ AskedFor(p) = SumFunction(WillingAt(c.demands, From(p))) /\ AskedFor(p) \in Nat
    BY <1>1, OfferedIs
  <2>2. SUFFICES ASSUME q < Offered(p), q < AskedFor(p) PROVE FALSE
    BY <1>4, <2>1 DEF AtMost
  <2>3. PICK k \in DOMAIN c.offers : c.offers[k].price \in UpTo(p) /\ Unmet(c.offers[k], q) > 0
    BY <1>4, <1>5, <2>1, <2>2, WillingTrade
  <2>4. PICK l \in DOMAIN c.demands : c.demands[l].price \in From(p) /\ Unmet(c.demands[l], q) > 0
    BY <1>4, <1>5, <2>1, <2>2, WillingTrade
  <2>5. c.demands[l].price < c.offers[k].price
    BY <1>6, <2>3, <2>4 DEF NobodyLeftAgrees
  <2> QED
    BY <2>3, <2>4, <2>5 DEF UpTo, From
<1>8. q \in S
  <2>1. CASE q = 0
    BY <2>1
  <2>2. CASE q # 0
    <3>1. /\ PriceSuits(c.offers, c.demands, q, c.price)
          /\ Named(c.offers, c.demands, c.price)
      BY <1>6, <2>2
    <3> DEFINE p == c.price
    <3>2. p \in prices
      BY <1>1, <3>1, NamedInTheBook DEF prices
    <3>3. /\ Offered(p) = SumFunction(WillingAt(c.offers, UpTo(p))) /\ Offered(p) \in Nat
          /\ AskedFor(p) = SumFunction(WillingAt(c.demands, From(p))) /\ AskedFor(p) \in Nat
      BY <1>1, <1>4, OfferedIs
    <3>4. q <= Offered(p)
      <4>1. ASSUME NEW k \in DOMAIN c.offers, Cleared(c.offers[k], q) > 0
            PROVE  c.offers[k].price \in UpTo(p)
        <5>1. c.offers[k].price \in Int /\ c.offers[k].price <= p
          BY <1>5, <3>1, <4>1, StackGrows DEF PriceSuits
        <5> QED
          BY <5>1 DEF UpTo
      <4> QED
        BY <1>4, <1>5, <3>3, <4>1, WillingTrade
    <3>5. q <= AskedFor(p)
      <4>1. ASSUME NEW l \in DOMAIN c.demands, Cleared(c.demands[l], q) > 0
            PROVE  c.demands[l].price \in From(p)
        <5>1. c.demands[l].price \in Int /\ p <= c.demands[l].price
          BY <1>4, <1>5, <3>1, <4>1, StackGrows DEF PriceSuits
        <5> QED
          BY <5>1 DEF From
      <4> QED
        BY <1>4, <1>5, <3>3, <4>1, WillingTrade
    <3>6. AtMost(Offered(p), AskedFor(p)) <= q
      BY <1>4, <1>7
    <3> HIDE DEF p
    <3>7. AtMost(Offered(p), AskedFor(p)) = q
      BY <1>4, <3>3, <3>4, <3>5, <3>6 DEF AtMost
    <3> QED
      BY <3>2, <3>7
  <2> QED
    BY <2>1, <2>2
<1>9. \A x \in S : x \in Nat /\ x <= q
  <2>1. ASSUME NEW p \in prices
        PROVE  AtMost(Offered(p), AskedFor(p)) \in Nat /\ AtMost(Offered(p), AskedFor(p)) <= q
    BY <1>2, <1>7 DEF AtMost
  <2> QED
    BY <1>4, <2>1
<1> HIDE DEF S
<1>10. S \in SUBSET Nat /\ S \in SUBSET Int /\ S # {} /\ IsFiniteSet(S)
  <2>1. S \in SUBSET Nat /\ S \in SUBSET Int /\ S # {}
    BY <1>8, <1>9
  <2> QED
    BY <1>4, <1>9, <2>1, FS_BoundedSetOfNaturals
<1>11. Max(S) \in S /\ \A y \in S : y <= Max(S)
  BY <1>10, MaxAndMinAreIn
<1> DEFINE most == Max(S)
<1>m. most \in S /\ \A y \in S : y <= most
  BY <1>11
<1> HIDE DEF most
<1>12. most \in Nat /\ most <= q /\ q <= most /\ q \in Nat
  <2>1. q \in Nat /\ q <= most
    BY <1>8, <1>9, <1>m
  <2>2. most \in Nat /\ most <= q
    BY <1>9, <1>m
  <2> QED
    BY <2>1, <2>2
<1>13. q = most
  BY <1>12
<1> QED
  BY <1>13 DEF most

\* Of any book, nobody sells below their price or buys above it, and nobody is left who
\* would rather have traded.
LEMMA ABookSuitsEveryone ==
    ASSUME IsBook(market)
    PROVE  PriceSuitsEveryone
<1> DEFINE c == Clearing
<1>1. c = ClearMarket(market)
  BY DEF Clearing
<1>2. SUFFICES ASSUME market.offers # <<>>, market.demands # <<>>
               PROVE  PriceSuits(c.offers, c.demands, c.quantity, c.price)
  BY DEF PriceSuitsEveryone, PriceSuits
<1> HIDE DEF c
<1>3. /\ OffersInOrder(c.offers) /\ DemandsInOrder(c.demands)
      /\ c.quantity = MarketOptimum(c.offers, c.demands).quantity
      /\ c.price = MarketOptimum(c.offers, c.demands).price
      /\ c.offers = MeritOrder(market.offers, FALSE)
      /\ c.demands = MeritOrder(market.demands, TRUE)
      /\ market.offers \in Seq(EntryType) /\ market.demands \in Seq(EntryType)
  BY <1>1, BookClears DEF IsBook
<1>4. DOMAIN market.offers # {} /\ DOMAIN market.demands # {}
  <2>1. ASSUME NEW E, NEW s \in Seq(E), s # <<>> PROVE 1 \in DOMAIN s
    <3>1. Len(s) \in Nat /\ Len(s) # 0
      BY <2>1
    <3> QED
      BY <3>1
  <2>2. 1 \in DOMAIN market.offers /\ 1 \in DOMAIN market.demands
    BY <1>2, <1>3, <2>1
  <2> QED
    BY <2>2
<1>5. DOMAIN c.offers = DOMAIN market.offers /\ DOMAIN c.demands = DOMAIN market.demands
  BY <1>3, MeritOrderIs
<1>6. c.offers # <<>> /\ c.demands # <<>>
  <2>1. DOMAIN c.offers # {} /\ DOMAIN c.demands # {}
    BY <1>4, <1>5
  <2>2. DOMAIN <<>> = {}
    OBVIOUS
  <2> QED
    BY <2>1, <2>2, Zenon
<1> QED
  BY <1>3, <1>6, ClearingSuits

\* Of entries owned by their number, those at one price are served in that order.
LEMMA ServedInTurn ==
    ASSUME NEW entries \in Seq(EntryType), \A i \in DOMAIN entries : entries[i].owner = i,
           NEW descending \in BOOLEAN, NEW out, Stacked(out),
           NEW place, Arranges(out, entries, descending, place), NEW q \in Nat,
           NEW j \in DOMAIN out, NEW k \in DOMAIN out, out[j].price = out[k].price,
           out[j].owner < out[k].owner, Cleared(out[k], q) > 0
    PROVE  Unmet(out[j], q) = 0
<1>1. KeepsEntries(out, entries, place)
  BY ArrangedKeeps
<1>2. /\ place[j] \in DOMAIN entries /\ place[k] \in DOMAIN entries
      /\ entries[place[j]].price = entries[place[k]].price
      /\ place[j] < place[k]
  <2>1. /\ place[j] \in DOMAIN entries /\ place[k] \in DOMAIN entries
        /\ out[j].price = entries[place[j]].price /\ out[k].price = entries[place[k]].price
        /\ out[j].owner = entries[place[j]].owner /\ out[k].owner = entries[place[k]].owner
    BY <1>1 DEF KeepsEntries
  <2>2. entries[place[j]].owner = place[j] /\ entries[place[k]].owner = place[k]
    BY <2>1
  <2> QED
    BY <2>1, <2>2
<1>3. /\ place[j] \in Nat /\ place[k] \in Nat /\ entries[place[k]].price \in Int
  BY <1>2, EntriesTyped
<1>4. /\ DOMAIN out = 1..Len(out) /\ Len(out) \in Nat
      /\ out[j].cumul \in Nat /\ Below(out[k]) \in Nat
      /\ j < k => out[j].cumul <= Below(out[k])
      /\ out[j].capacity \in Nat
  BY StackGrows
<1>5. j < k
  <2>1. ~(k < j)
    <3>1. SUFFICES ASSUME k < j PROVE FALSE
      OBVIOUS
    <3>2. GoesBefore(entries, descending, place[k], place[j])
      BY <3>1 DEF Arranges
    <3> QED
      BY <1>2, <1>3, <3>2 DEF GoesBefore
  <2>2. k # j
    BY <1>2, <1>3
  <2> QED
    BY <1>4, <2>1, <2>2
<1>6. Below(out[k]) < q
  BY ClearedLiesBelow
<1>7. out[j].cumul <= q
  BY <1>4, <1>5, <1>6
<1>8. Cleared(out[j], q) = out[j].capacity /\ Unmet(out[j], q) = out[j].capacity - Cleared(out[j], q)
  BY <1>7, ClearedIs
<1> QED
  BY <1>4, <1>8

\* Of any book, entries at one price are served in the order they were placed in.
LEMMA ABookIsServedInTurn ==
    ASSUME BookInv
    PROVE  FirstComeFirstServed
<1> DEFINE c == Clearing
           offers == market.offers
           demands == market.demands
<1>1. c = ClearMarket(market) /\ IsBook(market)
  BY DEF Clearing, BookInv
<1>2. SUFFICES /\ \A j, k \in DOMAIN c.offers :
                     /\ c.offers[j].price = c.offers[k].price
                     /\ c.offers[j].owner < c.offers[k].owner
                     /\ Cleared(c.offers[k], c.quantity) > 0
                     => Unmet(c.offers[j], c.quantity) = 0
               /\ \A j, k \in DOMAIN c.demands :
                     /\ c.demands[j].price = c.demands[k].price
                     /\ c.demands[j].owner < c.demands[k].owner
                     /\ Cleared(c.demands[k], c.quantity) > 0
                     => Unmet(c.demands[j], c.quantity) = 0
  BY Zenon DEF FirstComeFirstServed
<1> HIDE DEF c
<1>3. /\ OffersInOrder(c.offers) /\ DemandsInOrder(c.demands) /\ c.quantity \in Nat
      /\ c.offers = MeritOrder(offers, FALSE) /\ c.demands = MeritOrder(demands, TRUE)
      /\ offers \in Seq(EntryType) /\ demands \in Seq(EntryType)
  BY <1>1, BookClears DEF IsBook
<1>4. Stacked(c.offers) /\ Stacked(c.demands)
  BY <1>3 DEF OffersInOrder, DemandsInOrder
<1>5. /\ \A i \in DOMAIN offers : offers[i].owner = i
      /\ \A i \in DOMAIN demands : demands[i].owner = i
  BY DEF BookInv
<1> DEFINE up == FALSE
           down == TRUE
           out == c.offers
           outD == c.demands
<1>6. /\ up \in BOOLEAN /\ down \in BOOLEAN
      /\ \E place : Arranges(c.offers, offers, up, place)
      /\ \E place : Arranges(c.demands, demands, down, place)
  BY <1>1, <1>3, OffersAreOrdered, DemandsAreOrdered
<1> HIDE DEF offers, demands, up, down
<1>7. ASSUME NEW j \in DOMAIN c.offers, NEW k \in DOMAIN c.offers,
             c.offers[j].price = c.offers[k].price, c.offers[j].owner < c.offers[k].owner,
             Cleared(c.offers[k], c.quantity) > 0
      PROVE  Unmet(c.offers[j], c.quantity) = 0
  BY <1>3, <1>4, <1>5, <1>6, <1>7, ServedInTurn
<1>8. ASSUME NEW j \in DOMAIN c.demands, NEW k \in DOMAIN c.demands,
             c.demands[j].price = c.demands[k].price, c.demands[j].owner < c.demands[k].owner,
             Cleared(c.demands[k], c.quantity) > 0
      PROVE  Unmet(c.demands[j], c.quantity) = 0
  BY <1>3, <1>4, <1>5, <1>6, <1>8, ServedInTurn
<1> QED
  BY <1>7, <1>8

\* Whatever is offered and bid for, the market clears all that can trade, at a price that
\* suits every entry, and in turn among those that ask for the same.
THEOREM AlwaysTheBestTrade == BookSpec => []BestTrade
<1>1. BookInv => BestTrade
  <2> SUFFICES ASSUME BookInv PROVE BestTrade
    OBVIOUS
  <2>1. IsBook(market)
    BY DEF BookInv
  <2> QED
    BY <2>1, ABookTradesMost, ABookSuitsEveryone, ABookIsServedInTurn DEF BestTrade
<1> QED
  BY <1>1, BookInvHolds, PTL
=============================================================================
