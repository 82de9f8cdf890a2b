--------------------------- MODULE OperatorProofs ---------------------------
(***************************************************************************)
(* What the other proofs need to know of the operators the modules are     *)
(* built from: the order of checkpoints, for any number of Rounds and      *)
(* seasons, and sums and other folds over finite sets.                     *)
(***************************************************************************)
EXTENDS Checkpoints, Sequences, SequencesExt, FiniteSets, FiniteSetTheorems,
        WellFoundedInduction, TLAPS

\* A checkpoint is one of the five kinds the code has classes for (Checkpoint).
LEMMA CheckpointKinds ==
    ASSUME NEW n, NEW c \in AllCheckpoints(n)
    PROVE  \/ c = NotStarted
           \/ \E r \in 1..n : c = Investment(r)
           \/ \E r \in 1..n, s \in Seasons : c = TradingPeriod(r, s)
           \/ \E r \in 1..n : c = Recap(r)
           \/ c = Finished
BY DEF AllCheckpoints, TradingPeriods

\* Each kind of checkpoint is one of a session of n Rounds.
LEMMA KindsAreCheckpoints ==
    ASSUME NEW n
    PROVE  /\ NotStarted \in AllCheckpoints(n)
           /\ Finished \in AllCheckpoints(n)
           /\ \A r \in 1..n : /\ Investment(r) \in AllCheckpoints(n)
                              /\ Recap(r) \in AllCheckpoints(n)
           /\ \A r \in 1..n, s \in Seasons :
                 /\ TradingPeriod(r, s) \in AllCheckpoints(n)
                 /\ TradingPeriod(r, s) \in TradingPeriods(n)
BY DEF AllCheckpoints, TradingPeriods

\* A game is always somewhere in its own Rounds: a step leads to another checkpoint of
\* a game of as many Rounds (next_checkpoint).
LEMMA NextIsACheckpoint ==
    ASSUME NEW n \in Nat \ {0}, NEW c \in AllCheckpoints(n), c # Finished
    PROVE  NextCheckpoint(c, n) \in AllCheckpoints(n)
<1> USE DEF NextCheckpoint, IsInvestment, IsTrading, IsRecap
<1>1. CASE c = NotStarted
  BY <1>1, KindsAreCheckpoints DEF NotStarted
<1>2. CASE \E r \in 1..n : c = Investment(r)
  <2>1. PICK r \in 1..n : c = Investment(r)
    BY <1>2
  <2>2. NextCheckpoint(c, n) = TradingPeriod(r, 1)
    BY <2>1 DEF Investment
  <2> QED
    BY <2>2, KindsAreCheckpoints, NumSeasonsAssumption DEF Seasons
<1>3. CASE \E r \in 1..n, s \in Seasons : c = TradingPeriod(r, s)
  <2>1. PICK r \in 1..n, s \in Seasons : c = TradingPeriod(r, s)
    BY <1>3
  <2>2. NextCheckpoint(c, n) = IF s < NumSeasons THEN TradingPeriod(r, s + 1) ELSE Recap(r)
    BY <2>1 DEF TradingPeriod
  <2>3. s < NumSeasons => s + 1 \in Seasons
    BY NumSeasonsAssumption DEF Seasons
  <2> QED
    BY <2>2, <2>3, KindsAreCheckpoints
<1>4. CASE \E r \in 1..n : c = Recap(r)
  <2>1. PICK r \in 1..n : c = Recap(r)
    BY <1>4
  <2>2. NextCheckpoint(c, n) = IF r < n THEN Investment(r + 1) ELSE Finished
    BY <2>1 DEF Recap
  <2>3. r < n => r + 1 \in 1..n
    OBVIOUS
  <2> QED
    BY <2>2, <2>3, KindsAreCheckpoints
<1> QED
  BY <1>1, <1>2, <1>3, <1>4, CheckpointKinds

\* The only checkpoints at which a session trades are its Trading periods.
LEMMA TradingIsAPeriod ==
    ASSUME NEW n, NEW c \in AllCheckpoints(n), IsTrading(c)
    PROVE  c \in TradingPeriods(n)
BY CheckpointKinds, KindsAreCheckpoints
DEF IsTrading, NotStarted, Finished, Investment, Recap

\* A session that gets a Round longer stays where it is.
LEMMA MoreRoundsMoreCheckpoints ==
    ASSUME NEW n \in Nat, NEW c \in AllCheckpoints(n)
    PROVE  /\ c \in AllCheckpoints(n + 1)
           /\ TradingPeriods(n) \subseteq TradingPeriods(n + 1)
<1>1. 1..n \subseteq 1..(n + 1)
  OBVIOUS
<1> QED
  BY <1>1, CheckpointKinds, KindsAreCheckpoints DEF TradingPeriods

\* A step never leads back to the same checkpoint.
LEMMA NextIsAnother ==
    ASSUME NEW n \in Nat, NEW c \in AllCheckpoints(n), c # Finished
    PROVE  NextCheckpoint(c, n) # c
<1> USE DEF NextCheckpoint, IsInvestment, IsTrading, IsRecap, NotStarted, Investment,
            TradingPeriod, Recap, Finished
<1>1. CASE c = NotStarted
  BY <1>1
<1>2. CASE \E r \in 1..n : c = Investment(r)
  BY <1>2
<1>3. CASE \E r \in 1..n, s \in Seasons : c = TradingPeriod(r, s)
  <2>1. PICK r \in 1..n, s \in Seasons : c = TradingPeriod(r, s)
    BY <1>3
  <2>2. s \in Nat /\ s + 1 # s
    BY <2>1, NumSeasonsAssumption DEF Seasons
  <2> QED
    BY <2>1, <2>2
<1>4. CASE \E r \in 1..n : c = Recap(r)
  BY <1>4
<1> QED
  BY <1>1, <1>2, <1>3, <1>4, CheckpointKinds

\* The plans locked at a checkpoint are those of some of the Rounds, and stay locked at
\* the next and when a Round is added (locked_rounds).
LEMMA LockedStaysLocked ==
    ASSUME NEW n \in Nat \ {0}, NEW c \in AllCheckpoints(n)
    PROVE  /\ LockedRounds(c, n) \in 0..n
           /\ c # Finished => LockedRounds(c, n) <= LockedRounds(NextCheckpoint(c, n), n)
           /\ ~RecapOpen(c, n) => LockedRounds(c, n) <= LockedRounds(c, n + 1)
<1> USE DEF LockedRounds, RecapOpen, NextCheckpoint, IsInvestment, IsTrading, IsRecap, NotStarted,
            Investment, TradingPeriod, Recap, Finished
<1>1. CASE c = NotStarted
  BY <1>1
<1>2. CASE \E r \in 1..n : c = Investment(r)
  BY <1>2
<1>3. CASE \E r \in 1..n, s \in Seasons : c = TradingPeriod(r, s)
  BY <1>3
<1>4. CASE \E r \in 1..n : c = Recap(r)
  <2>1. PICK r \in 1..n : c = Recap(r)
    BY <1>4
  <2>2. /\ LockedRounds(c, n) = IF r < n THEN r + 1 ELSE n
        /\ NextCheckpoint(c, n) = IF r < n THEN Investment(r + 1) ELSE Finished
        /\ RecapOpen(c, n) = (r >= n)
    BY <2>1
  <2>3. LockedRounds(Investment(r + 1), n) = r + 1 /\ LockedRounds(Finished, n) = n
    OBVIOUS
  <2>4. LockedRounds(c, n + 1) = IF r < n + 1 THEN r + 1 ELSE n + 1
    BY <2>1
  <2> HIDE DEF LockedRounds, NextCheckpoint, RecapOpen
  <2> QED
    BY <2>2, <2>3, <2>4
<1>5. CASE c = Finished
  BY <1>5
<1> QED
  BY <1>1, <1>2, <1>3, <1>4, <1>5, CheckpointKinds

-----------------------------------------------------------------------------
(***************************************************************************)
(* Folds over finite sets, as the community modules define them: one       *)
(* element is picked, and the others are folded before it.  A step takes   *)
(* the element and the result for the others as a pair.                    *)
(***************************************************************************)
Picked(s) == CHOOSE x \in s : TRUE
Others(s) == s \ {Picked(s)}

IsFold(it, S, base, F) ==
    it = [s \in SUBSET S |-> IF s = {} THEN base ELSE F[<<Picked(s), it[Others(s)]>>]]

\* What is picked of a set is one of its elements, and the others are fewer.
LEMMA PickedIsIn ==
    ASSUME NEW s, s # {}
    PROVE  Picked(s) \in s /\ Others(s) \subseteq s /\ Others(s) # s
<1>1. Picked(s) \in s
  BY Zenon DEF Picked
<1> QED
  BY <1>1 DEF Others

\* Induction over the subsets of a finite set, G being those of which the claim holds.
LEMMA SubsetInduction ==
    ASSUME NEW S, IsFiniteSet(S), NEW G,
           \A T \in SUBSET S : (\A U \in SUBSET T : U # T => U \in G) => T \in G
    PROVE  \A T \in SUBSET S : T \in G
<1> DEFINE bad == (SUBSET S) \ G
<1> SUFFICES ASSUME bad # {} PROVE FALSE
  OBVIOUS
<1>1. IsWellFoundedOn(StrictSubsetOrdering(S), SUBSET S)
  <2>1. FiniteSubsetsOf(S) = SUBSET S
    BY FS_FiniteSubsetsOfFinite
  <2>2. IsWellFoundedOn(StrictSubsetOrdering(S), FiniteSubsetsOf(S))
    BY FS_StrictSubsetOrderingWellFounded
  <2> QED
    BY <2>1, <2>2, Zenon
<1>2. PICK T \in bad : \A U \in bad : <<U, T>> \notin StrictSubsetOrdering(S)
  <2> bad \subseteq SUBSET S
    OBVIOUS
  <2> HIDE DEF bad
  <2> QED
    BY <1>1, WFMin
<1>3. ASSUME NEW U \in SUBSET T, U # T PROVE U \in G
  <2>1. <<U, T>> \in StrictSubsetOrdering(S)
    BY <1>3 DEF StrictSubsetOrdering
  <2> QED
    BY <1>2, <2>1
<1> QED
  BY <1>2, <1>3

(***************************************************************************)
(* Folds that pick otherwise: pick says which element of a set is next.    *)
(***************************************************************************)
PicksFrom(pick, S) == \A s \in SUBSET S : s # {} => pick[s] \in s
RestBy(pick, s)    == s \ {pick[s]}

IsFoldBy(pick, it, S, base, F) ==
    it = [s \in SUBSET S |-> IF s = {} THEN base ELSE F[<<pick[s], it[RestBy(pick, s)]>>]]

\* What is picked is in the set, and the rest is less.
LEMMA PickIsIn ==
    ASSUME NEW S, NEW pick, PicksFrom(pick, S), NEW s \in SUBSET S, s # {}
    PROVE  pick[s] \in s /\ RestBy(pick, s) \subseteq s /\ RestBy(pick, s) # s
<1>1. pick[s] \in s
  BY DEF PicksFrom
<1> QED
  BY <1>1 DEF RestBy

\* A fold over a set folds each of its subsets as a fold over that subset does.
LEMMA FoldsAgree ==
    ASSUME NEW S, IsFiniteSet(S), NEW T, S \subseteq T, NEW base, NEW F, NEW one, NEW two,
           NEW pick, PicksFrom(pick, T),
           IsFoldBy(pick, one, S, base, F), IsFoldBy(pick, two, T, base, F)
    PROVE  \A s \in SUBSET S : one[s] = two[s]
<1> DEFINE G == { s \in SUBSET S : one[s] = two[s] }
<1>1. ASSUME NEW s \in SUBSET S, \A u \in SUBSET s : u # s => u \in G
      PROVE  s \in G
  <2>1. CASE s = {}
    BY <2>1 DEF IsFoldBy
  <2>2. CASE s # {}
    <3>1. RestBy(pick, s) \in G
      BY <1>1, <2>2, PickIsIn
    <3>2. one[s] = F[<<pick[s], one[RestBy(pick, s)]>>] /\ two[s] = F[<<pick[s], two[RestBy(pick, s)]>>]
      BY <2>2 DEF IsFoldBy
    <3> QED
      BY <3>1, <3>2
  <2> QED
    BY <2>1, <2>2
<1> HIDE DEF G
<1>2. \A s \in SUBSET S : s \in G
  BY <1>1, SubsetInduction
<1> QED
  BY <1>2 DEF G

\* There is a fold over any finite set, however its elements are picked.
LEMMA FoldsByExist ==
    ASSUME NEW S, IsFiniteSet(S), NEW base, NEW F, NEW pick, PicksFrom(pick, S)
    PROVE  \E it : IsFoldBy(pick, it, S, base, F)
<1> DEFINE fold(s) == CHOOSE it : IsFoldBy(pick, it, s, base, F)
           G == { T \in SUBSET S : IsFoldBy(pick, fold(T), T, base, F) }
<1>1. ASSUME NEW T \in SUBSET S, \A U \in SUBSET T : U # T => U \in G
      PROVE  T \in G
  <2>1. \A s \in SUBSET T : IsFiniteSet(s)
    BY FS_Subset
  <2> DEFINE below(s) == fold(s)[s]
             it == [s \in SUBSET T |-> IF s = {} THEN base
                                       ELSE F[<<pick[s], below(RestBy(pick, s))>>]]
  <2>2. \A s \in SUBSET T : s # T => IsFoldBy(pick, fold(s), s, base, F)
    BY <1>1
  <2> HIDE DEF fold
  <2>3. ASSUME NEW s \in SUBSET T, s # T PROVE it[s] = below(s)
    <3>1. CASE s = {}
      BY <2>2, <2>3, <3>1 DEF IsFoldBy
    <3>2. CASE s # {}
      <4>1. RestBy(pick, s) \in SUBSET s /\ RestBy(pick, s) \in SUBSET T /\ RestBy(pick, s) # T
        BY <2>3, <3>2, PickIsIn
      <4>2. fold(s)[s] = F[<<pick[s], fold(s)[RestBy(pick, s)]>>]
        BY <2>2, <2>3, <3>2 DEF IsFoldBy
      <4>3. fold(RestBy(pick, s))[RestBy(pick, s)] = fold(s)[RestBy(pick, s)]
        <5> DEFINE o == RestBy(pick, s)
        <5>0. PicksFrom(pick, s)
          BY <2>3 DEF PicksFrom
        <5>1. /\ IsFiniteSet(o) /\ o \subseteq s /\ o \in SUBSET o
              /\ IsFoldBy(pick, fold(o), o, base, F)
              /\ IsFoldBy(pick, fold(s), s, base, F)
          BY <2>1, <2>2, <2>3, <4>1
        <5> HIDE DEF o
        <5>2. \A u \in SUBSET o : fold(o)[u] = fold(s)[u]
          BY <5>0, <5>1, FoldsAgree
        <5> QED
          BY <5>1, <5>2 DEF o
      <4> QED
        BY <3>2, <4>2, <4>3
    <3> QED
      BY <3>1, <3>2
  <2>4. ASSUME NEW s \in SUBSET T, s # {} PROVE it[s] = F[<<pick[s], it[RestBy(pick, s)]>>]
    <3>1. RestBy(pick, s) \in SUBSET T /\ RestBy(pick, s) # T
      BY <2>4, PickIsIn
    <3>2. it[RestBy(pick, s)] = below(RestBy(pick, s))
      BY <2>3, <3>1
    <3> QED
      BY <2>4, <3>2
  <2>5. it[{}] = base
    OBVIOUS
  <2>6. IsFoldBy(pick, it, T, base, F)
    <3>1. it = [s \in SUBSET T |-> it[s]]
      OBVIOUS
    <3>2. \A s \in SUBSET T : it[s] = IF s = {} THEN base ELSE F[<<pick[s], it[RestBy(pick, s)]>>]
      BY <2>4, <2>5
    <3> HIDE DEF it
    <3> QED
      BY <3>1, <3>2 DEF IsFoldBy
  <2> HIDE DEF it
  <2>7. IsFoldBy(pick, fold(T), T, base, F)
    BY <2>6, Zenon DEF fold
  <2> QED
    BY <2>7
<1>2. \A T \in SUBSET S : T \in G
  <2> HIDE DEF G
  <2> QED
    BY <1>1, SubsetInduction
<1>3. IsFoldBy(pick, fold(S), S, base, F)
  BY <1>2
<1> QED
  BY <1>3

\* What a fold makes is of the type it starts with and its steps keep, however it picks.
LEMMA FoldByTyped ==
    ASSUME NEW S, IsFiniteSet(S), NEW D, NEW base \in D, NEW F,
           \A x \in S, d \in D : F[<<x, d>>] \in D,
           NEW pick, PicksFrom(pick, S), NEW it, IsFoldBy(pick, it, S, base, F)
    PROVE  \A s \in SUBSET S : it[s] \in D
<1> DEFINE G == { s \in SUBSET S : it[s] \in D }
<1>1. ASSUME NEW s \in SUBSET S, \A u \in SUBSET s : u # s => u \in G
      PROVE  s \in G
  <2>1. CASE s = {}
    BY <2>1 DEF IsFoldBy
  <2>2. CASE s # {}
    <3>1. RestBy(pick, s) \in G /\ pick[s] \in S
      BY <1>1, <2>2, PickIsIn
    <3>2. it[s] = F[<<pick[s], it[RestBy(pick, s)]>>]
      BY <2>2 DEF IsFoldBy
    <3> QED
      BY <3>1, <3>2
  <2> QED
    BY <2>1, <2>2
<1> HIDE DEF G
<1>2. \A s \in SUBSET S : s \in G
  BY <1>1, SubsetInduction
<1> QED
  BY <1>2 DEF G

\* A fold as the community modules pick is one that picks like that.
LEMMA FoldIsBy ==
    ASSUME NEW S, NEW base, NEW F
    PROVE  \E pick : /\ PicksFrom(pick, S)
                     /\ \A it : IsFold(it, S, base, F) <=> IsFoldBy(pick, it, S, base, F)
<1> DEFINE pick == [s \in SUBSET S |-> Picked(s)]
<1>1. \A s \in SUBSET S : pick[s] = Picked(s) /\ RestBy(pick, s) = Others(s)
  BY DEF RestBy, Others
<1>2. PicksFrom(pick, S)
  BY PickedIsIn DEF PicksFrom
<1> HIDE DEF pick
<1>3. ASSUME NEW it PROVE IsFold(it, S, base, F) <=> IsFoldBy(pick, it, S, base, F)
  <2>1. [s \in SUBSET S |-> IF s = {} THEN base ELSE F[<<Picked(s), it[Others(s)]>>]]
          = [s \in SUBSET S |-> IF s = {} THEN base ELSE F[<<pick[s], it[RestBy(pick, s)]>>]]
    BY <1>1
  <2> QED
    BY <2>1, Zenon DEF IsFold, IsFoldBy
<1> QED
  BY <1>2, <1>3

\* There is a fold over any finite set.
LEMMA FoldsExist ==
    ASSUME NEW S, IsFiniteSet(S), NEW base, NEW F
    PROVE  \E it : IsFold(it, S, base, F)
BY FoldIsBy, FoldsByExist

\* What a fold makes is of the type it starts with and its steps keep.
LEMMA FoldTyped ==
    ASSUME NEW S, IsFiniteSet(S), NEW D, NEW base \in D, NEW F,
           \A x \in S, d \in D : F[<<x, d>>] \in D,
           NEW it, IsFold(it, S, base, F)
    PROVE  \A s \in SUBSET S : it[s] \in D
<1>1. PICK pick : PicksFrom(pick, S) /\ IsFoldBy(pick, it, S, base, F)
  BY FoldIsBy
<1> QED
  BY <1>1, FoldByTyped

\* The step of a sum of the values g over S.
Adding(S, g) == [xn \in S \X Int |-> g[xn[1]] + xn[2]]

\* A sum is a fold that adds.
LEMMA SumIsAFold ==
    ASSUME NEW S, IsFiniteSet(S), NEW g, \A x \in S : g[x] \in Int,
           NEW it, IsFold(it, S, 0, Adding(S, g))
    PROVE  \A T \in SUBSET S : it[T] \in Int /\ SumFunctionOnSet(g, T) = it[T]
<1> DEFINE F == Adding(S, g)
<1>1. \A x \in S, d \in Int : F[<<x, d>>] = g[x] + d
  BY DEF Adding
<1> HIDE DEF F
<1>2. ASSUME NEW x \in S, NEW d \in Int PROVE F[<<x, d>>] \in Int
  <2>1. F[<<x, d>>] = g[x] + d
    BY <1>1
  <2> QED
    BY <2>1
<1>3. \A s \in SUBSET S : it[s] \in Int
  BY <1>2, FoldTyped DEF F
<1>4. ASSUME NEW s \in SUBSET S, s # {}
      PROVE  it[s] = g[Picked(s)] + it[Others(s)]
  <2>1. it[s] = F[<<Picked(s), it[Others(s)]>>]
    BY <1>4 DEF IsFold, F
  <2>2. Picked(s) \in S /\ Others(s) \in SUBSET S
    BY <1>4, PickedIsIn
  <2> QED
    BY <1>1, <1>3, <2>1, <2>2
<1>5. it[{}] = 0
  BY DEF IsFold
<1> SUFFICES ASSUME NEW T \in SUBSET S PROVE SumFunctionOnSet(g, T) = it[T]
  BY <1>3
<1> DEFINE Raw(sum) == sum = [s \in SUBSET T |-> IF s = {} THEN 0
                                                ELSE g[CHOOSE x \in s : TRUE]
                                                       + sum[s \ {CHOOSE x \in s : TRUE}]]
           part == [s \in SUBSET T |-> it[s]]
           raw  == CHOOSE sum : Raw(sum)
<1>6. SumFunctionOnSet(g, T) = raw[T]
  BY Zenon DEF SumFunctionOnSet, FoldFunctionOnSet, MapThenFoldSet
<1>7. Raw(part)
  <2>1. \A s \in SUBSET T : s # {} => Others(s) \in SUBSET T
    BY PickedIsIn
  <2>2. \A s \in SUBSET T :
          part[s] = IF s = {} THEN 0 ELSE g[Picked(s)] + part[Others(s)]
    BY <1>4, <1>5, <2>1
  <2>3. part = [s \in SUBSET T |-> part[s]]
    OBVIOUS
  <2> HIDE DEF part
  <2>4. part = [s \in SUBSET T |-> IF s = {} THEN 0 ELSE g[Picked(s)] + part[Others(s)]]
    BY <2>2, <2>3
  <2> QED
    BY <2>4 DEF Picked, Others
<1> HIDE DEF part
<1>8. Raw(raw)
  <2> HIDE DEF Raw
  <2> QED
    BY <1>7, Zenon DEF raw
<1> HIDE DEF raw
<1>9. raw = [s \in SUBSET T |-> IF s = {} THEN 0 ELSE g[Picked(s)] + raw[Others(s)]]
  BY <1>8 DEF Picked, Others
<1> DEFINE G == { s \in SUBSET T : raw[s] = it[s] }
<1>10. ASSUME NEW s \in SUBSET T, \A u \in SUBSET s : u # s => u \in G
       PROVE  s \in G
  <2>1. CASE s = {}
    BY <1>5, <1>9, <2>1
  <2>2. CASE s # {}
    <3>1. Others(s) \in G
      BY <1>10, <2>2, PickedIsIn
    <3>2. raw[s] = g[Picked(s)] + raw[Others(s)]
      BY <1>9, <2>2
    <3> QED
      BY <1>4, <2>2, <3>1, <3>2
  <2> QED
    BY <2>1, <2>2
<1> HIDE DEF G
<1>11. IsFiniteSet(T)
  BY FS_Subset
<1>12. \A s \in SUBSET T : s \in G
  BY <1>10, <1>11, SubsetInduction
<1> QED
  BY <1>6, <1>12 DEF G

\* A sum of integers is one; over no elements it is 0, and else what is picked is added to
\* the sum over the others.
LEMMA SumStep ==
    ASSUME NEW S, IsFiniteSet(S), NEW g, \A x \in S : g[x] \in Int
    PROVE  /\ SumFunctionOnSet(g, S) \in Int
           /\ S = {} => SumFunctionOnSet(g, S) = 0
           /\ S # {} => SumFunctionOnSet(g, S)
                          = g[Picked(S)] + SumFunctionOnSet(g, Others(S))
<1>1. PICK it : IsFold(it, S, 0, Adding(S, g))
  BY FoldsExist
<1>2. \A T \in SUBSET S : it[T] \in Int /\ SumFunctionOnSet(g, T) = it[T]
  BY <1>1, SumIsAFold
<1>3. CASE S = {}
  BY <1>1, <1>2, <1>3 DEF IsFold
<1>4. CASE S # {}
  <2>1. Picked(S) \in S /\ Others(S) \in SUBSET S
    BY <1>4, PickedIsIn
  <2>2. it[S] = Adding(S, g)[<<Picked(S), it[Others(S)]>>]
    BY <1>1, <1>4 DEF IsFold
  <2>3. it[S] = g[Picked(S)] + it[Others(S)]
    BY <1>2, <2>1, <2>2 DEF Adding
  <2> QED
    BY <1>2, <1>4, <2>1, <2>3
<1> QED
  BY <1>3, <1>4

\* A sum has every element's value in it, whichever is looked at.
LEMMA SumSplit ==
    ASSUME NEW S, IsFiniteSet(S), NEW g, \A x \in S : g[x] \in Int, NEW y \in S
    PROVE  /\ SumFunctionOnSet(g, S) = g[y] + SumFunctionOnSet(g, S \ {y})
           /\ SumFunctionOnSet(g, S \ {y}) \in Int
<1> DEFINE Total(T) == SumFunctionOnSet(g, T)
           G == { T \in SUBSET S : \A z \in T : Total(T) = g[z] + Total(T \ {z}) }
<1>1. \A T \in SUBSET S : IsFiniteSet(T)
  BY FS_Subset
<1>2. \A T \in SUBSET S : /\ Total(T) \in Int
                          /\ T # {} => Total(T) = g[Picked(T)] + Total(Others(T))
  BY <1>1, SumStep
<1> HIDE DEF Total
<1>3. ASSUME NEW T \in SUBSET S, \A U \in SUBSET T : U # T => U \in G
      PROVE  T \in G
  <2> SUFFICES ASSUME NEW z \in T PROVE Total(T) = g[z] + Total(T \ {z})
    OBVIOUS
  <2> DEFINE x == Picked(T)
  <2>1. x \in T /\ Others(T) = T \ {x} /\ Total(T) = g[x] + Total(T \ {x})
    BY <1>2, PickedIsIn DEF Others
  <2> HIDE DEF x
  <2>2. CASE z = x
    BY <2>1, <2>2
  <2>3. CASE z # x
    <3> DEFINE rest == T \ {x, z}
    <3>1. Total(T \ {x}) = g[z] + Total(rest)
      <4>1. T \ {x} \in G /\ z \in T \ {x} /\ (T \ {x}) \ {z} = rest
        BY <1>3, <2>1, <2>3
      <4> QED
        BY <4>1
    <3>2. Total(T \ {z}) = g[x] + Total(rest)
      <4>1. T \ {z} \in G /\ x \in T \ {z} /\ (T \ {z}) \ {x} = rest
        BY <1>3, <2>1, <2>3
      <4> QED
        BY <4>1
    <3>3. rest \in SUBSET S
      OBVIOUS
    <3> HIDE DEF rest
    <3> QED
      BY <1>2, <2>1, <3>1, <3>2, <3>3
  <2> QED
    BY <2>2, <2>3
<1> HIDE DEF G
<1>4. S \in G
  BY <1>3, SubsetInduction
<1> QED
  BY <1>2, <1>4 DEF G, Total

\* Sums of the same values are the same.
LEMMA SumSame ==
    ASSUME NEW S, IsFiniteSet(S), NEW g, NEW h, \A x \in S : g[x] \in Int /\ h[x] = g[x]
    PROVE  SumFunctionOnSet(h, S) = SumFunctionOnSet(g, S)
<1> DEFINE G == { T \in SUBSET S : SumFunctionOnSet(h, T) = SumFunctionOnSet(g, T) }
<1>1. ASSUME NEW T \in SUBSET S, \A U \in SUBSET T : U # T => U \in G
      PROVE  T \in G
  <2>1. IsFiniteSet(T)
    BY FS_Subset
  <2>2. \A x \in T : g[x] \in Int /\ h[x] \in Int
    OBVIOUS
  <2>3. CASE T = {}
    BY <2>1, <2>2, <2>3, SumStep
  <2>4. CASE T # {}
    <3>1. Others(T) \in G /\ Picked(T) \in S
      BY <1>1, <2>4, PickedIsIn
    <3>2. /\ SumFunctionOnSet(g, T) = g[Picked(T)] + SumFunctionOnSet(g, Others(T))
          /\ SumFunctionOnSet(h, T) = h[Picked(T)] + SumFunctionOnSet(h, Others(T))
      BY <2>1, <2>2, <2>4, SumStep
    <3> QED
      BY <3>1, <3>2
  <2> QED
    BY <2>3, <2>4
<1> HIDE DEF G
<1>2. S \in G
  BY <1>1, SubsetInduction
<1> QED
  BY <1>2 DEF G

\* Zeroes may be left out of a sum.
LEMMA SumOfPart ==
    ASSUME NEW S, IsFiniteSet(S), NEW g, \A x \in S : g[x] \in Int,
           NEW T \in SUBSET S, \A x \in S \ T : g[x] = 0
    PROVE  SumFunctionOnSet(g, S) = SumFunctionOnSet(g, T)
<1> DEFINE G == { U \in SUBSET S : SumFunctionOnSet(g, U) = SumFunctionOnSet(g, U \cap T) }
<1>1. ASSUME NEW U \in SUBSET S, \A V \in SUBSET U : V # U => V \in G
      PROVE  U \in G
  <2>1. IsFiniteSet(U) /\ IsFiniteSet(U \cap T)
    BY FS_Subset
  <2>2. CASE U = {}
    BY <2>2
  <2>3. CASE U # {}
    <3>1. PICK y \in U : TRUE
      BY <2>3
    <3>2. U \ {y} \in G /\ y \in S
      BY <1>1, <3>1
    <3>3. SumFunctionOnSet(g, U \ {y}) = SumFunctionOnSet(g, (U \ {y}) \cap T)
      BY <3>2
    <3>4. /\ SumFunctionOnSet(g, U) = g[y] + SumFunctionOnSet(g, U \ {y})
          /\ SumFunctionOnSet(g, U \ {y}) \in Int
      BY <2>1, <3>1, SumSplit
    <3>5. CASE y \in T
      <4>1. SumFunctionOnSet(g, U \cap T) = g[y] + SumFunctionOnSet(g, (U \cap T) \ {y})
        BY <2>1, <3>1, <3>5, SumSplit
      <4> DEFINE rest == (U \cap T) \ {y}
      <4>2. rest = (U \ {y}) \cap T
        OBVIOUS
      <4>3. SumFunctionOnSet(g, U \cap T) = g[y] + SumFunctionOnSet(g, rest)
        BY <4>1
      <4> HIDE DEF rest
      <4> QED
        BY <3>3, <3>4, <4>2, <4>3
    <3>6. CASE y \notin T
      <4> DEFINE rest == (U \ {y}) \cap T
      <4>1. g[y] = 0 /\ rest = U \cap T
        BY <3>2, <3>6
      <4>2. SumFunctionOnSet(g, U \ {y}) = SumFunctionOnSet(g, rest)
        BY <3>3
      <4> HIDE DEF rest
      <4> QED
        BY <3>4, <4>1, <4>2
    <3> QED
      BY <3>5, <3>6
  <2> QED
    BY <2>2, <2>3
<1> HIDE DEF G
<1>2. S \in G
  BY <1>1, SubsetInduction
<1>3. S \cap T = T
  OBVIOUS
<1> QED
  BY <1>2, <1>3 DEF G

\* A sum of values none of which is negative is not, and is no less than any of them.
LEMMA SumOfNaturals ==
    ASSUME NEW S, IsFiniteSet(S), NEW g, \A x \in S : g[x] \in Nat
    PROVE  /\ SumFunctionOnSet(g, S) \in Nat
           /\ \A y \in S : g[y] <= SumFunctionOnSet(g, S)
<1> DEFINE Total(T) == SumFunctionOnSet(g, T)
           G == { T \in SUBSET S : Total(T) \in Nat }
<1>1. ASSUME NEW T \in SUBSET S, \A U \in SUBSET T : U # T => U \in G
      PROVE  T \in G
  <2>1. IsFiniteSet(T) /\ \A x \in T : g[x] \in Int
    BY FS_Subset
  <2>2. CASE T = {}
    BY <2>1, <2>2, SumStep
  <2>3. CASE T # {}
    <3>1. Others(T) \in G /\ Picked(T) \in S
      BY <1>1, <2>3, PickedIsIn
    <3>2. Total(T) = g[Picked(T)] + Total(Others(T))
      BY <2>1, <2>3, SumStep
    <3> QED
      BY <3>1, <3>2
  <2> QED
    BY <2>2, <2>3
<1>2. \A T \in SUBSET S : Total(T) \in Nat
  <2> HIDE DEF G
  <2>1. \A T \in SUBSET S : T \in G
    BY <1>1, SubsetInduction
  <2> QED
    BY <2>1 DEF G
<1>3. ASSUME NEW y \in S PROVE g[y] <= Total(S)
  <2>1. Total(S) = g[y] + Total(S \ {y})
    BY SumSplit
  <2>2. Total(S \ {y}) \in Nat /\ Total(S) \in Nat /\ g[y] \in Nat
    BY <1>2
  <2> HIDE DEF Total
  <2> QED
    BY <2>1, <2>2
<1> QED
  BY <1>2, <1>3

\* Zeroes sum to zero.
LEMMA SumOfZeroes ==
    ASSUME NEW S, IsFiniteSet(S), NEW g, \A x \in S : g[x] = 0
    PROVE  SumFunctionOnSet(g, S) = 0
<1> DEFINE G == { T \in SUBSET S : SumFunctionOnSet(g, T) = 0 }
<1>1. ASSUME NEW T \in SUBSET S, \A U \in SUBSET T : U # T => U \in G
      PROVE  T \in G
  <2>1. IsFiniteSet(T) /\ \A x \in T : g[x] \in Int
    BY FS_Subset
  <2>2. CASE T = {}
    BY <2>1, <2>2, SumStep
  <2>3. CASE T # {}
    <3>1. Others(T) \in G /\ Picked(T) \in S
      BY <1>1, <2>3, PickedIsIn
    <3>2. SumFunctionOnSet(g, T) = g[Picked(T)] + SumFunctionOnSet(g, Others(T))
      BY <2>1, <2>3, SumStep
    <3> QED
      BY <3>1, <3>2
  <2> QED
    BY <2>2, <2>3
<1> HIDE DEF G
<1>2. S \in G
  BY <1>1, SubsetInduction
<1> QED
  BY <1>2 DEF G

\* A sum changes by what one of its elements' values changes by.
LEMMA SumChange ==
    ASSUME NEW S, IsFiniteSet(S), NEW g, NEW h, \A x \in S : g[x] \in Int /\ h[x] \in Int,
           NEW y \in S, \A x \in S \ {y} : h[x] = g[x]
    PROVE  SumFunctionOnSet(h, S) = SumFunctionOnSet(g, S) + h[y] - g[y]
<1>1. IsFiniteSet(S \ {y})
  BY FS_RemoveElement
<1>2. SumFunctionOnSet(h, S \ {y}) = SumFunctionOnSet(g, S \ {y})
  BY <1>1, SumSame
<1>3. /\ SumFunctionOnSet(g, S) = g[y] + SumFunctionOnSet(g, S \ {y})
      /\ SumFunctionOnSet(h, S) = h[y] + SumFunctionOnSet(h, S \ {y})
      /\ SumFunctionOnSet(g, S \ {y}) \in Int
  BY SumSplit
<1>4. g[y] \in Int /\ h[y] \in Int
  OBVIOUS
<1> QED
  BY <1>2, <1>3, <1>4

\* The sum of two amounts of each is the sum of the two sums.
LEMMA SumOfSums ==
    ASSUME NEW S, IsFiniteSet(S), NEW f, NEW g, NEW h,
           \A x \in S : f[x] \in Int /\ g[x] \in Int /\ h[x] = f[x] + g[x]
    PROVE  SumFunctionOnSet(h, S) = SumFunctionOnSet(f, S) + SumFunctionOnSet(g, S)
<1> DEFINE Total(k, T) == SumFunctionOnSet(k, T)
           G == { T \in SUBSET S : Total(h, T) = Total(f, T) + Total(g, T) }
<1>1. ASSUME NEW T \in SUBSET S, \A U \in SUBSET T : U # T => U \in G
      PROVE  T \in G
  <2>1. /\ IsFiniteSet(T)
        /\ \A x \in T : f[x] \in Int /\ g[x] \in Int /\ h[x] \in Int
    BY FS_Subset
  <2>2. CASE T = {}
    <3>1. Total(h, T) = 0 /\ Total(f, T) = 0 /\ Total(g, T) = 0
      BY <2>1, <2>2, SumStep
    <3> QED
      BY <3>1
  <2>3. CASE T # {}
    <3> DEFINE x == Picked(T)
               U == Others(T)
    <3>1. U \in G /\ U \in SUBSET T /\ x \in T
      BY <1>1, <2>3, PickedIsIn
    <3>2. /\ Total(h, T) = h[x] + Total(h, U)
          /\ Total(f, T) = f[x] + Total(f, U)
          /\ Total(g, T) = g[x] + Total(g, U)
      BY <2>1, <2>3, SumStep
    <3>3. Total(f, U) \in Int /\ Total(g, U) \in Int
      <4>1. IsFiniteSet(U) /\ \A z \in U : f[z] \in Int /\ g[z] \in Int
        BY <2>1, <3>1, FS_Subset
      <4> QED
        BY <4>1, SumStep
    <3>4. Total(h, U) = Total(f, U) + Total(g, U)
      BY <3>1
    <3> HIDE DEF x, U, Total
    <3>5. Total(h, T) = Total(f, T) + Total(g, T)
      <4>1. f[x] \in Int /\ g[x] \in Int /\ h[x] = f[x] + g[x]
        BY <3>1
      <4> QED
        BY <3>2, <3>3, <3>4, <4>1
    <3> QED
      BY <3>5
  <2> QED
    BY <2>2, <2>3
<1> HIDE DEF G
<1>2. S \in G
  BY <1>1, SubsetInduction
<1> QED
  BY <1>2 DEF G

\* What is summed over one more place is what is summed over those before and the last.
LEMMA SumOneMore ==
    ASSUME NEW n \in Nat, NEW g, NEW h, DOMAIN g = 1..n, DOMAIN h = 1..(n + 1),
           \A i \in 1..n : g[i] \in Int /\ h[i] = g[i], h[n + 1] \in Int
    PROVE  SumFunction(g) \in Int /\ SumFunction(h) = SumFunction(g) + h[n + 1]
<1>1. IsFiniteSet(1..n) /\ IsFiniteSet(1..(n + 1))
  BY FS_Interval
<1>2. (1..(n + 1)) \ {n + 1} = 1..n /\ n + 1 \in 1..(n + 1)
  OBVIOUS
<1>3. \A i \in 1..(n + 1) : h[i] \in Int
  OBVIOUS
<1>4. SumFunctionOnSet(h, 1..(n + 1)) = h[n + 1] + SumFunctionOnSet(h, 1..n)
  BY <1>1, <1>2, <1>3, SumSplit
<1>5. SumFunctionOnSet(h, 1..n) = SumFunctionOnSet(g, 1..n)
  BY <1>1, SumSame
<1>6. SumFunctionOnSet(g, 1..n) \in Int
  BY <1>1, SumStep
<1> QED
  BY <1>4, <1>5, <1>6 DEF SumFunction

\* What is summed over no place is nothing.
LEMMA SumOfNothing ==
    ASSUME NEW g, DOMAIN g = {}
    PROVE  SumFunction(g) = 0
BY FS_EmptySet, SumStep DEF SumFunction

-----------------------------------------------------------------------------
(***************************************************************************)
(* Recursion over the places of a sequence.  A step takes the place and    *)
(* the result up to the place before as a pair.                            *)
(***************************************************************************)
IsRecursion(it, n, base, F) ==
    it = [i \in 0..n |-> IF i = 0 THEN base ELSE F[<<i, it[i - 1]>>]]

\* Induction over the numbers up to n, G being those of which the claim holds.
LEMMA CountingInduction ==
    ASSUME NEW n \in Nat, NEW G, 0 \in G, \A i \in 1..n : i - 1 \in G => i \in G
    PROVE  \A i \in 0..n : i \in G
<1> DEFINE H == { T \in SUBSET (1..n) : \A i \in 0..n : T = 1..i => i \in G }
<1>1. ASSUME NEW T \in SUBSET (1..n), \A U \in SUBSET T : U # T => U \in H
      PROVE  T \in H
  <2> SUFFICES ASSUME NEW i \in 1..n, T = 1..i PROVE i \in G
    OBVIOUS
  <2>1. 1..(i - 1) \in SUBSET T /\ i \in T /\ i \notin 1..(i - 1)
    OBVIOUS
  <2>2. 1..(i - 1) \in H
    BY <1>1, <2>1
  <2>3. i - 1 \in 0..n
    OBVIOUS
  <2>4. i - 1 \in G
    BY <2>2, <2>3
  <2> QED
    BY <2>4
<1> HIDE DEF H
<1>2. \A T \in SUBSET (1..n) : T \in H
  <2> DEFINE S == 1..n
  <2>1. IsFiniteSet(S)
    BY FS_Interval
  <2>2. \A T \in SUBSET S : (\A U \in SUBSET T : U # T => U \in H) => T \in H
    BY <1>1
  <2> HIDE DEF S
  <2>3. \A T \in SUBSET S : T \in H
    BY <2>1, <2>2, SubsetInduction
  <2> QED
    BY <2>3 DEF S
<1> SUFFICES ASSUME NEW i \in 0..n PROVE i \in G
  OBVIOUS
<1>3. 1..i \in SUBSET (1..n)
  OBVIOUS
<1> QED
  BY <1>2, <1>3 DEF H

\* There is a recursion over any number of places.
LEMMA RecursionsExist ==
    ASSUME NEW n \in Nat, NEW base, NEW F
    PROVE  \E it : IsRecursion(it, n, base, F)
<1> DEFINE G == { m \in 0..n : \E it : IsRecursion(it, m, base, F) }
<1>1. 0 \in G
  <2> DEFINE it == [i \in 0..0 |-> base]
  <2>1. it = [i \in 0..0 |-> IF i = 0 THEN base ELSE F[<<i, it[i - 1]>>]]
    OBVIOUS
  <2> HIDE DEF it
  <2> QED
    BY <2>1 DEF IsRecursion
<1>2. ASSUME NEW m \in 1..n, m - 1 \in G PROVE m \in G
  <2>1. PICK it : IsRecursion(it, m - 1, base, F)
    BY <1>2
  <2> DEFINE more == [i \in 0..m |-> IF i = m THEN F[<<m, it[m - 1]>>] ELSE it[i]]
  <2>2. \A i \in 0..m : more[i] = IF i = 0 THEN base ELSE F[<<i, more[i - 1]>>]
    <3> SUFFICES ASSUME NEW i \in 0..m
                 PROVE  more[i] = IF i = 0 THEN base ELSE F[<<i, more[i - 1]>>]
      OBVIOUS
    <3>1. CASE i = m
      BY <3>1
    <3>2. CASE i # m
      <4>1. i \in 0..(m - 1) /\ more[i] = it[i]
        BY <3>2
      <4>2. it[i] = IF i = 0 THEN base ELSE F[<<i, it[i - 1]>>]
        BY <2>1, <4>1 DEF IsRecursion
      <4>3. i # 0 => i - 1 \in 0..m /\ i - 1 # m
        BY <3>2
      <4>4. i # 0 => more[i - 1] = it[i - 1]
        BY <4>3
      <4> HIDE DEF more
      <4> QED
        BY <4>1, <4>2, <4>4
    <3> QED
      BY <3>1, <3>2
  <2>3. more = [i \in 0..m |-> more[i]]
    OBVIOUS
  <2> HIDE DEF more
  <2>4. IsRecursion(more, m, base, F)
    BY <2>2, <2>3 DEF IsRecursion
  <2> QED
    BY <2>4
<1> HIDE DEF G
<1>3. n \in G
  BY <1>1, <1>2, CountingInduction
<1> QED
  BY <1>3 DEF G

\* What a recursion makes is of the type it starts with and its steps keep.
LEMMA RecursionTyped ==
    ASSUME NEW n \in Nat, NEW D, NEW base \in D, NEW F,
           \A i \in 1..n, d \in D : F[<<i, d>>] \in D,
           NEW it, IsRecursion(it, n, base, F)
    PROVE  \A i \in 0..n : it[i] \in D
<1> DEFINE G == { i \in 0..n : it[i] \in D }
<1>1. 0 \in G
  BY DEF IsRecursion
<1>2. ASSUME NEW i \in 1..n, i - 1 \in G PROVE i \in G
  <2>1. i \in 0..n /\ i # 0
    OBVIOUS
  <2>2. it[i] = F[<<i, it[i - 1]>>]
    BY <2>1 DEF IsRecursion
  <2> QED
    BY <1>2, <2>1, <2>2
<1> HIDE DEF G
<1>3. \A i \in 0..n : i \in G
  BY <1>1, <1>2, CountingInduction
<1> QED
  BY <1>3 DEF G

\* What sequences come to when each is put after those before it.
Joins(it, seqs) ==
    it[0] = <<>> /\ \A i \in 1..Len(seqs) : it[i] = it[i - 1] \o seqs[i]

\* There is a way to put sequences one after the other, and it makes a sequence.
LEMMA JoinsExist ==
    ASSUME NEW E, NEW seqs \in Seq(Seq(E))
    PROVE  \E it : Joins(it, seqs) /\ \A i \in 0..Len(seqs) : it[i] \in Seq(E)
<1> DEFINE n == Len(seqs)
           F == [ia \in (1..n) \X Seq(E) |-> ia[2] \o seqs[ia[1]]]
<1>1. ASSUME NEW i \in 1..n, NEW a \in Seq(E)
      PROVE  F[<<i, a>>] = a \o seqs[i] /\ F[<<i, a>>] \in Seq(E)
  <2>1. F[<<i, a>>] = a \o seqs[i]
    OBVIOUS
  <2>2. seqs[i] \in Seq(E)
    OBVIOUS
  <2>3. a \o seqs[i] \in Seq(E)
    BY <2>2
  <2> QED
    BY <2>1, <2>3
<1>2. n \in Nat /\ <<>> \in Seq(E)
  OBVIOUS
<1> HIDE DEF F
<1>3. PICK it : IsRecursion(it, n, <<>>, F)
  BY <1>2, RecursionsExist
<1>4. \A i \in 0..n : it[i] \in Seq(E)
  BY <1>1, <1>2, <1>3, RecursionTyped
<1>5. it[0] = <<>>
  BY <1>2, <1>3 DEF IsRecursion
<1>6. ASSUME NEW i \in 1..n PROVE it[i] = it[i - 1] \o seqs[i]
  <2>1. i \in 0..n /\ i - 1 \in 0..n /\ i # 0
    BY <1>2
  <2>2. it[i] = F[<<i, it[i - 1]>>]
    BY <1>3, <2>1 DEF IsRecursion
  <2> QED
    BY <1>1, <1>4, <2>1, <2>2
<1> QED
  BY <1>4, <1>5, <1>6 DEF Joins

\* Flattening puts sequences one after the other.
LEMMA FlattenJoins ==
    ASSUME NEW E, NEW seqs \in Seq(Seq(E)), NEW it, Joins(it, seqs)
    PROVE  FlattenSeq(seqs) = it[Len(seqs)]
<1> DEFINE n == Len(seqs)
<1>0. n \in Nat
  OBVIOUS
<1>1. CASE n = 0
  BY <1>1 DEF FlattenSeq, Joins
<1>2. CASE n # 0
  <2> DEFINE Raw(f) == f = [i \in 1..n |-> IF i = 1 THEN seqs[i] ELSE f[i - 1] \o seqs[i]]
             part == [i \in 1..n |-> it[i]]
             raw  == CHOOSE f : Raw(f)
  <2>1. FlattenSeq(seqs) = raw[n]
    BY <1>2, Zenon DEF FlattenSeq
  <2>2. \A i \in 1..n : part[i] = IF i = 1 THEN seqs[i] ELSE part[i - 1] \o seqs[i]
    <3> SUFFICES ASSUME NEW i \in 1..n
                 PROVE  part[i] = IF i = 1 THEN seqs[i] ELSE part[i - 1] \o seqs[i]
      OBVIOUS
    <3>1. it[i] = it[i - 1] \o seqs[i]
      BY DEF Joins
    <3>2. CASE i = 1
      <4>1. seqs[i] \in Seq(E)
        OBVIOUS
      <4>2. it[0] = <<>> /\ <<>> \o seqs[i] = seqs[i]
        BY <4>1 DEF Joins
      <4>3. i - 1 = 0
        BY <3>2
      <4>4. it[i] = seqs[i]
        BY <3>1, <4>2, <4>3
      <4> QED
        BY <3>2, <4>4
    <3>3. CASE i # 1
      <4>1. i - 1 \in 1..n
        BY <3>3
      <4> QED
        BY <3>1, <3>3, <4>1
    <3> QED
      BY <3>2, <3>3
  <2>3. part = [i \in 1..n |-> part[i]]
    OBVIOUS
  <2>4. \A i \in 1..n : part[i] = it[i]
    OBVIOUS
  <2> HIDE DEF part
  <2>5. Raw(part)
    BY <2>2, <2>3
  <2>6. Raw(raw)
    <3> HIDE DEF Raw
    <3> QED
      BY <2>5, Zenon DEF raw
  <2> HIDE DEF raw
  <2> DEFINE G == { i \in 0..n : i = 0 \/ raw[i] = part[i] }
  <2>7. 0 \in G
    BY <1>0
  <2>8. ASSUME NEW i \in 1..n, i - 1 \in G PROVE i \in G
    <3>1. raw[i] = IF i = 1 THEN seqs[i] ELSE raw[i - 1] \o seqs[i]
      BY <2>6
    <3>2. i # 1 => raw[i - 1] = part[i - 1]
      BY <1>0, <2>8
    <3> QED
      BY <1>0, <2>2, <3>1, <3>2
  <2> HIDE DEF G
  <2>9. \A i \in 0..n : i \in G
    BY <1>0, <2>7, <2>8, CountingInduction
  <2>10. raw[n] = part[n]
    BY <1>0, <1>2, <2>9 DEF G
  <2> QED
    BY <1>0, <1>2, <2>1, <2>4, <2>10
<1> QED
  BY <1>1, <1>2

\* One sequence more is put after all of the others.
LEMMA FlattenMore ==
    ASSUME NEW E, NEW seqs \in Seq(Seq(E)), NEW q \in Seq(E)
    PROVE  /\ FlattenSeq(Append(seqs, q)) = FlattenSeq(seqs) \o q
           /\ FlattenSeq(seqs) \in Seq(E)
<1> DEFINE n == Len(seqs)
           more == Append(seqs, q)
<1>1. /\ n \in Nat /\ more \in Seq(Seq(E)) /\ Len(more) = n + 1
      /\ \A i \in 1..n : more[i] = seqs[i]
      /\ more[n + 1] = q
  OBVIOUS
<1> HIDE DEF more
<1>2. PICK it : Joins(it, more) /\ \A i \in 0..Len(more) : it[i] \in Seq(E)
  BY <1>1, JoinsExist
<1>3. Joins(it, seqs)
  <2>1. ASSUME NEW i \in 1..n PROVE it[i] = it[i - 1] \o seqs[i]
    <3>1. i \in 1..Len(more)
      BY <1>1
    <3>2. it[i] = it[i - 1] \o more[i]
      BY <1>2, <3>1 DEF Joins
    <3> QED
      BY <1>1, <3>2
  <2> QED
    BY <1>2, <2>1 DEF Joins
<1>4. FlattenSeq(more) = it[n + 1] /\ FlattenSeq(seqs) = it[n]
  BY <1>1, <1>2, <1>3, FlattenJoins
<1>5. it[n + 1] = it[n] \o q /\ it[n] \in Seq(E)
  <2>1. n + 1 \in 1..Len(more) /\ (n + 1) - 1 = n /\ n \in 0..Len(more)
    BY <1>1
  <2>2. it[n + 1] = it[(n + 1) - 1] \o more[n + 1]
    BY <1>2, <2>1 DEF Joins
  <2> QED
    BY <1>1, <1>2, <2>1, <2>2
<1> QED
  BY <1>4, <1>5 DEF more
=============================================================================
