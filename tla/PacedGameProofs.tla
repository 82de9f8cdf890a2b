-------------------------- MODULE PacedGameProofs ---------------------------
(***************************************************************************)
(* Proof that the game PacedGame describes settles every Trading period    *)
(* once, in order, and misses none, for any number of Rounds and seasons.  *)
(* WorkshopSessionProofs shows that the session's file plays this game.    *)
(***************************************************************************)
EXTENDS PacedGame, OperatorProofs

\* What is settled is not ahead of the game.
SettledNotAhead ==
    \A i \in 1..Len(settled) : Behind(settled[i], place) \/ settled[i] = place

GameInv ==
    /\ rounds \in Nat \ {0}
    /\ place \in AllCheckpoints(rounds)
    /\ settled \in Seq(TradingPeriods(rounds))
    /\ SettledNotAhead
    /\ InOrder
    /\ NoneMissed

\* A step leaves behind what was behind, and the period it leaves.
LEMMA StepLeavesOnePeriod ==
    ASSUME NEW n \in Nat \ {0}, NEW c \in AllCheckpoints(n), c # Finished,
           NEW p \in TradingPeriods(n)
    PROVE  Behind(p, NextCheckpoint(c, n)) <=> Behind(p, c) \/ p = c
<1>1. PICK pr \in 1..n, ps \in Seasons : p = TradingPeriod(pr, ps)
  BY DEF TradingPeriods
<1> USE DEF NextCheckpoint, Behind, EarlierPeriod, IsInvestment, IsTrading, IsRecap
<1>2. CASE c = NotStarted
  BY <1>1, <1>2 DEF NotStarted, Investment, TradingPeriod
<1>3. CASE \E r \in 1..n : c = Investment(r)
  BY <1>1, <1>3, NumSeasonsAssumption DEF Investment, TradingPeriod, Seasons
<1>4. CASE \E r \in 1..n, s \in Seasons : c = TradingPeriod(r, s)
  <2>1. PICK r \in 1..n, s \in Seasons : c = TradingPeriod(r, s)
    BY <1>4
  <2>2. Behind(p, c) <=> pr < r \/ (pr = r /\ ps < s)
    BY <1>1, <2>1 DEF TradingPeriod
  <2>3. p = c <=> pr = r /\ ps = s
    BY <1>1, <2>1 DEF TradingPeriod
  <2>4. CASE s < NumSeasons
    BY <1>1, <2>1, <2>2, <2>3, <2>4, NumSeasonsAssumption DEF TradingPeriod, Seasons
  <2>5. CASE s = NumSeasons
    BY <1>1, <2>1, <2>2, <2>3, <2>5, NumSeasonsAssumption DEF TradingPeriod, Recap, Seasons
  <2> QED
    BY <2>4, <2>5, NumSeasonsAssumption DEF Seasons
<1>5. CASE \E r \in 1..n : c = Recap(r)
  BY <1>1, <1>5 DEF TradingPeriod, Recap, Investment, Finished
<1> QED
  BY <1>2, <1>3, <1>4, <1>5, CheckpointKinds

\* A period of a Round added later is not behind: Rounds are added only before the last
\* Recap has opened (add_round).
LEMMA LengtheningLeavesNothing ==
    ASSUME NEW n \in Nat \ {0}, NEW c \in AllCheckpoints(n), ~RecapOpen(c, n)
    PROVE  /\ c \in AllCheckpoints(n + 1)
           /\ TradingPeriods(n) \subseteq TradingPeriods(n + 1)
           /\ \A p \in TradingPeriods(n + 1) : Behind(p, c) => p \in TradingPeriods(n)
<1>1. c \in AllCheckpoints(n + 1) /\ TradingPeriods(n) \subseteq TradingPeriods(n + 1)
  BY MoreRoundsMoreCheckpoints
<1>2. ASSUME NEW p \in TradingPeriods(n + 1), Behind(p, c)
      PROVE  p \in TradingPeriods(n)
  <2>1. PICK r \in 1..(n + 1), s \in Seasons : p = TradingPeriod(r, s)
    BY DEF TradingPeriods
  <2>2. p.round = r
    BY <2>1 DEF TradingPeriod
  <2>3. r # n + 1
    BY <1>2, <2>2, CheckpointKinds
    DEF Behind, EarlierPeriod, RecapOpen, IsInvestment, IsTrading, IsRecap,
        NotStarted, Investment, TradingPeriod, Recap, Finished
  <2> QED
    BY <2>1, <2>3 DEF TradingPeriods
<1> QED
  BY <1>1, <1>2

-----------------------------------------------------------------------------
\* A new game has left nothing behind and settled nothing.
LEMMA GameStarts ==
    ASSUME FirstRounds \in Nat \ {0}
    PROVE  GameInit => GameInv
<1> SUFFICES ASSUME GameInit PROVE GameInv
  OBVIOUS
<1>1. place \in AllCheckpoints(rounds)
  BY KindsAreCheckpoints DEF GameInit
<1>2. NoneMissed
  BY DEF NoneMissed, Behind, GameInit, NotStarted, IsInvestment, IsTrading, IsRecap
<1>3. settled \in Seq(TradingPeriods(rounds)) /\ 1..Len(settled) = {}
  BY DEF GameInit
<1> QED
  BY <1>1, <1>2, <1>3 DEF GameInit, GameInv, SettledNotAhead, InOrder

\* Moving on leaves behind only a period that was settled.
LEMMA StepKeepsGameInv == GameInv /\ Step => GameInv'
<1> SUFFICES ASSUME GameInv, Step PROVE GameInv'
  OBVIOUS
<1>1. /\ place' = NextCheckpoint(place, rounds)
      /\ rounds' = rounds
      /\ settled' = settled
  BY DEF Step
<1>2. /\ rounds \in Nat \ {0}
      /\ place \in AllCheckpoints(rounds) /\ place # Finished
      /\ settled \in Seq(TradingPeriods(rounds))
  BY DEF GameInv, Step
<1>3. \A p \in TradingPeriods(rounds) : Behind(p, place') <=> Behind(p, place) \/ p = place
  BY <1>1, <1>2, StepLeavesOnePeriod
<1>4. place' \in AllCheckpoints(rounds')
  BY <1>1, <1>2, NextIsACheckpoint
<1>5. SettledNotAhead'
  BY <1>1, <1>2, <1>3 DEF GameInv, SettledNotAhead
<1>6. NoneMissed'
  <2>1. SUFFICES ASSUME NEW p \in TradingPeriods(rounds), Behind(p, place')
                 PROVE  \E i \in 1..Len(settled) : settled[i] = p
    BY <1>1 DEF NoneMissed
  <2>2. CASE Behind(p, place)
    BY <2>2 DEF GameInv, NoneMissed
  <2>3. CASE p = place
    <3>1. IsTrading(place)
      BY <2>3 DEF TradingPeriods, TradingPeriod, IsTrading
    <3>2. place # NotStarted
      BY <3>1 DEF IsTrading, NotStarted
    <3>3. settled # <<>> /\ settled[Len(settled)] = place
      BY <3>1, <3>2 DEF Step, LastSettled
    <3> QED
      BY <1>2, <2>3, <3>3
  <2> QED
    BY <1>3, <2>1, <2>2, <2>3
<1> QED
  BY <1>1, <1>2, <1>4, <1>5, <1>6 DEF GameInv, InOrder

\* A period is settled once, after every earlier one.
LEMMA SettleKeepsGameInv == GameInv /\ Settle => GameInv'
<1> SUFFICES ASSUME GameInv, Settle PROVE GameInv'
  OBVIOUS
<1>1. /\ settled' = Append(settled, place)
      /\ place' = place
      /\ rounds' = rounds
      /\ IsTrading(place)
      /\ LastSettled # place
  BY DEF Settle
<1>2. /\ rounds \in Nat \ {0}
      /\ settled \in Seq(TradingPeriods(rounds))
  BY DEF GameInv
<1>3. place \in TradingPeriods(rounds)
  BY <1>1, TradingIsAPeriod DEF GameInv
<1>4. /\ settled' \in Seq(TradingPeriods(rounds))
      /\ Len(settled') = Len(settled) + 1
      /\ settled'[Len(settled) + 1] = place
      /\ \A i \in 1..Len(settled) : settled'[i] = settled[i]
  BY <1>1, <1>2, <1>3
<1>5. \A p \in TradingPeriods(rounds) : p.round \in Nat /\ p.season \in Nat
  BY <1>2, NumSeasonsAssumption DEF TradingPeriods, TradingPeriod, Seasons
<1>6. ASSUME NEW j \in 1..Len(settled)
      PROVE  EarlierPeriod(settled[j], place)
  <2>1. \A i \in 1..Len(settled) : EarlierPeriod(settled[i], place) \/ settled[i] = place
    BY <1>1 DEF GameInv, SettledNotAhead, Behind, IsTrading, IsInvestment, IsRecap
  <2>2. settled[Len(settled)] # place /\ Len(settled) \in 1..Len(settled)
    BY <1>1, <1>2, <1>6 DEF LastSettled
  <2>3. EarlierPeriod(settled[Len(settled)], place)
    BY <2>1, <2>2
  <2>4. j # Len(settled) => EarlierPeriod(settled[j], settled[Len(settled)])
    BY <1>2, <2>2 DEF GameInv, InOrder
  <2>5. settled[j] \in TradingPeriods(rounds) /\ settled[Len(settled)] \in TradingPeriods(rounds)
    BY <1>2, <2>2
  <2> QED
    BY <1>3, <1>5, <2>3, <2>4, <2>5 DEF EarlierPeriod
<1>7. InOrder'
  BY <1>2, <1>4, <1>6 DEF GameInv, InOrder
<1>8. SettledNotAhead'
  BY <1>1, <1>2, <1>4 DEF GameInv, SettledNotAhead
<1>9. NoneMissed'
  BY <1>1, <1>2, <1>4 DEF GameInv, NoneMissed
<1> QED
  BY <1>1, <1>2, <1>4, <1>7, <1>8, <1>9 DEF GameInv

\* A Round is added ahead of the game.
LEMMA LengthenKeepsGameInv == GameInv /\ Lengthen => GameInv'
<1> SUFFICES ASSUME GameInv, Lengthen PROVE GameInv'
  OBVIOUS
<1>1. /\ rounds' = rounds + 1
      /\ place' = place
      /\ settled' = settled
      /\ ~RecapOpen(place, rounds)
  BY DEF Lengthen
<1>2. /\ rounds \in Nat \ {0}
      /\ place \in AllCheckpoints(rounds)
      /\ settled \in Seq(TradingPeriods(rounds))
  BY DEF GameInv
<1>3. /\ place \in AllCheckpoints(rounds + 1)
      /\ TradingPeriods(rounds) \subseteq TradingPeriods(rounds + 1)
      /\ \A p \in TradingPeriods(rounds + 1) : Behind(p, place) => p \in TradingPeriods(rounds)
  BY <1>1, <1>2, LengtheningLeavesNothing
<1>4. settled \in Seq(TradingPeriods(rounds + 1))
  BY <1>2, <1>3
<1>5. NoneMissed'
  BY <1>1, <1>3 DEF GameInv, NoneMissed
<1> QED
  BY <1>1, <1>2, <1>3, <1>4, <1>5 DEF GameInv, SettledNotAhead, InOrder

\* The invariant always holds.
LEMMA GameInvHolds ==
    ASSUME FirstRounds \in Nat \ {0}
    PROVE  GameSpec => []GameInv
<1>1. GameInit => GameInv
  BY GameStarts
<1>2. GameInv /\ [GameNext]_gameVars => GameInv'
  <2> SUFFICES ASSUME GameInv, [GameNext]_gameVars PROVE GameInv'
    OBVIOUS
  <2>1. CASE Step
    BY <2>1, StepKeepsGameInv
  <2>2. CASE Settle
    BY <2>2, SettleKeepsGameInv
  <2>3. CASE Lengthen
    BY <2>3, LengthenKeepsGameInv
  <2>4. CASE UNCHANGED gameVars
    BY <2>4 DEF gameVars, GameInv, SettledNotAhead, InOrder, NoneMissed
  <2> QED
    BY <2>1, <2>2, <2>3, <2>4 DEF GameNext
<1> QED
  BY <1>1, <1>2, PTL DEF GameSpec

\* Every period is settled once, in the order the periods are played in, and none that
\* the game has left behind is missed: what advance, finish_settlement and add_round
\* promise between them, for any number of Rounds and seasons.
THEOREM EveryPeriodSettledOnce ==
    ASSUME FirstRounds \in Nat \ {0}
    PROVE  GameSpec => [](InOrder /\ NoneMissed)
<1>1. GameInv => InOrder /\ NoneMissed
  BY DEF GameInv
<1> QED
  BY <1>1, GameInvHolds, PTL

\* Until the period the game is at is settled, it is not among those that were.
LEMMA NotYetSettled ==
    ASSUME GameInv, IsTrading(place), LastSettled # place
    PROVE  \A i \in 1..Len(settled) : settled[i] # place
<1> SUFFICES ASSUME NEW i \in 1..Len(settled), settled[i] = place
             PROVE  FALSE
  OBVIOUS
<1>1. rounds \in Nat \ {0} /\ settled \in Seq(TradingPeriods(rounds))
  BY DEF GameInv
<1> DEFINE last == settled[Len(settled)]
<1>2. Len(settled) \in 1..Len(settled) /\ last # place
  BY <1>1 DEF LastSettled
<1>3. EarlierPeriod(place, last)
  BY <1>1, <1>2 DEF GameInv, InOrder
<1>4. EarlierPeriod(last, place)
  BY <1>2 DEF GameInv, SettledNotAhead, Behind, IsTrading, IsInvestment, IsRecap
<1>5. \A p \in TradingPeriods(rounds) : p.round \in Nat /\ p.season \in Nat
  BY <1>1, NumSeasonsAssumption DEF TradingPeriods, TradingPeriod, Seasons
<1>6. last \in TradingPeriods(rounds) /\ place \in TradingPeriods(rounds)
  BY <1>1, <1>2
<1> QED
  BY <1>3, <1>4, <1>5, <1>6 DEF EarlierPeriod
=============================================================================
