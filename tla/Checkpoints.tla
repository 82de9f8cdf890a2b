---------------------------- MODULE Checkpoints ----------------------------
(***************************************************************************)
(* The order a Workshop session is played in.  A session visits            *)
(*                                                                         *)
(*   NotStarted, then per Round an Investment phase, one Trading period    *)
(*   per season and a Recap, and Finished after the last Recap.            *)
(*                                                                         *)
(* A checkpoint is a record of its kind, its Round and its season; the     *)
(* latter two are 0 where the code's type has no such field.               *)
(***************************************************************************)
EXTENDS Integers

CONSTANT NumSeasons   \* seasons in a Round: four in the code

ASSUME NumSeasonsAssumption == NumSeasons \in Nat \ {0}

Seasons == 1..NumSeasons

NotStarted          == [kind |-> "NotStarted",    round |-> 0, season |-> 0]
Investment(r)       == [kind |-> "Investment",    round |-> r, season |-> 0]
TradingPeriod(r, s) == [kind |-> "TradingPeriod", round |-> r, season |-> s]
Recap(r)            == [kind |-> "Recap",         round |-> r, season |-> 0]
Finished            == [kind |-> "Finished",      round |-> 0, season |-> 0]

IsInvestment(c) == c.kind = "Investment"
IsTrading(c)    == c.kind = "TradingPeriod"
IsRecap(c)      == c.kind = "Recap"

\* The Trading periods of the first `rounds` Rounds, and every checkpoint.
TradingPeriods(rounds) == { TradingPeriod(r, s) : r \in 1..rounds, s \in Seasons }
AllCheckpoints(rounds) ==
    {NotStarted, Finished} \cup TradingPeriods(rounds)
      \cup { Investment(r) : r \in 1..rounds } \cup { Recap(r) : r \in 1..rounds }

\* The checkpoint after c, in a session of n Rounds.  Finished has none.
NextCheckpoint(c, n) ==
    CASE c.kind = "NotStarted" -> Investment(1)
      [] IsInvestment(c)       -> TradingPeriod(c.round, 1)
      [] IsTrading(c)          -> IF c.season < NumSeasons
                                    THEN TradingPeriod(c.round, c.season + 1)
                                    ELSE Recap(c.round)
      [] IsRecap(c)            -> IF c.round < n THEN Investment(c.round + 1)
                                                 ELSE Finished
      [] OTHER                 -> Finished

\* The Rounds 1..LockedRounds(c, n) have a locked plan at c.
LockedRounds(c, n) ==
    CASE c.kind = "NotStarted" -> 0
      [] IsRecap(c)            -> IF c.round < n THEN c.round + 1 ELSE n
      [] c.kind = "Finished"   -> n
      [] OTHER                 -> c.round

\* Whether Round r's Recap has opened at c.
RecapOpen(c, r) ==
    CASE c.kind = "NotStarted" -> FALSE
      [] IsRecap(c)            -> c.round >= r
      [] c.kind = "Finished"   -> TRUE
      [] OTHER                 -> c.round > r

\* How many Rounds are completed at c: a Round is once its Recap opens.
CompletedRounds(c, n) ==
    CASE c.kind = "NotStarted" -> 0
      [] IsRecap(c)            -> c.round
      [] c.kind = "Finished"   -> n
      [] OTHER                 -> c.round - 1

\* The Round the session is in: 1 before it starts, the last once it is over.
CurrentRound(c, n) ==
    CASE c.kind = "NotStarted" -> 1
      [] c.kind = "Finished"   -> n
      [] OTHER                 -> c.round

\* Trading periods in the order they are played in.
EarlierPeriod(p, q) ==
    p.round < q.round \/ (p.round = q.round /\ p.season < q.season)
=============================================================================
