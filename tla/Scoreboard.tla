----------------------------- MODULE Scoreboard -----------------------------
(***************************************************************************)
(* The scoreboard players follow: what a player earned less what they      *)
(* spent, plus what their fleet is still worth.  It counts the Rounds      *)
(* completed and nothing later.  Pure operators on a session, of which     *)
(* they read the checkpoint and the players.                               *)
(***************************************************************************)
EXTENDS WorkshopSession

Completed(s) == CompletedRounds(s.checkpoint, s.roundCount)

\* Exact when a price divides by the lifetime.
ResidualValue(f, built, completed, count) ==
    (SessionPrice(f, count) * LifetimeLeft(f, built, completed + 1)) \div Catalog[f].life

Sum(S, F(_)) == SumFunction([x \in S |-> F(x)])

Score(s, p) ==
    LET player    == s.players[p]
        done      == Completed(s)
        results   == { i \in DOMAIN player.results : player.results[i].period.round <= done }
        earned(i) == player.results[i].profit - player.results[i].tax
        spent(f)  == SumFunctionOnSet(player.purchases[f], 1..done)
        worth(f)  == Sum({ b \in 1..done : player.owned[f][b] > 0 },
                         LAMBDA b : player.owned[f][b]
                                      * ResidualValue(f, b, done, s.priceRoundCount))
        loanCost  == IF player.loan # NoLoan /\ player.loan.round <= done THEN LOAN_COST ELSE 0
    IN  Sum(results, earned) - Sum(Facilities, spent) - loanCost + Sum(Facilities, worth)
=============================================================================
