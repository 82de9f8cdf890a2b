----------------------------- MODULE PacedGame ------------------------------
(***************************************************************************)
(* What a Workshop session promises the room, whatever fails: a game of    *)
(* numbered Rounds, played one checkpoint at a time in order, in which     *)
(* every Trading period is settled exactly once, in its turn, before the   *)
(* game leaves it.  The facilitator may make the game longer until the     *)
(* final scores are shown.                                                 *)
(*                                                                         *)
(* Nothing here can be lost: a crash or a failed write is no step at all.  *)
(***************************************************************************)
EXTENDS Sequences, Checkpoints

CONSTANT FirstRounds   \* Rounds in a new game, at least one

VARIABLES
    place,    \* the checkpoint the game is at
    rounds,   \* how many Rounds it has
    settled   \* the Trading periods settled so far, in the order they were

gameVars == <<place, rounds, settled>>

GameInit ==
    /\ place = NotStarted
    /\ rounds = FirstRounds
    /\ settled = <<>>

LastSettled == IF settled = <<>> THEN NotStarted ELSE settled[Len(settled)]

Step ==
    /\ place # Finished
    /\ IsTrading(place) => LastSettled = place
    /\ place' = NextCheckpoint(place, rounds)
    /\ UNCHANGED <<rounds, settled>>

Settle ==
    /\ IsTrading(place)
    /\ LastSettled # place
    /\ settled' = Append(settled, place)
    /\ UNCHANGED <<place, rounds>>

Lengthen ==
    /\ ~RecapOpen(place, rounds)
    /\ rounds' = rounds + 1
    /\ UNCHANGED <<place, settled>>

GameNext == Step \/ Settle \/ Lengthen

GameSpec == GameInit /\ [][GameNext]_gameVars

-----------------------------------------------------------------------------
\* The periods settled are in the order they are played in, so none is settled twice.
InOrder ==
    \A i \in 1..Len(settled) : \A j \in 1..(i - 1) : EarlierPeriod(settled[j], settled[i])

\* Whether the game has left period p behind at checkpoint c.
Behind(p, c) ==
    CASE c.kind = "NotStarted" -> FALSE
      [] IsInvestment(c)       -> p.round < c.round
      [] IsTrading(c)          -> EarlierPeriod(p, c)
      [] IsRecap(c)            -> p.round <= c.round
      [] OTHER                 -> TRUE

\* No period the game has left behind is missed out, Rounds added later included.
NoneMissed ==
    \A p \in TradingPeriods(rounds) :
       Behind(p, place) => \E i \in 1..Len(settled) : settled[i] = p
=============================================================================
