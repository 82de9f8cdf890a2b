--------------------------- MODULE WorkshopPages ----------------------------
(***************************************************************************)
(* What the Workshop's pages work out by themselves from the session the   *)
(* server shows them: where each node of the timeline stands, which page   *)
(* the session is at, where a change of phase sends a player, what the     *)
(* facilitator's button and console offer, and which loan payment comes    *)
(* next.  Pure operators.                                                  *)
(***************************************************************************)
EXTENDS WorkshopSession

-----------------------------------------------------------------------------
(***************************************************************************)
(* The timeline.  A session's steps are counted from Round 1's Investment  *)
(* phase, which is step 0.                                                 *)
(***************************************************************************)
STEPS_PER_ROUND == 2 + NumSeasons

roundStart(r) == (r - 1) * STEPS_PER_ROUND

\* The end comes after every step of any session.
stepOf(c) ==
    CASE c.kind = "NotStarted" -> -1
      [] c.kind = "Finished"   -> roundStart(MaxRounds + 1)
      [] IsRecap(c)            -> roundStart(c.round) + STEPS_PER_ROUND - 1
      [] OTHER                 -> roundStart(c.round) + c.season

\* A node that spans the steps first to last.
statusOf(current, first, last) ==
    IF current < first THEN "future" ELSE IF current > last THEN "past" ELSE "current"

workshopTimeline(c, n, blackouts) ==
    LET current == stepOf(c)
        Season(r, s) ==
            [status   |-> statusOf(current, roundStart(r) + s, roundStart(r) + s),
             blackout |-> \E i \in DOMAIN blackouts : blackouts[i] = [round |-> r, season |-> s]]
        recapStep(r) == roundStart(r) + STEPS_PER_ROUND - 1
    IN  [r \in 1..n |->
           [status  |-> statusOf(current, roundStart(r), roundStart(r) + NumSeasons),
            seasons |-> [s \in Seasons |-> Season(r, s)],
            recap   |-> statusOf(current, recapStep(r), recapStep(r))]]

\* The Trading periods just before and after one, of those reached.
NoLink == NoPeriod
adjacentSeasons(timeline, r, s) ==
    LET index == (r - 1) * NumSeasons + s - 1
        Round(at)  == (at \div NumSeasons) + 1
        OfYear(at) == (at % NumSeasons) + 1
        linkAt(at) ==
            IF \/ at < 0 \/ Round(at) > Len(timeline)
               \/ timeline[Round(at)].seasons[OfYear(at)].status = "future"
              THEN NoLink ELSE TradingPeriod(Round(at), OfYear(at))
    IN  [previous |-> linkAt(index - 1), next |-> linkAt(index + 1)]

\* The latest season reached in a Round, or none.
NoSeason == 0
latestSeason(round) ==
    LET reached == { s \in Seasons : round.seasons[s].status \in {"past", "current"} }
    IN  IF reached = {} THEN NoSeason ELSE CHOOSE s \in reached : \A q \in reached : q <= s

-----------------------------------------------------------------------------
(***************************************************************************)
(* Pages, as links to them name them.                                      *)
(***************************************************************************)
PageTo(name, c)  == [page |-> name, round |-> c.round, season |-> c.season]
introPage        == PageTo("intro", NotStarted)
facilitiesPage   == PageTo("facilities", NotStarted)
consolePage      == PageTo("console", NotStarted)
scoreboardPage   == PageTo("scoreboard", NotStarted)

\* The page for where the session is.
checkpointPage(c) ==
    CASE c.kind = "NotStarted" -> introPage
      [] IsInvestment(c)       -> PageTo("round", c)
      [] IsTrading(c)          -> PageTo("season", c)
      [] IsRecap(c)            -> PageTo("recap", c)
      [] OTHER                 -> scoreboardPage

homePage(c, role) ==
    IF role = "facilitator" /\ IsInvestment(c) THEN consolePage ELSE checkpointPage(c)

StaysPut == PageTo("none", NotStarted)

\* A slip: a window that closed before it was seen is not one that has ended.
phaseRedirectSameOnly(previous, current) ==
    LET c == current.checkpoint
    IN  IF previous.checkpoint = c
          THEN IF IsTrading(c) /\ previous.priceSettingOpen /\ ~current.priceSettingOpen
                 THEN PageTo("season", c) ELSE StaysPut
        ELSE CASE IsInvestment(c) -> facilitiesPage
               [] IsTrading(c) /\ current.priceSettingOpen -> PageTo("season", c)
               [] OTHER           -> StaysPut

\* Where a change of phase sends a player.
phaseRedirect(previous, current) ==
    LET c == current.checkpoint
    IN  IF previous.checkpoint = c
          THEN IF IsTrading(c) /\ previous.priceSettingOpen /\ ~current.priceSettingOpen
                 THEN PageTo("season", c) ELSE StaysPut
        ELSE CASE IsInvestment(c) -> facilitiesPage
               [] IsTrading(c)    -> PageTo("season", c)
               [] IsRecap(c)      -> PageTo("recap", c)
               [] OTHER           -> StaysPut

-----------------------------------------------------------------------------
(***************************************************************************)
(* The facilitator's console.                                              *)
(***************************************************************************)
\* What the advance button says it does.
advanceAction(s, settling, windowOpen) ==
    CASE s.checkpoint = Finished -> "none"
      [] s.checkpoint # Finished /\ settling -> "simulating"
      [] s.checkpoint # Finished /\ ~settling /\ windowOpen -> "close_window"
      [] s.checkpoint = NotStarted /\ ~settling /\ ~windowOpen -> "start"
      [] OTHER -> "next"

\* The Round whose Recap opened last, or none.
latestRecapRound(c, n) ==
    CASE c.kind = "NotStarted" -> NoRound
      [] IsRecap(c)            -> c.round
      [] c.kind = "Finished"   -> n
      [] OTHER                 -> c.round - 1

canAddRound(c, n) == latestRecapRound(c, n) # n

\* The Round the console opens on: the first whose plan is not locked, or the last.
consoleRound(c, plans) ==
    LET open == { r \in DOMAIN plans : r > LockedRounds(c, Len(plans)) }
    IN  IF open = {} THEN Len(plans) ELSE CHOOSE r \in open : \A q \in open : r <= q

\* The Rounds after r that a change of r's levers also changed.
carriedRounds(before, after, r) ==
    { q \in DOMAIN after : q > r /\ q \in DOMAIN before /\ before[q].levers # after[q].levers }

-----------------------------------------------------------------------------
(***************************************************************************)
(* The loan's payments, as the server lists them and the Recap shows them. *)
(***************************************************************************)
SessionEnd == 0

LoanPaymentsOut(loan, n) ==
    IF loan = NoLoan THEN <<>>
    ELSE [i \in 1..LOAN_PAYMENTS |->
            [round |-> IF PaymentRound(loan, i - 1) <= n THEN PaymentRound(loan, i - 1) ELSE SessionEnd,
             paid  |-> i - 1 < loan.made]]

\* A slip: the last Recap looks for a payment of the Round after it.
paymentAfterRecapOfNextRound(payments, r, n) ==
    { i \in DOMAIN payments : ~payments[i].paid /\ payments[i].round = r + 1 }

\* The payments of which the Recap shows the first: there is never more than one.
paymentAfterRecap(payments, r, n) ==
    { i \in DOMAIN payments :
        ~payments[i].paid /\ payments[i].round = IF r < n THEN r + 1 ELSE SessionEnd }
=============================================================================
