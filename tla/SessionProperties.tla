------------------------- MODULE SessionProperties --------------------------
(***************************************************************************)
(* What a Workshop session must never do.  The properties are grouped by   *)
(* the question they answer; each run checks one group.                    *)
(***************************************************************************)
EXTENDS Scoreboard, WorkshopPages

Players == DOMAIN session.players

-----------------------------------------------------------------------------
(***************************************************************************)
(* The flow of a session: phases, settling, failures and restarts.         *)
(***************************************************************************)
TypeOKPlayer(player) ==
    /\ player.money \in Int
    /\ player.owned \in [Facilities -> [Rounds -> Nat]]
    /\ player.purchases \in [Facilities -> [Rounds -> Nat]]
    /\ player.selection \in [Facilities -> Nat]
    /\ player.stored \in [Facilities -> Nat]
    /\ player.prices \in [PriceKeys -> PRICE_FLOOR..PRICE_CEILING]
    /\ player.fuelStock \in [Fuels -> Nat]
    /\ player.fuelOrder \in [Fuels -> Nat]
    /\ player.loan \in [round: 0..MaxRounds, made: 0..LOAN_PAYMENTS]

TypeOKPace(s) ==
    /\ s.roundCount \in StartRounds..MaxRounds
    /\ s.priceRoundCount \in StartRounds..s.roundCount
    /\ s.checkpoint \in AllCheckpoints(s.roundCount)
    /\ s.timers \in TimerSettings
    /\ s.phaseTimer \in [running: BOOLEAN, minutes: Nat, extensions: 0..MaxExtensions]
    /\ s.settledPeriod \in {NoPeriod} \cup TradingPeriods(s.roundCount)

TypeOKSession(s) ==
    /\ TypeOKPace(s)
    /\ DOMAIN s.players \subseteq Admitted
    /\ \A p \in DOMAIN s.players : TypeOKPlayer(s.players[p])
    /\ DOMAIN s.plans = 1..s.roundCount
    /\ \A r \in DOMAIN s.plans : s.plans[r].levers \in Levers /\ ValidLevers(s.plans[r].levers)
    /\ DOMAIN s.ballots \subseteq DOMAIN s.players
    /\ s.demandAmplitude \in {NoAmplitude} \cup 0..Cardinality(Admitted)

\* The session and its file hold what their types say, every plan valid.
TypeOK ==
    /\ TypeOKSession(session)
    /\ TypeOKSession(file)
    /\ settlement \in {NoPeriod} \cup TradingPeriods(MaxRounds)
    /\ DOMAIN records \subseteq TradingPeriods(MaxRounds)
    /\ timeUp \in BOOLEAN

\* Between operations the session is exactly what its file says, whichever of its
\* writes failed: every undo restores everything its operation changed, and no
\* operation forgets to save.  Otherwise a restart would take the room back.
MemoryMatchesFile == session = file

\* One simulation runs at a time, and the session says so exactly while it does:
\* start_settlement and abandon_settlement never leave a job behind or start two.
OneSimulation ==
    /\ Len(jobs) <= 1
    /\ settlement = IF jobs = <<>> THEN NoPeriod ELSE jobs[1].period

\* While a period is being simulated, without the lock, nothing the simulation was
\* given moves under it: the session stays there, unsettled, with the same fleets,
\* prices, fuel, levers, growth, events and blackouts for every bidder.  Players who
\* join meanwhile are not bidders, and the amplitude of the first period was fixed
\* by the headcount before them.
SettlingMatchesSession ==
    \A i \in DOMAIN jobs :
       LET job == jobs[i]
           now == JobOf(session)
       IN  /\ WaitingFor(job)
           /\ job = [now EXCEPT !.bidders = Restrict(@, DOMAIN job.bidders), !.base = job.base]
           /\ session.demandAmplitude # NoAmplitude => job.base = session.demandAmplitude

\* A period the session lists has its record, and the record is of the simulation
\* the players were paid for, even if an earlier attempt to settle it wrote another
\* record and then failed or was cut short by a restart.
RecordsMatchResults ==
    \A i \in DOMAIN session.recordedPeriods :
       LET period == session.recordedPeriods[i]
           Result(p) == { j \in DOMAIN session.players[p].results :
                            session.players[p].results[j].period = period }
       IN  /\ period \in DOMAIN records
           /\ \A p \in Players :
                 /\ Cardinality(Result(p)) <= 1
                 /\ \A j \in Result(p) :
                       /\ p \in DOMAIN records[period].players
                       /\ session.players[p].results[j].net = records[period].players[p].net
                 /\ (/\ p \in DOMAIN records[period].players
                     /\ records[period].players[p].traded) => Result(p) # {}

\* A window that has closed, by the clock or by the facilitator, never opens again
\* at the same checkpoint, across restarts too: what follows relies on it.
ClosedStaysClosed ==
    [][ ~PhaseOpen /\ Here' = Here => ~PhaseOpen' ]_vars

\* The file plays the game it promises: see PacedGame.  A crash, a failed write or a
\* record nobody lists is no step of it.
Game == INSTANCE PacedGame WITH
            FirstRounds <- StartRounds, place <- file.checkpoint,
            rounds <- file.roundCount, settled <- file.recordedPeriods
PlaysTheGame == Game!GameSpec

-----------------------------------------------------------------------------
(***************************************************************************)
(* What the pages work out from the session.                               *)
(***************************************************************************)

\* The timeline tells what has been played: a Trading period is past exactly if it has
\* its results and the session has left it, a Recap to come has not opened, and the links
\* from a season lead to every neighbour reached and no other, blackouts marked, however
\* many Rounds were added (workshop-timeline.ts).
TimelineFollows ==
    LET n        == session.roundCount
        timeline == workshopTimeline(Here, n, session.blackouts)
        Played(p) == p = Here \/ \E i \in DOMAIN session.recordedPeriods :
                                     session.recordedPeriods[i] = p
        Status(p) == IF p = Here THEN "current" ELSE IF Played(p) THEN "past" ELSE "future"
    IN  /\ \A r \in 1..n :
             /\ timeline[r].recap = "future" <=> ~RecapOpen(Here, r)
             /\ timeline[r].status = "current" <=>
                  Here \notin {NotStarted, Finished} /\ r = RoundNow(session) /\ ~RecapOpen(Here, r)
             /\ latestSeason(timeline[r]) = Cardinality({ s \in Seasons : Played(TradingPeriod(r, s)) })
             /\ \A s \in Seasons :
                  LET links == adjacentSeasons(timeline, r, s)
                  IN  /\ timeline[r].seasons[s].status = Status(TradingPeriod(r, s))
                      /\ timeline[r].seasons[s].blackout => Played(TradingPeriod(r, s))
                      /\ links.next # NoLink =>
                           Played(links.next) /\ EarlierPeriod(TradingPeriod(r, s), links.next)
                      /\ links.previous # NoLink =>
                           adjacentSeasons(timeline, links.previous.round, links.previous.season).next
                             = IF Played(TradingPeriod(r, s)) THEN TradingPeriod(r, s) ELSE NoLink

\* The session as a page that reads it now sees it.
PhaseSeen == [checkpoint |-> Here, priceSettingOpen |-> PriceSettingOpen]

\* The buttons tell what the server does, and nobody is left on a stale page.  A session
\* moves on only where the advance button said so, and a Round is added or a plan
\* changed only where the console offers it.  A player who follows the redirects, from
\* the last change they saw to this one, is at the page for where the session is, or at
\* the catalog in an Investment phase (advanceAction, canAddRound, consoleRound,
\* phaseRedirect).
PageFollowsStep ==
    [][ LET button  == advanceAction(session, settlement # NoPeriod, PhaseOpen)
            changed == { r \in DOMAIN session.plans : session.plans[r] # session'.plans[r] }
            to      == phaseRedirect(PhaseSeen, PhaseSeen')
        IN  /\ Here' # Here => /\ button = IF Here = NotStarted THEN "start" ELSE "next"
                               /\ to = IF IsInvestment(Here') THEN facilitiesPage
                                       ELSE IF Here' = Finished THEN StaysPut
                                       ELSE homePage(Here', "player")
            /\ Here' = Here /\ PhaseOpen /\ ~PhaseOpen' => button = "close_window"
            /\ session'.roundCount > session.roundCount => canAddRound(Here, session.roundCount)
            /\ changed # {} =>
                 LET first == CHOOSE r \in changed : \A q \in changed : r <= q
                 IN  /\ first >= consoleRound(Here, session.plans)
                     /\ carriedRounds(session.plans, session'.plans, first) = changed \ {first} ]_vars

\* The pages follow the session: the timeline in every state, the buttons, the console and
\* the redirects at every step.
PagesFollowSession == []TimelineFollows /\ PageFollowsStep

-----------------------------------------------------------------------------
(***************************************************************************)
(* Money, fleets and the score.                                            *)
(***************************************************************************)

\* Through an Investment phase every player can pay for all they selected, whatever
\* order they select, drop, borrow and give the loan back in, and at the price the
\* Round's shocks made: the purchase at its end never refuses and never overdraws.
SelectionAffordable ==
    IsInvestment(Here) =>
      \A p \in Players :
         SelectionCost(session.players[p].selection, FacilityPrices(session, Here.round))
           <= session.players[p].money

\* Cash, plus all that was spent on the fleet, less all that trading made and what
\* the loan has brought in so far.
Unexplained(player) ==
    LET spent(f)  == SumFunction(player.purchases[f])
        earned(i) == player.results[i].profit - player.results[i].tax
        loan      == IF player.loan = NoLoan THEN 0
                     ELSE LOAN_AMOUNT - player.loan.made * LOAN_PAYMENT
    IN  player.money + Sum(Facilities, spent) - Sum(DOMAIN player.results, earned) - loan

\* No cash appears or vanishes: a step changes what a player's purchases, results and
\* loan leave unexplained only as the top-up to the floor at a later Round's start, or
\* as the cost of a Round's blackouts when its Recap opens (score.py's account of cash).
CashExplained ==
    [][ \A p \in Players \cap DOMAIN session'.players :
          LET before == Unexplained(session.players[p])
              after  == Unexplained(session'.players[p])
          IN  \/ after = before
              \/ /\ after > before
                 /\ IsRecap(Here) /\ IsInvestment(Here')
                 /\ session'.players[p].money = WORKSHOP_CASH_FLOOR
              \/ /\ after < before
                 /\ IsTrading(Here) /\ IsRecap(Here')
                 /\ BlackoutsIn(session, Here.round) > 0 ]_vars

\* A loan's payments are all made on time and never twice: by the start of each
\* Round those due by then are, and by the end of the session both, however many
\* Rounds were added meanwhile.
LoanOnSchedule ==
    \A p \in Players :
       LET loan == session.players[p].loan
       IN  loan # NoLoan =>
             loan.made = IF Here = Finished THEN LOAN_PAYMENTS
                         ELSE Least(LOAN_PAYMENTS, RoundNow(session) - loan.round)

\* At a Recap, a player is told of one payment exactly if the next advance takes one,
\* though a Round added meanwhile moves a payment from the session's end to that Round's
\* start (paymentAfterRecap).
RecapTellsPayment ==
    [][ \A p \in Players \cap DOMAIN session'.players :
          LET loan == session.players[p].loan
              told == paymentAfterRecap(LoanPaymentsOut(loan, session.roundCount), Here.round,
                                        session.roundCount)
          IN  IsRecap(Here) /\ Here' # Here =>
                session'.players[p].loan.made = loan.made + Cardinality(told) ]_vars

\* A player's score moves only when a Recap opens: not by what they do meanwhile,
\* nor as facilities retire, Rounds are added or the loan is paid.
ScoreMovesOnlyAtRecap ==
    [][ \A p \in Players \cap DOMAIN session'.players :
          Score(session', p) # Score(session, p) => IsRecap(Here') /\ Here' # Here ]_vars

\* Neither a player's cash nor their score moves without a rule that moves it.
MoneyExplained == CashExplained /\ ScoreMovesOnlyAtRecap

\* Once an Investment phase is left, what a storage type holds fits in the copies
\* that work this Round, those retired since the last one left out.
StorageFits ==
    IsTrading(Here) \/ IsRecap(Here) =>
      \A p \in Players, f \in Facilities :
         session.players[p].stored[f]
           <= StorageCapacity(f, session.players[p].owned, Here.round)

-----------------------------------------------------------------------------
(***************************************************************************)
(* Plans, events and votes.                                                *)
(***************************************************************************)

\* A Round's plan never changes once the Recap before it has opened: not by an edit,
\* a Round added, a vote counted in an earlier Round or a failed advance.
LockedPlansFrozen ==
    [][ \A r \in 1..LockedRounds(Here, session.roundCount) :
          session'.plans[r] = session.plans[r] ]_vars

\* The boundaries reached at checkpoint c, in order: a Round's own, then its seasons'.
Reached(c, n) ==
    LET last == CurrentRound(c, n)
        Upto(r) == IF c = NotStarted THEN <<>>
                   ELSE IF r < last \/ ~(IsInvestment(c) \/ IsTrading(c))
                     THEN [i \in 1..NumSeasons + 1 |-> i - 1]
                   ELSE [i \in 1..c.season + 1 |-> i - 1]
        Of(r) == [i \in DOMAIN Upto(r) |-> [round |-> r, season |-> Upto(r)[i]]]
    IN  FlattenSeq([r \in 1..last |-> Of(r)])

\* The events fired are exactly those planned for the boundaries reached, each once
\* and in order, however many advances failed on the way and whatever was replanned.
EventsFiredOnce ==
    LET boundaries == Reached(Here, session.roundCount)
    IN  session.firedEvents =
          FlattenSeq([i \in DOMAIN boundaries |->
                        Firing(session.plans, boundaries[i].round, boundaries[i].season)])

\* One vote is counted per Round that holds one, and none after a carbon tax passed,
\* though a Round added later may carry the lever along.
OneCarbonTax ==
    \A i, j \in DOMAIN session.voteOutcomes :
       i < j => /\ session.voteOutcomes[i].round < session.voteOutcomes[j].round
                /\ ~session.voteOutcomes[i].passed

\* Ballots wait only for the vote of the Investment phase they were cast in: none is
\* carried over into another Round's vote.
BallotsOnlyDuringVote ==
    session.ballots # Nobody =>
      /\ IsInvestment(Here)
      /\ VoteHeld(session.plans, Here.round, session.voteOutcomes)

\* The carbon tax moves money between players and neither makes nor takes any: over
\* all who were settled in a period, those with nothing operating included, it sums
\* to zero.
CarbonTaxSharedOut ==
    \A i \in DOMAIN session.recordedPeriods :
       LET Paid(p) == Sum({ j \in DOMAIN session.players[p].results :
                              session.players[p].results[j].period = session.recordedPeriods[i] },
                          LAMBDA j : session.players[p].results[j].tax)
       IN  Sum(Players, Paid) = 0

-----------------------------------------------------------------------------
(***************************************************************************)
(* Fuel and unlocks.                                                       *)
(***************************************************************************)

\* No fuel appears or vanishes: a player's stock is all they paid for less all they
\* burned, through changes of procurement between Rounds.
StockAddsUp ==
    \A p \in Players, u \in Fuels :
       LET player    == session.players[p]
           bought(i) == player.results[i].bought[u]
           burned(i) == player.results[i].burned[u]
           seasons   == DOMAIN player.results
       IN  /\ player.fuelStock[u] = Sum(seasons, bought) - Sum(seasons, burned)
           /\ player.fuelStock[u] >= 0

\* While a manual window is open or being settled, no order takes a player's stock
\* over the stockpile limit of what operates now, unless the stock was over it before.
OrderFitsStockpile ==
    IsTrading(Here) /\ session.settledPeriod # Here /\ Manual(session) =>
      \A p \in Players, u \in Fuels :
         LET player == session.players[p]
         IN  u \in BurnedFuels(player.owned, Here.round) =>
               \/ player.fuelOrder[u] = 0
               \/ player.fuelStock[u] + player.fuelOrder[u]
                    <= STOCKPILE_SEASONS * SeasonNeed(player.owned, u, Here.round)

\* Every kilogram is accounted for, and those to come fit in the stockpile.
FuelLedger == StockAddsUp /\ OrderFitsStockpile

\* Whatever a player owns or has selected was theirs to buy in the Round it was built:
\* unlocked by then, and of a storage type that Round's lever allows.
OwnedWasOffered ==
    \A p \in Players, f \in Facilities, r \in 1..session.roundCount :
       LET player == session.players[p]
           has    == player.owned[f][r] > 0
                       \/ (player.selection[f] > 0 /\ r = RoundNow(session))
       IN  has => /\ Allowed(f, LeversIn(session, r).storage)
                  /\ \/ f \in Starting \cup FullSeasonStorage
                     \/ \E u \in session.unlocks : u.facility = f /\ u.round <= r

-----------------------------------------------------------------------------
(***************************************************************************)
(* What the code's comments and docs say and the code does not keep to:    *)
(* TLC finds each of these violated.                                       *)
(***************************************************************************)

\* "Once a vote closes, the lever turns off in the later Rounds, and once a carbon
\* tax has passed, it cannot be turned on again" (round_plan.py): no Round after one
\* whose vote passed has the lever on.
NoVoteLeverAfterTax ==
    \A i \in DOMAIN session.voteOutcomes :
       session.voteOutcomes[i].passed =>
         \A r \in DOMAIN session.plans :
            r > session.voteOutcomes[i].round => ~LeversIn(session, r).vote

\* "Each window starts from what they bought in the last one, so it also says what
\* that was" (player.py, of the fuel order): within a Round of manual procurement, a
\* window opens with the order the last one was settled with.
WindowStartsFromLastOrder ==
    [][ IsTrading(Here) /\ IsTrading(Here') /\ Here' # Here /\ Manual(session) =>
          \A p \in Players, u \in Fuels :
             session'.players[p].fuelOrder[u] = session.players[p].fuelOrder[u] ]_vars
=============================================================================
