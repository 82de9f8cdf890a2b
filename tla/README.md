# Energetica Workshop, in TLA+

A verification development of the Energetica game server, kept beside its code. Energetica is a game of running
an electricity grid. It has two modes: **Freeplay**, which ticks on its own, and **Workshop**, which a facilitator
paces for a room of players. This development covers Workshop from the session that one facilitator and their players
share, the file it lives in, the background tasks that settle it and the rules of the game in it, to the pages that
show it; and, of the web client common to both modes, the pages that keep a copy of something the server changes.

Paths are relative to the repository; `workshop/` stands for `src/energetica/workshop/`, `web/` for `frontend/src/`.

## The system and its parts

| Part | Code | State it keeps | Operations | Hard about it |
|---|---|---|---|---|
| Session | `workshop/session.py` (+ `phase_timer`, `player`) | checkpoint, Round count, timers, players, plans, fired events, ballots, unlocks, what was settled; a lock; a file | advance, extend, select, borrow, vote, price, order fuel, plan, add a Round, set timers and bonus, join, start/finish/abandon a settlement | every operation writes the whole file and undoes itself if that fails; a simulation runs without the lock; crashes between two writes |
| Background tasks | `workshop/app.py` | the closer's loop, one task per simulation | buy selections, start a simulation, settle, retry | retries, exceptions, restarts, requests between any two calls |
| Round plans and votes | `round_plan`, `round_format`, `votes` | pure | change and inherit levers, plan events, count a vote | levers are inherited, plans lock, Rounds are added late |
| Fleets, storage, unlocks | `fleet`, `storage`, `unlocks` | pure | build, retire, keep the energy that fits, unlock | lags and lifetimes, limits, thresholds that move |
| Money and fuel | `loan`, `blackout`, `demand_growth`, `carbon_tax`, `fuel` | pure | pay, top up, charge, tax, order | order of payments, off-by-one Rounds, clamps |
| Scoreboard | `score` | pure | score a player | must not move while players act |
| Trading simulation | `trading`, `demand_block` | its own pools and tanks, per job | clear every settlement point of the simulated days | one stock shared by several offers, charge carried on, blackouts that reach ahead, a week cleared twice |
| Market | `src/energetica/sim/market.py`, `settlement.py` | a book, per settlement point | place, clear, settle | ties, bids without limit, supply that runs out, trades too small to settle |
| Messages to pages | `workshop/realtime.py` | a throttle for price messages | tell every connected page what to read again, or how far a simulation is | nobody hears what is said while their socket is down |
| Workshop pages | `web/hooks/use-workshop.ts`, `web/lib/workshop-*.ts` | a cache of what was read, the requests under way | read, change, show early, take answers, read again; work out timeline, redirects, console, loan | answers, messages and reads overtake each other; requests are lost and some are sent again |
| Other pages with a copy | `web/hooks/use-charts.ts`, `use-chats.ts`, `use-lobby.ts`, `use-phase.ts`, `use-projects.ts`, `web/contexts/`, and what answers them, e.g. `routers/charts.py` | caches, timers, registrations | chart, chat, log in and out, close at the freeze, refresh on ticks | the same, and components that come and go |
| Workshop views | `routes`, `control_room`, `recap`, ... | none | views | |
| Freeplay | `freeplay/`, `utils/`, `production_update`, ... | projects, networks, markets, an action log | tick, start and finish projects, trade | tick order, saves and replay |
| Identity and lobby | `identity/`, `src/lobby/`, `src/lobby_service/` | accounts, Runs, tokens | join, provision | remote calls that fail half-way |
| Rest of the web client | `frontend/` | what it reads | render | |

How they interact: HTTP handlers and the closer call the session's methods on worker threads; the session's lock
makes each method one step. A Trading period goes *window open -> window closed (clock or facilitator) ->
`start_settlement` snapshots a job -> `run_settlement` simulates it without the lock -> `finish_settlement` pays
players, writes the record, then the session*. The facilitator's `advance` is refused while a simulation runs and
until the period is settled. After a change, the handler or the closer tells every connected page what to read again;
a page also reads everything when its socket connects. `PROJECT.json` lists every component with what is modelled of it, and every hazard at
its line with the properties that watch it.

## Modules

| Module | Models | Correspondence |
|---|---|---|
| `Checkpoints` | the checkpoint classes and `next_checkpoint`, `locked_rounds`, `recap_open`, ... | a checkpoint is a record of kind, Round and season |
| `RoundPlans` | `round_plan.py`, `round_format.py`, `votes.py`, slots of `events.py` | levers are a record, a plan its levers and a sequence of planned events; an event is one pick: vignette, severity and fuel together |
| `Fleet` | `fleet.py`, `storage.py`, `unlocks.py`, limits of `player.py` | facilities are counted per type and per Round they were built in, since two of the same Round do not differ |
| `Finance` | `loan.py`, `blackout.py`, `demand_growth.py`, `carbon_tax.py`, rules of `fuel.py` | integers of a million |
| `WorkshopSession` | `session.py` | one action per operation; see below |
| `Scoreboard` | `score.py` | |
| `SessionProperties` | what a session must never do | grouped by question |
| `WorkshopApp` | `_close_phases_when_due`, `_settle`, `_lifespan` of `app.py` | composes the session with the order its background calls come in |
| `Market` | `sim/market.py`, `sim/settlement.py` | pure; merit order and optimum by counting what stands before, where the code sorts and walks |
| `MarketBook` | a book being filled, and what its clearing promises | offers and bids in any order |
| `TradingPeriod` | `workshop/trading.py`, the block of `demand_block.py`, the limits of `sim/dispatch.py` | a settlement point is one step: `StayDown`, `GoDown` or `Trade`; `EndPass` is the end of `_clear_days` |
| `TradingProperties` | what a simulated period promises | |
| `PacedGame` | the promise: a game of Rounds nobody can lose | abstract; `session.py`'s file implements it |
| `WorkshopPages` | `workshop-timeline.ts`, `workshop-redirect.ts`, `workshop-console.ts`, `workshop-loan.ts` | pure; checked on every session that the session's own runs reach |
| `QueryCache` | one query of TanStack Query's cache | **external**: what `useQuery`, `invalidateQueries`, `setQueryData` and `cancelQueries` do as `web/` calls them; see below |
| `WorkshopPage` | `realtime.py`, the telling half of `app.py`, `useWorkshopSession`, `useMarketPrices`, `useWorkshopSocket`, `useAdvanceSession`, `useExtendPhase` | a session is its version and its simulation's day |
| `PageProperties` | what an open page promises, and its fairness | |
| `SelectionEdits`, `PriceEdits`, `PlanEdits` | the changes that `use-workshop.ts` sends, and their handlers | each change is a record that goes from sent to saved, answered, done, or failed |
| `ChartPage`, `ChatPage`, `ClockPage`, `LobbyPage`, `TickPage` | `use-charts.ts`, `routers/charts.py`, and of `utils/tick_execution.py` and `utils/misc.py` what a tick does to a series; `use-chats.ts` and `use-messages-page.ts`; `use-phase.ts`, `lifecycle.ts`, `query-client.ts`; `use-lobby.ts` and the lobby's routes; `game-tick-context.tsx`, `socket-context.tsx`, `use-projects.ts` | one page each |
| `Places` | filters and sorts of `use-charts.ts` and `use-chats.ts` | of a sequence's places, those kept, in the order they end up in |
| `PlayerPages` | a visit to one of these eight pages, and what each promises | `at` says which page; they share no state |
| `MCSession`, `MCApp`, `MCTrading`, `MCPage` | small catalogs, inputs and budgets for TLC | `PlayerPages` needs none: its `.cfg` gives small sets |
| `OperatorProofs` | lemmas: the order of checkpoints; sums and other folds over finite sets | |
| `PacedGameProofs`, `WorkshopSessionProofs`, `SettlingProofs`, `MarketProofs`, `TradingProofs`, `PageProofs`, `PlayerPagesProofs` | theorems | `SettlingProofs` extends `WorkshopSessionProofs`, `TradingProofs` extends `MarketProofs` |

**State of `WorkshopSession`.** `session` is the `WorkshopSession` object's saved fields, under their own names where
TLA+ allows it (`owned` for `owned_facilities`, `stored` for `stored_energy`, `results` for `trading_results`);
`file` is what `_save` wrote last; `settlement` is the field of that name; `jobs` are the `SettlementJob`s some task
still holds; `records` are the record files; `timeUp` says that the running phase's time is over.

**Operations.** Each public method is one action: it holds the lock from its first guard to its last write. Its
guards are the errors it raises. Its two outcomes are a saved change, and a write that fails: memory then goes back
*only* in the fields its `except` branch or `undo` closures restore (`PurchasesUndo`, `VoteUndo`, `SettleUndo`, ...).
So an undo that forgets a field is visible. `MoveOn` is all of `advance`'s eight steps, in the code's order. The
settlement writes two files, and each may fail. `Restart` reopens the file: the lost parts are the unsaved ones.

**State of a simulation.** `TradingPeriod` is `simulate_trading_period` from its bidders to its outcome: `input` is
what it is called with, `pool` the `_Pool` objects, `tank` the `_FuelTank`s, `grid` the locals `down_until` and
`rationing` (as the count of blackouts) with the blackouts and the peak, and `record` what the period's record keeps
of each point. The choice that `WorkshopSession` makes of an outcome stands for all of this: the two are not composed,
since a session's step sees only what is earned, burned and stored in the end.

**State of the pages.** Client and server are both in each module: what the server has (`server`, `picked`, `kept`,
`choice`, `moment`, `posted`, `run`, `joined`, `projects`), the page's copy as an entry of `QueryCache`, and the requests and
events between them, which take as long as they like. A handler is two steps where it saves and answers under
different conditions: what it answers is built after the save, so another request's save may come between
(`SelectionChangeHandled`, then `SelectionChangeAnswered`). A change may be refused, or its answer lost after it was
saved; it is sent once more exactly where the hook says `retry` (prices, orders and ballots, never selections, plans
or an advance).

`ChartPage` counts the server's time in moments, three to a tick, as `tick()` goes: the tick is counted
(`TickBegins`), if a block of 216 is full the buffer's end, which does not hold this tick yet, is saved to a file
(`TickSaved`), and the tick is recorded and told (`TickEnds`). A `GET` holds no lock (`routers/__init__.py`), so that
the four reads of one answer, of the tick, the buffer, the tick again and the file, may each fall in another moment
(`Reads`), a file that is being written included (`Unreadable`). `Series` is what the code makes of them, by its
own offsets and slices: a request answered during a tick has its points shifted, and the page keeps the answer as any
other. `Accepted` has all four refusals; the third, of what is older than the 360 datapoints the server looks back, is
met by a page a window behind, since the charts ask for 360.

An entry of `QueryCache` has the data shown, the read in flight and whether it is stale. What matters of the library:
there is one read of a query at a time; invalidating a query in use starts a read under way over, *except* a first
one, which is left to finish; putting data does *not* end a read under way, so that its older answer lands over what
was put; only `cancelQueries` ends it. `missed` is a history bit, not in the library: an answer is on its way, or has
landed, that the server gave before something the page was told of since. The library does not read again in that
case, and the promises below say so.

**History variables** remember what no state of the code does, so that a promise can name its exception exactly:
`missed` above; `late` (`SelectionEdits`: an answer from before the purchase was taken after it), `overtaken`
(`ChatPage`: an answer landed over something newer, or in another chat), `lost` and `left` (`LobbyPage`: an answer
that never came; an account that logged out), `refused` (`ClockPage`: an action refused as frozen, the boundaries not
moved since), `shared` and `behind` (`TickPage`: two components at once; a change never told, or untold since the
last read), and `torn`, a field of a chart's answer (`ChartPage`: not all of it was read between the same two ticks). No
guard reads them. Where a promise makes an exception of one, the run finds the promise violated without
that exception.

A few definitions named `...Without...`, `...Anytime` and the like, each commented as *a slip*, are what a plausible
mistake in the code would be. No specification uses them; each is there to show that a property notices it
(`PROJECT.json`, `mutants`).

**What is abstracted.** The clock is one bit that only turns on (a clock set back is not modelled). A simulation's
outcome is, to the session, any combination of what its player may earn, emit and burn, and of how its storage ends,
within what the snapshot allows. In the simulation itself power is in tenths of a watt, so that the least trade that
settles is 1; a settlement point is an hour; energy, money and fuel are integers, rounded down where the code divides;
storage loses half each way, where the catalog's efficiencies differ; weather and demand at a point are any of a few. A season's fuel price is any of a set of levels. Prices and orders that players send come from small
sets with at least one legal one. Money is in millions and prices of facilities divide by their lifetimes, so integer
division is exact. O&M is part of what a period earns. Texts and views are left out: nothing saved depends on them.
On the pages, a session, the room's prices and a list of projects are versions that every change moves on, a point of
a chart has for value the tick from which its data are (for a point that covers several, the one at its place), and time is counted in units of which the browser's longest wait has a few.
`PriceEdits` has one price-setting window: the next one is another key of the cache. Server and page share a clock in
`ClockPage`. Which part of a session a message names is `names`: everything, the prices alone, or progress.

## Runs

Each run asks one question on the smallest instance in which its hazards all happen.

| Run | Instance | Shows |
|---|---|---|
| `flow` | 2 players, either may join late; 1 season, 1 to 2 Rounds; 1 extension; the vote in the second Round | memory is the file whichever write fails; one simulation, on a snapshot that stays true; records match what was paid; a tax sums to zero; closed windows stay closed; the file plays `PacedGame`; types; the timeline, redirects, buttons and console follow the session through every step |
| `seasons` | 1 player, 2 seasons, 2 Rounds, a season's event, procurement that switches from Round to Round, orders of 0, one season's need and too much, failing writes | each planned event fires once, in its season, in order; every kilogram of fuel is bought before it is burned; orders fit the stockpile |
| `finance` | 1 player, 2 types (one with a lag and two short-session prices), 1 to 3 Rounds, a price shock, blackouts | selections stay payable, loans are paid on schedule, every change of cash is explained, scores move only at a Recap, and a Recap names the payment that comes next |
| `votes` | 2 players, 2 to 3 Rounds, levers changed anywhere, an event | one carbon tax at most, no stale ballots, locked plans are frozen |
| `offers` | 1 player, 2 Rounds, an upgrade, solar power, batteries that retire, hydrogen behind its lever, two timers and bonuses | energy fits in what works; what is built was on offer in its Round |
| `app` | 1 player, 2 Rounds, 2 restarts, saves and simulations that fail | under fairness: closed windows are settled, selections bought (`ClosedPhasesAreDone`) |
| `page` | 1 page of any kind; two changes, or one and a failure, or one and a restart, or three price changes and a failure; 2 days | at rest a page shows what the server has, never goes back, and under fairness catches up |
| `visits` | 2 facilities and 3 changes; 2 fields and 3 entries; 2 choices; 3 resolutions (a point narrower than a block, as wide, and wider), 2 charts, of which one as wide as the server looks back (3), ticks 0 to 2 and 13 to 14, blocks of 2 in a buffer of 3, an answer's reads at most one moment apart; 2 chats; 4 moments and waits of 2; 4 lobby requests; 2 components, 2 ticks, 1 drop | once nothing is on its way each page shows what the server has; results stay; controls close, also, under fairness, after a refusal |
| `trading` | 2 days of 2 points; wind, two plants on one fuel, a storage; must-serve demand and one flexible tier; both formats, automatic and manual fuel, an earlier blackout, and two values each of prices, stock, charge, weather and demand: 2048 periods. And every book of up to 3 offers and 2 bids of two sizes, two offer prices, three bid prices of which one has no limit; must-run or not | a clearing trades the most that can be, at a price that suits every entry, ties keep their turn, its power and money balance; must-serve demand comes first; outages last a day; rationing adds up; storage, fuel and money are conserved over both passes, at prices within bounds; the cheaper offer gets the fuel; a sale missed for want of fuel is noted |
| `vote_lever` | 1 player, a Round added after a passed vote | finds a *disagreement*: see below |
| `fuel_order` | 1 player, 2 windows of a manual Round | finds a *disagreement*: see below |
| `tick_query` | as `visits` | finds a *defect*: see below |

**Bounds and why they are enough.** `NumSeasons` is 1 or 2 where the code has 4: what differs between seasons is
first, next and last, and two have them all. Runs of one season ask about Rounds; `seasons` has two, for what passes
from one season to the next; blackouts are in `finance`, and what they do to later seasons in `trading`. `MaxRounds` is 2
or 3: a Round before, the Round itself, and one added or inherited after. Two players are the fewest with a tie in a
vote, a share of the tax, and one who joins during another's settlement; runs about one player's own money, fuel or
storage have one. `MaxExtensions` caps a counter that the code leaves free. `MaxRestarts` bounds restarts in
`app` only, where fairness needs them to end; elsewhere the process may restart at any time. Failing writes are never
bounded. Runs of two players take them as symmetric, which is sound since they check safety only and no definition
names a player. Pages of `WorkshopPage` differ only in what they show, and a page's own request reaches the others as any change does,
so one page has every case; the proofs are for any number. `Budgets` bound each kind of mishap per behaviour: what one
drop, failure or restart can do to reads and messages under way does not need a second, since a page at rest has
forgotten the first. In `visits` each bound is the least with an overtaking: two changes in flight and one more after
them; a value entered while the last one is sent and one more; charts of two widths whose answers overlap, with ticks
from the server's first, where nothing is saved, and two about the end of a block (`Block` 2) and of the narrower
points (1 and 2), with more than the lookback before them, so that a page a tick behind can be a window behind and be
refused, while the widest (4) reaches back over what a block does not divide;
`MaxSpan` 1 lets an answer's reads fall on both sides of any one moment, and the proof is for any span; a page of messages shorter than the chat; a freeze further off than the longest
wait; a second component. `MaxCalls`, `MaxReads`, `MaxActs`, `MaxMoves` and `MaxMishaps` cap counters that the code
leaves free. A visit is to one page, since the pages share nothing; `at` keeps the state space the sum of theirs, and
not their product. In `trading`, three offers and two bids are the fewest with a tie among
offers that the margin splits and one that must run past it, and steps of both sides that end together; two points are the shortest day with an outage after its blackout, two days the fewest with a restart after it, two
plants the fewest that share a stock; wind, weather and demand are chosen so that blackouts, exact balance, dumping,
and charging and discharging at once all happen. Deadlock is checked in every run but `visits` and `tick_query`, where
a visit ends when its bounds are used up, and `trading`, where a book is full or a period over: a finished session can still set its timers or restart.

**Fairness.** In `app`: weak fairness of the closer and of each task: the event loop keeps running them. Strong
fairness of a purchase that saves, a simulation that ends well and a settlement that saves: the code retries each of
them for ever, once a second, and a disk is not full, nor a simulation failing, every time. Nothing is assumed of
players, of the facilitator or of the clock: every liveness property starts from a phase that has closed.

In `page` (`PageFairness`): weak fairness of the server's tasks and timers, of a socket that reconnects by itself, and
of what is sent arriving. A read may still fail for good, a change is never owed, and a dropped socket may drop again;
so `PageCatchesUp` says that again and again the page shows what the server has, or knows that it does not. In
`visits`: weak fairness of the page's timer, of the refusal reaching it and of its read, and none of the visitor.

## What the code says otherwise

* **Tick queries** (`tick_query`). `registeredTickQueries` is a set of keys, without a count. When one of two mounted
  components that use the same query goes, the key goes with it, and the other is no longer read again on ticks, as
  `useTickQuery`'s comment promises. E.g. the top bar's money after the dialog that creates an electricity market was
  closed. `ProjectsShown` is the promise that does hold: with one component at a time, also when a page changes for
  another in one draw.
* **The vote lever after a tax** (`vote_lever`). `add_round` copies the last Round's levers. Added after the last
  Round's vote was counted, the new Round has the vote's lever on, which `round_plan.py`, `votes.py` and `CONTEXT.md`
  say turns off. No second tax comes of it (`OneCarbonTax` holds, since `vote_held` also looks at the outcomes), but
  after a *failed* vote the tax is proposed again without the facilitator.
* **The fuel order** (`fuel_order`). `player.py` says that a window starts from the last one's order;
  `_open_fuel_market` replaces it with the default.
Modelling met more that no doc of the repository denies, and that the promises leave out by name: a late answer to an
advance sets the console back (`use-workshop.ts:707`); a late answer to a change shows bought facilities as selected
(`use-workshop.ts:281`); older messages land in the chat selected since (`use-chats.ts:73`); the game's pages read
nothing again when their socket is back (`socket-context.tsx:89`); a chart answered during a tick has points
shifted by one, or zeros, and keeps them (`charts.py:254`); a chart's points move by a tick once their block is in the
file, which is saved before that tick is recorded (`tick_execution.py:90`), and where a point is wider than a block they
may move by a whole point or be zero (`charts.py:179`): `Told` lists what remains; a first read that a message does not start over
(`missed`). And `_note_fuel_run_out` (`trading.py:491`) looks at the price alone: a plant short of fuel that is itself
the marginal offer may sell a part of what it did offer and is noted as having run out, where the field's description
(`trading.py:161`) says that it could have sold more; of this, no run asks. The converse holds (in `FuelIsShared`), but
at a point with no offer at all and next to no must-serve demand (`AnyToTrade`): there the market has no price, and the
code's zero hides a missed sale from who asks more.

## What is proved

With TLAPS, for every number of players, Rounds and seasons, every catalog and every input, from the assumptions
`NumSeasonsAssumption` (at least one season), and `CatalogAssumption`, `EventAssumption`, `LeverChangesAssumption` and
`SessionAssumption` (the constants' types; that facilities, fuels and players admitted are finitely many):

* `EveryPeriodSettledOnce`: in `PacedGame`, settled periods are in order, none twice, and none that the game has left
  is missing. The order alone is not inductive: `GameInv` adds that nothing ahead of the game is settled
  (`SettledNotAhead`), which makes a period that is settled now later than every one before it, and a Round added
  now lie ahead of everything settled.
* `MemoryAlwaysMatchesFile`: every undo in `session.py` is complete. `Touched(s, t, undo)` says that `t` differs from
  `s` only in the fields of `undo`; one lemma per step of an advance and per operation shows it for the undo set
  that the code has, `TouchedTwice` composes them, and `UndoneIsBefore` takes the session back to what it was.
* `AlwaysOneSimulation`, `ClosedAlwaysStaysClosed`, `PaceIsTyped`: from the same invariant.
* `FilePlaysTheGame`: the session implements `PacedGame`. `EveryStep` sorts every step of `Next` into the six things
  it may do to the *pace* of a session (checkpoint, Round count, timers, settled periods): nothing, a change of the
  phase, of the timers, one more Round, one checkpoint on, or one settled period; each maps to a step or a stutter.

* `AlwaysOneCarbonTax`, `BallotsNeverOutliveTheirVote`, `LockedPlansStayFrozen` (`WorkshopSessionProofs`). `VotesInv`
  adds to the first two that no vote is counted ahead of the Rounds whose Investment phase is over (`RoundsVoted`),
  and that every Round has its plan. Without the former, a tax counted now could not be told from one of a Round to
  come, and a second one could pass before it.
* `PlannedEventsFireOnce` (`WorkshopSessionProofs`): the events fired are those planned at each boundary reached. What was
  reached (`Reached`) grows by one boundary at each step that fires (`ReachedNext`), and stays the same when a
  Round is added or at a step within a phase (`ReachedStays`). What was planned there is locked, so that
  `FiredForSame` replaces the plans and `FiredForMore` adds one firing, of which the session's list is the same
  concatenation (`FlattenMore`). `PlansInv` adds that every plan has its types, without which a firing is not known
  to be a sequence: its events are drawn from a list by `Only`, a recursive function (`OnlyTyped`).
* `SettlingAlwaysMatches` (`SettlingProofs`): while a period is simulated, every operation leaves alone what its job
  was made from. `SettlingInv` says that the job is `JobFor` of the session as it stands, for as long as the phase is
  closed; each operation's guard shows that it may change none of that.
* `LoanAlwaysOnSchedule`, `RecapAlwaysTellsPayment` (`WorkshopSessionProofs`). `LoanInv` says that a loan's payments are those due
  by now (`OnSchedule`) and that none was taken in what was the last Round, so that its two payments find a Round's
  start or the end, however many Rounds are added.
* `OwnedAlwaysWasOffered` (`WorkshopSessionProofs`). `OffersInv` adds that nothing is owned of a Round whose plan is not
  locked yet, since what is owned must stay on offer however plans change, and that nothing is selected outside an
  Investment phase.
* `StorageAlwaysFits` (`SettlingProofs`): a purchase keeps what fits in what will work, a simulation ends within the
  capacity its job was given, which `SettlingInv` says is still the session's, and nothing retires from the
  Investment phase's end to the Recap.
* `FuelAlwaysAddsUp`. `FuelInv` says that each player's books balance (`FuelBooks`: stock is bought less burned) and that
  while a manual window is open or being settled their orders fit (`OrdersFit`). No more is ever burned than was
  held or bought (`BurnedIsHeld`), since the job's limit was the stock and order of the same player
  (`BidderMatchesPlayer`).
* `RecordsAlwaysMatch`. `RecordsInv` says that players have results of listed periods only, one each by its record. The
  record being written is of a period not listed (`WaitingIsUnlisted`), so that no listed record is written again.
* `SelectionsAreAlwaysPaid`. `MoneyInv` says that every account is of amounts (`IsAccount`), that nobody is in debt before
  the first Round, and that in an Investment phase the selection is paid for at the phase's own prices, which last as
  long as the phase (`PricesLast`). It rests on `RoomInv`, the types of what was fired, of blackouts and fuel's
  prices, since the phase's prices are worked out from them, and on what a step does to an account at all
  (`EveryStepOfAccounts`). After the first Round, an Investment phase starts with nothing selected and at the cash
  floor or above.
* `TypesAlwaysHold`: most of the types are parts of the invariants above; `TypesInv` adds prices, ballots, the head count
  demand was scaled by and the records' periods.
* `MoneyAlwaysExplained`, of two action properties. Of cash, each way an account can move leaves as much unexplained as
  before (`PayingIsExplained`, `BorrowingIsExplained`, `PaymentsAreExplained`), but for the top-up, which only adds, and
  for blackouts, whose cost is never negative and zero without one (`BlackoutsCost`). Of the score, the Rounds
  completed change as a Recap opens and at no other step (`CompletedStays`); what happens meanwhile is of a later Round
  (`LaterResultsWait`, `LaterPurchasesWait`), and what retires at a Round's start was worth nothing already
  (`ResidualIsTyped`, `WorthStays`).
* `SessionSettlesEachPeriodOnce`: `EveryPeriodSettledOnce` carried over by the refinement `FilePlaysTheGame`.
* `PagesAlwaysFollow`: the pages' functions of a session agree with what it does. A step of the timeline counts up from
  the first Round, and two of them compare as their Rounds do, then their places in the Round (`StepsCompare`), so
  that a node's status is that of its checkpoint (`TimelineStands`). That what lies behind is what was *settled* is
  `GameInv` of `PacedGame`, carried over by the refinement; blackouts are of settled periods (`DarkInv`), and a
  phase timer runs in an Investment phase or a Trading period only (`TimerInv`), without which a window could be open
  at the end, where no button is shown. For the Rounds that the console lists as carried, an edit of a plan
  must change the levers of each later Round that it changes at all (`LeversAfter`): events are not carried.

The inductive invariant is `SessionInv`: the session is a well-formed record and equals its file (`Sound`); there is
one job, for the period that `settlement` names, or none (`JobInv`); the pace has its types and `settledPeriod` is the
last period recorded (`PaceInv`). `Sound` must come with the others, since a step that fails goes back to the file's
state only if memory was there before; `JobInv` is what keeps a second settlement of a period out.

For the market, for every book that offers and bids can fill in any order, of any number, size and price, from
`BookAssumption` (what is placed is positive, as `place_ask` and `place_bid` see to; prices are finite, but for a bid
at no limit). `BookInv` says that a book's entries are numbered as they came and each has such a size and price.

* `AlwaysTheBestTrade`. Merit order puts a book's entries in an order of price, and of arrival at one price, and stacks
  them: an entry lies between what is offered before it and after it (`MeritOrderArranges`, `StackGrows`).
  The optimum is the first place where an offer and a bid that meet do not agree; below it each offer agrees with
  each bid that reaches over it (`TradersAgree`), above it nobody does (`NoStopBefore`, `ClearedLiesBelow`). So the
  price of that place suits whoever trades and whoever does not (`ClearingSuits`), and since any other price has
  either its offers or its bids within what is traded, nothing trades more (`ABookTradesMost`).
* `BooksAlwaysBalance`. What the two sides clear is the same, since each is stacked without gaps up to the optimum.
  On each side at most the marginal entry is too small to settle.

For the simulated period, for any plants, tiers, weather, demand, prices, days and clearings a day, from
`TradingAssumption`, `PlantAssumption`, `TierAssumption` and `InputAssumption`: plants are of three kinds and those that
burn fuel use some; a demand block has a first tier, and a tier bids within the players' prices or, for demand that
must be served, without limit (`demand_block.py`); a player's prices lie between what dumping costs and scarcity
(`PriceSheet` refuses others), and a storage starts with no more than it holds (which `StorageAlwaysFits` proves of
the session). `TradingInv` is the invariant. `SimulationFits` and `GridFits` are the types, `StorageFits` and `TradeFits`
what a later point relies on of an earlier one: that a storage is not over-full, and that the record's last charge is the
pool's. `InitFits` and `EndKeepsInv` show that both passes start afresh, `PointKeepsInv` that each kind of point
keeps it.

* `BlackoutsAlwaysKept` (`TradingProofs`). A point's book has one entry for whoever offers or bids (`Lists`), found by its
  owner (`EntryOf`), so that a blackout is seen exactly as the first tier's bid goes unmet, and what a tier is served
  is what its bid cleared, but for what is too small to settle. A blackout is listed as the grid goes down, all
  points below `downUntil` follow one, and no two are within a day: so that a point is down if and only if a listed
  blackout is less than a day before it (`DownForADayGrows`), and blackouts before a point stay the same ones, which
  keeps an earlier point's rationing what it was (`DemandGrows`).
* `StorageAlwaysHoldsWhatItBought`. What a pool offers is at most what its charge delivers and what it bids for at most what
  has room (`PoolTraded`), so that neither cap in the code loses energy (`TradedPoolIs`).
* `ConsumersAlwaysPayThePlayers`. By `BooksAlwaysBalance`'s lemmas each clearing's sales and purchases differ by no more than
  is too small to settle; what the pools bought and the tiers were served is what the book bought, each entry once
  (`ListedSum`, `AmountsTraded`); so a point's money balances within that at its price (`TradeIsPaidFor`), and sums over
  the record grow by one term a point (`LedgerGrows`). `LedgerFits` joins it to `TradingInv`, from which come the
  types of what is summed.
* `FuelAlwaysShared`, in three parts. As pools have their turn, what they reserve of a stock and what is left of it
  are what there was (`ReservedAddsUp`), so that what they can offer between them fits (`LimitsFitTheStock`) and nothing
  a point burns is more than the tank holds (`BurnedIsThere`): the code's clamp at zero loses nothing, and `FuelFits`
  says that a stock is what was burned, by what each point produced, and what is left. What a turn leaves only gets less
  (`LimitsLast`): if it was too little for one more unit of a cheaper offer, a dearer one has less than that
  (`CheaperTakesFirst`). A missed sale is told by comparing two clearings that nobody makes, with the fuel there is and
  with all that the pool could burn (`MoreFuelSells`): had the first a price below the pool's, all that bids above that
  price would trade in it (`TradesBetween`) and the offers up to it, the same in both books (`WillingByOwner`), would
  carry it; in the second these lie before the pool's own offer (`CheaperLiesBelow`) and already serve all that bids
  that much, so it could not sell.

For the pages, for every number of pages, days, fields, values, changes, options, boundaries, runs, components and
bounds, from `PageAssumption`, `SelectionAssumption`, `PriceAssumption`, `ChoiceAssumption`, `ClockAssumption`,
`LobbyAssumption`, `TickAssumption`, `ChatAssumption` and `ChartAssumption` (the types of the constants; `NoData` is none of the data, and
`NoChat` none of the chats; a chart is no wider than the server looks back (`types/charts.ts`: 60 and 360, and 360), a
block fits in the buffer (216 in 360), and each resolution divides the block or is a multiple of it):

* `PagesAreTyped`, `PageAlwaysShowsSession`, `PageAlwaysShowsPrices`, `PageNeverGoesBack` (`PageProofs`). The
  invariant `PageInv` says of each connected page that either the server still owes a message about what it shows
  (`Owed`), or such a message is in its inbox (`NamedWaits`), or its cache is *fresh*: a read is asked, or was
  answered with what the server has, or the data are. What the promise says of a page at rest is the last case. It
  needs that a socket that is down has no messages (`DownIsEmpty`), and that progress, which a page shows without a
  read, is followed by a message that has the session read (`Reported`, `Followed`).
* `SelectionIsShown`, `ValuesAreShown`, `ChoiceAlwaysStays` (from `ChoiceIsShown` and `ShownResultStays`),
  `ControlsCloseInTime`, `LobbyIsShown` (from `AccountStaysOut` and `PickerShowsRuns`), `ProjectsAreShown`,
  `ChatIsComplete`, `ChartIsComplete` (`PlayerPagesProofs`). Each page has an invariant of its
  own of the same shape, and `OnePage` says that a step of one page leaves the variables of the others alone.
  `SelectionInv` adds `OneUntilOverlap` (until changes overlap there is at most one in flight, which is what makes
  trusting its answer right); `PriceInv` relates each field's cache to the change under way, if there is one;
  `ClockInv` says when the timer is set; `LobbyInv` that a page that left has no read under way that saw the cookie;
  `TickInv` that without a second component the key is registered while the list is used.
  `ChatInv` says at every moment, while nothing was overtaken, what a chat at rest promises: the messages shown reach
  back to some message of the chat, the `lo`-th, and lack of those since only the ones `Coming` (`Shows`). What comes
  is in the inbox or the answer to a message of the player's own, never before the `lo`-th, and a read of older
  messages was for those just before it (`ReachesBackTo`). There is a lemma for each way the messages shown change:
  one is added, put in front, answered, refused. `WithoutOne` says that the filter that takes a refused message away
  takes that one only. Once nothing is coming the messages shown are as many as the chat has from the `lo`-th
  (`AllShown`, by a bijection), so they are its last ones.
  `ChartInv` says that ranges asked for begin at a multiple of the resolution, that a page is never ahead of the server
  and no question younger than it, that each answer not read during a tick is `Faithful`, its points what the server
  had for them (`Told`), and that every chart as it was drawn last has asked for all it lacks (`AllAsked`, which
  `RenderedAsks` shows of any drawing, `AllAskedSame` of what changes no answer and `AskReplaced` of one question asked
  or settled). `PointTold` is the arithmetic of `Series` between two ticks: a block that starts at a multiple of the
  resolution (`BlockOnGrid`) gives a point its own place in the buffer, or the place before it in the file;
  where points are wider than blocks, the file's are a whole point late or lie before its first. `ChartInReach`
  says when a chart's range is no older than the server looks back: unless the page's tick is a window behind.
  That what a chart lacks are gaps within its range, and with
  the answers make up all of it, is of the functions alone: the answers found are each listed once, by where they begin
  (`CachedAre`); a place in the range lies in the gap or the answer that comes with the last gap beginning no later
  (`GapsAre`, by `LastPlace`), however the answers overlap; and a point's index in an answer is that of its tick
  (`GatheredAre`). Filters and sorts are `Arranged`: since the places they keep are in a strict order (`Nested`), one of
  them is the first, one the second, and so on (`Ranked`, by counting what comes no later), which is what a filter's
  `WithoutOne` rests on too.

**Only model-checked:** liveness (the prover does no fairness): `ClosedPhasesAreDone`,
`PageCatchesUp`, `RefusedPageCloses`; `CarbonTaxSharedOut`, which holds of the amounts of the model
only, since a share of the tax is an integer division. `PageProperties.TypeOK` is proved, and in no run.

Sums and concatenations are of the community modules' folds, which the provers do not know: `OperatorProofs` proves what is needed of
them by `SubsetInduction`, from the well-founded order of a finite set's subsets, and by `CountingInduction`. A sum is a fold
that adds (`SumIsAFold`), whichever element it picks first (`SumSplit`); a sequence of sequences is joined by a recursion over their
number (`FlattenJoins`). The sum of a sequence is the same in any order (`SumRearranged`), which carries sums from a book to its merit
order. A power of nine tenths is a recursive function in `TradingPeriod`, since the provers do not know the operator `^`. A fold from the
left is a recursion over the places (`FoldedFromLeft`), by which the book of a point and the limits of fuel are known.

## Plan

Written, in order: `Checkpoints`, `RoundPlans`, `Fleet`, `Finance`, `WorkshopSession`, `PacedGame`, `Scoreboard`,
`WorkshopApp` and their proofs; then the client: `QueryCache`, `WorkshopPage`, the changes, the other pages,
`WorkshopPages` and their proofs; then the proofs about votes, settling and loans; then `Market`, `MarketBook` and
`TradingPeriod`. What would come next:

1. `FreeplayTick` and `FreeplayProjects`: the tick loop with its action log and saves, queues of projects, workers,
   and what a restart replays; then `ResourceMarket`.
2. `RunProvisioning`: `identity/` and the lobby service: join tokens, a Run created and not announced.
3. That the outcomes `WorkshopSession` chooses among include those of `TradingPeriod`.

## Not modelled, and why

* **Generated code**: a good quarter of the client (`web/types/api.*.generated.ts`, the route trees) is types
  generated from the server's schemas, without behaviour.
* **Presentation**: most of the rest of the client is components that draw what one query holds, charts' drawing,
  wording, styles, icons and navigation. It keeps no state that another actor changes, so there is nothing to
  interleave; its pure functions (labels, formats, groupings) have unit tests of their own. The map therefore covers
  a small share of the client's lines, and the parts of it that hold, change or wait for something.
* **Numeric data**: weather, demand curves, technology tables and Freeplay's production are floats over large tables,
  beyond what a model checker tells apart; ramping is off in Workshop. Of a simulated period, O&M, emissions and
  capacity factors, proportions of what a pool produced, are left out.
* **Views and HTTP**: `control_room`, `recap`, `balance_sheet` and the handlers that only read change nothing.
* **Freeplay's engine, identity and the lobby's service**: in the plan; the client's side of each is modelled as far as
  a page's copy depends on it.
* **Two processes opening the same file** are ruled out by `session.py`'s own docstring and left to deployment; **a
  wall clock set back** is not modelled, and no doc says what it would do; money and energy are integers here where
  the code has floats.
