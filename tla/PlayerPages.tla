---------------------------- MODULE PlayerPages ------------------------------
(***************************************************************************)
(* The pages besides WorkshopPage: the changes a Workshop page makes to    *)
(* its selection, its prices and fuel orders, its plans and its vote; and, *)
(* outside the Workshop, the charts, the messages, the lobby, the clock    *)
(* every page of the game runs, and what is read again on every tick.      *)
(* They share nothing: at says which of them a behaviour is about.         *)
(***************************************************************************)
EXTENDS SelectionEdits, PriceEdits, PlanEdits, ChartPage, ChatPage, ClockPage, LobbyPage,
        TickPage

VARIABLE at     \* what the visitor is at

editVars == <<selectionVars, priceVars, choiceVars>>
gameVars == <<chartVars, chatVars, clockVars, lobbyVars, tickVars>>
pageVars == <<editVars, gameVars, at>>

\* The variables of the other pages keep one of their initial values.
Init ==
    /\ at \in {"selection", "prices", "choice", "chart", "chat", "clock", "lobby", "ticks"}
    /\ SelectionInit /\ PriceInit /\ ChoiceInit
    /\ ChartInit /\ ChatInit /\ ClockInit /\ LobbyInit /\ TickInit
    /\ at # "choice" => editing = "plans"
    /\ at # "chart" => /\ resolution = CHOOSE r \in Resolutions : TRUE
                       /\ moment = 3 * (CHOOSE first \in FirstTicks : TRUE) + 2
    /\ at # "clock" => run = CHOOSE r \in Boundaries : TRUE
    /\ at # "lobby" => place = "picker" /\ cookie

AtClock(step) ==
    at = "clock" /\ step /\ UNCHANGED <<editVars, chartVars, chatVars, lobbyVars, tickVars, at>>

Next ==
    \/ at = "selection" /\ SelectionNext /\ UNCHANGED <<priceVars, choiceVars, gameVars, at>>
    \/ at = "prices" /\ PriceNext /\ UNCHANGED <<selectionVars, choiceVars, gameVars, at>>
    \/ at = "choice" /\ ChoiceNext /\ UNCHANGED <<selectionVars, priceVars, gameVars, at>>
    \/ at = "chart" /\ ChartNext /\ UNCHANGED <<editVars, chatVars, clockVars, lobbyVars, tickVars, at>>
    \/ at = "chat" /\ ChatNext /\ UNCHANGED <<editVars, chartVars, clockVars, lobbyVars, tickVars, at>>
    \/ AtClock(ClockNext)
    \/ at = "lobby" /\ LobbyNext /\ UNCHANGED <<editVars, chartVars, chatVars, clockVars, tickVars, at>>
    \/ at = "ticks" /\ TickNext /\ UNCHANGED <<editVars, chartVars, chatVars, clockVars, lobbyVars, at>>

\* A page that is open looks at its clock, is answered, and draws what it got.
Fairness ==
    /\ WF_pageVars(AtClock(TimerFires))
    /\ WF_pageVars(AtClock(RefusalLands))
    /\ WF_pageVars(AtClock(EngineRead))

Spec == Init /\ [][Next]_pageVars /\ Fairness

-----------------------------------------------------------------------------
Rests(entry) == entry.fetch = "idle" /\ ~entry.stale

\* Once nothing is on its way, the page shows the selection the server has, in
\* whatever order the changes were handled and answered (useSelectionChange), the
\* purchase included; but for a read answered before a change whose answer overtook it,
\* and an answer to a lone change that the purchase overtook.
SelectionShown ==
    SelectionChangesInFlight = 0 /\ ~buyingTold /\ Rests(selection) /\ ~selection.missed /\ ~late =>
        selection.data = picked

\* ... the values the server kept, whatever became of the changes before the last
\* (useSetPrice, useSetFuelOrder); but for such a read.
ValuesShown ==
    (\A f \in Fields : sending[f] = <<>>) /\ Rests(offer) /\ ~offer.missed =>
        offer.data = kept

\* ... and the plans, or the vote, without such a read (usePlanChange, useCastBallot).
ChoiceShown ==
    edit = NoEdit /\ ~told /\ Rests(shown) => shown.data = choice

\* The result of a vote, once shown, is never hidden again by the answer to a ballot.
ResultStays ==
    [][editing = "vote" /\ shown.data # NoData /\ shown.data.settled => shown'.data.settled]_pageVars

\* What a page shows of the plans or the vote is what the server has, and stays once settled.
ChoiceStays == []ChoiceShown /\ ResultStays

Points(range, res) == { range.startTick + i * res : i \in 0 .. range.count - 1 }

\* What the server has for a point: its own data, or those of a tick earlier once they are
\* in the file; and for a point wider than a block those of the point before, or none.
Told(tick, res) ==
    { Largest(NoValue, from) :
          from \in {tick, tick - 1} \cup
                       IF Block % res = 0 THEN {} ELSE {tick - 1 - res, NoValue} }

Torn(tick) == \E i \in DOMAIN queries :
                  queries[i].torn /\ tick \in Points(queries[i].range, resolution)

\* A chart shows points of its own range and no others, whatever answers it is gathered
\* from, each with what the server had for it, but for answers read during a tick.  Every
\* point it lacks is asked for, in requests within its range that the server accepts,
\* unless the page is a window behind and the request too old by now; and one that lacks
\* none shows its whole range (getCacheGaps, aggregateChartData, useChartData).
ChartComplete ==
    \A width \in Widths :
        LET range  == computeRange(currentTick, resolution, width)
            gaps   == getCacheGaps(queries, range, resolution)
            data   == aggregateChartData(queries, range, resolution)
            points == Points(range, resolution)
        IN  /\ DOMAIN data \subseteq points
            /\ \A tick \in DOMAIN data : data[tick] \in Told(tick, resolution) \/ Torn(tick)
            /\ points = DOMAIN data \cup UNION { Points(gap, resolution) : gap \in gaps }
            /\ gaps = {} => DOMAIN ChartData(width) = points
            /\ range.count > 0 =>
                   \A gap \in gaps :
                       /\ gap.count > 0 /\ Points(gap, resolution) \subseteq points
                       /\ AskedFor(queries, gap)
                       /\ \/ Accepted(gap, serverTick, resolution)
                          \/ /\ gap.startTick < Oldest(serverTick, resolution)
                             /\ currentTick \div resolution < serverTick \div resolution

\* Once nothing is on its way the messages shown are the chat's last, each of them once,
\* and the button for older ones is there exactly if there are some: in whatever order
\* answers and events came, but for the overtaking the history names (useChatMessages).
ChatComplete ==
    Quiet /\ ~overtaken /\ chatId # NoChat =>
        /\ \A i, j \in DOMAIN messages : messages[i] = messages[j] => i = j
        /\ ToSet(messages) = ToSet(LastOf(posted[chatId], Len(messages)))
        /\ hasMore <=> Len(messages) < Len(posted[chatId])

\* Unless the page's next look at its clock is due, the controls are open exactly in the
\* phases in which the boundaries it has read say so, however far off they are
\* (useIsReadOnly, derivePhase).
ClosedInTime ==
    engine.data # NoData /\ timer > time =>
        (IsReadOnly <=> isReadOnlyPhase(derivePhase(engine.data, time)))

\* A page whose action is refused as frozen closes its controls, unless the boundaries
\* move again; but for a read under way that the refusal does not begin again
\* (onMutationError).
RefusedPageCloses == refused ~> (IsReadOnly \/ ~refused \/ engine.missed)

\* Until the account logs in again the page does not take it for logged in, whatever
\* reads were under way when it logged out (useLobbyLogout).
LoggedOutStaysOut == left => ~LoggedIn

\* With a session, and nothing under way, the picker shows every run that was joined;
\* but for a request whose answer was lost, or a read that began before one.
RunsShown ==
    call = NoCall /\ myRuns.fetch = "idle" /\ ~myRuns.stale /\ ~myRuns.missed /\ cookie /\ ~lost =>
        myRuns.data = joined

\* The lobby shows who is logged in, and to what they belong.
LobbyShown == LoggedOutStaysOut /\ RunsShown

Shown == events = <<>> /\ Rests(projectList) /\ ~projectList.missed /\ ~behind =>
            users = {} \/ projectList.data = projects

\* Once nothing is on its way a component that uses the list shows it as the server has
\* it: ticks, the server's events, the answers to changes, components that come and go,
\* and reads they start over, in any order (useTickQuery, useProjects); but for what
\* behind and missed name, and for two components that use the list at once.
ProjectsShown == ~shared => Shown

\* ... and for nothing else: a query that a component uses is read again on each tick.
EveryTickShown == Shown
=============================================================================
