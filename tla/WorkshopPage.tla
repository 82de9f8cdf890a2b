---------------------------- MODULE WorkshopPage -----------------------------
(***************************************************************************)
(* How a change to the session reaches every open page.  The server sends  *)
(* messages over each page's socket, which name every query of the         *)
(* session, or the room's prices alone, or say how far the simulation of   *)
(* a Trading period has got.  A page reads again what a message names, and  *)
(* everything when its socket connects.                                    *)
(*                                                                         *)
(* The session is its version, which every saved change moves on, and the  *)
(* day its simulation is at, 0 while none runs.  The room's prices are a   *)
(* version of their own.  Each page here shows one of the two queries,     *)
(* which are read independently of each other: the session on a player's   *)
(* page or on the facilitator's console, or the room's prices.             *)
(***************************************************************************)
EXTENDS Naturals, Sequences

CONSTANTS
    Pages,     \* the open pages
    MaxDay,    \* days a simulation takes
    Budgets,   \* bound: how often what is not sure to happen happens
    NoData

ASSUME PageAssumption ==
    /\ MaxDay \in Nat \ {0}
    /\ Budgets \subseteq [changes: Nat, prices: Nat, failures: Nat, restarts: Nat]
    /\ NoData \notin [version: Nat, day: Nat] \cup Nat

INSTANCE QueryCache

VARIABLES
    server,     \* the session
    due,        \* a Trading period waits to be simulated, or is being simulated
    room,       \* the version of the room's prices
    owed,       \* changes saved whose message is still to be sent
    reported,   \* the progress the closer last looked at
    throttle,   \* of the messages about prices
    socket,     \* page -> "up" or "down"
    inbox,      \* page -> messages on their way to it
    shows,      \* page -> "session", "console" or "prices"
    view,       \* page -> its cache of that query
    request,    \* page -> its own change of the session under way
    budget      \* how many changes of the session and of prices, dropped sockets, failed
                \* reads or simulations, and restarts of the server may still come

serverVars == <<server, due, room, owed, reported, throttle>>
pageVars   == <<shows, view>>
vars       == <<serverVars, socket, inbox, pageVars, request, budget>>

Session   == [version: Nat, day: 0..MaxDay]
Message   == [names: {"session", "prices", "progress"}, day: 0..MaxDay]
Reread       == [names |-> "session", day |-> 0]
RereadPrices == [names |-> "prices", day |-> 0]
ProgressMade(d) == [names |-> "progress", day |-> d]
NoRequest == [stage |-> "none", answer |-> NoData]
Requests  == [stage: {"none", "sent", "saved", "answered"}, answer: Session \cup {NoData}]

\* current: it is the progress of the period being simulated.
NotReported  == [day |-> 0, current |-> FALSE]
Progress(d)  == [day |-> d, current |-> TRUE]

\* recent: the last message is less than half a second old.
\* unsent: a run has begun whose message is still to be sent.
IdleThrottle == [recent |-> FALSE, waiting |-> FALSE, unsent |-> FALSE]

Init ==
    /\ server = [version |-> 0, day |-> 0]
    /\ due = FALSE
    /\ room = 0
    /\ owed = 0
    /\ reported = NotReported
    /\ throttle = IdleThrottle
    /\ socket = [p \in Pages |-> "down"]
    /\ inbox = [p \in Pages |-> <<>>]
    /\ shows \in [Pages -> {"session", "console", "prices"}]
    /\ view = [p \in Pages |-> Read(Empty)]
    /\ request = [p \in Pages |-> NoRequest]
    /\ budget \in Budgets

Spend(what) == budget[what] > 0 /\ budget' = [budget EXCEPT ![what] = @ - 1]

\* What a read of p's query would answer now.
Current(p) == IF shows[p] = "prices" THEN room ELSE server

\* Every page connected now gets the message.
Emit(m) == inbox' = [p \in Pages |-> IF socket[p] = "up" THEN Append(inbox[p], m) ELSE inbox[p]]

(***************************************************************************)
(* The server.                                                             *)
(***************************************************************************)
\* A change is saved.  It may be the end of a price-setting window.
SaveChange ==
    /\ Spend("changes")
    /\ server' = [server EXCEPT !.version = @ + 1]
    /\ due' \in (IF due THEN {TRUE} ELSE BOOLEAN)

\* A handler of another page's request, or the closer, saves a change and then tells.
Change ==
    /\ SaveChange
    /\ owed' = owed + 1
    /\ UNCHANGED <<room, reported, throttle, socket, inbox, pageVars, request>>

Tell ==
    /\ owed > 0
    /\ owed' = owed - 1
    /\ Emit(Reread)
    /\ UNCHANGED <<server, due, room, reported, throttle, socket, pageVars, request, budget>>

SimulationDay ==
    /\ server.day \in 1..(MaxDay - 1)
    /\ server' = [server EXCEPT !.day = @ + 1]
    /\ UNCHANGED <<due, room, owed, reported, throttle, socket, inbox, pageVars, request, budget>>

\* The period is settled.
SimulationEnds ==
    /\ server.day > 0
    /\ server' = [version |-> server.version + 1, day |-> 0]
    /\ due' = FALSE
    /\ reported' = [reported EXCEPT !.current = FALSE]
    /\ UNCHANGED <<room, owed, throttle, socket, inbox, pageVars, request, budget>>

SimulationFails ==
    /\ server.day > 0 /\ Spend("failures")
    /\ server' = [server EXCEPT !.day = 0]
    /\ UNCHANGED <<due, room, owed, reported, throttle, socket, inbox, pageVars, request>>

\* The closer starts what is due and looks at the progress.  A day gone by in the same
\* period is sent as it is.  A start or an end changes the session.
CloserChecks ==
    LET starts   == due /\ server.day = 0
        day      == IF starts THEN 1 ELSE server.day
        progress == IF day = 0 THEN NotReported ELSE Progress(day)
    IN  /\ starts \/ progress # reported
        /\ server' = [server EXCEPT !.day = day]
        /\ reported' = progress
        /\ IF progress = reported THEN UNCHANGED inbox
           ELSE IF day > 0 /\ reported.current THEN Emit(ProgressMade(day))
           ELSE Emit(Reread)
        /\ UNCHANGED <<due, room, owed, throttle, socket, pageVars, request, budget>>

\* A slip: a change within the half second has no run wait.
PriceChangesUnsent ==
    /\ Spend("prices")
    /\ room' = room + 1
    /\ throttle' = IF throttle.recent THEN throttle
                   ELSE [throttle EXCEPT !.recent = TRUE, !.unsent = TRUE]
    /\ UNCHANGED <<server, due, owed, reported, socket, inbox, pageVars, request>>

\* A player's price is saved, and the throttle called: it runs at once, has a run
\* wait for the half second to pass, or leaves the change to the run that waits.
PriceChanges ==
    /\ Spend("prices")
    /\ room' = room + 1
    /\ throttle' = IF throttle.waiting THEN throttle
                   ELSE IF throttle.recent THEN [throttle EXCEPT !.waiting = TRUE]
                   ELSE [throttle EXCEPT !.recent = TRUE, !.unsent = TRUE]
    /\ UNCHANGED <<server, due, owed, reported, socket, inbox, pageVars, request>>

\* Sending takes far less than the half second.
HalfSecondPasses ==
    /\ throttle.recent /\ ~throttle.unsent
    /\ throttle' = [throttle EXCEPT !.recent = FALSE]
    /\ UNCHANGED <<server, due, room, owed, reported, socket, inbox, pageVars, request, budget>>

\* The run that waited no longer waits, so a change from now on has another one wait.
WaitEnds ==
    /\ throttle.waiting /\ ~throttle.recent
    /\ throttle' = [recent |-> TRUE, waiting |-> FALSE, unsent |-> TRUE]
    /\ UNCHANGED <<server, due, room, owed, reported, socket, inbox, pageVars, request, budget>>

ThrottleSends ==
    /\ throttle.unsent
    /\ throttle' = [throttle EXCEPT !.unsent = FALSE]
    /\ Emit(RereadPrices)
    /\ UNCHANGED <<server, due, room, owed, reported, socket, pageVars, request, budget>>

(***************************************************************************)
(* A page's socket.                                                        *)
(***************************************************************************)
\* A slip: nothing is read again.
ConnectOnly(p) ==
    /\ socket[p] = "down"
    /\ socket' = [socket EXCEPT ![p] = "up"]
    /\ UNCHANGED <<serverVars, inbox, pageVars, request, budget>>

\* Nothing was sent while the socket was down, so everything is read again.
Connect(p) ==
    /\ socket[p] = "down"
    /\ socket' = [socket EXCEPT ![p] = "up"]
    /\ view' = [view EXCEPT ![p] = Invalidate(@)]
    /\ UNCHANGED <<serverVars, inbox, shows, request, budget>>

Disconnect(p) ==
    /\ socket[p] = "up" /\ Spend("failures")
    /\ socket' = [socket EXCEPT ![p] = "down"]
    /\ inbox' = [inbox EXCEPT ![p] = <<>>]
    /\ UNCHANGED <<serverVars, pageVars, request>>

WithSettlementProgress(session, day) == [session EXCEPT !.day = day]

\* The key of the prices sits under the session's.
Named(m, p) == m.names = "session" \/ (m.names = "prices" /\ shows[p] = "prices")

\* The server's messages come in the order they were sent.
Receive(p) ==
    LET m == Head(inbox[p])
        Progressed(session) == WithSettlementProgress(session, m.day)
    IN  /\ inbox[p] # <<>>
        /\ inbox' = [inbox EXCEPT ![p] = Tail(@)]
        /\ view' = [view EXCEPT ![p] =
                       IF Named(m, p) THEN Invalidate(@)
                       ELSE IF m.names = "progress" /\ shows[p] # "prices"
                         THEN Update(@, Progressed)
                       ELSE @]
        /\ UNCHANGED <<serverVars, socket, shows, request, budget>>

(***************************************************************************)
(* A page's reads.                                                         *)
(***************************************************************************)
ReadHandled(p) ==
    /\ view[p].fetch = "asked"
    /\ view' = [view EXCEPT ![p] = Answer(@, Current(p))]
    /\ UNCHANGED <<serverVars, socket, inbox, shows, request, budget>>

ReadLands(p) ==
    /\ view[p].fetch = "answered"
    /\ view' = [view EXCEPT ![p] = Land(@)]
    /\ UNCHANGED <<serverVars, socket, inbox, shows, request, budget>>

\* A read fails for good, its retries included.
ReadFails(p) ==
    /\ view[p].fetch # "idle" /\ Spend("failures")
    /\ view' = [view EXCEPT ![p] = Fail(@)]
    /\ UNCHANGED <<serverVars, socket, inbox, shows, request>>

\* The visitor comes back to the page, whose data is known to be out of date or is
\* older than five minutes.
LookAgain(p) ==
    /\ view[p].fetch = "idle"
    /\ view' = [view EXCEPT ![p] = Read(@)]
    /\ UNCHANGED <<serverVars, socket, inbox, shows, request, budget>>

(***************************************************************************)
(* The facilitator's own changes: an advance, or more time for a phase.    *)
(* Never retried.  The answer is the session once every page is told.      *)
(***************************************************************************)
Send(p) ==
    /\ shows[p] = "console"
    /\ request[p].stage = "none"
    /\ view[p].data # NoData
    /\ request' = [request EXCEPT ![p].stage = "sent"]
    /\ UNCHANGED <<serverVars, socket, inbox, pageVars, budget>>

RequestSaved(p) ==
    /\ request[p].stage = "sent"
    /\ SaveChange
    /\ request' = [request EXCEPT ![p].stage = "saved"]
    /\ UNCHANGED <<room, owed, reported, throttle, socket, inbox, pageVars>>

RequestTold(p) ==
    /\ request[p].stage = "saved"
    /\ Emit(Reread)
    /\ request' = [request EXCEPT ![p] = [stage |-> "answered", answer |-> server]]
    /\ UNCHANGED <<serverVars, socket, pageVars, budget>>

\* The answer replaces the cached session straight away.
AnswerLands(p) ==
    /\ request[p].stage = "answered"
    /\ view' = [view EXCEPT ![p] = Put(@, request[p].answer)]
    /\ request' = [request EXCEPT ![p] = NoRequest]
    /\ UNCHANGED <<serverVars, socket, inbox, shows, budget>>

\* Refused, or the answer is lost: the page shows an error, its cache stays.
RequestFails(p) ==
    /\ request[p].stage \in {"sent", "answered"}
    /\ request' = [request EXCEPT ![p] = NoRequest]
    /\ UNCHANGED <<serverVars, socket, inbox, pageVars, budget>>

\* A slip: what the server has not told of yet is not saved either.
ServerRestartsUnsaved ==
    /\ Spend("restarts")
    /\ server' = [version |-> server.version - owed, day |-> 0]
    /\ owed' = 0
    /\ reported' = NotReported
    /\ throttle' = IdleThrottle
    /\ socket' = [p \in Pages |-> "down"]
    /\ inbox' = [p \in Pages |-> <<>>]
    /\ request' = [p \in Pages |-> NoRequest]
    /\ UNCHANGED <<due, room, pageVars>>

\* The server stops between any two steps.  What was saved stays, every socket drops,
\* and with the handlers and the simulation goes what they had still to send.
ServerRestarts ==
    /\ Spend("restarts")
    /\ server' = [server EXCEPT !.day = 0]
    /\ owed' = 0
    /\ reported' = NotReported
    /\ throttle' = IdleThrottle
    /\ socket' = [p \in Pages |-> "down"]
    /\ inbox' = [p \in Pages |-> <<>>]
    /\ request' = [p \in Pages |-> IF request[p].stage = "saved" THEN NoRequest ELSE request[p]]
    /\ UNCHANGED <<due, room, pageVars>>

ServerActs ==
    \/ Change \/ Tell
    \/ SimulationDay \/ SimulationEnds \/ SimulationFails \/ CloserChecks
    \/ PriceChanges \/ HalfSecondPasses \/ WaitEnds \/ ThrottleSends

PageActs(p) ==
    \/ Connect(p) \/ Disconnect(p) \/ Receive(p)
    \/ ReadHandled(p) \/ ReadLands(p) \/ ReadFails(p) \/ LookAgain(p)
    \/ Send(p) \/ RequestSaved(p) \/ RequestTold(p) \/ AnswerLands(p) \/ RequestFails(p)

Next == ServerActs \/ ServerRestarts \/ \E p \in Pages : PageActs(p)

Spec == Init /\ [][Next]_vars
=============================================================================
