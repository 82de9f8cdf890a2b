------------------------------ MODULE TickPage -------------------------------
(***************************************************************************)
(* A query of the game that is read again on every tick, as long as the    *)
(* page uses it: the player's construction projects.  The components that  *)
(* use it come and go, register its key for ticks as they mount, and       *)
(* unregister it as they unmount.  The server names the query itself when   *)
(* the player changes a project, and answers each change with the whole    *)
(* list, which replaces the cached one.                                    *)
(*                                                                         *)
(* The list is its version, which every tick and every change moves on.    *)
(***************************************************************************)
EXTENDS Naturals, Sequences, QueryCache

CONSTANTS
    Components,   \* that use the query
    Orders,       \* bound: the changes the player makes, each by a name of its own
    MaxTicks,     \* bound: ticks
    MaxDrops      \* bound: times the socket drops

ASSUME TickAssumption ==
    /\ MaxTicks \in Nat /\ MaxDrops \in Nat
    /\ NoData \notin Nat

VARIABLES
    projects,      \* the list, as the server has it
    linked,        \* the page's socket is connected
    events,        \* on their way to it: "tick", or "invalidate" for the list
    users,         \* the components mounted
    registered,    \* the key is one of registeredTickQueries
    projectList,   \* the page's cache of the list
    orders,        \* order -> its request: [stage, answer]
    spans,         \* [ticks, drops] so far
    shared,        \* history: two components have used the query at once
    behind         \* history: a change was never told or was lost on its way, came while
                   \* nothing used the query, or had an older answer land over it; and no
                   \* read began since

tickVars == <<projects, linked, events, users, registered, projectList, orders, spans,
              shared, behind>>

NoOrder == [stage |-> "none", answer |-> NoData]

TickInit ==
    /\ projects = 0
    /\ linked = TRUE
    /\ events = <<>>
    /\ users = {}
    /\ registered = FALSE
    /\ projectList = Empty
    /\ orders = [o \in Orders |-> NoOrder]
    /\ spans = [ticks |-> 0, drops |-> 0]
    /\ shared = FALSE /\ behind = FALSE

\* The server's events come in the order they were sent, to a page that is connected.
Sent(event) ==
    /\ events' = IF linked THEN Append(events, event) ELSE events
    /\ behind' = (behind \/ ~linked)

\* The projects progress.
Tick ==
    /\ spans.ticks < MaxTicks
    /\ spans' = [spans EXCEPT !.ticks = @ + 1]
    /\ projects' = projects + 1
    /\ Sent("tick")
    /\ UNCHANGED <<linked, users, registered, projectList, orders, shared>>

-----------------------------------------------------------------------------
\* A query that comes into use is read if it is known to be out of date, and may be if
\* it has only grown old.
Mounted(entry) ==
    IF entry.data = NoData \/ entry.stale THEN {Read(entry)} ELSE {entry, Read(entry)}

Looked(entry) ==
    /\ projectList' = entry
    /\ behind' = (behind /\ entry = projectList)

\* A slip: the components that mount register before those that unmount unregister.
CommitRegisteringFirst(new) ==
    LET comes  == new \ users
        leaves == users \ new
    IN  /\ comes \cup leaves # {}
        /\ users' = new
        /\ registered' = (leaves = {})
        /\ shared' = (shared \/ \E c, d \in new : c # d)
        /\ IF comes = {} THEN UNCHANGED <<projectList, behind>>
           ELSE \E entry \in Mounted(projectList) : Looked(entry)
        /\ UNCHANGED <<projects, linked, events, orders, spans>>

\* The page is drawn anew with these components.  Those that unmount unregister the key
\* and those that mount register it, in this order.
Commit(new) ==
    LET comes  == new \ users
        leaves == users \ new
    IN  /\ comes \cup leaves # {}
        /\ users' = new
        /\ registered' = (comes # {} \/ (registered /\ leaves = {}))
        /\ shared' = (shared \/ \E c, d \in new : c # d)
        /\ IF comes = {} THEN UNCHANGED <<projectList, behind>>
           ELSE \E entry \in Mounted(projectList) : Looked(entry)
        /\ UNCHANGED <<projects, linked, events, orders, spans>>

\* The visitor comes back to a page whose list is out of date, or has grown old.
LookAtProjects ==
    /\ users # {} /\ projectList.fetch = "idle"
    /\ Looked(Read(projectList))
    /\ UNCHANGED <<projects, linked, events, users, registered, orders, spans, shared>>

\* invalidateQueries reads a query again only if something uses it.  A read under way
\* goes on if nothing does.
ReadAgain ==
    IF users = {}
      THEN /\ projectList' = [projectList EXCEPT
                 !.stale = TRUE, !.missed = @ \/ projectList.fetch = "answered"]
           /\ UNCHANGED behind
      ELSE projectList' = Invalidate(projectList) /\ behind' = FALSE

Hears(event) ==
    /\ events # <<>> /\ Head(events) = event
    /\ events' = Tail(events)
    /\ UNCHANGED <<projects, linked, users, registered, orders, spans, shared>>

\* Only the queries registered are out of date now.
TickHeard ==
    /\ Hears("tick")
    /\ IF registered THEN ReadAgain
       ELSE behind' = (behind \/ users = {}) /\ UNCHANGED projectList

InvalidateHeard == Hears("invalidate") /\ ReadAgain

\* The hooks read nothing again when the socket is back.
Relinked ==
    /\ ~linked /\ linked' = TRUE
    /\ UNCHANGED <<projects, events, users, registered, projectList, orders, spans, shared, behind>>

LinkDrops ==
    /\ linked /\ linked' = FALSE
    /\ spans.drops < MaxDrops
    /\ spans' = [spans EXCEPT !.drops = @ + 1]
    /\ events' = <<>>
    /\ behind' = (behind \/ events # <<>>)
    /\ UNCHANGED <<projects, users, registered, projectList, orders, shared>>

ProjectsRead ==
    /\ \/ projectList.fetch = "asked" /\ projectList' = Answer(projectList, projects)
       \/ projectList.fetch = "answered" /\ projectList' = Land(projectList)
       \/ projectList.fetch # "idle" /\ projectList' = Fail(projectList)
    /\ UNCHANGED <<projects, linked, events, users, registered, orders, spans, shared, behind>>

-----------------------------------------------------------------------------
\* A project is queued, cancelled, paused, resumed or moved.  Nothing has one request
\* wait for another, and none is retried.
Order(o) ==
    /\ orders[o].stage = "none" /\ users # {}
    /\ orders' = [orders EXCEPT ![o].stage = "sent"]
    /\ UNCHANGED <<projects, linked, events, users, registered, projectList, spans, shared, behind>>

\* A project queued after a paused one that it depends on cannot be started, and the
\* pages are told only of those that can.
NotTold == behind' = TRUE /\ UNCHANGED events

\* The server changes the list, tells the player's pages, and answers with it, while no
\* tick or other change runs; or refuses.
OrderHandled(o) ==
    /\ orders[o].stage = "sent"
    /\ \/ /\ projects' = projects + 1
          /\ Sent("invalidate") \/ NotTold
          /\ orders' = [orders EXCEPT ![o] = [stage |-> "answered", answer |-> projects']]
       \/ /\ orders' = [orders EXCEPT ![o].stage = "done"]
          /\ UNCHANGED <<projects, events, behind>>
    /\ UNCHANGED <<linked, users, registered, projectList, spans, shared>>

\* The answer replaces the list, whatever was read since, unless it is lost.
OrderLands(o) ==
    /\ orders[o].stage = "answered"
    /\ orders' = [orders EXCEPT ![o] = [stage |-> "done", answer |-> NoData]]
    /\ \/ /\ projectList' = Put(projectList, orders[o].answer)
          /\ behind' = (orders[o].answer # projects)
       \/ UNCHANGED <<projectList, behind>>
    /\ UNCHANGED <<projects, linked, events, users, registered, spans, shared>>

TickNext ==
    \/ Tick \/ TickHeard \/ InvalidateHeard
    \/ \E new \in SUBSET Components : Commit(new)
    \/ LookAtProjects \/ ProjectsRead
    \/ Relinked \/ LinkDrops
    \/ \E o \in Orders : Order(o) \/ OrderHandled(o) \/ OrderLands(o)
=============================================================================
