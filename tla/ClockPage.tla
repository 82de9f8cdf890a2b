------------------------------ MODULE ClockPage ------------------------------
(***************************************************************************)
(* The lifecycle of a run as an open page of the game follows it.  The     *)
(* page reads the run's boundaries once, closes its controls by its own    *)
(* clock when the run freezes or ends, and reads the boundaries again only *)
(* when the server refuses an action as frozen.                            *)
(*                                                                         *)
(* Page and server share one clock, in units of which MaxTimeout is the    *)
(* longest the browser can be told to wait.                                *)
(***************************************************************************)
EXTENDS Naturals, FiniteSets, QueryCache

CONSTANTS
    EndOfTime,      \* bound: the last moment
    MaxTimeout,     \* 2^31 - 1 ms
    MaxMoves,       \* bound: times the admin moves a boundary
    MaxActs         \* bound: game actions.  Each one refused begins the read again

ASSUME ClockAssumption ==
    /\ EndOfTime \in Nat /\ MaxTimeout \in Nat \ {0} /\ MaxMoves \in Nat
    /\ MaxActs \in Nat

Never == EndOfTime + 1   \* a boundary the run does not have

VARIABLES
    time,
    run,        \* the run's boundaries: [starts_at, freeze_at, ended_at]
    moves,      \* times they were moved
    engine,     \* the page's cache of them
    seenNow,    \* the time the page last looked at its clock
    timer,      \* when it is to look again, or Never
    acts,       \* game actions so far
    act,        \* a game action under way: "none", "sent" or "refused"
    refused     \* history: an action was refused, and the boundaries not moved since

clockVars == <<time, run, moves, engine, seenNow, timer, acts, act, refused>>

\* In order, where the run has them.
Boundaries ==
    {r \in [starts_at: 0 .. 1, freeze_at: 1 .. Never, ended_at: 1 .. Never] :
        r.freeze_at # Never => r.starts_at <= r.freeze_at /\ r.freeze_at <= r.ended_at}

derivePhase(r, now) ==
    CASE now >= r.ended_at  -> "ended"
      [] now < r.ended_at /\ now >= r.freeze_at -> "freeze"
      [] now < r.ended_at /\ now < r.freeze_at /\ now >= r.starts_at -> "active"
      [] OTHER -> "announced"

isReadOnlyPhase(phase) == phase \in {"freeze", "ended"}

\* When the controls close.
readOnlyFrom(r) == IF r.freeze_at # Never THEN r.freeze_at ELSE r.ended_at

ClosesAt(entry) == IF entry.data = NoData THEN Never ELSE readOnlyFrom(entry.data)

\* A slip: a longer wait than the browser can be told ends at once, and is not begun again.
ArmedOnce(closesAt, seen, now) ==
    IF closesAt = Never \/ seen >= closesAt \/ closesAt > now + MaxTimeout THEN Never ELSE closesAt

\* The timer set whenever the page is drawn with another boundary or another time.
Armed(closesAt, seen, now) ==
    IF closesAt = Never \/ seen >= closesAt THEN Never
    ELSE IF closesAt <= now THEN now
    ELSE IF closesAt - now <= MaxTimeout THEN closesAt ELSE now + MaxTimeout

\* useIsReadOnly
IsReadOnly == ClosesAt(engine) # Never /\ seenNow >= ClosesAt(engine)

\* The entry changes, and with it the timer if the boundary did.
Engine(entry) ==
    /\ engine' = entry
    /\ timer' = IF ClosesAt(entry) = ClosesAt(engine) THEN timer
                ELSE Armed(ClosesAt(entry), seenNow, time)

ClockInit ==
    /\ time = 0
    /\ run \in Boundaries
    /\ moves = 0
    /\ engine = Read(Empty)
    /\ seenNow = 0
    /\ timer = Never
    /\ act = "none" /\ acts = 0
    /\ refused = FALSE

\* A timer that is due is not overslept.
TimePasses ==
    /\ time < EndOfTime /\ time < timer
    /\ time' = time + 1
    /\ UNCHANGED <<run, moves, engine, seenNow, timer, acts, act, refused>>

TimerFires ==
    /\ timer # Never /\ timer <= time
    /\ seenNow' = time
    /\ timer' = Armed(ClosesAt(engine), time, time)
    /\ UNCHANGED <<time, run, moves, engine, acts, act, refused>>

\* The admin moves a boundary: the server takes it from the next check.
BoundaryMoves ==
    /\ moves < MaxMoves
    /\ run' \in Boundaries \ {run}
    /\ run'.starts_at = run.starts_at
    /\ moves' = moves + 1
    /\ refused' = FALSE
    /\ UNCHANGED <<time, engine, seenNow, timer, acts, act>>

\* The controls of a game action are open.
Act ==
    /\ act = "none" /\ ~IsReadOnly
    /\ acts < MaxActs
    /\ acts' = acts + 1
    /\ act' = "sent"
    /\ UNCHANGED <<time, run, moves, engine, seenNow, timer, refused>>

\* reject_when_frozen: as long as the run is not frozen or over, the action is taken.
ActHandled ==
    /\ act = "sent"
    /\ IF isReadOnlyPhase(derivePhase(run, time))
         THEN act' = "refused" /\ refused' = TRUE
         ELSE act' = "none" /\ UNCHANGED refused
    /\ UNCHANGED <<time, run, moves, engine, seenNow, timer, acts>>

\* A slip: the refusal is only reported.
RefusalReported ==
    /\ act = "refused"
    /\ act' = "none"
    /\ UNCHANGED <<time, run, moves, engine, seenNow, timer, acts, refused>>

\* onMutationError: the page's copy is out of date, and read again.
RefusalLands ==
    /\ act = "refused"
    /\ act' = "none"
    /\ Engine(Invalidate(engine))
    /\ UNCHANGED <<time, run, moves, seenNow, acts, refused>>

EngineRead ==
    /\ \/ engine.fetch = "asked" /\ Engine(Answer(engine, run))
       \/ engine.fetch = "answered" /\ Engine(Land(engine))
    /\ UNCHANGED <<time, run, moves, seenNow, acts, act, refused>>

ClockNext ==
    \/ TimePasses \/ TimerFires \/ BoundaryMoves
    \/ Act \/ ActHandled \/ RefusalLands \/ EngineRead
=============================================================================
