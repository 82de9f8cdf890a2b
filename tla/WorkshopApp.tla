---------------------------- MODULE WorkshopApp -----------------------------
(***************************************************************************)
(* The app around a session: one background task, the closer, looks once a *)
(* second for a phase whose time has run out, buys the selections or       *)
(* starts the simulation; a task of its own then simulates each Trading    *)
(* period and settles it, retrying.  Every call waits for the session's    *)
(* lock on a worker thread, so requests come in between any two of them.   *)
(***************************************************************************)
EXTENDS SessionProperties

CONSTANT MaxRestarts   \* bound: how often the process stops and starts again

VARIABLES
    closer,    \* what the closer does next
    tasks,     \* tasks[i] simulates and settles jobs[i]
    restarts   \* how often the process has restarted

appVars == <<session, file, settlement, jobs, records, timeUp, closer, tasks, restarts>>

Simulating         == [stage |-> "simulating"]
Failed             == [stage |-> "failed"]
Finishing(outcome) == [stage |-> "finishing", outcome |-> outcome]

AppInit == Init /\ closer = "waiting" /\ tasks = <<>> /\ restarts = 0

\* A second has passed, or the facilitator closed a window.
CloserWakes ==
    /\ closer = "waiting"
    /\ closer' = "buying"
    /\ UNCHANGED <<vars, tasks, restarts>>

\* A failed save is logged and ends this round of checks: the next one retries.
CloserBuys ==
    /\ closer = "buying"
    /\ \/ BuySelections /\ closer' = IF session' = session THEN "waiting" ELSE "starting"
       \/ ~PurchaseDue /\ closer' = "starting" /\ UNCHANGED vars
    /\ UNCHANGED <<tasks, restarts>>

CloserStarts ==
    /\ closer = "starting"
    /\ closer' = "waiting"
    /\ \/ StartSettlement /\ tasks' = Append(tasks, Simulating)
       \/ ~SettlementDue /\ UNCHANGED <<vars, tasks>>
    /\ UNCHANGED restarts

\* run_settlement returns what it found, or raises.
TaskSimulates(i) ==
    /\ tasks[i] = Simulating
    /\ \E stage \in {Finishing(outcome) : outcome \in Outcomes(jobs[i])} \cup {Failed} :
          tasks' = [tasks EXCEPT ![i] = stage]
    /\ UNCHANGED <<vars, closer, restarts>>

\* A slip: a task whose simulation failed just ends.
TaskEnds(i) ==
    /\ tasks[i] = Failed
    /\ tasks' = RemoveAt(tasks, i)
    /\ UNCHANGED <<vars, closer, restarts>>

TaskAbandons(i) ==
    /\ tasks[i] = Failed
    /\ AbandonSettlement(i)
    /\ tasks' = RemoveAt(tasks, i)
    /\ UNCHANGED <<closer, restarts>>

\* Retried with the same outcome until it is saved.
TaskFinishes(i) ==
    /\ tasks[i].stage = "finishing"
    /\ FinishSettlement(i, tasks[i].outcome)
    /\ tasks' = IF session' = session THEN tasks ELSE RemoveAt(tasks, i)
    /\ UNCHANGED <<closer, restarts>>

Closer == CloserWakes \/ CloserBuys \/ CloserStarts
Task   == \E i \in DOMAIN tasks : TaskSimulates(i) \/ TaskAbandons(i) \/ TaskFinishes(i)

Request ==
    /\ (\E p \in Admitted : Join(p)) \/ PlayerActs \/ FacilitatorActs
    /\ UNCHANGED <<closer, tasks, restarts>>

AppRestart ==
    /\ restarts < MaxRestarts
    /\ restarts' = restarts + 1
    /\ Restart
    /\ closer' = "waiting"
    /\ tasks' = <<>>

AppNext ==
    \/ Closer
    \/ Task
    \/ Request
    \/ TimeRunsOut /\ UNCHANGED <<closer, tasks, restarts>>
    \/ AppRestart

\* The event loop keeps running the closer and the tasks, and what is retried
\* forever works in the end: a disk is not full and a simulation does not fail
\* every time.  The process does not restart forever (MaxRestarts).  Nothing is
\* assumed of players, the facilitator or the clock.
Bought    == CloserBuys /\ session' # session
Simulated == \E i \in DOMAIN tasks : TaskSimulates(i) /\ tasks'[i] # Failed
Saved     == \E i \in DOMAIN tasks : TaskFinishes(i) /\ session' # session

AppFairness ==
    /\ WF_appVars(Closer)
    /\ WF_appVars(Task)
    /\ SF_appVars(Bought)
    /\ SF_appVars(Simulated)
    /\ SF_appVars(Saved)

AppSpec == AppInit /\ [][AppNext]_appVars /\ AppFairness

-----------------------------------------------------------------------------
\* A Trading period whose window has closed is settled, whatever fails meanwhile and
\* wherever the process restarts, and without the facilitator doing anything.
WindowsAreSettled ==
    \A c \in TradingPeriods(MaxRounds) :
       (Here = c /\ ~PhaseOpen) ~> (session.settledPeriod = c)

\* What players selected is theirs once the Investment phase has closed, without the
\* facilitator advancing, or the phase is left, which buys it too.
SelectionsAreBought ==
    (IsInvestment(Here) /\ ~PhaseOpen)
      ~> (\A p \in Players : session.players[p].selection = NothingSelected)

\* Whatever a phase left to be done when it closed is done, by the background tasks alone.
ClosedPhasesAreDone == WindowsAreSettled /\ SelectionsAreBought
=============================================================================
