----------------------------- MODULE RoundPlans -----------------------------
(***************************************************************************)
(* Each Round's plan: its levers, which every later Round inherits when    *)
(* they change, and its planned events; and the vote on a carbon tax that  *)
(* one lever starts.  Pure operators: the session applies them.            *)
(*                                                                         *)
(* A catalog entry stands for one pick of the facilitator: a vignette with *)
(* its severity and, for a fuel shock, its fuel.                           *)
(***************************************************************************)
EXTENDS Sequences, FiniteSets, SequencesExt, Checkpoints

CONSTANTS
    Picks,      \* the picks of the event catalog
    Event,      \* pick -> [category, boundary, seasons, kind, target, percent]
    LeverChanges  \* the changes a facilitator may ask for, as partial lever records

ASSUME EventAssumption ==
    \A e \in Picks : /\ Event[e].boundary \in {"round", "trading_period"}
                     /\ Event[e].seasons \subseteq Seasons
                     /\ Event[e].percent \in Nat

RoundEvent == 0   \* the season of an event planned for the Round itself

Levers == [format: {"representative_week", "full_season"},
           storage: {"off", "batteries", "all"},
           procurement: {"automatic", "manual"},
           vote: BOOLEAN]

DefaultLevers == [format |-> "representative_week", storage |-> "batteries",
                  procurement |-> "automatic", vote |-> FALSE]

\* A change gives some of the levers a value that they can have.
ASSUME LeverChangesAssumption ==
    \A changes \in LeverChanges :
       \E l \in Levers : changes = [name \in DOMAIN changes \cap DOMAIN l |-> l[name]]

\* Every storage type needs the full-season format.
ValidLevers(l) == l.storage = "all" => l.format = "full_season"

DefaultPlans(n) == [r \in 1..n |-> [levers |-> DefaultLevers, events |-> <<>>]]

(***************************************************************************)
(* Levers.  A change names some levers; those that differ from Round r's   *)
(* are carried to every later Round, and nothing else changes.             *)
(***************************************************************************)
Differing(plans, r, changes) ==
    { name \in DOMAIN changes : plans[r].levers[name] # changes[name] }

Carry(levers, changes, names) ==
    [name \in DOMAIN levers |-> IF name \in names THEN changes[name] ELSE levers[name]]

WithLevers(plans, r, changes) ==
    LET names == Differing(plans, r, changes)
    IN  [q \in DOMAIN plans |->
           IF q < r THEN plans[q]
           ELSE [plans[q] EXCEPT !.levers = Carry(@, changes, names)]]

\* with_levers refuses a change that leaves a Round it reaches invalid.
LeversAllowed(plans, r, changes) ==
    Differing(plans, r, changes) = {} \/
    \A q \in r..Len(plans) : ValidLevers(WithLevers(plans, r, changes)[q].levers)

(***************************************************************************)
(* Events.  One per slot: a category and boundary, and for a seasonal      *)
(* event a season.                                                         *)
(***************************************************************************)
ValidPlanned(p) ==
    IF Event[p.event].boundary = "round"
      THEN p.season = RoundEvent
      ELSE p.season \in Event[p.event].seasons

Slot(p) == <<Event[p.event].category, Event[p.event].boundary, p.season>>

\* The elements of seq at these places, in their order.
Only(seq, places) ==
    LET upto[n \in 0..Len(seq)] ==
          IF n = 0 THEN <<>>
          ELSE IF n \in places THEN Append(upto[n - 1], seq[n]) ELSE upto[n - 1]
    IN  upto[Len(seq)]

WithEvent(plan, p) ==
    LET others == { i \in DOMAIN plan.events : Slot(plan.events[i]) # Slot(p) }
    IN  [plan EXCEPT !.events = Append(Only(@, others), p)]

WithoutEvent(plan, p) ==
    LET others == { i \in DOMAIN plan.events : plan.events[i] # p }
    IN  [plan EXCEPT !.events = Only(@, others)]

\* What the plans' Round r fires at its Investment phase (RoundEvent) or season s.
Firing(plans, r, s) ==
    LET planned == plans[r].events
        due     == Only(planned, { i \in DOMAIN planned : planned[i].season = s })
    IN  [i \in DOMAIN due |-> [event |-> due[i].event, round |-> r, season |-> s]]

(***************************************************************************)
(* Votes.  outcomes is the sequence of counted votes, [round, passed].     *)
(***************************************************************************)
Passes(ballots) ==
    LET Cast(choice) == Cardinality({ a \in DOMAIN ballots : ballots[a] = choice })
    IN  Cast("yes") > Cast("no")

NoRound == 0

CarbonTaxSince(outcomes) ==
    LET passed == { i \in DOMAIN outcomes : outcomes[i].passed }
    IN  IF passed = {} THEN NoRound
        ELSE outcomes[CHOOSE i \in passed : \A j \in passed : i <= j].round

\* A slip: the lever alone decides.
VoteHeldByLever(plans, r, outcomes) == plans[r].levers.vote

VoteHeld(plans, r, outcomes) ==
    LET since == CarbonTaxSince(outcomes)
    IN  plans[r].levers.vote /\ (since = NoRound \/ since >= r)

\* Once Round r's vote is counted, no later Round's lever stays on.
VoteLeverOff(plans, r) ==
    [q \in DOMAIN plans |-> IF q <= r THEN plans[q]
                            ELSE [plans[q] EXCEPT !.levers.vote = FALSE]]
=============================================================================
