--------------------------- MODULE PageProperties ----------------------------
(***************************************************************************)
(* What an open page promises: what it shows is what the server has, or it *)
(* is about to be read again.                                              *)
(***************************************************************************)
EXTENDS WorkshopPage

\* The types of the variables.
TypeOK ==
    /\ server \in Session /\ due \in BOOLEAN /\ room \in Nat /\ owed \in Nat
    /\ reported \in [day: 0..MaxDay, current: BOOLEAN]
    /\ throttle \in [recent: BOOLEAN, waiting: BOOLEAN, unsent: BOOLEAN]
    /\ socket \in [Pages -> {"up", "down"}]
    /\ inbox \in [Pages -> Seq(Message)]
    /\ shows \in [Pages -> {"session", "console", "prices"}]
    /\ view \in [Pages -> Entry(Nat \cup Session)]
    /\ \A p \in Pages : view[p] \in Entry(IF shows[p] = "prices" THEN Nat ELSE Session)
    /\ request \in [Pages -> Requests]
    /\ budget \in [changes: Nat, prices: Nat, failures: Nat, restarts: Nat]

\* Nothing on its way to p, whose cached entry is up to date as far as p knows.
AtRest(p) ==
    /\ socket[p] = "up" /\ inbox[p] = <<>>
    /\ view[p].fetch = "idle" /\ ~view[p].stale

\* The server has nothing to tell of the session.
ServerAtRest ==
    /\ owed = 0 /\ ~due /\ reported = NotReported
    /\ \A p \in Pages : request[p].stage # "saved"

\* A player's page at rest shows the session: no change is lost between the read the
\* page makes, the messages and the reads they start over, a socket that drops, a
\* server that restarts, and progress sent without a read (useWorkshopSocket).
PageShowsSession ==
    ServerAtRest =>
      \A p \in Pages :
         AtRest(p) /\ shows[p] = "session" /\ ~view[p].missed => view[p].data = server

\* A page at rest shows the room's prices, although changes close to each other share
\* one message (_Throttle).
PageShowsPrices ==
    ~throttle.waiting /\ ~throttle.unsent =>
      \A p \in Pages :
         AtRest(p) /\ shows[p] = "prices" /\ ~view[p].missed => view[p].data = room

Version(p, entry) == IF shows[p] = "prices" THEN entry.data ELSE entry.data.version

\* What a player's page shows never goes back to an older session or older prices.
NeverGoesBack ==
    [][\A p \in Pages :
         shows[p] # "console" /\ view[p].data # NoData => Version(p, view'[p]) >= Version(p, view[p])]_vars

(***************************************************************************)
(* Liveness: the server's tasks run, sockets reconnect on their own and    *)
(* what is sent arrives.                                                   *)
(***************************************************************************)
PageFairness ==
    /\ WF_vars(Tell) /\ WF_vars(CloserChecks) /\ WF_vars(SimulationDay) /\ WF_vars(SimulationEnds)
    /\ WF_vars(HalfSecondPasses) /\ WF_vars(WaitEnds) /\ WF_vars(ThrottleSends)
    /\ \A p \in Pages : /\ WF_vars(Connect(p)) /\ WF_vars(Receive(p))
                        /\ WF_vars(ReadHandled(p)) /\ WF_vars(ReadLands(p))
                        /\ WF_vars(RequestSaved(p)) /\ WF_vars(RequestTold(p))
                        /\ WF_vars(AnswerLands(p))

PageSpec == Spec /\ PageFairness

\* A player's page shows what the server has in the end, unless a read of it failed
\* for good.
PageCatchesUp ==
    \A p \in Pages :
       []<>(shows[p] = "console" \/ view[p].stale \/ view[p].missed \/ view[p].data = Current(p))
=============================================================================
