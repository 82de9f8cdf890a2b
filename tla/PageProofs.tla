----------------------------- MODULE PageProofs ------------------------------
(***************************************************************************)
(* Proofs about the open pages, for any pages, days and budgets.           *)
(*                                                                         *)
(* A page at rest shows what the server has because of these facts, which  *)
(* hold at every step: a socket that is down has nothing on its way; a     *)
(* simulation is reported from its start until the closer told its end;    *)
(* progress on its way is followed by a message to read the session, or    *)
(* the period is still reported; only consoles change the session; and a   *)
(* page that was told everything is about to read, or reads or shows what  *)
(* the server has.                                                         *)
(***************************************************************************)
EXTENDS PageProperties, TLAPS

(***************************************************************************)
(* The cache.  Of(kind) is what a page of that kind shows.                 *)
(***************************************************************************)
Of(kind) == IF kind = "prices" THEN Nat ELSE Session

LEMMA EntryTyped ==
    ASSUME NEW V, NEW e \in Entry(V), NEW v \in V
    PROVE  /\ Read(e) \in Entry(V) /\ Invalidate(e) \in Entry(V)
           /\ Answer(e, v) \in Entry(V) /\ Fail(e) \in Entry(V) /\ Put(e, v) \in Entry(V)
           /\ Land(e) \in Entry(V)
BY DEF Entry, Read, Asking, Invalidate, Answer, Land, Fail, Put

\* The entry is about to read, or reads or shows v, as far as it can tell.
Fresh(e, v) ==
    \/ e.missed
    \/ e.fetch = "asked"
    \/ e.fetch = "answered" /\ e.got = v
    \/ e.fetch = "idle" /\ (e.stale \/ e.data = v)

LEMMA FreshAfter ==
    ASSUME NEW V, NEW e \in Entry(V), NEW v \in V
    PROVE  /\ Fresh(Invalidate(e), v)
           /\ Fresh(Answer(e, v), v)
           /\ Fresh(Fail(e), v)
           /\ e.fetch = "idle" => Fresh(Read(e), v)
           /\ e.fetch = "answered" /\ Fresh(e, v) => Fresh(Land(e), v)
BY DEF Entry, Fresh, Read, Asking, Invalidate, Answer, Land, Fail

(***************************************************************************)
(* The messages on their way to a page.                                    *)
(***************************************************************************)
\* One of them makes a page of that kind read again.
NamedWaits(box, kind) ==
    \E i \in 1..Len(box) :
       box[i].names = "session" \/ (box[i].names = "prices" /\ kind = "prices")

\* After the last progress comes a message to read the session.
ProgressFollowed(box) ==
    \A i \in 1..Len(box) :
       box[i].names = "progress" => \E j \in (i + 1)..Len(box) : box[j].names = "session"

LEMMA AppendedWaits ==
    ASSUME NEW box \in Seq(Message), NEW m \in Message, NEW kind
    PROVE  /\ NamedWaits(box, kind) => NamedWaits(Append(box, m), kind)
           /\ m.names = "session" => NamedWaits(Append(box, m), kind)
           /\ m.names = "prices" /\ kind = "prices" => NamedWaits(Append(box, m), kind)
           /\ m.names = "session" => ProgressFollowed(Append(box, m))
           /\ m.names = "prices" /\ ProgressFollowed(box) => ProgressFollowed(Append(box, m))
<1> DEFINE more == Append(box, m)
<1>1. /\ Len(box) \in Nat /\ Len(more) = Len(box) + 1
      /\ more[Len(box) + 1] = m
      /\ \A i \in 1..Len(box) : more[i] = box[i]
  OBVIOUS
<1> HIDE DEF more
<1>2. NamedWaits(box, kind) => NamedWaits(more, kind)
  BY <1>1 DEF NamedWaits
<1>3. \/ m.names = "session"
      \/ m.names = "prices" /\ kind = "prices"
      => NamedWaits(more, kind)
  BY <1>1 DEF NamedWaits
<1>4. m.names = "session" => ProgressFollowed(more)
  BY <1>1 DEF ProgressFollowed
<1>5. m.names = "prices" /\ ProgressFollowed(box) => ProgressFollowed(more)
  BY <1>1 DEF ProgressFollowed
<1> QED
  BY <1>2, <1>3, <1>4, <1>5 DEF more

LEMMA TakenWaits ==
    ASSUME NEW box \in Seq(Message), box # <<>>, NEW kind
    PROVE  /\ Head(box) \in Message /\ Tail(box) \in Seq(Message)
           /\ NamedWaits(box, kind) =>
                \/ Head(box).names = "session"
                \/ Head(box).names = "prices" /\ kind = "prices"
                \/ NamedWaits(Tail(box), kind)
           /\ ProgressFollowed(box) => ProgressFollowed(Tail(box))
           /\ ProgressFollowed(box) /\ Head(box).names = "progress" => NamedWaits(Tail(box), kind)
<1> DEFINE rest == Tail(box)
<1>1. /\ Len(box) \in Nat \ {0} /\ Len(rest) = Len(box) - 1 /\ box[1] = Head(box)
      /\ Head(box) \in Message /\ rest \in Seq(Message)
      /\ \A i \in 1..Len(rest) : rest[i] = box[i + 1]
  OBVIOUS
<1> HIDE DEF rest
<1>2. \A j \in 2..Len(box) : j - 1 \in 1..Len(rest) /\ rest[j - 1] = box[j]
  BY <1>1
<1>3. NamedWaits(box, kind) =>
                \/ Head(box).names = "session"
                \/ Head(box).names = "prices" /\ kind = "prices"
                \/ NamedWaits(rest, kind)
  BY <1>1, <1>2 DEF NamedWaits
<1>4. ProgressFollowed(box) => ProgressFollowed(rest)
  <2> SUFFICES ASSUME ProgressFollowed(box), NEW i \in 1..Len(rest), rest[i].names = "progress"
               PROVE  \E j \in (i + 1)..Len(rest) : rest[j].names = "session"
    BY DEF ProgressFollowed
  <2>1. PICK j \in (i + 2)..Len(box) : box[j].names = "session"
    BY <1>1 DEF ProgressFollowed
  <2> QED
    BY <1>1, <1>2, <2>1
<1>5. ProgressFollowed(box) /\ Head(box).names = "progress" => NamedWaits(rest, kind)
  BY <1>1, <1>2 DEF ProgressFollowed, NamedWaits
<1> QED
  BY <1>1, <1>3, <1>4, <1>5 DEF rest

(***************************************************************************)
(* The type of the variables.                                              *)
(***************************************************************************)
\* What one message does to a page's entry keeps it an entry.
LEMMA ReceivedTyped ==
    ASSUME NEW p \in Pages, TypeOK, Receive(p)
    PROVE  view'[p] \in Entry(Of(shows[p]))
<1> DEFINE m == Head(inbox[p])
           Progressed(session) == WithSettlementProgress(session, m.day)
<1>1. m \in Message
  BY TakenWaits DEF TypeOK, Receive
<1>2. view[p] \in Entry(Of(shows[p])) /\ view \in [Pages -> Entry(Nat \cup Session)]
  BY DEF TypeOK, Of
<1>3. view'[p] = IF Named(m, p) THEN Invalidate(view[p])
                 ELSE IF m.names = "progress" /\ shows[p] # "prices" THEN Update(view[p], Progressed)
                 ELSE view[p]
  BY <1>2 DEF Receive
<1>4. Invalidate(view[p]) \in Entry(Of(shows[p]))
  BY <1>2 DEF Entry, Invalidate, Read, Asking
<1>5. ASSUME shows[p] # "prices"
      PROVE  Update(view[p], Progressed) \in Entry(Of(shows[p]))
  <2>1. view[p].data \in Session =>
          [view[p].data EXCEPT !.day = m.day] \in Session
    BY <1>1 DEF Session, Message
  <2>2. view[p] \in Entry(Session)
    BY <1>2, <1>5 DEF Of
  <2>3. view[p].data # NoData => Put(view[p], Progressed(view[p].data)) \in Entry(Session)
    BY <2>1, <2>2 DEF Entry, Put, WithSettlementProgress
  <2>4. Update(view[p], Progressed) =
          IF view[p].data = NoData THEN view[p]
          ELSE [Put(view[p], Progressed(view[p].data)) EXCEPT !.missed = @ \/ view[p].missed]
    BY DEF Update
  <2>5. CASE view[p].data = NoData
    BY <1>5, <2>2, <2>4, <2>5 DEF Of
  <2>6. CASE view[p].data # NoData
    <3> DEFINE put == Put(view[p], Progressed(view[p].data))
    <3>1. put \in Entry(Session)
      BY <2>3, <2>6
    <3> HIDE DEF put
    <3>2. [put EXCEPT !.missed = @ \/ view[p].missed] \in Entry(Session)
      BY <3>1 DEF Entry
    <3> QED
      BY <1>5, <2>4, <2>6, <3>2 DEF Of, put
  <2> QED
    BY <2>5, <2>6
<1> QED
  BY <1>2, <1>3, <1>4, <1>5

\* Changes of the session are made from consoles.
OnlyConsoles == \A p \in Pages : request[p].stage # "none" => shows[p] = "console"

LEMMA EmittedTyped ==
    ASSUME TypeOK, NEW m \in Message, Emit(m)
    PROVE  inbox' \in [Pages -> Seq(Message)]
BY DEF TypeOK, Emit

LEMMA MessagesTyped ==
    /\ Reread \in Message /\ RereadPrices \in Message
    /\ \A d \in 0..MaxDay : ProgressMade(d) \in Message
BY PageAssumption DEF Reread, RereadPrices, ProgressMade, Message

\* A page's entry changes to one of the same kind.
LEMMA ViewTyped ==
    ASSUME TypeOK, NEW p \in Pages, NEW e \in Entry(Of(shows[p])),
           view' = [view EXCEPT ![p] = e], shows' = shows
    PROVE  /\ view' \in [Pages -> Entry(Nat \cup Session)]
           /\ \A q \in Pages : view'[q] \in Entry(IF shows'[q] = "prices" THEN Nat ELSE Session)
<1>1. e \in Entry(Nat \cup Session)
  BY DEF Of, Entry
<1> QED
  BY <1>1 DEF TypeOK, Of

LEMMA SpendTyped ==
    ASSUME TypeOK, NEW what \in {"changes", "prices", "failures", "restarts"}, Spend(what)
    PROVE  budget' \in [changes: Nat, prices: Nat, failures: Nat, restarts: Nat]
<1> DEFINE B == [changes: Nat, prices: Nat, failures: Nat, restarts: Nat]
<1>1. budget \in B /\ budget[what] > 0 /\ budget' = [budget EXCEPT ![what] = @ - 1]
  BY DEF TypeOK, Spend
<1>2. budget[what] - 1 \in Nat
  BY <1>1
<1> QED
  BY <1>1, <1>2

LEMMA SaveTyped ==
    ASSUME TypeOK, SaveChange
    PROVE  /\ server' \in Session /\ due' \in BOOLEAN
           /\ budget' \in [changes: Nat, prices: Nat, failures: Nat, restarts: Nat]
<1>1. server \in Session /\ due \in BOOLEAN
  BY DEF TypeOK
<1>2. server' \in Session
  BY <1>1 DEF SaveChange, Session
<1>3. due' \in BOOLEAN
  BY <1>1 DEF SaveChange
<1> QED
  BY <1>2, <1>3, SpendTyped DEF SaveChange

LEMMA ServerTyped ==
    ASSUME TypeOK, ServerActs
    PROVE  TypeOK'
<1> USE DEF serverVars, pageVars
<1>1. server \in Session /\ MaxDay \in Nat \ {0}
  BY PageAssumption DEF TypeOK
<1>2. CASE Change
  <2>1. server' \in Session /\ due' \in BOOLEAN
        /\ budget' \in [changes: Nat, prices: Nat, failures: Nat, restarts: Nat]
    BY <1>2, SaveTyped DEF Change
  <2>2. owed' \in Nat
    BY <1>2 DEF TypeOK, Change
  <2> QED
    BY <1>2, <2>1, <2>2 DEF TypeOK, Change
<1>3. CASE Tell
  <2>1. inbox' \in [Pages -> Seq(Message)]
    BY <1>3, EmittedTyped, MessagesTyped DEF Tell
  <2>2. owed' \in Nat
    BY <1>3 DEF TypeOK, Tell
  <2> QED
    BY <1>3, <2>1, <2>2 DEF TypeOK, Tell
<1>4. CASE SimulationDay
  <2>1. server' \in Session
    BY <1>1, <1>4 DEF SimulationDay, Session
  <2> QED
    BY <1>4, <2>1 DEF TypeOK, SimulationDay
<1>5. CASE SimulationEnds
  <2>1. server' \in Session
    BY <1>1, <1>5 DEF SimulationEnds, Session
  <2> QED
    BY <1>5, <2>1 DEF TypeOK, SimulationEnds
<1>6. CASE SimulationFails
  <2>1. server' \in Session
    BY <1>1, <1>6 DEF SimulationFails, Session
  <2>2. budget' \in [changes: Nat, prices: Nat, failures: Nat, restarts: Nat]
    BY <1>6, SpendTyped DEF SimulationFails
  <2> QED
    BY <1>6, <2>1, <2>2 DEF TypeOK, SimulationFails
<1>7. CASE CloserChecks
  <2> DEFINE starts   == due /\ server.day = 0
             day      == IF starts THEN 1 ELSE server.day
             progress == IF day = 0 THEN NotReported ELSE Progress(day)
  <2>1. day \in 0..MaxDay
    BY <1>1 DEF Session
  <2>2. reported' \in [day: 0..MaxDay, current: BOOLEAN]
    BY <1>1, <1>7, <2>1 DEF CloserChecks, NotReported, Progress
  <2>3. server' \in Session
    BY <1>1, <1>7, <2>1 DEF CloserChecks, Session
  <2>4. inbox' \in [Pages -> Seq(Message)]
    <3>1. \/ UNCHANGED inbox
          \/ Emit(ProgressMade(day))
          \/ Emit(Reread)
      BY <1>7 DEF CloserChecks
    <3>2. CASE UNCHANGED inbox
      BY <3>2 DEF TypeOK
    <3>3. CASE Emit(ProgressMade(day))
      <4> HIDE DEF day
      <4> QED
        BY <2>1, <3>3, EmittedTyped, MessagesTyped
    <3>4. CASE Emit(Reread)
      BY <3>4, EmittedTyped, MessagesTyped
    <3> QED
      BY <3>1, <3>2, <3>3, <3>4
  <2> QED
    BY <1>7, <2>2, <2>3, <2>4 DEF TypeOK, CloserChecks
<1>8. CASE PriceChanges
  <2>1. budget' \in [changes: Nat, prices: Nat, failures: Nat, restarts: Nat]
    BY <1>8, SpendTyped DEF PriceChanges
  <2>2. room' \in Nat /\ throttle' \in [recent: BOOLEAN, waiting: BOOLEAN, unsent: BOOLEAN]
    <3>1. room \in Nat /\ throttle \in [recent: BOOLEAN, waiting: BOOLEAN, unsent: BOOLEAN]
      BY DEF TypeOK
    <3>2. room' \in Nat
      BY <1>8, <3>1 DEF PriceChanges
    <3>3. throttle' \in [recent: BOOLEAN, waiting: BOOLEAN, unsent: BOOLEAN]
      BY <1>8, <3>1 DEF PriceChanges
    <3> QED
      BY <3>2, <3>3
  <2> QED
    BY <1>8, <2>1, <2>2 DEF TypeOK, PriceChanges
<1>9. CASE HalfSecondPasses
  BY <1>9 DEF TypeOK, HalfSecondPasses
<1>10. CASE WaitEnds
  BY <1>10 DEF TypeOK, WaitEnds
<1>11. CASE ThrottleSends
  <2>1. inbox' \in [Pages -> Seq(Message)]
    BY <1>11, EmittedTyped, MessagesTyped DEF ThrottleSends
  <2> QED
    BY <1>11, <2>1 DEF TypeOK, ThrottleSends
<1> QED
  BY <1>2, <1>3, <1>4, <1>5, <1>6, <1>7, <1>8, <1>9, <1>10, <1>11 DEF ServerActs

LEMMA RestartTyped ==
    ASSUME TypeOK, ServerRestarts
    PROVE  TypeOK'
<1>1. budget' \in [changes: Nat, prices: Nat, failures: Nat, restarts: Nat]
  BY SpendTyped DEF ServerRestarts
<1>2. server' \in Session /\ reported' \in [day: 0..MaxDay, current: BOOLEAN]
  <2>1. server \in Session /\ 0 \in 0..MaxDay
    BY PageAssumption DEF TypeOK
  <2> QED
    BY <2>1 DEF ServerRestarts, Session, NotReported
<1>3. throttle' \in [recent: BOOLEAN, waiting: BOOLEAN, unsent: BOOLEAN]
  BY DEF ServerRestarts, IdleThrottle
<1>4. request' \in [Pages -> Requests] /\ inbox' \in [Pages -> Seq(Message)]
  BY DEF TypeOK, ServerRestarts, NoRequest, Requests
<1> QED
  BY <1>1, <1>2, <1>3, <1>4 DEF TypeOK, ServerRestarts, pageVars

LEMMA PageTyped ==
    ASSUME TypeOK, OnlyConsoles, NEW p \in Pages, PageActs(p)
    PROVE  TypeOK'
<1> USE PageAssumption DEF serverVars, pageVars
<1>1. view[p] \in Entry(Of(shows[p]))
  BY DEF TypeOK, Of
<1>2. Current(p) \in Of(shows[p])
  BY DEF TypeOK, Current, Of
<1>3. Invalidate(view[p]) \in Entry(Of(shows[p])) /\ Answer(view[p], Current(p)) \in Entry(Of(shows[p]))
      /\ Land(view[p]) \in Entry(Of(shows[p])) /\ Fail(view[p]) \in Entry(Of(shows[p]))
      /\ Read(view[p]) \in Entry(Of(shows[p]))
  BY <1>1, <1>2, EntryTyped
<1>4. CASE Connect(p)
  <2>1. /\ view' \in [Pages -> Entry(Nat \cup Session)]
        /\ \A q \in Pages : view'[q] \in Entry(IF shows'[q] = "prices" THEN Nat ELSE Session)
    BY <1>3, <1>4, ViewTyped DEF Connect
  <2> QED
    BY <1>4, <2>1 DEF TypeOK, Connect
<1>5. CASE Disconnect(p)
  <2>1. budget' \in [changes: Nat, prices: Nat, failures: Nat, restarts: Nat]
    BY <1>5, SpendTyped DEF Disconnect
  <2>2. socket' \in [Pages -> {"up", "down"}] /\ inbox' \in [Pages -> Seq(Message)]
    BY <1>5 DEF TypeOK, Disconnect
  <2> QED
    BY <1>5, <2>1, <2>2 DEF TypeOK, Disconnect
<1>6. CASE Receive(p)
  <2>1. view'[p] \in Entry(Of(shows[p]))
    BY <1>6, ReceivedTyped
  <2>2. view' = [view EXCEPT ![p] = view'[p]]
    BY <1>6 DEF TypeOK, Receive
  <2>3. inbox' \in [Pages -> Seq(Message)]
    BY <1>6, TakenWaits DEF TypeOK, Receive
  <2>4. shows' = shows
    BY <1>6 DEF Receive
  <2> HIDE DEF serverVars, pageVars
  <2>5. /\ view' \in [Pages -> Entry(Nat \cup Session)]
        /\ \A q \in Pages : view'[q] \in Entry(IF shows'[q] = "prices" THEN Nat ELSE Session)
    BY <2>1, <2>2, <2>4, ViewTyped
  <2> QED
    BY <1>6, <2>3, <2>5 DEF TypeOK, Receive, serverVars
<1>7. CASE ReadHandled(p)
  <2>1. /\ view' \in [Pages -> Entry(Nat \cup Session)]
        /\ \A q \in Pages : view'[q] \in Entry(IF shows'[q] = "prices" THEN Nat ELSE Session)
    BY <1>3, <1>7, ViewTyped DEF ReadHandled
  <2> QED
    BY <1>7, <2>1 DEF TypeOK, ReadHandled
<1>8. CASE ReadLands(p)
  <2>1. /\ view' \in [Pages -> Entry(Nat \cup Session)]
        /\ \A q \in Pages : view'[q] \in Entry(IF shows'[q] = "prices" THEN Nat ELSE Session)
    BY <1>3, <1>8, ViewTyped DEF ReadLands
  <2> QED
    BY <1>8, <2>1 DEF TypeOK, ReadLands
<1>9. CASE ReadFails(p)
  <2>1. /\ view' \in [Pages -> Entry(Nat \cup Session)]
        /\ \A q \in Pages : view'[q] \in Entry(IF shows'[q] = "prices" THEN Nat ELSE Session)
    BY <1>3, <1>9, ViewTyped DEF ReadFails
  <2>2. budget' \in [changes: Nat, prices: Nat, failures: Nat, restarts: Nat]
    BY <1>9, SpendTyped DEF ReadFails
  <2> QED
    BY <1>9, <2>1, <2>2 DEF TypeOK, ReadFails
<1>10. CASE LookAgain(p)
  <2>1. /\ view' \in [Pages -> Entry(Nat \cup Session)]
        /\ \A q \in Pages : view'[q] \in Entry(IF shows'[q] = "prices" THEN Nat ELSE Session)
    BY <1>3, <1>10, ViewTyped DEF LookAgain
  <2> QED
    BY <1>10, <2>1 DEF TypeOK, LookAgain
<1>11. CASE Send(p)
  BY <1>11 DEF TypeOK, Send, Requests
<1>12. CASE RequestSaved(p)
  <2>1. server' \in Session /\ due' \in BOOLEAN
        /\ budget' \in [changes: Nat, prices: Nat, failures: Nat, restarts: Nat]
    BY <1>12, SaveTyped DEF RequestSaved
  <2>2. request' \in [Pages -> Requests]
    BY <1>12 DEF TypeOK, RequestSaved, Requests
  <2> QED
    BY <1>12, <2>1, <2>2 DEF TypeOK, RequestSaved
<1>13. CASE RequestTold(p)
  <2>1. inbox' \in [Pages -> Seq(Message)]
    BY <1>13, EmittedTyped, MessagesTyped DEF RequestTold
  <2>2. request' \in [Pages -> Requests]
    BY <1>13 DEF TypeOK, RequestTold, Requests
  <2> QED
    BY <1>13, <2>1, <2>2 DEF TypeOK, RequestTold
<1>14. CASE AnswerLands(p)
  <2>1. request[p] \in Requests /\ Of(shows[p]) = Session
    BY <1>14 DEF TypeOK, AnswerLands, OnlyConsoles, Of
  <2>2. Put(view[p], request[p].answer) \in Entry(Of(shows[p]))
    BY <1>1, <2>1 DEF Put, Entry, Requests
  <2>3. /\ view' \in [Pages -> Entry(Nat \cup Session)]
        /\ \A q \in Pages : view'[q] \in Entry(IF shows'[q] = "prices" THEN Nat ELSE Session)
    BY <1>14, <2>2, ViewTyped DEF AnswerLands
  <2>4. request' \in [Pages -> Requests]
    BY <1>14 DEF TypeOK, AnswerLands, NoRequest, Requests
  <2> QED
    BY <1>14, <2>3, <2>4 DEF TypeOK, AnswerLands
<1>15. CASE RequestFails(p)
  BY <1>15 DEF TypeOK, RequestFails, Requests, NoRequest
<1> QED
  BY <1>4, <1>5, <1>6, <1>7, <1>8, <1>9, <1>10, <1>11, <1>12, <1>13, <1>14, <1>15 DEF PageActs

(***************************************************************************)
(* The invariant.                                                          *)
(***************************************************************************)
DownIsEmpty == \A p \in Pages : socket[p] = "down" => inbox[p] = <<>>

\* A simulation is of a period that is due, and the closer has not told its end.
Reported == server.day > 0 => due /\ reported.day > 0

Followed == reported.day > 0 \/ \A p \in Pages : ProgressFollowed(inbox[p])

\* The server is still to tell what changed of what p shows.
Owed(p) == IF shows[p] = "prices" THEN throttle.waiting \/ throttle.unsent ELSE ~ServerAtRest

ToldOf(p) ==
    socket[p] = "up" /\ shows[p] # "console" /\ ~Owed(p) /\ ~NamedWaits(inbox[p], shows[p]) =>
        Fresh(view[p], Current(p))

PageInv ==
    /\ TypeOK /\ OnlyConsoles /\ DownIsEmpty /\ Reported /\ Followed
    /\ \A p \in Pages : ToldOf(p)

LEMMA PageStarts == Init => PageInv
<1> SUFFICES ASSUME Init PROVE PageInv
  OBVIOUS
<1>1. Read(Empty) \in Entry(Nat) /\ Read(Empty) \in Entry(Session) /\ Read(Empty) \in Entry(Nat \cup Session)
  BY DEF Read, Empty, Asking, Entry
<1>2. server \in Session /\ reported \in [day: 0..MaxDay, current: BOOLEAN]
      /\ throttle \in [recent: BOOLEAN, waiting: BOOLEAN, unsent: BOOLEAN]
  BY PageAssumption DEF Init, Session, NotReported, IdleThrottle
<1>3. request \in [Pages -> Requests] /\ inbox \in [Pages -> Seq(Message)]
  BY DEF Init, Requests, NoRequest
<1>4. TypeOK
  BY <1>1, <1>2, <1>3, PageAssumption DEF Init, TypeOK
<1>5. OnlyConsoles /\ DownIsEmpty /\ Reported
  BY DEF Init, OnlyConsoles, DownIsEmpty, Reported, NoRequest
<1>6. Followed
  BY DEF Init, Followed, ProgressFollowed
<1>7. \A p \in Pages : ToldOf(p)
  BY DEF Init, ToldOf
<1> QED
  BY <1>4, <1>5, <1>6, <1>7 DEF PageInv

\* What a message sent to all leaves waiting for each.
LEMMA EmittedWaits ==
    ASSUME TypeOK, DownIsEmpty, NEW m \in Message, Emit(m), NEW p \in Pages, NEW kind
    PROVE  /\ NamedWaits(inbox[p], kind) => NamedWaits(inbox'[p], kind)
           /\ socket[p] = "up" /\ m.names = "session" => NamedWaits(inbox'[p], kind)
           /\ socket[p] = "up" /\ m.names = "prices" /\ kind = "prices" => NamedWaits(inbox'[p], kind)
           /\ m.names = "session" => ProgressFollowed(inbox'[p])
           /\ m.names = "prices" /\ ProgressFollowed(inbox[p]) => ProgressFollowed(inbox'[p])
           /\ socket[p] = "down" => inbox'[p] = <<>>
<1>1. inbox[p] \in Seq(Message) /\ socket[p] \in {"up", "down"}
  BY DEF TypeOK
<1>2. inbox'[p] = IF socket[p] = "up" THEN Append(inbox[p], m) ELSE inbox[p]
  BY DEF Emit
<1>3. CASE socket[p] = "up"
  BY <1>1, <1>2, <1>3, AppendedWaits
<1>4. CASE socket[p] = "down"
  <2>1. inbox[p] = <<>> /\ inbox'[p] = <<>>
    BY <1>2, <1>4 DEF DownIsEmpty
  <2>2. ProgressFollowed(<<>>)
    BY DEF ProgressFollowed
  <2> QED
    BY <1>4, <2>1, <2>2
<1> QED
  BY <1>1, <1>3, <1>4

\* A page was told of all that changed: at a step of the server or of another page
\* that leaves its entry alone.
LEMMA StillTold ==
    ASSUME NEW p \in Pages, ToldOf(p), view'[p] = view[p], shows' = shows, socket'[p] = socket[p],
           \/ Owed(p)' \/ socket[p] # "up"
           \/ NamedWaits(inbox'[p], shows[p])
           \/ /\ ~Owed(p) /\ Current(p)' = Current(p)
              /\ NamedWaits(inbox[p], shows[p]) => NamedWaits(inbox'[p], shows[p])
    PROVE  ToldOf(p)'
BY DEF ToldOf

LEMMA RereadIs == Reread.names = "session" /\ RereadPrices.names = "prices"
                  /\ Reread \in Message /\ RereadPrices \in Message
BY MessagesTyped DEF Reread, RereadPrices

LEMMA ServerKeeps ==
    ASSUME PageInv, ServerActs
    PROVE  PageInv'
<1> USE DEF serverVars, pageVars
<1>1. TypeOK' /\ TypeOK
  BY ServerTyped DEF PageInv
<1>2. /\ OnlyConsoles /\ DownIsEmpty /\ Reported /\ Followed
      /\ \A p \in Pages : ToldOf(p)
      /\ server \in Session /\ server.day \in Nat /\ reported.day \in Nat
  BY <1>1, PageAssumption DEF PageInv, TypeOK, Session
<1>3. UNCHANGED <<socket, shows, view, request>>
  BY DEF ServerActs, Change, Tell, SimulationDay, SimulationEnds, SimulationFails, CloserChecks,
         PriceChanges, HalfSecondPasses, WaitEnds, ThrottleSends
<1>4. OnlyConsoles'
  BY <1>2, <1>3 DEF OnlyConsoles
<1>5. \/ UNCHANGED inbox
      \/ \E m \in Message : Emit(m)
  <2>1. \A d \in 0..MaxDay : ProgressMade(d) \in Message
    BY MessagesTyped
  <2>2. CloserChecks => UNCHANGED inbox \/ Emit(Reread) \/ \E d \in 0..MaxDay : Emit(ProgressMade(d))
    BY <1>2, PageAssumption DEF CloserChecks, Session
  <2> QED
    BY <2>1, <2>2, RereadIs
       DEF ServerActs, Change, Tell, SimulationDay, SimulationEnds, SimulationFails,
           PriceChanges, HalfSecondPasses, WaitEnds, ThrottleSends
<1>6. DownIsEmpty'
  BY <1>1, <1>2, <1>3, <1>5, EmittedWaits DEF DownIsEmpty
<1>7. ASSUME UNCHANGED inbox
      PROVE  \A p \in Pages : NamedWaits(inbox[p], shows[p]) => NamedWaits(inbox'[p], shows[p])
  BY <1>7
<1>8. ASSUME Emit(Reread)
      PROVE  /\ \A p \in Pages : ProgressFollowed(inbox'[p])
             /\ \A p \in Pages : socket[p] # "up" \/ NamedWaits(inbox'[p], shows[p])
  BY <1>1, <1>2, <1>8, EmittedWaits, RereadIs
<1>9. \A p \in Pages : Current(p) = IF shows[p] = "prices" THEN room ELSE server
  BY DEF Current
<1>10. \A p \in Pages : Current(p)' = IF shows[p] = "prices" THEN room' ELSE server'
  BY <1>3 DEF Current
<1>11. \A p \in Pages :
          /\ Owed(p) <=> IF shows[p] = "prices" THEN throttle.waiting \/ throttle.unsent ELSE ~ServerAtRest
          /\ Owed(p)' <=> IF shows[p] = "prices" THEN throttle'.waiting \/ throttle'.unsent
                          ELSE ~ServerAtRest'
  BY <1>3 DEF Owed
<1>12. ASSUME NEW p \in Pages,
              \/ Owed(p)' \/ socket[p] # "up"
              \/ NamedWaits(inbox'[p], shows[p])
              \/ /\ ~Owed(p) /\ Current(p)' = Current(p)
                 /\ NamedWaits(inbox[p], shows[p]) => NamedWaits(inbox'[p], shows[p])
       PROVE  ToldOf(p)'
  BY <1>2, <1>3, <1>12, StillTold
<1>13. SUFFICES Reported' /\ Followed' /\ \A p \in Pages : ToldOf(p)'
  BY <1>1, <1>4, <1>6 DEF PageInv
<1>14. CASE Change
  <2>1. Reported' /\ Followed'
    BY <1>2, <1>14 DEF Change, SaveChange, Reported, Followed, Session
  <2>2. ~ServerAtRest'
    BY <1>1, <1>14 DEF Change, ServerAtRest, TypeOK
  <2> QED
    BY <1>7, <1>9, <1>10, <1>11, <1>12, <1>14, <2>1, <2>2 DEF Change
<1>15. CASE Tell
  <2>1. Reported' /\ Followed'
    BY <1>2, <1>8, <1>15 DEF Tell, Reported, Followed
  <2> QED
    BY <1>8, <1>12, <1>15, <2>1 DEF Tell
<1>16. CASE SimulationDay
  <2>1. Reported' /\ Followed'
    BY <1>2, <1>16 DEF SimulationDay, Reported, Followed, Session
  <2>2. ~ServerAtRest'
    BY <1>2, <1>16 DEF SimulationDay, Reported, ServerAtRest, NotReported
  <2> QED
    BY <1>7, <1>9, <1>10, <1>11, <1>12, <1>16, <2>1, <2>2 DEF SimulationDay
<1>17. CASE SimulationEnds
  <2>1. reported'.day = reported.day /\ reported.day > 0
    BY <1>1, <1>2, <1>17 DEF SimulationEnds, Reported, TypeOK
  <2>2. Reported' /\ Followed'
    BY <1>2, <1>17, <2>1 DEF SimulationEnds, Reported, Followed, Session
  <2>3. ~ServerAtRest'
    BY <1>2, <2>1 DEF ServerAtRest, NotReported
  <2> QED
    BY <1>7, <1>9, <1>10, <1>11, <1>12, <1>17, <2>2, <2>3 DEF SimulationEnds
<1>18. CASE SimulationFails
  <2>1. Reported' /\ Followed'
    BY <1>2, <1>18 DEF SimulationFails, Reported, Followed, Session
  <2>2. ~ServerAtRest'
    BY <1>2, <1>18 DEF SimulationFails, Reported, ServerAtRest
  <2> QED
    BY <1>7, <1>9, <1>10, <1>11, <1>12, <1>18, <2>1, <2>2 DEF SimulationFails
<1>19. CASE CloserChecks
  <2>1. CASE due /\ server.day = 0
    <3>1. server'.day = 1 /\ due' /\ reported' = Progress(1)
      BY <1>2, <1>19, <2>1 DEF CloserChecks, Session
    <3>2. Reported' /\ Followed'
      BY <3>1 DEF Reported, Followed, Progress
    <3>3. ~ServerAtRest'
      BY <3>1 DEF ServerAtRest
    <3>4. \A p \in Pages : NamedWaits(inbox[p], shows[p]) => NamedWaits(inbox'[p], shows[p])
      BY <1>1, <1>2, <1>5, <1>7, EmittedWaits
    <3> QED
      BY <1>9, <1>10, <1>11, <1>12, <1>19, <3>2, <3>3, <3>4 DEF CloserChecks
  <2>2. CASE server.day > 0
    <3>1. server'.day = server.day /\ due /\ due' /\ reported' = Progress(server.day)
      BY <1>2, <1>19, <2>2 DEF CloserChecks, Session, Reported
    <3>2. Reported' /\ Followed'
      BY <2>2, <3>1 DEF Reported, Followed, Progress
    <3>3. ~ServerAtRest'
      BY <3>1 DEF ServerAtRest
    <3>4. \A p \in Pages : NamedWaits(inbox[p], shows[p]) => NamedWaits(inbox'[p], shows[p])
      BY <1>1, <1>2, <1>5, <1>7, EmittedWaits
    <3> QED
      BY <1>9, <1>10, <1>11, <1>12, <1>19, <3>2, <3>3, <3>4 DEF CloserChecks
  <2>3. CASE ~due /\ server.day = 0
    <3>1. server'.day = 0 /\ Emit(Reread)
      BY <1>2, <1>19, <2>3 DEF CloserChecks, Session
    <3>2. Reported' /\ Followed'
      BY <1>8, <3>1 DEF Reported, Followed
    <3> QED
      BY <1>8, <1>12, <3>1, <3>2
  <2> QED
    BY <1>2, <2>1, <2>2, <2>3
<1>20. CASE PriceChanges
  <2>1. Reported' /\ Followed'
    BY <1>2, <1>20 DEF PriceChanges, Reported, Followed
  <2>2. throttle'.waiting \/ throttle'.unsent
    BY <1>1, <1>20 DEF PriceChanges, TypeOK
  <2>3. ServerAtRest' <=> ServerAtRest
    BY <1>20 DEF PriceChanges, ServerAtRest
  <2> QED
    BY <1>7, <1>9, <1>10, <1>11, <1>12, <1>20, <2>1, <2>2, <2>3 DEF PriceChanges
<1>21. CASE HalfSecondPasses
  <2>1. Reported' /\ Followed'
    BY <1>2, <1>21 DEF HalfSecondPasses, Reported, Followed
  <2>2. throttle'.waiting = throttle.waiting /\ throttle'.unsent = throttle.unsent
    BY <1>1, <1>21 DEF HalfSecondPasses, TypeOK
  <2>3. ServerAtRest' <=> ServerAtRest
    BY <1>21 DEF HalfSecondPasses, ServerAtRest
  <2> QED
    BY <1>7, <1>9, <1>10, <1>11, <1>12, <1>21, <2>1, <2>2, <2>3 DEF HalfSecondPasses
<1>22. CASE WaitEnds
  <2>1. Reported' /\ Followed'
    BY <1>2, <1>22 DEF WaitEnds, Reported, Followed
  <2>2. throttle'.unsent
    BY <1>22 DEF WaitEnds
  <2>3. ServerAtRest' <=> ServerAtRest
    BY <1>22 DEF WaitEnds, ServerAtRest
  <2> QED
    BY <1>7, <1>9, <1>10, <1>11, <1>12, <1>22, <2>1, <2>2, <2>3 DEF WaitEnds
<1>23. CASE ThrottleSends
  <2>1. \A p \in Pages :
           /\ NamedWaits(inbox[p], shows[p]) => NamedWaits(inbox'[p], shows[p])
           /\ socket[p] # "up" \/ shows[p] # "prices" \/ NamedWaits(inbox'[p], shows[p])
           /\ ProgressFollowed(inbox[p]) => ProgressFollowed(inbox'[p])
    BY <1>1, <1>2, <1>23, EmittedWaits, RereadIs DEF ThrottleSends
  <2>2. Reported' /\ Followed'
    BY <1>2, <1>23, <2>1 DEF ThrottleSends, Reported, Followed
  <2>3. ServerAtRest' <=> ServerAtRest
    BY <1>23 DEF ThrottleSends, ServerAtRest
  <2> QED
    BY <1>9, <1>10, <1>11, <1>12, <1>23, <2>1, <2>2, <2>3 DEF ThrottleSends
<1> QED
  BY <1>14, <1>15, <1>16, <1>17, <1>18, <1>19, <1>20, <1>21, <1>22, <1>23 DEF ServerActs

LEMMA RestartKeeps ==
    ASSUME PageInv, ServerRestarts
    PROVE  PageInv'
<1>1. TypeOK /\ TypeOK'
  BY RestartTyped DEF PageInv
<1>2. \A p \in Pages : socket'[p] = "down" /\ inbox'[p] = <<>>
  BY DEF ServerRestarts
<1>3. OnlyConsoles'
  BY <1>1 DEF PageInv, OnlyConsoles, ServerRestarts, pageVars, NoRequest, TypeOK
<1>4. DownIsEmpty' /\ (\A p \in Pages : ToldOf(p)') /\ Followed'
  BY <1>2 DEF DownIsEmpty, ToldOf, Followed, ProgressFollowed
<1>5. Reported'
  BY <1>1 DEF Reported, ServerRestarts, TypeOK, Session
<1> QED
  BY <1>1, <1>3, <1>4, <1>5 DEF PageInv

LEMMA PageKeeps ==
    ASSUME PageInv, NEW p \in Pages, PageActs(p)
    PROVE  PageInv'
<1> USE DEF serverVars, pageVars
<1>1. TypeOK /\ TypeOK'
  BY PageTyped DEF PageInv
<1>2. /\ OnlyConsoles /\ DownIsEmpty /\ Reported /\ Followed
      /\ \A q \in Pages : ToldOf(q)
      /\ view[p] \in Entry(Of(shows[p])) /\ Current(p) \in Of(shows[p])
      /\ inbox[p] \in Seq(Message) /\ socket[p] \in {"up", "down"}
  BY <1>1 DEF PageInv, TypeOK, Current, Of
<1>3. UNCHANGED shows
  BY DEF PageActs, Connect, Disconnect, Receive, ReadHandled, ReadLands, ReadFails, LookAgain,
         Send, RequestSaved, RequestTold, AnswerLands, RequestFails
\* The server has nothing more to tell, nor less, and the other pages are left alone.
<1> DEFINE Aside ==
      /\ UNCHANGED <<server, due, room, throttle, reported, owed>>
      /\ \A q \in Pages : request'[q].stage = "saved" <=> request[q].stage = "saved"
      /\ \A q \in Pages \ {p} : /\ view'[q] = view[q] /\ socket'[q] = socket[q]
                               /\ inbox'[q] = inbox[q]
<1>4. ASSUME Aside, OnlyConsoles', ProgressFollowed(inbox[p]) => ProgressFollowed(inbox'[p]),
             socket'[p] = "down" => inbox'[p] = <<>>,
             \/ socket'[p] = "down" \/ Fresh(view'[p], Current(p))
             \/ shows[p] = "console"
             \/ Owed(p) \/ NamedWaits(inbox'[p], shows[p])
             \/ /\ view'[p] = view[p] /\ socket'[p] = socket[p]
                /\ NamedWaits(inbox[p], shows[p]) => NamedWaits(inbox'[p], shows[p])
      PROVE  PageInv'
  <2>1. ServerAtRest' <=> ServerAtRest
    BY <1>4 DEF ServerAtRest
  <2>2. \A q \in Pages : (Owed(q)' <=> Owed(q)) /\ Current(q)' = Current(q)
    BY <1>3, <1>4, <2>1 DEF Owed, Current
  <2>3. ASSUME NEW q \in Pages \ {p} PROVE ToldOf(q)'
    BY <1>2, <1>3, <1>4, <2>2 DEF ToldOf
  <2>4. ToldOf(p)'
    BY <1>2, <1>3, <1>4, <2>2 DEF ToldOf
  <2>5. DownIsEmpty' /\ Reported' /\ Followed'
    BY <1>2, <1>4 DEF DownIsEmpty, Reported, Followed
  <2> QED
    BY <1>1, <1>4, <2>3, <2>4, <2>5 DEF PageInv
<1> HIDE DEF Aside
<1>5. CASE Connect(p)
  <2>1. Aside
    BY <1>1, <1>5 DEF Aside, Connect, TypeOK
  <2>2. Fresh(view'[p], Current(p)) /\ socket'[p] = "up" /\ inbox'[p] = inbox[p]
    BY <1>1, <1>2, <1>5, FreshAfter DEF Connect, TypeOK
  <2>3. OnlyConsoles'
    BY <1>2, <1>5 DEF Connect, OnlyConsoles
  <2> QED
    BY <1>4, <2>1, <2>2, <2>3
<1>6. CASE Disconnect(p)
  <2>1. Aside
    BY <1>1, <1>6 DEF Aside, Disconnect, TypeOK
  <2>2. socket'[p] = "down" /\ inbox'[p] = <<>> /\ ProgressFollowed(<<>>)
    BY <1>1, <1>6 DEF Disconnect, TypeOK, ProgressFollowed
  <2>3. OnlyConsoles'
    BY <1>2, <1>6 DEF Disconnect, OnlyConsoles
  <2> QED
    BY <1>4, <2>1, <2>2, <2>3
<1>7. CASE Receive(p)
  <2> DEFINE m == Head(inbox[p])
  <2>1. Aside
    BY <1>1, <1>7 DEF Aside, Receive, TypeOK
  <2>2. OnlyConsoles'
    BY <1>2, <1>7 DEF Receive, OnlyConsoles
  <2>3. inbox'[p] = Tail(inbox[p]) /\ inbox[p] # <<>> /\ socket'[p] = socket[p]
    BY <1>1, <1>7 DEF Receive, TypeOK
  <2>4. m \in Message
    BY <1>2, <2>3, TakenWaits
  <2>5. ProgressFollowed(inbox[p]) => ProgressFollowed(inbox'[p])
    BY <1>2, <2>3, TakenWaits
  <2>6. socket'[p] # "down"
    BY <1>2, <2>3 DEF DownIsEmpty
  <2>7. CASE Named(m, p)
    <3>1. view'[p] = Invalidate(view[p])
      BY <1>1, <1>7, <2>7 DEF Receive, TypeOK
    <3>2. Fresh(view'[p], Current(p))
      BY <1>2, <3>1, FreshAfter
    <3> QED
      BY <1>4, <2>1, <2>2, <2>5, <2>6, <3>2
  <2>8. CASE ~Named(m, p) /\ ~(m.names = "progress" /\ shows[p] # "prices")
    <3>1. view'[p] = view[p]
      BY <1>1, <1>7, <2>8 DEF Receive, TypeOK
    <3>2. NamedWaits(inbox[p], shows[p]) => NamedWaits(inbox'[p], shows[p])
      BY <1>2, <2>3, <2>8, TakenWaits DEF Named
    <3> QED
      BY <1>4, <2>1, <2>2, <2>3, <2>5, <2>6, <3>1, <3>2
  <2>9. CASE m.names = "progress" /\ shows[p] # "prices"
    <3>1. CASE reported.day > 0
      <4>1. Owed(p)
        BY <2>9, <3>1 DEF Owed, ServerAtRest, NotReported
      <4> QED
        BY <1>4, <2>1, <2>2, <2>5, <2>6, <4>1
    <3>2. CASE \A q \in Pages : ProgressFollowed(inbox[q])
      <4>1. NamedWaits(inbox'[p], shows[p])
        BY <1>2, <2>3, <2>9, <3>2, TakenWaits
      <4> QED
        BY <1>4, <2>1, <2>2, <2>5, <2>6, <4>1
    <3> QED
      BY <1>2, <3>1, <3>2 DEF Followed
  <2> QED
    BY <2>7, <2>8, <2>9
<1>8. CASE ReadHandled(p)
  <2>1. Aside
    BY <1>1, <1>8 DEF Aside, ReadHandled, TypeOK
  <2>2. Fresh(view'[p], Current(p)) \/ Owed(p) \/ NamedWaits(inbox'[p], shows[p])
        \/ shows[p] = "console" \/ socket'[p] = "down"
    BY <1>1, <1>2, <1>8, FreshAfter DEF ReadHandled, TypeOK, ToldOf
  <2>3. OnlyConsoles' /\ inbox'[p] = inbox[p] /\ socket'[p] = socket[p]
    BY <1>2, <1>8 DEF ReadHandled, OnlyConsoles
  <2>4. socket'[p] = "down" => inbox'[p] = <<>>
    BY <1>2, <2>3 DEF DownIsEmpty
  <2> QED
    BY <1>4, <2>1, <2>2, <2>3, <2>4
<1>9. CASE ReadLands(p)
  <2>1. Aside
    BY <1>1, <1>9 DEF Aside, ReadLands, TypeOK
  <2>2. Fresh(view'[p], Current(p)) \/ Owed(p) \/ NamedWaits(inbox'[p], shows[p])
        \/ shows[p] = "console" \/ socket'[p] = "down"
    BY <1>1, <1>2, <1>9, FreshAfter DEF ReadLands, TypeOK, ToldOf
  <2>3. OnlyConsoles' /\ inbox'[p] = inbox[p] /\ socket'[p] = socket[p]
    BY <1>2, <1>9 DEF ReadLands, OnlyConsoles
  <2>4. socket'[p] = "down" => inbox'[p] = <<>>
    BY <1>2, <2>3 DEF DownIsEmpty
  <2> QED
    BY <1>4, <2>1, <2>2, <2>3, <2>4
<1>10. CASE ReadFails(p)
  <2>1. Aside
    BY <1>1, <1>10 DEF Aside, ReadFails, TypeOK
  <2>2. Fresh(view'[p], Current(p)) \/ Owed(p) \/ NamedWaits(inbox'[p], shows[p])
        \/ shows[p] = "console" \/ socket'[p] = "down"
    BY <1>1, <1>2, <1>10, FreshAfter DEF ReadFails, TypeOK, ToldOf
  <2>3. OnlyConsoles' /\ inbox'[p] = inbox[p] /\ socket'[p] = socket[p]
    BY <1>2, <1>10 DEF ReadFails, OnlyConsoles
  <2>4. socket'[p] = "down" => inbox'[p] = <<>>
    BY <1>2, <2>3 DEF DownIsEmpty
  <2> QED
    BY <1>4, <2>1, <2>2, <2>3, <2>4
<1>11. CASE LookAgain(p)
  <2>1. Aside
    BY <1>1, <1>11 DEF Aside, LookAgain, TypeOK
  <2>2. Fresh(view'[p], Current(p)) \/ Owed(p) \/ NamedWaits(inbox'[p], shows[p])
        \/ shows[p] = "console" \/ socket'[p] = "down"
    BY <1>1, <1>2, <1>11, FreshAfter DEF LookAgain, TypeOK, ToldOf
  <2>3. OnlyConsoles' /\ inbox'[p] = inbox[p] /\ socket'[p] = socket[p]
    BY <1>2, <1>11 DEF LookAgain, OnlyConsoles
  <2>4. socket'[p] = "down" => inbox'[p] = <<>>
    BY <1>2, <2>3 DEF DownIsEmpty
  <2> QED
    BY <1>4, <2>1, <2>2, <2>3, <2>4
<1>12. CASE Send(p)
  <2>1. Aside
    BY <1>1, <1>12 DEF Aside, Send, TypeOK, NoRequest
  <2>2. OnlyConsoles' /\ inbox'[p] = inbox[p] /\ socket'[p] = socket[p]
    BY <1>1, <1>2, <1>12 DEF Send, OnlyConsoles, TypeOK, NoRequest
  <2>3. shows[p] = "console"
    BY <1>2, <1>12 DEF Send, OnlyConsoles
  <2>4. socket'[p] = "down" => inbox'[p] = <<>>
    BY <1>2, <2>2 DEF DownIsEmpty
  <2> QED
    BY <1>4, <2>1, <2>2, <2>3, <2>4
<1>13. CASE RequestSaved(p)
  <2>1. OnlyConsoles'
    BY <1>1, <1>2, <1>13 DEF RequestSaved, OnlyConsoles, TypeOK
  <2>2. DownIsEmpty' /\ Followed'
    BY <1>2, <1>13 DEF RequestSaved, DownIsEmpty, Followed
  <2>3. Reported'
    BY <1>1, <1>2, <1>13 DEF RequestSaved, SaveChange, Reported, TypeOK, Session
  <2>4. ~ServerAtRest'
    BY <1>1, <1>13 DEF RequestSaved, ServerAtRest, TypeOK
  <2>5. ASSUME NEW q \in Pages PROVE ToldOf(q)'
    BY <1>2, <1>3, <1>13, <2>4 DEF RequestSaved, ToldOf, Owed, Current
  <2> QED
    BY <1>1, <2>1, <2>2, <2>3, <2>5 DEF PageInv
<1>14. CASE RequestTold(p)
  <2>1. \A q \in Pages :
           /\ ProgressFollowed(inbox'[q])
           /\ socket[q] = "up" => NamedWaits(inbox'[q], shows[q])
           /\ socket[q] = "down" => inbox'[q] = <<>>
    BY <1>1, <1>2, <1>14, EmittedWaits, RereadIs DEF RequestTold
  <2>2. OnlyConsoles'
    BY <1>1, <1>2, <1>14 DEF RequestTold, OnlyConsoles, TypeOK
  <2>3. DownIsEmpty' /\ Followed' /\ Reported'
    BY <1>2, <1>14, <2>1 DEF RequestTold, DownIsEmpty, Followed, Reported
  <2>4. ASSUME NEW q \in Pages PROVE ToldOf(q)'
    BY <1>3, <1>14, <2>1 DEF RequestTold, ToldOf
  <2> QED
    BY <1>1, <2>2, <2>3, <2>4 DEF PageInv
<1>15. CASE AnswerLands(p)
  <2>1. Aside
    BY <1>1, <1>15 DEF Aside, AnswerLands, TypeOK, NoRequest
  <2>2. OnlyConsoles' /\ inbox'[p] = inbox[p] /\ socket'[p] = socket[p]
    BY <1>1, <1>2, <1>15 DEF AnswerLands, OnlyConsoles, TypeOK, NoRequest
  <2>3. shows[p] = "console"
    BY <1>2, <1>15 DEF AnswerLands, OnlyConsoles
  <2>4. socket'[p] = "down" => inbox'[p] = <<>>
    BY <1>2, <2>2 DEF DownIsEmpty
  <2> QED
    BY <1>4, <2>1, <2>2, <2>3, <2>4
<1>16. CASE RequestFails(p)
  <2>1. Aside
    BY <1>1, <1>16 DEF Aside, RequestFails, TypeOK, NoRequest
  <2>2. OnlyConsoles' /\ inbox'[p] = inbox[p] /\ socket'[p] = socket[p]
    BY <1>1, <1>2, <1>16 DEF RequestFails, OnlyConsoles, TypeOK, NoRequest
  <2>3. shows[p] = "console"
    BY <1>2, <1>16 DEF RequestFails, OnlyConsoles
  <2>4. socket'[p] = "down" => inbox'[p] = <<>>
    BY <1>2, <2>2 DEF DownIsEmpty
  <2> QED
    BY <1>4, <2>1, <2>2, <2>3, <2>4
<1> QED
  BY <1>5, <1>6, <1>7, <1>8, <1>9, <1>10, <1>11, <1>12, <1>13, <1>14, <1>15, <1>16 DEF PageActs

LEMMA PageInvHolds == Spec => []PageInv
<1>1. Init => PageInv
  BY PageStarts
<1>2. PageInv /\ [Next]_vars => PageInv'
  <2> SUFFICES ASSUME PageInv, [Next]_vars PROVE PageInv'
    OBVIOUS
  <2>1. CASE Next
    BY <2>1, ServerKeeps, RestartKeeps, PageKeeps DEF Next
  <2>2. CASE UNCHANGED vars
    BY <2>2 DEF vars, serverVars, pageVars, PageInv, TypeOK, OnlyConsoles, DownIsEmpty, Reported,
                Followed, ToldOf, Owed, ServerAtRest, Current
  <2> QED
    BY <2>1, <2>2
<1> QED
  BY <1>1, <1>2, PTL DEF Spec

(***************************************************************************)
(* The theorems.                                                           *)
(***************************************************************************)
\* Server, sockets, messages and caches always hold what their types say
\* (WorkshopPage's variables).
THEOREM PagesAreTyped == Spec => []TypeOK
<1>1. PageInv => TypeOK
  BY DEF PageInv
<1> QED
  BY <1>1, PageInvHolds, PTL

\* No change of the session is lost on its way to a player's page (useWorkshopSocket).
THEOREM PageAlwaysShowsSession == Spec => []PageShowsSession
<1>1. PageInv => PageShowsSession
  <2> SUFFICES ASSUME PageInv, ServerAtRest, NEW p \in Pages, AtRest(p), shows[p] = "session",
                      ~view[p].missed
               PROVE  view[p].data = server
    BY DEF PageShowsSession
  <2>1. ToldOf(p)
    BY DEF PageInv
  <2>2. ~NamedWaits(inbox[p], shows[p])
    BY DEF AtRest, NamedWaits
  <2> QED
    BY <2>1, <2>2 DEF ToldOf, AtRest, Owed, Fresh, Current
<1> QED
  BY <1>1, PageInvHolds, PTL

\* No change of the prices is lost in the half second a message waits (_Throttle).
THEOREM PageAlwaysShowsPrices == Spec => []PageShowsPrices
<1>1. PageInv => PageShowsPrices
  <2> SUFFICES ASSUME PageInv, ~throttle.waiting, ~throttle.unsent, NEW p \in Pages, AtRest(p),
                      shows[p] = "prices", ~view[p].missed
               PROVE  view[p].data = room
    BY DEF PageShowsPrices
  <2>1. ToldOf(p)
    BY DEF PageInv
  <2>2. ~NamedWaits(inbox[p], shows[p])
    BY DEF AtRest, NamedWaits
  <2> QED
    BY <2>1, <2>2 DEF ToldOf, AtRest, Owed, Fresh, Current
<1> QED
  BY <1>1, PageInvHolds, PTL

(***************************************************************************)
(* What a page shows never goes back: data and answer are of versions the  *)
(* server has reached, the answer of none older than the data.             *)
(***************************************************************************)
VersionOf(kind, x) == IF kind = "prices" THEN x ELSE x.version

UpTo(e, kind, v) ==
    /\ e.data # NoData => VersionOf(kind, e.data) <= VersionOf(kind, v)
    /\ e.fetch = "answered" =>
          /\ e.got # NoData /\ VersionOf(kind, e.got) <= VersionOf(kind, v)
          /\ e.data # NoData => VersionOf(kind, e.data) <= VersionOf(kind, e.got)

NotBehind(e, f, kind) ==
    e.data # NoData => f.data # NoData /\ VersionOf(kind, f.data) >= VersionOf(kind, e.data)

Kinds == {"session", "console", "prices"}

LEMMA VersionsAreNumbers ==
    ASSUME NEW kind \in Kinds, NEW x \in Of(kind)
    PROVE  VersionOf(kind, x) \in Nat /\ x # NoData
<1>1. x \in IF kind = "prices" THEN Nat ELSE Session
  BY DEF Of
<1> QED
  BY <1>1, PageAssumption DEF VersionOf, Session

LEMMA UpToAfter ==
    ASSUME NEW kind \in Kinds, NEW e \in Entry(Of(kind)), NEW v \in Of(kind), UpTo(e, kind, v)
    PROVE  /\ \A f \in {Invalidate(e), Read(e), Answer(e, v), Fail(e)} :
                UpTo(f, kind, v) /\ NotBehind(e, f, kind)
           /\ e.fetch = "answered" => UpTo(Land(e), kind, v) /\ NotBehind(e, Land(e), kind)
<1>1. \A x \in Of(kind) : VersionOf(kind, x) \in Nat /\ x # NoData
  BY VersionsAreNumbers
<1>2. /\ e.data \in Of(kind) \cup {NoData} /\ e.got \in Of(kind) \cup {NoData}
      /\ e = [data |-> e.data, fetch |-> e.fetch, got |-> e.got, stale |-> e.stale, missed |-> e.missed]
  BY DEF Entry
<1>3. Invalidate(e).data = e.data /\ Invalidate(e).fetch \in {"asked", e.fetch}
      /\ (Invalidate(e).fetch = "answered" => Invalidate(e).got = e.got)
  BY <1>2 DEF Invalidate, Read, Asking, Entry
<1>4. Read(e).data = e.data /\ Read(e).fetch \in {"asked", e.fetch}
      /\ (Read(e).fetch = "answered" => Read(e).got = e.got)
  BY <1>2 DEF Read, Asking, Entry
<1>5. Answer(e, v).data = e.data /\ Answer(e, v).got = v
  BY <1>2 DEF Answer
<1>6. Fail(e).data = e.data /\ Fail(e).fetch = "idle"
  BY <1>2 DEF Fail
<1>7. Land(e).data = e.got /\ Land(e).fetch = "idle"
  BY <1>2 DEF Land
<1> HIDE DEF Kinds
<1> QED
  BY <1>1, <1>2, <1>3, <1>4, <1>5, <1>6, <1>7 DEF UpTo, NotBehind

LEMMA UpToMore ==
    ASSUME NEW kind \in Kinds, NEW e \in Entry(Of(kind)), NEW v \in Of(kind), NEW w \in Of(kind),
           UpTo(e, kind, v), VersionOf(kind, v) <= VersionOf(kind, w)
    PROVE  UpTo(e, kind, w) /\ NotBehind(e, e, kind)
<1>1. \A x \in Of(kind) : VersionOf(kind, x) \in Nat /\ x # NoData
  BY VersionsAreNumbers
<1>2. /\ e.data \in Of(kind) \cup {NoData} /\ e.got \in Of(kind) \cup {NoData}
  BY DEF Entry
<1> QED
  BY <1>1, <1>2 DEF UpTo, NotBehind

UpToAll == \A p \in Pages : shows[p] # "console" => UpTo(view[p], shows[p], Current(p))

Forward == \A p \in Pages : shows[p] # "console" => NotBehind(view[p], view'[p], shows[p])

LEMMA ServerMovesOn ==
    ASSUME TypeOK, Next
    PROVE  server'.version >= server.version /\ room' >= room
<1>1. server \in Session /\ server.version \in Nat /\ room \in Nat
  BY DEF TypeOK, Session
<1>2. SaveChange => server'.version = server.version + 1
  BY <1>1 DEF SaveChange, Session
<1>3. SimulationDay \/ SimulationFails \/ CloserChecks \/ ServerRestarts => server'.version = server.version
  BY <1>1 DEF SimulationDay, SimulationFails, CloserChecks, ServerRestarts, Session
<1>4. SimulationEnds => server'.version = server.version + 1
  BY DEF SimulationEnds
<1> DEFINE OnwardInAll == server'.version >= server.version /\ room' >= room
<1>5. ServerActs => OnwardInAll
  <2>1. Change \/ SimulationDay \/ SimulationEnds \/ SimulationFails \/ CloserChecks => OnwardInAll
    BY <1>1, <1>2, <1>3, <1>4 DEF Change, SimulationDay, SimulationEnds, SimulationFails, CloserChecks
  <2>2. Tell \/ PriceChanges \/ HalfSecondPasses \/ WaitEnds \/ ThrottleSends => OnwardInAll
    BY <1>1 DEF Tell, PriceChanges, HalfSecondPasses, WaitEnds, ThrottleSends
  <2> QED
    BY <2>1, <2>2 DEF ServerActs
<1>6. ServerRestarts => OnwardInAll
  BY <1>1, <1>3 DEF ServerRestarts
<1>7. ASSUME NEW p \in Pages, PageActs(p)
      PROVE  OnwardInAll
  <2>1. RequestSaved(p) => OnwardInAll
    BY <1>1, <1>2 DEF RequestSaved
  <2>2. ~RequestSaved(p) => server' = server /\ room' = room
    BY <1>7 DEF PageActs, Connect, Disconnect, Receive, ReadHandled, ReadLands, ReadFails,
        LookAgain, Send, RequestTold, AnswerLands, RequestFails, serverVars
  <2> QED
    BY <1>1, <2>1, <2>2
<1> QED
  BY <1>5, <1>6, <1>7 DEF Next

\* A step changes a page's entry only by what it reads, and by progress.
LEMMA EntryChanges ==
    ASSUME TypeOK, OnlyConsoles, Next, NEW p \in Pages, shows[p] # "console"
    PROVE  /\ shows' = shows
           /\ \/ view'[p] = view[p]
              \/ view'[p] \in {Invalidate(view[p]), Read(view[p]), Answer(view[p], Current(p)), Fail(view[p])}
              \/ view[p].fetch = "answered" /\ view'[p] = Land(view[p])
              \/ /\ shows[p] = "session" /\ view[p].data # NoData /\ Head(inbox[p]) \in Message
                 /\ view'[p].fetch = view[p].fetch /\ view'[p].got = view[p].got
                 /\ view'[p].data = [view[p].data EXCEPT !.day = Head(inbox[p]).day]
<1> DEFINE P == /\ shows' = shows
                /\ \/ view'[p] = view[p]
                   \/ view'[p] \in {Invalidate(view[p]), Read(view[p]), Answer(view[p], Current(p)), Fail(view[p])}
                   \/ view[p].fetch = "answered" /\ view'[p] = Land(view[p])
                   \/ /\ shows[p] = "session" /\ view[p].data # NoData /\ Head(inbox[p]) \in Message
                      /\ view'[p].fetch = view[p].fetch /\ view'[p].got = view[p].got
                      /\ view'[p].data = [view[p].data EXCEPT !.day = Head(inbox[p]).day]
<1>1. view \in [Pages -> Entry(Nat \cup Session)] /\ shows[p] \in {"session", "prices"}
  BY DEF TypeOK
<1>2. ServerActs => P
  BY DEF ServerActs, Change, Tell, SimulationDay, SimulationEnds, SimulationFails,
      CloserChecks, PriceChanges, HalfSecondPasses, WaitEnds, ThrottleSends, pageVars
<1>3. ServerRestarts => P
  BY DEF ServerRestarts, pageVars
<1>4. ASSUME NEW q \in Pages, PageActs(q), q # p
      PROVE  P
  BY <1>1, <1>4 DEF PageActs, Connect, Disconnect, Receive, ReadHandled, ReadLands, ReadFails,
      LookAgain, Send, RequestSaved, RequestTold, AnswerLands, RequestFails, pageVars
<1>5. Connect(p) \/ ReadHandled(p) \/ ReadLands(p) \/ ReadFails(p) \/ LookAgain(p) => P
  BY <1>1 DEF Connect, ReadHandled, ReadLands, ReadFails, LookAgain
<1>6. Disconnect(p) \/ Send(p) \/ RequestSaved(p) \/ RequestTold(p) \/ RequestFails(p) => P
  BY DEF Disconnect, Send, RequestSaved, RequestTold, RequestFails, pageVars
<1>7. ~AnswerLands(p)
  BY DEF AnswerLands, OnlyConsoles
<1>8. ASSUME Receive(p) PROVE P
  <2> DEFINE m == Head(inbox[p])
             Progressed(session) == WithSettlementProgress(session, m.day)
  <2>1. shows' = shows
    BY <1>8 DEF Receive
  <2>2. view'[p] = IF Named(m, p) THEN Invalidate(view[p])
                   ELSE IF m.names = "progress" /\ shows[p] # "prices" THEN Update(view[p], Progressed)
                   ELSE view[p]
    BY <1>1, <1>8 DEF Receive
  <2>3. Update(view[p], Progressed) =
          IF view[p].data = NoData THEN view[p]
          ELSE [Put(view[p], [view[p].data EXCEPT !.day = m.day]) EXCEPT !.missed = @ \/ view[p].missed]
    BY DEF Update, WithSettlementProgress
  <2>4. view[p] \in Entry(Nat \cup Session)
    BY <1>1
  <2>5. \/ Update(view[p], Progressed) = view[p]
        \/ /\ Update(view[p], Progressed).fetch = view[p].fetch
           /\ Update(view[p], Progressed).got = view[p].got
           /\ Update(view[p], Progressed).data = [view[p].data EXCEPT !.day = m.day]
           /\ view[p].data # NoData
    BY <2>3, <2>4 DEF Put, Entry
  <2>6. m \in Message
    BY <1>8, TakenWaits DEF TypeOK, Receive
  <2> HIDE DEF Progressed, m
  <2> QED
    BY <1>1, <2>1, <2>2, <2>5, <2>6 DEF m
<1> QED
  BY <1>2, <1>3, <1>4, <1>5, <1>6, <1>7, <1>8 DEF Next, PageActs

LEMMA ShowsStays == [Next]_vars => shows' = shows
BY DEF Next, ServerActs, Change, Tell, SimulationDay, SimulationEnds, SimulationFails,
       CloserChecks, PriceChanges, HalfSecondPasses, WaitEnds, ThrottleSends, ServerRestarts,
       PageActs, Connect, Disconnect, Receive, ReadHandled, ReadLands, ReadFails, LookAgain,
       Send, RequestSaved, RequestTold, AnswerLands, RequestFails, pageVars, vars

LEMMA UpToKept ==
    ASSUME PageInv, UpToAll, [Next]_vars
    PROVE  UpToAll' /\ Forward
<1>1. TypeOK /\ TypeOK' /\ OnlyConsoles /\ shows' = shows
  <2>1. CASE Next
    BY <2>1, ServerTyped, RestartTyped, PageTyped, ShowsStays DEF Next, PageInv
  <2>2. CASE UNCHANGED vars
    BY <2>2 DEF vars, serverVars, pageVars, PageInv, TypeOK
  <2> QED
    BY <2>1, <2>2 DEF PageInv
<1> SUFFICES ASSUME NEW p \in Pages, shows[p] # "console"
             PROVE  /\ UpTo(view'[p], shows[p], Current(p)')
                    /\ NotBehind(view[p], view'[p], shows[p])
  BY <1>1 DEF UpToAll, Forward
<1> DEFINE kind == shows[p]
           e == view[p]
           f == view'[p]
           v == Current(p)
           w == Current(p)'
<1>2. /\ kind \in Kinds /\ e \in Entry(Of(kind)) /\ f \in Entry(Of(kind))
      /\ v \in Of(kind) /\ w \in Of(kind) /\ UpTo(e, kind, v)
  BY <1>1 DEF TypeOK, Of, Current, Kinds, UpToAll
<1>3. VersionOf(kind, v) <= VersionOf(kind, w)
  <2>1. server.version \in Nat /\ room \in Nat
    BY <1>1 DEF TypeOK, Session
  <2>2. server'.version >= server.version /\ room' >= room
    <3>1. CASE Next
      BY <1>1, <3>1, ServerMovesOn
    <3>2. CASE UNCHANGED vars
      BY <2>1, <3>2 DEF vars, serverVars
    <3> QED
      BY <3>1, <3>2
  <2>3. server'.version \in Nat /\ room' \in Nat
    BY <1>1 DEF TypeOK, Session
  <2> QED
    BY <1>1, <2>1, <2>2, <2>3 DEF VersionOf, Current
<1>4. \/ f = e
      \/ f \in {Invalidate(e), Read(e), Answer(e, v), Fail(e)}
      \/ e.fetch = "answered" /\ f = Land(e)
      \/ /\ kind = "session" /\ e.data # NoData /\ Head(inbox[p]) \in Message
         /\ f.fetch = e.fetch /\ f.got = e.got
         /\ f.data = [e.data EXCEPT !.day = Head(inbox[p]).day]
  <2>1. CASE Next
    BY <1>1, <2>1, EntryChanges
  <2>2. CASE UNCHANGED vars
    BY <2>2 DEF vars, pageVars
  <2> QED
    BY <2>1, <2>2
<1> HIDE DEF kind, e, f, v, w
<1>5. UpTo(f, kind, v) /\ NotBehind(e, f, kind)
  <2>1. CASE f = e
    BY <1>2, <2>1, UpToMore, VersionsAreNumbers
  <2>2. CASE f \in {Invalidate(e), Read(e), Answer(e, v), Fail(e)}
    BY <1>2, <2>2, UpToAfter
  <2>3. CASE e.fetch = "answered" /\ f = Land(e)
    BY <1>2, <2>3, UpToAfter
  <2>4. CASE /\ kind = "session" /\ e.data # NoData /\ Head(inbox[p]) \in Message
             /\ f.fetch = e.fetch /\ f.got = e.got
             /\ f.data = [e.data EXCEPT !.day = Head(inbox[p]).day]
    <3>1. e.data \in Session
      BY <1>2, <2>4 DEF Of, Entry
    <3>2. f.data.version = e.data.version /\ f.data \in Session
      BY <2>4, <3>1 DEF Session, Message
    <3>3. f.data # NoData
      BY <3>2, PageAssumption DEF Session
    <3>4. VersionOf(kind, f.data) = VersionOf(kind, e.data) /\ VersionOf(kind, e.data) \in Nat
      BY <2>4, <3>1, <3>2 DEF VersionOf, Session
    <3> QED
      BY <1>2, <2>4, <3>3, <3>4 DEF UpTo, NotBehind
  <2> QED
    BY <1>4, <2>1, <2>2, <2>3, <2>4
<1>6. UpTo(f, kind, w)
  BY <1>2, <1>3, <1>5, UpToMore
<1> QED
  BY <1>5, <1>6 DEF kind, e, f, w

\* What a player's page shows never goes back to an older session or older prices: no
\* answer that came late, and no server that restarted, takes it back (useWorkshop).
THEOREM PageNeverGoesBack == Spec => NeverGoesBack
<1>1. Init => UpToAll
  <2> SUFFICES ASSUME Init, NEW p \in Pages
               PROVE  UpTo(view[p], shows[p], Current(p))
    BY DEF UpToAll
  <2>1. view[p].data = NoData /\ view[p].fetch = "asked"
    BY DEF Init, Read, Empty, Asking
  <2> QED
    BY <2>1 DEF UpTo
<1>2. PageInv /\ UpToAll /\ [Next]_vars => UpToAll' /\ Forward
  BY UpToKept
<1>3. PageInv /\ Forward =>
        \A p \in Pages :
           shows[p] # "console" /\ view[p].data # NoData => Version(p, view'[p]) >= Version(p, view[p])
  BY DEF Forward, NotBehind, VersionOf, Version
<1> QED
  BY <1>1, <1>2, <1>3, PageInvHolds, PTL DEF Spec, NeverGoesBack
=============================================================================
