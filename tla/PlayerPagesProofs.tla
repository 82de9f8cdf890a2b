-------------------------- MODULE PlayerPagesProofs ---------------------------
(***************************************************************************)
(* Proofs about the pages besides WorkshopPage, for any fields, clicks,    *)
(* options, boundaries and bounds.  Each page has an invariant of its own, *)
(* which the steps of the others leave alone.                              *)
(***************************************************************************)
EXTENDS PlayerPages, FiniteSetTheorems, SequenceTheorems, TLAPS

(***************************************************************************)
(* The cache.                                                              *)
(***************************************************************************)
LEMMA EntryKept ==
    ASSUME NEW V, NEW e \in Entry(V), NEW v \in V
    PROVE  /\ Read(e) \in Entry(V) /\ Invalidate(e) \in Entry(V) /\ Cancel(e) \in Entry(V)
           /\ Answer(e, v) \in Entry(V) /\ Fail(e) \in Entry(V) /\ Put(e, v) \in Entry(V)
           /\ Land(e) \in Entry(V)
BY DEF Entry, Read, Asking, Invalidate, Answer, Land, Fail, Put, Cancel

\* A step is of one page, which the others' variables sit out.
LEMMA OnePage ==
    ASSUME [Next]_pageVars
    PROVE  /\ SelectionNext \/ UNCHANGED selectionVars
           /\ PriceNext \/ UNCHANGED priceVars
           /\ ChoiceNext \/ UNCHANGED choiceVars
           /\ ChartNext \/ UNCHANGED chartVars
           /\ ChatNext \/ UNCHANGED chatVars
           /\ ClockNext \/ UNCHANGED clockVars
           /\ LobbyNext \/ UNCHANGED lobbyVars
           /\ TickNext \/ UNCHANGED tickVars
BY DEF Next, AtClock, pageVars, editVars, gameVars

(***************************************************************************)
(* Filters and sorts.                                                      *)
(***************************************************************************)
\* Any two of the places are kept in some order.
Nested(upTo, P) ==
    /\ upTo \in [P -> SUBSET P]
    /\ \A i \in P : i \in upTo[i]
    /\ \A i, k \in P : i # k => \/ upTo[i] \subseteq upTo[k] /\ k \notin upTo[i]
                                \/ upTo[k] \subseteq upTo[i] /\ i \notin upTo[k]

\* One of the places is the first, one the second, and so on.
Counted(upTo, P) ==
    /\ Cardinality(P) \in Nat
    /\ \A i \in P : Cardinality(upTo[i]) \in 1 .. Cardinality(P)
    /\ \A i, k \in P : Cardinality(upTo[i]) = Cardinality(upTo[k]) => i = k
    /\ \A k \in 1 .. Cardinality(P) : \E i \in P : Cardinality(upTo[i]) = k

LEMMA Ranked ==
    ASSUME NEW P, IsFiniteSet(P), NEW upTo, Nested(upTo, P)
    PROVE  Counted(upTo, P)
<1> DEFINE rank == [i \in P |-> Cardinality(upTo[i])]
           m == Cardinality(P)
<1>1. m \in Nat
  BY FS_CardinalityType
<1>2. ASSUME NEW i \in P PROVE IsFiniteSet(upTo[i]) /\ Cardinality(upTo[i]) \in 1 .. m
  <2>1. upTo[i] \in SUBSET P /\ i \in upTo[i]
    BY DEF Nested
  <2>2. IsFiniteSet(upTo[i]) /\ Cardinality(upTo[i]) <= m
    BY <2>1, FS_Subset
  <2>3. Cardinality(upTo[i]) \in Nat
    BY <2>2, FS_CardinalityType
  <2>4. Cardinality(upTo[i]) # 0
    BY <2>1, <2>2, FS_EmptySet
  <2> HIDE DEF m
  <2> QED
    BY <1>1, <2>2, <2>3, <2>4
<1>3. ASSUME NEW i \in P, NEW k \in P, upTo[i] \subseteq upTo[k], k \notin upTo[i]
      PROVE  Cardinality(upTo[i]) # Cardinality(upTo[k])
  <2>1. upTo[i] \in SUBSET upTo[k] /\ k \in upTo[k]
    BY <1>3 DEF Nested
  <2> QED
    BY <1>2, <1>3, <2>1, FS_Subset
<1>4. ASSUME NEW i \in P, NEW k \in P, i # k PROVE Cardinality(upTo[i]) # Cardinality(upTo[k])
  <2>1. \/ upTo[i] \subseteq upTo[k] /\ k \notin upTo[i]
        \/ upTo[k] \subseteq upTo[i] /\ i \notin upTo[k]
    BY <1>4 DEF Nested
  <2> QED
    BY <1>3, <2>1
<1>5. IsFiniteSet(1 .. m) /\ Cardinality(1 .. m) = m
  <2> HIDE DEF m
  <2>1. 1 \in Int /\ m \in Int
    BY <1>1
  <2>2. IsFiniteSet(1 .. m) /\ Cardinality(1 .. m) = IF 1 > m THEN 0 ELSE m - 1 + 1
    BY <2>1, FS_Interval
  <2> QED
    BY <1>1, <2>2
<1>6. rank \in Surjection(P, 1 .. m)
  <2>1. rank \in [P -> 1 .. m]
    BY <1>2
  <2>2. \A i, k \in P : rank[i] = rank[k] => i = k
    BY <1>4
  <2> HIDE DEF rank
  <2>3. rank \in Injection(P, 1 .. m)
    BY <2>1, <2>2 DEF Injection, IsInjective
  <2> QED
    BY <1>5, <2>3, FS_Injection
<1>7. \A k \in 1 .. m : \E i \in P : rank[i] = k
  <2> HIDE DEF rank, m
  <2> QED
    BY <1>6 DEF Surjection
<1> QED
  BY <1>1, <1>2, <1>4, <1>7 DEF Counted

\* What is kept of a sequence is kept once for each place, and nothing else is.
LEMMA ArrangedIs ==
    ASSUME NEW seq, NEW P, IsFiniteSet(P), NEW upTo, Nested(upTo, P)
    PROVE  /\ Cardinality(P) \in Nat
           /\ DOMAIN Arranged(seq, upTo) = 1 .. Cardinality(P)
           /\ \A k \in 1 .. Cardinality(P) :
                 \E i \in P : Cardinality(upTo[i]) = k /\ Arranged(seq, upTo)[k] = seq[i]
           /\ \A i \in P : \E k \in 1 .. Cardinality(P) : Arranged(seq, upTo)[k] = seq[i]
           /\ Arranged(seq, upTo) = [k \in 1 .. Cardinality(P) |-> Arranged(seq, upTo)[k]]
<1> DEFINE nth(k) == CHOOSE i \in P : Cardinality(upTo[i]) = k
           m == Cardinality(P)
<1>1. /\ m \in Nat
      /\ \A i \in P : Cardinality(upTo[i]) \in 1 .. m
      /\ \A i, k \in P : Cardinality(upTo[i]) = Cardinality(upTo[k]) => i = k
      /\ \A k \in 1 .. m : \E i \in P : Cardinality(upTo[i]) = k
  BY Ranked DEF Counted
<1>2. DOMAIN upTo = P
  BY DEF Nested
<1>3. Arranged(seq, upTo) = [k \in 1 .. m |-> seq[nth(k)]]
  BY <1>2 DEF Arranged
<1>4. \A k \in 1 .. m : nth(k) \in P /\ Cardinality(upTo[nth(k)]) = k
  <2> HIDE DEF m
  <2> QED
    BY <1>1
<1> HIDE DEF nth, m
<1>5. ASSUME NEW i \in P PROVE \E k \in 1 .. m : Arranged(seq, upTo)[k] = seq[i]
  <2>1. Cardinality(upTo[i]) \in 1 .. m
    BY <1>1
  <2>2. nth(Cardinality(upTo[i])) = i
    BY <1>1, <1>4, <2>1
  <2> QED
    BY <1>3, <2>1, <2>2
<1>6. \A k \in 1 .. m : \E i \in P : Cardinality(upTo[i]) = k /\ Arranged(seq, upTo)[k] = seq[i]
  BY <1>3, <1>4
<1>7. DOMAIN Arranged(seq, upTo) = 1 .. m
  BY <1>3
<1>8. Arranged(seq, upTo) = [k \in 1 .. m |-> Arranged(seq, upTo)[k]]
  BY <1>3
<1> QED
  BY <1>1, <1>5, <1>6, <1>7, <1>8 DEF m

\* Places in the order they have.
LEMMA PlacesNested ==
    ASSUME NEW n \in Nat, NEW P \in SUBSET (1 .. n)
    PROVE  IsFiniteSet(P) /\ Nested([i \in P |-> { j \in P : j <= i }], P)
<1> DEFINE upTo == [i \in P |-> { j \in P : j <= i }]
<1>1. IsFiniteSet(P)
  <2>1. IsFiniteSet(1 .. n)
    BY FS_Interval
  <2> QED
    BY <2>1, FS_Subset
<1>2. \A i \in P : i \in Int
  OBVIOUS
<1>3. ASSUME NEW i \in P, NEW k \in P, i < k PROVE upTo[i] \subseteq upTo[k] /\ k \notin upTo[i]
  <2>1. \A j \in P : j <= i => j <= k
    BY <1>2, <1>3
  <2>2. ~(k <= i)
    BY <1>2, <1>3
  <2> QED
    BY <2>1, <2>2
<1>4. upTo \in [P -> SUBSET P] /\ \A i \in P : i \in upTo[i]
  BY <1>2
<1> HIDE DEF upTo
<1>5. ASSUME NEW i \in P, NEW k \in P, i # k PROVE i < k \/ k < i
  BY <1>2, <1>5
<1>6. Nested(upTo, P)
  BY <1>3, <1>4, <1>5 DEF Nested
<1> QED
  BY <1>1, <1>6 DEF upTo

LEMMA PickedTyped ==
    ASSUME NEW S, NEW seq \in Seq(S), NEW P \in SUBSET (DOMAIN seq)
    PROVE  Picked(seq, P) \in Seq(S)
<1> DEFINE upTo == [i \in P |-> { j \in P : j <= i }]
<1>1. Len(seq) \in Nat /\ DOMAIN seq = 1 .. Len(seq) /\ \A i \in DOMAIN seq : seq[i] \in S
  OBVIOUS
<1>2. IsFiniteSet(P) /\ Nested(upTo, P)
  BY <1>1, PlacesNested
<1> HIDE DEF upTo
<1>3. /\ Cardinality(P) \in Nat
      /\ \A k \in 1 .. Cardinality(P) : \E i \in P : Cardinality(upTo[i]) = k /\ Arranged(seq, upTo)[k] = seq[i]
      /\ Arranged(seq, upTo) = [k \in 1 .. Cardinality(P) |-> Arranged(seq, upTo)[k]]
  BY <1>2, ArrangedIs
<1>4. \A k \in 1 .. Cardinality(P) : Arranged(seq, upTo)[k] \in S
  BY <1>1, <1>3
<1>5. Arranged(seq, upTo) \in Seq(S)
  BY <1>3, <1>4
<1> QED
  BY <1>5 DEF Picked, upTo

(***************************************************************************)
(* The lobby.  Out means out: no cookie, and no read under way that saw    *)
(* one.                                                                    *)
(***************************************************************************)
Calls == [kind: {"none", "login", "logout", "join"}, stage: {"none", "sent", "saved", "read"}]

LobbyTyped ==
    /\ myRuns \in Entry(Int) /\ joined \in Int /\ cookie \in BOOLEAN
    /\ left \in BOOLEAN /\ lost \in BOOLEAN
    /\ call \in Calls /\ (call.stage # "none" => call.kind # "none")

OutIsOut ==
    /\ call.kind = "logout" /\ call.stage = "saved" => ~cookie
    /\ left => /\ ~cookie /\ myRuns.data \in {NoData, LoggedOut}
               /\ myRuns.fetch = "answered" => myRuns.got = LoggedOut

\* The runs shown are those joined, or about to be read.
RunsFresh ==
    call.stage # "saved" /\ cookie /\ ~lost =>
       \/ myRuns.missed
       \/ myRuns.fetch = "asked"
       \/ myRuns.fetch = "answered" /\ myRuns.got = joined
       \/ myRuns.fetch = "idle" /\ (myRuns.stale \/ myRuns.data = joined)

LobbyInv == LobbyTyped /\ OutIsOut /\ RunsFresh

LEMMA LobbyStarts == LobbyInit => LobbyInv
<1> SUFFICES ASSUME LobbyInit PROVE LobbyInv
  OBVIOUS
<1>1. Empty \in Entry(Int) /\ Read(Empty) = Asking(Empty)
  BY DEF Empty, Entry, Read
<1>2. myRuns \in Entry(Int) /\ myRuns.fetch = "asked"
  BY <1>1 DEF LobbyInit, Asking, Entry
<1>3. call \in Calls /\ call.stage = "none" /\ call.kind = "none"
  <2>1. NoCall \in Calls /\ NoCall.stage = "none" /\ NoCall.kind = "none"
    BY DEF NoCall, Calls
  <2> QED
    BY <2>1 DEF LobbyInit
<1>4. cookie \in BOOLEAN /\ joined = 0 /\ lost = FALSE /\ left = FALSE
  BY DEF LobbyInit
<1>5. OutIsOut
  BY <1>3, <1>4 DEF OutIsOut
<1>6. RunsFresh
  BY <1>2 DEF RunsFresh
<1>7. joined \in Int
  BY <1>4
<1>8. LobbyTyped
  <2>1. lost \in BOOLEAN /\ left \in BOOLEAN
    BY <1>4, Zenon
  <2> QED
    BY <1>2, <1>3, <1>4, <1>7, <2>1, Zenon DEF LobbyTyped
<1> QED
  BY <1>5, <1>6, <1>8 DEF LobbyInv

\* What each operation of the cache does with data, read under way and staleness.
LEMMA EntryBecomes ==
    ASSUME NEW V, NEW e \in Entry(V), NEW v
    PROVE  /\ Invalidate(e).data = e.data /\ Read(e).data = e.data /\ Fail(e).data = e.data
           /\ Answer(e, v).data = e.data /\ Cancel(e).data = e.data /\ Put(e, v).data = v
           /\ Land(e).data = e.got
           /\ Invalidate(e).fetch = "asked" \/ (e.data = NoData /\ e.fetch = "answered"
                  /\ Invalidate(e).fetch = "answered" /\ Invalidate(e).got = e.got /\ Invalidate(e).missed)
           /\ Read(e).fetch = "asked" \/ (e.fetch # "idle" /\ Read(e) = e)
           /\ Answer(e, v).fetch = "answered" /\ Answer(e, v).got = v /\ Answer(e, v).missed = e.missed
           /\ Land(e).fetch = "idle" /\ Fail(e).fetch = "idle" /\ Cancel(e).fetch = "idle"
           /\ Put(e, v).fetch = e.fetch /\ Put(e, v).got = e.got
           /\ Put(e, v).missed = (e.fetch = "answered") /\ Land(e).missed = e.missed /\ Fail(e).stale
BY DEF Entry, Read, Asking, Invalidate, Answer, Land, Fail, Put, Cancel

LEMMA LobbyKept ==
    ASSUME LobbyInv, LobbyNext
    PROVE  LobbyInv'
<1>1. /\ LobbyTyped /\ OutIsOut /\ RunsFresh /\ myRuns \in Entry(Int)
  BY DEF LobbyInv, LobbyTyped
<1>2. LoggedOut \in Int /\ joined \in Int
  BY <1>1 DEF LoggedOut, LobbyTyped
<1> USE DEF LobbyInv
<1>3. CASE Login
  BY <1>1, <1>3 DEF Login, Begin, NoCall, LobbyTyped, Calls, OutIsOut, RunsFresh
<1>4. CASE Logout
  <2>1. LobbyTyped'
    BY <1>1, <1>4, EntryKept DEF Logout, Begin, NoCall, LobbyTyped, Calls
  <2>2. OutIsOut' /\ RunsFresh'
    BY <1>1, <1>4, EntryBecomes DEF Logout, Begin, NoCall, OutIsOut, RunsFresh
  <2> QED
    BY <2>1, <2>2
<1>5. CASE Join
  BY <1>1, <1>5 DEF Join, Begin, NoCall, LobbyTyped, Calls, OutIsOut, RunsFresh
<1>6. CASE CallHandled
  BY <1>1, <1>6 DEF CallHandled, LobbyTyped, Calls, OutIsOut, RunsFresh
<1>7. CASE CallSucceeds
  <2>1. LobbyTyped'
    BY <1>1, <1>2, <1>7, EntryKept DEF CallSucceeds, LobbyTyped, Calls
  <2>2. OutIsOut' /\ RunsFresh'
    BY <1>1, <1>7, EntryBecomes DEF CallSucceeds, OutIsOut, RunsFresh, LobbyTyped, Calls
  <2> QED
    BY <2>1, <2>2
<1>8. CASE CallOver
  BY <1>1, <1>8 DEF CallOver, NoCall, LobbyTyped, Calls, OutIsOut, RunsFresh
<1>9. CASE LogoutSucceeds
  <2>1. Cancel(myRuns) \in Entry(Int)
    BY <1>1, <1>2, EntryKept
  <2>2. MarkLoggedOut(myRuns) \in Entry(Int)
    BY <1>2, <2>1, EntryKept DEF MarkLoggedOut
  <2>3. MarkLoggedOut(myRuns).data = LoggedOut /\ MarkLoggedOut(myRuns).fetch = "idle"
    BY <1>1, <2>1, EntryBecomes DEF MarkLoggedOut
  <2> QED
    BY <1>1, <1>9, <2>2, <2>3 DEF LogoutSucceeds, NoCall, LobbyTyped, Calls, OutIsOut, RunsFresh
<1>10. CASE CallFails
  BY <1>1, <1>10 DEF CallFails, NoCall, LobbyTyped, Calls, OutIsOut, RunsFresh
<1>11. CASE SentToPicker \/ ToLogin
  BY <1>1, <1>11 DEF SentToPicker, ToLogin, LobbyTyped, Calls, OutIsOut, RunsFresh
<1>12. CASE SessionEnds
  BY <1>1, <1>12 DEF SessionEnds, LobbyTyped, Calls, OutIsOut, RunsFresh
<1>13. CASE LookAtPage
  <2>1. LobbyTyped'
    BY <1>1, <1>2, <1>13, EntryKept DEF LookAtPage, LobbyTyped, Calls
  <2>2. OutIsOut' /\ RunsFresh'
    BY <1>1, <1>13, EntryBecomes DEF LookAtPage, OutIsOut, RunsFresh
  <2> QED
    BY <2>1, <2>2
<1>14. CASE RunsRead
  <2> DEFINE seen == IF cookie THEN joined ELSE LoggedOut
  <2>1. seen \in Int
    BY <1>2
  <2>2. LobbyTyped'
    BY <1>1, <1>2, <1>14, <2>1, EntryKept DEF RunsRead, LobbyTyped, Calls
  <2>3. UNCHANGED <<cookie, joined, call, lost, left>>
    BY <1>14 DEF RunsRead
  <2>4. CASE myRuns.fetch = "asked" /\ myRuns' = Answer(myRuns, seen)
    BY <1>1, <2>2, <2>3, <2>4, EntryBecomes DEF OutIsOut, RunsFresh
  <2>5. CASE myRuns.fetch = "answered" /\ myRuns' = Land(myRuns)
    BY <1>1, <2>2, <2>3, <2>5, EntryBecomes DEF OutIsOut, RunsFresh
  <2>6. CASE myRuns' = Fail(myRuns)
    BY <1>1, <2>2, <2>3, <2>6, EntryBecomes DEF OutIsOut, RunsFresh
  <2> QED
    BY <1>14, <2>4, <2>5, <2>6 DEF RunsRead
<1> QED
  BY <1>3, <1>4, <1>5, <1>6, <1>7, <1>8, <1>9, <1>10, <1>11, <1>12, <1>13, <1>14 DEF LobbyNext

(***************************************************************************)
(* The clock.  The timer is set no later than the boundary the page knows, *)
(* or has gone off.                                                        *)
(***************************************************************************)
ClockTyped ==
    /\ time \in Nat /\ time <= EndOfTime /\ seenNow \in Nat /\ seenNow <= time /\ timer \in Nat
    /\ run \in Boundaries /\ engine \in Entry(Boundaries)
    /\ engine.fetch = "answered" => engine.got \in Boundaries

TimerSet ==
    LET closes == ClosesAt(engine)
    IN  closes = Never \/ seenNow >= closes \/ timer <= closes \/ timer <= time

ClockInv == ClockTyped /\ TimerSet

LEMMA ClosesAtTyped ==
    ASSUME NEW e \in Entry(Boundaries)
    PROVE  ClosesAt(e) \in Nat
BY ClockAssumption DEF ClosesAt, Entry, readOnlyFrom, Boundaries, Never

LEMMA ArmedInTime ==
    ASSUME NEW closes \in Nat, NEW seen \in Nat, NEW now \in Nat
    PROVE  /\ Armed(closes, seen, now) \in Nat
           /\ closes = Never \/ seen >= closes \/ Armed(closes, seen, now) <= closes
                \/ Armed(closes, seen, now) <= now
BY ClockAssumption DEF Armed, Never

LEMMA ClockStarts == ClockInit => ClockInv
<1> SUFFICES ASSUME ClockInit PROVE ClockInv
  OBVIOUS
<1>1. Empty \in Entry(Boundaries) /\ Read(Empty) = Asking(Empty)
  BY DEF Empty, Entry, Read
<1>2. engine \in Entry(Boundaries) /\ engine.fetch = "asked" /\ engine.data = NoData
  BY <1>1 DEF ClockInit, Asking, Entry, Empty
<1> QED
  BY <1>2, ClockAssumption DEF ClockInit, ClockInv, ClockTyped, TimerSet, ClosesAt, Never

LEMMA EngineKept ==
    ASSUME ClockInv, NEW e \in Entry(Boundaries), e.fetch = "answered" => e.got \in Boundaries,
           Engine(e), UNCHANGED <<time, run, seenNow>>
    PROVE  ClockInv'
<1>1. ClosesAt(e) \in Nat /\ ClosesAt(engine) \in Nat /\ time \in Nat /\ seenNow \in Nat
  BY ClosesAtTyped DEF ClockInv, ClockTyped
<1>2. engine' = e /\ ClosesAt(engine)' = ClosesAt(e)
  BY DEF Engine, ClosesAt
<1>3. timer' \in Nat
  BY <1>1, ArmedInTime DEF ClockInv, ClockTyped, Engine
<1>4. TimerSet'
  <2>1. CASE ClosesAt(e) = ClosesAt(engine)
    BY <1>2, <2>1 DEF ClockInv, TimerSet, Engine
  <2>2. CASE ClosesAt(e) # ClosesAt(engine)
    BY <1>1, <1>2, <2>2, ArmedInTime DEF TimerSet, Engine
  <2> QED
    BY <2>1, <2>2
<1> QED
  BY <1>2, <1>3, <1>4 DEF ClockInv, ClockTyped

LEMMA ClockKept ==
    ASSUME ClockInv, ClockNext
    PROVE  ClockInv'
<1>1. /\ ClockTyped /\ TimerSet /\ engine \in Entry(Boundaries) /\ run \in Boundaries
      /\ ClosesAt(engine) \in Nat
  BY ClosesAtTyped DEF ClockInv, ClockTyped
<1>2. CASE TimePasses
  <2>1. ClosesAt(engine)' = ClosesAt(engine)
    BY <1>2 DEF TimePasses, ClosesAt
  <2> QED
    BY <1>1, <1>2, <2>1, ClockAssumption DEF TimePasses, ClockInv, ClockTyped, TimerSet, Never
<1>3. CASE TimerFires
  <2>1. ClosesAt(engine)' = ClosesAt(engine) /\ time \in Nat
    BY <1>1, <1>3 DEF TimerFires, ClosesAt, ClockTyped
  <2>2. ClockTyped'
    BY <1>1, <1>3, <2>1, ArmedInTime DEF TimerFires, ClockTyped
  <2>3. TimerSet'
    BY <1>1, <1>3, <2>1, ArmedInTime DEF TimerFires, TimerSet
  <2> QED
    BY <2>2, <2>3 DEF ClockInv
<1>4. CASE BoundaryMoves
  BY <1>1, <1>4 DEF BoundaryMoves, ClockInv, ClockTyped, TimerSet, ClosesAt
<1>5. CASE Act \/ ActHandled
  BY <1>1, <1>5 DEF Act, ActHandled, ClockInv, ClockTyped, TimerSet, ClosesAt
<1>6. CASE RefusalLands
  <2>1. Invalidate(engine) \in Entry(Boundaries)
        /\ (Invalidate(engine).fetch = "answered" => Invalidate(engine).got \in Boundaries)
    BY <1>1, EntryKept, EntryBecomes DEF ClockTyped
  <2> QED
    BY <1>6, <2>1, EngineKept DEF RefusalLands
<1>7. CASE EngineRead
  <2>1. CASE engine.fetch = "asked" /\ Engine(Answer(engine, run))
    <3>1. Answer(engine, run) \in Entry(Boundaries) /\ Answer(engine, run).got \in Boundaries
      BY <1>1, EntryKept, EntryBecomes
    <3> QED
      BY <1>7, <2>1, <3>1, EngineKept DEF EngineRead
  <2>2. CASE engine.fetch = "answered" /\ Engine(Land(engine))
    <3>1. Land(engine) \in Entry(Boundaries) /\ Land(engine).fetch # "answered"
      BY <1>1, EntryKept, EntryBecomes
    <3> QED
      BY <1>7, <2>2, <3>1, EngineKept DEF EngineRead
  <2> QED
    BY <1>7, <2>1, <2>2 DEF EngineRead
<1> QED
  BY <1>2, <1>3, <1>4, <1>5, <1>6, <1>7 DEF ClockNext

\* A run is frozen or over from its boundary on.
LEMMA ReadOnlyFromBoundary ==
    ASSUME NEW r \in Boundaries, NEW now \in Nat, now <= EndOfTime
    PROVE  isReadOnlyPhase(derivePhase(r, now)) <=> (readOnlyFrom(r) # Never /\ now >= readOnlyFrom(r))
<1>1. /\ r.starts_at \in Nat /\ r.freeze_at \in Nat /\ r.ended_at \in Nat
      /\ r.freeze_at # Never => r.starts_at <= r.freeze_at /\ r.freeze_at <= r.ended_at
  BY ClockAssumption DEF Boundaries, Never
<1>2. isReadOnlyPhase(derivePhase(r, now)) <=> now >= r.ended_at \/ now >= r.freeze_at
  <2>1. CASE now >= r.ended_at
    <3>1. derivePhase(r, now) = "ended"
      BY <1>1, <2>1 DEF derivePhase
    <3> QED
      BY <2>1, <3>1 DEF isReadOnlyPhase
  <2>2. CASE now < r.ended_at /\ now >= r.freeze_at
    <3>1. derivePhase(r, now) = "freeze"
      BY <1>1, <2>2 DEF derivePhase
    <3> QED
      BY <2>2, <3>1 DEF isReadOnlyPhase
  <2>3. CASE now < r.ended_at /\ now < r.freeze_at
    <3>1. derivePhase(r, now) \in {"active", "announced"}
      BY <1>1, <2>3 DEF derivePhase
    <3> QED
      BY <1>1, <2>3, <3>1 DEF isReadOnlyPhase
  <2> QED
    BY <1>1, <2>1, <2>2, <2>3
<1> QED
  BY <1>1, <1>2, ClockAssumption DEF readOnlyFrom, Never

(***************************************************************************)
(* The theorems on the lobby and the clock.                                *)
(***************************************************************************)
LEMMA LobbyInvHolds == Spec => []LobbyInv
<1>1. Init => LobbyInv
  BY LobbyStarts DEF Init
<1>2. LobbyInv /\ [Next]_pageVars => LobbyInv'
  <2> SUFFICES ASSUME LobbyInv, [Next]_pageVars PROVE LobbyInv'
    OBVIOUS
  <2>1. CASE LobbyNext
    BY <2>1, LobbyKept
  <2>2. CASE UNCHANGED lobbyVars
    BY <2>2 DEF lobbyVars, LobbyInv, LobbyTyped, OutIsOut, RunsFresh
  <2> QED
    BY <2>1, <2>2, OnePage
<1> QED
  BY <1>1, <1>2, PTL DEF Spec

\* Whatever reads were under way when the account logged out, whatever other tabs do
\* to its session, the page does not take it for logged in again until it logs in.
THEOREM AccountStaysOut == Spec => []LoggedOutStaysOut
<1>1. LobbyInv => LoggedOutStaysOut
  BY DEF LobbyInv, OutIsOut, LoggedOutStaysOut, LoggedIn
<1> QED
  BY <1>1, LobbyInvHolds, PTL

\* However logins, joins and reads of the runs interleave, a picker at rest shows every
\* run that was joined.
THEOREM PickerShowsRuns == Spec => []RunsShown
<1>1. LobbyInv => RunsShown
  BY DEF LobbyInv, LobbyTyped, RunsFresh, RunsShown, NoCall, Calls
<1> QED
  BY <1>1, LobbyInvHolds, PTL

\* However logins, joins, logouts and reads interleave, the lobby's page shows who is
\* logged in, and every run that was joined.
THEOREM LobbyIsShown == Spec => []LobbyShown
  BY AccountStaysOut, PickerShowsRuns, PTL DEF LobbyShown

LEMMA ClockInvHolds == Spec => []ClockInv
<1>1. Init => ClockInv
  BY ClockStarts DEF Init
<1>2. ClockInv /\ [Next]_pageVars => ClockInv'
  <2> SUFFICES ASSUME ClockInv, [Next]_pageVars PROVE ClockInv'
    OBVIOUS
  <2>1. CASE ClockNext
    BY <2>1, ClockKept
  <2>2. CASE UNCHANGED clockVars
    BY <2>2 DEF clockVars, ClockInv, ClockTyped, TimerSet, ClosesAt
  <2> QED
    BY <2>1, <2>2, OnePage
<1> QED
  BY <1>1, <1>2, PTL DEF Spec

\* However far off a boundary is, however often the browser's longest wait has to be
\* begun again, a page's controls close when its run freezes or ends.
THEOREM ControlsCloseInTime == Spec => []ClosedInTime
<1>1. ClockInv => ClosedInTime
  <2> SUFFICES ASSUME ClockInv, engine.data # NoData, timer > time
               PROVE  IsReadOnly <=> isReadOnlyPhase(derivePhase(engine.data, time))
    BY DEF ClosedInTime
  <2> DEFINE closes == readOnlyFrom(engine.data)
  <2>1. /\ engine.data \in Boundaries /\ time \in Nat /\ time <= EndOfTime
        /\ seenNow \in Nat /\ seenNow <= time /\ timer \in Nat
    BY DEF ClockInv, ClockTyped, Entry
  <2>2. closes \in Nat /\ ClosesAt(engine) = closes
    BY ClosesAtTyped DEF ClosesAt, ClockInv, ClockTyped
  <2>3. isReadOnlyPhase(derivePhase(engine.data, time)) <=> closes # Never /\ time >= closes
    BY <2>1, ReadOnlyFromBoundary
  <2>4. closes = Never \/ seenNow >= closes \/ timer <= closes \/ timer <= time
    BY <2>2 DEF ClockInv, TimerSet
  <2> HIDE DEF closes
  <2> QED
    BY <2>1, <2>2, <2>3, <2>4 DEF IsReadOnly
<1> QED
  BY <1>1, ClockInvHolds, PTL

(***************************************************************************)
(* The plans and the vote.  With no change under way and none on its way   *)
(* to the page, what is shown or being read is what the server has.  What  *)
(* is shown of a vote settles no sooner than the vote.                     *)
(***************************************************************************)
ChoiceTyped ==
    /\ editing \in {"plans", "vote"} /\ choice \in Standing
    /\ shown \in Entry(Standing) /\ shown.data \in Standing
    /\ shown.fetch = "answered" => shown.got \in Standing
    /\ edit \in [stage: {"none", "sent", "saved", "answered", "failed"}, choice: Options \cup {Unmade},
                 retried: BOOLEAN, answer: Standing \cup {NoData}]
    /\ edit.stage = "answered" => edit.answer \in Standing

ChoiceFresh ==
    edit = NoEdit /\ ~told =>
        \/ shown.fetch = "asked"
        \/ shown.fetch = "answered" /\ shown.got = choice
        \/ shown.fetch = "idle" /\ (shown.stale \/ shown.data = choice)

SettledShown ==
    editing = "vote" =>
        /\ shown.data.settled => choice.settled
        /\ shown.fetch = "answered" =>
               /\ shown.data.settled => shown.got.settled
               /\ shown.got.settled => choice.settled

ChoiceInv == ChoiceTyped /\ ChoiceFresh /\ SettledShown

\* What the page shows once the change is over is to be read again.
LEMMA ShownAgain ==
    ASSUME NEW e \in Entry(Standing), e.data \in Standing
    PROVE  /\ Invalidate(e) \in Entry(Standing)
           /\ Invalidate(e).data = e.data /\ Invalidate(e).fetch = "asked"
BY ChoiceAssumption DEF Entry, Invalidate, Asking

LEMMA ShownPut ==
    ASSUME NEW e \in Entry(Standing), e.data \in Standing, NEW v \in Standing
    PROVE  /\ Put(e, v) \in Entry(Standing) /\ Put(e, v).data = v
           /\ WithBallot(e, v) \in Entry(Standing) /\ WithBallot(e, v).data \in Standing
           /\ WithBallot(e, v).data.settled = e.data.settled
<1>1. Put(e, v) \in Entry(Standing) /\ Put(e, v).data = v
  BY DEF Put, Entry
<1>2. CASE e.data.settled
  BY <1>1, <1>2 DEF WithBallot
<1>3. CASE ~e.data.settled
  <2> DEFINE w == [e.data EXCEPT !.made = v.made]
  <2>1. w \in Standing /\ w.settled = e.data.settled
    BY DEF Standing
  <2>2. WithBallot(e, v) = [Put(e, w) EXCEPT !.missed = @ \/ e.missed]
    BY <1>3, ChoiceAssumption DEF WithBallot, Update
  <2> HIDE DEF w
  <2>3. Put(e, w) \in Entry(Standing) /\ Put(e, w).data = w
    BY <2>1 DEF Put, Entry
  <2>4. WithBallot(e, v) \in Entry(Standing) /\ WithBallot(e, v).data = w
    BY <2>2, <2>3 DEF Entry
  <2> QED
    BY <1>1, <2>1, <2>4
<1> QED
  BY <1>2, <1>3

LEMMA ChoiceStarts == ChoiceInit => ChoiceInv
<1> SUFFICES ASSUME ChoiceInit PROVE ChoiceInv
  OBVIOUS
<1>1. choice \in Standing /\ choice.settled = FALSE
  BY DEF ChoiceInit, Standing
<1>2. /\ shown \in Entry(Standing) /\ shown.data = choice /\ shown.fetch = "idle"
  BY <1>1 DEF ChoiceInit, Loaded, Empty, Entry
<1>3. edit = NoEdit /\ NoEdit.stage = "none"
      /\ NoEdit \in [stage: {"none", "sent", "saved", "answered", "failed"}, choice: Options \cup {Unmade},
                    retried: BOOLEAN, answer: Standing \cup {NoData}]
  BY DEF ChoiceInit, NoEdit
<1>4. ChoiceTyped
  BY <1>1, <1>2, <1>3 DEF ChoiceInit, ChoiceTyped
<1> QED
  BY <1>1, <1>2, <1>4 DEF ChoiceInv, ChoiceFresh, SettledShown

LEMMA ChoiceKept ==
    ASSUME ChoiceInv, ChoiceNext
    PROVE  /\ ChoiceInv'
           /\ editing = "vote" /\ shown.data.settled => shown'.data.settled
<1>1. /\ ChoiceTyped /\ ChoiceFresh /\ SettledShown /\ choice \in Standing
      /\ shown \in Entry(Standing) /\ shown.data \in Standing
  BY DEF ChoiceInv, ChoiceTyped
<1> DEFINE kept_ == editing = "vote" /\ shown.data.settled => shown'.data.settled
<1>2. ASSUME NEW c \in Options, Choose(c)
      PROVE  ChoiceInv' /\ kept_
  <2>1. UNCHANGED <<editing, choice, shown, told>> /\ edit' # NoEdit
    BY <1>2 DEF Choose, NoEdit
  <2>2. ChoiceTyped'
    BY <1>1, <1>2 DEF Choose, ChoiceTyped, NoEdit
  <2> QED
    BY <1>1, <2>1, <2>2 DEF ChoiceInv, ChoiceFresh, SettledShown
<1>3. CASE ChoiceHandled
  <2>1. UNCHANGED <<editing, shown, told>> /\ edit' # NoEdit
    BY <1>1, <1>3 DEF ChoiceHandled, NoEdit, ChoiceTyped
  <2>2. choice'.settled = choice.settled /\ choice' \in Standing
    BY <1>1, <1>3 DEF ChoiceHandled, ChoiceTyped, Standing
  <2>3. ChoiceTyped'
    BY <1>1, <1>3, <2>1, <2>2 DEF ChoiceHandled, ChoiceTyped
  <2> QED
    BY <1>1, <2>1, <2>2, <2>3 DEF ChoiceInv, ChoiceFresh, SettledShown
<1>4. CASE ChoiceAnswered
  <2>1. UNCHANGED <<editing, choice, shown, told>> /\ edit' # NoEdit
    BY <1>1, <1>4 DEF ChoiceAnswered, NoEdit, ChoiceTyped
  <2>2. ChoiceTyped'
    BY <1>1, <1>4, <2>1 DEF ChoiceAnswered, ChoiceTyped
  <2> QED
    BY <1>1, <2>1, <2>2 DEF ChoiceInv, ChoiceFresh, SettledShown
<1>5. CASE ChoiceFails
  <2>1. UNCHANGED <<editing, choice, shown, told>> /\ edit' # NoEdit
    BY <1>1, <1>5 DEF ChoiceFails, NoEdit, ChoiceTyped
  <2>2. ChoiceTyped'
    BY <1>1, <1>5, <2>1 DEF ChoiceFails, NoEdit, ChoiceTyped
  <2> QED
    BY <1>1, <2>1, <2>2 DEF ChoiceInv, ChoiceFresh, SettledShown
<1>6. ASSUME NEW e \in Entry(Standing), e.data \in Standing, shown' = Invalidate(e),
             editing = "vote" => e.data.settled = shown.data.settled,
             edit' \in {edit, NoEdit}, UNCHANGED <<editing, choice>>
      PROVE  ChoiceInv' /\ kept_
  <2>1. shown' \in Entry(Standing) /\ shown'.data = e.data /\ shown'.fetch = "asked"
    BY <1>6, ShownAgain
  <2>2. edit'.stage \in {"none", edit.stage} /\ (edit'.stage = "answered" => edit' = edit)
        /\ edit' \in [stage: {"none", "sent", "saved", "answered", "failed"}, choice: Options \cup {Unmade},
                      retried: BOOLEAN, answer: Standing \cup {NoData}]
    <3>1. CASE edit' = edit
      BY <1>1, <3>1 DEF ChoiceTyped
    <3>2. CASE edit' = NoEdit
      BY <3>2 DEF NoEdit
    <3> QED
      BY <1>6, <3>1, <3>2
  <2>3. ChoiceTyped'
    BY <1>1, <1>6, <2>1, <2>2 DEF ChoiceTyped
  <2> QED
    BY <1>1, <1>6, <2>1, <2>3 DEF ChoiceInv, ChoiceFresh, SettledShown
<1>7. CASE ChoiceSucceeds
  <2> DEFINE e == IF editing = "vote" THEN WithBallot(shown, edit.answer) ELSE Put(shown, edit.answer)
  <2>1. edit.answer \in Standing
    BY <1>1, <1>7 DEF ChoiceSucceeds, ChoiceTyped
  <2>2. e \in Entry(Standing) /\ e.data \in Standing
        /\ (editing = "vote" => e.data.settled = shown.data.settled)
    BY <1>1, <2>1, ShownPut
  <2>3. shown' = Invalidate(e) /\ edit' = NoEdit /\ UNCHANGED <<editing, choice>>
    BY <1>7 DEF ChoiceSucceeds, SettleChoice
  <2> HIDE DEF e
  <2> QED
    BY <2>2, <2>3, <1>6
<1>8. CASE ChoiceGivenUp
  BY <1>1, <1>6, <1>8 DEF ChoiceGivenUp, SettleChoice
<1>9. CASE Settles
  <2>1. choice' \in Standing /\ choice'.settled
    BY <1>1, <1>9 DEF Settles, Standing
  <2>2. ChoiceTyped'
    BY <1>1, <1>9, <2>1 DEF Settles, ChoiceTyped
  <2> QED
    BY <1>1, <1>9, <2>1, <2>2 DEF Settles, ChoiceInv, ChoiceFresh, SettledShown
<1>10. CASE ToldSettled
  BY <1>1, <1>6, <1>10 DEF ToldSettled
<1>11. CASE ShownRead
  <2>1. UNCHANGED <<editing, choice, edit, told>>
    BY <1>11 DEF ShownRead
  <2>2. CASE shown.fetch = "asked" /\ shown' = Answer(shown, choice)
    <3>1. shown' \in Entry(Standing) /\ shown'.data = shown.data /\ shown'.fetch = "answered"
          /\ shown'.got = choice
      BY <1>1, <2>2, EntryKept, EntryBecomes
    <3>2. ChoiceTyped'
      BY <1>1, <2>1, <3>1 DEF ChoiceTyped
    <3> QED
      BY <1>1, <2>1, <3>1, <3>2 DEF ChoiceInv, ChoiceFresh, SettledShown
  <2>3. CASE shown.fetch = "answered" /\ shown' = Land(shown)
    <3>1. shown' \in Entry(Standing) /\ shown'.data = shown.got /\ shown'.fetch = "idle"
      BY <1>1, <2>3, EntryKept, EntryBecomes
    <3>2. ChoiceTyped'
      BY <1>1, <2>1, <2>3, <3>1 DEF ChoiceTyped
    <3>3. ChoiceFresh'
      BY <1>1, <2>1, <2>3, <3>1 DEF ChoiceFresh
    <3>4. SettledShown' /\ kept_
      BY <1>1, <2>1, <2>3, <3>1 DEF SettledShown
    <3> QED
      BY <3>2, <3>3, <3>4 DEF ChoiceInv
  <2> QED
    BY <1>11, <2>2, <2>3 DEF ShownRead
<1>12. CASE ShownReread
  BY <1>1, <1>6, <1>12 DEF ShownReread
<1> QED
  BY <1>2, <1>3, <1>4, <1>5, <1>7, <1>8, <1>9, <1>10, <1>11, <1>12 DEF ChoiceNext

LEMMA ChoiceInvKept ==
    ASSUME ChoiceInv, [Next]_pageVars
    PROVE  /\ ChoiceInv'
           /\ editing = "vote" /\ shown.data.settled => shown'.data.settled
<1>1. CASE ChoiceNext
  BY <1>1, ChoiceKept
<1>2. CASE UNCHANGED choiceVars
  BY <1>2 DEF choiceVars, ChoiceInv, ChoiceTyped, ChoiceFresh, SettledShown
<1> QED
  BY <1>1, <1>2, OnePage

\* However a change, the settling, reads and the server's messages interleave, and
\* whichever of them are lost, the plans or the vote shown at rest are the server's.
THEOREM ChoiceIsShown == Spec => []ChoiceShown
<1>1. Init => ChoiceInv
  BY ChoiceStarts DEF Init
<1>2. ChoiceInv /\ [Next]_pageVars => ChoiceInv'
  BY ChoiceInvKept
<1>3. ChoiceInv => ChoiceShown
  BY DEF ChoiceInv, ChoiceFresh, ChoiceShown, Rests
<1> QED
  BY <1>1, <1>2, <1>3, PTL DEF Spec

\* The answer to a ballot, however late, hides no result of the vote.
THEOREM ShownResultStays == Spec => ResultStays
<1>1. Init => ChoiceInv
  BY ChoiceStarts DEF Init
<1>2. ChoiceInv /\ [Next]_pageVars => ChoiceInv'
  BY ChoiceInvKept
<1>3. ChoiceInv /\ [Next]_pageVars =>
          [editing = "vote" /\ shown.data # NoData /\ shown.data.settled => shown'.data.settled]_pageVars
  BY ChoiceInvKept
<1> QED
  BY <1>1, <1>2, <1>3, PTL DEF Spec, ResultStays

\* For any options and number of changes, what a page shows of the plans or the vote ends
\* up as the server has it, and a result once shown stays.
THEOREM ChoiceAlwaysStays == Spec => ChoiceStays
  BY ChoiceIsShown, ShownResultStays, PTL DEF ChoiceStays

(***************************************************************************)
(* The selection.  As long as no two changes overlapped there is one under *)
(* way at the most, and its answer is the selection; once none is under    *)
(* way they are forgotten to have overlapped, and the page has read the    *)
(* selection since, or is about to.                                        *)
(***************************************************************************)
Changes ==
    {NoChange, ChangeFailed, [stage |-> "done"]}
      \cup [stage: {"sent", "saved"}, facility: Facilities, by: {"add", "remove"}]
      \cup [stage: {"answered"}, selection: Selections, bought: BOOLEAN]

Flight == {c \in Clicks : changes[c].stage \notin {"none", "done"}}

SelectionTyped ==
    /\ picked \in Selections /\ selectionChangesOverlapped \in BOOLEAN
    /\ selection \in Entry(Selections) /\ selection.data \in Selections
    /\ selection.fetch = "answered" => selection.got \in Selections
    /\ changes \in [Clicks -> Changes]
    /\ bought \in BOOLEAN /\ late \in BOOLEAN

\* An answer to this change is of the selection as it is, or from before the purchase.
Holds(change) ==
    change.stage = "answered" =>
        IF change.bought = bought THEN change.selection = picked ELSE bought

OneUntilOverlap ==
    /\ \A c \in Clicks : changes[c].stage = "answered" /\ changes[c].bought => bought
    /\ ~selectionChangesOverlapped =>
          /\ \A c, d \in Flight : c = d
          /\ \A c \in Clicks : Holds(changes[c])

SelectionFresh ==
    Flight = {} =>
        /\ ~selectionChangesOverlapped
        /\ \/ selection.missed \/ buyingTold \/ late
           \/ selection.fetch = "asked"
           \/ selection.fetch = "answered" /\ selection.got = picked
           \/ selection.fetch = "idle" /\ (selection.stale \/ selection.data = picked)

SelectionInv == SelectionTyped /\ OneUntilOverlap /\ SelectionFresh

LEMMA FlightCount ==
    /\ SelectionChangesInFlight \in Nat
    /\ SelectionChangesInFlight = 0 <=> Flight = {}
    /\ \A c \in Flight : SelectionChangesInFlight > 1 <=> Flight # {c}
<1>1. IsFiniteSet(Flight) /\ SelectionChangesInFlight = Cardinality(Flight)
  BY FS_Subset, SelectionAssumption DEF Flight, SelectionChangesInFlight
<1> HIDE DEF Flight
<1>2. Cardinality(Flight) \in Nat /\ (Cardinality(Flight) = 0 <=> Flight = {})
  BY <1>1, FS_CardinalityType, FS_EmptySet
<1>3. ASSUME NEW c \in Flight PROVE Cardinality(Flight) > 1 <=> Flight # {c}
  <2>1. Cardinality(Flight) = 1 <=> Flight = {c}
    BY <1>1, <1>3, FS_Singleton
  <2>2. Cardinality(Flight) # 0
    BY <1>2, <1>3
  <2> QED
    BY <1>2, <2>1, <2>2
<1> QED
  BY <1>1, <1>2, <1>3

LEMMA SelectionAgain ==
    ASSUME NEW e \in Entry(Selections), e.data \in Selections
    PROVE  /\ Invalidate(e) \in Entry(Selections)
           /\ Invalidate(e).data = e.data /\ Invalidate(e).fetch = "asked"
BY SelectionAssumption DEF Entry, Invalidate, Asking, Selections

LEMMA SelectionStarts == SelectionInit => SelectionInv
<1> SUFFICES ASSUME SelectionInit PROVE SelectionInv
  OBVIOUS
<1>1. picked \in Selections /\ bought \in BOOLEAN /\ late \in BOOLEAN
  BY DEF SelectionInit, Selections, Nothing
<1>2. /\ selection \in Entry(Selections) /\ selection.data = picked /\ selection.fetch = "idle"
  BY <1>1 DEF SelectionInit, Loaded, Empty, Entry
<1>3. changes \in [Clicks -> Changes] /\ \A c \in Clicks : changes[c].stage = "none"
  BY DEF SelectionInit, Changes, NoChange
<1>4. Flight = {} /\ selectionChangesOverlapped = FALSE
  BY <1>3 DEF SelectionInit, Flight
<1> QED
  BY <1>1, <1>2, <1>3, <1>4 DEF SelectionInv, SelectionTyped, OneUntilOverlap, SelectionFresh, Holds

\* A change stays under way, its stage aside.
LEMMA StaysInFlight ==
    ASSUME SelectionInv, NEW c \in Flight, NEW change \in Changes,
           change.stage \notin {"none", "done"},
           changes' = [changes EXCEPT ![c] = change],
           UNCHANGED <<selection, selectionChangesOverlapped, bought, buyingTold, late>>,
           picked' \in Selections,
           change.stage = "answered" =>
               change.selection = picked /\ change.bought = bought /\ picked' = picked
    PROVE  SelectionInv'
<1>1. c \in Clicks /\ changes \in [Clicks -> Changes]
  BY DEF SelectionInv, SelectionTyped, Flight
<1>2. Flight' = Flight
  BY <1>1 DEF Flight
<1>3. SelectionTyped'
  BY <1>1 DEF SelectionInv, SelectionTyped
<1>4. OneUntilOverlap'
  <2>1. \A d \in Clicks : changes'[d].stage = "answered" /\ changes'[d].bought => bought
    <3>1. \A d \in Clicks : changes[d].stage = "answered" /\ changes[d].bought => bought
      BY DEF SelectionInv, OneUntilOverlap
    <3> QED
      BY <1>1, <3>1
  <2> SUFFICES ASSUME ~selectionChangesOverlapped
               PROVE  /\ \A d, e \in Flight : d = e
                      /\ \A d \in Clicks : Holds(changes[d])'
    BY <1>2, <2>1 DEF OneUntilOverlap
  <2>2. \A d, e \in Flight : d = e
    BY DEF SelectionInv, OneUntilOverlap
  <2>3. ASSUME NEW d \in Clicks, changes'[d].stage = "answered"
        PROVE  changes'[d].selection = picked' /\ changes'[d].bought = bought
    <3>1. d \in Flight
      BY <1>2, <2>3 DEF Flight
    <3>2. d = c
      BY <2>2, <3>1
    <3> QED
      BY <1>1, <2>3, <3>2
  <2> QED
    BY <2>2, <2>3 DEF Holds
<1> QED
  BY <1>2, <1>3, <1>4 DEF SelectionInv, SelectionFresh

\* The last change is done, and the selection shown is the server's or read again.
LEMMA ChangeDone ==
    ASSUME SelectionInv, NEW c \in Flight, Done(c), UNCHANGED <<picked, bought, buyingTold>>,
           late' \in BOOLEAN,
           (late \/ (~selectionChangesOverlapped /\ changes[c].stage = "answered"
                       /\ changes[c].bought # bought)) => late',
           NEW settled \in Entry(Selections), settled.data \in Selections,
           settled.fetch = "answered" => settled.got \in Selections,
           ~selectionChangesOverlapped =>
               IF changes[c].stage = "answered"
                 THEN settled = selection ELSE settled.fetch = "asked",
           Settle(c, settled)
    PROVE  SelectionInv'
<1>1. c \in Clicks /\ changes \in [Clicks -> Changes] /\ picked \in Selections
      /\ selectionChangesOverlapped \in BOOLEAN
      /\ \A d \in Clicks : changes[d].stage = "answered" /\ changes[d].bought => bought
  BY DEF SelectionInv, SelectionTyped, OneUntilOverlap, Flight
<1>2. Flight' = Flight \ {c} /\ changes' \in [Clicks -> Changes]
  BY <1>1 DEF Flight, Done, Changes
<1>3. \A d \in Clicks : changes'[d].stage = "answered" => changes[d] = changes'[d] /\ d \in Flight'
  BY <1>1 DEF Done, Flight
<1>a. bought' \in BOOLEAN /\ late' \in BOOLEAN
      /\ \A d \in Clicks : changes'[d].stage = "answered" /\ changes'[d].bought => bought'
  BY <1>1, <1>3 DEF SelectionInv, SelectionTyped
<1>4. CASE ~selectionChangesOverlapped
  <2> DEFINE after == IF changes[c].stage = "answered" THEN Put(settled, changes[c].selection) ELSE settled
  <2>1. selection' = after /\ UNCHANGED selectionChangesOverlapped
    BY <1>4 DEF Settle
  <2>2. Flight' = {}
    BY <1>2, <1>4 DEF SelectionInv, OneUntilOverlap
  <2>3. CASE changes[c].stage = "answered"
    <3>1. changes[c].selection \in Selections /\ (changes[c].selection = picked \/ late')
      BY <1>1, <1>4, <2>3 DEF SelectionInv, OneUntilOverlap, Holds, Changes, NoChange, ChangeFailed
    <3>2. /\ selection' = Put(settled, changes[c].selection) /\ selection' \in Entry(Selections)
          /\ selection'.data = changes[c].selection /\ selection'.fetch = settled.fetch
          /\ selection'.got = settled.got /\ selection'.missed = (settled.fetch = "answered")
      BY <1>1, <2>1, <2>3, <3>1, EntryKept, EntryBecomes
    <3>3. SelectionFresh'
      <4>1. settled.fetch \in {"idle", "asked", "answered"}
        BY DEF Entry
      <4> QED
        BY <1>4, <2>1, <3>1, <3>2, <4>1 DEF SelectionFresh
    <3>4. SelectionTyped'
      BY <1>1, <1>2, <1>a, <2>1, <3>1, <3>2 DEF SelectionTyped
    <3> QED
      BY <1>3, <1>a, <2>2, <3>3, <3>4 DEF SelectionInv, OneUntilOverlap, Holds
  <2>4. CASE changes[c].stage # "answered"
    <3>1. selection' = settled /\ settled.fetch = "asked"
      BY <1>4, <2>1, <2>4
    <3>2. SelectionTyped'
      BY <1>1, <1>2, <1>a, <2>1, <3>1 DEF SelectionTyped
    <3> QED
      BY <1>3, <1>4, <1>a, <2>1, <2>2, <3>1, <3>2 DEF SelectionInv, OneUntilOverlap, SelectionFresh, Holds
  <2> QED
    BY <2>3, <2>4
<1>5. CASE selectionChangesOverlapped /\ SelectionChangesInFlight > 1
  <2>1. selection' = settled /\ UNCHANGED selectionChangesOverlapped
    BY <1>5 DEF Settle
  <2>2. Flight' # {}
    <3>1. Flight # {c}
      BY <1>5, FlightCount
    <3> QED
      BY <1>2, <3>1
  <2>3. SelectionTyped'
    BY <1>1, <1>2, <1>a, <2>1 DEF SelectionTyped
  <2> QED
    BY <1>5, <1>a, <2>1, <2>2, <2>3 DEF SelectionInv, OneUntilOverlap, SelectionFresh
<1>6. CASE selectionChangesOverlapped /\ ~(SelectionChangesInFlight > 1)
  <2>1. Flight' = {}
    BY <1>2, <1>6, FlightCount
  <2>2. selection' = Invalidate(settled) /\ ~selectionChangesOverlapped' /\ selectionChangesOverlapped' \in BOOLEAN
    BY <1>6 DEF Settle
  <2>3. selection' \in Entry(Selections) /\ selection'.data \in Selections /\ selection'.fetch = "asked"
    BY <2>2, SelectionAgain
  <2>4. SelectionTyped'
    BY <1>1, <1>2, <1>a, <2>2, <2>3 DEF SelectionTyped
  <2> QED
    BY <1>3, <1>a, <2>1, <2>2, <2>3, <2>4 DEF SelectionInv, OneUntilOverlap, SelectionFresh, Holds
<1> QED
  BY <1>4, <1>5, <1>6

LEMMA SelectionKept ==
    ASSUME SelectionInv, SelectionNext
    PROVE  SelectionInv'
<1>1. /\ SelectionTyped /\ OneUntilOverlap /\ SelectionFresh /\ picked \in Selections
      /\ selection \in Entry(Selections) /\ selection.data \in Selections
      /\ changes \in [Clicks -> Changes]
  BY DEF SelectionInv, SelectionTyped
<1>2. ASSUME NEW c \in Clicks, NEW f \in Facilities, NEW by \in {"add", "remove"},
             ChangeSelection(c, f, by)
      PROVE  SelectionInv'
  <2>1. Change(f, by, "sent") \in Changes /\ Change(f, by, "sent").stage = "sent"
    BY DEF Change, Changes
  <2>2. UNCHANGED <<picked, selection, bought, buyingTold, late>>
        /\ changes' = [changes EXCEPT ![c] = Change(f, by, "sent")]
        /\ selectionChangesOverlapped' = (selectionChangesOverlapped \/ SelectionChangesInFlight > 0)
        /\ changes[c].stage = "none"
    BY <1>2 DEF ChangeSelection, NoChange
  <2>3. Flight' = Flight \cup {c} /\ changes' \in [Clicks -> Changes]
    BY <1>1, <2>1, <2>2 DEF Flight
  <2>4. selectionChangesOverlapped' \in BOOLEAN
    BY <1>1, <2>2 DEF SelectionTyped
  <2>5. SelectionTyped'
    BY <1>1, <2>2, <2>3, <2>4 DEF SelectionTyped
  <2>6. OneUntilOverlap'
    <3>0. \A d \in Clicks : changes'[d].stage = "answered" /\ changes'[d].bought => bought'
      BY <1>1, <2>1, <2>2 DEF OneUntilOverlap
    <3> SUFFICES ASSUME ~selectionChangesOverlapped'
                 PROVE  /\ \A d, e \in Flight' : d = e
                        /\ \A d \in Clicks : changes'[d].stage # "answered"
      BY <3>0 DEF OneUntilOverlap, Holds
    <3>1. Flight = {}
      <4>1. ~(SelectionChangesInFlight > 0)
        BY <2>2, Zenon
      <4> QED
        BY <4>1, FlightCount
    <3>2. \A d \in Clicks : changes'[d].stage = "answered" => d \in Flight
      BY <1>1, <2>1, <2>2 DEF Flight
    <3> QED
      BY <2>3, <3>1, <3>2
  <2> QED
    BY <2>3, <2>5, <2>6 DEF SelectionInv, SelectionFresh
<1>3. ASSUME NEW c \in Clicks, SelectionChangeHandled(c)
      PROVE  SelectionInv'
  <2>1. /\ c \in Flight /\ changes[c] \in Changes /\ changes[c].stage = "sent"
        /\ changes[c] \in [stage: {"sent", "saved"}, facility: Facilities, by: {"add", "remove"}]
    BY <1>1, <1>3 DEF SelectionChangeHandled, Flight, Changes, NoChange, ChangeFailed
  <2> DEFINE change == [changes[c] EXCEPT !.stage = "saved"]
  <2>2. change \in Changes /\ change.stage = "saved" /\ ChangeFailed \in Changes
        /\ ChangeFailed.stage = "failed"
    BY <2>1 DEF Changes, ChangeFailed
  <2>3. /\ picked' \in Selections
        /\ UNCHANGED <<selection, selectionChangesOverlapped, bought, buyingTold, late>>
    BY <1>1, <1>3, <2>1 DEF SelectionChangeHandled, Selections
  <2>4. CASE changes' = [changes EXCEPT ![c] = change]
    <3> HIDE DEF change
    <3> QED
      BY <2>1, <2>2, <2>3, <2>4, StaysInFlight
  <2>5. CASE changes' = [changes EXCEPT ![c] = ChangeFailed]
    BY <2>1, <2>2, <2>3, <2>5, StaysInFlight
  <2> QED
    BY <1>3, <2>4, <2>5 DEF SelectionChangeHandled
<1>4. ASSUME NEW c \in Clicks, SelectionChangeAnswered(c)
      PROVE  SelectionInv'
  <2>1. c \in Flight
    BY <1>4 DEF SelectionChangeAnswered, Flight
  <2>2. /\ ChangeAnswered(picked, bought) \in Changes
        /\ ChangeAnswered(picked, bought).stage = "answered"
        /\ ChangeAnswered(picked, bought).selection = picked
        /\ ChangeAnswered(picked, bought).bought = bought
    BY <1>1 DEF ChangeAnswered, Changes, SelectionTyped
  <2> QED
    BY <1>1, <1>4, <2>1, <2>2, StaysInFlight DEF SelectionChangeAnswered
<1>5. ASSUME NEW c \in Clicks, SelectionAnswerLost(c)
      PROVE  SelectionInv'
  <2>1. c \in Flight /\ ChangeFailed \in Changes /\ ChangeFailed.stage = "failed"
    BY <1>5 DEF SelectionAnswerLost, Flight, ChangeFailed, Changes
  <2> QED
    BY <1>1, <1>5, <2>1, StaysInFlight DEF SelectionAnswerLost
<1>6. ASSUME NEW c \in Clicks, SelectionChangeSucceeds(c)
      PROVE  SelectionInv'
  <2>1. /\ c \in Flight /\ changes[c].stage = "answered" /\ Done(c)
        /\ UNCHANGED <<picked, bought, buyingTold>> /\ Settle(c, selection)
        /\ late' = (late \/ (~selectionChangesOverlapped /\ changes[c].bought # bought))
    BY <1>6 DEF SelectionChangeSucceeds, Flight
  <2>2. late' \in BOOLEAN
    BY <1>1, <2>1, Zenon DEF SelectionTyped
  <2> QED
    BY <1>1, <2>1, <2>2, ChangeDone DEF SelectionTyped
<1>7. ASSUME NEW c \in Clicks, SelectionChangeFails(c)
      PROVE  SelectionInv'
  <2>1. /\ c \in Flight /\ changes[c].stage # "answered" /\ Done(c)
        /\ UNCHANGED <<picked, bought, buyingTold, late>> /\ Settle(c, Invalidate(selection))
    BY <1>7 DEF SelectionChangeFails, Flight
  <2>2. /\ Invalidate(selection) \in Entry(Selections) /\ Invalidate(selection).data \in Selections
        /\ Invalidate(selection).fetch = "asked"
    BY <1>1, SelectionAgain
  <2> QED
    BY <1>1, <2>1, <2>2, ChangeDone DEF SelectionTyped
<1>8. CASE SelectionRead
  <2>1. UNCHANGED <<picked, changes, selectionChangesOverlapped, bought, buyingTold>>
        /\ Flight' = Flight /\ (late' = FALSE \/ late' = late) /\ (selection.fetch = "answered" => late' = late)
    BY <1>8 DEF SelectionRead, Flight
  <2>2. CASE selection.fetch = "asked" /\ selection' = Answer(selection, picked)
    <3>1. /\ selection' \in Entry(Selections) /\ selection'.data = selection.data
          /\ selection'.fetch = "answered" /\ selection'.got = picked
      BY <1>1, <2>2, EntryKept, EntryBecomes
    <3>2. SelectionTyped'
      BY <1>1, <2>1, <3>1 DEF SelectionTyped
    <3> QED
      BY <1>1, <2>1, <3>1, <3>2 DEF SelectionInv, SelectionFresh, OneUntilOverlap, Holds
  <2>3. CASE selection.fetch = "answered" /\ selection' = Land(selection)
    <3>1. /\ selection' \in Entry(Selections) /\ selection'.data = selection.got
          /\ selection'.fetch = "idle" /\ selection'.missed = selection.missed
      BY <1>1, <2>3, EntryKept, EntryBecomes
    <3>2. SelectionTyped'
      BY <1>1, <2>1, <2>3, <3>1 DEF SelectionTyped
    <3>3. OneUntilOverlap' /\ SelectionFresh'
      BY <1>1, <2>1, <2>3, <3>1 DEF SelectionFresh, OneUntilOverlap, Holds
    <3> QED
      BY <3>2, <3>3 DEF SelectionInv
  <2> QED
    BY <1>8, <2>2, <2>3 DEF SelectionRead
<1>9. CASE SelectionReread \/ ToldBought
  <2>1. UNCHANGED <<picked, changes, selectionChangesOverlapped, bought, late>> /\ Flight' = Flight
    BY <1>9 DEF SelectionReread, ToldBought, Flight
  <2>2. selection' \in Entry(Selections) /\ selection'.data = selection.data /\ selection'.fetch = "asked"
    BY <1>1, <1>9, SelectionAgain DEF SelectionReread, ToldBought
  <2>3. SelectionTyped'
    BY <1>1, <2>1, <2>2 DEF SelectionTyped
  <2> QED
    BY <1>1, <2>1, <2>2, <2>3 DEF SelectionInv, SelectionFresh, OneUntilOverlap, Holds
<1>10. CASE SelectionBought
  <2>1. /\ UNCHANGED <<selection, changes, selectionChangesOverlapped, late>> /\ Flight' = Flight
        /\ ~bought /\ bought' = TRUE /\ buyingTold' = TRUE /\ picked' \in Selections
    BY <1>10 DEF SelectionBought, Flight, Nothing, Selections
  <2>2. SelectionTyped'
    BY <1>1, <2>1 DEF SelectionTyped
  <2>3. \A c \in Clicks : changes[c].stage = "answered" => ~changes[c].bought
    BY <1>1, <2>1 DEF OneUntilOverlap
  <2>4. \A c \in Clicks : Holds(changes[c])'
    BY <1>1, <2>1, <2>3 DEF Holds
  <2> QED
    BY <1>1, <2>1, <2>2, <2>4 DEF SelectionInv, SelectionFresh, OneUntilOverlap
<1> QED
  BY <1>2, <1>3, <1>4, <1>5, <1>6, <1>7, <1>8, <1>9, <1>10 DEF SelectionNext

\* For any facilities and any number of changes, in whatever order they are handled and
\* answered and whichever are refused or lost, and whenever they are bought, the selection shown at rest is the server's.
THEOREM SelectionIsShown == Spec => []SelectionShown
<1>1. Init => SelectionInv
  BY SelectionStarts DEF Init
<1>2. SelectionInv /\ [Next]_pageVars => SelectionInv'
  <2> SUFFICES ASSUME SelectionInv, [Next]_pageVars PROVE SelectionInv'
    OBVIOUS
  <2>1. CASE SelectionNext
    BY <2>1, SelectionKept
  <2>2. CASE UNCHANGED selectionVars
    BY <2>2 DEF selectionVars, SelectionInv, SelectionTyped, OneUntilOverlap, SelectionFresh, Flight, Holds
  <2> QED
    BY <2>1, <2>2, OnePage
<1>3. SelectionInv => SelectionShown
  BY FlightCount DEF SelectionInv, SelectionFresh, SelectionShown, Rests
<1> QED
  BY <1>1, <1>2, <1>3, PTL DEF Spec

(***************************************************************************)
(* The prices and fuel orders.  Of a field's changes only the first has    *)
(* been sent; its answer has the value the server kept.  A field without   *)
(* changes shows that value, or is being read, but for a read that was     *)
(* overtaken.                                                              *)
(***************************************************************************)
Sendings == [value: Nat, stage: {"sent", "saved", "answered", "failed"}, retried: BOOLEAN,
             answer: Offers \cup {NoData}]

\* Field f's changes, where the server keeps v for it.
InTurn(f, queue, v) ==
    /\ queue \in Seq(Sendings)
    /\ queue # <<>> /\ queue[1].stage = "answered" =>
           queue[1].answer \in Offers /\ queue[1].answer[f] = v
    /\ \A i \in 2 .. Len(queue) : queue[i].stage = "sent"

PriceTyped ==
    /\ kept \in Offers
    /\ offer \in Entry(Offers) /\ offer.data \in Offers
    /\ offer.fetch = "answered" => offer.got \in Offers
    /\ DOMAIN sending = Fields /\ sending = [f \in Fields |-> sending[f]]

FieldFresh(f) ==
    \/ offer.missed
    \/ offer.fetch = "asked"
    \/ offer.fetch = "answered" /\ offer.got[f] = kept[f]
    \/ offer.fetch = "idle" /\ offer.data[f] = kept[f]

PriceInv ==
    /\ PriceTyped
    /\ \A f \in Fields : InTurn(f, sending[f], kept[f])
    /\ \A f \in Fields : sending[f] = <<>> => FieldFresh(f)

LEMMA FirstReplaced ==
    ASSUME NEW S, NEW queue \in Seq(S), queue # <<>>, NEW x \in S
    PROVE  /\ [queue EXCEPT ![1] = x] \in Seq(S) /\ [queue EXCEPT ![1] = x] # <<>>
           /\ Len([queue EXCEPT ![1] = x]) = Len(queue) /\ [queue EXCEPT ![1] = x][1] = x
           /\ \A i \in 2 .. Len(queue) : [queue EXCEPT ![1] = x][i] = queue[i]
OBVIOUS

LEMMA OfferAgain ==
    ASSUME NEW e \in Entry(Offers), e.data \in Offers
    PROVE  /\ Invalidate(e) \in Entry(Offers)
           /\ Invalidate(e).data = e.data /\ Invalidate(e).fetch = "asked"
BY PriceAssumption DEF Entry, Invalidate, Asking, Offers

LEMMA ValueShows ==
    ASSUME NEW e \in Entry(Offers), e.data \in Offers, NEW f \in Fields, NEW v \in Nat
    PROVE  /\ ShowValue(e, f, v) \in Entry(Offers)
           /\ ShowValue(e, f, v).data = [e.data EXCEPT ![f] = v]
           /\ ShowValue(e, f, v).data \in Offers
           /\ ShowValue(e, f, v).fetch = e.fetch /\ ShowValue(e, f, v).got = e.got
           /\ ShowValue(e, f, v).missed = (e.fetch = "answered" \/ e.missed)
<1> DEFINE w == [e.data EXCEPT ![f] = v]
<1>1. w \in Offers
  BY DEF Offers
<1>2. ShowValue(e, f, v) = [Put(e, w) EXCEPT !.missed = @ \/ e.missed]
  BY PriceAssumption DEF ShowValue, Update, Offers
<1> HIDE DEF w
<1>3. /\ Put(e, w) \in Entry(Offers) /\ Put(e, w).data = w /\ Put(e, w).fetch = e.fetch
      /\ Put(e, w).got = e.got /\ Put(e, w).missed = (e.fetch = "answered")
  BY <1>1 DEF Put, Entry
<1>4. /\ ShowValue(e, f, v) \in Entry(Offers) /\ ShowValue(e, f, v).data = w
      /\ ShowValue(e, f, v).fetch = e.fetch /\ ShowValue(e, f, v).got = e.got
      /\ ShowValue(e, f, v).missed = (e.fetch = "answered" \/ e.missed)
  BY <1>2, <1>3 DEF Entry
<1> QED
  BY <1>1, <1>4 DEF w

LEMMA PriceStarts == PriceInit => PriceInv
<1> SUFFICES ASSUME PriceInit PROVE PriceInv
  OBVIOUS
<1>1. kept \in Offers
  BY DEF PriceInit, Offers
<1>2. /\ offer \in Entry(Offers) /\ offer.data = kept /\ offer.fetch = "idle"
  BY <1>1 DEF PriceInit, Loaded, Empty, Entry
<1>3. PriceTyped /\ \A f \in Fields : sending[f] = <<>>
  BY <1>1, <1>2 DEF PriceInit, PriceTyped
<1>4. \A f \in Fields : FieldFresh(f)
  BY <1>2 DEF FieldFresh
<1>5. \A f \in Fields : InTurn(f, sending[f], kept[f])
  <2>1. <<>> \in Seq(Sendings) /\ 2 .. Len(<<>>) = {}
    OBVIOUS
  <2> QED
    BY <1>3, <2>1 DEF InTurn
<1> QED
  BY <1>3, <1>4, <1>5 DEF PriceInv

\* The change of f under way gets this far.
LEMMA UnderwayKept ==
    ASSUME PriceInv, NEW f \in Fields, sending[f] # <<>>, NEW change \in Sendings,
           UnderwayBecomes(f, change), UNCHANGED offer, kept' \in Offers,
           \A g \in Fields \ {f} : kept'[g] = kept[g],
           change.stage = "answered" => change.answer \in Offers /\ change.answer[f] = kept'[f]
    PROVE  PriceInv'
<1>1. /\ sending' = [sending EXCEPT ![f] = [sending[f] EXCEPT ![1] = change]]
      /\ \A g \in Fields : InTurn(g, sending[g], kept[g])
  BY DEF UnderwayBecomes, PriceInv
<1>2. \A g \in Fields \ {f} : sending'[g] = sending[g]
  BY <1>1 DEF PriceInv, PriceTyped
<1>3. sending'[f] = [sending[f] EXCEPT ![1] = change]
  BY <1>1 DEF PriceInv, PriceTyped
<1>4. /\ sending'[f] \in Seq(Sendings) /\ sending'[f] # <<>> /\ sending'[f][1] = change
      /\ \A i \in 2 .. Len(sending'[f]) : sending'[f][i].stage = "sent"
  BY <1>1, <1>3, FirstReplaced DEF InTurn
<1>5. PriceTyped'
  BY <1>1 DEF PriceInv, PriceTyped
<1>6. InTurn(f, sending'[f], kept'[f])
  BY <1>4 DEF InTurn
<1>7. \A g \in Fields \ {f} : InTurn(g, sending'[g], kept'[g])
  BY <1>1, <1>2
<1>8. \A g \in Fields : sending'[g] = <<>> => FieldFresh(g)'
  BY <1>2, <1>4 DEF PriceInv, FieldFresh
<1> QED
  BY <1>5, <1>6, <1>7, <1>8 DEF PriceInv

\* The change of f under way is over.
LEMMA FirstDone ==
    ASSUME PriceInv, NEW f \in Fields, sending[f] # <<>>,
           sending' = [sending EXCEPT ![f] = Tail(@)], UNCHANGED kept,
           offer' \in Entry(Offers), offer'.data \in Offers,
           offer'.fetch = "answered" => offer'.got \in Offers,
           FieldFresh(f)',
           \A g \in Fields \ {f} : FieldFresh(g) => FieldFresh(g)'
    PROVE  PriceInv'
<1>1. /\ sending'[f] = Tail(sending[f]) /\ \A g \in Fields : InTurn(g, sending[g], kept[g])
      /\ \A g \in Fields \ {f} : sending'[g] = sending[g]
  BY DEF PriceInv, PriceTyped
<1>2. sending[f] \in Seq(Sendings) /\ \A i \in 2 .. Len(sending[f]) : sending[f][i].stage = "sent"
  BY <1>1 DEF InTurn
<1>3. /\ Tail(sending[f]) \in Seq(Sendings) /\ Len(Tail(sending[f])) = Len(sending[f]) - 1
      /\ \A i \in 1 .. Len(Tail(sending[f])) : Tail(sending[f])[i] = sending[f][i + 1]
  BY <1>2
<1>4. \A i \in 1 .. Len(sending'[f]) : sending'[f][i].stage = "sent"
  <2> TAKE i \in 1 .. Len(sending'[f])
  <2>1. i \in 1 .. Len(Tail(sending[f])) /\ sending'[f][i] = Tail(sending[f])[i]
    BY <1>1
  <2>2. i \in Nat /\ i >= 1 /\ i <= Len(sending[f]) - 1 /\ Len(sending[f]) \in Nat
    BY <1>2, <1>3, <2>1
  <2>3. i + 1 \in 2 .. Len(sending[f])
    BY <2>2
  <2> QED
    BY <1>2, <1>3, <2>1, <2>3
<1>5. InTurn(f, sending'[f], kept'[f])
  <2>1. sending'[f] # <<>> => sending'[f][1].stage = "sent"
    BY <1>1, <1>3, <1>4
  <2>2. \A i \in 2 .. Len(sending'[f]) : sending'[f][i].stage = "sent"
    <3>1. Len(sending'[f]) \in Nat
      BY <1>1, <1>3
    <3> QED
      BY <1>4, <3>1
  <2> QED
    BY <1>1, <1>3, <2>1, <2>2 DEF InTurn
<1>6. PriceTyped'
  BY DEF PriceInv, PriceTyped
<1> QED
  BY <1>1, <1>5, <1>6 DEF PriceInv

LEMMA PriceKept ==
    ASSUME PriceInv, PriceNext
    PROVE  PriceInv'
<1>1. /\ PriceTyped /\ kept \in Offers /\ offer \in Entry(Offers) /\ offer.data \in Offers
      /\ \A f \in Fields : InTurn(f, sending[f], kept[f])
      /\ \A f \in Fields : sending[f] = <<>> => FieldFresh(f)
  BY DEF PriceInv, PriceTyped
<1>2. ASSUME NEW f \in Fields, NEW v \in Values, SetValue(f, v)
      PROVE  PriceInv'
  <2>1. /\ offer' = ShowValue(offer, f, v) /\ UNCHANGED kept /\ v \in Nat
        /\ sending' = [sending EXCEPT ![f] = Append(sending[f], Entered(v))]
    BY <1>2, PriceAssumption DEF SetValue
  <2>2. Entered(v) \in Sendings /\ Entered(v).stage = "sent"
    BY <2>1 DEF Entered, Sendings
  <2>3. /\ offer' \in Entry(Offers) /\ offer'.data = [offer.data EXCEPT ![f] = v]
        /\ offer'.data \in Offers /\ offer'.fetch = offer.fetch /\ offer'.got = offer.got
        /\ offer'.missed = (offer.fetch = "answered" \/ offer.missed)
    BY <1>1, <2>1, ValueShows
  <2>4. PriceTyped'
    BY <1>1, <2>1, <2>3 DEF PriceTyped
  <2>5. sending'[f] = Append(sending[f], Entered(v)) /\ \A g \in Fields \ {f} : sending'[g] = sending[g]
    BY <1>1, <2>1 DEF PriceTyped
  <2>6. InTurn(f, sending'[f], kept'[f]) /\ sending'[f] # <<>>
    <3>1. /\ sending[f] \in Seq(Sendings) /\ InTurn(f, sending[f], kept[f])
      BY <1>1 DEF InTurn
    <3>2. /\ sending'[f] \in Seq(Sendings) /\ sending'[f] # <<>> /\ Len(sending'[f]) = Len(sending[f]) + 1
          /\ \A i \in 1 .. Len(sending[f]) : sending'[f][i] = sending[f][i]
          /\ sending'[f][Len(sending[f]) + 1] = Entered(v)
      BY <2>2, <2>5, <3>1
    <3>3. \A i \in 2 .. Len(sending'[f]) : sending'[f][i].stage = "sent"
      <4> TAKE i \in 2 .. Len(sending'[f])
      <4>1. i = Len(sending[f]) + 1 \/ i \in 2 .. Len(sending[f])
        BY <3>1, <3>2
      <4> QED
        BY <2>2, <3>1, <3>2, <4>1 DEF InTurn
    <3>4. sending'[f][1].stage = "answered" =>
              sending'[f][1].answer \in Offers /\ sending'[f][1].answer[f] = kept[f]
      <4>1. CASE sending[f] = <<>>
        BY <2>2, <3>2, <4>1
      <4>2. CASE sending[f] # <<>>
        <5>1. sending'[f][1] = sending[f][1]
          BY <3>1, <3>2, <4>2
        <5> QED
          BY <3>1, <4>2, <5>1 DEF InTurn
      <4> QED
        BY <4>1, <4>2
    <3> QED
      BY <2>1, <3>2, <3>3, <3>4 DEF InTurn
  <2>7. \A g \in Fields \ {f} : FieldFresh(g) => FieldFresh(g)'
    BY <1>1, <2>1, <2>3 DEF FieldFresh, Offers, Entry
  <2> QED
    BY <1>1, <2>1, <2>4, <2>5, <2>6, <2>7 DEF PriceInv
<1>3. ASSUME NEW f \in Fields, NEW stage \in {"sent", "saved", "answered", "failed"}, Underway(f, stage)
      PROVE  /\ sending[f] # <<>> /\ Head(sending[f]) \in Sendings /\ sending[f][1] = Head(sending[f])
             /\ Head(sending[f]).stage = stage
    BY <1>1, <1>3 DEF Underway, InTurn
<1>4. ASSUME NEW f \in Fields, ValueHandled(f)
      PROVE  PriceInv'
  <2> DEFINE change == [Head(sending[f]) EXCEPT !.stage = "saved"]
  <2>1. /\ sending[f] # <<>> /\ Head(sending[f]) \in Sendings
    BY <1>3, <1>4 DEF ValueHandled
  <2>2. change \in Sendings /\ change.stage = "saved" /\ Fitting(Head(sending[f]).value) \in Nat
    BY <2>1, PriceAssumption DEF Sendings, Fitting
  <2>3. kept' \in Offers /\ \A g \in Fields \ {f} : kept'[g] = kept[g]
    BY <1>1, <1>4, <2>2 DEF ValueHandled, Offers
  <2>4. UnderwayBecomes(f, change) /\ UNCHANGED offer
    BY <1>4 DEF ValueHandled
  <2> HIDE DEF change
  <2> QED
    BY <2>1, <2>2, <2>3, <2>4, UnderwayKept
<1>5. ASSUME NEW f \in Fields, ValueAnswered(f)
      PROVE  PriceInv'
  <2> DEFINE change == [Head(sending[f]) EXCEPT !.stage = "answered", !.answer = kept]
  <2>1. /\ sending[f] # <<>> /\ Head(sending[f]) \in Sendings
    BY <1>3, <1>5 DEF ValueAnswered
  <2>2. change \in Sendings /\ change.answer = kept
    BY <1>1, <2>1 DEF Sendings
  <2>3. UnderwayBecomes(f, change) /\ UNCHANGED <<offer, kept>>
    BY <1>5 DEF ValueAnswered
  <2> HIDE DEF change
  <2> QED
    BY <1>1, <2>1, <2>2, <2>3, UnderwayKept
<1>6. ASSUME NEW f \in Fields, ValueFails(f)
      PROVE  PriceInv'
  <2>1. /\ sending[f] # <<>> /\ Head(sending[f]) \in Sendings
    BY <1>3, <1>6 DEF ValueFails
  <2> DEFINE change == IF Head(sending[f]).retried
                         THEN [Entered(Head(sending[f]).value) EXCEPT !.stage = "failed"]
                         ELSE [Entered(Head(sending[f]).value) EXCEPT !.retried = TRUE]
  <2>2. change \in Sendings /\ change.stage # "answered"
    BY <2>1 DEF Sendings, Entered
  <2>3. UnderwayBecomes(f, change) /\ UNCHANGED <<offer, kept>>
    BY <1>6 DEF ValueFails
  <2> HIDE DEF change
  <2> QED
    BY <1>1, <2>1, <2>2, <2>3, UnderwayKept
<1>7. ASSUME NEW f \in Fields, ValueSucceeds(f)
      PROVE  PriceInv'
  <2>1. /\ sending[f] # <<>> /\ sending[f][1] = Head(sending[f]) /\ Head(sending[f]).stage = "answered"
        /\ offer' = ShowValue(offer, f, Head(sending[f]).answer[f]) /\ UNCHANGED kept
        /\ sending' = [sending EXCEPT ![f] = Tail(@)]
    BY <1>3, <1>7 DEF ValueSucceeds
  <2>2. Head(sending[f]).answer[f] = kept[f] /\ kept[f] \in Nat
    BY <1>1, <2>1 DEF InTurn, Offers
  <2>3. /\ offer' \in Entry(Offers) /\ offer'.data = [offer.data EXCEPT ![f] = kept[f]]
        /\ offer'.data \in Offers /\ offer'.fetch = offer.fetch /\ offer'.got = offer.got
        /\ offer'.missed = (offer.fetch = "answered" \/ offer.missed)
    BY <1>1, <2>1, <2>2, ValueShows
  <2>4. FieldFresh(f)'
    <3>1. offer'.data[f] = kept[f] /\ offer.fetch \in {"idle", "asked", "answered"}
      BY <1>1, <2>3 DEF Offers, Entry
    <3> QED
      BY <2>1, <2>3, <3>1 DEF FieldFresh
  <2>5. \A g \in Fields \ {f} : FieldFresh(g) => FieldFresh(g)'
    BY <1>1, <2>1, <2>3 DEF FieldFresh, Offers, Entry
  <2>6. offer'.fetch = "answered" => offer'.got \in Offers
    BY <1>1, <2>3 DEF PriceTyped
  <2> QED
    BY <2>1, <2>3, <2>4, <2>5, <2>6, FirstDone
<1>8. ASSUME NEW f \in Fields, ValueGivenUp(f)
      PROVE  PriceInv'
  <2>1. sending[f] # <<>> /\ offer' = Invalidate(offer) /\ UNCHANGED kept
        /\ sending' = [sending EXCEPT ![f] = Tail(@)]
    BY <1>3, <1>8 DEF ValueGivenUp
  <2>2. offer' \in Entry(Offers) /\ offer'.data = offer.data /\ offer'.fetch = "asked"
    BY <1>1, <2>1, OfferAgain
  <2>3. \A g \in Fields : FieldFresh(g)'
    BY <2>2 DEF FieldFresh
  <2> QED
    BY <1>1, <2>1, <2>2, <2>3, FirstDone
<1>9. CASE offer' = Invalidate(offer) /\ UNCHANGED <<kept, sending>>
  <2>1. offer' \in Entry(Offers) /\ offer'.data = offer.data /\ offer'.fetch = "asked"
    BY <1>1, <1>9, OfferAgain
  <2>2. PriceTyped'
    BY <1>1, <1>9, <2>1 DEF PriceTyped
  <2> QED
    BY <1>1, <1>9, <2>1, <2>2 DEF PriceInv, FieldFresh
<1>10. CASE OfferRead
  <2>1. UNCHANGED <<kept, sending>>
    BY <1>10 DEF OfferRead
  <2>2. CASE offer.fetch = "asked" /\ offer' = Answer(offer, kept)
    <3>1. /\ offer' \in Entry(Offers) /\ offer'.data = offer.data /\ offer'.fetch = "answered"
          /\ offer'.got = kept
      BY <1>1, <2>2, EntryKept, EntryBecomes
    <3>2. PriceTyped'
      BY <1>1, <2>1, <3>1 DEF PriceTyped
    <3> QED
      BY <1>1, <2>1, <3>1, <3>2 DEF PriceInv, FieldFresh
  <2>3. CASE offer.fetch = "answered" /\ offer' = Land(offer)
    <3>1. /\ offer' \in Entry(Offers) /\ offer'.data = offer.got /\ offer'.fetch = "idle"
          /\ offer'.missed = offer.missed
      BY <1>1, <2>3, EntryKept, EntryBecomes
    <3>2. PriceTyped'
      BY <1>1, <2>1, <2>3, <3>1 DEF PriceTyped
    <3>3. \A f \in Fields : FieldFresh(f) => FieldFresh(f)'
      BY <2>1, <2>3, <3>1 DEF FieldFresh
    <3> QED
      BY <1>1, <2>1, <3>2, <3>3 DEF PriceInv
  <2> QED
    BY <1>10, <2>2, <2>3 DEF OfferRead
<1> QED
  BY <1>2, <1>4, <1>5, <1>6, <1>7, <1>8, <1>9, <1>10 DEF PriceNext, WindowCloses, OfferReread

\* For any fields and values, in whatever order changes and reads are answered and however
\* often a change fails, the values shown at rest are those the server kept.
THEOREM ValuesAreShown == Spec => []ValuesShown
<1>1. Init => PriceInv
  BY PriceStarts DEF Init
<1>2. PriceInv /\ [Next]_pageVars => PriceInv'
  <2> SUFFICES ASSUME PriceInv, [Next]_pageVars PROVE PriceInv'
    OBVIOUS
  <2>1. CASE PriceNext
    BY <2>1, PriceKept
  <2>2. CASE UNCHANGED priceVars
    BY <2>2 DEF priceVars, PriceInv, PriceTyped, FieldFresh
  <2> QED
    BY <2>1, <2>2, OnePage
<1>3. PriceInv => ValuesShown
  <2> SUFFICES ASSUME PriceInv, \A f \in Fields : sending[f] = <<>>, Rests(offer), ~offer.missed
               PROVE  offer.data = kept
    BY DEF ValuesShown
  <2>1. \A f \in Fields : offer.data[f] = kept[f]
    BY DEF PriceInv, FieldFresh, Rests
  <2> QED
    BY <2>1 DEF PriceInv, PriceTyped, Offers
<1> QED
  BY <1>1, <1>2, <1>3, PTL DEF Spec

(***************************************************************************)
(* What is read on every tick.  As long as no two components share it the  *)
(* key is registered while one uses it, and the list shown, or about to be *)
(* shown, is the server's.                                                 *)
(***************************************************************************)
TickTyped ==
    /\ projects \in Nat /\ projectList \in Entry(Nat)
    /\ linked \in BOOLEAN /\ registered \in BOOLEAN /\ shared \in BOOLEAN /\ behind \in BOOLEAN
    /\ events \in Seq({"tick", "invalidate"})
    /\ \A o \in Orders : orders[o].stage = "answered" => orders[o].answer \in Nat
    /\ DOMAIN orders = Orders

\* One component at most, unless they ever were more.
OneUser == ~shared => (\A c, d \in users : c = d) /\ (users # {} => registered)

ListFresh ==
    \/ behind \/ projectList.missed \/ events # <<>>
    \/ projectList.fetch = "asked"
    \/ projectList.fetch = "answered" /\ projectList.got = projects
    \/ /\ projectList.fetch = "idle"
       /\ \/ projectList.stale \/ projectList.data = projects
          \/ users = {} /\ projectList.data = NoData

TickInv == TickTyped /\ OneUser /\ (~shared => ListFresh)

LEMMA TickStarts == TickInit => TickInv
<1> SUFFICES ASSUME TickInit PROVE TickInv
  OBVIOUS
<1>1. projectList \in Entry(Nat) /\ projectList.fetch = "idle" /\ projectList.data = NoData
  BY DEF TickInit, Empty, Entry
<1>2. linked \in BOOLEAN /\ registered \in BOOLEAN /\ shared \in BOOLEAN /\ behind \in BOOLEAN
  BY Zenon DEF TickInit
<1>3. TickTyped
  BY <1>1, <1>2 DEF TickInit, TickTyped, NoOrder
<1> QED
  BY <1>1, <1>3 DEF TickInit, TickInv, OneUser, ListFresh

\* A change moves the list on, and the page is told or left behind.
LEMMA ChangeSent ==
    ASSUME TickInv, NEW event \in {"tick", "invalidate"}, Sent(event) \/ NotTold,
           UNCHANGED <<linked, users, registered, projectList, shared>>,
           projects' \in Nat, DOMAIN orders' = Orders,
           \A o \in Orders : orders'[o].stage = "answered" => orders'[o].answer \in Nat
    PROVE  TickInv'
<1>1. events' \in Seq({"tick", "invalidate"}) /\ behind' \in BOOLEAN
  <2>1. CASE Sent(event)
    BY <2>1 DEF Sent, TickInv, TickTyped
  <2>2. CASE NotTold
    BY <2>2 DEF NotTold, TickInv, TickTyped
  <2> QED
    BY <2>1, <2>2
<1>2. events' # <<>> \/ behind'
  <2>1. CASE Sent(event) /\ linked
    <3>1. Len(events') = Len(events) + 1 /\ Len(events) \in Nat
      BY <2>1 DEF Sent, TickInv, TickTyped
    <3> QED
      BY <1>1, <3>1
  <2>2. CASE Sent(event) /\ ~linked
    BY <2>2 DEF Sent
  <2>3. CASE NotTold
    BY <2>3 DEF NotTold
  <2> QED
    BY <2>1, <2>2, <2>3
<1> QED
  BY <1>1, <1>2 DEF TickInv, TickTyped, OneUser, ListFresh

LEMMA LookedFresh ==
    ASSUME TickInv, NEW e, e = projectList \/ e = Read(projectList), Looked(e)
    PROVE  /\ projectList' \in Entry(Nat) /\ behind' \in BOOLEAN
           /\ \/ UNCHANGED <<projectList, behind>>
              \/ projectList'.fetch = "asked"
<1>1. projectList \in Entry(Nat) /\ behind \in BOOLEAN
  BY DEF TickInv, TickTyped
<1>2. Read(projectList) \in Entry(Nat)
  BY <1>1 DEF Entry, Read, Asking
<1>3. Read(projectList).fetch = "asked" \/ Read(projectList) = projectList
  BY <1>1, EntryBecomes
<1>4. e = projectList => UNCHANGED <<projectList, behind>>
  BY <1>1 DEF Looked
<1>5. behind' \in BOOLEAN /\ projectList' = e
  BY DEF Looked
<1> QED
  BY <1>1, <1>2, <1>3, <1>4, <1>5

LEMMA CommitKeeps ==
    ASSUME TickInv, NEW new \in SUBSET Components, Commit(new)
    PROVE  TickInv'
<1> DEFINE comes == new \ users
           leaves == users \ new
<1>1. /\ TickTyped /\ OneUser /\ users' = new
      /\ UNCHANGED <<projects, linked, events, orders>>
  BY DEF Commit, TickInv
<1>2. registered' = (comes # {} \/ (registered /\ leaves = {})) /\ registered' \in BOOLEAN
  BY DEF Commit
<1>3. shared' = (shared \/ \E c, d \in new : c # d) /\ shared' \in BOOLEAN
  BY DEF Commit
<1>4. OneUser'
  <2> SUFFICES ASSUME ~shared' PROVE (\A c, d \in new : c = d) /\ (new # {} => registered')
    BY <1>1 DEF OneUser
  <2>1. ~shared /\ \A c, d \in new : c = d
    BY <1>3
  <2>2. ASSUME new # {}, comes = {} PROVE leaves = {} /\ registered
    BY <1>1, <2>1, <2>2 DEF OneUser
  <2> QED
    BY <1>2, <2>1, <2>2
<1>5. CASE comes = {}
  <2>1. UNCHANGED <<projectList, behind>>
    BY <1>5 DEF Commit
  <2>2. TickTyped'
    BY <1>1, <1>2, <1>3, <2>1 DEF TickTyped
  <2>3. users = {} => users' = {}
    BY <1>1, <1>5
  <2>4. ~shared' => ListFresh'
    BY <1>1, <1>3, <2>1, <2>3 DEF TickInv, ListFresh
  <2> QED
    BY <1>4, <2>2, <2>4 DEF TickInv
<1>6. CASE comes # {}
  <2>1. PICK e \in Mounted(projectList) : Looked(e)
    BY <1>6 DEF Commit
  <2>2. e = projectList \/ e = Read(projectList)
    BY <2>1 DEF Mounted
  <2>3. /\ projectList' \in Entry(Nat) /\ behind' \in BOOLEAN
        /\ UNCHANGED <<projectList, behind>> \/ projectList'.fetch = "asked"
    BY <2>1, <2>2, LookedFresh
  <2>4. TickTyped'
    BY <1>1, <1>2, <1>3, <2>3 DEF TickTyped
  <2>5. projectList.data = NoData => projectList'.fetch # "idle"
    <3> SUFFICES ASSUME projectList.data = NoData PROVE projectList'.fetch # "idle"
      OBVIOUS
    <3>1. e = Read(projectList) /\ projectList' = e
      BY <2>1 DEF Mounted, Looked
    <3> QED
      BY <1>1, <3>1, EntryBecomes DEF TickTyped
  <2>6. ~shared' => ListFresh'
    <3> SUFFICES ASSUME ~shared' PROVE ListFresh'
      OBVIOUS
    <3>1. ListFresh
      BY <1>3 DEF TickInv
    <3>2. CASE projectList'.fetch = "asked"
      BY <3>2 DEF ListFresh
    <3>3. CASE UNCHANGED <<projectList, behind>>
      BY <1>1, <2>5, <3>1, <3>3 DEF ListFresh
    <3> QED
      BY <2>3, <3>2, <3>3
  <2> QED
    BY <1>4, <2>4, <2>6 DEF TickInv
<1> QED
  BY <1>5, <1>6

LEMMA ReadAgainFresh ==
    ASSUME TickInv, ReadAgain, UNCHANGED <<projects, linked, users, registered, orders, shared>>,
           events' \in Seq({"tick", "invalidate"})
    PROVE  TickInv'
<1>1. projectList \in Entry(Nat) /\ behind \in BOOLEAN
  BY DEF TickInv, TickTyped
<1>2. CASE users = {}
  <2>1. UNCHANGED behind /\ projectList' = [projectList EXCEPT
                 !.stale = TRUE, !.missed = @ \/ projectList.fetch = "answered"]
    BY <1>2 DEF ReadAgain
  <2>2. projectList' \in Entry(Nat) /\ projectList'.fetch = projectList.fetch
    BY <1>1, <2>1 DEF Entry
  <2>3. projectList'.stale /\ (projectList.fetch = "answered" => projectList'.missed)
    BY <1>1, <2>1 DEF Entry
  <2>4. ListFresh'
    BY <1>1, <2>2, <2>3 DEF ListFresh, Entry
  <2> QED
    BY <2>1, <2>2, <2>4 DEF TickInv, TickTyped, OneUser
<1>3. CASE users # {}
  <2>1. projectList' = Invalidate(projectList) /\ behind' \in BOOLEAN
    BY <1>3 DEF ReadAgain
  <2>2. projectList' \in Entry(Nat)
    BY <1>1, <2>1 DEF Entry, Invalidate, Asking, Read
  <2>3. projectList'.fetch = "asked" \/ projectList'.missed
    BY <1>1, <2>1, EntryBecomes
  <2> QED
    BY <2>1, <2>2, <2>3 DEF TickInv, TickTyped, OneUser, ListFresh
<1> QED
  BY <1>2, <1>3

LEMMA TickKept ==
    ASSUME TickInv, TickNext
    PROVE  TickInv'
<1>1. /\ TickTyped /\ OneUser /\ projectList \in Entry(Nat) /\ projects \in Nat
      /\ ~shared => ListFresh
  BY DEF TickInv, TickTyped
<1>2. CASE Tick
  BY <1>1, <1>2, ChangeSent DEF Tick, TickTyped
<1>3. CASE TickHeard
  <2>1. events' \in Seq({"tick", "invalidate"})
    BY <1>1, <1>3 DEF TickHeard, Hears, TickTyped
  <2>2. UNCHANGED <<projects, linked, users, registered, orders, shared>>
    BY <1>3 DEF TickHeard, Hears
  <2>3. CASE registered
    BY <1>3, <2>1, <2>2, <2>3, ReadAgainFresh DEF TickHeard
  <2>4. CASE ~registered
    <3>1. UNCHANGED projectList /\ behind' = (behind \/ users = {}) /\ behind' \in BOOLEAN
      BY <1>3, <2>4 DEF TickHeard
    <3>2. ~shared => behind'
      BY <1>1, <2>4, <3>1 DEF OneUser
    <3> QED
      BY <1>1, <2>1, <2>2, <3>1, <3>2 DEF TickInv, TickTyped, OneUser, ListFresh
  <2> QED
    BY <2>3, <2>4
<1>4. CASE InvalidateHeard
  <2>1. events' \in Seq({"tick", "invalidate"})
    BY <1>1, <1>4 DEF InvalidateHeard, Hears, TickTyped
  <2> QED
    BY <1>4, <2>1, ReadAgainFresh DEF InvalidateHeard, Hears
<1>5. CASE \E new \in SUBSET Components : Commit(new)
  BY <1>5, CommitKeeps
<1>6. CASE LookAtProjects
  <2>1. /\ projectList' \in Entry(Nat) /\ behind' \in BOOLEAN
        /\ UNCHANGED <<projectList, behind>> \/ projectList'.fetch = "asked"
    BY <1>6, LookedFresh DEF LookAtProjects
  <2> QED
    BY <1>1, <1>6, <2>1 DEF LookAtProjects, TickInv, TickTyped, OneUser, ListFresh
<1>7. CASE ProjectsRead
  <2>1. UNCHANGED <<projects, linked, events, users, registered, orders, shared, behind>>
    BY <1>7 DEF ProjectsRead
  <2>2. CASE projectList' = Answer(projectList, projects)
    <3>1. /\ projectList' \in Entry(Nat) /\ projectList'.fetch = "answered"
          /\ projectList'.got = projects
      BY <1>1, <2>2, EntryKept, EntryBecomes
    <3> QED
      BY <1>1, <2>1, <3>1 DEF TickInv, TickTyped, OneUser, ListFresh
  <2>3. CASE projectList.fetch = "answered" /\ projectList' = Land(projectList)
    <3>1. /\ projectList' \in Entry(Nat) /\ projectList'.fetch = "idle"
          /\ projectList'.data = projectList.got /\ projectList'.missed = projectList.missed
      BY <1>1, <2>3, EntryBecomes DEF Entry, Land
    <3> QED
      BY <1>1, <2>1, <2>3, <3>1 DEF TickInv, TickTyped, OneUser, ListFresh
  <2>4. CASE projectList' = Fail(projectList)
    <3>1. projectList' \in Entry(Nat) /\ projectList'.fetch = "idle" /\ projectList'.stale
      BY <1>1, <2>4, EntryBecomes DEF Entry, Fail
    <3> QED
      BY <1>1, <2>1, <3>1 DEF TickInv, TickTyped, OneUser, ListFresh
  <2> QED
    BY <1>7, <2>2, <2>3, <2>4 DEF ProjectsRead
<1>8. CASE Relinked
  BY <1>1, <1>8 DEF Relinked, TickInv, TickTyped, OneUser, ListFresh
<1>9. CASE LinkDrops
  <2>1. events' = <<>> /\ behind' = (behind \/ events # <<>>) /\ behind' \in BOOLEAN
    BY <1>9 DEF LinkDrops
  <2>2. linked' \in BOOLEAN
    BY <1>9 DEF LinkDrops
  <2>3. UNCHANGED <<projects, users, registered, projectList, orders, shared>>
    BY <1>9 DEF LinkDrops
  <2>4. ListFresh => ListFresh'
    BY <2>1, <2>3 DEF ListFresh
  <2>5. TickTyped'
    BY <1>1, <2>1, <2>2, <2>3 DEF TickTyped
  <2> QED
    BY <1>1, <2>3, <2>4, <2>5 DEF TickInv, OneUser
<1>10. ASSUME NEW o \in Orders, Order(o) PROVE TickInv'
  BY <1>1, <1>10 DEF Order, TickInv, TickTyped, OneUser, ListFresh
<1>11. ASSUME NEW o \in Orders, OrderHandled(o) PROVE TickInv'
  <2>1. UNCHANGED <<linked, users, registered, projectList, shared>>
    BY <1>11 DEF OrderHandled
  <2>2. CASE /\ projects' = projects + 1
             /\ Sent("invalidate") \/ NotTold
             /\ orders' = [orders EXCEPT ![o] = [stage |-> "answered", answer |-> projects']]
    <3>1. projects' \in Nat
      BY <1>1, <2>2
    <3>2. /\ DOMAIN orders' = Orders
          /\ \A q \in Orders : orders'[q].stage = "answered" => orders'[q].answer \in Nat
      BY <1>1, <2>2, <3>1 DEF TickTyped
    <3> QED
      BY <2>1, <2>2, <3>1, <3>2, ChangeSent
  <2>3. CASE /\ orders' = [orders EXCEPT ![o].stage = "done"]
             /\ UNCHANGED <<projects, events, behind>>
    <3>1. /\ DOMAIN orders' = Orders
          /\ \A q \in Orders : orders'[q].stage = "answered" => orders'[q].answer \in Nat
      BY <1>1, <2>3 DEF TickTyped
    <3> QED
      BY <1>1, <2>1, <2>3, <3>1 DEF TickInv, TickTyped, OneUser, ListFresh
  <2> QED
    BY <1>11, <2>2, <2>3 DEF OrderHandled
<1>12. ASSUME NEW o \in Orders, OrderLands(o) PROVE TickInv'
  <2>1. /\ UNCHANGED <<projects, linked, events, users, registered, shared>>
        /\ orders[o].stage = "answered"
        /\ orders' = [orders EXCEPT ![o] = [stage |-> "done", answer |-> NoData]]
    BY <1>12 DEF OrderLands
  <2>2. /\ DOMAIN orders' = Orders
        /\ \A q \in Orders : orders'[q].stage = "answered" => orders'[q].answer \in Nat
    BY <1>1, <2>1 DEF TickTyped
  <2>3. CASE projectList' = Put(projectList, orders[o].answer) /\ behind' = (orders[o].answer # projects)
    <3> DEFINE answer == orders[o].answer
    <3>1. answer \in Nat
      BY <1>1, <2>1 DEF TickTyped
    <3>2. /\ projectList' \in Entry(Nat) /\ projectList'.data = answer
          /\ projectList'.fetch = projectList.fetch
          /\ projectList'.missed = (projectList.fetch = "answered")
      BY <1>1, <2>3, <3>1, EntryKept, EntryBecomes
    <3>3. behind' \in BOOLEAN /\ (behind' \/ answer = projects)
      BY <2>3
    <3>4. ListFresh'
      BY <1>1, <2>1, <3>2, <3>3 DEF ListFresh, Entry
    <3> QED
      BY <1>1, <2>1, <2>2, <3>2, <3>3, <3>4 DEF TickInv, TickTyped, OneUser
  <2>4. CASE UNCHANGED <<projectList, behind>>
    BY <1>1, <2>1, <2>2, <2>4 DEF TickInv, TickTyped, OneUser, ListFresh
  <2> QED
    BY <1>12, <2>3, <2>4 DEF OrderLands
<1> QED
  BY <1>2, <1>3, <1>4, <1>5, <1>6, <1>7, <1>8, <1>9, <1>10, <1>11, <1>12 DEF TickNext

\* For any components and changes, what one component at a time uses is read again on
\* every tick, and shown at rest as the server has it.
THEOREM ProjectsAreShown == Spec => []ProjectsShown
<1>1. Init => TickInv
  BY TickStarts DEF Init
<1>2. TickInv /\ [Next]_pageVars => TickInv'
  <2> SUFFICES ASSUME TickInv, [Next]_pageVars PROVE TickInv'
    OBVIOUS
  <2>1. CASE TickNext
    BY <2>1, TickKept
  <2>2. CASE UNCHANGED tickVars
    BY <2>2 DEF tickVars, TickInv, TickTyped, OneUser, ListFresh
  <2> QED
    BY <2>1, <2>2, OnePage
<1>3. TickInv => ProjectsShown
  BY DEF TickInv, ListFresh, ProjectsShown, Shown, Rests
<1> QED
  BY <1>1, <1>2, <1>3, PTL DEF Spec

(***************************************************************************)
(* The messages.  What is shown reaches back to some message of the chat,  *)
(* and lacks of those since only what is on its way.                       *)
(***************************************************************************)
Texts     == [chat: Chats, id: Int, mine: BOOLEAN]
ChatReads == [stage: {"asked", "answered"}, chat: Chats, before: Int, got: Seq(Texts), more: BOOLEAN]
Outgoing  == [temp: Int, chat: Chats, stage: {"sent", "saved"}, real: Int]

\* The messages of a chat, as the server numbers them.
Numbered(seq, c) == \A i \in DOMAIN seq : seq[i].chat = c /\ seq[i].id = i - 1

ChatTyped ==
    /\ posted \in [Chats -> Seq(Texts)]
    /\ chatId \in Chats \cup {NoChat}
    /\ messages \in Seq(Texts) /\ hasMore \in BOOLEAN /\ overtaken \in BOOLEAN
    /\ load \in ChatReads \cup {NoLoad} /\ older \in ChatReads \cup {NoLoad}
    /\ counts \in [sent: Nat, selected: Nat]
    /\ inbox \in Seq(Texts) /\ sends \subseteq Outgoing

\* Each message on its way to the page is one of its chat, and comes once.
EventsKnown ==
    /\ \A c \in Chats : Numbered(posted[c], c)
    /\ \A k \in DOMAIN inbox : /\ inbox[k].id \in 0 .. Len(posted[inbox[k].chat]) - 1
                               /\ inbox[k] = posted[inbox[k].chat][inbox[k].id + 1]
    /\ \A j, k \in DOMAIN inbox : inbox[j] = inbox[k] => j = k

\* The player's messages on their way have ids of their own, and are saved as others.
SendsKnown ==
    /\ \A s \in sends : s.temp \in -counts.sent .. -1
    /\ \A s, u \in sends : s.temp = u.temp => s = u
    /\ \A s \in sends : s.stage = "saved" =>
          s.real \in 0 .. Len(posted[s.chat]) - 1 /\ posted[s.chat][s.real + 1].mine
    /\ \A s, u \in sends : s.stage = "saved" /\ u.stage = "saved" /\ s.chat = u.chat /\ s.real = u.real
                              => s = u

\* got are the last of the first n messages of seq, as many as the server answers with.
LastOfFirst(got, seq, n) ==
    /\ n \in 0 .. Len(seq)
    /\ Len(got) = IF n > PageSize THEN PageSize ELSE n
    /\ \A i \in DOMAIN got : got[i] = seq[n - Len(got) + i]

\* A read of the newest messages is of the chat selected, and saw the first n of it.
Sees(read, n) == LastOfFirst(read.got, posted[read.chat], n) /\ (read.more <=> n > PageSize)
LoadKnown ==
    load # NoLoad =>
       /\ load.chat = chatId
       /\ load.stage = "answered" => \E n \in Nat : Sees(load, n)

\* The messages of the chat selected that are not shown yet as the server has them.
Coming == { inbox[k].id : k \in { j \in DOMAIN inbox : inbox[j].chat = chatId /\ ~inbox[j].mine } }
          \cup { s.real : s \in { u \in sends : u.stage = "saved" } }

\* Those shown are the ones of seq, chat c's, from the lo-th but for the coming, each
\* once, and the player's own.
AsPosted(m, lo, seq, coming) == m.id \in (lo .. Len(seq) - 1) \ coming /\ m = seq[m.id + 1]
OnlyHere(m, c, own)          == m.chat = c /\ m.mine /\ \E s \in own : s.temp = m.id
Shows(lo, list, c, seq, coming, own) ==
    /\ lo \in 0 .. Len(seq)
    /\ lo > 0 => list # <<>> /\ list[1].id = lo
    /\ \A i, j \in DOMAIN list : list[i].id = list[j].id => i = j
    /\ \A i \in DOMAIN list : AsPosted(list[i], lo, seq, coming) \/ OnlyHere(list[i], c, own)
    /\ \A id \in (lo .. Len(seq) - 1) \ coming : \E i \in DOMAIN list : list[i].id = id
    /\ \A s \in own : s.chat = c /\ \E i \in DOMAIN list : list[i].id = s.temp

\* What is on its way comes after the lo-th, and a read of older ones was for those before it.
ReachesBackTo(lo) ==
    /\ \A k \in DOMAIN inbox : inbox[k].chat = chatId => inbox[k].id >= lo
    /\ \A s \in sends : s.stage = "saved" => s.real >= lo
    /\ older # NoLoad =>
          /\ older.chat = chatId /\ older.before = lo /\ lo > 0
          /\ older.stage = "answered" => Sees(older, lo)

AtRest == chatId # NoChat /\ load = NoLoad
Follows == \E lo \in Nat : /\ Shows(lo, messages, chatId, posted[chatId], Coming, sends)
                           /\ hasMore <=> lo > 0
                           /\ ReachesBackTo(lo)
MessagesFollow == ~overtaken => /\ older # NoLoad => AtRest
                                /\ AtRest => Follows

ChatInv == ChatTyped /\ EventsKnown /\ SendsKnown /\ LoadKnown /\ MessagesFollow

LEMMA Lengthened ==
    ASSUME NEW S, NEW seq \in Seq(S), NEW e \in S
    PROVE  /\ Append(seq, e) \in Seq(S) /\ Len(seq) \in Nat
           /\ Len(Append(seq, e)) = Len(seq) + 1
           /\ DOMAIN seq = 1 .. Len(seq) /\ DOMAIN Append(seq, e) = 1 .. Len(seq) + 1
           /\ \A i \in 1 .. Len(seq) : Append(seq, e)[i] = seq[i]
           /\ Append(seq, e)[Len(seq) + 1] = e
OBVIOUS

LEMMA Shortened ==
    ASSUME NEW S, NEW seq \in Seq(S), seq # <<>>
    PROVE  /\ Tail(seq) \in Seq(S) /\ Len(seq) \in Nat /\ Len(seq) > 0
           /\ DOMAIN seq = 1 .. Len(seq) /\ DOMAIN Tail(seq) = 1 .. Len(seq) - 1
           /\ Head(seq) = seq[1] /\ Head(seq) \in S
           /\ \A i \in 1 .. Len(seq) - 1 : Tail(seq)[i] = seq[i + 1]
OBVIOUS

LEMMA PutBefore ==
    ASSUME NEW S, NEW front \in Seq(S), NEW seq \in Seq(S)
    PROVE  /\ front \o seq \in Seq(S)
           /\ Len(front) \in Nat /\ Len(seq) \in Nat
           /\ DOMAIN front = 1 .. Len(front) /\ DOMAIN seq = 1 .. Len(seq)
           /\ DOMAIN (front \o seq) = 1 .. Len(front) + Len(seq)
           /\ \A i \in 1 .. Len(front) : (front \o seq)[i] = front[i]
           /\ \A i \in 1 .. Len(seq) : (front \o seq)[Len(front) + i] = seq[i]
OBVIOUS

LEMMA SubSeqIs ==
    ASSUME NEW S, NEW seq \in Seq(S), NEW m \in Int, NEW n \in Int, 1 <= m, m <= n + 1, n <= Len(seq)
    PROVE  /\ SubSeq(seq, m, n) \in Seq(S) /\ Len(SubSeq(seq, m, n)) = n - m + 1
           /\ \A i \in 1 .. n - m + 1 : SubSeq(seq, m, n)[i] = seq[m + i - 1]
<1>1. \A i \in m .. n : seq[i] \in S
  <2> SUFFICES ASSUME NEW i \in m .. n PROVE seq[i] \in S
    OBVIOUS
  <2>1. Len(seq) \in Nat
    OBVIOUS
  <2>2. i \in 1 .. Len(seq)
    BY <2>1
  <2> QED
    BY <2>2
<1> QED
  BY <1>1, SubSeqProperties

LEMMA TakenOut ==
    ASSUME NEW S, NEW seq \in Seq(S), NEW gone \in DOMAIN seq
    PROVE  /\ RemoveAt(seq, gone) \in Seq(S)
           /\ Len(seq) \in Nat /\ DOMAIN seq = 1 .. Len(seq)
           /\ DOMAIN RemoveAt(seq, gone) = 1 .. Len(seq) - 1
           /\ \A i \in 1 .. Len(seq) - 1 :
                 RemoveAt(seq, gone)[i] = IF i < gone THEN seq[i] ELSE seq[i + 1]
<1> DEFINE before == SubSeq(seq, 1, gone - 1)
           after  == SubSeq(seq, gone + 1, Len(seq))
<1>1. Len(seq) \in Nat /\ DOMAIN seq = 1 .. Len(seq) /\ gone \in 1 .. Len(seq)
  OBVIOUS
<1>2. /\ before \in Seq(S) /\ Len(before) = gone - 1
      /\ \A i \in 1 .. gone - 1 : before[i] = seq[i]
  BY <1>1, SubSeqIs
<1>3. /\ after \in Seq(S) /\ Len(after) = Len(seq) - gone
      /\ \A i \in 1 .. Len(seq) - gone : after[i] = seq[gone + i]
  <2>1. /\ after \in Seq(S) /\ Len(after) = Len(seq) - (gone + 1) + 1
        /\ \A i \in 1 .. Len(seq) - (gone + 1) + 1 : after[i] = seq[gone + 1 + i - 1]
    BY <1>1, SubSeqIs
  <2> HIDE DEF after
  <2> QED
    BY <1>1, <2>1
<1>4. RemoveAt(seq, gone) = before \o after
  BY DEF RemoveAt
<1> HIDE DEF before, after
<1>5. /\ before \o after \in Seq(S) /\ DOMAIN (before \o after) = 1 .. Len(seq) - 1
      /\ \A i \in 1 .. Len(before) : (before \o after)[i] = before[i]
      /\ \A i \in 1 .. Len(after) : (before \o after)[Len(before) + i] = after[i]
  <2>1. Len(before) + Len(after) = Len(seq) - 1
    BY <1>1, <1>2, <1>3
  <2>2. /\ before \o after \in Seq(S) /\ DOMAIN (before \o after) = 1 .. Len(before) + Len(after)
        /\ \A i \in 1 .. Len(before) : (before \o after)[i] = before[i]
        /\ \A i \in 1 .. Len(after) : (before \o after)[Len(before) + i] = after[i]
    <3>1. before \in Seq(S) /\ after \in Seq(S)
      BY <1>2, <1>3
    <3> QED
      BY <3>1, PutBefore
  <2>3. 1 .. Len(before) + Len(after) = 1 .. Len(seq) - 1
    BY <2>1
  <2>4. DOMAIN (before \o after) = 1 .. Len(seq) - 1
    BY <2>2, <2>3
  <2> QED
    BY <2>2, <2>4
<1>6. ASSUME NEW i \in 1 .. Len(seq) - 1
      PROVE  (before \o after)[i] = IF i < gone THEN seq[i] ELSE seq[i + 1]
  <2>1. CASE i < gone
    <3>1. i \in 1 .. Len(before) /\ i \in 1 .. gone - 1
      BY <1>1, <1>2, <2>1
    <3> QED
      BY <1>2, <1>5, <2>1, <3>1
  <2>2. CASE ~(i < gone)
    <3> DEFINE j == i - (gone - 1)
    <3>1. j \in 1 .. Len(after) /\ Len(before) + j = i /\ gone + j = i + 1 /\ j \in 1 .. Len(seq) - gone
      BY <1>1, <1>2, <1>3, <2>2
    <3> HIDE DEF j
    <3>2. (before \o after)[Len(before) + j] = after[j] /\ after[j] = seq[gone + j]
      BY <1>3, <1>5, <3>1
    <3> QED
      BY <2>2, <3>1, <3>2
  <2> QED
    BY <2>1, <2>2
<1> QED
  BY <1>1, <1>4, <1>5, <1>6

\* What the server answers with, when it looks at the first n messages of a chat.
LEMMA AnswerIs ==
    ASSUME NEW seq \in Seq(Texts), NEW n \in 0 .. Len(seq)
    PROVE  /\ Newest(SubSeq(seq, 1, n)).messages \in Seq(Texts)
           /\ Newest(SubSeq(seq, 1, n)).more \in BOOLEAN
           /\ Newest(SubSeq(seq, 1, n)).more <=> n > PageSize
           /\ LastOfFirst(Newest(SubSeq(seq, 1, n)).messages, seq, n)
<1> DEFINE first == SubSeq(seq, 1, n)
           last  == LastOf(first, PageSize)
<1>1. PageSize \in Nat \ {0} /\ Len(seq) \in Nat /\ n \in Nat
  BY ChatAssumption
<1>2. first \in Seq(Texts) /\ Len(first) = n /\ \A i \in 1 .. n : first[i] = seq[i]
  <2>1. /\ first \in Seq(Texts) /\ Len(first) = n - 1 + 1
        /\ \A i \in 1 .. n - 1 + 1 : first[i] = seq[1 + i - 1]
    BY <1>1, SubSeqIs
  <2> HIDE DEF first
  <2> QED
    BY <1>1, <2>1
<1>3. Newest(first).messages = (IF n > PageSize THEN last ELSE first) /\ Newest(first).more = (n > PageSize)
  BY <1>2 DEF Newest
<1>4. ASSUME n > PageSize
      PROVE  /\ last \in Seq(Texts) /\ Len(last) = PageSize
             /\ \A i \in 1 .. PageSize : last[i] = first[n - PageSize + i]
  <2> HIDE DEF first
  <2>1. /\ last \in Seq(Texts) /\ Len(last) = n - (n - PageSize + 1) + 1
        /\ \A i \in 1 .. n - (n - PageSize + 1) + 1 : last[i] = first[n - PageSize + 1 + i - 1]
    BY <1>1, <1>2, <1>4, SubSeqIs DEF LastOf
  <2> HIDE DEF last
  <2> QED
    BY <1>1, <1>4, <2>1
<1> HIDE DEF first, last
<1> DEFINE got == Newest(first).messages
<1>5. got \in Seq(Texts)
  BY <1>2, <1>3, <1>4
<1>6. Len(got) = IF n > PageSize THEN PageSize ELSE n
  BY <1>2, <1>3, <1>4
<1>7. ASSUME NEW i \in 1 .. Len(got) PROVE got[i] = seq[n - Len(got) + i]
  <2>1. CASE n > PageSize
    <3> DEFINE j == n - PageSize + i
    <3>1. i \in 1 .. PageSize /\ j \in 1 .. n /\ Len(got) = PageSize
      BY <1>1, <1>6, <2>1
    <3>2. got[i] = last[i] /\ last[i] = first[j]
      BY <1>3, <1>4, <2>1, <3>1
    <3>3. first[j] = seq[j]
      BY <1>2, <3>1
    <3> QED
      BY <3>1, <3>2, <3>3
  <2>2. CASE ~(n > PageSize)
    BY <1>1, <1>2, <1>3, <1>6, <2>2
  <2> QED
    BY <2>1, <2>2
<1>8. DOMAIN got = 1 .. Len(got)
  BY <1>5
<1>9. LastOfFirst(got, seq, n)
  BY <1>1, <1>6, <1>7, <1>8 DEF LastOfFirst
<1>10. Newest(first).more \in BOOLEAN /\ (Newest(first).more <=> n > PageSize)
  <2> HIDE DEF first
  <2>1. CASE n > PageSize
    BY <1>3, <2>1
  <2>2. CASE ~(n > PageSize)
    <3>1. Newest(first).more # TRUE
      BY <1>1, <1>3, <2>2
    <3>2. Newest(first).more \in BOOLEAN
      BY <1>3
    <3> QED
      BY <2>2, <3>1, <3>2
  <2> QED
    BY <2>1, <2>2
<1> QED
  BY <1>5, <1>9, <1>10 DEF first

\* Without keeps messages messages, and takes out one where one is meant.
LEMMA WithoutTyped ==
    ASSUME NEW S, NEW seq \in Seq(S), NEW id
    PROVE  Without(seq, id) \in Seq(S)
<1>1. { i \in DOMAIN seq : seq[i].id # id } \in SUBSET (DOMAIN seq)
  OBVIOUS
<1> QED
  BY <1>1, PickedTyped DEF Without

\* Without the one place that has the id, the sequence is what RemoveAt leaves.
LEMMA WithoutOne ==
    ASSUME NEW S, NEW seq \in Seq(S), NEW id, NEW gone \in DOMAIN seq, seq[gone].id = id,
           \A i \in DOMAIN seq : seq[i].id = id => i = gone
    PROVE  Without(seq, id) = RemoveAt(seq, gone)
<1> DEFINE n == Len(seq)
           P == { i \in DOMAIN seq : seq[i].id # id }
           upTo == [i \in P |-> { j \in P : j <= i }]
<1>1. /\ n \in Nat /\ DOMAIN seq = 1 .. n /\ gone \in 1 .. n
      /\ RemoveAt(seq, gone) \in Seq(S) /\ DOMAIN RemoveAt(seq, gone) = 1 .. n - 1
      /\ \A i \in 1 .. n - 1 : RemoveAt(seq, gone)[i] = IF i < gone THEN seq[i] ELSE seq[i + 1]
  BY TakenOut
<1>2. Without(seq, id) = Arranged(seq, upTo)
  BY DEF Without, Picked
<1>3. P = (1 .. n) \ {gone}
  BY <1>1
<1> HIDE DEF P, n
<1>4. IsFiniteSet(P) /\ Nested(upTo, P)
  BY <1>1, <1>3, PlacesNested
<1>5. ASSUME NEW m \in 0 .. n PROVE IsFiniteSet(1 .. m) /\ Cardinality(1 .. m) = m
  <2>1. 1 \in Int /\ m \in Int
    BY <1>1
  <2>2. IsFiniteSet(1 .. m) /\ Cardinality(1 .. m) = IF 1 > m THEN 0 ELSE m - 1 + 1
    BY <2>1, FS_Interval
  <2> QED
    BY <1>1, <2>2
<1>6. Cardinality(P) = n - 1
  <2>1. n \in 0 .. n
    BY <1>1
  <2> QED
    BY <1>1, <1>3, <1>5, <2>1, FS_RemoveElement
<1>7. ASSUME NEW i \in P PROVE Cardinality(upTo[i]) = IF i < gone THEN i ELSE i - 1
  <2>1. i \in 0 .. n /\ i # gone /\ i \in 1 .. n
    BY <1>1, <1>3
  <2>2. CASE i < gone
    <3>1. upTo[i] = 1 .. i
      BY <1>1, <1>3, <2>1, <2>2
    <3> HIDE DEF upTo
    <3> QED
      BY <1>5, <2>1, <2>2, <3>1
  <2>3. CASE ~(i < gone)
    <3>1. upTo[i] = (1 .. i) \ {gone} /\ gone \in 1 .. i
      BY <1>1, <1>3, <2>1, <2>3
    <3> HIDE DEF upTo
    <3>2. Cardinality((1 .. i) \ {gone}) = i - 1
      BY <1>5, <2>1, <3>1, FS_RemoveElement
    <3> QED
      BY <2>3, <3>1, <3>2
  <2> QED
    BY <2>2, <2>3
<1> HIDE DEF upTo
<1>8. /\ \A k \in 1 .. n - 1 : \E i \in P : Cardinality(upTo[i]) = k /\ Arranged(seq, upTo)[k] = seq[i]
      /\ Arranged(seq, upTo) = [k \in 1 .. n - 1 |-> Arranged(seq, upTo)[k]]
  BY <1>4, <1>6, ArrangedIs
<1>9. ASSUME NEW k \in 1 .. n - 1 PROVE Arranged(seq, upTo)[k] = RemoveAt(seq, gone)[k]
  <2>1. PICK i \in P : Cardinality(upTo[i]) = k /\ Arranged(seq, upTo)[k] = seq[i]
    BY <1>8
  <2>2. /\ k = (IF i < gone THEN i ELSE i - 1)
        /\ i \in 1 .. n /\ i # gone
    BY <1>3, <1>7, <2>1
  <2>3. i = IF k < gone THEN k ELSE k + 1
    BY <1>1, <2>2
  <2> QED
    BY <1>1, <2>1, <2>3
<1>10. RemoveAt(seq, gone) = [k \in 1 .. n - 1 |-> RemoveAt(seq, gone)[k]]
  BY <1>1
<1> QED
  BY <1>2, <1>8, <1>9, <1>10

\* No read is not one.
LEMMA NotARead ==
    /\ \A r \in ChatReads : r # NoLoad /\ r.stage \in {"asked", "answered"}
    /\ NoLoad.stage = "none" /\ NoLoad \notin ChatReads
BY DEF ChatReads, NoLoad

LEMMA ChatStarts == ChatInit => ChatInv
<1> SUFFICES ASSUME ChatInit PROVE ChatInv
  OBVIOUS
<1>1. overtaken \in BOOLEAN /\ hasMore \in BOOLEAN
  BY Zenon DEF ChatInit
<1>2. ChatTyped
  BY <1>1 DEF ChatInit, ChatTyped
<1>3. EventsKnown
  BY DEF ChatInit, EventsKnown, Numbered
<1>4. SendsKnown /\ LoadKnown
  BY DEF ChatInit, SendsKnown, LoadKnown
<1>5. MessagesFollow
  BY DEF ChatInit, MessagesFollow, AtRest
<1> QED
  BY <1>2, <1>3, <1>4, <1>5 DEF ChatInv

\* A read that begins.
LEMMA ReadBegun ==
    ASSUME NEW c \in Chats, NEW id \in Int,
           NEW r, r = [stage |-> "asked", chat |-> c, before |-> id, got |-> <<>>, more |-> FALSE]
    PROVE  r \in ChatReads /\ r.stage = "asked" /\ r.chat = c /\ r.before = id /\ r # NoLoad
<1>1. <<>> \in Seq(Texts)
  OBVIOUS
<1>2. r.stage = "asked" /\ r.chat = c /\ r.before = id
  OBVIOUS
<1>3. r \in ChatReads
  <2> HIDE DEF Texts
  <2> QED
    BY <1>1 DEF ChatReads
<1> QED
  BY <1>2, <1>3, NotARead

LEMMA SelectKeeps ==
    ASSUME ChatInv, NEW c \in Chats, Select(c)
    PROVE  ChatInv'
<1>1. /\ chatId' = c /\ overtaken' = (overtaken \/ older # NoLoad) /\ overtaken' \in BOOLEAN
      /\ load' = [NoLoad EXCEPT !.stage = "asked", !.chat = c]
      /\ counts' = [counts EXCEPT !.selected = @ + 1]
      /\ UNCHANGED <<posted, inbox, messages, hasMore, older, sends>>
  BY DEF Select
<1>2. load' \in ChatReads /\ load'.stage = "asked" /\ load'.chat = c /\ load' # NoLoad
  <2>1. load' = [stage |-> "asked", chat |-> c, before |-> 0, got |-> <<>>, more |-> FALSE]
    BY <1>1 DEF NoLoad
  <2> QED
    BY <2>1, ReadBegun
<1>3. counts' \in [sent: Nat, selected: Nat] /\ counts'.sent = counts.sent
  <2>1. counts \in [sent: Nat, selected: Nat] /\ counts.selected + 1 \in Nat
    BY DEF ChatInv, ChatTyped
  <2> QED
    BY <1>1, <2>1
<1>4. ChatTyped'
  BY <1>1, <1>2, <1>3 DEF ChatInv, ChatTyped
<1>5. EventsKnown' /\ SendsKnown'
  BY <1>1, <1>3 DEF ChatInv, EventsKnown, SendsKnown, Numbered
<1>6. LoadKnown'
  BY <1>1, <1>2 DEF LoadKnown
<1>7. MessagesFollow'
  BY <1>1, <1>2 DEF MessagesFollow, AtRest
<1> QED
  BY <1>4, <1>5, <1>6, <1>7 DEF ChatInv

LEMMA DeselectKeeps ==
    ASSUME ChatInv, Deselect
    PROVE  ChatInv'
<1>1. /\ chatId' = NoChat /\ overtaken' = (overtaken \/ older # NoLoad) /\ overtaken' \in BOOLEAN
      /\ load' = NoLoad /\ messages' = <<>> /\ hasMore' = FALSE /\ hasMore' \in BOOLEAN
      /\ UNCHANGED <<posted, inbox, older, sends, counts>>
  BY DEF Deselect
<1>2. ChatTyped'
  BY <1>1 DEF ChatInv, ChatTyped
<1>3. EventsKnown' /\ SendsKnown'
  BY <1>1 DEF ChatInv, EventsKnown, SendsKnown, Numbered
<1>4. LoadKnown' /\ MessagesFollow'
  BY <1>1 DEF LoadKnown, MessagesFollow, AtRest
<1> QED
  BY <1>2, <1>3, <1>4 DEF ChatInv

LEMMA LoadFailsKeeps ==
    ASSUME ChatInv, LoadFails
    PROVE  ChatInv'
<1>1. /\ load' = NoLoad /\ overtaken' = TRUE /\ overtaken' \in BOOLEAN
      /\ UNCHANGED <<posted, inbox, chatId, messages, hasMore, older, sends, counts>>
  BY DEF LoadFails
<1>2. ChatTyped'
  BY <1>1 DEF ChatInv, ChatTyped
<1>3. EventsKnown' /\ SendsKnown'
  BY <1>1 DEF ChatInv, EventsKnown, SendsKnown, Numbered
<1>4. LoadKnown' /\ MessagesFollow'
  BY <1>1 DEF LoadKnown, MessagesFollow
<1> QED
  BY <1>2, <1>3, <1>4 DEF ChatInv

LEMMA LoadAnsweredKeeps ==
    ASSUME ChatInv, LoadAnswered
    PROVE  ChatInv'
<1> DEFINE seq == posted[load.chat]
           n   == Len(seq)
<1>1. /\ load.stage = "asked"
      /\ load' = [load EXCEPT !.stage = "answered", !.got = NewestOf(load.chat).messages,
                              !.more = NewestOf(load.chat).more]
      /\ UNCHANGED <<posted, inbox, chatId, messages, hasMore, older, sends, counts, overtaken>>
  BY DEF LoadAnswered
<1>2. load \in ChatReads /\ load.chat \in Chats /\ load.chat = chatId
  BY <1>1, NotARead DEF ChatInv, ChatTyped, LoadKnown, ChatReads
<1>3. seq \in Seq(Texts) /\ n \in Nat /\ n \in 0 .. Len(seq)
  BY <1>2 DEF ChatInv, ChatTyped
<1>4. NewestOf(load.chat) = Newest(SubSeq(seq, 1, n))
  BY <1>3, SubSeqFull DEF NewestOf
<1>5. /\ NewestOf(load.chat).messages \in Seq(Texts)
      /\ NewestOf(load.chat).more \in BOOLEAN /\ (NewestOf(load.chat).more <=> n > PageSize)
      /\ LastOfFirst(NewestOf(load.chat).messages, seq, n)
  <2> HIDE DEF seq, n
  <2> QED
    BY <1>3, <1>4, AnswerIs
<1>6. /\ load' \in ChatReads /\ load'.stage = "answered" /\ load'.chat = load.chat
      /\ load'.got = NewestOf(load.chat).messages /\ load'.more = NewestOf(load.chat).more
  <2> DEFINE got == NewestOf(load.chat).messages
             more == NewestOf(load.chat).more
  <2>1. got \in Seq(Texts) /\ more \in BOOLEAN
    BY <1>5
  <2>2. load' = [load EXCEPT !.stage = "answered", !.got = got, !.more = more]
    BY <1>1
  <2> HIDE DEF got, more
  <2>3. /\ load' \in ChatReads /\ load'.stage = "answered" /\ load'.chat = load.chat
        /\ load'.got = got /\ load'.more = more
    BY <1>2, <2>1, <2>2 DEF ChatReads
  <2> QED
    BY <2>3 DEF got, more
<1>7. ChatTyped'
  BY <1>1, <1>6 DEF ChatInv, ChatTyped
<1>8. EventsKnown' /\ SendsKnown'
  BY <1>1 DEF ChatInv, EventsKnown, SendsKnown, Numbered
<1>9. LoadKnown'
  <2>1. LastOfFirst(load'.got, posted'[load'.chat], n) /\ (load'.more <=> n > PageSize)
    BY <1>1, <1>5, <1>6
  <2>2. \E k \in Nat : LastOfFirst(load'.got, posted'[load'.chat], k) /\ (load'.more <=> k > PageSize)
    BY <1>3, <2>1
  <2> QED
    BY <1>1, <1>2, <1>6, <2>2 DEF LoadKnown, Sees
<1>10. MessagesFollow'
  BY <1>1, <1>2, <1>6, NotARead DEF ChatInv, MessagesFollow, AtRest
<1> QED
  BY <1>7, <1>8, <1>9, <1>10 DEF ChatInv

\* The messages answered with, under the ids of a chat, from the lo-th to the n-th.
Reaching(got, seq, n, lo) ==
    /\ n \in 0 .. Len(seq) /\ Len(got) = n - lo
    /\ lo \in 0 .. n /\ (n > PageSize <=> lo > 0) /\ (n > 0 => lo < n)
    /\ \A i \in 1 .. n - lo : got[i].id = lo + i - 1 /\ got[i] = seq[got[i].id + 1]

LEMMA AnswerReaches ==
    ASSUME NEW c, NEW seq \in Seq(Texts), Numbered(seq, c), NEW got \in Seq(Texts),
           NEW n \in Nat, LastOfFirst(got, seq, n)
    PROVE  n - Len(got) \in Nat /\ Reaching(got, seq, n, n - Len(got))
<1> DEFINE lo == n - Len(got)
<1>1. /\ PageSize \in Nat \ {0} /\ Len(seq) \in Nat /\ n \in 0 .. Len(seq)
      /\ Len(got) = (IF n > PageSize THEN PageSize ELSE n)
      /\ Len(got) \in Nat /\ DOMAIN got = 1 .. Len(got)
      /\ \A i \in DOMAIN got : got[i] = seq[n - Len(got) + i]
  BY ChatAssumption DEF LastOfFirst
<1>2. /\ lo \in 0 .. n /\ (n > 0 => lo < n) /\ n - lo = Len(got)
      /\ lo \in Nat /\ (n > PageSize <=> lo > 0)
  BY <1>1
<1>3. \A i \in 1 .. n - lo : got[i] = seq[lo + i]
  BY <1>1, <1>2
<1> HIDE DEF lo
<1>4. ASSUME NEW i \in 1 .. n - lo
      PROVE  got[i].id = lo + i - 1 /\ got[i] = seq[got[i].id + 1]
  <2>1. lo + i \in DOMAIN seq
    BY <1>1, <1>2
  <2>2. seq[lo + i].id = (lo + i) - 1
    BY <2>1 DEF Numbered
  <2>3. got[i].id = lo + i - 1 /\ got[i].id + 1 = lo + i
    BY <1>2, <1>3, <2>2
  <2> QED
    BY <1>3, <2>3
<1>5. Reaching(got, seq, n, lo)
  BY <1>1, <1>2, <1>4 DEF Reaching
<1> QED
  BY <1>2, <1>5 DEF lo

\* Two looks at a chat that answer the same saw as much of it.
LEMMA SameAnswer ==
    ASSUME NEW c, NEW seq \in Seq(Texts), Numbered(seq, c), NEW got \in Seq(Texts),
           NEW n \in Nat, LastOfFirst(got, seq, n), NEW k \in Nat, LastOfFirst(got, seq, k)
    PROVE  n = k
<1>1. PICK low \in Nat : Reaching(got, seq, n, low)
  BY AnswerReaches
<1>2. PICK down \in Nat : Reaching(got, seq, k, down)
  BY AnswerReaches
<1>3. Len(got) \in Nat
  OBVIOUS
<1>4. CASE Len(got) = 0
  BY <1>1, <1>2, <1>4 DEF Reaching
<1>5. CASE Len(got) > 0
  <2>1. 1 \in 1 .. n - low /\ 1 \in 1 .. k - down
    BY <1>1, <1>2, <1>3, <1>5 DEF Reaching
  <2>2. got[1].id = low + 1 - 1 /\ got[1].id = down + 1 - 1
    BY <1>1, <1>2, <2>1 DEF Reaching
  <2>3. low = down
    BY <1>1, <1>2, <2>2
  <2> QED
    BY <1>1, <1>2, <1>3, <2>3 DEF Reaching
<1> QED
  BY <1>3, <1>4, <1>5

LEMMA ShowsAnswer ==
    ASSUME NEW c, NEW seq \in Seq(Texts), NEW got \in Seq(Texts),
           NEW n \in Nat, n = Len(seq), NEW lo \in Nat, Reaching(got, seq, n, lo)
    PROVE  Shows(lo, got, c, seq, {}, {})
<1>1. /\ lo \in 0 .. n /\ (n > 0 => lo < n) /\ DOMAIN got = 1 .. n - lo
      /\ \A i \in 1 .. n - lo : got[i].id = lo + i - 1 /\ got[i] = seq[got[i].id + 1]
  BY DEF Reaching
<1>3. ASSUME lo > 0 PROVE got # <<>> /\ got[1].id = lo
  <2>1. 1 \in DOMAIN got /\ 1 \in 1 .. n - lo /\ lo \in Nat
    BY <1>1, <1>3
  <2>2. got # <<>>
    BY <2>1
  <2> QED
    BY <1>1, <2>1, <2>2
<1>4. ASSUME NEW i \in 1 .. n - lo, NEW j \in 1 .. n - lo, got[i].id = got[j].id PROVE i = j
  <2>1. got[i].id = lo + i - 1 /\ got[j].id = lo + j - 1 /\ i \in Int /\ j \in Int /\ lo \in Int
    BY <1>1
  <2>2. lo + i - 1 = lo + j - 1
    BY <1>4, <2>1
  <2> QED
    BY <2>1, <2>2
<1>5. ASSUME NEW i \in 1 .. n - lo PROVE AsPosted(got[i], lo, seq, {})
  <2>1. got[i].id = lo + i - 1 /\ got[i] = seq[got[i].id + 1] /\ i \in 1 .. n - lo
    BY <1>1
  <2>2. got[i].id \in lo .. Len(seq) - 1
    BY <1>1, <2>1
  <2> QED
    BY <2>1, <2>2 DEF AsPosted
<1>6. ASSUME NEW id \in (lo .. n - 1) \ {} PROVE \E i \in 1 .. n - lo : got[i].id = id
  <2>1. id - lo + 1 \in 1 .. n - lo /\ lo + (id - lo + 1) - 1 = id
    BY <1>1
  <2>2. got[id - lo + 1].id = id
    BY <1>1, <2>1
  <2> QED
    BY <2>1, <2>2
<1> QED
  BY <1>1, <1>3, <1>4, <1>5, <1>6 DEF Shows

LEMMA LoadLandsKeeps ==
    ASSUME ChatInv, LoadLands
    PROVE  ChatInv'
<1>1. /\ load.stage = "answered" /\ messages' = load.got /\ hasMore' = load.more /\ load' = NoLoad
      /\ overtaken' = (overtaken \/ sends # {} \/ load.got # NewestOf(chatId).messages
                          \/ \E i \in DOMAIN inbox : inbox[i].chat = chatId)
      /\ overtaken' \in BOOLEAN
      /\ UNCHANGED <<posted, inbox, chatId, older, sends, counts>>
  BY DEF LoadLands
<1>2. /\ load \in ChatReads /\ load # NoLoad /\ load.chat = chatId /\ chatId \in Chats
      /\ load.got \in Seq(Texts) /\ load.more \in BOOLEAN
  BY <1>1, NotARead DEF ChatInv, ChatTyped, LoadKnown, ChatReads
<1>3. posted[chatId] \in Seq(Texts) /\ Numbered(posted[chatId], chatId)
  BY <1>2 DEF ChatInv, ChatTyped, EventsKnown
<1>4. ChatTyped'
  BY <1>1, <1>2 DEF ChatInv, ChatTyped
<1>5. EventsKnown' /\ SendsKnown' /\ LoadKnown'
  BY <1>1 DEF ChatInv, EventsKnown, SendsKnown, Numbered, LoadKnown
<1>6. ASSUME ~overtaken' PROVE (older # NoLoad => AtRest)' /\ (AtRest => Follows)'
  <2>1. /\ ~overtaken /\ sends = {} /\ load.got = NewestOf(chatId).messages
        /\ \A i \in DOMAIN inbox : inbox[i].chat # chatId
    BY <1>1, <1>6
  <2>2. older = NoLoad
    BY <1>2, <2>1 DEF ChatInv, MessagesFollow, AtRest
  <2>3. PICK n \in Nat : LastOfFirst(load.got, posted[chatId], n) /\ (load.more <=> n > PageSize)
    BY <1>1, <1>2 DEF ChatInv, LoadKnown, Sees
  <2> DEFINE seq == posted[chatId]
             got == load.got
  <2>4. /\ seq \in Seq(Texts) /\ Numbered(seq, chatId) /\ got \in Seq(Texts)
        /\ LastOfFirst(got, seq, n)
    BY <1>2, <1>3, <2>3
  <2>5. LastOfFirst(got, seq, Len(seq))
    <3>1. SubSeq(seq, 1, Len(seq)) = seq /\ Len(seq) \in 0 .. Len(seq)
      <4> HIDE DEF seq
      <4> QED
        BY <2>4, SubSeqFull
    <3>2. NewestOf(chatId) = Newest(SubSeq(seq, 1, Len(seq)))
      BY <3>1, Zenon DEF NewestOf
    <3>3. Newest(SubSeq(seq, 1, Len(seq))).messages = got
      BY <2>1, <3>2
    <3> HIDE DEF seq, got
    <3> QED
      BY <2>4, <3>1, <3>3, AnswerIs
  <2> HIDE DEF seq, got
  <2>6. n = Len(seq) /\ n \in Nat
    BY <2>3, <2>4, <2>5, SameAnswer
  <2>7. PICK lo \in Nat : Reaching(got, seq, n, lo)
    BY <2>4, AnswerReaches
  <2>8. Shows(lo, got, chatId, seq, {}, {}) /\ (load.more <=> lo > 0)
    BY <2>3, <2>4, <2>6, <2>7, ShowsAnswer DEF Reaching
  <2>9. Coming' = {}
    BY <1>1, <2>1 DEF Coming
  <2>10. Shows(lo, messages', chatId', posted'[chatId'], Coming', sends') /\ (hasMore' <=> lo > 0)
    BY <1>1, <2>1, <2>8, <2>9 DEF seq, got
  <2>11. ReachesBackTo(lo)'
    BY <1>1, <2>1, <2>2 DEF ReachesBackTo
  <2>12. Follows'
    BY <2>7, <2>10, <2>11 DEF Follows
  <2> QED
    BY <1>1, <2>2, <2>12
<1>7. MessagesFollow'
  BY <1>6 DEF MessagesFollow
<1> QED
  BY <1>4, <1>5, <1>7 DEF ChatInv

\* The oldest message shown is one of the chat's, if there are older ones.
LEMMA OldestIsPosted ==
    ASSUME NEW c, NEW seq \in Seq(Texts), NEW list \in Seq(Texts), NEW coming, NEW own \in SUBSET Outgoing,
           NEW lo \in Nat, lo > 0, Shows(lo, list, c, seq, coming, own), \A s \in own : s.temp < 0
    PROVE  /\ 1 \in DOMAIN list /\ list[1].id = lo /\ lo \in 0 .. Len(seq) - 1
           /\ AsPosted(list[1], lo, seq, coming)
<1>1. list # <<>> /\ list[1].id = lo
  BY DEF Shows
<1>2. 1 \in DOMAIN list
  BY <1>1
<1>3. ~OnlyHere(list[1], c, own)
  BY <1>1 DEF OnlyHere
<1>4. AsPosted(list[1], lo, seq, coming)
  BY <1>2, <1>3 DEF Shows
<1> QED
  BY <1>1, <1>2, <1>4 DEF AsPosted

\* What is shown once older messages are put before it.
LEMMA ShowsOlder ==
    ASSUME NEW c, NEW seq \in Seq(Texts), NEW list \in Seq(Texts), NEW front \in Seq(Texts),
           NEW coming, NEW own \in SUBSET Outgoing, NEW lo \in Nat, NEW low \in Nat, lo > 0,
           Shows(lo, list, c, seq, coming, own), Reaching(front, seq, lo, low),
           \A id \in coming : id \in Int /\ id >= lo, \A s \in own : s.temp < 0
    PROVE  Shows(low, front \o list, c, seq, coming, own)
<1> DEFINE all == front \o list
           n   == lo - low
<1>1. /\ lo \in 0 .. Len(seq) /\ Len(seq) \in Nat /\ low < lo /\ n \in Nat /\ n > 0
      /\ \A i \in 1 .. n : front[i].id = low + i - 1 /\ front[i] = seq[front[i].id + 1]
      /\ Len(front) = n
  BY DEF Reaching
<1>2. /\ all \in Seq(Texts) /\ DOMAIN all = 1 .. n + Len(list) /\ Len(list) \in Nat
      /\ DOMAIN list = 1 .. Len(list)
      /\ \A i \in 1 .. n : all[i] = front[i]
      /\ \A i \in 1 .. Len(list) : all[n + i] = list[i]
  <2>1. /\ all \in Seq(Texts) /\ DOMAIN all = 1 .. Len(front) + Len(list) /\ Len(list) \in Nat
        /\ DOMAIN list = 1 .. Len(list)
        /\ \A i \in 1 .. Len(front) : all[i] = front[i]
        /\ \A i \in 1 .. Len(list) : all[Len(front) + i] = list[i]
    BY PutBefore
  <2> HIDE DEF all, n
  <2> QED
    BY <1>1, <2>1
<1> HIDE DEF all, n
<1>3. ASSUME NEW i \in 1 .. n
      PROVE  /\ all[i].id = low + i - 1 /\ all[i].id \in low .. lo - 1
             /\ AsPosted(all[i], low, seq, coming)
  <2>1. all[i].id = low + i - 1 /\ all[i] = seq[all[i].id + 1]
    BY <1>1, <1>2
  <2>2. all[i].id \in low .. lo - 1
    BY <1>1, <2>1 DEF n
  <2>3. all[i].id \in low .. Len(seq) - 1 /\ all[i].id \notin coming
    BY <1>1, <2>2
  <2> QED
    BY <2>1, <2>2, <2>3 DEF AsPosted
<1>4. ASSUME NEW i \in 1 .. Len(list)
      PROVE  /\ all[n + i].id = list[i].id /\ all[n + i].id \in Int
             /\ all[n + i].id \notin low .. lo - 1
             /\ AsPosted(all[n + i], low, seq, coming) \/ OnlyHere(all[n + i], c, own)
  <2>1. all[n + i] = list[i] /\ list[i] \in Texts /\ list[i].id \in Int
    <3>1. all[n + i] = list[i] /\ i \in DOMAIN list
      BY <1>2
    <3>2. list[i] \in Texts
      BY <3>1
    <3> QED
      BY <3>1, <3>2 DEF Texts
  <2>2. CASE AsPosted(list[i], lo, seq, coming)
    BY <1>1, <2>1, <2>2 DEF AsPosted
  <2>3. CASE OnlyHere(list[i], c, own)
    BY <1>1, <2>1, <2>3 DEF OnlyHere
  <2> QED
    BY <1>2, <2>2, <2>3 DEF Shows
<1>5. \A k \in DOMAIN all : k \in 1 .. n \/ (k - n \in 1 .. Len(list) /\ k = n + (k - n))
  BY <1>1, <1>2
<1>6. \A k \in DOMAIN all : AsPosted(all[k], low, seq, coming) \/ OnlyHere(all[k], c, own)
  BY <1>3, <1>4, <1>5
<1>7. ASSUME NEW j \in DOMAIN all, NEW k \in DOMAIN all, all[j].id = all[k].id PROVE j = k
  <2>1. CASE j \in 1 .. n /\ k \in 1 .. n
    <3>1. low + j - 1 = low + k - 1
      BY <1>3, <1>7, <2>1
    <3> QED
      BY <2>1, <3>1
  <2>2. CASE j \in 1 .. n /\ k \notin 1 .. n
    <3>1. all[k].id \notin low .. lo - 1
      BY <1>4, <1>5, <2>2
    <3> QED
      BY <1>3, <1>7, <2>2, <3>1
  <2>3. CASE j \notin 1 .. n /\ k \in 1 .. n
    <3>1. all[j].id \notin low .. lo - 1
      BY <1>4, <1>5, <2>3
    <3> QED
      BY <1>3, <1>7, <2>3, <3>1
  <2>4. CASE j \notin 1 .. n /\ k \notin 1 .. n
    <3>1. PICK i \in 1 .. Len(list) : j = n + i
      BY <1>5, <2>4
    <3>2. PICK m \in 1 .. Len(list) : k = n + m
      BY <1>5, <2>4
    <3>3. list[i].id = list[m].id
      BY <1>4, <1>7, <3>1, <3>2
    <3>4. i = m
      BY <1>2, <3>3 DEF Shows
    <3> QED
      BY <3>1, <3>2, <3>4
  <2> QED
    BY <2>1, <2>2, <2>3, <2>4
<1>8. all # <<>> /\ all[1].id = low
  <2>1. 1 \in 1 .. n /\ 1 \in DOMAIN all
    BY <1>1, <1>2
  <2>2. all[1].id = low + 1 - 1
    BY <1>3, <2>1
  <2>3. all # <<>>
    <3>1. DOMAIN <<>> = {}
      OBVIOUS
    <3> QED
      BY <2>1, <3>1
  <2> QED
    BY <2>2, <2>3
<1>9. ASSUME NEW id \in (low .. Len(seq) - 1) \ coming PROVE \E k \in DOMAIN all : all[k].id = id
  <2>1. CASE id < lo
    <3>1. id - low + 1 \in 1 .. n /\ low + (id - low + 1) - 1 = id
      BY <1>1, <2>1 DEF n
    <3>2. all[id - low + 1].id = id /\ id - low + 1 \in DOMAIN all
      BY <1>1, <1>2, <1>3, <3>1
    <3> QED
      BY <3>2
  <2>2. CASE ~(id < lo)
    <3>1. id \in (lo .. Len(seq) - 1) \ coming
      BY <1>1, <2>2
    <3>2. PICK i \in DOMAIN list : list[i].id = id
      BY <3>1 DEF Shows
    <3>3. n + i \in DOMAIN all /\ all[n + i].id = id
      BY <1>1, <1>2, <1>4, <3>2
    <3> QED
      BY <3>3
  <2> QED
    BY <2>1, <2>2
<1>10. ASSUME NEW s \in own PROVE s.chat = c /\ \E k \in DOMAIN all : all[k].id = s.temp
  <2>1. PICK i \in DOMAIN list : list[i].id = s.temp
    BY DEF Shows
  <2>2. n + i \in DOMAIN all /\ all[n + i].id = s.temp
    BY <1>1, <1>2, <1>4, <2>1
  <2> QED
    BY <2>2 DEF Shows
<1>11. low \in 0 .. Len(seq)
  BY <1>1
<1>12. Shows(low, all, c, seq, coming, own)
  BY <1>6, <1>7, <1>8, <1>9, <1>10, <1>11 DEF Shows
<1> QED
  BY <1>12 DEF all

\* What holds of the messages shown where nothing overtook, with nothing being read.
LEMMA RestFollows ==
    ASSUME ChatInv, ~overtaken, AtRest
    PROVE  /\ chatId \in Chats /\ posted[chatId] \in Seq(Texts) /\ Numbered(posted[chatId], chatId)
           /\ sends \in SUBSET Outgoing /\ \A s \in sends : s.temp < 0
           /\ \A id \in Coming : id \in Int
           /\ \E lo \in Nat : /\ Shows(lo, messages, chatId, posted[chatId], Coming, sends)
                              /\ hasMore <=> lo > 0
                              /\ ReachesBackTo(lo)
                              /\ \A id \in Coming : id >= lo
<1>1. /\ chatId \in Chats /\ posted[chatId] \in Seq(Texts) /\ Numbered(posted[chatId], chatId)
      /\ sends \in SUBSET Outgoing /\ inbox \in Seq(Texts)
  BY DEF ChatInv, ChatTyped, EventsKnown, AtRest
<1>2. \A s \in sends : s.temp < 0
  <2> SUFFICES ASSUME NEW s \in sends PROVE s.temp < 0
    OBVIOUS
  <2>1. s.temp \in -counts.sent .. -1 /\ counts.sent \in Nat
    BY DEF ChatInv, ChatTyped, SendsKnown
  <2> QED
    BY <2>1
<1>3. \A id \in Coming : id \in Int
  <2>1. \A k \in DOMAIN inbox : inbox[k] \in Texts
    BY <1>1
  <2> QED
    BY <1>1, <2>1 DEF Coming, Texts, Outgoing
<1>4. PICK lo \in Nat : /\ Shows(lo, messages, chatId, posted[chatId], Coming, sends)
                        /\ hasMore <=> lo > 0
                        /\ ReachesBackTo(lo)
  BY DEF ChatInv, MessagesFollow, Follows
<1>5. \A id \in Coming : id >= lo
  BY <1>4 DEF ReachesBackTo, Coming
<1> QED
  BY <1>1, <1>2, <1>3, <1>4, <1>5

LEMMA LoadMoreKeeps ==
    ASSUME ChatInv, LoadMore
    PROVE  ChatInv'
<1>1. /\ chatId # NoChat /\ load = NoLoad /\ hasMore /\ older = NoLoad /\ messages # <<>>
      /\ older' = [NoLoad EXCEPT !.stage = "asked", !.chat = chatId, !.before = messages[1].id]
      /\ UNCHANGED <<posted, inbox, chatId, messages, hasMore, load, sends, counts, overtaken>>
  BY DEF LoadMore
<1>2. chatId \in Chats /\ messages \in Seq(Texts)
  BY <1>1 DEF ChatInv, ChatTyped
<1>3. messages[1].id \in Int
  <2>1. messages[1] \in Texts
    BY <1>1, <1>2
  <2> QED
    BY <2>1 DEF Texts
<1>4. /\ older' \in ChatReads /\ older'.stage = "asked" /\ older'.chat = chatId
      /\ older'.before = messages[1].id /\ older' # NoLoad
  <2>1. older' = [stage |-> "asked", chat |-> chatId, before |-> messages[1].id, got |-> <<>>,
                  more |-> FALSE]
    BY <1>1 DEF NoLoad
  <2> QED
    BY <1>2, <1>3, <2>1, ReadBegun
<1>5. ChatTyped'
  BY <1>1, <1>4 DEF ChatInv, ChatTyped
<1>6. EventsKnown' /\ SendsKnown' /\ LoadKnown'
  BY <1>1 DEF ChatInv, EventsKnown, SendsKnown, Numbered, LoadKnown
<1>7. ASSUME ~overtaken PROVE AtRest' /\ Follows'
  <2>1. AtRest /\ AtRest'
    BY <1>1 DEF AtRest
  <2>2. PICK lo \in Nat : /\ Shows(lo, messages, chatId, posted[chatId], Coming, sends)
                          /\ hasMore <=> lo > 0
                          /\ ReachesBackTo(lo)
    BY <1>7, <2>1, RestFollows
  <2>3. lo > 0 /\ messages[1].id = lo
    BY <1>1, <2>2 DEF Shows
  <2>4. ReachesBackTo(lo)'
    BY <1>1, <1>4, <2>2, <2>3 DEF ReachesBackTo
  <2>5. Coming' = Coming
    BY <1>1 DEF Coming
  <2>6. Follows'
    BY <1>1, <2>2, <2>4, <2>5 DEF Follows
  <2> QED
    BY <2>1, <2>6
<1>8. MessagesFollow'
  BY <1>1, <1>7 DEF MessagesFollow
<1> QED
  BY <1>5, <1>6, <1>8 DEF ChatInv

LEMMA OlderAnsweredKeeps ==
    ASSUME ChatInv, OlderAnswered
    PROVE  ChatInv'
<1> DEFINE seq  == posted[older.chat]
           id   == older.before
           got  == OlderThan(older.chat, older.before).messages
           more == OlderThan(older.chat, older.before).more
<1>1. /\ older.stage = "asked"
      /\ older' = [older EXCEPT !.stage = "answered", !.got = got, !.more = more]
      /\ UNCHANGED <<posted, inbox, chatId, messages, hasMore, load, sends, counts, overtaken>>
  BY DEF OlderAnswered
<1>2. older \in ChatReads /\ older.chat \in Chats /\ id \in Int /\ older # NoLoad
  BY <1>1, NotARead DEF ChatInv, ChatTyped, ChatReads
<1>3. seq \in Seq(Texts)
  BY <1>2 DEF ChatInv, ChatTyped
<1>4. ASSUME id \in 0 .. Len(seq) - 1
      PROVE  /\ got \in Seq(Texts) /\ more \in BOOLEAN /\ (more <=> id > PageSize)
             /\ LastOfFirst(got, seq, id)
  <2>1. got = Newest(SubSeq(seq, 1, id)).messages /\ more = Newest(SubSeq(seq, 1, id)).more
    BY <1>4 DEF OlderThan
  <2>2. id \in 0 .. Len(seq)
    BY <1>3, <1>4
  <2> HIDE DEF seq, id, got, more
  <2> QED
    BY <1>3, <2>1, <2>2, AnswerIs
<1>5. got \in Seq(Texts) /\ more \in BOOLEAN
  <2>1. CASE id \notin 0 .. Len(seq) - 1
    <3>1. got = <<>> /\ more = FALSE
      BY <2>1 DEF OlderThan
    <3>2. <<>> \in Seq(Texts)
      OBVIOUS
    <3> HIDE DEF got, more
    <3> QED
      BY <3>1, <3>2
  <2> HIDE DEF seq, id, got, more
  <2> QED
    BY <1>4, <2>1
<1>6. /\ older' \in ChatReads /\ older'.stage = "answered" /\ older'.chat = older.chat
      /\ older'.before = older.before /\ older'.got = got /\ older'.more = more
  <2> HIDE DEF seq, id, got, more
  <2> QED
    BY <1>1, <1>2, <1>5 DEF ChatReads
<1>7. ChatTyped'
  BY <1>1, <1>6 DEF ChatInv, ChatTyped
<1>8. EventsKnown' /\ SendsKnown' /\ LoadKnown'
  <2>1. EventsKnown' /\ SendsKnown'
    BY <1>1 DEF ChatInv, EventsKnown, SendsKnown, Numbered
  <2>2. LoadKnown'
    BY <1>1 DEF ChatInv, LoadKnown, Sees
  <2> QED
    BY <2>1, <2>2
<1>9. ASSUME ~overtaken PROVE AtRest' /\ Follows'
  <2>1. AtRest /\ AtRest'
    BY <1>1, <1>2, <1>9 DEF AtRest, ChatInv, MessagesFollow
  <2>2. PICK lo \in Nat : /\ Shows(lo, messages, chatId, posted[chatId], Coming, sends)
                          /\ hasMore <=> lo > 0
                          /\ ReachesBackTo(lo)
    BY <1>9, <2>1, RestFollows
  <2>3. older.chat = chatId /\ id = lo /\ lo > 0
    BY <1>2, <2>2 DEF ReachesBackTo
  <2>4. lo \in 0 .. Len(seq) - 1
    <3>1. /\ posted[chatId] \in Seq(Texts) /\ sends \in SUBSET Outgoing /\ messages \in Seq(Texts)
          /\ \A s \in sends : s.temp < 0
      BY <1>9, <2>1, RestFollows DEF ChatInv, ChatTyped
    <3>2. lo \in 0 .. Len(posted[chatId]) - 1
      BY <2>2, <2>3, <3>1, OldestIsPosted
    <3> QED
      BY <2>3, <3>2
  <2>5. LastOfFirst(older'.got, posted'[older'.chat], lo) /\ (older'.more <=> lo > PageSize)
    <3>1. LastOfFirst(got, seq, lo) /\ (more <=> lo > PageSize)
      BY <1>4, <2>3, <2>4
    <3> QED
      BY <1>1, <1>6, <3>1
  <2>6. ReachesBackTo(lo)'
    BY <1>1, <1>6, <2>2, <2>3, <2>5 DEF ReachesBackTo, Sees
  <2>7. Coming' = Coming
    BY <1>1 DEF Coming
  <2>8. Follows'
    BY <1>1, <2>2, <2>6, <2>7 DEF Follows
  <2> QED
    BY <2>1, <2>8
<1>10. MessagesFollow'
  BY <1>1, <1>9 DEF MessagesFollow
<1> QED
  BY <1>7, <1>8, <1>10 DEF ChatInv

LEMMA OlderFailsKeeps ==
    ASSUME ChatInv, OlderFails
    PROVE  ChatInv'
<1>1. /\ older' = NoLoad
      /\ UNCHANGED <<posted, inbox, chatId, messages, hasMore, load, sends, counts, overtaken>>
  BY DEF OlderFails
<1>2. ChatTyped'
  BY <1>1 DEF ChatInv, ChatTyped
<1>3. EventsKnown' /\ SendsKnown' /\ LoadKnown'
  <2>1. EventsKnown' /\ SendsKnown'
    BY <1>1 DEF ChatInv, EventsKnown, SendsKnown, Numbered
  <2>2. LoadKnown'
    BY <1>1 DEF ChatInv, LoadKnown, Sees
  <2> QED
    BY <2>1, <2>2
<1>4. Coming' = Coming
  BY <1>1 DEF Coming
<1>5. \A lo \in Nat : ReachesBackTo(lo) => ReachesBackTo(lo)'
  BY <1>1 DEF ReachesBackTo
<1>6. Follows => Follows'
  BY <1>1, <1>4, <1>5 DEF Follows
<1>7. MessagesFollow'
  BY <1>1, <1>6 DEF ChatInv, MessagesFollow, AtRest
<1> QED
  BY <1>2, <1>3, <1>7 DEF ChatInv

LEMMA OlderLandsKeeps ==
    ASSUME ChatInv, OlderLands
    PROVE  ChatInv'
<1>1. /\ older.stage = "answered" /\ messages' = older.got \o messages /\ hasMore' = older.more
      /\ older' = NoLoad
      /\ UNCHANGED <<posted, inbox, chatId, load, sends, counts, overtaken>>
  BY DEF OlderLands
<1>2. /\ older \in ChatReads /\ older # NoLoad /\ older.got \in Seq(Texts) /\ older.more \in BOOLEAN
      /\ messages \in Seq(Texts)
  BY <1>1, NotARead DEF ChatInv, ChatTyped, ChatReads
<1>3. messages' \in Seq(Texts)
  BY <1>1, <1>2
<1>4. ChatTyped'
  BY <1>1, <1>2, <1>3 DEF ChatInv, ChatTyped
<1>5. EventsKnown' /\ SendsKnown' /\ LoadKnown'
  <2>1. EventsKnown' /\ SendsKnown'
    BY <1>1 DEF ChatInv, EventsKnown, SendsKnown, Numbered
  <2>2. LoadKnown'
    BY <1>1 DEF ChatInv, LoadKnown, Sees
  <2> QED
    BY <2>1, <2>2
<1>6. ASSUME ~overtaken PROVE Follows'
  <2>1. AtRest
    BY <1>2, <1>6 DEF ChatInv, MessagesFollow
  <2>2. PICK lo \in Nat : /\ Shows(lo, messages, chatId, posted[chatId], Coming, sends)
                          /\ hasMore <=> lo > 0
                          /\ ReachesBackTo(lo)
                          /\ \A id \in Coming : id >= lo
    BY <1>6, <2>1, RestFollows
  <2>3. /\ lo > 0 /\ LastOfFirst(older.got, posted[chatId], lo) /\ (older.more <=> lo > PageSize)
    BY <1>1, <1>2, <2>2 DEF ReachesBackTo, Sees
  <2>4. /\ posted[chatId] \in Seq(Texts) /\ Numbered(posted[chatId], chatId)
        /\ sends \in SUBSET Outgoing /\ \A s \in sends : s.temp < 0
        /\ \A id \in Coming : id \in Int
    BY <1>6, <2>1, RestFollows
  <2>5. PICK low \in Nat : Reaching(older.got, posted[chatId], lo, low)
    BY <1>2, <2>3, <2>4, AnswerReaches
  <2>6. Shows(low, older.got \o messages, chatId, posted[chatId], Coming, sends)
    BY <1>2, <2>2, <2>3, <2>4, <2>5, ShowsOlder
  <2>7. Coming' = Coming
    BY <1>1 DEF Coming
  <2>8. low < lo /\ (hasMore' <=> low > 0)
    BY <1>1, <2>3, <2>5 DEF Reaching
  <2>9. ReachesBackTo(low)'
    <3>1. \A k \in DOMAIN inbox : inbox[k].chat = chatId => inbox[k].id >= low
      <4>1. \A k \in DOMAIN inbox : inbox[k] \in Texts
        BY DEF ChatInv, ChatTyped
      <4> QED
        BY <2>2, <2>8, <4>1 DEF ReachesBackTo, Texts
    <3>2. \A s \in sends : s.stage = "saved" => s.real >= low
      BY <2>2, <2>4, <2>8 DEF ReachesBackTo, Outgoing
    <3> QED
      BY <1>1, <3>1, <3>2 DEF ReachesBackTo
  <2> QED
    BY <1>1, <2>6, <2>7, <2>8, <2>9 DEF Follows
<1>7. MessagesFollow'
  BY <1>1, <1>6 DEF MessagesFollow
<1> QED
  BY <1>4, <1>5, <1>7 DEF ChatInv

\* What is shown once one more message is, the player's own or one of the coming.
LEMMA ShowsMore ==
    ASSUME NEW c, NEW seq \in Seq(Texts), NEW list \in Seq(Texts), NEW coming, NEW less \in SUBSET coming,
           NEW own, NEW more, own \subseteq more, NEW lo \in Nat, Shows(lo, list, c, seq, coming, own),
           NEW e \in Texts, \A i \in DOMAIN list : list[i].id # e.id,
           AsPosted(e, lo, seq, less) \/ OnlyHere(e, c, more),
           coming \ less \subseteq {e.id}, \A s \in more \ own : s.chat = c /\ s.temp = e.id
    PROVE  Shows(lo, Append(list, e), c, seq, less, more)
<1> DEFINE all == Append(list, e)
           n   == Len(list)
<1>1. /\ all \in Seq(Texts) /\ n \in Nat /\ DOMAIN list = 1 .. n /\ DOMAIN all = 1 .. n + 1
      /\ \A i \in 1 .. n : all[i] = list[i]
      /\ all[n + 1] = e
  BY Lengthened
<1> HIDE DEF all, n
<1>2. n + 1 \in DOMAIN all /\ \A i \in DOMAIN list : i \in DOMAIN all /\ all[i] = list[i]
  BY <1>1
<1>3. \A i \in DOMAIN all : i \in DOMAIN list \/ i = n + 1
  BY <1>1
<1>4. lo \in 0 .. Len(seq)
  BY DEF Shows
<1>5. ASSUME lo > 0 PROVE all # <<>> /\ all[1].id = lo
  <2>1. list # <<>> /\ list[1].id = lo
    BY <1>5 DEF Shows
  <2>2. 1 \in DOMAIN list
    BY <2>1
  <2>3. DOMAIN <<>> = {}
    OBVIOUS
  <2> QED
    BY <1>2, <2>1, <2>2, <2>3
<1>6. ASSUME NEW j \in DOMAIN all, NEW k \in DOMAIN all, all[j].id = all[k].id PROVE j = k
  BY <1>1, <1>2, <1>3, <1>6 DEF Shows
<1>7. ASSUME NEW i \in DOMAIN all PROVE AsPosted(all[i], lo, seq, less) \/ OnlyHere(all[i], c, more)
  <2>1. CASE i \in DOMAIN list
    <3>1. AsPosted(list[i], lo, seq, coming) \/ OnlyHere(list[i], c, own)
      BY <2>1 DEF Shows
    <3>2. AsPosted(list[i], lo, seq, coming) => AsPosted(list[i], lo, seq, less)
      BY DEF AsPosted
    <3>3. OnlyHere(list[i], c, own) => OnlyHere(list[i], c, more)
      BY DEF OnlyHere
    <3> QED
      BY <1>2, <2>1, <3>1, <3>2, <3>3
  <2>2. CASE i = n + 1
    BY <1>1, <2>2
  <2> QED
    BY <1>3, <2>1, <2>2
<1>8. ASSUME NEW id \in (lo .. Len(seq) - 1) \ less PROVE \E i \in DOMAIN all : all[i].id = id
  <2>1. CASE id \in coming
    BY <1>1, <1>2, <2>1
  <2>2. CASE id \notin coming
    <3>1. PICK i \in DOMAIN list : list[i].id = id
      BY <2>2 DEF Shows
    <3> QED
      BY <1>2, <3>1
  <2> QED
    BY <2>1, <2>2
<1>9. ASSUME NEW s \in more PROVE s.chat = c /\ \E i \in DOMAIN all : all[i].id = s.temp
  <2>1. CASE s \in own
    <3>1. s.chat = c /\ \E i \in DOMAIN list : list[i].id = s.temp
      BY <2>1 DEF Shows
    <3> QED
      BY <1>2, <3>1
  <2>2. CASE s \notin own
    BY <1>1, <1>2, <2>2
  <2> QED
    BY <2>1, <2>2
<1>10. Shows(lo, all, c, seq, less, more)
  BY <1>4, <1>5, <1>6, <1>7, <1>8, <1>9 DEF Shows
<1> QED
  BY <1>10 DEF all

\* What is shown once the chat has one more message, which is coming.
LEMMA ShowsPosted ==
    ASSUME NEW c, NEW seq \in Seq(Texts), NEW list \in Seq(Texts), NEW coming, NEW next,
           NEW own, NEW sent, NEW lo \in Nat, Shows(lo, list, c, seq, coming, own), NEW e \in Texts,
           \A id : id \in next <=> id \in coming \/ id = Len(seq),
           \A s \in own : \E u \in sent : u.temp = s.temp,
           \A u \in sent : \E s \in own : u.temp = s.temp /\ u.chat = s.chat
    PROVE  Shows(lo, list, c, Append(seq, e), next, sent)
<1> DEFINE grown == Append(seq, e)
           n     == Len(seq)
<1>1. /\ grown \in Seq(Texts) /\ n \in Nat /\ Len(grown) = n + 1
      /\ \A i \in 1 .. n : grown[i] = seq[i]
  BY Lengthened
<1>2. \A id : id \in next <=> id \in coming \/ id = n
  OBVIOUS
<1>3. Len(seq) = n
  OBVIOUS
<1> HIDE DEF grown, n
<1>4. lo \in 0 .. Len(grown)
  BY <1>1, <1>3 DEF Shows
<1>5. ASSUME NEW i \in DOMAIN list
      PROVE  AsPosted(list[i], lo, grown, next) \/ OnlyHere(list[i], c, sent)
  <2>1. CASE AsPosted(list[i], lo, seq, coming)
    <3>1. list[i].id \in lo .. n - 1 /\ list[i].id \notin coming /\ list[i] = seq[list[i].id + 1]
      BY <1>3, <2>1 DEF AsPosted
    <3>2. list[i].id \in lo .. Len(grown) - 1 /\ list[i].id \notin next /\ list[i].id + 1 \in 1 .. n
      BY <1>1, <1>2, <3>1
    <3> QED
      BY <1>1, <3>1, <3>2 DEF AsPosted
  <2>2. CASE OnlyHere(list[i], c, own)
    BY <2>2 DEF OnlyHere
  <2> QED
    BY <2>1, <2>2 DEF Shows
<1>6. ASSUME NEW id \in (lo .. Len(grown) - 1) \ next PROVE \E i \in DOMAIN list : list[i].id = id
  <2>1. id \in (lo .. Len(seq) - 1) \ coming
    BY <1>1, <1>2, <1>3
  <2> QED
    BY <2>1 DEF Shows
<1>7. ASSUME NEW u \in sent PROVE u.chat = c /\ \E i \in DOMAIN list : list[i].id = u.temp
  BY DEF Shows
<1>8. /\ lo > 0 => list # <<>> /\ list[1].id = lo
      /\ \A i, j \in DOMAIN list : list[i].id = list[j].id => i = j
  BY DEF Shows
<1>9. Shows(lo, list, c, grown, next, sent)
  BY <1>4, <1>5, <1>6, <1>7, <1>8, Zenon DEF Shows
<1> QED
  BY <1>9 DEF grown

\* What is shown once the player's own message is as the server has it.
LEMMA ShowsLanded ==
    ASSUME NEW c, NEW seq \in Seq(Texts), NEW list \in Seq(Texts), NEW coming, NEW less,
           NEW own \in SUBSET Outgoing, NEW lo \in Nat, Shows(lo, list, c, seq, coming, own),
           NEW s \in own, \A u \in own : u.temp < 0 /\ (u.temp = s.temp => u = s),
           s.real \in lo .. Len(seq) - 1, s.real \in coming,
           seq[s.real + 1] = [chat |-> c, id |-> s.real, mine |-> TRUE],
           \A id : id \in less <=> id \in coming /\ id # s.real
    PROVE  Shows(lo, [i \in DOMAIN list |-> IF list[i].id = s.temp THEN [list[i] EXCEPT !.id = s.real]
                                            ELSE list[i]],
                 c, seq, less, own \ {s})
<1> DEFINE all == [i \in DOMAIN list |-> IF list[i].id = s.temp THEN [list[i] EXCEPT !.id = s.real]
                                         ELSE list[i]]
           real == s.real
           temp == s.temp
<1>1. PICK j \in DOMAIN list : list[j].id = temp
  BY DEF Shows
<1>2. /\ temp \in Int /\ temp < 0 /\ real \in lo .. Len(seq) - 1 /\ Len(seq) \in Nat
      /\ DOMAIN list = 1 .. Len(list) /\ \A i \in DOMAIN list : list[i] \in Texts
  BY DEF Outgoing
<1>3. \A i \in DOMAIN list : i # j => list[i].id # temp
  BY <1>1 DEF Shows
<1>4. list[j].chat = c /\ list[j].mine = TRUE
  <2>1. ~AsPosted(list[j], lo, seq, coming)
    BY <1>1, <1>2 DEF AsPosted
  <2>2. OnlyHere(list[j], c, own)
    BY <2>1 DEF Shows
  <2>3. list[j].mine \in BOOLEAN
    BY <1>2 DEF Texts
  <2> QED
    BY <2>2, <2>3 DEF OnlyHere
<1>5. DOMAIN all = DOMAIN list /\ \A i \in DOMAIN list : i # j => all[i] = list[i]
  BY <1>3
<1>6. all[j] = seq[real + 1] /\ all[j].id = real
  <2>1. list[j] \in Texts
    BY <1>2
  <2>2. all[j] = [list[j] EXCEPT !.id = real]
    BY <1>1
  <2>3. all[j] = [chat |-> c, id |-> real, mine |-> TRUE]
    BY <1>4, <2>1, <2>2 DEF Texts
  <2> QED
    BY <2>3
<1>7. \A id : id \in less <=> id \in coming /\ id # real
  OBVIOUS
<1>8. real \in coming /\ \A u \in own : u.temp = temp => u = s
  OBVIOUS
<1>9. s.temp = temp
  OBVIOUS
<1> HIDE DEF all, real, temp
<1>10. \A i \in DOMAIN list : list[i].id # real
  <2> SUFFICES ASSUME NEW i \in DOMAIN list PROVE list[i].id # real
    OBVIOUS
  <2>1. CASE AsPosted(list[i], lo, seq, coming)
    BY <1>8, <2>1 DEF AsPosted
  <2>2. CASE OnlyHere(list[i], c, own)
    <3>1. list[i].id < 0
      BY <2>2 DEF OnlyHere
    <3> QED
      BY <1>2, <3>1
  <2> QED
    BY <2>1, <2>2 DEF Shows
<1>11. AsPosted(all[j], lo, seq, less)
  BY <1>2, <1>6, <1>7 DEF AsPosted
<1>12. ASSUME NEW i \in DOMAIN list PROVE AsPosted(all[i], lo, seq, less) \/ OnlyHere(all[i], c, own \ {s})
  <2>1. CASE i = j
    BY <1>11, <2>1
  <2>2. CASE i # j /\ AsPosted(list[i], lo, seq, coming)
    <3>1. AsPosted(list[i], lo, seq, less)
      BY <1>7, <2>2 DEF AsPosted
    <3> QED
      BY <1>5, <2>2, <3>1
  <2>3. CASE i # j /\ OnlyHere(list[i], c, own)
    <3>1. OnlyHere(list[i], c, own \ {s})
      BY <1>3, <1>9, <2>3 DEF OnlyHere
    <3> QED
      BY <1>5, <2>3, <3>1
  <2> QED
    BY <2>1, <2>2, <2>3 DEF Shows
<1>13. ASSUME NEW i \in DOMAIN list, NEW k \in DOMAIN list, all[i].id = all[k].id PROVE i = k
  BY <1>5, <1>6, <1>10, <1>13 DEF Shows
<1>14. ASSUME lo > 0 PROVE all # <<>> /\ all[1].id = lo
  <2>1. list # <<>> /\ list[1].id = lo
    BY <1>14 DEF Shows
  <2>2. 1 \in DOMAIN list
    BY <2>1
  <2>3. 1 # j
    BY <1>1, <1>2, <1>14, <2>1
  <2>4. DOMAIN <<>> = {}
    OBVIOUS
  <2> QED
    BY <1>5, <2>1, <2>2, <2>3, <2>4
<1>15. ASSUME NEW id \in (lo .. Len(seq) - 1) \ less PROVE \E i \in DOMAIN list : all[i].id = id
  <2>1. CASE id = real
    BY <1>6, <2>1
  <2>2. CASE id # real
    <3>1. id \in (lo .. Len(seq) - 1) \ coming
      BY <1>7, <2>2
    <3>2. PICK i \in DOMAIN list : list[i].id = id
      BY <3>1 DEF Shows
    <3>3. i # j
      BY <1>1, <1>2, <3>1, <3>2
    <3> QED
      BY <1>5, <3>2, <3>3
  <2> QED
    BY <2>1, <2>2
<1>16. ASSUME NEW u \in own \ {s} PROVE u.chat = c /\ \E i \in DOMAIN list : all[i].id = u.temp
  <2>1. u.chat = c
    BY DEF Shows
  <2>2. PICK i \in DOMAIN list : list[i].id = u.temp
    BY DEF Shows
  <2>3. i # j
    BY <1>1, <1>8, <2>2
  <2> QED
    BY <1>5, <2>1, <2>2, <2>3
<1>17. lo \in 0 .. Len(seq)
  BY DEF Shows
<1>18. Shows(lo, all, c, seq, less, own \ {s})
  BY <1>5, <1>12, <1>13, <1>14, <1>15, <1>16, <1>17 DEF Shows
<1> QED
  BY <1>18 DEF all

\* What is shown once the player's own message, not sent after all, is taken out.
LEMMA ShowsFailed ==
    ASSUME NEW c, NEW seq \in Seq(Texts), NEW list \in Seq(Texts), NEW coming,
           NEW own \in SUBSET Outgoing, NEW lo \in Nat, Shows(lo, list, c, seq, coming, own),
           NEW s \in own, \A u \in own : u.temp < 0 /\ (u.temp = s.temp => u = s),
           NEW j \in DOMAIN list, list[j].id = s.temp
    PROVE  Shows(lo, RemoveAt(list, j), c, seq, coming, own \ {s})
<1> DEFINE all == RemoveAt(list, j)
           n   == Len(list)
<1>1. /\ all \in Seq(Texts) /\ n \in Nat /\ DOMAIN list = 1 .. n /\ DOMAIN all = 1 .. n - 1
      /\ \A i \in 1 .. n - 1 : all[i] = IF i < j THEN list[i] ELSE list[i + 1]
  BY TakenOut
<1> HIDE DEF all, n
<1>2. \A i \in DOMAIN list : i # j => list[i].id # s.temp
  BY DEF Shows
<1>3. ASSUME NEW i \in DOMAIN all
      PROVE  \E k \in DOMAIN list : /\ k # j /\ all[i] = list[k]
                                    /\ k = IF i < j THEN i ELSE i + 1
  <2>1. CASE i < j
    <3>1. i \in DOMAIN list /\ i # j /\ all[i] = list[i]
      BY <1>1, <2>1
    <3> QED
      BY <2>1, <3>1
  <2>2. CASE ~(i < j)
    <3>1. i + 1 \in DOMAIN list /\ i + 1 # j /\ all[i] = list[i + 1]
      BY <1>1, <2>2
    <3> QED
      BY <2>2, <3>1
  <2> QED
    BY <2>1, <2>2
<1>4. ASSUME NEW k \in DOMAIN list, k # j
      PROVE  \E i \in DOMAIN all : all[i] = list[k]
  <2>1. CASE k < j
    <3>1. k \in DOMAIN all /\ all[k] = list[k]
      BY <1>1, <2>1
    <3> QED
      BY <3>1
  <2>2. CASE ~(k < j)
    <3>1. k - 1 \in DOMAIN all /\ ~(k - 1 < j) /\ k - 1 + 1 = k
      BY <1>1, <1>4, <2>2
    <3>2. all[k - 1] = list[k]
      BY <1>1, <3>1
    <3> QED
      BY <3>1, <3>2
  <2> QED
    BY <2>1, <2>2
<1>5. ASSUME lo > 0 PROVE all # <<>> /\ all[1].id = lo
  <2>1. list # <<>> /\ list[1].id = lo
    BY <1>5 DEF Shows
  <2>2. 1 \in DOMAIN list /\ 1 # j
    <3>1. 1 \in DOMAIN list
      BY <2>1
    <3>2. s.temp < 0 /\ s.temp \in Int
      BY DEF Outgoing
    <3> QED
      BY <1>5, <2>1, <3>1, <3>2
  <2>3. 1 \in DOMAIN all /\ 1 < j
    BY <1>1, <2>2
  <2>4. all[1] = list[1]
    BY <1>1, <2>3
  <2>5. DOMAIN <<>> = {}
    OBVIOUS
  <2> QED
    BY <2>1, <2>3, <2>4, <2>5
<1>6. ASSUME NEW i \in DOMAIN all, NEW k \in DOMAIN all, all[i].id = all[k].id PROVE i = k
  <2>1. PICK a \in DOMAIN list : all[i] = list[a] /\ a = IF i < j THEN i ELSE i + 1
    BY <1>3
  <2>2. PICK b \in DOMAIN list : all[k] = list[b] /\ b = IF k < j THEN k ELSE k + 1
    BY <1>3
  <2>3. a = b
    BY <1>6, <2>1, <2>2 DEF Shows
  <2> QED
    BY <1>1, <2>1, <2>2, <2>3
<1>7. ASSUME NEW i \in DOMAIN all PROVE AsPosted(all[i], lo, seq, coming) \/ OnlyHere(all[i], c, own \ {s})
  <2>1. PICK k \in DOMAIN list : k # j /\ all[i] = list[k]
    BY <1>3
  <2>2. OnlyHere(list[k], c, own) => OnlyHere(list[k], c, own \ {s})
    BY <1>2, <2>1 DEF OnlyHere
  <2> QED
    BY <2>1, <2>2 DEF Shows
<1>8. ASSUME NEW id \in (lo .. Len(seq) - 1) \ coming PROVE \E i \in DOMAIN all : all[i].id = id
  <2>1. PICK k \in DOMAIN list : list[k].id = id
    BY DEF Shows
  <2>2. k # j
    <3>1. s.temp < 0 /\ s.temp \in Int /\ Len(seq) \in Nat
      BY DEF Outgoing
    <3> QED
      BY <2>1, <3>1
  <2> QED
    BY <1>4, <2>1, <2>2
<1>9. ASSUME NEW u \in own \ {s} PROVE u.chat = c /\ \E i \in DOMAIN all : all[i].id = u.temp
  <2>1. u.chat = c
    BY DEF Shows
  <2>2. PICK k \in DOMAIN list : list[k].id = u.temp
    BY DEF Shows
  <2>3. k # j
    BY <2>2
  <2> QED
    BY <1>4, <2>1, <2>2, <2>3
<1>10. lo \in 0 .. Len(seq)
  BY DEF Shows
<1>11. Shows(lo, all, c, seq, coming, own \ {s})
  BY <1>5, <1>6, <1>7, <1>8, <1>9, <1>10 DEF Shows
<1> QED
  BY <1>11 DEF all

\* What was read of a chat stays, whatever it gets after.
LEMMA StillFirst ==
    ASSUME NEW got \in Seq(Texts), NEW seq \in Seq(Texts), NEW grown, Len(grown) \in Nat,
           Len(grown) >= Len(seq), \A i \in 1 .. Len(seq) : grown[i] = seq[i],
           NEW n \in Nat, LastOfFirst(got, seq, n)
    PROVE  LastOfFirst(got, grown, n)
<1>1. /\ n \in 0 .. Len(seq) /\ Len(seq) \in Nat /\ Len(got) \in Nat /\ PageSize \in Nat
      /\ DOMAIN got = 1 .. Len(got) /\ Len(got) = IF n > PageSize THEN PageSize ELSE n
  BY ChatAssumption DEF LastOfFirst
<1>2. ASSUME NEW i \in DOMAIN got PROVE got[i] = grown[n - Len(got) + i]
  <2>1. got[i] = seq[n - Len(got) + i]
    BY DEF LastOfFirst
  <2>2. n - Len(got) + i \in 1 .. Len(seq)
    BY <1>1
  <2> QED
    BY <2>1, <2>2
<1>3. n \in 0 .. Len(grown)
  BY <1>1
<1> QED
  BY <1>1, <1>2, <1>3 DEF LastOfFirst

\* What the server and the events know once it has one more message.
LEMMA Posting ==
    ASSUME ChatInv, NEW c \in Chats, NEW mine \in BOOLEAN,
           posted' = [posted EXCEPT ![c] = Append(@, Message(c, mine))],
           inbox' = Append(inbox, Message(c, mine)),
           UNCHANGED <<chatId, load>>
    PROVE  /\ posted' \in [Chats -> Seq(Texts)] /\ inbox' \in Seq(Texts) /\ EventsKnown' /\ LoadKnown'
           /\ Message(c, mine) \in Texts
           /\ \A d \in Chats : /\ Len(posted[d]) \in Nat /\ Len(posted'[d]) \in Nat
                               /\ Len(posted'[d]) >= Len(posted[d])
                               /\ \A i \in 1 .. Len(posted[d]) : posted'[d][i] = posted[d][i]
           /\ posted'[c] = Append(posted[c], Message(c, mine)) /\ Len(posted'[c]) = Len(posted[c]) + 1
           /\ \A d \in Chats \ {c} : posted'[d] = posted[d]
<1> DEFINE m == Message(c, mine)
           n == Len(posted[c])
           k == Len(inbox)
<1>1. posted \in [Chats -> Seq(Texts)] /\ inbox \in Seq(Texts) /\ n \in Nat /\ k \in Nat
  BY DEF ChatInv, ChatTyped
<1>2. m.chat = c /\ m.id = n /\ m.mine = mine /\ m \in Texts
  BY <1>1 DEF Message, Texts
<1>3. /\ posted' \in [Chats -> Seq(Texts)] /\ posted'[c] = Append(posted[c], m)
      /\ \A d \in Chats \ {c} : posted'[d] = posted[d]
  BY <1>1, <1>2
<1>4. /\ posted'[c] \in Seq(Texts) /\ Len(posted'[c]) = n + 1
      /\ \A i \in 1 .. n : posted'[c][i] = posted[c][i]
      /\ posted'[c][n + 1] = m /\ DOMAIN posted'[c] = 1 .. n + 1 /\ DOMAIN posted[c] = 1 .. n
  BY <1>1, <1>2, <1>3, Lengthened
<1>5. /\ inbox' \in Seq(Texts) /\ DOMAIN inbox = 1 .. k /\ DOMAIN inbox' = 1 .. k + 1
      /\ \A i \in 1 .. k : inbox'[i] = inbox[i]
      /\ inbox'[k + 1] = m
  BY <1>1, <1>2, Lengthened
<1> HIDE DEF m, k
<1>6. \A d \in Chats : /\ Len(posted[d]) \in Nat /\ Len(posted'[d]) \in Nat
                       /\ Len(posted'[d]) >= Len(posted[d])
                       /\ \A i \in 1 .. Len(posted[d]) : posted'[d][i] = posted[d][i]
  BY <1>1, <1>3, <1>4
<1>7. ASSUME NEW d \in Chats PROVE Numbered(posted'[d], d)
  <2>1. Numbered(posted[d], d)
    BY DEF ChatInv, EventsKnown
  <2>2. CASE d = c
    <3> SUFFICES ASSUME NEW i \in 1 .. n + 1 PROVE posted'[c][i].chat = c /\ posted'[c][i].id = i - 1
      BY <1>4, <2>2 DEF Numbered
    <3>1. CASE i \in 1 .. n
      BY <1>4, <2>1, <2>2, <3>1 DEF Numbered
    <3>2. CASE i = n + 1
      BY <1>1, <1>2, <1>4, <3>2
    <3> QED
      BY <1>1, <3>1, <3>2
  <2>3. CASE d # c
    BY <1>3, <2>1, <2>3
  <2> QED
    BY <2>2, <2>3
<1>8. ASSUME NEW i \in 1 .. k
      PROVE  /\ inbox[i].chat \in Chats /\ inbox[i].id \in 0 .. Len(posted[inbox[i].chat]) - 1
             /\ inbox[i] = posted[inbox[i].chat][inbox[i].id + 1]
             /\ inbox[i].id \in 0 .. Len(posted'[inbox[i].chat]) - 1
             /\ inbox[i] = posted'[inbox[i].chat][inbox[i].id + 1]
             /\ inbox[i] # m
  <2>1. inbox[i] \in Texts /\ i \in DOMAIN inbox
    BY <1>1, <1>5
  <2> DEFINE d  == inbox[i].chat
             id == inbox[i].id
  <2>2. d \in Chats /\ id \in 0 .. Len(posted[d]) - 1 /\ inbox[i] = posted[d][id + 1]
    BY <2>1 DEF ChatInv, EventsKnown, Texts
  <2>3. id + 1 \in 1 .. Len(posted[d]) /\ id \in 0 .. Len(posted'[d]) - 1
    <3> HIDE DEF d, id
    <3> QED
      BY <1>6, <2>2
  <2>4. posted'[d][id + 1] = posted[d][id + 1]
    <3> HIDE DEF d, id
    <3> QED
      BY <1>6, <2>2, <2>3
  <2>5. inbox[i] # m
    BY <1>2, <2>2
  <2> QED
    BY <2>2, <2>3, <2>4, <2>5
<1>9. ASSUME NEW i \in DOMAIN inbox'
      PROVE  /\ inbox'[i].id \in 0 .. Len(posted'[inbox'[i].chat]) - 1
             /\ inbox'[i] = posted'[inbox'[i].chat][inbox'[i].id + 1]
  <2>1. CASE i \in 1 .. k
    BY <1>5, <1>8, <2>1
  <2>2. CASE i = k + 1
    BY <1>1, <1>2, <1>4, <1>5, <2>2
  <2> QED
    BY <1>1, <1>5, <2>1, <2>2
<1>10. ASSUME NEW i \in DOMAIN inbox', NEW j \in DOMAIN inbox', inbox'[i] = inbox'[j] PROVE i = j
  <2>1. \A a, b \in 1 .. k : inbox[a] = inbox[b] => a = b
    BY <1>5 DEF ChatInv, EventsKnown
  <2>2. \A a \in 1 .. k : inbox[a] # m
    BY <1>8
  <2>3. (i \in 1 .. k \/ i = k + 1) /\ (j \in 1 .. k \/ j = k + 1)
    BY <1>1, <1>5
  <2> QED
    BY <1>5, <1>10, <2>1, <2>2, <2>3
<1>11. EventsKnown'
  BY <1>7, <1>9, <1>10 DEF EventsKnown
<1>12. LoadKnown'
  <2> SUFFICES ASSUME load # NoLoad, load.stage = "answered"
               PROVE  \E q \in Nat : /\ LastOfFirst(load.got, posted'[load.chat], q)
                                     /\ load.more <=> q > PageSize
    BY DEF ChatInv, LoadKnown, Sees
  <2>1. PICK q \in Nat : LastOfFirst(load.got, posted[load.chat], q) /\ (load.more <=> q > PageSize)
    BY DEF ChatInv, LoadKnown, Sees
  <2>2. load.chat \in Chats /\ load.got \in Seq(Texts)
    BY NotARead DEF ChatInv, ChatTyped, ChatReads
  <2>3. LastOfFirst(load.got, posted'[load.chat], q)
    <3>1. posted[load.chat] \in Seq(Texts)
      BY <1>1, <2>2
    <3> QED
      BY <1>6, <2>1, <2>2, <3>1, StillFirst
  <2> QED
    BY <2>1, <2>3
<1> QED
  BY <1>2, <1>3, <1>4, <1>5, <1>6, <1>11, <1>12 DEF m

\* A message coming is told on its way, or an own one that is saved.
LEMMA ComingIs ==
    \A id : id \in Coming <=>
               \/ \E k \in DOMAIN inbox : /\ inbox[k].chat = chatId /\ ~inbox[k].mine
                                         /\ inbox[k].id = id
               \/ \E u \in sends : u.stage = "saved" /\ u.real = id
BY DEF Coming

LEMMA ComingNext ==
    \A id : id \in Coming' <=>
              \/ \E k \in DOMAIN inbox' : /\ inbox'[k].chat = chatId' /\ ~inbox'[k].mine
                                         /\ inbox'[k].id = id
              \/ \E u \in sends' : u.stage = "saved" /\ u.real = id
BY DEF Coming

\* An event more: its message is coming, if it is another's and of the chat selected.
LEMMA ComingMore ==
    ASSUME NEW m \in Texts, inbox \in Seq(Texts), inbox' = Append(inbox, m), UNCHANGED chatId
    PROVE  /\ \A id : id \in Coming' <=>
                   \/ \E k \in DOMAIN inbox : /\ inbox[k].chat = chatId /\ ~inbox[k].mine
                                             /\ inbox[k].id = id
                   \/ m.chat = chatId /\ ~m.mine /\ m.id = id
                   \/ \E u \in sends' : u.stage = "saved" /\ u.real = id
           /\ \A k \in DOMAIN inbox' : inbox'[k] = m \/ (k \in DOMAIN inbox /\ inbox'[k] = inbox[k])
<1> DEFINE n == Len(inbox)
<1>1. /\ DOMAIN inbox = 1 .. n /\ n \in Nat /\ DOMAIN inbox' = 1 .. n + 1
      /\ \A k \in 1 .. n : inbox'[k] = inbox[k]
      /\ inbox'[n + 1] = m
  BY Lengthened
<1> HIDE DEF n
<1>2. \A id : id \in Coming' <=>
               \/ \E k \in DOMAIN inbox' : /\ inbox'[k].chat = chatId' /\ ~inbox'[k].mine
                                         /\ inbox'[k].id = id
               \/ \E u \in sends' : u.stage = "saved" /\ u.real = id
  BY ComingNext
<1>3. DOMAIN inbox \subseteq DOMAIN inbox' /\ n + 1 \in DOMAIN inbox'
  BY <1>1
<1>4. \A k \in DOMAIN inbox' : inbox'[k] = m \/ (k \in DOMAIN inbox /\ inbox'[k] = inbox[k])
  BY <1>1
<1>5. \A k \in DOMAIN inbox : inbox'[k] = inbox[k]
  BY <1>1
<1>6. ASSUME NEW id
      PROVE  (\E k \in DOMAIN inbox' : inbox'[k].chat = chatId /\ ~inbox'[k].mine /\ inbox'[k].id = id)
             <=> \/ \E k \in DOMAIN inbox : inbox[k].chat = chatId /\ ~inbox[k].mine /\ inbox[k].id = id
                 \/ m.chat = chatId /\ ~m.mine /\ m.id = id
  BY <1>1, <1>3, <1>4, <1>5
<1> QED
  BY <1>2, <1>4, <1>6

LEMMA OtherPostsKeeps ==
    ASSUME ChatInv, NEW c \in Chats, OtherPosts(c)
    PROVE  ChatInv'
<1> DEFINE m == Message(c, FALSE)
<1>1. /\ posted' = [posted EXCEPT ![c] = Append(@, Message(c, FALSE))]
      /\ inbox' = Append(inbox, Message(c, FALSE))
      /\ UNCHANGED <<chatId, messages, hasMore, load, older, sends, counts, overtaken>>
  BY DEF OtherPosts
<1>2. /\ posted' \in [Chats -> Seq(Texts)] /\ inbox' \in Seq(Texts) /\ EventsKnown' /\ LoadKnown'
      /\ m \in Texts /\ m.chat = c /\ m.mine = FALSE
      /\ \A d \in Chats : /\ Len(posted[d]) \in Nat /\ Len(posted'[d]) \in Nat
                          /\ Len(posted'[d]) >= Len(posted[d])
                          /\ \A i \in 1 .. Len(posted[d]) : posted'[d][i] = posted[d][i]
      /\ posted'[c] = Append(posted[c], m) /\ Len(posted'[c]) = Len(posted[c]) + 1
      /\ \A d \in Chats \ {c} : posted'[d] = posted[d]
      /\ m.id = Len(posted[c])
  <2>1. m.chat = c /\ m.mine = FALSE /\ m.id = Len(posted[c])
    BY DEF Message
  <2> QED
    BY <1>1, <2>1, Posting
<1>3. ChatTyped'
  BY <1>1, <1>2 DEF ChatInv, ChatTyped
<1>4. SendsKnown'
  <2>1. ASSUME NEW s \in sends, s.stage = "saved"
        PROVE  s.real \in 0 .. Len(posted'[s.chat]) - 1 /\ posted'[s.chat][s.real + 1].mine
    <3>1. s.real \in 0 .. Len(posted[s.chat]) - 1 /\ posted[s.chat][s.real + 1].mine
      BY <2>1 DEF ChatInv, SendsKnown
    <3>2. s.chat \in Chats
      BY DEF ChatInv, ChatTyped, Outgoing
    <3>3. s.real + 1 \in 1 .. Len(posted[s.chat])
      BY <1>2, <3>1, <3>2
    <3> QED
      BY <1>2, <3>1, <3>2, <3>3
  <2> QED
    BY <1>1, <2>1 DEF ChatInv, SendsKnown
<1> HIDE DEF m
<1>5. ASSUME ~overtaken, AtRest PROVE Follows'
  <2>1. PICK lo \in Nat : /\ Shows(lo, messages, chatId, posted[chatId], Coming, sends)
                          /\ hasMore <=> lo > 0
                          /\ ReachesBackTo(lo)
    BY <1>5, RestFollows
  <2>2. /\ chatId \in Chats /\ posted[chatId] \in Seq(Texts) /\ messages \in Seq(Texts)
        /\ inbox \in Seq(Texts)
    BY <1>5, RestFollows DEF ChatInv, ChatTyped
  <2>3. /\ \A id : id \in Coming' <=>
                 \/ \E k \in DOMAIN inbox : /\ inbox[k].chat = chatId /\ ~inbox[k].mine
                                           /\ inbox[k].id = id
                 \/ m.chat = chatId /\ ~m.mine /\ m.id = id
                 \/ \E u \in sends' : u.stage = "saved" /\ u.real = id
        /\ \A k \in DOMAIN inbox' : inbox'[k] = m \/ (k \in DOMAIN inbox /\ inbox'[k] = inbox[k])
    <3>1. inbox' = Append(inbox, m)
      BY <1>1 DEF m
    <3> QED
      BY <1>1, <1>2, <2>2, <3>1, ComingMore
  <2>4. Shows(lo, messages, chatId, posted'[chatId], Coming', sends)
    <3>1. CASE c = chatId
      <4>1. \A id : id \in Coming' <=> id \in Coming \/ id = Len(posted[chatId])
        BY <1>1, <1>2, <2>3, <3>1, ComingIs
      <4>2. posted'[chatId] = Append(posted[chatId], m)
        BY <1>2, <3>1
      <4>3. /\ \A s \in sends : \E u \in sends : u.temp = s.temp
            /\ \A u \in sends : \E s \in sends : u.temp = s.temp /\ u.chat = s.chat
        OBVIOUS
      <4>4. Shows(lo, messages, chatId, Append(posted[chatId], m), Coming', sends)
        BY <1>2, <2>1, <2>2, <4>1, <4>3, ShowsPosted
      <4> QED
        BY <4>2, <4>4
    <3>2. CASE c # chatId
      <4>1. \A id : id \in Coming' <=> id \in Coming
        BY <1>1, <1>2, <2>3, <3>2, ComingIs
      <4>2. Coming' = Coming
        BY <4>1
      <4> QED
        BY <1>2, <2>1, <2>2, <3>2, <4>2
    <3> QED
      BY <3>1, <3>2
  <2>5. ReachesBackTo(lo)'
    <3>1. ASSUME NEW k \in DOMAIN inbox', inbox'[k].chat = chatId PROVE inbox'[k].id >= lo
      <4>1. CASE k \in DOMAIN inbox /\ inbox'[k] = inbox[k]
        BY <2>1, <3>1, <4>1 DEF ReachesBackTo
      <4>2. CASE inbox'[k] = m
        <5>1. lo \in 0 .. Len(posted[chatId]) /\ Len(posted[chatId]) \in Nat
          BY <1>2, <2>1, <2>2 DEF Shows
        <5> QED
          BY <1>2, <3>1, <4>2, <5>1
      <4> QED
        BY <2>3, <4>1, <4>2
    <3>2. ASSUME older # NoLoad, older.stage = "answered"
          PROVE  LastOfFirst(older.got, posted'[older.chat], lo) /\ (older.more <=> lo > PageSize)
      <4>1. /\ older.chat = chatId /\ LastOfFirst(older.got, posted[chatId], lo)
            /\ older.more <=> lo > PageSize
        BY <2>1, <3>2 DEF ReachesBackTo, Sees
      <4>2. older.got \in Seq(Texts)
        BY <3>2 DEF ChatInv, ChatTyped, ChatReads
      <4>3. LastOfFirst(older.got, posted'[chatId], lo)
        BY <1>2, <2>2, <4>1, <4>2, StillFirst
      <4> QED
        BY <4>1, <4>3
    <3> QED
      BY <1>1, <2>1, <3>1, <3>2 DEF ReachesBackTo, Sees
  <2> QED
    BY <1>1, <2>1, <2>4, <2>5 DEF Follows
<1>6. MessagesFollow'
  BY <1>1, <1>5 DEF ChatInv, MessagesFollow, AtRest
<1> QED
  BY <1>2, <1>3, <1>4, <1>6 DEF ChatInv

LEMMA SendHandledKeeps ==
    ASSUME ChatInv, NEW s \in sends, SendHandled(s)
    PROVE  ChatInv'
<1> DEFINE c == s.chat
           m == Message(c, TRUE)
           saved == [s EXCEPT !.stage = "saved", !.real = Len(posted[s.chat])]
<1>1. /\ s.stage = "sent"
      /\ posted' = [posted EXCEPT ![c] = Append(@, Message(c, TRUE))]
      /\ inbox' = Append(inbox, Message(c, TRUE))
      /\ sends' = (sends \ {s}) \cup {saved}
      /\ UNCHANGED <<chatId, messages, hasMore, load, older, counts, overtaken>>
  BY DEF SendHandled
<1>2. s \in Outgoing /\ c \in Chats /\ sends \subseteq Outgoing
  BY DEF ChatInv, ChatTyped, Outgoing
<1>3. /\ posted' \in [Chats -> Seq(Texts)] /\ inbox' \in Seq(Texts) /\ EventsKnown' /\ LoadKnown'
      /\ m \in Texts /\ m.chat = c /\ m.mine = TRUE
      /\ \A d \in Chats : /\ Len(posted[d]) \in Nat /\ Len(posted'[d]) \in Nat
                          /\ Len(posted'[d]) >= Len(posted[d])
                          /\ \A i \in 1 .. Len(posted[d]) : posted'[d][i] = posted[d][i]
      /\ posted'[c] = Append(posted[c], m) /\ Len(posted'[c]) = Len(posted[c]) + 1
      /\ m.id = Len(posted[c]) /\ posted'[c][Len(posted[c]) + 1] = m
  <2>1. m.chat = c /\ m.mine = TRUE /\ m.id = Len(posted[c])
    BY DEF Message
  <2>2. /\ posted' \in [Chats -> Seq(Texts)] /\ inbox' \in Seq(Texts) /\ EventsKnown' /\ LoadKnown'
        /\ m \in Texts
        /\ \A d \in Chats : /\ Len(posted[d]) \in Nat /\ Len(posted'[d]) \in Nat
                            /\ Len(posted'[d]) >= Len(posted[d])
                            /\ \A i \in 1 .. Len(posted[d]) : posted'[d][i] = posted[d][i]
        /\ posted'[c] = Append(posted[c], m) /\ Len(posted'[c]) = Len(posted[c]) + 1
    <3> HIDE DEF c
    <3> QED
      BY <1>1, <1>2, Posting
  <2>3. posted[c] \in Seq(Texts)
    BY <1>2 DEF ChatInv, ChatTyped
  <2> HIDE DEF c, m
  <2>4. posted'[c][Len(posted[c]) + 1] = m
    BY <2>2, <2>3, Lengthened
  <2> QED
    BY <2>1, <2>2, <2>4
<1>4. /\ saved \in Outgoing /\ saved.temp = s.temp /\ saved.chat = c /\ saved.stage = "saved"
      /\ saved.real = Len(posted[c])
  <2>1. Len(posted[c]) \in Int
    BY <1>2, <1>3
  <2> QED
    BY <1>2, <2>1 DEF Outgoing
<1> HIDE DEF c, m, saved
<1>5. ChatTyped'
  BY <1>1, <1>2, <1>3, <1>4 DEF ChatInv, ChatTyped
<1>6. SendsKnown'
  <2>1. ASSUME NEW u \in sends, u.stage = "saved"
        PROVE  /\ u.real \in 0 .. Len(posted[u.chat]) - 1
               /\ u.real \in 0 .. Len(posted'[u.chat]) - 1 /\ posted'[u.chat][u.real + 1].mine
    <3>1. u.real \in 0 .. Len(posted[u.chat]) - 1 /\ posted[u.chat][u.real + 1].mine
      BY <2>1 DEF ChatInv, SendsKnown
    <3>2. u.chat \in Chats
      BY DEF ChatInv, ChatTyped, Outgoing
    <3>3. u.real + 1 \in 1 .. Len(posted[u.chat])
      BY <1>3, <3>1, <3>2
    <3> QED
      BY <1>3, <3>1, <3>2, <3>3
  <2>2. /\ saved.real \in 0 .. Len(posted'[saved.chat]) - 1
        /\ posted'[saved.chat][saved.real + 1].mine
    BY <1>2, <1>3, <1>4
  <2>3. ASSUME NEW u \in sends, u.stage = "saved", u.chat = c PROVE u.real # saved.real
    BY <1>2, <1>3, <1>4, <2>1, <2>3
  <2>4. \A u \in sends' : u = saved \/ (u \in sends /\ u # s)
    BY <1>1
  <2>5. \A u \in sends' : u.temp \in -counts.sent .. -1
    BY <1>4, <2>4 DEF ChatInv, SendsKnown
  <2>6. \A u, v \in sends' : u.temp = v.temp => u = v
    BY <1>4, <2>4 DEF ChatInv, SendsKnown
  <2>7. \A u \in sends' : u.stage = "saved" =>
            u.real \in 0 .. Len(posted'[u.chat]) - 1 /\ posted'[u.chat][u.real + 1].mine
    BY <2>1, <2>2, <2>4
  <2>8. \A u, v \in sends' : u.stage = "saved" /\ v.stage = "saved" /\ u.chat = v.chat /\ u.real = v.real
                                => u = v
    BY <1>4, <2>3, <2>4 DEF ChatInv, SendsKnown
  <2> QED
    BY <1>1, <2>5, <2>6, <2>7, <2>8 DEF SendsKnown
<1>7. ASSUME ~overtaken, AtRest PROVE Follows'
  <2>1. PICK lo \in Nat : /\ Shows(lo, messages, chatId, posted[chatId], Coming, sends)
                          /\ hasMore <=> lo > 0
                          /\ ReachesBackTo(lo)
    BY <1>7, RestFollows
  <2>2. /\ chatId \in Chats /\ posted[chatId] \in Seq(Texts) /\ messages \in Seq(Texts)
        /\ inbox \in Seq(Texts)
    BY <1>7, RestFollows DEF ChatInv, ChatTyped
  <2>3. /\ \A id : id \in Coming' <=>
                 \/ \E k \in DOMAIN inbox : /\ inbox[k].chat = chatId /\ ~inbox[k].mine
                                           /\ inbox[k].id = id
                 \/ m.chat = chatId /\ ~m.mine /\ m.id = id
                 \/ \E u \in sends' : u.stage = "saved" /\ u.real = id
        /\ \A k \in DOMAIN inbox' : inbox'[k] = m \/ (k \in DOMAIN inbox /\ inbox'[k] = inbox[k])
    <3>1. inbox' = Append(inbox, m)
      BY <1>1 DEF m
    <3> QED
      BY <1>1, <1>3, <2>2, <3>1, ComingMore
  <2>4. c = chatId
    BY <2>1 DEF Shows, c
  <2>5. \A id : id \in Coming' <=> id \in Coming \/ id = Len(posted[chatId])
    <3>1. ASSUME NEW id
          PROVE  (\E u \in sends' : u.stage = "saved" /\ u.real = id) <=>
                     (\E u \in sends : u.stage = "saved" /\ u.real = id) \/ id = Len(posted[chatId])
      BY <1>1, <1>4, <2>4
    <3> QED
      BY <1>3, <2>3, <3>1, ComingIs
  <2>6. Shows(lo, messages, chatId, posted'[chatId], Coming', sends')
    <3>1. \A u \in sends : \E v \in sends' : v.temp = u.temp
      BY <1>1, <1>4
    <3>2. \A v \in sends' : \E u \in sends : v.temp = u.temp /\ v.chat = u.chat
      BY <1>1, <1>4 DEF c
    <3>3. Shows(lo, messages, chatId, Append(posted[chatId], m), Coming', sends')
      BY <1>3, <2>1, <2>2, <2>5, <3>1, <3>2, ShowsPosted
    <3> QED
      BY <1>3, <2>4, <3>3
  <2>7. lo \in 0 .. Len(posted[chatId]) /\ Len(posted[chatId]) \in Nat
    BY <1>3, <2>1, <2>2 DEF Shows
  <2>8. ReachesBackTo(lo)'
    <3>1. ASSUME NEW k \in DOMAIN inbox', inbox'[k].chat = chatId PROVE inbox'[k].id >= lo
      <4>1. CASE k \in DOMAIN inbox /\ inbox'[k] = inbox[k]
        BY <2>1, <3>1, <4>1 DEF ReachesBackTo
      <4>2. CASE inbox'[k] = m
        BY <1>3, <2>4, <2>7, <4>2
      <4> QED
        BY <2>3, <4>1, <4>2
    <3>2. ASSUME older # NoLoad, older.stage = "answered"
          PROVE  LastOfFirst(older.got, posted'[older.chat], lo) /\ (older.more <=> lo > PageSize)
      <4>1. /\ older.chat = chatId /\ LastOfFirst(older.got, posted[chatId], lo)
            /\ older.more <=> lo > PageSize
        BY <2>1, <3>2 DEF ReachesBackTo, Sees
      <4>2. older.got \in Seq(Texts)
        BY <3>2 DEF ChatInv, ChatTyped, ChatReads
      <4>3. LastOfFirst(older.got, posted'[chatId], lo)
        BY <1>3, <2>2, <4>1, <4>2, StillFirst
      <4> QED
        BY <4>1, <4>3
    <3>3. ASSUME NEW u \in sends', u.stage = "saved" PROVE u.real >= lo
      BY <1>1, <1>4, <2>1, <2>4, <2>7, <3>3 DEF ReachesBackTo
    <3> QED
      BY <1>1, <2>1, <3>1, <3>2, <3>3 DEF ReachesBackTo, Sees
  <2> QED
    BY <1>1, <2>1, <2>6, <2>8 DEF Follows
<1>8. MessagesFollow'
  BY <1>1, <1>7 DEF ChatInv, MessagesFollow, AtRest
<1> QED
  BY <1>3, <1>5, <1>6, <1>8 DEF ChatInv

LEMMA SendKeeps ==
    ASSUME ChatInv, Send
    PROVE  ChatInv'
<1> DEFINE temp == -(counts.sent + 1)
           e == [chat |-> chatId, id |-> temp, mine |-> TRUE]
           s == [temp |-> temp, chat |-> chatId, stage |-> "sent", real |-> 0]
<1>1. /\ chatId # NoChat /\ messages' = Append(messages, e) /\ sends' = sends \cup {s}
      /\ counts' = [counts EXCEPT !.sent = @ + 1]
      /\ UNCHANGED <<posted, inbox, chatId, hasMore, load, older, overtaken>>
  BY DEF Send
<1>2. /\ chatId \in Chats /\ counts \in [sent: Nat, selected: Nat] /\ counts.sent \in Nat
      /\ sends \subseteq Outgoing /\ messages \in Seq(Texts)
  BY <1>1 DEF ChatInv, ChatTyped
<1>3. /\ temp \in Int /\ temp < -counts.sent
      /\ e \in Texts /\ e.chat = chatId /\ e.mine /\ e.id = temp
      /\ s \in Outgoing /\ s.chat = chatId /\ s.temp = temp /\ s.stage = "sent"
  BY <1>2 DEF Texts, Outgoing
<1>4. counts' \in [sent: Nat, selected: Nat] /\ counts'.sent = counts.sent + 1 /\ temp = -counts'.sent
  BY <1>1, <1>2
<1> HIDE DEF e, s, temp
<1>5. messages' \in Seq(Texts)
  BY <1>1, <1>2, <1>3, Lengthened
<1>6. ChatTyped'
  BY <1>1, <1>2, <1>3, <1>4, <1>5 DEF ChatInv, ChatTyped
<1>7. EventsKnown' /\ LoadKnown'
  <2>1. EventsKnown'
    BY <1>1 DEF ChatInv, EventsKnown, Numbered
  <2>2. LoadKnown'
    BY <1>1 DEF ChatInv, LoadKnown, Sees
  <2> QED
    BY <2>1, <2>2
<1>8. ASSUME NEW u \in sends PROVE u.temp \in -counts.sent .. -1 /\ u.temp # temp /\ u.temp \in -counts'.sent .. -1
  <2>1. u.temp \in -counts.sent .. -1
    BY DEF ChatInv, SendsKnown
  <2> QED
    BY <1>2, <1>3, <1>4, <2>1
<1>9. SendsKnown'
  <2>1. s.temp \in -counts'.sent .. -1
    BY <1>2, <1>3, <1>4
  <2>2. \A u \in sends' : u \in sends \/ u = s
    BY <1>1
  <2>3. \A u \in sends' : u.temp \in -counts'.sent .. -1
    BY <1>8, <2>1, <2>2
  <2>4. \A u, v \in sends' : u.temp = v.temp => u = v
    BY <1>3, <1>8, <2>2 DEF ChatInv, SendsKnown
  <2>5. \A u \in sends' : u.stage = "saved" => u \in sends
    BY <1>3, <2>2
  <2>6. \A u \in sends' : u.stage = "saved" =>
            u.real \in 0 .. Len(posted'[u.chat]) - 1 /\ posted'[u.chat][u.real + 1].mine
    BY <1>1, <2>5 DEF ChatInv, SendsKnown
  <2>7. \A u, v \in sends' : u.stage = "saved" /\ v.stage = "saved" /\ u.chat = v.chat /\ u.real = v.real
                                => u = v
    BY <2>5 DEF ChatInv, SendsKnown
  <2> QED
    BY <2>3, <2>4, <2>6, <2>7 DEF SendsKnown
<1>10. ASSUME ~overtaken, AtRest PROVE Follows'
  <2>1. PICK lo \in Nat : /\ Shows(lo, messages, chatId, posted[chatId], Coming, sends)
                          /\ hasMore <=> lo > 0
                          /\ ReachesBackTo(lo)
    BY <1>10, RestFollows
  <2>2. posted[chatId] \in Seq(Texts)
    BY <1>10, RestFollows
  <2>3. ASSUME NEW i \in DOMAIN messages PROVE messages[i].id # e.id
    <3>1. CASE AsPosted(messages[i], lo, posted[chatId], Coming)
      BY <1>2, <1>3, <2>2, <3>1 DEF AsPosted
    <3>2. CASE OnlyHere(messages[i], chatId, sends)
      BY <1>3, <1>8, <3>2 DEF OnlyHere
    <3> QED
      BY <2>1, <3>1, <3>2 DEF Shows
  <2>4. Coming' = Coming
    <3>1. \A u : u \in sends' /\ u.stage = "saved" <=> u \in sends /\ u.stage = "saved"
      BY <1>1, <1>3
    <3>2. \A id : id \in Coming' <=>
               \/ \E k \in DOMAIN inbox' : /\ inbox'[k].chat = chatId' /\ ~inbox'[k].mine
                                         /\ inbox'[k].id = id
               \/ \E u \in sends' : u.stage = "saved" /\ u.real = id
      BY ComingNext
    <3>3. \A id : id \in Coming' <=> id \in Coming
      BY <1>1, <3>1, <3>2, ComingIs
    <3> QED
      BY <3>3
  <2>5. Shows(lo, messages', chatId, posted[chatId], Coming, sends')
    <3>1. OnlyHere(e, chatId, sends')
      BY <1>1, <1>3 DEF OnlyHere
    <3>2. \A u \in sends' \ sends : u.chat = chatId /\ u.temp = e.id
      BY <1>1, <1>3
    <3>3. sends \subseteq sends' /\ Coming \in SUBSET Coming /\ Coming \ Coming \subseteq {e.id}
      BY <1>1
    <3> HIDE DEF Coming
    <3>4. Shows(lo, Append(messages, e), chatId, posted[chatId], Coming, sends')
      BY <1>2, <1>3, <2>1, <2>2, <2>3, <3>1, <3>2, <3>3, ShowsMore
    <3> QED
      BY <1>1, <3>4
  <2>6. ReachesBackTo(lo)'
    <3>1. ASSUME NEW u \in sends', u.stage = "saved" PROVE u.real >= lo
      BY <1>1, <1>3, <2>1, <3>1 DEF ReachesBackTo
    <3> QED
      BY <1>1, <2>1, <3>1 DEF ReachesBackTo, Sees
  <2> QED
    BY <1>1, <2>1, <2>4, <2>5, <2>6 DEF Follows
<1>11. MessagesFollow'
  BY <1>1, <1>10 DEF ChatInv, MessagesFollow, AtRest
<1> QED
  BY <1>6, <1>7, <1>9, <1>11 DEF ChatInv

\* What the player's messages on their way know once one of them is done with.
LEMMA OneSendLess ==
    ASSUME ChatInv, NEW s \in sends, sends' = sends \ {s}, messages' \in Seq(Texts), overtaken' \in BOOLEAN,
           UNCHANGED <<posted, inbox, chatId, hasMore, load, older, counts>>
    PROVE  /\ ChatTyped' /\ EventsKnown' /\ SendsKnown' /\ LoadKnown'
           /\ \A u \in sends : u.temp = s.temp => u = s
           /\ \A lo \in Nat : ReachesBackTo(lo) => ReachesBackTo(lo)'
<1>1. ChatTyped'
  BY DEF ChatInv, ChatTyped
<1>2. EventsKnown'
  BY DEF ChatInv, EventsKnown, Numbered
<1>3. SendsKnown'
  BY DEF ChatInv, SendsKnown
<1>4. LoadKnown'
  BY DEF ChatInv, LoadKnown, Sees
<1>5. \A u \in sends : u.temp = s.temp => u = s
  BY DEF ChatInv, SendsKnown
<1>6. \A lo \in Nat : ReachesBackTo(lo) => ReachesBackTo(lo)'
  BY DEF ReachesBackTo, Sees
<1> QED
  BY <1>1, <1>2, <1>3, <1>4, <1>5, <1>6

LEMMA SendLandsKeeps ==
    ASSUME ChatInv, NEW s \in sends, SendLands(s)
    PROVE  ChatInv'
<1>1. /\ s.stage = "saved"
      /\ messages' = [i \in DOMAIN messages |->
                          IF messages[i].id = s.temp THEN [messages[i] EXCEPT !.id = s.real] ELSE messages[i]]
      /\ sends' = sends \ {s}
      /\ UNCHANGED <<posted, inbox, chatId, hasMore, load, older, counts, overtaken>>
  BY DEF SendLands
<1>2. /\ messages \in Seq(Texts) /\ s \in Outgoing /\ overtaken \in BOOLEAN
      /\ s.real \in Int
  BY DEF ChatInv, ChatTyped, Outgoing
<1>3. messages' \in Seq(Texts)
  <2>1. ASSUME NEW i \in DOMAIN messages PROVE messages'[i] \in Texts
    <3>1. messages[i] \in Texts
      BY <1>2
    <3>2. messages'[i] = IF messages[i].id = s.temp THEN [messages[i] EXCEPT !.id = s.real] ELSE messages[i]
      BY <1>1
    <3>3. [messages[i] EXCEPT !.id = s.real] \in Texts
      BY <1>2, <3>1 DEF Texts
    <3> QED
      BY <3>1, <3>2, <3>3
  <2>2. DOMAIN messages = 1 .. Len(messages) /\ Len(messages) \in Nat
    BY <1>2
  <2>3. messages' \in [1 .. Len(messages) -> Texts]
    BY <1>1, <2>1, <2>2
  <2> QED
    BY <2>2, <2>3
<1>4. /\ ChatTyped' /\ EventsKnown' /\ SendsKnown' /\ LoadKnown'
      /\ \A u \in sends : u.temp = s.temp => u = s
      /\ \A lo \in Nat : ReachesBackTo(lo) => ReachesBackTo(lo)'
  BY <1>1, <1>2, <1>3, OneSendLess
<1>5. ASSUME ~overtaken, AtRest PROVE Follows'
  <2>1. PICK lo \in Nat : /\ Shows(lo, messages, chatId, posted[chatId], Coming, sends)
                          /\ hasMore <=> lo > 0
                          /\ ReachesBackTo(lo)
    BY <1>5, RestFollows
  <2>2. /\ chatId \in Chats /\ posted[chatId] \in Seq(Texts) /\ Numbered(posted[chatId], chatId)
        /\ sends \in SUBSET Outgoing /\ \A u \in sends : u.temp < 0
    BY <1>5, RestFollows
  <2> DEFINE seq == posted[chatId]
             m == seq[s.real + 1]
  <2>3. s.chat = chatId /\ s.real \in 0 .. Len(seq) - 1 /\ m.mine
    <3>1. s.chat = chatId
      BY <2>1 DEF Shows
    <3> QED
      BY <1>1, <3>1 DEF ChatInv, SendsKnown
  <2>4. s.real >= lo /\ s.real \in Coming
    BY <1>1, <2>1, ComingIs DEF ReachesBackTo
  <2> HIDE DEF seq, m
  <2>5. s.real \in lo .. Len(seq) - 1 /\ s.real + 1 \in DOMAIN seq /\ Len(seq) \in Nat
    BY <1>2, <2>2, <2>3, <2>4 DEF seq
  <2>6. m = [chat |-> chatId, id |-> s.real, mine |-> TRUE]
    <3>1. m \in Texts
      BY <2>2, <2>5 DEF seq, m
    <3>2. m.chat = chatId /\ m.id = (s.real + 1) - 1
      BY <2>2, <2>5 DEF Numbered, seq, m
    <3>3. m.id = s.real
      BY <1>2, <3>2
    <3>4. m.mine = TRUE
      BY <2>3, <3>1 DEF Texts
    <3> QED
      BY <3>1, <3>2, <3>3, <3>4 DEF Texts
  <2>7. \A id : id \in Coming' <=> id \in Coming /\ id # s.real
    <3>1. \A id : id \in Coming' <=>
               \/ \E k \in DOMAIN inbox' : /\ inbox'[k].chat = chatId' /\ ~inbox'[k].mine
                                         /\ inbox'[k].id = id
               \/ \E u \in sends' : u.stage = "saved" /\ u.real = id
      BY ComingNext
    <3>2. ASSUME NEW k \in DOMAIN inbox, inbox[k].chat = chatId, ~inbox[k].mine PROVE inbox[k].id # s.real
      <4>1. inbox[k] = posted[inbox[k].chat][inbox[k].id + 1]
        BY DEF ChatInv, EventsKnown
      <4> QED
        BY <2>3, <3>2, <4>1 DEF m, seq
    <3>3. \A u \in sends : u.stage = "saved" /\ u.real = s.real => u = s
      <4>1. \A u \in sends : u.chat = s.chat
        BY <2>1, <2>3 DEF Shows
      <4> QED
        BY <1>1, <4>1 DEF ChatInv, SendsKnown
    <3> QED
      BY <1>1, <3>1, <3>2, <3>3, ComingIs
  <2>8. Shows(lo, messages', chatId, posted[chatId], Coming', sends')
    <3>1. \A u \in sends : u.temp < 0 /\ (u.temp = s.temp => u = s)
      BY <1>4, <2>2
    <3>2. /\ s.real \in lo .. Len(posted[chatId]) - 1
          /\ posted[chatId][s.real + 1] = [chat |-> chatId, id |-> s.real, mine |-> TRUE]
      BY <2>5, <2>6 DEF seq, m
    <3> DEFINE less == Coming'
               now == Coming
    <3>3. /\ Shows(lo, messages, chatId, posted[chatId], now, sends) /\ s.real \in now
          /\ \A id : id \in less <=> id \in now /\ id # s.real
      BY <2>1, <2>4, <2>7
    <3> HIDE DEF less, now
    <3>4. Shows(lo, [i \in DOMAIN messages |->
                        IF messages[i].id = s.temp THEN [messages[i] EXCEPT !.id = s.real] ELSE messages[i]],
                chatId, posted[chatId], less, sends \ {s})
      BY <1>2, <2>2, <3>1, <3>2, <3>3, ShowsLanded
    <3> QED
      BY <1>1, <3>4 DEF less
  <2>9. ReachesBackTo(lo)'
    BY <1>4, <2>1
  <2> QED
    BY <1>1, <2>1, <2>8, <2>9 DEF Follows
<1>6. MessagesFollow'
  BY <1>1, <1>5 DEF ChatInv, MessagesFollow, AtRest
<1> QED
  BY <1>4, <1>6 DEF ChatInv

LEMMA SendFailsKeeps ==
    ASSUME ChatInv, NEW s \in sends, SendFails(s)
    PROVE  ChatInv'
<1>1. /\ messages' = Without(messages, s.temp)
      /\ sends' = sends \ {s}
      /\ overtaken' = (overtaken \/ s.stage = "saved") /\ overtaken' \in BOOLEAN
      /\ UNCHANGED <<posted, inbox, chatId, hasMore, load, older, counts>>
  BY DEF SendFails
<1>2. messages \in Seq(Texts)
  BY DEF ChatInv, ChatTyped
<1>3. messages' \in Seq(Texts)
  BY <1>1, <1>2, WithoutTyped
<1>4. /\ ChatTyped' /\ EventsKnown' /\ SendsKnown' /\ LoadKnown'
      /\ \A u \in sends : u.temp = s.temp => u = s
      /\ \A lo \in Nat : ReachesBackTo(lo) => ReachesBackTo(lo)'
  BY <1>1, <1>3, OneSendLess
<1>5. ASSUME ~overtaken', AtRest PROVE Follows'
  <2>1. ~overtaken /\ s.stage # "saved"
    BY <1>1, <1>5
  <2>2. PICK lo \in Nat : /\ Shows(lo, messages, chatId, posted[chatId], Coming, sends)
                          /\ hasMore <=> lo > 0
                          /\ ReachesBackTo(lo)
    BY <1>5, <2>1, RestFollows
  <2>3. /\ chatId \in Chats /\ posted[chatId] \in Seq(Texts)
        /\ sends \in SUBSET Outgoing /\ \A u \in sends : u.temp < 0
    BY <1>5, <2>1, RestFollows
  <2>4. PICK j \in DOMAIN messages : messages[j].id = s.temp /\ messages' = RemoveAt(messages, j)
    <3>1. PICK i \in DOMAIN messages : messages[i].id = s.temp
      BY <2>2 DEF Shows
    <3>2. \A k \in DOMAIN messages : messages[k].id = s.temp => k = i
      BY <2>2, <3>1 DEF Shows
    <3>3. Without(messages, s.temp) = RemoveAt(messages, i)
      BY <1>2, <3>1, <3>2, WithoutOne
    <3> QED
      BY <1>1, <3>1, <3>3
  <2>5. Coming' = Coming
    <3>1. \A id : id \in Coming' <=>
               \/ \E k \in DOMAIN inbox' : /\ inbox'[k].chat = chatId' /\ ~inbox'[k].mine
                                         /\ inbox'[k].id = id
               \/ \E u \in sends' : u.stage = "saved" /\ u.real = id
      BY ComingNext
    <3>2. \A id : id \in Coming' <=> id \in Coming
      BY <1>1, <2>1, <3>1, ComingIs
    <3> QED
      BY <3>2
  <2>6. Shows(lo, messages', chatId, posted[chatId], Coming, sends')
    <3>1. \A u \in sends : u.temp < 0 /\ (u.temp = s.temp => u = s)
      BY <1>4, <2>3
    <3>2. j \in DOMAIN messages /\ messages[j].id = s.temp
      BY <2>4
    <3>3. Shows(lo, RemoveAt(messages, j), chatId, posted[chatId], Coming, sends \ {s})
      BY <1>2, <2>2, <2>3, <3>1, <3>2, ShowsFailed
    <3> QED
      BY <1>1, <2>4, <3>3
  <2>7. ReachesBackTo(lo)'
    BY <1>4, <2>2
  <2> QED
    BY <1>1, <2>2, <2>5, <2>6, <2>7 DEF Follows
<1>6. MessagesFollow'
  BY <1>1, <1>5 DEF ChatInv, MessagesFollow, AtRest
<1> QED
  BY <1>4, <1>6 DEF ChatInv

LEMMA NewMessageKeeps ==
    ASSUME ChatInv, NewMessage
    PROVE  ChatInv'
<1> DEFINE e == Head(inbox)
           n == Len(inbox)
<1>1. /\ inbox # <<>> /\ inbox' = Tail(inbox)
      /\ messages' = (IF e.chat = chatId /\ ~e.mine THEN Append(messages, e) ELSE messages)
      /\ UNCHANGED <<posted, chatId, hasMore, load, older, sends, counts, overtaken>>
  BY DEF NewMessage
<1>2. inbox \in Seq(Texts) /\ messages \in Seq(Texts)
  BY DEF ChatInv, ChatTyped
<1>3. /\ inbox' \in Seq(Texts) /\ n \in Nat /\ n > 0
      /\ DOMAIN inbox = 1 .. n /\ DOMAIN inbox' = 1 .. n - 1
      /\ e = inbox[1] /\ e \in Texts
      /\ \A i \in 1 .. n - 1 : inbox'[i] = inbox[i + 1]
  BY <1>1, <1>2, Shortened
<1> HIDE DEF e, n
<1>4. messages' \in Seq(Texts)
  BY <1>1, <1>2, <1>3, Lengthened
<1>5. ChatTyped'
  BY <1>1, <1>3, <1>4 DEF ChatInv, ChatTyped
<1>6. SendsKnown' /\ LoadKnown'
  <2>1. SendsKnown'
    BY <1>1 DEF ChatInv, SendsKnown
  <2>2. LoadKnown'
    BY <1>1 DEF ChatInv, LoadKnown, Sees
  <2> QED
    BY <2>1, <2>2
<1>7. ASSUME NEW i \in DOMAIN inbox'
      PROVE  i + 1 \in DOMAIN inbox /\ inbox'[i] = inbox[i + 1] /\ i + 1 # 1 /\ i \in Int
  BY <1>3
<1>8. ASSUME NEW k \in DOMAIN inbox, k # 1
      PROVE  k - 1 \in DOMAIN inbox' /\ inbox'[k - 1] = inbox[k]
  <2>1. k - 1 \in 1 .. n - 1 /\ (k - 1) + 1 = k
    BY <1>3, <1>8
  <2> QED
    BY <1>3, <2>1
<1>9. EventsKnown'
  <2>1. \A c \in Chats : Numbered(posted'[c], c)
    BY <1>1 DEF ChatInv, EventsKnown
  <2>2. ASSUME NEW i \in DOMAIN inbox'
        PROVE  /\ inbox'[i].id \in 0 .. Len(posted'[inbox'[i].chat]) - 1
               /\ inbox'[i] = posted'[inbox'[i].chat][inbox'[i].id + 1]
    BY <1>1, <1>7 DEF ChatInv, EventsKnown
  <2>3. ASSUME NEW i \in DOMAIN inbox', NEW j \in DOMAIN inbox', inbox'[i] = inbox'[j] PROVE i = j
    <3>1. i + 1 = j + 1
      BY <1>7, <2>3 DEF ChatInv, EventsKnown
    <3> QED
      BY <1>7, <3>1
  <2> QED
    BY <2>1, <2>2, <2>3 DEF EventsKnown
<1>10. ASSUME ~overtaken, AtRest PROVE Follows'
  <2>1. PICK lo \in Nat : /\ Shows(lo, messages, chatId, posted[chatId], Coming, sends)
                          /\ hasMore <=> lo > 0
                          /\ ReachesBackTo(lo)
    BY <1>10, RestFollows
  <2>2. posted[chatId] \in Seq(Texts)
    BY <1>10, RestFollows
  <2>3. \A id : id \in Coming' <=>
            \/ \E k \in DOMAIN inbox : /\ k # 1 /\ inbox[k].chat = chatId /\ ~inbox[k].mine
                                      /\ inbox[k].id = id
            \/ \E u \in sends : u.stage = "saved" /\ u.real = id
    <3>1. \A id : id \in Coming' <=>
               \/ \E k \in DOMAIN inbox' : /\ inbox'[k].chat = chatId' /\ ~inbox'[k].mine
                                         /\ inbox'[k].id = id
               \/ \E u \in sends' : u.stage = "saved" /\ u.real = id
      BY ComingNext
    <3>2. ASSUME NEW id
          PROVE  (\E i \in DOMAIN inbox' : inbox'[i].chat = chatId /\ ~inbox'[i].mine /\ inbox'[i].id = id)
                 <=> (\E k \in DOMAIN inbox : /\ k # 1 /\ inbox[k].chat = chatId /\ ~inbox[k].mine
                                             /\ inbox[k].id = id)
      <4>1. ASSUME NEW i \in DOMAIN inbox', inbox'[i].chat = chatId, ~inbox'[i].mine, inbox'[i].id = id
            PROVE  \E k \in DOMAIN inbox : /\ k # 1 /\ inbox[k].chat = chatId /\ ~inbox[k].mine
                                          /\ inbox[k].id = id
        BY <1>7, <4>1
      <4>2. ASSUME NEW k \in DOMAIN inbox, k # 1, inbox[k].chat = chatId, ~inbox[k].mine, inbox[k].id = id
            PROVE  \E i \in DOMAIN inbox' : inbox'[i].chat = chatId /\ ~inbox'[i].mine /\ inbox'[i].id = id
        BY <1>8, <4>2
      <4> QED
        BY <4>1, <4>2
    <3> QED
      BY <1>1, <3>1, <3>2
  <2>4. 1 \in DOMAIN inbox /\ e = inbox[1]
    BY <1>3
  <2>5. Shows(lo, messages', chatId, posted[chatId], Coming', sends)
    <3>1. CASE e.chat = chatId /\ ~e.mine
      <4> DEFINE less == Coming'
                 now  == Coming
                 seq  == posted[chatId]
      <4>1. e.id \in 0 .. Len(seq) - 1 /\ e = seq[e.id + 1] /\ Len(seq) \in Nat
        BY <2>2, <2>4, <3>1 DEF ChatInv, EventsKnown
      <4>2. e.id \notin less
        <5>1. ASSUME NEW k \in DOMAIN inbox, inbox[k].chat = chatId, inbox[k].id = e.id PROVE k = 1
          <6>1. inbox[k] = seq[e.id + 1]
            BY <5>1 DEF ChatInv, EventsKnown
          <6>2. inbox[k] = inbox[1]
            BY <2>4, <4>1, <6>1
          <6> QED
            BY <2>4, <6>2 DEF ChatInv, EventsKnown
        <5>2. ASSUME NEW u \in sends, u.stage = "saved", u.real = e.id PROVE FALSE
          <6>1. u.chat = chatId
            BY <2>1 DEF Shows
          <6>2. posted[u.chat][u.real + 1].mine
            BY <5>2 DEF ChatInv, SendsKnown
          <6> QED
            BY <3>1, <4>1, <5>2, <6>1, <6>2
        <5> QED
          BY <2>3, <5>1, <5>2
      <4>3. less \subseteq now /\ now \ less \subseteq {e.id}
        <5>1. \A id \in less : id \in now
          BY <2>3, ComingIs
        <5>2. ASSUME NEW id \in now, id \notin less PROVE id = e.id
          BY <2>3, <2>4, <5>2, ComingIs
        <5> HIDE DEF less, now
        <5> QED
          BY <5>1, <5>2
      <4>4. e.id \in now
        BY <2>4, <3>1, ComingIs
      <4>5. Shows(lo, messages, chatId, seq, now, sends)
        BY <2>1
      <4>6. e.id >= lo
        BY <2>1, <2>4, <3>1 DEF ReachesBackTo
      <4>7. sends \in SUBSET Outgoing /\ \A u \in sends : u.temp < 0
        BY <1>10, RestFollows
      <4>8. seq \in Seq(Texts)
        BY <2>2
      <4> HIDE DEF less, now, seq
      <4>9. AsPosted(e, lo, seq, less)
        BY <4>1, <4>2, <4>6 DEF AsPosted
      <4>10. ASSUME NEW i \in DOMAIN messages PROVE messages[i].id # e.id
        <5>1. CASE AsPosted(messages[i], lo, seq, now)
          BY <4>4, <5>1 DEF AsPosted
        <5>2. CASE OnlyHere(messages[i], chatId, sends)
          BY <4>1, <4>7, <5>2 DEF OnlyHere
        <5> QED
          BY <4>5, <5>1, <5>2 DEF Shows
      <4>11. \A u \in sends \ sends : u.chat = chatId /\ u.temp = e.id
        OBVIOUS
      <4>12. sends \subseteq sends /\ less \in SUBSET now
        BY <4>3
      <4>13. Shows(lo, Append(messages, e), chatId, seq, less, sends)
        BY <1>2, <1>3, <4>3, <4>5, <4>8, <4>9, <4>10, <4>11, <4>12, ShowsMore
      <4> QED
        BY <1>1, <3>1, <4>13 DEF less, seq
    <3>2. CASE ~(e.chat = chatId /\ ~e.mine)
      <4>1. \A id : id \in Coming' <=> id \in Coming
        BY <2>3, <2>4, <3>2, ComingIs
      <4>2. Coming' = Coming
        BY <4>1
      <4> QED
        BY <1>1, <2>1, <3>2, <4>2
    <3> QED
      BY <3>1, <3>2
  <2>6. ReachesBackTo(lo)'
    <3>1. ASSUME NEW i \in DOMAIN inbox', inbox'[i].chat = chatId PROVE inbox'[i].id >= lo
      BY <1>7, <2>1, <3>1 DEF ReachesBackTo
    <3> QED
      BY <1>1, <2>1, <3>1 DEF ReachesBackTo, Sees
  <2> QED
    BY <1>1, <2>1, <2>5, <2>6 DEF Follows
<1>11. MessagesFollow'
  BY <1>1, <1>10 DEF ChatInv, MessagesFollow, AtRest
<1> QED
  BY <1>5, <1>6, <1>9, <1>11 DEF ChatInv

LEMMA ChatKept ==
    ASSUME ChatInv, ChatNext
    PROVE  ChatInv'
<1>1. ASSUME NEW c \in Chats, Select(c) \/ OtherPosts(c) PROVE ChatInv'
  BY <1>1, SelectKeeps, OtherPostsKeeps
<1>2. ASSUME NEW s \in sends, SendHandled(s) \/ SendLands(s) \/ SendFails(s) PROVE ChatInv'
  BY <1>2, SendHandledKeeps, SendLandsKeeps, SendFailsKeeps
<1> QED
  BY <1>1, <1>2, DeselectKeeps, LoadAnsweredKeeps, LoadLandsKeeps, LoadFailsKeeps, LoadMoreKeeps,
     OlderAnsweredKeeps, OlderLandsKeeps, OlderFailsKeeps, SendKeeps, NewMessageKeeps DEF ChatNext

\* list holds seq from the lo-th on, each message once.
AllSince(lo, list, seq) ==
    /\ Len(list) = Len(seq) - lo /\ Len(seq) \in Nat
    /\ \A i \in DOMAIN list : list[i].id \in lo .. Len(seq) - 1 /\ list[i] = seq[list[i].id + 1]
    /\ \A i, j \in DOMAIN list : list[i].id = list[j].id => i = j
    /\ \A id \in lo .. Len(seq) - 1 : \E i \in DOMAIN list : list[i].id = id

\* As many messages are shown as the chat has from the lo-th on, if none is on its way.
LEMMA AllShown ==
    ASSUME NEW c, NEW seq \in Seq(Texts), NEW list \in Seq(Texts), NEW lo \in Nat,
           Shows(lo, list, c, seq, {}, {})
    PROVE  AllSince(lo, list, seq)
<1> DEFINE T == lo .. Len(seq) - 1
           f == [i \in 1 .. Len(list) |-> list[i].id]
<1>1. Len(list) \in Nat /\ DOMAIN list = 1 .. Len(list) /\ Len(seq) \in Nat /\ lo \in 0 .. Len(seq)
  BY DEF Shows
<1>2. \A i \in DOMAIN list : list[i].id \in lo .. Len(seq) - 1 /\ list[i] = seq[list[i].id + 1]
  BY DEF Shows, AsPosted, OnlyHere
<1>3. \A i, j \in DOMAIN list : list[i].id = list[j].id => i = j
  BY DEF Shows
<1>4. \A id \in lo .. Len(seq) - 1 : \E i \in DOMAIN list : list[i].id = id
  BY DEF Shows
<1>5. f \in Bijection(1 .. Len(list), T)
  <2>1. f \in [1 .. Len(list) -> T]
    BY <1>1, <1>2
  <2>2. \A i, j \in 1 .. Len(list) : f[i] = f[j] => i = j
    BY <1>1, <1>3
  <2>3. \A id \in T : \E i \in 1 .. Len(list) : f[i] = id
    BY <1>1, <1>4
  <2> HIDE DEF T, f
  <2> QED
    BY <2>1, <2>2, <2>3 DEF Bijection, Injection, Surjection, IsInjective
<1>6. Cardinality(1 .. Len(list)) = Len(list) /\ IsFiniteSet(1 .. Len(list))
  <2>1. 1 \in Int /\ Len(list) \in Int
    BY <1>1
  <2>2. /\ IsFiniteSet(1 .. Len(list))
        /\ Cardinality(1 .. Len(list)) = IF 1 > Len(list) THEN 0 ELSE Len(list) - 1 + 1
    BY <2>1, FS_Interval
  <2> QED
    BY <1>1, <2>2
<1>7. Cardinality(T) = Len(seq) - lo
  <2>1. lo \in Int /\ Len(seq) - 1 \in Int
    BY <1>1
  <2>2. Cardinality(lo .. Len(seq) - 1) = IF lo > Len(seq) - 1 THEN 0 ELSE (Len(seq) - 1) - lo + 1
    BY <2>1, FS_Interval
  <2> QED
    BY <1>1, <2>2
<1>8. Cardinality(1 .. Len(list)) = Cardinality(T)
  <2> HIDE DEF T, f
  <2> QED
    BY <1>5, <1>6, FS_Bijection DEF ExistsBijection
<1> QED
  BY <1>1, <1>2, <1>3, <1>4, <1>6, <1>7, <1>8 DEF AllSince

\* For any chats, page size and bounds, in whatever order answers and events come, the
\* messages shown at rest are the chat's last, each of them once.
THEOREM ChatIsComplete == Spec => []ChatComplete
<1>1. Init => ChatInv
  BY ChatStarts DEF Init
<1>2. ChatInv /\ [Next]_pageVars => ChatInv'
  <2> SUFFICES ASSUME ChatInv, [Next]_pageVars PROVE ChatInv'
    OBVIOUS
  <2>1. ChatNext \/ UNCHANGED chatVars
    BY OnePage
  <2>2. CASE UNCHANGED chatVars
    <3>1. ChatTyped' /\ EventsKnown' /\ SendsKnown'
      BY <2>2 DEF chatVars, ChatInv, ChatTyped, EventsKnown, SendsKnown, Numbered
    <3>2. LoadKnown'
      BY <2>2 DEF chatVars, ChatInv, LoadKnown, Sees
    <3>3. Coming' = Coming
      BY <2>2 DEF chatVars, Coming
    <3>4. \A lo \in Nat : ReachesBackTo(lo) => ReachesBackTo(lo)'
      BY <2>2 DEF chatVars, ReachesBackTo, Sees
    <3>5. Follows => Follows'
      BY <2>2, <3>3, <3>4 DEF chatVars, Follows
    <3>6. MessagesFollow'
      BY <2>2, <3>5 DEF chatVars, ChatInv, MessagesFollow, AtRest
    <3> QED
      BY <3>1, <3>2, <3>6 DEF ChatInv
  <2> QED
    BY <2>1, <2>2, ChatKept
<1>3. ChatInv => ChatComplete
  <2> SUFFICES ASSUME ChatInv, Quiet, ~overtaken, chatId # NoChat
               PROVE  /\ \A i, j \in DOMAIN messages : messages[i] = messages[j] => i = j
                      /\ ToSet(messages) = ToSet(LastOf(posted[chatId], Len(messages)))
                      /\ hasMore <=> Len(messages) < Len(posted[chatId])
    BY DEF ChatComplete
  <2> DEFINE seq  == posted[chatId]
             last == LastOf(seq, Len(messages))
  <2>1. AtRest /\ sends = {} /\ inbox = <<>>
    BY DEF Quiet, AtRest
  <2>2. PICK lo \in Nat : Shows(lo, messages, chatId, seq, Coming, sends) /\ (hasMore <=> lo > 0)
    BY <2>1, RestFollows
  <2>3. Coming = {}
    BY <2>1 DEF Coming
  <2>4. messages \in Seq(Texts) /\ seq \in Seq(Texts)
    BY <2>1, RestFollows DEF ChatInv, ChatTyped
  <2> HIDE DEF seq
  <2>5. /\ Len(messages) = Len(seq) - lo /\ Len(seq) \in Nat
        /\ \A i \in DOMAIN messages : /\ messages[i].id \in lo .. Len(seq) - 1
                                      /\ messages[i] = seq[messages[i].id + 1]
        /\ \A i, j \in DOMAIN messages : messages[i].id = messages[j].id => i = j
        /\ \A id \in lo .. Len(seq) - 1 : \E i \in DOMAIN messages : messages[i].id = id
    <3>1. Shows(lo, messages, chatId, seq, {}, {})
      BY <2>1, <2>2, <2>3
    <3> HIDE DEF last
    <3>2. AllSince(lo, messages, seq)
      BY <2>4, <3>1, AllShown
    <3> QED
      BY <3>2 DEF AllSince
  <2>6. Len(messages) \in Nat
    BY <2>4
  <2>7. DOMAIN last = 1 .. Len(messages) /\ \A i \in 1 .. Len(messages) : last[i] = seq[lo + i]
    <3>1. last = SubSeq(seq, lo + 1, Len(seq))
      BY <2>5 DEF LastOf
    <3>2. /\ SubSeq(seq, lo + 1, Len(seq)) \in Seq(Texts)
          /\ Len(SubSeq(seq, lo + 1, Len(seq))) = Len(seq) - (lo + 1) + 1
          /\ \A i \in 1 .. Len(seq) - (lo + 1) + 1 : SubSeq(seq, lo + 1, Len(seq))[i] = seq[lo + 1 + i - 1]
      BY <2>4, <2>5, <2>6, SubSeqIs
    <3> HIDE DEF last
    <3>3. Len(last) = Len(messages) /\ last \in Seq(Texts)
      BY <2>5, <3>1, <3>2
    <3>4. \A i \in 1 .. Len(messages) : last[i] = seq[lo + i]
      BY <2>5, <3>1, <3>2
    <3> QED
      BY <3>3, <3>4
  <2> HIDE DEF last
  <2>8. ASSUME NEW i \in DOMAIN messages PROVE messages[i] \in ToSet(last)
    <3> DEFINE k == messages[i].id + 1 - lo
    <3>1. k \in 1 .. Len(messages) /\ lo + k = messages[i].id + 1
      BY <2>5, <2>6
    <3> HIDE DEF k
    <3>2. last[k] = messages[i]
      BY <2>5, <2>7, <3>1
    <3> QED
      BY <2>7, <3>1, <3>2 DEF ToSet
  <2>9. ASSUME NEW k \in DOMAIN last PROVE last[k] \in ToSet(messages)
    <3>1. k \in 1 .. Len(messages) /\ last[k] = seq[lo + k]
      BY <2>7
    <3>2. lo + k - 1 \in lo .. Len(seq) - 1 /\ (lo + k - 1) + 1 = lo + k
      BY <2>5, <2>6, <3>1
    <3>3. PICK i \in DOMAIN messages : messages[i].id = lo + k - 1
      BY <2>5, <3>2
    <3>4. messages[i] = seq[lo + k]
      BY <2>5, <3>2, <3>3
    <3> QED
      BY <3>1, <3>4 DEF ToSet
  <2>10. ToSet(messages) = ToSet(last)
    BY <2>8, <2>9 DEF ToSet
  <2>11. \A i, j \in DOMAIN messages : messages[i] = messages[j] => i = j
    BY <2>5
  <2>12. hasMore <=> Len(messages) < Len(seq)
    BY <2>2, <2>5
  <2> QED
    BY <2>10, <2>11, <2>12 DEF seq, last
<1> QED
  BY <1>1, <1>2, <1>3, PTL DEF Spec

(***************************************************************************)
(* The charts.                                                             *)
(***************************************************************************)
LEMMA TimesLess ==
    ASSUME NEW res \in Nat \ {0}, NEW a \in Int, NEW b \in Int
    PROVE  a * res \in Int /\ (a < b <=> a * res < b * res) /\ (a <= b <=> a * res <= b * res)
OBVIOUS

LEMMA TimesSum ==
    ASSUME NEW res \in Nat \ {0}, NEW a \in Int, NEW b \in Int
    PROVE  a * res + b * res = (a + b) * res /\ a * res - b * res = (a - b) * res /\ a * res = res * a
OBVIOUS

LEMMA TimesDivided ==
    ASSUME NEW res \in Nat \ {0}, NEW a \in Int
    PROVE  (a * res) \div res = a
OBVIOUS

LEMMA DividedBounds ==
    ASSUME NEW res \in Nat \ {0}, NEW x \in Int
    PROVE  x \div res \in Int /\ (x \div res) * res <= x /\ x < (x \div res + 1) * res
OBVIOUS

LEMMA DividedAtLeast ==
    ASSUME NEW res \in Nat \ {0}, NEW x \in Int, NEW a \in Int, a * res <= x
    PROVE  a <= x \div res
OBVIOUS

\* Ranges begin at a multiple of the resolution; in multiples of it they go from From to To.
GridRanges(res) == { [startTick |-> a * res, count |-> c] : a \in Nat, c \in Nat }
From(range, res) == range.startTick \div res
To(range, res)   == From(range, res) + range.count

\* What is answered between two ticks is what the server has.  (A question has no data.)
Data               == {<<>>} \cup UNION {[0 .. c - 1 -> Int] : c \in Nat}
Faithful(ask, res) ==
    ask.status = "success" /\ ~ask.torn =>
        \A j \in 0 .. ask.range.count - 1 : ask.data[j] \in Told(ask.range.startTick + j * res, res)
Asks(res) ==
    { ask \in [range: GridRanges(res), status: {"asked", "success", "error"}, since: Nat,
               data: Data, torn: BOOLEAN] : Faithful(ask, res) }
LEMMA OneOnGrid ==
    ASSUME NEW res, NEW a \in Nat, NEW c \in Nat
    PROVE  [startTick |-> a * res, count |-> c] \in GridRanges(res)
BY DEF GridRanges

LEMMA OnGrid ==
    ASSUME NEW res \in Nat \ {0}, NEW range \in GridRanges(res)
    PROVE  /\ From(range, res) \in Nat /\ To(range, res) \in Nat /\ range.count \in Nat
           /\ From(range, res) <= To(range, res) /\ range.count = To(range, res) - From(range, res)
           /\ range.startTick = From(range, res) * res /\ EndTick(range, res) = To(range, res) * res
           /\ range.startTick \in Nat /\ EndTick(range, res) \in Nat
           /\ range = [startTick |-> From(range, res) * res, count |-> range.count]
<1>1. PICK a \in Nat, c \in Nat : range = [startTick |-> a * res, count |-> c]
  BY DEF GridRanges
<1>2. From(range, res) = a /\ range.startTick = a * res /\ range.count = c
  BY <1>1, TimesDivided DEF From
<1>3. To(range, res) = a + c
  BY <1>2 DEF To
<1>4. EndTick(range, res) = a * res + c * res
  BY <1>2 DEF EndTick
<1>5. a * res + c * res = (a + c) * res
  BY TimesSum
<1>6. a * res \in Nat /\ (a + c) * res \in Nat
  OBVIOUS
<1> QED
  BY <1>1, <1>2, <1>3, <1>4, <1>5, <1>6

LEMMA GridRange ==
    ASSUME NEW res \in Nat \ {0}, NEW a \in Nat, NEW b \in Nat, a <= b
    PROVE  /\ Between(a * res, b * res, res) = [startTick |-> a * res, count |-> b - a]
           /\ Between(a * res, b * res, res) \in GridRanges(res)
           /\ From(Between(a * res, b * res, res), res) = a /\ To(Between(a * res, b * res, res), res) = b
<1>1. (b * res - a * res) \div res = b - a
  BY TimesSum, TimesDivided
<1>2. Between(a * res, b * res, res) = [startTick |-> a * res, count |-> b - a]
  BY <1>1 DEF Between
<1>3. b - a \in Nat
  OBVIOUS
<1>4. From(Between(a * res, b * res, res), res) = a
  BY <1>2, TimesDivided DEF From
<1> QED
  BY <1>2, <1>3, <1>4 DEF GridRanges, To

\* A chart's range is on the grid, and ends by the tick it is of.
LEMMA ComputedRange ==
    ASSUME NEW res \in Nat \ {0}, NEW t \in Nat, NEW width \in Nat
    PROVE  /\ computeRange(t, res, width) \in GridRanges(res)
           /\ To(computeRange(t, res, width), res) * res <= t
<1>1. CASE t = Undefined
  <2>1. computeRange(t, res, width) = [startTick |-> 0 * res, count |-> 0]
    BY <1>1 DEF computeRange
  <2>2. computeRange(t, res, width) \in GridRanges(res)
    BY <2>1 DEF GridRanges
  <2>3. From(computeRange(t, res, width), res) = 0
    BY <2>1, TimesDivided DEF From
  <2>4. To(computeRange(t, res, width), res) = 0
    BY <2>1, <2>3 DEF To
  <2> QED
    BY <2>2, <2>4
<1>2. CASE t # Undefined
  <2> DEFINE q == t \div res
             a == Largest(0, q - width)
             r == [startTick |-> res * a, count |-> (t - res * a) \div res]
  <2>1. computeRange(t, res, width) = r
    BY <1>2 DEF computeRange
  <2>2. q \in Int /\ q * res <= t /\ q >= 0
    <3>1. 0 <= q
      BY DividedAtLeast
    <3> QED
      BY <3>1, DividedBounds
  <2> HIDE DEF q
  <2>3. a \in Nat /\ a <= q
    BY <2>2 DEF Largest
  <2> HIDE DEF a
  <2>4. a * res <= q * res /\ res * a = a * res /\ a * res \in Nat
    BY <2>2, <2>3, TimesLess, TimesSum
  <2> DEFINE c == (t - res * a) \div res
  <2>5. c \in Int /\ c * res <= t - a * res /\ 0 <= c
    <3>1. t - res * a \in Int /\ 0 * res <= t - res * a
      BY <2>2, <2>4
    <3>2. c \in Int /\ c * res <= t - res * a
      BY <3>1, DividedBounds
    <3>3. 0 <= c
      BY <3>1, DividedAtLeast
    <3> QED
      BY <2>4, <3>2, <3>3
  <2>6. r = [startTick |-> a * res, count |-> c]
    BY <2>4
  <2> HIDE DEF c, r
  <2>7. r \in GridRanges(res)
    <3>1. c \in Nat
      BY <2>5
    <3> HIDE DEF a
    <3> QED
      BY <2>3, <2>6, <3>1, OneOnGrid
  <2>8. From(r, res) = a /\ To(r, res) = a + c
    BY <2>3, <2>6, TimesDivided DEF From, To
  <2>9. (a + c) * res = a * res + c * res
    BY <2>3, <2>5, TimesSum
  <2>10. (a + c) * res <= t
    BY <2>3, <2>4, <2>5, <2>9
  <2> QED
    BY <2>1, <2>7, <2>8, <2>10
<1> QED
  BY <1>1, <1>2

\* The points of a range.
LEMMA PointsAre ==
    ASSUME NEW res \in Nat \ {0}, NEW range \in GridRanges(res), NEW p
    PROVE  p \in Points(range, res) <=> \E u \in From(range, res) .. To(range, res) - 1 : p = u * res
<1> DEFINE a == From(range, res)
           b == To(range, res)
           s == range.startTick
           c == range.count
<1>1. a \in Nat /\ b \in Nat /\ s = a * res /\ c \in Nat /\ c = b - a
  BY OnGrid
<1>2. Points(range, res) = { s + i * res : i \in 0 .. c - 1 }
  BY DEF Points
<1> HIDE DEF a, b, s, c
<1>3. ASSUME NEW i \in 0 .. c - 1 PROVE a + i \in a .. b - 1 /\ s + i * res = (a + i) * res
  BY <1>1, TimesSum
<1>4. ASSUME NEW u \in a .. b - 1 PROVE u - a \in 0 .. c - 1 /\ s + (u - a) * res = u * res
  <2>1. a + (u - a) = u /\ u - a \in Int
    BY <1>1
  <2>2. a * res + (u - a) * res = (a + (u - a)) * res
    BY <1>1, <2>1, TimesSum
  <2> QED
    BY <1>1, <2>1, <2>2
<1>5. ASSUME p \in Points(range, res) PROVE \E u \in a .. b - 1 : p = u * res
  BY <1>2, <1>3, <1>5
<1>6. ASSUME NEW u \in a .. b - 1, p = u * res PROVE p \in Points(range, res)
  BY <1>2, <1>4, <1>6
<1> QED
  BY <1>5, <1>6 DEF a, b

LEMMA ArrangedSame ==
    ASSUME NEW P, IsFiniteSet(P), NEW upTo, Nested(upTo, P), NEW old, NEW new,
           \A i \in P : old[i] = new[i]
    PROVE  Arranged(old, upTo) = Arranged(new, upTo)
<1> DEFINE nth(k) == CHOOSE i \in P : Cardinality(upTo[i]) = k
           m == Cardinality(P)
<1>1. \A k \in 1 .. m : \E i \in P : Cardinality(upTo[i]) = k
  BY Ranked DEF Counted
<1>2. DOMAIN upTo = P
  BY DEF Nested
<1>3. \A k \in 1 .. m : nth(k) \in P
  <2> HIDE DEF m
  <2> QED
    BY <1>1
<1>4. /\ Arranged(old, upTo) = [k \in 1 .. m |-> old[nth(k)]]
      /\ Arranged(new, upTo) = [k \in 1 .. m |-> new[nth(k)]]
  BY <1>2 DEF Arranged
<1> HIDE DEF nth, m
<1> QED
  BY <1>3, <1>4

LEMMA AskIs ==
    ASSUME NEW res, NEW cache \in Seq(Asks(res)), NEW i \in DOMAIN cache
    PROVE  /\ cache[i].range \in GridRanges(res) /\ cache[i].status \in {"asked", "success", "error"}
           /\ cache[i].since \in Nat /\ Faithful(cache[i], res)
<1>1. cache[i] \in Asks(res)
  OBVIOUS
<1> QED
  BY <1>1 DEF Asks

\* The places of the answers that overlap with a range, and their order.
Found(cache, range, res) ==
    { i \in DOMAIN cache : cache[i].status = "success" /\ Overlaps(cache[i].range, range, res) }
ByStart(cache, P) == [i \in P |-> { j \in P : NoLater(cache, j, i) }]

LEMMA FoundNested ==
    ASSUME NEW res \in Nat \ {0}, NEW cache \in Seq(Asks(res)), NEW range
    PROVE  /\ IsFiniteSet(Found(cache, range, res))
           /\ Nested(ByStart(cache, Found(cache, range, res)), Found(cache, range, res))
<1> DEFINE P == Found(cache, range, res)
           upTo == ByStart(cache, P)
           start(k) == cache[k].range.startTick
<1>1. Len(cache) \in Nat /\ DOMAIN cache = 1 .. Len(cache) /\ P \subseteq DOMAIN cache
  BY DEF Found
<1>2. IsFiniteSet(P)
  <2>1. IsFiniteSet(1 .. Len(cache)) /\ P \in SUBSET (1 .. Len(cache))
    BY <1>1, FS_Interval
  <2> QED
    BY <2>1, FS_Subset
<1>3. ASSUME NEW i \in P PROVE i \in Int /\ start(i) \in Int
  <2>1. i \in DOMAIN cache /\ i \in Int
    BY <1>1
  <2>2. cache[i].range \in GridRanges(res)
    BY <2>1, AskIs
  <2> QED
    BY <2>1, <2>2, OnGrid
<1> HIDE DEF P
<1>4. \A i, j \in P : NoLater(cache, j, i) <=> start(j) < start(i) \/ (start(j) = start(i) /\ j <= i)
  BY DEF NoLater
<1>5. upTo \in [P -> SUBSET P]
  BY DEF ByStart
<1>6. \A i \in P : i \in upTo[i]
  BY <1>3, <1>4 DEF ByStart
<1>7. ASSUME NEW i \in P, NEW k \in P, start(i) < start(k) \/ (start(i) = start(k) /\ i < k)
      PROVE  upTo[i] \subseteq upTo[k] /\ k \notin upTo[i]
  <2>1. ASSUME NEW j \in P, NoLater(cache, j, i) PROVE NoLater(cache, j, k)
    <3>1. start(j) < start(i) \/ (start(j) = start(i) /\ j <= i)
      BY <1>4, <2>1
    <3>2. start(j) < start(k) \/ (start(j) = start(k) /\ j <= k)
      BY <1>3, <1>7, <3>1
    <3> QED
      BY <1>4, <3>2
  <2>2. ~NoLater(cache, k, i)
    BY <1>3, <1>4, <1>7
  <2> QED
    BY <2>1, <2>2 DEF ByStart
<1> HIDE DEF upTo
<1>8. ASSUME NEW i \in P, NEW k \in P, i # k
      PROVE  \/ start(i) < start(k) \/ (start(i) = start(k) /\ i < k)
             \/ start(k) < start(i) \/ (start(k) = start(i) /\ k < i)
  BY <1>3, <1>8
<1>9. Nested(upTo, P)
  <2>1. ASSUME NEW i \in P, NEW k \in P, i # k
        PROVE  \/ upTo[i] \subseteq upTo[k] /\ k \notin upTo[i]
               \/ upTo[k] \subseteq upTo[i] /\ i \notin upTo[k]
    BY <1>7, <1>8, <2>1
  <2> QED
    BY <1>5, <1>6, <2>1 DEF Nested
<1> QED
  BY <1>2, <1>9 DEF P, upTo

\* What is gathered from are answers of the cache that overlap.
LEMMA CachedAre ==
    ASSUME NEW res \in Nat \ {0}, NEW cache \in Seq(Asks(res)), NEW range \in GridRanges(res)
    PROVE  /\ getCachedChartRanges(cache, range, res) \in Seq(Asks(res))
           /\ range.count = 0 => getCachedChartRanges(cache, range, res) = <<>>
           /\ \A k \in DOMAIN getCachedChartRanges(cache, range, res) :
                 /\ Overlaps(getCachedChartRanges(cache, range, res)[k].range, range, res)
                 /\ \E i \in DOMAIN cache : /\ cache[i].status = "success"
                                           /\ getCachedChartRanges(cache, range, res)[k] = cache[i]
<1> DEFINE P == Found(cache, range, res)
           upTo == ByStart(cache, P)
           sorted == Arranged(cache, upTo)
<1>1. getCachedChartRanges(cache, range, res) = IF range.count = 0 THEN <<>> ELSE sorted
  BY DEF getCachedChartRanges, Found, ByStart
<1>2. /\ Cardinality(P) \in Nat
      /\ DOMAIN sorted = 1 .. Cardinality(P)
      /\ \A k \in 1 .. Cardinality(P) : \E i \in P : Cardinality(upTo[i]) = k /\ sorted[k] = cache[i]
      /\ sorted = [k \in 1 .. Cardinality(P) |-> sorted[k]]
  <2>1. IsFiniteSet(P) /\ Nested(upTo, P)
    BY FoundNested
  <2> HIDE DEF P, upTo
  <2>2. sorted = [k \in DOMAIN sorted |-> sorted[k]]
    BY DEF Arranged
  <2> QED
    BY <2>1, <2>2, ArrangedIs
<1>3. \A i \in P : /\ cache[i] \in Asks(res) /\ Overlaps(cache[i].range, range, res)
                  /\ i \in DOMAIN cache /\ cache[i].status = "success"
  BY DEF Found
<1> HIDE DEF P, upTo, sorted
<1>4. ASSUME NEW k \in 1 .. Cardinality(P)
      PROVE  /\ sorted[k] \in Asks(res) /\ Overlaps(sorted[k].range, range, res)
             /\ \E i \in DOMAIN cache : cache[i].status = "success" /\ sorted[k] = cache[i]
  BY <1>2, <1>3
<1>5. sorted \in Seq(Asks(res))
  BY <1>2, <1>4
<1>6. CASE range.count = 0
  <2>1. getCachedChartRanges(cache, range, res) = <<>>
    BY <1>1, <1>6
  <2> QED
    BY <2>1
<1>7. CASE range.count # 0
  BY <1>1, <1>2, <1>4, <1>5, <1>7
<1> QED
  BY <1>6, <1>7

\* They are the same as long as the answers are, at the same places.
LEMMA CachedSame ==
    ASSUME NEW res \in Nat \ {0}, NEW old \in Seq(Asks(res)), NEW new \in Seq(Asks(res)), NEW range,
           \A i : i \in DOMAIN old /\ old[i].status = "success"
                     <=> i \in DOMAIN new /\ new[i].status = "success",
           \A i \in DOMAIN old : old[i].status = "success" => new[i] = old[i]
    PROVE  getCachedChartRanges(new, range, res) = getCachedChartRanges(old, range, res)
<1> DEFINE P == Found(old, range, res)
<1>1. Found(new, range, res) = P
  BY DEF Found
<1>2. \A i \in P : old[i] = new[i]
  BY DEF Found
<1>3. IsFiniteSet(P) /\ Nested(ByStart(old, P), P)
  BY FoundNested
<1> HIDE DEF P
<1>4. ByStart(new, P) = ByStart(old, P)
  BY <1>2 DEF ByStart, NoLater
<1>5. Arranged(old, ByStart(old, P)) = Arranged(new, ByStart(old, P))
  BY <1>2, <1>3, ArrangedSame
<1> DEFINE sorted == Arranged(old, ByStart(old, P))
<1>6. /\ getCachedChartRanges(old, range, res) = IF range.count = 0 THEN <<>> ELSE sorted
      /\ getCachedChartRanges(new, range, res) = IF range.count = 0 THEN <<>> ELSE sorted
  <2>1. getCachedChartRanges(old, range, res) = IF range.count = 0 THEN <<>> ELSE sorted
    BY DEF getCachedChartRanges, ByStart, P, Found
  <2>2. getCachedChartRanges(new, range, res)
             = IF range.count = 0 THEN <<>> ELSE Arranged(new, ByStart(new, Found(new, range, res)))
    BY DEF getCachedChartRanges, ByStart, Found
  <2>3. Arranged(new, ByStart(new, Found(new, range, res))) = sorted
    BY <1>1, <1>4, <1>5
  <2> HIDE DEF sorted
  <2> QED
    BY <2>1, <2>2, <2>3
<1> QED
  BY <1>6

\* A set of places that is not empty has a last one.
LEMMA LastPlace ==
    ASSUME NEW n \in Nat, NEW K \in SUBSET (1 .. n), K # {}
    PROVE  \E k \in K : \A j \in K : j <= k
<1>1. IsFiniteSet(K) /\ Nested([i \in K |-> { j \in K : j <= i }], K)
  BY PlacesNested
<1> DEFINE upTo == [i \in K |-> { j \in K : j <= i }]
           m == Cardinality(K)
<1>2. m \in Nat /\ m # 0
  BY <1>1, FS_CardinalityType, FS_EmptySet
<1>3. /\ m \in Nat
      /\ \A i \in K : Cardinality(upTo[i]) \in 1 .. m
      /\ \A i, k \in K : Cardinality(upTo[i]) = Cardinality(upTo[k]) => i = k
      /\ \A k \in 1 .. m : \E i \in K : Cardinality(upTo[i]) = k
  <2>1. IsFiniteSet(K) /\ Nested(upTo, K)
    BY <1>1
  <2> HIDE DEF upTo
  <2>2. Counted(upTo, K)
    BY <2>1, Ranked
  <2> QED
    BY <2>2 DEF Counted
<1>4. PICK i \in K : Cardinality(upTo[i]) = m
  <2>1. m \in 1 .. m
    BY <1>2
  <2> HIDE DEF upTo, m
  <2> QED
    BY <1>3, <2>1
<1>5. upTo[i] \in SUBSET K
  OBVIOUS
<1>6. upTo[i] = K
  <2> HIDE DEF upTo
  <2> QED
    BY <1>1, <1>4, <1>5, FS_Subset
<1> QED
  BY <1>6

\* The u-th point of the grid is between two of its places.
Within(u, range, res) == From(range, res) <= u /\ u < To(range, res)

\* The gaps lie within the range, and with the answers they cover it.
LEMMA GapsAre ==
    ASSUME NEW res \in Nat \ {0}, NEW cache \in Seq(Asks(res)), NEW range \in GridRanges(res)
    PROVE  /\ \A gap \in getCacheGaps(cache, range, res) :
                 /\ gap \in GridRanges(res)
                 /\ From(range, res) <= From(gap, res) /\ To(gap, res) <= To(range, res)
                 /\ range.count > 0 => gap.count > 0
           /\ \A u \in From(range, res) .. To(range, res) - 1 :
                 \/ \E gap \in getCacheGaps(cache, range, res) : Within(u, gap, res)
                 \/ \E k \in DOMAIN getCachedChartRanges(cache, range, res) :
                        Within(u, getCachedChartRanges(cache, range, res)[k].range, res)
<1> DEFINE C == getCachedChartRanges(cache, range, res)
           gaps == getCacheGaps(cache, range, res)
           n == Len(C)
           from(k) == IF k = 1 THEN range.startTick ELSE EndTick(C[k - 1].range, res)
           to(k)   == IF k > n THEN EndTick(range, res) ELSE C[k].range.startTick
           a == From(range, res)
           b == To(range, res)
           f(k) == IF k = 1 THEN a ELSE To(C[k - 1].range, res)
           t(k) == IF k > n THEN b ELSE From(C[k].range, res)
<1>1. /\ C \in Seq(Asks(res))
      /\ range.count = 0 => C = <<>>
      /\ \A k \in DOMAIN C : Overlaps(C[k].range, range, res)
  BY CachedAre
<1>2. gaps = IF C = <<>> THEN {range}
             ELSE { Between(from(k), to(k), res) : k \in { k \in 1 .. n + 1 : from(k) < to(k) } }
  BY DEF getCacheGaps
<1> HIDE DEF C, gaps
<1>3. n \in Nat /\ DOMAIN C = 1 .. n /\ (C = <<>> <=> n = 0)
  BY <1>1
<1>4. /\ a \in Nat /\ b \in Nat /\ a <= b /\ range.count = b - a
      /\ range.startTick = a * res /\ EndTick(range, res) = b * res
  BY OnGrid
<1> HIDE DEF a, b, n
<1>5. ASSUME NEW k \in 1 .. n
      PROVE  /\ From(C[k].range, res) \in Nat /\ To(C[k].range, res) \in Nat
             /\ C[k].range.startTick = From(C[k].range, res) * res /\ EndTick(C[k].range, res) = To(C[k].range, res) * res
             /\ To(C[k].range, res) > a /\ From(C[k].range, res) < b
  <2>1. C[k].range \in GridRanges(res) /\ Overlaps(C[k].range, range, res)
    BY <1>1, <1>3, AskIs
  <2>2. /\ From(C[k].range, res) \in Nat /\ To(C[k].range, res) \in Nat
        /\ C[k].range.startTick = From(C[k].range, res) * res /\ EndTick(C[k].range, res) = To(C[k].range, res) * res
    BY <2>1, OnGrid
  <2>3. a * res < To(C[k].range, res) * res /\ From(C[k].range, res) * res < b * res
    BY <1>4, <2>1, <2>2 DEF Overlaps
  <2>4. a < To(C[k].range, res)
    <3>1. a \in Int /\ To(C[k].range, res) \in Int
      BY <1>4, <2>2
    <3> QED
      BY <2>3, <3>1, TimesLess
  <2>5. From(C[k].range, res) < b
    <3>1. From(C[k].range, res) \in Int /\ b \in Int
      BY <1>4, <2>2
    <3> QED
      BY <2>3, <3>1, TimesLess
  <2> QED
    BY <1>4, <2>2, <2>4, <2>5
<1>6. ASSUME NEW k \in 1 .. n + 1
      PROVE  /\ f(k) \in Nat /\ t(k) \in Nat /\ from(k) = f(k) * res /\ to(k) = t(k) * res
             /\ f(k) >= a /\ t(k) <= b
  <2>1. f(k) \in Nat /\ from(k) = f(k) * res /\ f(k) >= a
    <3>1. CASE k = 1
      BY <1>4, <3>1
    <3>2. CASE k # 1
      <4>1. k - 1 \in 1 .. n
        BY <1>3, <3>2
      <4> QED
        BY <1>4, <1>5, <3>2, <4>1
    <3> QED
      BY <3>1, <3>2
  <2>2. t(k) \in Nat /\ to(k) = t(k) * res /\ t(k) <= b
    <3>1. CASE k > n
      BY <1>4, <3>1
    <3>2. CASE ~(k > n)
      <4>1. k \in 1 .. n
        BY <1>3, <3>2
      <4> QED
        BY <1>4, <1>5, <3>2, <4>1
    <3> QED
      BY <3>1, <3>2
  <2> QED
    BY <2>1, <2>2
<1> HIDE DEF from, to, f, t
<1>7. ASSUME NEW k \in 1 .. n + 1
      PROVE  /\ from(k) < to(k) <=> f(k) < t(k)
             /\ f(k) < t(k) => /\ Between(from(k), to(k), res) \in GridRanges(res)
                               /\ From(Between(from(k), to(k), res), res) = f(k)
                               /\ To(Between(from(k), to(k), res), res) = t(k)
                               /\ Between(from(k), to(k), res).count > 0
  <2>1. from(k) < to(k) <=> f(k) < t(k)
    BY <1>6, TimesLess
  <2>2. ASSUME f(k) < t(k)
        PROVE  /\ Between(from(k), to(k), res) = [startTick |-> f(k) * res, count |-> t(k) - f(k)]
               /\ Between(from(k), to(k), res) \in GridRanges(res)
               /\ From(Between(from(k), to(k), res), res) = f(k)
               /\ To(Between(from(k), to(k), res), res) = t(k)
    <3>1. f(k) \in Nat /\ t(k) \in Nat /\ f(k) <= t(k)
      BY <1>6, <2>2
    <3>2. from(k) = f(k) * res /\ to(k) = t(k) * res
      BY <1>6
    <3>3. /\ Between(f(k) * res, t(k) * res, res) = [startTick |-> f(k) * res, count |-> t(k) - f(k)]
          /\ Between(f(k) * res, t(k) * res, res) \in GridRanges(res)
          /\ From(Between(f(k) * res, t(k) * res, res), res) = f(k)
          /\ To(Between(f(k) * res, t(k) * res, res), res) = t(k)
      BY <3>1, GridRange
    <3> QED
      BY <3>2, <3>3
  <2>3. f(k) < t(k) => Between(from(k), to(k), res).count > 0
    BY <1>6, <2>2
  <2> QED
    BY <2>1, <2>2, <2>3
<1>8. ASSUME NEW gap \in gaps
      PROVE  /\ gap \in GridRanges(res)
             /\ a <= From(gap, res) /\ To(gap, res) <= b
             /\ range.count > 0 => gap.count > 0
  <2>1. CASE C = <<>>
    <3>1. gap = range
      BY <1>2, <1>8, <2>1
    <3> QED
      BY <1>4, <3>1 DEF a, b
  <2>2. CASE C # <<>>
    <3>1. PICK k \in 1 .. n + 1 : from(k) < to(k) /\ gap = Between(from(k), to(k), res)
      BY <1>2, <1>8, <2>2
    <3> QED
      BY <1>6, <1>7, <3>1
  <2> QED
    BY <2>1, <2>2
<1>9. ASSUME NEW u \in a .. b - 1
      PROVE  (\E gap \in gaps : Within(u, gap, res)) \/ (\E k \in DOMAIN C : Within(u, C[k].range, res))
  <2>1. CASE C = <<>>
    <3>1. range \in gaps
      BY <1>2, <2>1
    <3>2. Within(u, range, res)
      BY <1>4 DEF Within, a, b
    <3> QED
      BY <3>1, <3>2
  <2>2. CASE C # <<>>
    <3> DEFINE K == { k \in 1 .. n + 1 : f(k) <= u }
    <3>1. 1 \in 1 .. n + 1 /\ f(1) = a /\ n + 1 \in Nat
      BY <1>3 DEF f
    <3>2. PICK k \in K : \A j \in K : j <= k
      <4>1. 1 \in K
        BY <1>4, <3>1
      <4> HIDE DEF K
      <4>2. K \in SUBSET (1 .. n + 1)
        BY DEF K
      <4> QED
        BY <3>1, <4>1, <4>2, LastPlace
    <3>3. k \in 1 .. n + 1 /\ f(k) <= u
      BY <3>2
    <3>4. CASE u < t(k)
      <4>1. f(k) < t(k)
        BY <1>6, <3>3, <3>4
      <4>2. Between(from(k), to(k), res) \in gaps
        BY <1>2, <1>7, <2>2, <3>3, <4>1
      <4>3. Within(u, Between(from(k), to(k), res), res)
        BY <1>7, <3>3, <3>4, <4>1 DEF Within
      <4> QED
        BY <4>2, <4>3
    <3>5. CASE ~(u < t(k))
      <4>1. k \in 1 .. n /\ t(k) = From(C[k].range, res)
        BY <1>3, <1>4, <3>3, <3>5 DEF t
      <4>2. k + 1 \in 1 .. n + 1 /\ ~(k + 1 <= k) /\ f(k + 1) = To(C[k].range, res)
        BY <1>3, <4>1 DEF f
      <4>3. ~(f(k + 1) <= u)
        BY <3>2, <4>2
      <4>4. From(C[k].range, res) <= u /\ u < To(C[k].range, res)
        BY <1>5, <1>6, <3>3, <3>5, <4>1, <4>2, <4>3
      <4>5. Within(u, C[k].range, res) /\ k \in DOMAIN C
        BY <1>3, <4>1, <4>4 DEF Within
      <4> QED
        BY <4>5
    <3> QED
      BY <3>4, <3>5
  <2> QED
    BY <2>1, <2>2
<1> QED
  BY <1>8, <1>9 DEF a, b, C, gaps

\* The points of an answer in a range are those of both.
LEMMA PointsInAre ==
    ASSUME NEW res \in Nat \ {0}, NEW r \in GridRanges(res), NEW range \in GridRanges(res), NEW p
    PROVE  p \in PointsIn(r, range, res)
               <=> \E u \in From(range, res) .. To(range, res) - 1 : Within(u, r, res) /\ p = u * res
<1> DEFINE a  == From(range, res)
           b  == To(range, res)
           c  == From(r, res)
           d  == To(r, res)
           lo == Largest(c, a)
           hi == Smallest(d, b)
           first == (Largest(r.startTick, range.startTick) - r.startTick) \div res
           end == (Smallest(EndTick(r, res), EndTick(range, res)) - r.startTick) \div res
<1>1. PointsIn(r, range, res) = { r.startTick + i * res : i \in first .. end - 1 }
  BY DEF PointsIn, IndicesIn
<1>2. /\ a \in Nat /\ b \in Nat /\ a <= b
      /\ range.startTick = a * res /\ EndTick(range, res) = b * res
      /\ c \in Nat /\ d \in Nat /\ c <= d
      /\ r.startTick = c * res /\ EndTick(r, res) = d * res
  BY OnGrid
<1> HIDE DEF a, b, c, d
<1>3. Largest(c * res, a * res) = lo * res /\ Smallest(d * res, b * res) = hi * res
  BY <1>2, TimesLess DEF Largest, Smallest
<1>4. lo \in Nat /\ hi \in Nat /\ lo >= c /\ lo >= a /\ hi <= d /\ hi <= b
      /\ (lo = c \/ lo = a) /\ (hi = d \/ hi = b)
  BY <1>2 DEF Largest, Smallest
<1> HIDE DEF lo, hi
<1>5. first = lo - c
  <2>1. Largest(r.startTick, range.startTick) - r.startTick = lo * res - c * res
    BY <1>2, <1>3
  <2>2. lo * res - c * res = (lo - c) * res /\ lo - c \in Int
    BY <1>2, <1>4, TimesSum
  <2>3. ((lo - c) * res) \div res = lo - c
    BY <2>2, TimesDivided
  <2> QED
    BY <2>1, <2>2, <2>3
<1>6. end = hi - c
  <2>1. Smallest(EndTick(r, res), EndTick(range, res)) - r.startTick = hi * res - c * res
    BY <1>2, <1>3
  <2>2. hi * res - c * res = (hi - c) * res /\ hi - c \in Int
    BY <1>2, <1>4, TimesSum
  <2>3. ((hi - c) * res) \div res = hi - c
    BY <2>2, TimesDivided
  <2> QED
    BY <2>1, <2>2, <2>3
<1> HIDE DEF first, end
<1>7. ASSUME NEW i \in lo - c .. hi - c - 1
      PROVE  /\ r.startTick + i * res = (c + i) * res
             /\ c + i \in a .. b - 1 /\ c <= c + i /\ c + i < d
  <2>1. c * res + i * res = (c + i) * res
    BY <1>2, <1>4, TimesSum
  <2>2. c + i \in a .. b - 1 /\ c <= c + i /\ c + i < d
    BY <1>2, <1>4
  <2> QED
    BY <1>2, <2>1, <2>2
<1>8. ASSUME p \in PointsIn(r, range, res) PROVE \E u \in a .. b - 1 : Within(u, r, res) /\ p = u * res
  <2>1. PICK i \in lo - c .. hi - c - 1 : p = r.startTick + i * res
    BY <1>1, <1>5, <1>6, <1>8
  <2>2. Within(c + i, r, res)
    BY <1>7 DEF Within, c, d
  <2> QED
    BY <1>7, <2>1, <2>2
<1>9. ASSUME NEW u \in a .. b - 1, Within(u, r, res), p = u * res PROVE p \in PointsIn(r, range, res)
  <2>1. c <= u /\ u < d
    BY <1>9 DEF Within, c, d
  <2>2. u - c \in lo - c .. hi - c - 1 /\ c + (u - c) = u
    BY <1>2, <1>4, <2>1
  <2> QED
    BY <1>1, <1>5, <1>6, <1>7, <1>9, <2>2
<1> QED
  BY <1>8, <1>9 DEF a, b

\* The points gathered are those of the answers and of the range, and each is what one of
\* the answers has for it.
LEMMA GatheredAre ==
    ASSUME NEW res \in Nat \ {0}, NEW cache \in Seq(Asks(res)), NEW range \in GridRanges(res), NEW p
    PROVE  /\ p \in DOMAIN aggregateChartData(cache, range, res) <=>
                 \E k \in DOMAIN getCachedChartRanges(cache, range, res) :
                     \E u \in From(range, res) .. To(range, res) - 1 :
                         /\ Within(u, getCachedChartRanges(cache, range, res)[k].range, res)
                         /\ p = u * res
           /\ p \in DOMAIN aggregateChartData(cache, range, res) =>
                 \E i \in DOMAIN cache : \E j \in 0 .. cache[i].range.count - 1 :
                     /\ cache[i].status = "success"
                     /\ p = cache[i].range.startTick + j * res
                     /\ aggregateChartData(cache, range, res)[p] = cache[i].data[j]
<1> DEFINE C == getCachedChartRanges(cache, range, res)
           a == From(range, res)
           b == To(range, res)
           ticks(k) == PointsIn(C[k].range, range, res)
           value(k, tick) == C[k].data[(tick - C[k].range.startTick) \div res]
           all == UNION { ticks(k) : k \in DOMAIN C }
           data == [tick \in all |-> value(Max({ k \in DOMAIN C : tick \in ticks(k) }), tick)]
<1>1. aggregateChartData(cache, range, res) = data
  BY DEF aggregateChartData
<1>2. /\ C \in Seq(Asks(res))
      /\ \A k \in DOMAIN C : \E i \in DOMAIN cache : cache[i].status = "success" /\ C[k] = cache[i]
  BY CachedAre
<1> HIDE DEF C
<1>3. a \in Nat /\ b \in Nat
  BY OnGrid
<1> HIDE DEF a, b
<1>4. \A k \in DOMAIN C : C[k].range \in GridRanges(res)
  BY <1>2, AskIs
<1>5. ASSUME NEW k \in DOMAIN C, NEW q
      PROVE  q \in ticks(k) <=> \E u \in a .. b - 1 : Within(u, C[k].range, res) /\ q = u * res
  BY <1>4, PointsInAre DEF a, b
<1>6. p \in DOMAIN data <=> \E k \in DOMAIN C : p \in ticks(k)
  OBVIOUS
<1>7. p \in DOMAIN data <=> \E k \in DOMAIN C : \E u \in a .. b - 1 : Within(u, C[k].range, res) /\ p = u * res
  <2> HIDE DEF data, ticks
  <2> QED
    BY <1>5, <1>6
<1>8. ASSUME p \in DOMAIN data
      PROVE  \E i \in DOMAIN cache : \E j \in 0 .. cache[i].range.count - 1 :
                 /\ cache[i].status = "success" /\ p = cache[i].range.startTick + j * res
                 /\ data[p] = cache[i].data[j]
  <2> DEFINE K == { k \in DOMAIN C : p \in ticks(k) }
             last == Max(K)
  <2>1. data[p] = value(last, p)
    BY <1>8
  <2>2. last \in K
    <3>1. DOMAIN C = 1 .. Len(C) /\ Len(C) \in Nat /\ K \in SUBSET (1 .. Len(C)) /\ K # {}
      BY <1>2, <1>6, <1>8
    <3>2. PICK k \in K : \A j \in K : j <= k
      <4> HIDE DEF K
      <4> QED
        BY <3>1, LastPlace
    <3>3. \A j \in K : k >= j
      <4>1. \A j \in K : j \in Int
        BY <3>1
      <4> HIDE DEF K
      <4> QED
        BY <3>2, <4>1
    <3>4. last = CHOOSE x \in K : \A y \in K : x >= y
      BY DEF Max
    <3> HIDE DEF last, K
    <3> QED
      BY <3>2, <3>3, <3>4
  <2> HIDE DEF last
  <2>3. last \in DOMAIN C /\ p \in ticks(last)
    BY <2>2
  <2> HIDE DEF K, data
  <2>4. PICK i \in DOMAIN cache : cache[i].status = "success" /\ C[last] = cache[i]
    BY <1>2, <2>3
  <2>5. PICK u \in a .. b - 1 : Within(u, C[last].range, res) /\ p = u * res
    <3> HIDE DEF ticks
    <3> QED
      BY <1>5, <2>3
  <2> DEFINE r == C[last].range
             j == u - From(r, res)
  <2>6. /\ From(r, res) \in Nat /\ To(r, res) \in Nat /\ r.count \in Nat
        /\ r.count = To(r, res) - From(r, res) /\ r.startTick = From(r, res) * res
    BY <1>4, <2>3, OnGrid
  <2>7. u \in Int /\ From(r, res) <= u /\ u < To(r, res)
    BY <1>3, <2>5 DEF Within
  <2>8. j \in 0 .. r.count - 1 /\ From(r, res) + j = u
    BY <2>6, <2>7
  <2> DEFINE f == From(r, res)
  <2>9. f \in Nat /\ j \in Int /\ f + j = u /\ r.startTick = f * res
    BY <2>6, <2>8
  <2> HIDE DEF j, r, f
  <2>10. u * res - r.startTick = j * res /\ u * res = r.startTick + j * res
    <3>1. f * res + j * res = (f + j) * res /\ f * res \in Int /\ j * res \in Int
      BY <2>9, TimesSum
    <3> QED
      BY <2>9, <3>1
  <2>11. (p - r.startTick) \div res = j
    BY <2>5, <2>9, <2>10, TimesDivided
  <2>12. data[p] = cache[i].data[j]
    BY <2>1, <2>4, <2>11 DEF r
  <2> QED
    BY <2>4, <2>5, <2>8, <2>10, <2>12 DEF r
<1> HIDE DEF data
<1> QED
  BY <1>1, <1>7, <1>8 DEF C, a, b

\* Finite sets have a sequence of their members.
LEMMA ListedSet ==
    ASSUME NEW S, IsFiniteSet(S)
    PROVE  SetToSeq(S) \in Seq(S) /\ \A x \in S : \E k \in DOMAIN SetToSeq(S) : SetToSeq(S)[k] = x
<1> DEFINE n == Cardinality(S)
<1>1. n \in Nat /\ ExistsBijection(1 .. n, S)
  BY FS_CardinalityType
<1> HIDE DEF n
<1>2. PICK g \in Bijection(1 .. n, S) : TRUE
  BY <1>1 DEF ExistsBijection
<1>3. g \in [1 .. n -> S] /\ IsInjective(g)
  BY <1>2 DEF Bijection, Injection, IsInjective
<1> DEFINE f == CHOOSE h \in [1 .. n -> S] : IsInjective(h)
<1>4. SetToSeq(S) = f
  BY DEF SetToSeq, n
<1>5. f \in [1 .. n -> S] /\ IsInjective(f)
  BY <1>3
<1> HIDE DEF f
<1>6. f \in Injection(1 .. n, S)
  BY <1>5 DEF Injection, IsInjective
<1>7. IsFiniteSet(1 .. n) /\ Cardinality(1 .. n) = n
  <2>1. 1 \in Int /\ n \in Int
    BY <1>1
  <2>2. IsFiniteSet(1 .. n) /\ Cardinality(1 .. n) = IF 1 > n THEN 0 ELSE n - 1 + 1
    BY <2>1, FS_Interval
  <2> QED
    BY <1>1, <2>2
<1>8. f \in Surjection(1 .. n, S)
  BY <1>6, <1>7, FS_Injection DEF n
<1>9. \A x \in S : \E k \in 1 .. n : f[k] = x
  BY <1>8 DEF Surjection
<1>10. f \in Seq(S) /\ DOMAIN f = 1 .. n
  BY <1>1, <1>5
<1> QED
  BY <1>4, <1>9, <1>10

\* Every gap of every chart is asked for.
AllAsked(cache, t, res) ==
    \A width \in Widths :
        \A gap \in getCacheGaps(cache, computeRange(t, res, width), res) : AskedFor(cache, gap)

LEMMA AllAskedSame ==
    ASSUME NEW res \in Nat \ {0}, NEW old \in Seq(Asks(res)), NEW new \in Seq(Asks(res)), NEW t \in Nat,
           \A i : i \in DOMAIN old /\ old[i].status = "success"
                     <=> i \in DOMAIN new /\ new[i].status = "success",
           \A i \in DOMAIN old : i \in DOMAIN new /\ new[i].range = old[i].range,
           \A i \in DOMAIN old : old[i].status = "success" => new[i] = old[i]
    PROVE  /\ \A range : getCacheGaps(new, range, res) = getCacheGaps(old, range, res)
           /\ \A range : AskedFor(old, range) => AskedFor(new, range)
<1>1. \A range : getCachedChartRanges(new, range, res) = getCachedChartRanges(old, range, res)
  BY CachedSame
<1>2. \A range : getCacheGaps(new, range, res) = getCacheGaps(old, range, res)
  BY <1>1 DEF getCacheGaps
<1>3. \A range : AskedFor(old, range) => AskedFor(new, range)
  BY DEF AskedFor
<1> QED
  BY <1>2, <1>3

LEMMA QuestionTyped ==
    ASSUME moment \in Nat, NEW res, NEW range \in GridRanges(res)
    PROVE  Question(range) \in Asks(res)
BY DEF Question, Asks, Data, Faithful

\* Charts that are drawn have asked for all they lack.
LEMMA RenderedAsks ==
    ASSUME ChartAssumption, moment \in Nat, NEW res \in Nat \ {0}, NEW cache \in Seq(Asks(res)),
           NEW t \in Nat
    PROVE  /\ Rendered(cache, t, res) \in Seq(Asks(res))
           /\ AllAsked(Rendered(cache, t, res), t, res)
<1> DEFINE gaps == UNION { getCacheGaps(cache, computeRange(t, res, width), res) : width \in Widths }
           missing == { g \in gaps : ~AskedFor(cache, g) }
           asked == { Question(gap) : gap \in missing }
           new == SetToSeq(asked)
<1>1. Rendered(cache, t, res) = cache \o new
  BY DEF Rendered
<1>2. ASSUME NEW width \in Widths, NEW gap \in getCacheGaps(cache, computeRange(t, res, width), res)
      PROVE  gap \in GridRanges(res) /\ To(gap, res) * res <= t
  <2>1. width \in Nat
    BY DEF ChartAssumption
  <2> DEFINE range == computeRange(t, res, width)
  <2>2. range \in GridRanges(res) /\ To(range, res) * res <= t
    BY <2>1, ComputedRange
  <2>3. gap \in getCacheGaps(cache, range, res)
    BY <1>2
  <2> HIDE DEF range
  <2>4. gap \in GridRanges(res) /\ To(gap, res) <= To(range, res)
    BY <2>2, <2>3, GapsAre
  <2>5. To(gap, res) \in Int /\ To(range, res) \in Int
    BY <2>2, <2>4, OnGrid
  <2>6. To(gap, res) * res <= To(range, res) * res
    BY <2>4, <2>5, TimesLess
  <2>7. To(gap, res) * res \in Int /\ To(range, res) * res \in Int
    BY <2>5
  <2> QED
    BY <2>2, <2>4, <2>6, <2>7
<1>3. ASSUME NEW gap \in gaps PROVE gap \in GridRanges(res) /\ To(gap, res) * res <= t
  BY <1>2
<1> HIDE DEF gaps
<1>4. IsFiniteSet(asked)
  <2> DEFINE D == (0 .. t) \X (0 .. t)
             ask == [d \in D |-> Question([startTick |-> d[1] * res, count |-> d[2]])]
             all == { ask[d] : d \in D }
  <2>1. IsFiniteSet(D)
    <3>1. 0 \in Int /\ t \in Int
      OBVIOUS
    <3>2. IsFiniteSet(0 .. t)
      BY <3>1, FS_Interval
    <3> QED
      BY <3>2, FS_Product
  <2>2. ask \in Surjection(D, all)
    BY DEF Surjection
  <2>3. IsFiniteSet(all)
    <3> HIDE DEF ask, all, D
    <3> QED
      BY <2>1, <2>2, FS_Surjection
  <2>4. ASSUME NEW gap \in missing PROVE Question(gap) \in all
    <3>1. gap \in GridRanges(res) /\ To(gap, res) * res <= t
      BY <1>3
    <3> DEFINE a == From(gap, res)
               c == gap.count
    <3>2. /\ a \in Nat /\ c \in Nat /\ To(gap, res) = a + c
          /\ gap = [startTick |-> a * res, count |-> c]
      BY <3>1, OnGrid DEF To
    <3> HIDE DEF a, c
    <3>3. (a + c) * res <= t
      BY <3>1, <3>2
    <3>4. 1 * (a + c) <= res * (a + c)
      BY <3>2
    <3>5. a + c <= t
      BY <3>2, <3>3, <3>4
    <3>6. <<a, c>> \in D
      BY <3>2, <3>5
    <3>7. ask[<<a, c>>] = Question(gap)
      BY <3>2, <3>6
    <3> HIDE DEF ask, D
    <3> QED
      BY <3>6, <3>7
  <2> HIDE DEF all
  <2>5. asked \in SUBSET all
    BY <2>4
  <2> QED
    BY <2>3, <2>5, FS_Subset
<1>5. ASSUME NEW q \in asked
      PROVE  q \in Asks(res) /\ q.status = "asked"
  BY <1>3, QuestionTyped DEF Question
<1>6. new \in Seq(asked) /\ \A q \in asked : \E k \in DOMAIN new : new[k] = q
  <2> HIDE DEF asked
  <2> QED
    BY <1>4, ListedSet
<1>7. new \in Seq(Asks(res)) /\ \A k \in DOMAIN new : new[k].status = "asked"
  <2> HIDE DEF asked, new
  <2>1. Len(new) \in Nat /\ DOMAIN new = 1 .. Len(new) /\ \A k \in DOMAIN new : new[k] \in asked
    BY <1>6
  <2>2. new = [k \in 1 .. Len(new) |-> new[k]]
    BY <1>6
  <2> QED
    BY <1>5, <2>1, <2>2
<1> DEFINE next == cache \o new
<1>8. \A gap \in missing : \E k \in DOMAIN new : new[k].range = gap
  <2> SUFFICES ASSUME NEW gap \in missing PROVE \E k \in DOMAIN new : new[k].range = gap
    OBVIOUS
  <2>1. Question(gap) \in asked
    OBVIOUS
  <2> HIDE DEF asked, new, missing
  <2>2. PICK k \in DOMAIN new : new[k] = Question(gap)
    BY <1>6, <2>1
  <2> QED
    BY <2>2 DEF Question
<1> HIDE DEF new
<1>9. /\ next \in Seq(Asks(res))
      /\ Len(cache) \in Nat /\ Len(new) \in Nat
      /\ DOMAIN cache = 1 .. Len(cache) /\ DOMAIN new = 1 .. Len(new)
      /\ DOMAIN next = 1 .. Len(cache) + Len(new)
      /\ \A i \in 1 .. Len(cache) : next[i] = cache[i]
      /\ \A i \in 1 .. Len(new) : next[Len(cache) + i] = new[i]
  BY <1>7, PutBefore
<1> HIDE DEF next
<1>10. \A i \in DOMAIN cache : i \in DOMAIN next /\ next[i] = cache[i]
  BY <1>9
<1>11. ASSUME NEW i \in DOMAIN next, i \notin DOMAIN cache
       PROVE  next[i].status = "asked"
  <2>1. i - Len(cache) \in 1 .. Len(new) /\ Len(cache) + (i - Len(cache)) = i
    BY <1>9, <1>11
  <2> QED
    BY <1>7, <1>9, <2>1
<1>12. /\ \A range : getCacheGaps(next, range, res) = getCacheGaps(cache, range, res)
       /\ \A range : AskedFor(cache, range) => AskedFor(next, range)
  <2>1. \A i : i \in DOMAIN cache /\ cache[i].status = "success"
                  <=> i \in DOMAIN next /\ next[i].status = "success"
    BY <1>10, <1>11
  <2> QED
    BY <1>9, <1>10, <2>1, AllAskedSame
<1>13. ASSUME NEW gap \in gaps PROVE AskedFor(next, gap)
  <2>1. CASE AskedFor(cache, gap)
    BY <1>12, <2>1
  <2>2. CASE ~AskedFor(cache, gap)
    <3>1. PICK k \in DOMAIN new : new[k].range = gap
      BY <1>8, <2>2
    <3>2. Len(cache) + k \in DOMAIN next /\ next[Len(cache) + k] = new[k]
      BY <1>9
    <3> QED
      BY <3>1, <3>2 DEF AskedFor
  <2> QED
    BY <2>1, <2>2
<1>14. AllAsked(next, t, res)
  BY <1>12, <1>13 DEF AllAsked, gaps
<1> QED
  BY <1>1, <1>9, <1>14 DEF next

LEMMA AskReplaced ==
    ASSUME NEW res, NEW cache \in Seq(Asks(res)), NEW i \in DOMAIN cache, NEW ask \in Asks(res)
    PROVE  [cache EXCEPT ![i] = ask] \in Seq(Asks(res))
OBVIOUS

(***************************************************************************)
(* What the server answers.                                                *)
(***************************************************************************)
LEMMA MomentIs ==
    ASSUME NEW m \in Nat
    PROVE  TickAt(m) \in Nat /\ TickAt(m) <= TickAt(m + 1) /\ RecordedAt(m) \in Int
BY DEF TickAt, RecordedAt

LEMMA BlockStartIs ==
    ASSUME ChartAssumption, NEW t \in Int
    PROVE  /\ BlockStart(t) \in Int /\ BlockStart(t) <= t /\ t < BlockStart(t) + Block
           /\ t - BlockStart(t) = t % Block
           /\ BlockStart(t) = (t \div Block) * Block
BY DEF BlockStart, ChartAssumption

LEMMA ReadsAre ==
    ASSUME ChartAssumption, moment \in Nat, NEW since \in Nat, NEW read \in Reads(since)
    PROVE  /\ read.total \in Int /\ read.recorded \in Int /\ read.now \in Nat /\ read.saved \in Int
           /\ read.torn \in BOOLEAN
           /\ ~read.torn => \E t \in Nat : /\ read.total = t /\ read.recorded = t /\ read.now = t
                                         /\ read.saved = BlockStart(t)
<1> DEFINE span(m)  == m .. Smallest(moment, m + MaxSpan)
           moments  == UNION { [1 .. 4 -> span(first)] : first \in since .. moment }
           ordered  == { m \in moments : m[1] <= m[2] /\ m[2] <= m[3] /\ m[3] <= m[4] }
           found(m) == { [total |-> TickAt(m[1]), recorded |-> RecordedAt(m[2]), now |-> TickAt(m[3]),
                          saved |-> saved, torn |-> ~(m[1] = m[4] /\ BetweenTicks(m[1]))] :
                             saved \in FilesAt(m[4]) }
<1>1. PICK m \in ordered : read \in found(m)
  BY DEF Reads
<1>2. m[1] \in Nat /\ m[2] \in Nat /\ m[3] \in Nat /\ m[4] \in Nat
  <2>1. PICK first \in since .. moment : m \in [1 .. 4 -> span(first)]
    BY <1>1
  <2>2. first \in Nat /\ span(first) \subseteq Nat
    BY <2>1
  <2> HIDE DEF span
  <2> QED
    BY <2>1, <2>2
<1>3. m[1] <= m[2] /\ m[2] <= m[3] /\ m[3] <= m[4]
  BY <1>1
<1> HIDE DEF ordered, moments
<1>4. PICK saved \in FilesAt(m[4]) :
          read = [total |-> TickAt(m[1]), recorded |-> RecordedAt(m[2]), now |-> TickAt(m[3]),
                  saved |-> saved, torn |-> ~(m[1] = m[4] /\ BetweenTicks(m[1]))]
  BY <1>1
<1>5. saved \in Int
  <2>1. TickAt(m[4]) \in Int /\ TickAt(m[4]) - 1 \in Int
    BY <1>2, MomentIs
  <2>2. SavedAt(m[4]) \in Int
    BY <2>1, BlockStartIs DEF SavedAt
  <2> QED
    BY <1>4, <2>2 DEF FilesAt, Unreadable
<1>6. ASSUME ~read.torn
      PROVE  \E t \in Nat : /\ read.total = t /\ read.recorded = t /\ read.now = t
                            /\ read.saved = BlockStart(t)
  <2>1. m[1] = m[4] /\ BetweenTicks(m[1])
    BY <1>4, <1>6
  <2>2. m[2] = m[1] /\ m[3] = m[1] /\ m[4] = m[1]
    BY <1>2, <1>3, <2>1
  <2>3. m[1] % 3 = 2
    BY <2>1 DEF BetweenTicks
  <2>4. RecordedAt(m[2]) = TickAt(m[1])
    BY <2>1, <2>2 DEF RecordedAt
  <2>5. saved = BlockStart(TickAt(m[1]))
    BY <1>4, <2>2, <2>3 DEF FilesAt, SavedAt
  <2> QED
    BY <1>2, <1>4, <2>2, <2>4, <2>5, MomentIs
<1> QED
  BY <1>2, <1>4, <1>5, <1>6, MomentIs

LEMMA PointTyped ==
    ASSUME ChartAssumption, NEW res \in Nat \ {0}, NEW range \in GridRanges(res), NEW tick \in Int,
           NEW read, read.total \in Int, read.recorded \in Int, read.now \in Int, read.saved \in Int
    PROVE  PointAt(range, tick, read, res) \in Int
<1>1. BlockStart(read.now) \in Int
  BY BlockStartIs
<1>2. FreshTicks(read.total) \in Int
  BY DEF FreshTicks, ChartAssumption
<1>3. (read.saved \div res) \in Int /\ (tick - BlockStart(read.now)) \div res \in Int
  BY <1>1
<1>4. (read.saved \div res + (tick - BlockStart(read.now)) \div res) * res \in Int
  BY <1>3
<1> QED
  BY <1>1, <1>2, <1>4 DEF PointAt, Largest, NoValue

\* Blocks and points divide each other.
LEMMA BlockOnGrid ==
    ASSUME ChartAssumption, NEW res \in Nat \ {0}, Block % res = 0, NEW t \in Int
    PROVE  \E r \in Int : BlockStart(t) = r * res
<1>1. Block \in Nat \ {0} /\ BlockStart(t) = (t \div Block) * Block
  BY BlockStartIs DEF ChartAssumption
<1>2. Block = (Block \div res) * res /\ Block \div res \in Int
  BY <1>1
<1> DEFINE q == t \div Block
           k == Block \div res
<1>3. q \in Int /\ k \in Int /\ q * k \in Int
  BY <1>1, <1>2
<1> HIDE DEF q, k
<1>4. q * (k * res) = (q * k) * res
  BY <1>3
<1> QED
  BY <1>1, <1>2, <1>3, <1>4 DEF q, k

\* What is answered between two ticks is the point's own, a tick late once it is saved;
\* or a whole point late, or missing, where points are wider than blocks.
LEMMA PointTold ==
    ASSUME ChartAssumption, NEW res \in Resolutions, NEW range \in GridRanges(res), NEW t \in Nat,
           Accepted(range, t, res), NEW j \in 0 .. range.count - 1,
           NEW read, read.total = t, read.recorded = t, read.now = t, read.saved = BlockStart(t)
    PROVE  PointAt(range, range.startTick + j * res, read, res) \in Told(range.startTick + j * res, res)
<1> DEFINE f     == From(range, res)
           a     == f + j
           tick  == range.startTick + j * res
           start == BlockStart(t)
           back  == (tick - start) \div res
           fresh == FreshTicks(t)
<1>1. res \in Nat \ {0} /\ Block \in Nat \ {0} /\ MaxDatapoints \in Nat
  BY DEF ChartAssumption
<1>2. f \in Nat /\ range.startTick = f * res /\ range.count \in Nat /\ j \in Nat /\ j + 1 <= range.count
  BY <1>1, OnGrid
<1> HIDE DEF f
<1>3. a \in Nat /\ tick = a * res /\ tick \in Nat
  <2>1. f * res + j * res = (f + j) * res
    BY <1>1, <1>2, TimesSum
  <2> QED
    BY <1>1, <1>2, <2>1
<1>4. start \in Int /\ start <= t /\ t < start + Block /\ t - start = t % Block /\ 0 <= start
  <2>1. 0 <= start
    BY <1>1 DEF BlockStart
  <2> QED
    BY <2>1, BlockStartIs
<1>5. tick + res <= t
  <2> DEFINE n == range.count
             s == range.startTick
  <2>1. n \in Nat /\ n <= (t - s) \div res /\ s \in Nat /\ s < t /\ (j + 1) <= n
    BY <1>1, <1>2, OnGrid DEF Accepted
  <2> HIDE DEF n, s
  <2>2. ((t - s) \div res) * res <= t - s /\ (t - s) \div res \in Int
    BY <1>1, <2>1, DividedBounds
  <2>3. n * res <= ((t - s) \div res) * res /\ (j + 1) * res <= n * res
    BY <1>1, <1>2, <2>1, <2>2, TimesLess
  <2>4. (j + 1) * res = j * res + res
    BY <1>1, <1>2
  <2>5. j * res \in Int /\ n * res \in Int /\ ((t - s) \div res) * res \in Int
    BY <1>1, <1>2, <2>1, <2>2
  <2>6. s + j * res + res <= t
    BY <1>1, <2>1, <2>2, <2>3, <2>4, <2>5
  <2> QED
    BY <2>6 DEF s
<1>6. PointAt(range, tick, read, res) =
          IF tick < start
          THEN IF start = Unreadable \/ (range.startTick - start) \div res < -MaxDatapoints
               THEN NoValue
               ELSE Largest(NoValue, (start \div res + back) * res - 1)
          ELSE IF tick + res - start <= fresh
               THEN Largest(NoValue, t - fresh + tick - start)
               ELSE NoValue
  BY DEF PointAt
<1>7. /\ Largest(NoValue, tick) \in Told(tick, res) /\ Largest(NoValue, tick - 1) \in Told(tick, res)
      /\ Block % res # 0 => /\ Largest(NoValue, tick - 1 - res) \in Told(tick, res)
                            /\ Largest(NoValue, NoValue) \in Told(tick, res)
  <2> HIDE DEF tick
  <2> QED
    BY DEF Told
<1> SUFFICES PointAt(range, tick, read, res) \in Told(tick, res)
  OBVIOUS
<1> HIDE DEF a, tick, start, back, fresh
<1>8. CASE tick < start
  <2> DEFINE q == start \div res
             missing == (range.startTick - start) \div res < -MaxDatapoints
  <2>1. start # Unreadable
    BY <1>3, <1>4, <1>8 DEF Unreadable
  <2>2. q \in Int /\ q * res <= start /\ start < (q + 1) * res
    BY <1>1, <1>4, DividedBounds
  <2> HIDE DEF q
  <2>3. CASE Block % res = 0
    <3>1. PICK r \in Int : start = r * res
      <4>1. t \in Int
        OBVIOUS
      <4> QED
        BY <1>1, <2>3, <4>1, BlockOnGrid DEF start
    <3>2. start \div res = r
      BY <1>1, <3>1, TimesDivided
    <3>3. back = a - r
      <4>1. tick - start = (a - r) * res /\ a - r \in Int
        BY <1>1, <1>3, <3>1, TimesSum
      <4> QED
        BY <1>1, <4>1, TimesDivided DEF back
    <3>4. ~missing
      <4>1. (range.startTick - start) \div res = f - r
        <5>1. f * res - r * res = (f - r) * res /\ f - r \in Int
          BY <1>1, <1>2, <3>1, TimesSum
        <5> QED
          BY <1>1, <1>2, <3>1, <5>1, TimesDivided
      <4>2. r <= t \div res /\ t \div res \in Int
        BY <1>1, <1>4, <3>1, DividedAtLeast, DividedBounds
      <4>3. (t \div res - MaxDatapoints) * res <= f * res
        <5>1. (t \div res - MaxDatapoints) * res \in Int /\ f * res \in Int
          BY <1>1, <1>2, <4>2
        <5> QED
          BY <1>2, <5>1 DEF Accepted, Oldest, Largest
      <4>4. t \div res - MaxDatapoints <= f
        BY <1>1, <1>2, <4>2, <4>3, TimesLess
      <4> QED
        BY <1>1, <1>2, <3>1, <4>1, <4>2, <4>4
    <3>5. PointAt(range, tick, read, res) = Largest(NoValue, (r + (a - r)) * res - 1)
      BY <1>6, <1>8, <2>1, <3>2, <3>3, <3>4
    <3>6. r + (a - r) = a
      BY <1>3, <3>1
    <3> QED
      BY <1>3, <1>7, <3>5, <3>6
  <2>4. CASE Block % res # 0
    <3>1. CASE missing
      <4>1. PointAt(range, tick, read, res) = NoValue
        BY <1>6, <1>8, <3>1
      <4> QED
        BY <1>7, <2>4, <4>1 DEF Largest, NoValue
    <3>2. CASE ~missing
      <4>1. PointAt(range, tick, read, res) = Largest(NoValue, (q + back) * res - 1)
        BY <1>6, <1>8, <2>1, <3>2 DEF q
      <4>2. back = a - q \/ back = a - q - 1
        <5>1. /\ tick - start \in Int /\ back \in Int
              /\ back * res <= tick - start /\ tick - start < (back + 1) * res
          BY <1>1, <1>3, <1>4, DividedBounds DEF back
        <5>2. /\ (a - q) * res = a * res - q * res /\ (q + 1) * res = q * res + res
              /\ (a - q - 1) * res = (a - q) * res - res
              /\ a * res \in Int /\ q * res \in Int /\ a - q \in Int
          BY <1>1, <1>3, <2>2, TimesSum
        <5>3. (a - q - 1) * res < (back + 1) * res /\ back * res <= (a - q) * res
          BY <1>1, <1>3, <1>4, <2>2, <5>1, <5>2
        <5>4. a - q - 1 < back + 1 /\ back <= a - q
          BY <1>1, <5>1, <5>2, <5>3, TimesLess
        <5> QED
          BY <5>1, <5>2, <5>4
      <4>3. CASE back = a - q
        <5>1. (q + back) * res - 1 = tick - 1
          BY <1>3, <2>2, <4>3
        <5> QED
          BY <1>7, <4>1, <5>1
      <4>4. CASE back = a - q - 1
        <5>1. q + back = a - 1 /\ (a - 1) * res = a * res - res
          BY <1>1, <1>3, <2>2, <4>4
        <5>2. (q + back) * res - 1 = tick - 1 - res
          BY <1>1, <1>3, <5>1
        <5> QED
          BY <1>7, <2>4, <4>1, <5>2
      <4> QED
        BY <4>2, <4>3, <4>4
    <3> QED
      BY <3>1, <3>2
  <2> QED
    BY <2>3, <2>4
<1>9. CASE ~(tick < start)
  <2>1. t % Block # 0
    BY <1>1, <1>3, <1>4, <1>5, <1>9
  <2>2. fresh = t - start
    BY <1>4, <2>1 DEF fresh, FreshTicks
  <2>3. tick + res - start <= fresh /\ t - fresh + tick - start = tick
    BY <1>1, <1>3, <1>4, <1>5, <2>2
  <2>4. PointAt(range, tick, read, res) = Largest(NoValue, tick)
    BY <1>6, <1>9, <2>3
  <2> QED
    BY <1>7, <2>4
<1> QED
  BY <1>8, <1>9

\* An answer is data of its range, and faithful but for what is read during a tick.
LEMMA AnswerTyped ==
    ASSUME ChartAssumption, moment \in Nat, NEW res \in Resolutions, NEW range \in GridRanges(res),
           NEW since \in Nat, NEW read \in Reads(since), Accepted(range, read.now, res)
    PROVE  [range |-> range, status |-> "success", since |-> 0,
            data |-> Series(range, read, res), torn |-> read.torn] \in Asks(res)
<1> DEFINE ask == [range |-> range, status |-> "success", since |-> 0,
                   data |-> Series(range, read, res), torn |-> read.torn]
           c == range.count
<1>1. /\ read.total \in Int /\ read.recorded \in Int /\ read.now \in Nat /\ read.saved \in Int
      /\ read.torn \in BOOLEAN
      /\ ~read.torn => \E t \in Nat : /\ read.total = t /\ read.recorded = t /\ read.now = t
                                    /\ read.saved = BlockStart(t)
  BY ReadsAre
<1>2. res \in Nat \ {0}
  BY DEF ChartAssumption
<1>3. c \in Nat /\ range.startTick \in Nat
  BY <1>2, OnGrid
<1> HIDE DEF c
<1>4. \A j \in 0 .. c - 1 : range.startTick + j * res \in Int
  BY <1>2, <1>3
<1>5. \A j \in 0 .. c - 1 : PointAt(range, range.startTick + j * res, read, res) \in Int
  BY <1>1, <1>2, <1>4, PointTyped
<1>6. Series(range, read, res) = [j \in 0 .. c - 1 |-> PointAt(range, range.startTick + j * res, read, res)]
  BY DEF Series, c
<1>7. Series(range, read, res) \in [0 .. c - 1 -> Int]
  BY <1>5, <1>6
<1>8. Series(range, read, res) \in Data
  BY <1>3, <1>7 DEF Data
<1>9. ASSUME ~read.torn, NEW j \in 0 .. c - 1
      PROVE  Series(range, read, res)[j] \in Told(range.startTick + j * res, res)
  <2>1. PICK t \in Nat : /\ read.total = t /\ read.recorded = t /\ read.now = t
                         /\ read.saved = BlockStart(t)
    BY <1>1, <1>9
  <2>2. PointAt(range, range.startTick + j * res, read, res) \in Told(range.startTick + j * res, res)
    BY <2>1, PointTold DEF c
  <2> QED
    BY <1>6, <2>2
<1>10. Faithful(ask, res)
  BY <1>9 DEF Faithful, c
<1> QED
  BY <1>1, <1>8, <1>10 DEF Asks

LEMMA FailureTyped ==
    ASSUME NEW res, NEW range \in GridRanges(res)
    PROVE  [range |-> range, status |-> "error", since |-> 0, data |-> <<>>, torn |-> FALSE] \in Asks(res)
BY DEF Asks, Data, Faithful

(***************************************************************************)
(* A chart that was drawn has asked for all that it lacks, and the page    *)
(* never takes the game to be further than it is.                          *)
(***************************************************************************)
ChartTyped ==
    /\ resolution \in Resolutions
    /\ moment \in Nat /\ currentTick \in 0 .. serverTick
    /\ initialTick \in [stage: {"asked", "answered", "done"}, tick: Nat] /\ initialTick.tick <= serverTick
    /\ tickEvents \in Seq(Nat) /\ \A k \in DOMAIN tickEvents : tickEvents[k] <= serverTick
    /\ queries \in Seq(Asks(resolution))

ChartInv == ChartTyped /\ AllAsked(queries, currentTick, resolution)

LEMMA ChartStarts ==
    ASSUME ChartInit, ChartAssumption
    PROVE  ChartInv
<1>1. /\ resolution \in Resolutions /\ resolution \in Nat \ {0} /\ currentTick = 0
      /\ initialTick = [stage |-> "asked", tick |-> 0] /\ tickEvents = <<>>
      /\ queries = Rendered(<<>>, currentTick, resolution)
  BY DEF ChartInit, ChartAssumption, Undefined
<1>2. moment \in Nat
  <2>1. PICK first \in FirstTicks : moment = 3 * first + 2
    BY DEF ChartInit
  <2>2. first \in Nat
    BY DEF ChartAssumption
  <2> QED
    BY <2>1, <2>2
<1>3. <<>> \in Seq(Asks(resolution)) /\ currentTick \in Nat /\ serverTick \in Nat
  <2>1. <<>> \in Seq(Asks(resolution))
    OBVIOUS
  <2>2. serverTick \in Nat
    BY <1>2, MomentIs DEF serverTick
  <2>3. currentTick \in Nat
    BY <1>1
  <2> QED
    BY <2>1, <2>2, <2>3
<1>4. queries \in Seq(Asks(resolution)) /\ AllAsked(queries, currentTick, resolution)
  BY <1>1, <1>2, <1>3, RenderedAsks
<1>5. /\ tickEvents \in Seq(Nat) /\ \A k \in DOMAIN tickEvents : tickEvents[k] <= serverTick
      /\ initialTick \in [stage: {"asked", "answered", "done"}, tick: Nat] /\ initialTick.tick <= serverTick
      /\ currentTick \in 0 .. serverTick
  <2>1. tickEvents \in Seq(Nat) /\ DOMAIN tickEvents = {}
    BY <1>1
  <2>2. 0 <= serverTick /\ 0 \in Nat
    BY <1>3
  <2>3. initialTick.tick = 0 /\ initialTick \in [stage: {"asked", "answered", "done"}, tick: Nat]
    BY <1>1
  <2>4. 0 \in 0 .. serverTick
    BY <1>3
  <2> QED
    BY <1>1, <2>1, <2>2, <2>3, <2>4
<1> QED
  BY <1>1, <1>2, <1>4, <1>5 DEF ChartInv, ChartTyped

LEMMA SettledKept ==
    ASSUME ChartAssumption, ChartInv, NEW i \in DOMAIN queries, NEW status, NEW data, NEW torn,
           Settled(i, status, data, torn),
           [range |-> queries[i].range, status |-> status, since |-> 0, data |-> data, torn |-> torn]
               \in Asks(resolution)
    PROVE  ChartInv'
<1> DEFINE ask == [range |-> queries[i].range, status |-> status, since |-> 0, data |-> data, torn |-> torn]
<1>1. /\ queries' = Rendered([queries EXCEPT ![i] = ask], currentTick, resolution)
      /\ UNCHANGED <<resolution, moment, initialTick, tickEvents, currentTick>>
  BY DEF Settled
<1>2. /\ queries \in Seq(Asks(resolution)) /\ moment \in Nat /\ resolution \in Nat \ {0}
      /\ currentTick \in Nat /\ serverTick \in Nat
  BY MomentIs DEF ChartInv, ChartTyped, ChartAssumption, serverTick
<1> HIDE DEF ask
<1>3. [queries EXCEPT ![i] = ask] \in Seq(Asks(resolution))
  BY <1>2, AskReplaced DEF ask
<1>4. queries' \in Seq(Asks(resolution)) /\ AllAsked(queries', currentTick, resolution)
  BY <1>1, <1>2, <1>3, RenderedAsks
<1> QED
  BY <1>1, <1>4 DEF ChartInv, ChartTyped, serverTick

LEMMA ChartKept ==
    ASSUME ChartAssumption, ChartInv, ChartNext
    PROVE  ChartInv'
<1>1. /\ resolution \in Resolutions /\ resolution \in Nat \ {0}
      /\ moment \in Nat /\ serverTick \in Nat
      /\ currentTick \in Nat /\ currentTick <= serverTick
      /\ initialTick \in [stage: {"asked", "answered", "done"}, tick: Nat] /\ initialTick.tick <= serverTick
      /\ tickEvents \in Seq(Nat) /\ \A k \in DOMAIN tickEvents : tickEvents[k] <= serverTick
      /\ queries \in Seq(Asks(resolution)) /\ AllAsked(queries, currentTick, resolution)
  BY MomentIs DEF ChartInv, ChartTyped, ChartAssumption, serverTick
<1>2. ASSUME moment' = moment + 1, tickEvents' \in {tickEvents, Append(tickEvents, serverTick)},
             UNCHANGED <<resolution, initialTick, currentTick, queries>>
      PROVE  ChartInv'
  <2>1. moment' \in Nat /\ serverTick' \in Nat /\ serverTick <= serverTick'
    BY <1>1, <1>2, MomentIs DEF serverTick
  <2>2. tickEvents' \in Seq(Nat) /\ \A k \in DOMAIN tickEvents' : tickEvents'[k] <= serverTick'
    <3>1. CASE tickEvents' = tickEvents
      BY <1>1, <2>1, <3>1
    <3>2. CASE tickEvents' = Append(tickEvents, serverTick)
      BY <1>1, <2>1, <3>2
    <3> QED
      BY <1>2, <3>1, <3>2
  <2> QED
    BY <1>1, <1>2, <2>1, <2>2 DEF ChartInv, ChartTyped
<1>3. CASE TickBegins \/ TickSaved \/ TickEnds
  BY <1>2, <1>3 DEF TickBegins, TickSaved, TickEnds
<1>4. CASE TickEvent
  <2>1. PICK dropped \in SUBSET (DOMAIN queries) :
            queries' = Rendered(Picked(queries, DOMAIN queries \ dropped), currentTick', resolution)
    BY <1>4 DEF TickEvent
  <2>2. /\ tickEvents # <<>> /\ tickEvents' = Tail(tickEvents) /\ currentTick' = Head(tickEvents)
        /\ UNCHANGED <<resolution, moment, initialTick>>
    BY <1>4 DEF TickEvent
  <2>3. currentTick' \in Nat /\ currentTick' <= serverTick
    BY <1>1, <2>2
  <2>4. tickEvents' \in Seq(Nat) /\ \A k \in DOMAIN tickEvents' : tickEvents'[k] <= serverTick
    BY <1>1, <2>2
  <2>5. Picked(queries, DOMAIN queries \ dropped) \in Seq(Asks(resolution))
    BY <1>1, PickedTyped
  <2>6. queries' \in Seq(Asks(resolution)) /\ AllAsked(queries', currentTick', resolution)
    BY <1>1, <2>1, <2>3, <2>5, RenderedAsks
  <2> QED
    BY <1>1, <2>2, <2>3, <2>4, <2>6 DEF ChartInv, ChartTyped, serverTick
<1>5. CASE InitialTickAnswered
  BY <1>1, <1>5 DEF InitialTickAnswered, ChartInv, ChartTyped, serverTick
<1>6. CASE InitialTickLands
  <2>1. /\ queries' = Rendered(queries, currentTick', resolution) /\ currentTick' = initialTick.tick
        /\ initialTick' = [stage |-> "done", tick |-> 0]
        /\ UNCHANGED <<resolution, moment, tickEvents>>
    BY <1>6 DEF InitialTickLands, InitialTickDone, Undefined
  <2>2. currentTick' \in Nat /\ currentTick' <= serverTick
    BY <1>1, <2>1
  <2>3. queries' \in Seq(Asks(resolution)) /\ AllAsked(queries', currentTick', resolution)
    BY <1>1, <2>1, <2>2, RenderedAsks
  <2> QED
    BY <1>1, <2>1, <2>2, <2>3 DEF ChartInv, ChartTyped, serverTick
<1>7. CASE InitialTickFails
  BY <1>1, <1>7 DEF InitialTickFails, InitialTickDone, Undefined, ChartInv, ChartTyped, serverTick
<1>8. ASSUME NEW i \in DOMAIN queries
      PROVE  queries[i].range \in GridRanges(resolution) /\ queries[i].since \in Nat
  BY <1>1, AskIs
<1>9. ASSUME NEW i \in DOMAIN queries, ChartAnswer(i) PROVE ChartInv'
  <2> DEFINE range == queries[i].range
  <2>1. PICK read \in Reads(queries[i].since) :
            /\ Accepted(range, read.now, resolution)
            /\ Settled(i, "success", Series(range, read, resolution), read.torn)
    BY <1>9 DEF ChartAnswer
  <2>2. [range |-> range, status |-> "success", since |-> 0,
         data |-> Series(range, read, resolution), torn |-> read.torn] \in Asks(resolution)
    BY <1>1, <1>8, <2>1, AnswerTyped
  <2> QED
    BY <2>1, <2>2, SettledKept
<1>10. ASSUME NEW i \in DOMAIN queries, ChartRefused(i) \/ ChartLost(i) PROVE ChartInv'
  <2>1. Settled(i, "error", <<>>, FALSE)
    BY <1>10 DEF ChartRefused, ChartLost
  <2>2. [range |-> queries[i].range, status |-> "error", since |-> 0, data |-> <<>>, torn |-> FALSE]
            \in Asks(resolution)
    BY <1>8, FailureTyped
  <2> QED
    BY <2>1, <2>2, SettledKept
<1>11. ASSUME NEW i \in DOMAIN queries, AskAgain(i) PROVE ChartInv'
  <2> DEFINE ask == Question(queries[i].range)
  <2>1. /\ queries[i].status = "error"
        /\ queries' = [queries EXCEPT ![i] = ask]
        /\ UNCHANGED <<resolution, moment, initialTick, tickEvents, currentTick>>
    BY <1>11 DEF AskAgain
  <2>2. ask \in Asks(resolution) /\ ask.status = "asked" /\ ask.range = queries[i].range
    BY <1>1, <1>8, QuestionTyped DEF Question
  <2> HIDE DEF ask
  <2>3. queries' \in Seq(Asks(resolution))
    BY <1>1, <2>1, <2>2, AskReplaced
  <2>4. /\ DOMAIN queries' = DOMAIN queries
        /\ \A j \in DOMAIN queries : queries'[j] = IF j = i THEN ask ELSE queries[j]
    BY <2>1
  <2>5. /\ \A j : j \in DOMAIN queries /\ queries[j].status = "success"
                     <=> j \in DOMAIN queries' /\ queries'[j].status = "success"
        /\ \A j \in DOMAIN queries : j \in DOMAIN queries' /\ queries'[j].range = queries[j].range
        /\ \A j \in DOMAIN queries : queries[j].status = "success" => queries'[j] = queries[j]
    BY <2>1, <2>2, <2>4
  <2>6. /\ \A range : getCacheGaps(queries', range, resolution) = getCacheGaps(queries, range, resolution)
        /\ \A range : AskedFor(queries, range) => AskedFor(queries', range)
    BY <1>1, <2>3, <2>5, AllAskedSame
  <2>7. AllAsked(queries', currentTick, resolution)
    BY <1>1, <2>6 DEF AllAsked
  <2> QED
    BY <1>1, <2>1, <2>3, <2>7 DEF ChartInv, ChartTyped, serverTick
<1> QED
  BY <1>3, <1>4, <1>5, <1>6, <1>7, <1>9, <1>10, <1>11 DEF ChartNext

\* The start of a chart is as old as the server allows, unless the server is a point ahead.
LEMMA ChartInReach ==
    ASSUME ChartAssumption, NEW res \in Nat \ {0}, NEW t \in Nat, NEW width \in Widths, NEW now \in Nat,
           t <= now, computeRange(t, res, width).count > 0
    PROVE  \/ computeRange(t, res, width).startTick >= Oldest(now, res)
           \/ t \div res < now \div res
<1> DEFINE q == t \div res
           n == now \div res
<1>1. width \in Nat /\ MaxDatapoints \in Nat /\ width <= MaxDatapoints
  BY DEF ChartAssumption
<1>2. q \in Int /\ n \in Int /\ q <= n
  <2>1. q * res <= t /\ q \in Int /\ n \in Int
    BY DividedBounds
  <2> QED
    BY <2>1, DividedAtLeast
<1>3. computeRange(t, res, width).startTick = res * Largest(0, q - width)
  BY DEF computeRange
<1> HIDE DEF q, n
<1>4. CASE q = n
  <2>1. n - MaxDatapoints <= Largest(0, q - width) /\ Largest(0, q - width) \in Nat
    BY <1>1, <1>2, <1>4 DEF Largest
  <2> DEFINE a == Largest(0, q - width)
  <2>2. a \in Nat /\ n - MaxDatapoints \in Int /\ n - MaxDatapoints <= a
    BY <1>1, <1>2, <2>1
  <2> HIDE DEF a
  <2>3. (n - MaxDatapoints) * res <= a * res /\ a * res = res * a /\ a * res \in Nat
        /\ (n - MaxDatapoints) * res \in Int
    BY <2>2, TimesLess, TimesSum
  <2>4. Largest(0, (n - MaxDatapoints) * res) <= res * a
    BY <2>3 DEF Largest
  <2> QED
    BY <1>3, <2>3, <2>4 DEF Oldest, a, n, Largest
<1> QED
  BY <1>2, <1>4 DEF q, n

\* However ticks and answers come, fail and are dropped, for charts of any widths and any
\* resolution: what is drawn and what is asked for make up each chart's own range, each
\* point is what the server had for it unless it was read during a tick, and what is asked
\* for is accepted unless the page is a point behind.
THEOREM ChartIsComplete == Spec => []ChartComplete
<1>1. Init => ChartInv
  BY ChartAssumption, ChartStarts DEF Init
<1>2. ChartInv /\ [Next]_pageVars => ChartInv'
  <2> SUFFICES ASSUME ChartInv, [Next]_pageVars PROVE ChartInv'
    OBVIOUS
  <2>1. ChartNext \/ UNCHANGED chartVars
    BY OnePage
  <2>2. CASE UNCHANGED chartVars
    BY <2>2 DEF chartVars, ChartInv, ChartTyped, serverTick
  <2> QED
    BY <2>1, <2>2, ChartAssumption, ChartKept
<1>3. ChartInv => ChartComplete
  <2> SUFFICES ASSUME ChartInv, NEW width \in Widths
               PROVE  LET range  == computeRange(currentTick, resolution, width)
                          gaps   == getCacheGaps(queries, range, resolution)
                          data   == aggregateChartData(queries, range, resolution)
                          points == Points(range, resolution)
                      IN  /\ DOMAIN data \subseteq points
                          /\ \A tick \in DOMAIN data : data[tick] \in Told(tick, resolution) \/ Torn(tick)
                          /\ points = DOMAIN data \cup UNION { Points(gap, resolution) : gap \in gaps }
                          /\ gaps = {} => DOMAIN ChartData(width) = points
                          /\ range.count > 0 =>
                                 \A gap \in gaps :
                                     /\ gap.count > 0 /\ Points(gap, resolution) \subseteq points
                                     /\ AskedFor(queries, gap)
                                     /\ \/ Accepted(gap, serverTick, resolution)
                                        \/ /\ gap.startTick < Oldest(serverTick, resolution)
                                           /\ currentTick \div resolution < serverTick \div resolution
    BY DEF ChartComplete
  <2> DEFINE range == computeRange(currentTick, resolution, width)
             gaps  == getCacheGaps(queries, range, resolution)
             data  == aggregateChartData(queries, range, resolution)
             C     == getCachedChartRanges(queries, range, resolution)
             a     == From(range, resolution)
             b     == To(range, resolution)
  <2>1. /\ resolution \in Nat \ {0} /\ queries \in Seq(Asks(resolution))
        /\ currentTick \in Nat /\ serverTick \in Nat /\ currentTick <= serverTick /\ width \in Nat
    BY ChartAssumption, MomentIs DEF ChartInv, ChartTyped, ChartAssumption, serverTick
  <2>2. \A gap \in gaps : AskedFor(queries, gap)
    BY DEF ChartInv, AllAsked
  <2>3. Waits(width) => gaps # {}
    BY DEF Waits
  <2>4. gaps = {} => ChartData(width) = data
    BY <2>3 DEF ChartData
  <2>5. range \in GridRanges(resolution) /\ b * resolution <= currentTick
    BY <2>1, ComputedRange
  <2>6. a \in Nat /\ b \in Nat /\ range.startTick = a * resolution
    BY <2>1, <2>5, OnGrid
  <2>7. range.count > 0 => \/ a * resolution >= Oldest(serverTick, resolution)
                          \/ currentTick \div resolution < serverTick \div resolution
    BY <2>1, <2>6, ChartAssumption, ChartInReach
  <2> HIDE DEF range
  <2>8. /\ \A gap \in gaps :
              /\ gap \in GridRanges(resolution)
              /\ a <= From(gap, resolution) /\ To(gap, resolution) <= b
              /\ range.count > 0 => gap.count > 0
        /\ \A u \in a .. b - 1 : \/ \E gap \in gaps : Within(u, gap, resolution)
                                 \/ \E k \in DOMAIN C : Within(u, C[k].range, resolution)
    BY <2>1, <2>5, GapsAre
  <2>9. /\ \A p : p \in DOMAIN data <=> \E k \in DOMAIN C : \E u \in a .. b - 1 :
                   Within(u, C[k].range, resolution) /\ p = u * resolution
        /\ \A p \in DOMAIN data : \E i \in DOMAIN queries : \E j \in 0 .. queries[i].range.count - 1 :
                   /\ queries[i].status = "success"
                   /\ p = queries[i].range.startTick + j * resolution
                   /\ data[p] = queries[i].data[j]
    BY <2>1, <2>5, GatheredAre
  <2>10. \A p : p \in Points(range, resolution) <=> \E u \in a .. b - 1 : p = u * resolution
    BY <2>1, <2>5, PointsAre
  <2> HIDE DEF gaps, data, C, a, b
  <2>11. ASSUME NEW gap \in gaps
         PROVE  \A p : p \in Points(gap, resolution)
                   <=> \E u \in a .. b - 1 : Within(u, gap, resolution) /\ p = u * resolution
    <3> DEFINE f == From(gap, resolution)
               t == To(gap, resolution)
    <3>1. gap \in GridRanges(resolution) /\ a <= f /\ t <= b
      BY <2>8
    <3>2. f \in Nat /\ t \in Nat
      BY <2>1, <3>1, OnGrid
    <3>3. \A p : p \in Points(gap, resolution) <=> \E u \in f .. t - 1 : p = u * resolution
      BY <2>1, <3>1, PointsAre
    <3> HIDE DEF f, t
    <3>4. \A u : u \in f .. t - 1 <=> u \in a .. b - 1 /\ f <= u /\ u < t
      BY <2>6, <3>1, <3>2
    <3>5. \A u : Within(u, gap, resolution) <=> f <= u /\ u < t
      BY DEF Within, f, t
    <3> QED
      BY <3>3, <3>4, <3>5
  <2>12. DOMAIN data \subseteq Points(range, resolution)
    BY <2>9, <2>10
  <2>13. \A gap \in gaps : Points(gap, resolution) \subseteq Points(range, resolution)
    BY <2>10, <2>11
  <2>14. ASSUME NEW p \in Points(range, resolution)
         PROVE  p \in DOMAIN data \/ \E gap \in gaps : p \in Points(gap, resolution)
    <3>1. PICK u \in a .. b - 1 : p = u * resolution
      BY <2>10
    <3>2. CASE \E gap \in gaps : Within(u, gap, resolution)
      BY <2>11, <3>1, <3>2
    <3>3. CASE \E k \in DOMAIN C : Within(u, C[k].range, resolution)
      BY <2>9, <3>1, <3>3
    <3> QED
      BY <2>8, <3>2, <3>3
  <2>15. Points(range, resolution) = DOMAIN data \cup UNION { Points(gap, resolution) : gap \in gaps }
    BY <2>12, <2>13, <2>14
  <2>16. gaps = {} => DOMAIN ChartData(width) = Points(range, resolution)
    BY <2>4, <2>15
  <2>17. ASSUME NEW tick \in DOMAIN data, ~Torn(tick)
         PROVE  data[tick] \in Told(tick, resolution)
    <3>0. PICK i \in DOMAIN queries : \E j \in 0 .. queries[i].range.count - 1 :
              /\ queries[i].status = "success"
              /\ tick = queries[i].range.startTick + j * resolution
              /\ data[tick] = queries[i].data[j]
      BY <2>9
    <3>1. PICK j \in 0 .. queries[i].range.count - 1 :
              /\ queries[i].status = "success"
              /\ tick = queries[i].range.startTick + j * resolution
              /\ data[tick] = queries[i].data[j]
      BY <3>0
    <3>2. tick \in Points(queries[i].range, resolution)
      BY <3>1 DEF Points
    <3>3. ~queries[i].torn
      BY <2>17, <3>2 DEF Torn
    <3> QED
      BY <2>1, <3>1, <3>3, AskIs DEF Faithful
  <2>18. ASSUME NEW gap \in gaps, range.count > 0
         PROVE  /\ gap.count > 0
                /\ \/ Accepted(gap, serverTick, resolution)
                   \/ /\ gap.startTick < Oldest(serverTick, resolution)
                      /\ currentTick \div resolution < serverTick \div resolution
    <3> DEFINE f == From(gap, resolution)
               t == To(gap, resolution)
               c == gap.count
    <3>1. gap \in GridRanges(resolution) /\ a <= f /\ t <= b /\ c > 0
      BY <2>8, <2>18
    <3>2. /\ f \in Nat /\ t \in Nat /\ c \in Nat /\ c = t - f
          /\ gap.startTick = f * resolution
      BY <2>1, <3>1, OnGrid
    <3> HIDE DEF f, t, c
    <3>3. /\ t * resolution <= b * resolution /\ f * resolution < t * resolution
          /\ a * resolution <= f * resolution
      BY <2>1, <2>6, <3>1, <3>2, TimesLess
    <3>4. /\ f * resolution \in Int /\ t * resolution \in Int /\ b * resolution \in Int
          /\ a * resolution \in Int
      BY <2>1, <2>6, <3>2
    <3>5. t * resolution <= serverTick /\ f * resolution < serverTick
      BY <2>1, <2>5, <3>3, <3>4 DEF b
    <3>6. c * resolution = t * resolution - f * resolution
      BY <2>1, <3>2, TimesSum
    <3>7. c * resolution <= serverTick - f * resolution /\ serverTick - f * resolution \in Int
      BY <2>1, <3>4, <3>5, <3>6
    <3>8. c <= (serverTick - f * resolution) \div resolution
      BY <2>1, <3>2, <3>7, DividedAtLeast
    <3>9. (f * resolution) % resolution = 0
      BY <2>1, <3>2
    <3>10. gap.startTick >= Oldest(serverTick, resolution) => Accepted(gap, serverTick, resolution)
      BY <3>2, <3>5, <3>8, <3>9 DEF Accepted, c
    <3>11. Oldest(serverTick, resolution) \in Int
      BY <2>1, ChartAssumption DEF ChartAssumption, Oldest, Largest
    <3>12. \/ gap.startTick >= Oldest(serverTick, resolution)
           \/ currentTick \div resolution < serverTick \div resolution
      BY <2>7, <2>18, <3>2, <3>3, <3>4, <3>11
    <3> QED
      BY <3>1, <3>2, <3>4, <3>10, <3>11, <3>12 DEF c
  <2>19. ASSUME range.count > 0, NEW gap \in gaps
         PROVE  /\ gap.count > 0 /\ Points(gap, resolution) \subseteq Points(range, resolution)
                /\ AskedFor(queries, gap)
                /\ \/ Accepted(gap, serverTick, resolution)
                   \/ /\ gap.startTick < Oldest(serverTick, resolution)
                      /\ currentTick \div resolution < serverTick \div resolution
    BY <2>2, <2>13, <2>18, <2>19
  <2> QED
    BY <2>12, <2>15, <2>16, <2>17, <2>19 DEF range, gaps, data
<1> QED
  BY <1>1, <1>2, <1>3, PTL DEF Spec
=============================================================================
