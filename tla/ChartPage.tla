------------------------------ MODULE ChartPage ------------------------------
(***************************************************************************)
(* The charts of the game.  A chart shows the last points before the       *)
(* current tick, gathered from whatever answers the cache holds for it,     *)
(* and asks for what they leave out.  Charts of different widths share the  *)
(* cache.  The server answers with no lock held, in the middle of a tick    *)
(* too: it joins what it saved to a file, every Block ticks, to the end of  *)
(* a buffer of the last BufferLength ticks.                                *)
(*                                                                         *)
(* A tick is a Nat and Undefined before the page knows it.  The value of a *)
(* point is the tick from which its data are, NoValue if it shows zero for  *)
(* want of data or takes in what was before the game.                      *)
(***************************************************************************)
EXTENDS Integers, SequencesExt, Places

CONSTANTS
    Resolutions,   \* how many ticks a point may cover
    Widths,        \* how many points each of the mounted charts shows at most
    MaxDatapoints, \* how many points the server looks back
    Block,         \* how many ticks are saved at a time
    BufferLength,  \* how many ticks the buffer holds
    FirstTicks,    \* the server's ticks when the page may open
    LastTicks,     \* bound: the ticks with which a behaviour ends
    MaxSpan,       \* bound: the moments from the first read for an answer to the last
    MaxMishaps     \* bound: answers lost or dropped

ASSUME ChartAssumption ==
    /\ Resolutions \subseteq Nat \ {0} /\ MaxDatapoints \in Nat
    /\ Widths \subseteq 1 .. MaxDatapoints
    /\ Block \in Nat \ {0} /\ BufferLength \in Nat /\ Block <= BufferLength
    /\ \A res \in Resolutions : Block % res = 0 \/ res % Block = 0
    /\ FirstTicks \subseteq Nat /\ LastTicks \subseteq Nat /\ MaxSpan \in Nat /\ MaxMishaps \in Nat

VARIABLES
    resolution,
    moment,        \* how far the server is: three moments to a tick
    initialTick,   \* the first read of the tick: [stage, tick]
    tickEvents,    \* the ticks told to the page and not handled yet
    currentTick,   \* as the page knows it
    queries,       \* the cache, in the order the queries were made, each
                   \* [range, status, since, data, torn]: torn, if its reads did not
                   \* all fall between the same two ticks
    mishaps        \* so far

chartVars == <<resolution, moment, initialTick, tickEvents, currentTick, queries, mishaps>>

Undefined       == 0   \* a page at tick 0 behaves as one that does not know the tick
InitialTickDone == [stage |-> "done", tick |-> Undefined]
NoValue         == -1
Unreadable      == -1  \* a file that is being written

Largest(a, b)  == IF a >= b THEN a ELSE b
Smallest(a, b) == IF a <= b THEN a ELSE b
EndTick(range, res) == range.startTick + range.count * res

\* The points a chart of maxDatapoints shows at tick t.
computeRange(t, res, maxDatapoints) ==
    IF t = Undefined THEN [startTick |-> 0, count |-> 0]
    ELSE LET start == res * Largest(0, t \div res - maxDatapoints)
         IN  [startTick |-> start, count |-> (t - start) \div res]

Overlaps(cached, range, res) ==
    EndTick(cached, res) > range.startTick /\ cached.startTick < EndTick(range, res)

NoLater(cache, j, i) ==
    LET start(k) == cache[k].range.startTick
    IN  start(j) < start(i) \/ (start(j) = start(i) /\ j <= i)

\* The ranges answered that overlap with range, by their start and then by their age.
getCachedChartRanges(cache, range, res) ==
    LET found  == { i \in DOMAIN cache :
                      cache[i].status = "success" /\ Overlaps(cache[i].range, range, res) }
        sorted == Arranged(cache, [i \in found |-> { j \in found : NoLater(cache, j, i) }])
    IN  IF range.count = 0 THEN <<>> ELSE sorted

Between(from, to, res) == [startTick |-> from, count |-> (to - from) \div res]

\* What the answers leave out of range: before each of them, and after the last.
getCacheGaps(cache, range, res) ==
    LET cached  == getCachedChartRanges(cache, range, res)
        from(k) == IF k = 1 THEN range.startTick ELSE EndTick(cached[k - 1].range, res)
        to(k)   == IF k > Len(cached) THEN EndTick(range, res) ELSE cached[k].range.startTick
    IN  IF cached = <<>> THEN {range}
        ELSE { Between(from(k), to(k), res) : k \in { k \in 1 .. Len(cached) + 1 : from(k) < to(k) } }

\* The points of an answer that fall within range.
IndicesIn(cached, range, res) ==
    LET start == cached.startTick
    IN  (Largest(start, range.startTick) - start) \div res ..
            (Smallest(EndTick(cached, res), EndTick(range, res)) - start) \div res - 1

PointsIn(cached, range, res) ==
    { cached.startTick + i * res : i \in IndicesIn(cached, range, res) }

\* A slip: the tick of a point is counted from the start of the chart.
AggregateFromStart(cache, range, res) ==
    LET found    == getCachedChartRanges(cache, range, res)
        index(t) == (t - range.startTick) \div res
        ticks(k) == { range.startTick + i * res : i \in IndicesIn(found[k].range, range, res) }
    IN  [tick \in UNION { ticks(k) : k \in DOMAIN found } |->
            found[Max({ k \in DOMAIN found : tick \in ticks(k) })].data[index(tick)]]

\* What is shown of range: where answers overlap, the last one has the word.
aggregateChartData(cache, range, res) ==
    LET found        == getCachedChartRanges(cache, range, res)
        ticks(k)     == PointsIn(found[k].range, range, res)
        value(k, tick) == found[k].data[(tick - found[k].range.startTick) \div res]
    IN  [tick \in UNION { ticks(k) : k \in DOMAIN found } |->
            value(Max({ k \in DOMAIN found : tick \in ticks(k) }), tick)]

AskedFor(cache, range) == \E i \in DOMAIN cache : cache[i].range = range

Question(range) ==
    [range |-> range, status |-> "asked", since |-> moment, data |-> <<>>, torn |-> FALSE]

\* Every chart is drawn again, in whatever order they are mounted: each asks for what it
\* leaves out, unless that was asked for before.
Rendered(cache, t, res) ==
    LET gaps == UNION { getCacheGaps(cache, computeRange(t, res, width), res) : width \in Widths }
    IN  cache \o SetToSeq({ Question(gap) : gap \in { g \in gaps : ~AskedFor(cache, g) } })

ChartInit ==
    /\ resolution \in Resolutions
    /\ \E first \in FirstTicks : moment = 3 * first + 2
    /\ initialTick = [stage |-> "asked", tick |-> Undefined]
    /\ tickEvents = <<>>
    /\ currentTick = Undefined
    /\ queries = Rendered(<<>>, Undefined, resolution)
    /\ mishaps = 0

-----------------------------------------------------------------------------
\* What the server has at a moment: a tick is counted, then what was recorded before
\* it is saved if a block is full, then the tick is recorded.
TickAt(m)       == m \div 3
BetweenTicks(m) == m % 3 = 2
RecordedAt(m)   == IF BetweenTicks(m) THEN TickAt(m) ELSE TickAt(m) - 1
BlockStart(t)   == t - (t % Block)
SavedAt(m)      == BlockStart(IF m % 3 = 0 THEN TickAt(m) - 1 ELSE TickAt(m))
FilesAt(m)      == {SavedAt(m)} \cup
                       IF m % 3 = 0 /\ TickAt(m) % Block = 0 THEN {Unreadable} ELSE {}
serverTick      == TickAt(moment)

Oldest(now, res) == Largest(0, (now \div res - MaxDatapoints) * res)

\* The ranges the server does not refuse at tick now.
Accepted(range, now, res) ==
    /\ range.startTick % res = 0
    /\ range.startTick < now /\ range.startTick >= Oldest(now, res)
    /\ range.count <= (now - range.startTick) \div res

\* The end of the buffer is as long as the block that is not full at tick t; the end
\* that has no length is the whole of it.
FreshTicks(t) == IF t % Block = 0 THEN BufferLength ELSE t % Block

\* The point of range at tick, from what was read: the tick, then the buffer, then the
\* tick again, then the file.  Counting back from the block's start the file's points
\* are those before the tick that saved it, and what is before its first is not found.
PointAt(range, tick, read, res) ==
    LET start == BlockStart(read.now)
        back  == (tick - start) \div res
        fresh == FreshTicks(read.total)
    IN  IF tick < start
        THEN IF read.saved = Unreadable \/ (range.startTick - start) \div res < -MaxDatapoints
             THEN NoValue
             ELSE Largest(NoValue, (read.saved \div res + back) * res - 1)
        ELSE IF tick + res - start <= fresh
             THEN Largest(NoValue, read.recorded - fresh + tick - start)
             ELSE NoValue

Series(range, read, res) ==
    [i \in 0 .. range.count - 1 |-> PointAt(range, range.startTick + i * res, read, res)]

-----------------------------------------------------------------------------
\* The server's tick: it is counted, ...
TickBegins ==
    /\ BetweenTicks(moment) /\ serverTick \notin LastTicks
    /\ moment' = moment + 1
    /\ UNCHANGED <<resolution, initialTick, tickEvents, currentTick, queries, mishaps>>

\* ... the block before it is saved, ...
TickSaved ==
    /\ moment % 3 = 0
    /\ moment' = moment + 1
    /\ UNCHANGED <<resolution, initialTick, tickEvents, currentTick, queries, mishaps>>

\* ... and it is recorded and told, if the page is connected.
TickEnds ==
    /\ moment % 3 = 1
    /\ moment' = moment + 1
    /\ tickEvents' \in {tickEvents, Append(tickEvents, serverTick)}
    /\ UNCHANGED <<resolution, initialTick, currentTick, queries, mishaps>>

\* The page is told.  The answers nothing has used for some minutes are dropped
\* meanwhile.
TickEvent ==
    /\ tickEvents # <<>>
    /\ tickEvents' = Tail(tickEvents)
    /\ currentTick' = Head(tickEvents)
    /\ \E dropped \in SUBSET { i \in DOMAIN queries : queries[i].status = "success" } :
           /\ mishaps' = mishaps + Cardinality(dropped) /\ mishaps' <= MaxMishaps
           /\ queries' = Rendered(Picked(queries, DOMAIN queries \ dropped), Head(tickEvents), resolution)
    /\ UNCHANGED <<resolution, moment, initialTick>>

InitialTickAnswered ==
    /\ initialTick.stage = "asked"
    /\ initialTick' = [stage |-> "answered", tick |-> serverTick]
    /\ UNCHANGED <<resolution, moment, tickEvents, currentTick, queries, mishaps>>

\* The first answer is taken whenever it comes, after a later tick event as well.
InitialTickLands ==
    /\ initialTick.stage = "answered"
    /\ currentTick' = initialTick.tick
    /\ queries' = Rendered(queries, initialTick.tick, resolution)
    /\ initialTick' = InitialTickDone
    /\ UNCHANGED <<resolution, moment, tickEvents, mishaps>>

InitialTickFails ==
    /\ initialTick # InitialTickDone
    /\ initialTick' = InitialTickDone
    /\ UNCHANGED <<resolution, moment, tickEvents, currentTick, queries, mishaps>>

\* Question i is settled, and the charts are drawn again.
Settled(i, status, data, torn) ==
    /\ queries' = Rendered([queries EXCEPT ![i] = [range |-> @.range, status |-> status, since |-> 0,
                                                  data |-> data, torn |-> torn]],
                           currentTick, resolution)
    /\ UNCHANGED <<resolution, moment, initialTick, tickEvents, currentTick>>

\* What the four reads for one answer may find, each what the server has at its moment.
Reads(since) ==
    LET span(m)  == m .. Smallest(moment, m + MaxSpan)
        ordered  == { m \in UNION { [1 .. 4 -> span(first)] : first \in since .. moment } :
                        m[1] <= m[2] /\ m[2] <= m[3] /\ m[3] <= m[4] }
    IN  UNION { { [total |-> TickAt(m[1]), recorded |-> RecordedAt(m[2]), now |-> TickAt(m[3]),
                   saved |-> saved, torn |-> ~(m[1] = m[4] /\ BetweenTicks(m[1]))] :
                     saved \in FilesAt(m[4]) } : m \in ordered }

\* A range is answered, ...
ChartAnswer(i) ==
    LET range == queries[i].range
        reads == { read \in Reads(queries[i].since) : Accepted(range, read.now, resolution) }
    IN  /\ queries[i].status = "asked"
        /\ \E answer \in { [data |-> Series(range, read, resolution), torn |-> read.torn] : read \in reads } :
               Settled(i, "success", answer.data, answer.torn)
        /\ UNCHANGED mishaps

\* ... or the server refuses it, ...
ChartRefused(i) ==
    /\ queries[i].status = "asked"
    /\ \E m \in queries[i].since .. moment : ~Accepted(queries[i].range, TickAt(m), resolution)
    /\ Settled(i, "error", <<>>, FALSE)
    /\ UNCHANGED mishaps

\* ... or the answer is lost.
ChartLost(i) ==
    /\ queries[i].status = "asked" /\ mishaps < MaxMishaps
    /\ Settled(i, "error", <<>>, FALSE)
    /\ mishaps' = mishaps + 1

\* A chart that is mounted again asks again for what failed.
AskAgain(i) ==
    /\ queries[i].status = "error"
    /\ queries' = [queries EXCEPT ![i] = Question(queries[i].range)]
    /\ UNCHANGED <<resolution, moment, initialTick, tickEvents, currentTick, mishaps>>

ChartNext ==
    \/ TickBegins \/ TickSaved \/ TickEnds \/ TickEvent
    \/ InitialTickAnswered \/ InitialTickLands \/ InitialTickFails
    \/ \E i \in DOMAIN queries :
           ChartAnswer(i) \/ ChartRefused(i) \/ ChartLost(i) \/ AskAgain(i)

-----------------------------------------------------------------------------
\* What useChartData shows, and whether it waits for more.
Waits(width) ==
    \E gap \in getCacheGaps(queries, computeRange(currentTick, resolution, width), resolution) :
        \E i \in DOMAIN queries : queries[i].range = gap /\ queries[i].status = "asked"

ChartData(width) ==
    LET before   == IF currentTick = Undefined THEN Undefined ELSE currentTick - 1
        range    == computeRange(currentTick, resolution, width)
        fallback == aggregateChartData(queries, computeRange(before, resolution, width), resolution)
    IN  IF Waits(width) /\ DOMAIN fallback # {} THEN fallback
        ELSE aggregateChartData(queries, range, resolution)
=============================================================================
