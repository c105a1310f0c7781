----------------------------- MODULE Intervals -----------------------------
(***************************************************************************)
(* Interval arithmetic (core/interval.ts): half-open ranges of time,       *)
(* aligned to a model's grain.  Time is a count of the finest grain; the   *)
(* grain of a model is a number of those.  A list of intervals the code    *)
(* keeps sorted and free of duplicates is a set here.                      *)
(***************************************************************************)
EXTENDS Integers

Interval(s, e) == [start |-> s, end |-> e]

FloorTo(unit, t) == (t \div unit) * unit

Least(a, b) == IF a < b THEN a ELSE b

\* The starts of the steps from one time to before another.
Starts(from, to, step) == {s \in from .. to - 1 : (s - from) % step = 0}

\* The intervals that have ended; the first one holds the start.
EnumerateIntervals(unit, start, now) ==
    {Interval(s, s + unit) : s \in Starts(FloorTo(unit, start), FloorTo(unit, now), unit)}

MissingIntervals(wanted, covered) ==
    {i \in wanted : \A j \in covered : j.start # i.start}

\* Adjacent intervals become one range.
MergeIntervals(intervals) ==
    LET first == {i \in intervals : \A x \in intervals : x.end # i.start}
        last == {j \in intervals : \A x \in intervals : x.start # j.end}
        \* Nothing between the two ends a range.
        Joined(i, j) == /\ i.start <= j.start
                        /\ \A x \in last : ~(i.start <= x.start /\ x.start < j.start)
    IN {Interval(p[1].start, p[2].end) : p \in {q \in first \X last : Joined(q[1], q[2])}}

\* The batches of a range, each of at most size intervals.
SplitIntoBatches(range, unit, size) ==
    {Interval(s, Least(s + unit * size, range.end)) :
        s \in Starts(range.start, range.end, unit * size)}

IntervalsWithin(range, unit) == SplitIntoBatches(range, unit, 1)
=============================================================================
