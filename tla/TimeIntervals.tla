--------------------------- MODULE TimeIntervals ---------------------------
(***************************************************************************)
(* Intervals of time with an inclusive start and an exclusive end          *)
(* (internal/utils/time_interval.go) and the grid of time buckets of the   *)
(* Cassandra query runner (time_util.go).  An instant is a natural         *)
(* number: the nanoseconds are scaled down, which none of the comparisons  *)
(* notices.                                                                *)
(***************************************************************************)
EXTENDS Integers

Interval(s, e) == [start |-> s, end |-> e]

\* What NewTimeInterval accepts.
Intervals == {i \in [start : Nat, end : Nat] : i.start <= i.end}

Within(i, t) == i.start <= t /\ t < i.end

Overlap(i, j) ==
    /\ i.end # j.start /\ j.end # i.start
    /\ ~(i.start < j.start /\ i.end < j.start)
    /\ ~(j.start < i.start /\ j.end < i.start)

\* time.Time.Truncate.
Truncate(t, window) == t - (t % window)

\* bucketTimeIntervals: the loop adds window to the truncated start while it is
\* before the end.
Buckets(start, end, window) ==
    LET first == Truncate(start, window)
    IN  {Interval(s, s + window) : s \in {t \in first..(end - 1) : (t - first) % window = 0}}

\* RandWindow: a start at random from i.start up to, exclusive, the last one that
\* leaves room for the window.  There is none (an error) when the window fills i.
RandWindows(i, window) ==
    {Interval(s, s + window) : s \in i.start..(i.end - window - 1)}
=============================================================================
