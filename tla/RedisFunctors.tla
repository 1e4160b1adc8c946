--------------------------- MODULE RedisFunctors ---------------------------
(***************************************************************************)
(* What a client makes of the series a RedisTimeSeries server returns      *)
(* (query/redistimeseries_functors.go): series merged into rows by time,   *)
(* or reduced to one by their maximum or mean, for each value of a label.  *)
(*                                                                         *)
(* A series is [labels, points]: a function of labels, and a sequence of   *)
(* <<time, value>>, oldest first.  A merged result is [labels, rows], where*)
(* rows maps a time to a value for each series: a sequence of one value,   *)
(* or of none for nil.                                                     *)
(***************************************************************************)
EXTENDS Integers, Sequences, FiniteSets, SequencesExt, FiniteSetsExt, Functions

CONSTANTS Responses,    \* the responses of the server: sequences of series
          Threshold     \* of HighCpu, 90

VARIABLES
    conf,       \* the functor, and the response
    result      \* what the functor returns, [kind |-> "none"] before

vars == <<conf, result>>

\* The functors, and the reducer to means, which no functor uses, by itself.
Functors == {"SingleGroupByTime", "GroupByTimeAndMax", "AvgReducer",
             "GroupByTimeAndTagMax", "GroupByTimeAndTagHostname", "HighCpu"}

NoLabels == <<>>
Has(serie, name) == name \in DOMAIN serie.labels
Times(points) == {points[k][1] : k \in DOMAIN points}
-----------------------------------------------------------------------------
\* Slip: a later series begins the row of a time again.
RowAnew(rows, time, idx, value, n) ==
    [i \in 1..n |-> IF i = idx THEN <<value>> ELSE <<>>]

\* The row of a time with the value of a series: the row there is, or one of nils.
RowWith(rows, time, idx, value, n) ==
    [(IF time \in DOMAIN rows THEN rows[time] ELSE [i \in 1..n |-> <<>>]) EXCEPT ![idx] = <<value>>]

\* MergeSeriesOnTimestamp: all points of the first series, then those of the next.
MergeSeriesOnTimestamp(series) ==
    LET n == Len(series)
        Put(rows, idx, point) ==
            (point[1] :> RowWith(rows, point[1], idx, point[2], n)) @@ rows
        upTo[i \in 0..n] ==
            IF i = 0 THEN <<>>
            ELSE FoldLeft(LAMBDA rows, point : Put(rows, i, point), upTo[i - 1], series[i].points)
    IN  [kind |-> "merged", labels |-> [i \in 1..n |-> series[i].labels], rows |-> upTo[n]]

\* A reducer keeps the sum, the number and the maximum for each time.
Cell(cells, point) ==
    IF point[1] \in DOMAIN cells
    THEN LET c == cells[point[1]]
         IN  [sum |-> c.sum + point[2], count |-> c.count + 1, max |-> Max({c.max, point[2]})]
    ELSE [sum |-> point[2], count |-> 1, max |-> point[2]]

Cells(series) ==
    LET upTo[i \in 0..Len(series)] ==
            IF i = 0 THEN <<>>
            ELSE FoldLeft(LAMBDA cells, p : (p[1] :> Cell(cells, p)) @@ cells, upTo[i - 1], series[i].points)
    IN  upTo[Len(series)]

Sorted(times) == SetToSortSeq(times, LAMBDA s, t : s < t)

\* MaxReducerSeriesDatapoints and AvgReducerSeriesDatapoints.  The means are floats; here they
\* are of values whose means are whole.
MaxOf(cell) == cell.max
AvgOf(cell) == cell.sum \div cell.count

\* Either gives a series without labels.
Reduce(series, reducer) ==
    LET cells == Cells(series)
        times == Sorted(DOMAIN cells)
        Value(t) == IF reducer = "max" THEN MaxOf(cells[t]) ELSE AvgOf(cells[t])
    IN  [labels |-> NoLabels, points |-> [k \in DOMAIN times |-> <<times[k], Value(times[k])>>]]

\* ReduceSeriesOnTimestampBy: a single series stays as it is, labels and all.
ReduceSeriesOnTimestampBy(series, reducer) ==
    CASE Len(series) = 0 -> [labels |-> NoLabels, points |-> <<>>]
      [] Len(series) = 1 -> series[1]
      [] OTHER -> Reduce(series, reducer)
-----------------------------------------------------------------------------
FilterRangesByLabelValue(series, name, value) ==
    SelectSeq(series, LAMBDA s : Has(s, name) /\ s.labels[name] = value)

GetUniqueLabelValue(series, name) ==
    {s.labels[name] : s \in {r \in ToSet(series) : Has(r, name)}}

\* The last series with the label; 0 (the code's -1) when there is none.
ThresholdIdx(labels, name, value) ==
    Max({0} \cup {i \in DOMAIN labels : name \in DOMAIN labels[i] /\ labels[i][name] = value})

\* FilterRangesByThresholdAbove: panics (index out of range) when rows have no such series.
FilterRangesByThresholdAbove(merged, name, value) ==
    LET idx == ThresholdIdx(merged.labels, name, value)
        High(t) == merged.rows[t][idx] # <<>> /\ merged.rows[t][idx][1] > Threshold
    IN  IF idx = 0 /\ DOMAIN merged.rows # {} THEN [kind |-> "panic"]
        ELSE [merged EXCEPT !.rows = Restrict(@, {t \in DOMAIN @ : High(t)})]

ByHostname(series, h) == MergeSeriesOnTimestamp(FilterRangesByLabelValue(series, "hostname", h))

HighOf(series, h) == FilterRangesByThresholdAbove(ByHostname(series, h), "fieldname", "usage_user")

\* The columns come in the order of a Go map, which is any.
GroupByTimeAndTagMax(series) ==
    LET OfField(f) == ReduceSeriesOnTimestampBy(FilterRangesByLabelValue(series, "fieldname", f), "max")
    IN  {MergeSeriesOnTimestamp([k \in DOMAIN order |-> OfField(order[k])]) :
            order \in SetToSeqs(GetUniqueLabelValue(series, "fieldname"))}

\* The hosts' results come in any order too.
GroupByTimeAndTagHostname(series) ==
    [kind |-> "hosts", of |-> {ByHostname(series, h) : h \in GetUniqueLabelValue(series, "hostname")}]

HighCpu(series) ==
    LET high == {HighOf(series, h) : h \in GetUniqueLabelValue(series, "hostname")}
    IN  IF \E m \in high : m.kind = "panic" THEN [kind |-> "panic"]
        ELSE [kind |-> "hosts", of |-> {m \in high : DOMAIN m.rows # {}}]

\* What a functor may return.
Results(functor, series) ==
    CASE functor = "SingleGroupByTime" -> {MergeSeriesOnTimestamp(series)}
      [] functor = "GroupByTimeAndMax" ->
            {[kind |-> "serie", of |-> ReduceSeriesOnTimestampBy(series, "max")]}
      [] functor = "AvgReducer" ->
            {[kind |-> "serie", of |-> ReduceSeriesOnTimestampBy(series, "avg")]}
      [] functor = "GroupByTimeAndTagMax" -> GroupByTimeAndTagMax(series)
      [] functor = "GroupByTimeAndTagHostname" -> {GroupByTimeAndTagHostname(series)}
      [] functor = "HighCpu" -> {HighCpu(series)}

Init ==
    /\ conf \in [functor : Functors, series : Responses]
    /\ result = [kind |-> "none"]

Next ==
    /\ result.kind = "none"
    /\ result' \in Results(conf.functor, conf.series)
    /\ UNCHANGED conf
-----------------------------------------------------------------------------
(* What must hold. *)

\* The points of a set of series at a time, the times they have, and their reductions.
ValuesAt(S, t) == {p[2] : p \in {q \in UNION {ToSet(s.points) : s \in S} : q[1] = t}}
AllTimes(S) == UNION {Times(s.points) : s \in S}
Maxima(S) == {<<t, Max(ValuesAt(S, t))>> : t \in AllTimes(S)}
Mean(series, t) ==
    LET of == SelectSeq(series, LAMBDA s : t \in Times(s.points))
    IN  FoldLeft(LAMBDA sum, s : sum + CHOOSE v \in ValuesAt({s}, t) : TRUE, 0, of) \div Len(of)

Column(m, i) == {<<t, m.rows[t][i][1]>> : t \in {u \in DOMAIN m.rows : m.rows[u][i] # <<>>}}

\* A column for each series, with its labels, in rows by time.
IsMergeOf(m, series) ==
    /\ m.labels = [i \in DOMAIN series |-> series[i].labels]
    /\ DOMAIN m.rows = AllTimes(ToSet(series))
    /\ \A i \in DOMAIN series : Column(m, i) = ToSet(series[i].points)

\* The times at which usage_user is high in the series of a host.
HighTimes(series) ==
    LET user == {s \in ToSet(series) : s.labels["fieldname"] = "usage_user"}
    IN  {t \in AllTimes(user) : Max(ValuesAt(user, t)) > Threshold}

\* The rows of a merge at those times.
IsHighOf(m, series) ==
    /\ m.labels = [i \in DOMAIN series |-> series[i].labels]
    /\ DOMAIN m.rows = HighTimes(series)
    /\ \A i \in DOMAIN series : Column(m, i) = {p \in ToSet(series[i].points) : p[1] \in DOMAIN m.rows}

OfHost(h) == SelectSeq(conf.series, LAMBDA s : s.labels["hostname"] = h)
AllHosts == {s.labels["hostname"] : s \in ToSet(conf.series)}
OfField(f) == {s \in ToSet(conf.series) : s.labels["fieldname"] = f}
Fields == {s.labels["fieldname"] : s \in ToSet(conf.series)}

\* A functor returns what the query stands for, whatever times the series have and miss and
\* in whatever order they come: rows by time, the maxima by time, for each field or host.  The
\* columns of reduced series are in no order; and a host without usage_user ends HighCpu with
\* a panic.
FunctorsRight ==
    result.kind # "none" =>
        CASE conf.functor = "SingleGroupByTime" -> IsMergeOf(result, conf.series)
          [] conf.functor = "GroupByTimeAndMax" -> ToSet(result.of.points) = Maxima(ToSet(conf.series))
          [] conf.functor = "AvgReducer" ->
                ToSet(result.of.points) = {<<t, Mean(conf.series, t)>> : t \in AllTimes(ToSet(conf.series))}
          [] conf.functor = "GroupByTimeAndTagMax" ->
                \E order \in SetToSeqs(Fields) :
                    \A i \in DOMAIN order : Column(result, i) = Maxima(OfField(order[i]))
          [] conf.functor = "GroupByTimeAndTagHostname" ->
                /\ \A m \in result.of : \E h \in AllHosts : IsMergeOf(m, OfHost(h))
                /\ \A h \in AllHosts : \E m \in result.of : IsMergeOf(m, OfHost(h))
          [] conf.functor = "HighCpu" ->
                \/ /\ result.kind = "panic"
                   /\ \E h \in AllHosts : \A s \in ToSet(OfHost(h)) : s.labels["fieldname"] # "usage_user"
                \/ /\ result.kind = "hosts"
                   /\ \A m \in result.of : DOMAIN m.rows # {} /\ \E h \in AllHosts : IsHighOf(m, OfHost(h))
                   /\ \A h \in AllHosts : HighTimes(OfHost(h)) # {} => \E m \in result.of : IsHighOf(m, OfHost(h))
=============================================================================
