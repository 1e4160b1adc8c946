---------------------------- MODULE QueryTexts ----------------------------
(***************************************************************************)
(* What the queries that tsbs_generate_queries writes for each database    *)
(* ask (cmd/tsbs_generate_queries/databases).  A text is abstracted to a   *)
(* question: which rows it reads, how it groups and reduces them, and      *)
(* which of the results it takes.  The names a database gives to a host or *)
(* a column, which of the two ends of a window belongs to it, and the      *)
(* order of results that are all taken are left out.                       *)
(*                                                                         *)
(* t is a query type (see QueryGeneration), d the window, hosts and fleet  *)
(* drawn for one query of it.  Time is in nanoseconds, of which there may  *)
(* be fewer to a second than in the world.                                 *)
(***************************************************************************)
EXTENDS TimeIntervals

CONSTANTS
    Micro, Milli, Second, \* nanoseconds of each
    DataStart,            \* --timestamp-start
    Forever,              \* later than any data
    NumMetrics            \* len(cpuMetrics)

ASSUME CalendarAssumption ==
    /\ {Micro, Milli, Second, NumMetrics} \subseteq Nat \ {0}
    /\ Milli % Micro = 0 /\ Second % Milli = 0
    /\ DataStart \in Nat /\ Forever \in Nat /\ DataStart <= Forever

Minute == 60 * Second
Hour == 60 * Minute

\* A question that names no time.
Always == Interval(DataStart, Forever)

\* A bound printed with a resolution loses what is below it.
Printed(w, resolution) == Interval(Truncate(w.start, resolution), Truncate(w.end, resolution))

\* Rows of any time and host, neither grouped nor reduced.
Rows == [from |-> "cpu", during |-> Always, hosts |-> {}, fleet |-> {}, where |-> "true",
         metrics |-> NumMetrics, reduce |-> "none", every |-> 0, per |-> "nothing",
         take |-> <<"all">>, having |-> <<"true">>, docs |-> {}]

\* The results a question takes, in the order of time.
Newest(n) == <<"newest", n>>
Oldest(n) == <<"oldest", n>>

Before(w) == Interval(DataStart, w.end)

\* The shapes of the devops questions.
MaxPerTime(metrics, every, w, hosts) ==
    [Rows EXCEPT !.metrics = metrics, !.reduce = "max", !.every = every, !.per = "time",
                 !.hosts = hosts, !.during = w]

MeanPerHostAndHour(metrics, w) ==
    [Rows EXCEPT !.metrics = metrics, !.reduce = "mean", !.every = Hour,
                 !.per = "time and host", !.during = w]

NewestMaxima(w) == [MaxPerTime(1, Minute, w, {}) EXCEPT !.take = Newest(5)]

LastRows == [Rows EXCEPT !.per = "host", !.take = Newest(1)]

HighRows(w, hosts) == [Rows EXCEPT !.where = "usage_user > 90", !.hosts = hosts, !.during = w]

\* A text that no row passes, and one that the database refuses: it names a column that the
\* rows it selects from do not have, or divides by a document.
OfNoRows(q) == [q EXCEPT !.where = "false"]
Faulty(q) == [q EXCEPT !.take = <<"error">>]

---------------------------------------------------------------------------
(* TimescaleDB prints microseconds.  tags has the flags that say how the   *)
(* database keeps them in a table of their own, in columns (use-tags) or   *)
(* in JSON (use-json, which most methods ask first).  The hourly means per *)
(* host have no hostname unless they are joined with that table, where the *)
(* text for JSON asks the row and not its tagset; and use-tags, the        *)
(* default, has LastPointPerHost look for columns under JSON too.          *)

TimescaleWindow(w) == Printed(w, Micro)

TimescaleGroupByTime(t, d) ==
    MaxPerTime(t.metrics, Minute, TimescaleWindow(d.window), d.hosts)

TimescaleGroupByTimeAndPrimaryTag(tags, t, d) ==
    LET means == MeanPerHostAndHour(t.metrics, TimescaleWindow(d.window))
    IN  IF tags = {"columns"} THEN means ELSE Faulty(means)

TimescaleMaxAllCPU(d) == MaxPerTime(NumMetrics, Hour, TimescaleWindow(d.window), d.hosts)

\* Slip: the window has its own start.
TimescaleLimitInWindow(d) == NewestMaxima(TimescaleWindow(d.window))

TimescaleGroupByOrderByLimit(d) == NewestMaxima(Before(TimescaleWindow(d.window)))

TimescaleLastPointPerHost(tags) ==
    IF tags = {"columns", "json"} THEN Faulty(LastRows) ELSE LastRows

TimescaleHighCPUForHosts(d) == HighRows(TimescaleWindow(d.window), d.hosts)

TimescaleAsks(tags, t, d) ==
    [GroupByTime |-> TimescaleGroupByTime(t, d),
     GroupByTimeAndPrimaryTag |-> TimescaleGroupByTimeAndPrimaryTag(tags, t, d),
     MaxAllCPU |-> TimescaleMaxAllCPU(d),
     GroupByOrderByLimit |-> TimescaleGroupByOrderByLimit(d),
     LastPointPerHost |-> TimescaleLastPointPerHost(tags),
     HighCPUForHosts |-> TimescaleHighCPUForHosts(d)][t.kind]

---------------------------------------------------------------------------
(* ClickHouse prints seconds.  Without a table of tags, LastPointPerHost   *)
(* is SELECT DISTINCT(hostname), *, which every row passes, and the hourly *)
(* means per host have no hostname to be ordered by.                       *)

ClickhouseWindow(w) == Printed(w, Second)

ClickhouseGroupByTime(t, d) ==
    MaxPerTime(t.metrics, Minute, ClickhouseWindow(d.window), d.hosts)

ClickhouseGroupByTimeAndPrimaryTag(tags, t, d) ==
    LET means == MeanPerHostAndHour(t.metrics, ClickhouseWindow(d.window))
    IN  IF "columns" \in tags THEN means ELSE Faulty(means)

ClickhouseMaxAllCPU(d) == MaxPerTime(NumMetrics, Hour, ClickhouseWindow(d.window), d.hosts)

ClickhouseGroupByOrderByLimit(d) == NewestMaxima(Before(ClickhouseWindow(d.window)))

ClickhouseLastPointPerHost(tags) == IF "columns" \in tags THEN LastRows ELSE Rows

ClickhouseHighCPUForHosts(d) == HighRows(ClickhouseWindow(d.window), d.hosts)

ClickhouseAsks(tags, t, d) ==
    [GroupByTime |-> ClickhouseGroupByTime(t, d),
     GroupByTimeAndPrimaryTag |-> ClickhouseGroupByTimeAndPrimaryTag(tags, t, d),
     MaxAllCPU |-> ClickhouseMaxAllCPU(d),
     GroupByOrderByLimit |-> ClickhouseGroupByOrderByLimit(d),
     LastPointPerHost |-> ClickhouseLastPointPerHost(tags),
     HighCPUForHosts |-> ClickhouseHighCPUForHosts(d)][t.kind]

---------------------------------------------------------------------------
(* A Cassandra query holds its window as two instants; CassandraPlans has  *)
(* what its runner makes of them.  It can choose hosts but has no field to *)
(* keep them apart: its means are over all of them.                        *)

CassandraGroupByTime(t, d) == MaxPerTime(t.metrics, Minute, d.window, d.hosts)

CassandraGroupByTimeAndPrimaryTag(t, d) ==
    [MeanPerHostAndHour(t.metrics, d.window) EXCEPT !.per = "time"]

CassandraMaxAllCPU(d) == MaxPerTime(NumMetrics, Hour, d.window, d.hosts)

CassandraGroupByOrderByLimit(d) == NewestMaxima(Before(d.window))

CassandraLastPointPerHost == LastRows

CassandraHighCPUForHosts(d) == HighRows(d.window, d.hosts)

CassandraAsks(t, d) ==
    [GroupByTime |-> CassandraGroupByTime(t, d),
     GroupByTimeAndPrimaryTag |-> CassandraGroupByTimeAndPrimaryTag(t, d),
     MaxAllCPU |-> CassandraMaxAllCPU(d),
     GroupByOrderByLimit |-> CassandraGroupByOrderByLimit(d),
     LastPointPerHost |-> CassandraLastPointPerHost,
     HighCPUForHosts |-> CassandraHighCPUForHosts(d)][t.kind]

---------------------------------------------------------------------------
(* CrateDB compares with milliseconds.                                     *)

CrateWindow(w) == Printed(w, Milli)

CrateGroupByTime(t, d) == MaxPerTime(t.metrics, Minute, CrateWindow(d.window), d.hosts)

CrateGroupByTimeAndPrimaryTag(t, d) == MeanPerHostAndHour(t.metrics, CrateWindow(d.window))

CrateMaxAllCPU(d) == MaxPerTime(NumMetrics, Hour, CrateWindow(d.window), d.hosts)

CrateGroupByOrderByLimit(d) == NewestMaxima(Before(CrateWindow(d.window)))

CrateLastPointPerHost == LastRows

CrateHighCPUForHosts(d) == HighRows(CrateWindow(d.window), d.hosts)

CrateAsks(t, d) ==
    [GroupByTime |-> CrateGroupByTime(t, d),
     GroupByTimeAndPrimaryTag |-> CrateGroupByTimeAndPrimaryTag(t, d),
     MaxAllCPU |-> CrateMaxAllCPU(d),
     GroupByOrderByLimit |-> CrateGroupByOrderByLimit(d),
     LastPointPerHost |-> CrateLastPointPerHost,
     HighCPUForHosts |-> CrateHighCPUForHosts(d)][t.kind]

---------------------------------------------------------------------------
(* Influx prints seconds.  Its hourly maxima are grouped by time(1m), and  *)
(* its limit is on results in ascending order.                             *)

InfluxWindow(w) == Printed(w, Second)

InfluxGroupByTime(t, d) == MaxPerTime(t.metrics, Minute, InfluxWindow(d.window), d.hosts)

InfluxGroupByTimeAndPrimaryTag(t, d) ==
    MeanPerHostAndHour(t.metrics, InfluxWindow(d.window))

InfluxMaxAllCPU(d) == MaxPerTime(NumMetrics, Minute, InfluxWindow(d.window), d.hosts)

InfluxGroupByOrderByLimit(d) ==
    [NewestMaxima(Before(InfluxWindow(d.window))) EXCEPT !.take = Oldest(5)]

InfluxLastPointPerHost == LastRows

InfluxHighCPUForHosts(d) == HighRows(InfluxWindow(d.window), d.hosts)

InfluxAsks(t, d) ==
    [GroupByTime |-> InfluxGroupByTime(t, d),
     GroupByTimeAndPrimaryTag |-> InfluxGroupByTimeAndPrimaryTag(t, d),
     MaxAllCPU |-> InfluxMaxAllCPU(d),
     GroupByOrderByLimit |-> InfluxGroupByOrderByLimit(d),
     LastPointPerHost |-> InfluxLastPointPerHost,
     HighCPUForHosts |-> InfluxHighCPUForHosts(d)][t.kind]

---------------------------------------------------------------------------
(* SiriDB prints seconds.  It merges hosts for one metric only; its last   *)
(* five minutes end with the minute before the end of the window.          *)

SiriWindow(w) == Printed(w, Second)

SiriGroupByTime(t, d) ==
    [MaxPerTime(t.metrics, Minute, SiriWindow(d.window), d.hosts) EXCEPT
        !.per = IF t.metrics = 1 THEN "time" ELSE "time and host"]

SiriGroupByTimeAndPrimaryTag(t, d) == MeanPerHostAndHour(t.metrics, SiriWindow(d.window))

SiriMaxAllCPU(d) ==
    [MaxPerTime(NumMetrics, Hour, SiriWindow(d.window), d.hosts) EXCEPT !.per = "time and host"]

SiriGroupByOrderByLimit(d) ==
    LET end == SiriWindow(d.window).end
    IN  MaxPerTime(1, Minute, Interval(end - 5 * Minute, Truncate(end, Minute)), {})

SiriLastPointPerHost == LastRows

SiriHighCPUForHosts(d) == [HighRows(SiriWindow(d.window), d.hosts) EXCEPT !.metrics = 1]

SiriAsks(t, d) ==
    [GroupByTime |-> SiriGroupByTime(t, d),
     GroupByTimeAndPrimaryTag |-> SiriGroupByTimeAndPrimaryTag(t, d),
     MaxAllCPU |-> SiriMaxAllCPU(d),
     GroupByOrderByLimit |-> SiriGroupByOrderByLimit(d),
     LastPointPerHost |-> SiriLastPointPerHost,
     HighCPUForHosts |-> SiriHighCPUForHosts(d)][t.kind]

---------------------------------------------------------------------------
(* RedisTimeSeries: milliseconds, and one series for each host and metric. *)
(* What the functor named in the query does to the series is part of the   *)
(* question: it reduces over the hosts where there are several.            *)

RedisWindow(w) == Printed(w, Milli)

RedisFunctor(t) ==
    CASE t.metrics > 1 /\ t.hosts = 1 -> "SingleGroupByTime"
      [] t.metrics = 1 /\ t.hosts > 1 -> "GroupByTimeAndMax"
      [] t.metrics > 1 /\ t.hosts > 1 -> "GroupByTimeAndTagMax"
      [] OTHER -> "none"

RedisGroupByTime(t, d) ==
    [MaxPerTime(t.metrics, Minute, RedisWindow(d.window), d.hosts) EXCEPT
        !.per = IF RedisFunctor(t) \in {"GroupByTimeAndMax", "GroupByTimeAndTagMax"} \/ t.hosts = 1
                THEN "time" ELSE "time and host"]

RedisGroupByTimeAndPrimaryTag(t, d) == MeanPerHostAndHour(t.metrics, RedisWindow(d.window))

RedisMaxAllCPU(d) == MaxPerTime(NumMetrics, Hour, RedisWindow(d.window), d.hosts)

RedisGroupByOrderByLimit(d) ==
    [NewestMaxima(Before(RedisWindow(d.window))) EXCEPT !.per = "time and host"]

RedisLastPointPerHost == LastRows

RedisHighCPUForHosts(d) == HighRows(RedisWindow(d.window), d.hosts)

RedisAsks(t, d) ==
    [GroupByTime |-> RedisGroupByTime(t, d),
     GroupByTimeAndPrimaryTag |-> RedisGroupByTimeAndPrimaryTag(t, d),
     MaxAllCPU |-> RedisMaxAllCPU(d),
     GroupByOrderByLimit |-> RedisGroupByOrderByLimit(d),
     LastPointPerHost |-> RedisLastPointPerHost,
     HighCPUForHosts |-> RedisHighCPUForHosts(d)][t.kind]

---------------------------------------------------------------------------
(* MongoDB: documents hold the events of a host and an hour and are chosen *)
(* by their hours first.  The naive format has no such documents, and      *)
(* implements two of the questions.  LastPointPerHost looks up documents   *)
(* of the $measurement that its groups no longer have, so it finds none.   *)

\* getTimeFilterDocs: the hour of the start and, for each full hour of the window, one more.
HoursOf(w) == {(w.start \div Hour) + i : i \in 0..((w.end - w.start) \div Hour)}

InDocs(q) == [q EXCEPT !.docs = HoursOf(q.during)]

MongoGroupByTime(t, d) == InDocs(MaxPerTime(t.metrics, Minute, d.window, d.hosts))

MongoMaxAllCPU(d) == InDocs(MaxPerTime(NumMetrics, Hour, d.window, d.hosts))

MongoGroupByTimeAndPrimaryTag(t, d) == InDocs(MeanPerHostAndHour(t.metrics, d.window))

MongoHighCPUForHosts(d) == InDocs(HighRows(d.window, d.hosts))

MongoLastPointPerHost == OfNoRows(LastRows)

MongoGroupByOrderByLimit(d) == InDocs(NewestMaxima(Before(d.window)))

MongoAsks(t, d) ==
    [GroupByTime |-> MongoGroupByTime(t, d),
     MaxAllCPU |-> MongoMaxAllCPU(d),
     GroupByTimeAndPrimaryTag |-> MongoGroupByTimeAndPrimaryTag(t, d),
     HighCPUForHosts |-> MongoHighCPUForHosts(d),
     LastPointPerHost |-> MongoLastPointPerHost,
     GroupByOrderByLimit |-> MongoGroupByOrderByLimit(d)][t.kind]

NaiveGroupByTime(t, d) == MaxPerTime(t.metrics, Minute, d.window, d.hosts)

NaiveGroupByTimeAndPrimaryTag(t, d) == MeanPerHostAndHour(t.metrics, d.window)

NaiveAsks(t, d) ==
    [GroupByTime |-> NaiveGroupByTime(t, d),
     GroupByTimeAndPrimaryTag |-> NaiveGroupByTimeAndPrimaryTag(t, d)][t.kind]

---------------------------------------------------------------------------
(* The IoT questions about places, levels and sessions; those about all of *)
(* the data draw nothing and are left out.                                 *)

Readings(fleet) == [Rows EXCEPT !.from = "readings", !.fleet = fleet]

LastOfFleet(table, fleet) ==
    [Rows EXCEPT !.from = table, !.fleet = fleet, !.per = "host", !.take = Newest(1)]

\* tenMinutePeriods, for a whole number of hours.
TenMinutePeriods(minutesPerHour, duration) == ((60 - minutesPerHour) * (duration \div Hour)) \div 10

\* Trucks that moved in more than some number of ten-minute periods.
MovingPeriods(w, fleet, rest, duration) ==
    [Readings(fleet) EXCEPT !.reduce = "periods of mean velocity > 1", !.every = 10 * Minute,
        !.per = "host", !.having = <<"more than", TenMinutePeriods(rest, duration)>>, !.during = w]

TimescaleLastLocByTruck(tags, d) ==
    LET last == [LastRows EXCEPT !.from = "readings", !.hosts = d.hosts]
    IN  IF "json" \in tags THEN Faulty(last) ELSE last

TimescaleLastLocPerTruck(d) == LastOfFleet("readings", d.fleet)

TimescaleTrucksWithLowFuel(d) ==
    [LastOfFleet("diagnostics", d.fleet) EXCEPT !.having = <<"fuel under 0.1">>]

TimescaleTrucksWithHighLoad(tags, d) ==
    LET last == [LastOfFleet("diagnostics", d.fleet) EXCEPT !.having = <<"load over 0.9">>]
    IN  IF "json" \in tags THEN Faulty(last) ELSE last

TimescaleStationaryTrucks(d) ==
    [Readings(d.fleet) EXCEPT
        !.reduce = "mean velocity", !.per = "host", !.having = <<"velocity < 1">>,
        !.during = TimescaleWindow(d.window)]

TimescaleTrucksWithLongDrivingSessions(t, d) ==
    MovingPeriods(TimescaleWindow(d.window), d.fleet, 5, t.window)

TimescaleTrucksWithLongDailySessions(t, d) ==
    MovingPeriods(TimescaleWindow(d.window), d.fleet, 35, t.window)

TimescaleFleetAsks(tags, t, d) ==
    [LastLocByTruck |-> TimescaleLastLocByTruck(tags, d),
     LastLocPerTruck |-> TimescaleLastLocPerTruck(d),
     TrucksWithLowFuel |-> TimescaleTrucksWithLowFuel(d),
     TrucksWithHighLoad |-> TimescaleTrucksWithHighLoad(tags, d),
     StationaryTrucks |-> TimescaleStationaryTrucks(d),
     TrucksWithLongDrivingSessions |-> TimescaleTrucksWithLongDrivingSessions(t, d),
     TrucksWithLongDailySessions |-> TimescaleTrucksWithLongDailySessions(t, d)][t.kind]

\* Influx orders locations by ascending time, filters the fuel before it takes the last row,
\* and looks at the first of the ten-minute buckets that a window touches.
InfluxLastLocByTruck(d) ==
    [Rows EXCEPT !.from = "readings", !.hosts = d.hosts, !.take = Oldest(1)]

InfluxLastLocPerTruck(d) == [LastOfFleet("readings", d.fleet) EXCEPT !.take = Oldest(1)]

InfluxTrucksWithLowFuel(d) ==
    [LastOfFleet("diagnostics", d.fleet) EXCEPT !.where = "fuel under 0.1"]

InfluxTrucksWithHighLoad(d) ==
    [LastOfFleet("diagnostics", d.fleet) EXCEPT !.having = <<"load over 0.9">>]

InfluxStationaryTrucks(d) ==
    [Readings(d.fleet) EXCEPT
        !.reduce = "mean velocity", !.every = 10 * Minute, !.per = "time and host",
        !.take = Oldest(1), !.having = <<"velocity < 1">>, !.during = InfluxWindow(d.window)]

InfluxTrucksWithLongDrivingSessions(t, d) ==
    MovingPeriods(InfluxWindow(d.window), d.fleet, 5, t.window)

InfluxTrucksWithLongDailySessions(t, d) ==
    MovingPeriods(InfluxWindow(d.window), d.fleet, 35, t.window)

InfluxFleetAsks(t, d) ==
    [LastLocByTruck |-> InfluxLastLocByTruck(d),
     LastLocPerTruck |-> InfluxLastLocPerTruck(d),
     TrucksWithLowFuel |-> InfluxTrucksWithLowFuel(d),
     TrucksWithHighLoad |-> InfluxTrucksWithHighLoad(d),
     StationaryTrucks |-> InfluxStationaryTrucks(d),
     TrucksWithLongDrivingSessions |-> InfluxTrucksWithLongDrivingSessions(t, d),
     TrucksWithLongDailySessions |-> InfluxTrucksWithLongDailySessions(t, d)][t.kind]

\* The question of one query; a database names its generator, the use case chooses the method.
Asks(db, tags, t, d) ==
    CASE t.use = "iot" /\ db = "timescaledb" -> TimescaleFleetAsks(tags, t, d)
      [] t.use = "iot" /\ db = "influx" -> InfluxFleetAsks(t, d)
      [] t.use = "devops" /\ db = "timescaledb" -> TimescaleAsks(tags, t, d)
      [] t.use = "devops" /\ db = "clickhouse" -> ClickhouseAsks(tags, t, d)
      [] t.use = "devops" /\ db = "cassandra" -> CassandraAsks(t, d)
      [] t.use = "devops" /\ db = "cratedb" -> CrateAsks(t, d)
      [] t.use = "devops" /\ db = "influx" -> InfluxAsks(t, d)
      [] t.use = "devops" /\ db = "siridb" -> SiriAsks(t, d)
      [] t.use = "devops" /\ db = "redistimeseries" -> RedisAsks(t, d)
      [] t.use = "devops" /\ db = "mongo" -> MongoAsks(t, d)
      [] t.use = "devops" /\ db = "mongo naive" -> NaiveAsks(t, d)
=============================================================================
