------------------------- MODULE MCQueryGeneration -------------------------
(* Command lines for TLC.  A second has eight instants, the data 24 hours   *)
(* and a second, as README.md has it, or an hour; of three hosts, types of  *)
(* "eight" ask for two.                                                     *)
EXTENDS QueryGeneration, TLC

MCDataStart == 2 * Hour
Day == MCDataStart + 24 * Hour + Second
ShortDay == MCDataStart + Hour
MCForever == MCDataStart + 1000 * Hour

\* Residues of every kind: nothing, a fraction of a second, and the last of all starts of an hour.
MCNumbers == <<0, 5, 23 * Hour + Second - 1>>

Conf1(db, type, end) ==
    [db |-> db, tags |-> {"columns"}, type |-> type, limit |-> 2, group |-> 0, groups |-> 1, end |-> end]

DevopsDatabases ==
    <<"timescaledb", "clickhouse", "cassandra", "cratedb", "influx", "siridb", "redistimeseries",
      "mongo", "mongo naive">>
FleetDatabases == <<"timescaledb", "influx", "cassandra">>

\* All databases in turn.
Across(databases, type, end) == [k \in DOMAIN databases |-> Conf1(databases[k], type, end)]

DevopsTypes ==
    {SingleGroupby(1, 1, 1), SingleGroupby(1, 2, 1), SingleGroupby(2, 1, 12), SingleGroupby(2, 2, 1),
     MaxAllCPU(1), MaxAllCPU(2), Groupby(1), Groupby(NumMetrics), GroupByOrderByLimit,
     HighCPU(0), HighCPU(1), LastPointPerHost}
FleetTypes ==
    {LastLocSingleTruck, OfFleet("LastLocPerTruck"), OfFleet("TrucksWithLowFuel"),
     OfFleet("TrucksWithHighLoad"), StationaryTrucks, LongDrivingSessions, LongDailySessions}

\* More hosts than there are, and a window as long as the data.
RefusedTypes == {SingleGroupby(1, 4, 1), MaxAllCPU(4)}

\* A command line whose work is divided among two.
Grouped(type, g, groups) ==
    [Conf1("timescaledb", type, Day) EXCEPT !.limit = 3, !.group = g, !.groups = groups]
GroupPlan(type) == <<Grouped(type, 0, 1), Grouped(type, 0, 2), Grouped(type, 1, 2)>>

With(flags, c) == [c EXCEPT !.tags = flags]

AllPlans ==
    {Across(DevopsDatabases, t, Day) : t \in DevopsTypes \cup RefusedTypes}
    \cup {Across(FleetDatabases, t, Day) : t \in FleetTypes}
    \cup {Across(<<"timescaledb", "redistimeseries", "mongo">>, t, ShortDay) :
              t \in {GroupByOrderByLimit, HighCPU(1)}}
    \cup {GroupPlan(t) : t \in {SingleGroupby(1, 2, 1), HighCPU(1), StationaryTrucks}}
    \cup {<<With(flags, Conf1(db, t, Day)), Conf1(db, t, Day)>> :
              flags \in {{}, {"json"}, {"columns", "json"}}, db \in {"clickhouse", "timescaledb"},
              t \in {GroupByOrderByLimit, LastPointPerHost, Groupby(NumMetrics)}}
    \cup {<<With({"columns", "json"}, Conf1("timescaledb", t, Day))>> :
              t \in {LastLocSingleTruck, OfFleet("TrucksWithHighLoad"), StationaryTrucks}}
=============================================================================
