-------------------------- MODULE QueryGeneration --------------------------
(***************************************************************************)
(* tsbs_generate_queries (internal/inputs/generator_queries.go and         *)
(* cmd/tsbs_generate_queries): the queries of one type for one database,   *)
(* filled with windows, hosts and fleets that math/rand draws.             *)
(*                                                                         *)
(* A behaviour is a plan of runs of the program, one after the other, all  *)
(* with one seed.  The seed is the stream of numbers math/rand yields from *)
(* it; every run reads it from the start.  A number of the stream is       *)
(* chosen when a run first needs it; after MaxDraws of them the stream     *)
(* goes on in turns through Numbers.                                       *)
(***************************************************************************)
EXTENDS QueryTexts, Sequences, FiniteSets

CONSTANTS
    Plans,     \* sequences of configurations of runs: the database, the query type, the number
               \* of queries, the group and number of groups, and the end of the data
    Scale,     \* --scale, the number of hosts or trucks
    NumFleets, \* len(usecase.FleetChoices)
    Numbers,   \* the numbers a stream is made of, a sequence
    MaxDraws   \* bound on the part of a stream that is free

ASSUME NumbersAssumption ==
    /\ Scale \in Nat \ {0} /\ NumFleets \in Nat \ {0} /\ MaxDraws \in Nat
    /\ Numbers \in Seq(Nat) /\ {Numbers[k] % Scale : k \in DOMAIN Numbers} = 0..(Scale - 1)

VARIABLES
    plan,   \* the command lines of the runs
    stream, \* the numbers of the stream that some run has needed
    run,    \* the run that is going on
    used,   \* numbers of the stream it has used
    todo,   \* what is still to be drawn for the query being filled, in order
    drawn,  \* what has been drawn for it
    filled, \* queries filled, i of runQueryGeneration
    group,  \* currentGroup
    out,    \* the queries each run has written
    status  \* how each run has ended

vars == <<plan, stream, run, used, todo, drawn, filled, group, out, status>>

---------------------------------------------------------------------------
(* Query types: the use case matrix of main.go and the fillers it makes.   *)

QueryType(use, kind, hosts, metrics, window) ==
    [use |-> use, kind |-> kind, hosts |-> hosts, metrics |-> metrics, window |-> window]

SingleGroupby(metrics, hosts, hours) == QueryType("devops", "GroupByTime", hosts, metrics, hours * Hour)
MaxAllCPU(hosts) == QueryType("devops", "MaxAllCPU", hosts, NumMetrics, 8 * Hour)
Groupby(metrics) == QueryType("devops", "GroupByTimeAndPrimaryTag", 0, metrics, 12 * Hour)
HighCPU(hosts) == QueryType("devops", "HighCPUForHosts", hosts, NumMetrics, 12 * Hour)
GroupByOrderByLimit == QueryType("devops", "GroupByOrderByLimit", 0, 1, Hour)
LastPointPerHost == QueryType("devops", "LastPointPerHost", 0, NumMetrics, 0)

LastLocSingleTruck == QueryType("iot", "LastLocByTruck", 1, 0, 0)
OfFleet(kind) == QueryType("iot", kind, 0, 0, 0)
StationaryTrucks == QueryType("iot", "StationaryTrucks", 0, 0, 10 * Minute)
LongDrivingSessions == QueryType("iot", "TrucksWithLongDrivingSessions", 0, 0, 4 * Hour)
LongDailySessions == QueryType("iot", "TrucksWithLongDailySessions", 0, 0, 24 * Hour)

\* The matrix, for any numbers of hosts and metrics.
InMatrix(t) ==
    \/ /\ {t.metrics, t.hosts, t.window} \subseteq Nat \ {0}
       /\ t = SingleGroupby(t.metrics, t.hosts, t.window \div Hour)
    \/ t.hosts \in Nat \ {0} /\ t = MaxAllCPU(t.hosts)
    \/ t.metrics \in Nat \ {0} /\ t = Groupby(t.metrics)
    \/ t \in {HighCPU(0), HighCPU(1), GroupByOrderByLimit, LastPointPerHost}
    \/ t \in {LastLocSingleTruck, StationaryTrucks, LongDrivingSessions, LongDailySessions}
    \/ t \in {OfFleet("LastLocPerTruck"), OfFleet("TrucksWithLowFuel"), OfFleet("TrucksWithHighLoad")}

\* getUseCaseGenerator: an IoT generator is made by two factories only.
Supports(db, use) == use = "devops" \/ db \in {"timescaledb", "influx"}

\* The type assertions of the fillers.
Implements(db, t) ==
    db = "mongo naive" => t.kind \in {"GroupByTime", "GroupByTimeAndPrimaryTag"}

\* Slip: hosts are drawn first for the hourly maxima too.
HostsFirstInMaxima ==
    {"timescaledb", "clickhouse", "siridb", "redistimeseries"} \X {"HighCPUForHosts", "MaxAllCPU"}

\* The methods that draw the hosts before the window, and the databases that draw none for
\* "all hosts".
HostsFirst == {"timescaledb", "clickhouse", "siridb", "redistimeseries"} \X {"HighCPUForHosts"}
SkipsNoHosts == {"timescaledb", "clickhouse", "siridb", "influx"}

WindowAndHosts(db, t) ==
    IF <<db, t.kind>> \in HostsFirst THEN <<"hosts", "window">> ELSE <<"window", "hosts">>

HighCPUDraws(db, t) ==
    IF t.hosts = 0 /\ db \in SkipsNoHosts THEN <<"window">> ELSE WindowAndHosts(db, t)

\* What the method of a database draws for a query, in order.
Draws(db, t) ==
    CASE t.kind \in {"GroupByTime", "MaxAllCPU"} -> WindowAndHosts(db, t)
      [] t.kind \in {"GroupByTimeAndPrimaryTag", "GroupByOrderByLimit"} -> <<"window">>
      [] t.kind = "LastPointPerHost" -> << >>
      [] t.kind = "HighCPUForHosts" -> HighCPUDraws(db, t)
      [] t.kind = "LastLocByTruck" -> <<"hosts">>
      [] t.kind \in {"LastLocPerTruck", "TrucksWithLowFuel", "TrucksWithHighLoad"} -> <<"fleet">>
      [] OTHER -> <<"window", "fleet">>

---------------------------------------------------------------------------
(* Command lines, as QueryGeneratorConfig.Validate lets them pass.         *)

Databases ==
    {"timescaledb", "clickhouse", "cassandra", "cratedb", "influx", "siridb", "redistimeseries",
     "mongo", "mongo naive"}

ASSUME PlansAssumption ==
    \A p \in Plans :
        /\ DOMAIN p = 1..Len(p) /\ Len(p) \in Nat
        /\ \A r \in DOMAIN p :
            /\ p[r].db \in Databases /\ p[r].tags \subseteq {"columns", "json"}
            /\ InMatrix(p[r].type)
            /\ p[r].limit \in Nat /\ p[r].end \in Nat
            /\ p[r].groups \in Nat \ {0} /\ p[r].group \in 0..(p[r].groups - 1)

---------------------------------------------------------------------------
NothingDrawn == [window |-> Always, hosts |-> {}, fleet |-> {}]

DrawsOf(r) == IF r \in DOMAIN plan THEN Draws(plan[r].db, plan[r].type) ELSE << >>

Init ==
    /\ plan \in Plans
    /\ stream = << >>
    /\ run = 1 /\ used = 0 /\ filled = 0 /\ group = 0
    /\ todo = DrawsOf(1)
    /\ drawn = NothingDrawn
    /\ out = [r \in DOMAIN plan |-> << >>]
    /\ status = [r \in DOMAIN plan |-> "waiting"]

Conf == plan[run]
Type == Conf.type

Going == run \in DOMAIN plan
Started == Going /\ Supports(Conf.db, Type.use)
InQuery == Started /\ filled < Conf.limit
Drawing(what) == InQuery /\ Implements(Conf.db, Type) /\ todo # << >> /\ Head(todo) = what

\* The program ends; the next one of the plan seeds math/rand again.
EndRun(how) ==
    /\ status' = [status EXCEPT ![run] = how]
    /\ run' = run + 1
    /\ used' = 0 /\ filled' = 0 /\ group' = 0
    /\ todo' = DrawsOf(run + 1)
    /\ drawn' = NothingDrawn
    /\ UNCHANGED <<plan, stream, out>>

\* The run takes n, the next number of the stream.
Takes(n) ==
    IF used < MaxDraws
    THEN /\ used' = used + 1
         /\ IF used < Len(stream) THEN n = stream[used + 1] /\ UNCHANGED stream
                                  ELSE stream' = Append(stream, n)
    ELSE /\ n = Numbers[used - MaxDraws + 1]
         /\ used' = IF used = MaxDraws + Len(Numbers) - 1 THEN MaxDraws ELSE used + 1
         /\ UNCHANGED stream

Number == {Numbers[k] : k \in DOMAIN Numbers}

\* An error: the format has no generator for the use case.
Refuse == Going /\ ~Supports(Conf.db, Type.use) /\ EndRun("refused")

\* PanicUnimplementedQuery.
Unimplemented == InQuery /\ ~Implements(Conf.db, Type) /\ EndRun("panicked")

\* Slip: the window may begin anywhere in the data.
RoomOfData(end, w) == end - DataStart

\* RandWindow: the number of starts it draws from, in data that ends with end.
Room(end, w) == end - w - DataStart

\* MustRandWindow.
DrawWindow ==
    /\ Drawing("window")
    /\ Room(Conf.end, Type.window) > 0
    /\ \E n \in Number :
         LET start == DataStart + (n % Room(Conf.end, Type.window))
         IN  /\ Takes(n)
             /\ drawn' = [drawn EXCEPT !.window = Interval(start, start + Type.window)]
    /\ todo' = Tail(todo)
    /\ UNCHANGED <<plan, run, filled, group, out, status>>

WindowTooLarge == Drawing("window") /\ Room(Conf.end, Type.window) <= 0 /\ EndRun("panicked")

\* getRandomHosts and getRandomTrucks accept the number of hosts.
HostsAvailable(n) == 1 <= n /\ n <= Scale

\* One turn of the loop of GetRandomSubsetPerm: a number seen before is drawn in vain.
DrawHost ==
    /\ Drawing("hosts")
    /\ HostsAvailable(Type.hosts)
    /\ \E n \in Number :
         LET hosts == drawn.hosts \cup {n % Scale}
         IN  /\ Takes(n)
             /\ drawn' = [drawn EXCEPT !.hosts = hosts]
             /\ todo' = IF Cardinality(hosts) = Type.hosts THEN Tail(todo) ELSE todo
    /\ UNCHANGED <<plan, run, filled, group, out, status>>

\* Slip: the error is lost in every method of RedisTimeSeries.
DropsHostErrors(db, t) == db = "redistimeseries"

\* RedisTimeSeries overwrites the error in HighCPUForHosts and goes on with no hosts.
DropsHostError(db, t) == db = "redistimeseries" /\ t.kind = "HighCPUForHosts"

HostErrorDropped ==
    /\ Drawing("hosts")
    /\ ~HostsAvailable(Type.hosts)
    /\ DropsHostError(Conf.db, Type)
    /\ todo' = Tail(todo)
    /\ UNCHANGED <<plan, stream, run, used, drawn, filled, group, out, status>>

HostsRefused ==
    /\ Drawing("hosts")
    /\ ~HostsAvailable(Type.hosts)
    /\ ~DropsHostError(Conf.db, Type)
    /\ EndRun("panicked")

\* GetRandomFleet.
DrawFleet ==
    /\ Drawing("fleet")
    /\ \E n \in Number : Takes(n) /\ drawn' = [drawn EXCEPT !.fleet = {n % NumFleets}]
    /\ todo' = Tail(todo)
    /\ UNCHANGED <<plan, run, filled, group, out, status>>

\* Slip: the group after the last one is not the first.
NextGroupLate(g, groups) == IF g = groups THEN 0 ELSE g + 1

NextGroup(g, groups) == IF g + 1 = groups THEN 0 ELSE g + 1

\* The rest of Fill and of the loop's body: the text is made and, in the run's group, encoded.
\* asks is what it asks; number and drawn say how it came about.
FillAndEncode ==
    /\ InQuery
    /\ Implements(Conf.db, Type)
    /\ todo = << >>
    /\ LET q == [number |-> filled, drawn |-> drawn,
                 asks |-> Asks(Conf.db, Conf.tags, Type, drawn)]
       IN  out' = IF group = Conf.group THEN [out EXCEPT ![run] = Append(@, q)] ELSE out
    /\ group' = NextGroup(group, Conf.groups)
    /\ filled' = filled + 1
    /\ todo' = DrawsOf(run)
    /\ drawn' = NothingDrawn
    /\ UNCHANGED <<plan, stream, run, used, status>>

Finish == Started /\ filled = Conf.limit /\ EndRun("done")

Done == ~Going /\ UNCHANGED vars

Next ==
    \/ Refuse \/ Unimplemented \/ WindowTooLarge \/ HostsRefused
    \/ DrawWindow \/ DrawHost \/ HostErrorDropped \/ DrawFleet
    \/ FillAndEncode \/ Finish \/ Done

Spec == Init /\ [][Next]_vars

---------------------------------------------------------------------------
(* Properties.                                                             *)

Written(r) == {out[r][k] : k \in DOMAIN out[r]}

\* Pairs of runs of one query type on the same data.
Alike == {p \in (DOMAIN plan) \X (DOMAIN plan) :
            plan[p[1]].type = plan[p[2]].type /\ plan[p[1]].end = plan[p[2]].end}

\* With one seed the n-th query of a type is about the same window, hosts and fleet for every
\* database and in every group of processes, whatever the other queries needed of the stream.
\* Queries for high CPU of some hosts are the exception: databases draw in two orders.
SameDraws ==
    \A p \in Alike : \A x \in Written(p[1]), y \in Written(p[2]) :
        x.number = y.number =>
            \/ x.drawn = y.drawn
            \/ plan[p[1]].type.kind = "HighCPUForHosts" /\ plan[p[1]].type.hosts > 0

\* What processes of a group each write is, together, what one process writes: each writes
\* exactly the queries of its turn, and the numbers its skipped queries use up are those they
\* use up in the other processes.
GroupsShareTheWork ==
    \A p \in Alike :
        LET r == plan[p[1]]
            s == plan[p[2]]
        IN  (r.db = s.db /\ r.tags = s.tags /\ r.limit = s.limit /\ s.groups = 1
             /\ status[p[1]] = "done" /\ status[p[2]] = "done")
            => Written(p[1]) = {q \in Written(p[2]) : q.number % r.groups = r.group}

\* The documents a MongoDB query looks into hold every hour that its window touches.  Those
\* of GroupByOrderByLimit are counted from the start of the data; where that is within an hour
\* the last one may be missing.
DocsCoverWindow ==
    \A r \in DOMAIN plan : \A q \in Written(r) :
        (/\ plan[r].db = "mongo" /\ plan[r].type.window > 0
         /\ plan[r].type.kind = "GroupByOrderByLimit" => DataStart % Hour = 0) =>
            ((q.asks.during.start \div Hour)..((q.asks.during.end - 1) \div Hour)) \subseteq q.asks.docs

\* A query asks about data that exists: its window lies in the data and has the length of its
\* type, its hosts are as many as its type says, and MongoDB finds its documents.
AsksWithinData ==
    /\ DocsCoverWindow
    /\ \A r \in DOMAIN plan : \A q \in Written(r) :
        LET t == plan[r].type
            w == q.drawn.window
        IN  /\ t.window > 0 => DataStart <= w.start /\ w.end <= plan[r].end
            /\ t.window > 0 => w.end - w.start = t.window
            /\ Cardinality(q.drawn.hosts) = t.hosts

\* A type of queries that can be generated for one database, be it one query, can be for all
\* that implement it.  High CPU of all hosts is the exception.
SucceedTogether ==
    \A p \in Alike :
        (/\ {status[p[1]], status[p[2]]} \subseteq {"done", "panicked"}
         /\ \A r \in {p[1], p[2]} : plan[r].limit > 0 /\ Implements(plan[r].db, plan[r].type)
         /\ ~(plan[p[1]].type.kind = "HighCPUForHosts" /\ plan[p[1]].type.hosts = 0))
        => status[p[1]] = status[p[2]]

\* The questions the comments of the use cases describe.
Meant(t, d) ==
    CASE t.kind = "GroupByTime" -> MaxPerTime(t.metrics, Minute, d.window, d.hosts)
      [] t.kind = "MaxAllCPU" -> MaxPerTime(NumMetrics, Hour, d.window, d.hosts)
      [] t.kind = "GroupByTimeAndPrimaryTag" -> MeanPerHostAndHour(t.metrics, d.window)
      [] t.kind = "GroupByOrderByLimit" -> NewestMaxima(Before(d.window))
      [] t.kind = "LastPointPerHost" -> LastRows
      [] t.kind = "HighCPUForHosts" -> HighRows(d.window, d.hosts)
      [] t.kind = "LastLocByTruck" -> [LastRows EXCEPT !.from = "readings", !.hosts = d.hosts]
      [] t.kind = "LastLocPerTruck" -> LastOfFleet("readings", d.fleet)
      [] t.kind = "TrucksWithLowFuel" ->
            [LastOfFleet("diagnostics", d.fleet) EXCEPT !.having = <<"fuel under 0.1">>]
      [] t.kind = "TrucksWithHighLoad" ->
            [LastOfFleet("diagnostics", d.fleet) EXCEPT !.having = <<"load over 0.9">>]
      [] t.kind = "StationaryTrucks" ->
            [Readings(d.fleet) EXCEPT !.reduce = "mean velocity", !.per = "host",
                !.having = <<"velocity < 1">>, !.during = d.window]
      [] t.kind = "TrucksWithLongDrivingSessions" -> MovingPeriods(d.window, d.fleet, 5, 4 * Hour)
      [] t.kind = "TrucksWithLongDailySessions" -> MovingPeriods(d.window, d.fleet, 35, 24 * Hour)

\* Questions are the same when they differ in a fraction of a second, in how documents are
\* found, or in keeping a single host apart.
Same(p, q) ==
    LET Plain(x) == [x EXCEPT !.during = Printed(@, Second), !.docs = {},
                        !.per = IF x.per = "time and host" /\ Cardinality(x.hosts) = 1 THEN "time" ELSE @]
    IN  Plain(p) = Plain(q)

\* Where a database asks something else; the README says what.
AsksOtherwise(c) ==
    \/ c.db = "influx" /\ c.type.kind \in {"MaxAllCPU", "GroupByOrderByLimit", "LastLocByTruck",
            "LastLocPerTruck", "TrucksWithLowFuel", "StationaryTrucks"}
    \/ c.db = "siridb" /\ c.type.kind \in {"GroupByOrderByLimit", "HighCPUForHosts"}
    \/ c.db = "siridb" /\ c.type.kind \in {"GroupByTime", "MaxAllCPU"} /\ c.type.hosts > 1
    \/ c.db = "redistimeseries" /\ c.type.kind = "GroupByOrderByLimit"
    \/ c.db = "clickhouse" /\ "columns" \notin c.tags
       /\ c.type.kind \in {"GroupByTimeAndPrimaryTag", "LastPointPerHost"}
    \/ c.db = "timescaledb" /\ c.tags # {"columns"} /\ c.type.kind = "GroupByTimeAndPrimaryTag"
    \/ c.db = "timescaledb" /\ c.tags = {"columns", "json"} /\ c.type.kind = "LastPointPerHost"
    \/ c.db = "timescaledb" /\ "json" \in c.tags
       /\ c.type.kind \in {"LastLocByTruck", "TrucksWithHighLoad"}
    \/ c.db = "cassandra" /\ c.type.kind = "GroupByTimeAndPrimaryTag"
    \/ c.db = "mongo" /\ c.type.kind = "LastPointPerHost"

\* Every query asks the question its type stands for about what was drawn for it: the bucket,
\* the reduction, the rows read and the results taken are those of the other databases.
AsksWhatIsMeant ==
    \A r \in DOMAIN plan : \A q \in Written(r) :
        AsksOtherwise(plan[r]) \/ Same(q.asks, Meant(plan[r].type, q.drawn))
=============================================================================
