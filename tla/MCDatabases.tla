---------------------------- MODULE MCDatabases ----------------------------
(***************************************************************************)
(* The code for single databases, one at a time: the loaders of Redis,     *)
(* InfluxDB and MongoDB, whose modules share no name so that they can be   *)
(* extended together, and the functors of the Redis queries.  What runs is *)
(* chosen first; the others do nothing.                                    *)
(***************************************************************************)
EXTENDS RedisLoad, InfluxLoad, MongoLoad, TLC

\* Redis: three measurements, of which two share the name of a field.
RedisFields == [cpu |-> <<"user", "idle">>, disk |-> <<"total">>, mem |-> <<"total">>]

P(h, m) == [host |-> h, measurement |-> m]
TwoHosts == <<P("a", "cpu"), P("b", "cpu"), P("a", "cpu"), P("b", "cpu")>>
OneName == <<P("a", "disk"), P("a", "mem"), P("b", "disk"), P("a", "disk")>>

Conf(points, single, connections, pipeline, tag, md5, leftover) ==
    [points |-> points, single |-> single, connections |-> connections, pipeline |-> pipeline,
     tag |-> tag, md5 |-> md5, leftover |-> leftover]
PerHost(x, y) == [a |-> x, b |-> y]
HostHash == PerHost(0, 1)

\* Both hosts on one worker or on two, on one connection or on two, pipelines of one and two
\* (and none), and a series left by an earlier load.
RedisConfigs ==
    {Conf(p, s, 2, n, PerHost(0, 1), PerHost(0, 1), {}) :
        p \in {TwoHosts, OneName}, s \in BOOLEAN, n \in {1, 2}}
    \cup {Conf(TwoHosts, FALSE, 2, 1, PerHost(0, 1), PerHost(1, 1), {}),
          Conf(TwoHosts, FALSE, 1, 0, PerHost(0, 0), PerHost(0, 0), {}),
          Conf(TwoHosts, FALSE, 2, 0, PerHost(0, 1), PerHost(0, 0), {}),
          Conf(TwoHosts, FALSE, 2, 2, PerHost(0, 1), PerHost(0, 1), {<<"b", "cpu", "user">>})}

\* MongoDB: hours of four seconds.
E(tag, host, measurement, time) ==
    [tag |-> tag, host |-> host, measurement |-> measurement, time |-> time]
MongoFiles ==
    {<<E("hostname", "a", "cpu", 1), E("hostname", "b", "cpu", 1), E("hostname", "a", "mem", 1),
       E("hostname", "a", "cpu", 2), E("hostname", "b", "cpu", 5), E("hostname", "a", "cpu", 5)>>,
     <<E("hostname", "a", "cpu", 1), E("hostname", "a", "cpu", 1), E("hostname", "b", "mem", 3),
       E("hostname", "a", "cpu", 9), E("hostname", "a", "mem", 4), E("hostname", "a", "cpu", 1)>>,
     <<E("name", "a", "readings", 1), E("name", "b", "readings", 1), E("none", "a", "readings", 2),
       E("name", "a", "readings", 2), E("name", "b", "readings", 5)>>}

\* Responses: one to three series of two hosts and fields, with points at two times.
Labels == [hostname : Hosts, fieldname : {"usage_user", "usage_idle"}]
PointSeqs == {<<>>, <<<<1, 84>>>>, <<<<2, 96>>>>, <<<<1, 96>>, <<2, 84>>>>}
Serie == [labels : Labels, points : PointSeqs]
Responses ==
    {<<s>> : s \in Serie}
    \cup {r \in Serie \X Serie : r[1].labels # r[2].labels}
    \cup {r \in Serie \X {s \in Serie : Len(s.points) = 2} \X Serie :
             Cardinality({r[1].labels, r[2].labels, r[3].labels}) = 3 /\ r[1].points # <<>>}

VARIABLES which, request, outcome

Functors == INSTANCE RedisFunctors WITH Threshold <- 90, conf <- request, result <- outcome

functorVars == <<request, outcome>>
all == <<which, redisVars, influxVars, mongoVars, functorVars>>

Some(S) == CHOOSE x \in S : TRUE

\* The others stay at an initial state.
Begin ==
    /\ which \in {"redis", "influx", "mongo", "functors"}
    /\ IF which = "redis" THEN redisConf \in RedisConfigs ELSE redisConf = Some(RedisConfigs)
    /\ RedisInit
    /\ InfluxInit
    /\ IF which = "mongo" THEN input \in MongoFiles ELSE input = Some(MongoFiles)
    /\ MongoInit
    /\ IF which = "functors" THEN Functors!Init
       ELSE request = [functor |-> "HighCpu", series |-> <<>>] /\ outcome = [kind |-> "none"]

Redis == which = "redis" /\ RedisNext /\ UNCHANGED <<which, influxVars, mongoVars, functorVars>>
Influx(Act) == which = "influx" /\ Act /\ UNCHANGED <<which, redisVars, mongoVars, functorVars>>
Mongo == which = "mongo" /\ MongoNext /\ UNCHANGED <<which, redisVars, influxVars, functorVars>>
Queries ==
    which = "functors" /\ Functors!Next /\ UNCHANGED <<which, redisVars, influxVars, mongoVars>>

AnyNext == Redis \/ Influx(InfluxNext) \/ Mongo \/ Queries

\* Redis: every goroutine goes on and the server answers.  InfluxDB: worker and goroutine go on
\* (no worker need take a batch or close), the server answers, and accepts a batch that it is
\* sent over and over.
FairSpec ==
    /\ Begin /\ [][AnyNext]_all
    /\ WF_all(Redis)
    /\ \A w \in InfluxWorkers :
           /\ WF_all(Influx(Going(w)))
           /\ WF_all(Influx(Talking(w)))
           /\ SF_all(Influx(Accept(w)))
-----------------------------------------------------------------------------

\* Redis: a batch comes to its end, though no one receives the counts before (main.go:178).
BatchReturns == \A w \in {0, 1} : InBatch(w) ~> ~InBatch(w)

\* InfluxDB: ProcessBatch and Close return, though both wait for the goroutine.
CallsReturn == Busy(0) ~> ~Busy(0)

\* Redis queries: a functor returns what its query stands for.
FunctorsRight == Functors!FunctorsRight
=============================================================================
