----------------------------- MODULE RedisLoad -----------------------------
(***************************************************************************)
(* The RedisTimeSeries loader (cmd/tsbs_load_redistimeseries/main.go,      *)
(* scan.go) and the serializer that writes its file                        *)
(* (cmd/tsbs_generate_data/serialize/redistimeseries.go).                  *)
(*                                                                         *)
(* A line of the file is a command: TS.CREATE of a series, or TS.MADD of a *)
(* point, a sample for each field.  A series is created by the first line  *)
(* that needs it, so the file relies on its order.  Each batch is handed   *)
(* to connection goroutines, which send their commands in pipelines and    *)
(* report how many metrics were answered on a bounded channel that no one  *)
(* reads before they are done.                                             *)
(*                                                                         *)
(* A line is known by its point and its place among the lines there could  *)
(* be of that point.  Queues, channels and pipelines are first in, first   *)
(* out and filled in the order of the file, so each is the set of the      *)
(* lines in it.                                                            *)
(***************************************************************************)
EXTENDS Integers, Sequences, FiniteSets

CONSTANTS
    NumRedisWorkers, \* --workers
    RedisBatchSize,  \* --batch-size
    Hosts,           \* the hosts, whose hash is the tag in the name of a series
    FieldsOf,        \* the fields of each measurement, in order
    Configs          \* points (of the file), single (--single-queue), connections,
                     \* pipeline, tag and md5 (its hash) of each host, leftover (series on the server)

RedisWorkers == 0..(NumRedisWorkers - 1)
Measurements == DOMAIN FieldsOf

Field(m) == {FieldsOf[m][k] : k \in DOMAIN FieldsOf[m]}

ASSUME RedisAssumption ==
    /\ {NumRedisWorkers, RedisBatchSize} \subseteq Nat \ {0}
    /\ \A m \in Measurements : FieldsOf[m] \in Seq(STRING)
    /\ \A c \in Configs :
           /\ c.points \in Seq([host : Hosts, measurement : Measurements])
           /\ c.single \in BOOLEAN /\ c.connections \in Nat \ {0} /\ c.pipeline \in Nat
           /\ c.tag \in [Hosts -> Nat] /\ c.md5 \in [Hosts -> Nat]

VARIABLES
    redisConf,     \* flags and file
    redisQueues,   \* the lines of the file not taken yet, for each work queue
    redisPc,       \* whether each worker is in ProcessBatch
    rows,          \* the rows channel of each of its connections: commands not yet sent
    pipe,          \* commands sent and not answered
    curPipe,       \* how many since the last flush
    finished,      \* whether the goroutine of the connection is done
    metrics,       \* the metrics channel of the worker: its capacity, the counts in it, their sum
    metricCnt,     \* metrics counted by the load
    rowCnt,        \* rows of the batches taken, which the load counts when they return
    series,        \* the series on the server
    storedSamples, \* the samples stored, <<point, field>>
    dropped,       \* those sent to a series that did not exist
    refused,       \* the connections with an error among the replies not received
    redisFatal     \* whether log.Fatalf ended the program

workVars == <<redisQueues, redisPc, metricCnt, rowCnt>>
connVars == <<rows, pipe, curPipe, finished, metrics>>
serverVars == <<series, storedSamples, dropped, refused>>
redisVars == <<redisConf, workVars, connVars, serverVars, redisFatal>>
-----------------------------------------------------------------------------
(* The file. *)

SeriesOf(p, f) == <<p.host, p.measurement, f>>

Point(l) == redisConf.points[l.point]
NumFields(n) == Len(FieldsOf[redisConf.points[n].measurement])

\* The line of TS.MADD is the last of its point; the one at a field's place creates its series.
IsMadd(l) == l.field = NumFields(l.point) + 1
FieldName(l) == FieldsOf[Point(l).measurement][l.field]

Places ==
    UNION {{[point |-> n, field |-> k] : k \in 1..(NumFields(n) + 1)} : n \in DOMAIN redisConf.points}

Before(l, m) == l.point < m.point \/ (l.point = m.point /\ l.field < m.field)

\* Slip: a key is known by its field only.
KeyOfAnyHost(l) == FieldName(l)

\* keysSoFar knows a series by host and field, without the measurement that its name has.
Key(l) == <<Point(l).host, FieldName(l)>>

\* Serialize creates a series when its key is met for the first time.
New(l) == \A m \in Places : Before(m, l) /\ ~IsMadd(m) => Key(m) # Key(l)

Lines == {l \in Places : IsMadd(l) \/ New(l)}

\* The first n of some lines, and the very first.
FirstOf(n, lines) == {l \in lines : Cardinality({m \in lines : Before(m, l)}) < n}
First(lines) == CHOOSE l \in lines : \A m \in lines : ~Before(m, l)
-----------------------------------------------------------------------------
Connections == 0..(redisConf.connections - 1)
Queues == IF redisConf.single THEN {0} ELSE RedisWorkers

\* RedisIndexer: the work queue of a line.
RedisIndex(line) == redisConf.md5[Point(line).host] % Cardinality(Queues)

\* The connection within a batch.
ConnectionOf(line) == redisConf.tag[Point(line).host] % redisConf.connections

PerConnection(x) == [i \in Connections |-> x]

RedisInit ==
    /\ redisConf \in Configs
    /\ redisQueues = [q \in Queues |-> {l \in Lines : RedisIndex(l) = q}]
    /\ redisPc = [w \in RedisWorkers |-> "idle"]
    /\ rows = [w \in RedisWorkers |-> PerConnection({})]
    /\ pipe = [w \in RedisWorkers |-> PerConnection({})]
    /\ curPipe = [w \in RedisWorkers |-> PerConnection(0)]
    /\ finished = [w \in RedisWorkers |-> PerConnection(TRUE)]
    /\ metrics = [w \in RedisWorkers |-> [buflen |-> 0, counts |-> 0, sum |-> 0]]
    /\ metricCnt = 0 /\ rowCnt = 0
    /\ series = redisConf.leftover
    /\ storedSamples = {} /\ dropped = {} /\ refused = {}
    /\ redisFatal = FALSE

\* The queue a worker is on.
QueueOf(w) == IF redisConf.single THEN 0 ELSE w

\* Slip: a place for each connection.
BuflenOfConnections(rowCount) == redisConf.connections

\* Capacity of the metrics channel, and of the rows channels.
Buflen(rowCount) == rowCount + 1

\* ProcessBatch up to the wait.  No channel is shorter than the batch, so the rows are
\* sent without blocking; each channel is closed behind them.
Dispatch(w) ==
    /\ redisPc[w] = "idle"
    /\ redisQueues[QueueOf(w)] # {}
    /\ LET batch == FirstOf(RedisBatchSize, redisQueues[QueueOf(w)])
           n == Cardinality(batch)
       IN  /\ redisQueues' = [redisQueues EXCEPT ![QueueOf(w)] = @ \ batch]
           /\ rows' = [rows EXCEPT ![w] = [i \in Connections |-> {l \in batch : ConnectionOf(l) = i}]]
           /\ metrics' = [metrics EXCEPT ![w] = [buflen |-> Buflen(n), counts |-> 0, sum |-> 0]]
           /\ rowCnt' = rowCnt + n
    /\ curPipe' = [curPipe EXCEPT ![w] = PerConnection(0)]
    /\ finished' = [finished EXCEPT ![w] = PerConnection(FALSE)]
    /\ redisPc' = [redisPc EXCEPT ![w] = "wait"]
    /\ UNCHANGED <<redisConf, pipe, metricCnt, serverVars, redisFatal>>
-----------------------------------------------------------------------------
(* The goroutine of a connection. *)

\* sendRedisCommand: buffered by the client and on its way at any time from now.
SendNext(w, i, n) ==
    /\ pipe' = [pipe EXCEPT ![w][i] = @ \cup {First(rows[w][i])}]
    /\ rows' = [rows EXCEPT ![w][i] = @ \ {First(@)}]
    /\ curPipe' = [curPipe EXCEPT ![w][i] = n]

Running(w, i) == redisPc[w] = "wait" /\ ~finished[w][i]

\* The pipeline has room.
Send(w, i) ==
    /\ Running(w, i)
    /\ rows[w][i] # {}
    /\ curPipe[w][i] # redisConf.pipeline
    /\ SendNext(w, i, curPipe[w][i] + 1)
    /\ UNCHANGED <<redisConf, workVars, finished, metrics, serverVars, redisFatal>>

\* sendRedisFlush: 10 for each reply.
MetricsOf(count) == 10 * count

MetricsRoom(w) == metrics[w].counts < metrics[w].buflen

\* flushAndUpdate: every command has been answered without error, and the channel takes
\* the count.
FlushAndUpdate(w, i) ==
    /\ pipe[w][i] = {}
    /\ <<w, i>> \notin refused
    /\ MetricsRoom(w)
    /\ metrics' = [metrics EXCEPT ![w].counts = @ + 1, ![w].sum = @ + MetricsOf(curPipe[w][i])]

\* The pipeline is full: flush, then send.  With --pipeline 0 this is so before the first
\* command only.
FlushAndSend(w, i) ==
    /\ Running(w, i)
    /\ rows[w][i] # {}
    /\ curPipe[w][i] = redisConf.pipeline
    /\ FlushAndUpdate(w, i)
    /\ SendNext(w, i, 1)
    /\ UNCHANGED <<redisConf, workVars, finished, serverVars, redisFatal>>

\* Slip: what is left in the pipeline is not waited for.
LeaveUnflushed(w, i) ==
    /\ Running(w, i)
    /\ rows[w][i] = {}
    /\ finished' = [finished EXCEPT ![w][i] = TRUE]
    /\ UNCHANGED <<redisConf, workVars, rows, pipe, curPipe, metrics, serverVars, redisFatal>>

\* No more rows: a last flush, and wg.Done.
Leave(w, i) ==
    /\ Running(w, i)
    /\ rows[w][i] = {}
    /\ IF curPipe[w][i] > 0 THEN FlushAndUpdate(w, i) ELSE UNCHANGED metrics
    /\ finished' = [finished EXCEPT ![w][i] = TRUE]
    /\ UNCHANGED <<redisConf, workVars, rows, pipe, curPipe, serverVars, redisFatal>>

\* An error among the replies of a flush ends the program.
Fatal(w, i) ==
    /\ Running(w, i)
    /\ <<w, i>> \in refused
    /\ curPipe[w][i] = redisConf.pipeline \/ rows[w][i] = {}
    /\ redisFatal' = TRUE
    /\ UNCHANGED <<redisConf, workVars, connVars, serverVars>>
-----------------------------------------------------------------------------
(* The server. *)

SamplesOf(line) == {<<line.point, f>> : f \in Field(Point(line).measurement)}

\* TS.CREATE is refused if the series exists.
ExecuteCreate(w, i, line) ==
    LET name == SeriesOf(Point(line), FieldName(line))
    IN  /\ refused' = IF name \in series THEN refused \cup {<<w, i>>} ELSE refused
        /\ series' = series \cup {name}
        /\ UNCHANGED <<storedSamples, dropped>>

\* TS.MADD stores the samples of the series that exist; the others are errors within the
\* reply, which the loader does not look into.
ExecuteMadd(line) ==
    LET found == {s \in SamplesOf(line) : SeriesOf(Point(line), s[2]) \in series}
    IN  /\ storedSamples' = storedSamples \cup found
        /\ dropped' = dropped \cup (SamplesOf(line) \ found)
        /\ UNCHANGED <<series, refused>>

Execute(w, i) ==
    /\ pipe[w][i] # {}
    /\ LET line == First(pipe[w][i])
       IN  \/ ~IsMadd(line) /\ ExecuteCreate(w, i, line)
           \/ IsMadd(line) /\ ExecuteMadd(line)
    /\ pipe' = [pipe EXCEPT ![w][i] = @ \ {First(@)}]
    /\ UNCHANGED <<redisConf, workVars, rows, curPipe, finished, metrics, redisFatal>>
-----------------------------------------------------------------------------
\* wg.Wait.
ConnectionsDone(w) == \A i \in Connections : finished[w][i]

\* The end of ProcessBatch: the channel is closed and its counts summed.
Collect(w) ==
    /\ redisPc[w] = "wait"
    /\ ConnectionsDone(w)
    /\ metricCnt' = metricCnt + metrics[w].sum
    /\ metrics' = [metrics EXCEPT ![w].counts = 0, ![w].sum = 0]
    /\ redisPc' = [redisPc EXCEPT ![w] = "idle"]
    /\ UNCHANGED <<redisConf, redisQueues, rowCnt, rows, pipe, curPipe, finished, serverVars, redisFatal>>

Worker(w) == Dispatch(w) \/ Collect(w)
Connection(w, i) == Send(w, i) \/ FlushAndSend(w, i) \/ Leave(w, i) \/ Fatal(w, i)

Step(w) ==
    /\ ~redisFatal
    /\ \/ Worker(w)
       \/ \E i \in Connections : Connection(w, i) \/ Execute(w, i)

RedisNext == \E w \in RedisWorkers : Step(w)

RedisSpec == RedisInit /\ [][RedisNext]_redisVars
-----------------------------------------------------------------------------
(* What must hold. *)

\* The serializer took the series of the sample for one of another measurement.
NeverCreated(s) ==
    LET p == redisConf.points[s[1]]
    IN  \E n \in 1..(s[1] - 1) :
           LET q == redisConf.points[n]
           IN  q.host = p.host /\ q.measurement # p.measurement /\ s[2] \in Field(q.measurement)

\* A sample reaches its series: the command that creates it is executed before, whatever the
\* workers, connections and pipelines.  Several workers on one queue may lose it (the file
\* relies on its order), and so does a field with the name of another measurement's.
SamplesKept ==
    \A s \in dropped : (redisConf.single /\ NumRedisWorkers > 1) \/ NeverCreated(s)

Waiting == UNION {redisQueues[q] : q \in Queues}

\* Between batches, all commands taken from the queues have been executed and counted: no
\* connection leaves with replies it has not received.
CountsWhatIsDone ==
    (\A w \in RedisWorkers : redisPc[w] = "idle") =>
        /\ storedSamples \cup dropped = UNION {SamplesOf(l) : l \in {k \in Lines \ Waiting : IsMadd(k)}}
        /\ storedSamples \cap dropped = {}
        /\ metricCnt = MetricsOf(rowCnt)

\* A batch that must come to its end; with --pipeline 0 its counts may not fit the channel.
InBatch(w) == redisPc[w] = "wait" /\ ~redisFatal /\ redisConf.pipeline > 0
=============================================================================
