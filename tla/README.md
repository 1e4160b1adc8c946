# TLA+ models of tsbs

Specifications, model-checking runs and machine-checked proofs about the Time Series Benchmark
Suite: the programs that generate data and queries (`tsbs_generate_*`), load the data
(`tsbs_load_*`) and run the queries (`tsbs_run_queries_*`) against a time series database.

## The system

| part | state | operations | interacts with |
| --- | --- | --- | --- |
| insert pipeline (`load`) | the batch being filled for each channel, the batches not sent yet (`unsentBatches`), the outstanding count `ocnt`, two Go channels per worker group, the counters of rows and metrics | scan, send or queue a batch, receive an acknowledgement, process, flush, drain, close, summary | the decoder, indexer, batch factory and processor of one database |
| setup of a load run (`load`, `creator.go` of each loader) | the database and its tables on the server, what the creator learns of the columns, its session | `Init`, `DBExists`, `RemoveOldDB`, `CreateDB`, `PostCreateDB` | the server, other clients that load the same database |
| insert intervals (`load/insertstrategy`) | a generator of intervals for each worker | `Sleep` | workers of the pipeline |
| query benchmark (`query`) | job channel, statistics channel, wait groups, statistics groups and their counter | scan, process cold and warm, collect, report, close | the processor of one database |
| loaders of each database (`cmd/tsbs_load_*`) | caches of tag ids (TimescaleDB, ClickHouse), documents created (MongoDB), connections and pipelines (RedisTimeSeries), backoff (Influx) | `ProcessBatch`, `Init`, `Close` | shared by the workers of one pipeline |
| data generation (`internal/inputs`, `cmd/tsbs_generate_data`) | simulators of hosts and trucks, epochs, interleaved groups | `Next`, `Finished`, `Fields` | serializers |
| query generation (`internal/inputs`, `cmd/tsbs_generate_queries`) | random generator, time interval, scale | `Fill` | the gob stream the query benchmark reads |
| Cassandra query runner | client-side index of series, query plans | plan, execute, aggregate | processor of the query benchmark |
| RedisTimeSeries query functors (`query`) | none | merge and reduce series by timestamp | processor of the query benchmark |

What is hard, in the order of how much depends on it:

1. The insert pipeline: scanner and workers block on each other's bounded channels; batches wait in a
   queue that only an acknowledgement empties; the shutdown closes channels that workers write to.
   Right means: no point lost, repeated or (per channel) reordered, no deadlock, bounded memory, no
   send on a closed channel, a summary that counts everything.
2. The query benchmark: a pipeline of two stages whose second stage is made inside the goroutine that
   runs it; burn-in, limit and prewarming each count something else. Right means: every query is
   measured once, warm after cold, the printed counts are those of the groups.
3. The state that workers of one load share or believe they share: tag caches, created documents, keys.
4. The setup of a load by several clients, each of which may drop what another is loading.
5. Single loaders: batches sent again until they are accepted (InfluxDB), pipelines on several connections
   whose counts go through a bounded channel (RedisTimeSeries), files that rely on their order.
6. Generation in several processes, whose outputs must together be the whole.
7. Algorithms on time intervals and series (query plans, functors).

Nothing is persisted by these programs and no message is lost between goroutines; there is no crash
recovery to model. A database that fails mostly ends the program (`log.Fatal`, `panic`). It goes on in the Influx loader, which sends
a batch again; where MongoDB does not drop an old collection (`cmd/tsbs_load_mongo/creator.go:44`); where `DBExists` of
Cassandra or SiriDB gets no answer, which they take for "there is none"; and after an error of `PostCreateDB` (`load/loader.go:233`).

## Modules

| module | models |
| --- | --- |
| `LoadPipeline` | `load/scan.go`, `load/duplex_channel.go`, `RunBenchmark`, `work`, `createChannels` and `summary` of `load/loader.go` |
| `PointDelivery` | what the pipeline promises: points accepted in order are delivered once, in order per channel, before the end |
| `LoadPipelineProofs` | theorems about `LoadPipeline`: the outstanding count, shutdown, flow control, that each point is loaded once and in order, and that it implements `PointDelivery` |
| `LoadSetup` | `useDBCreator` of `load/loader.go` with the eight `creator.go` of `cmd/tsbs_load_*` and the first write of a worker |
| `MCLoadSetup` | its systems and flags |
| `LoadSetupProofs` | theorems about `LoadSetup` |
| `RedisLoad` | `main.go` and `scan.go` of `cmd/tsbs_load_redistimeseries`, with `cmd/tsbs_generate_data/serialize/redistimeseries.go` |
| `InfluxLoad` | `process.go` and `http_writer.go` of `cmd/tsbs_load_influx` |
| `MongoLoad` | `cmd/tsbs_load_mongo/aggregate_loader.go` |
| `RedisFunctors` | `query/redistimeseries_functors.go` |
| `MCDatabases` | these four, in one run |
| `DatabaseLoadProofs` | theorems about `RedisLoad`, `InfluxLoad` and `MongoLoad` |
| `QueryRunner` | `query/benchmarker.go`, `query/scanner.go`, `query/stat_processor.go` |
| `MCQueryRunner` | its configurations |
| `QueryRunnerProofs` | theorems about `QueryRunner` |
| `QueryTexts` | what the queries of nine formats ask, `cmd/tsbs_generate_queries/databases` |
| `QueryGeneration` | `runQueryGeneration` of `internal/inputs/generator_queries.go`, the fillers and random choices of `cmd/tsbs_generate_queries/uses` |
| `MCQueryGeneration` | its command lines |
| `QueryGenerationProofs` | theorems about `QueryGeneration` and `QueryTexts` |
| `DataGeneration` | `runSimulator` of `internal/inputs/generator_data.go`, the simulators of `cmd/tsbs_generate_data/common`, `devops` and `iot` |
| `MCDataGeneration` | its configurations |
| `DataGenerationProofs` | theorems about `DataGeneration` |
| `TagCache` | `processCSI` and `insertTags` of `cmd/tsbs_load_timescaledb` and `cmd/tsbs_load_clickhouse` |
| `MCTagCache` | their configurations |
| `TagCacheProofs` | theorems about `TagCache` |
| `TimeIntervals` | `internal/utils/time_interval.go`, `time_util.go` of `cmd/tsbs_run_queries_cassandra` |
| `CassandraPlans` | the query plans of `cmd/tsbs_run_queries_cassandra` |
| `MCCassandraPlans` | its databases and queries |
| `CassandraPlanProofs` | theorems about `TimeIntervals` and `CassandraPlans` |

### LoadPipeline

`filling`, `unsent`, `ocnt` are the locals `batches`, `unsentBatches`, `ocnt` of `scanWithIndexer`; `toWorker`
and `toScanner` are the channels of `duplexChannel`, sequences of at most `QueueLen` batches; `wpc`,
`wbatch` say where each worker is in `work`. Every iteration of the scan loop is a choice between
receiving an acknowledgement (`SelectAck`) and the default branch (`SelectDefault`) followed by reading a
point (`Read`). A send that may block is a state of its own (`SendOwed`), so a full channel stops
the scanner exactly where the code stops. A worker's processing, counting and acknowledging are
three steps, as other goroutines run between them. Points are numbers, a batch is a sequence of them; the decoder
and the indexer are external: any point may go to any channel.

`PointDelivery` has no batches, Go channels or acknowledgements. Points are numbered as they are accepted, so those that wait for
a channel are a set; a worker takes the oldest of them, at most a batch, and delivers the run. The
refinement (`Delivery`, at the end of `LoadPipeline`) maps the points in `filling`, `unsent` and `toWorker` of a channel to the set
that waits, and the batch of a worker that processes to the run it holds.

### LoadSetup

Several clients set up a load on one server, each with its flags, at once or in turn (`inTurn`). A method of a creator is
the `script` of statements it sends, which the server executes one at a time between those of other clients
(`Execute`), or fails (`Fail`). `pc` follows `useDBCreator`: the check whether the database exists, removing,
creating, what comes after, then the load, of which the first batch matters (`Write`, `WriteFails`). A table is the set of those
whose rows it holds, `Old` for rows from before. `header`, `known` and `session` are what a creator has read of the file, the
columns it remembers and the session the processors use. A server that does not answer `DBExists` ends the program
(`Unanswered`) or is taken for one without the database (`TakenForNone`); MongoDB goes on where a drop fails (`Ignored`), and
whether it still starts afresh is then open (`KeepsOlder`).

A statement that is acknowledged has been done: what a creator does not look at, as the body of an answer of Influx, is taken to say
so. The header of a file begins with "tags", as `tsbs_generate_data` writes it, so the error `PostCreateDB` of TimescaleDB
returns for another first word (`cmd/tsbs_load_timescaledb/creator.go:131`) does not occur.

### RedisLoad, InfluxLoad, MongoLoad, RedisFunctors

`RedisLoad` begins with the file: `Serialized` writes TS.CREATE before the first sample of a series, as far as `keysSoFar` tells.
`Dispatch` is `ProcessBatch` up to its wait (no send in it can block), `Send`, `FlushAndSend` and `Leave` are the goroutine of a
connection, `pipe` the commands sent and not executed, `Execute` the server, `Collect` the end of the batch. A flush waits
until all that was sent is executed and the metrics channel has room. Queues, channels and pipelines are first in, first out and filled in
the order of the file, so each is a set of lines, of which the first is taken.

`InfluxLoad` has two processes for each worker: the loop of `ProcessBatch` (`Write` and the message after it, `BackOff` or
`Settle`) and `processBackoffMessages` (`Message`, `MessagesEnd`). The server gives any answer of `Answers`; a write that timed out may have
been done. Each `Write` is one request: the HTTP client library, which is not part of the repository, is taken not to send a POST again by itself.
The workers share nothing, so one is checked.

`MongoLoad` has the aggregating processors: `Gather` puts events and new documents aside, `Insert` and `UpdateDoc` are the
bulk operations, document by document as a server executes them among those of other workers. A slot
holds the number of the event that was set last. As in `RedisLoad`, what waits is a set of places in the file.

`RedisFunctors` is not concurrent: a functor is applied to a response, and the result is compared with what the query means.

`MCDatabases` checks the four in one run; `which` says which of them a behaviour is about. It extends the three loaders, so that
the properties checked are those proved.

### QueryRunner

Queries are numbered as the scanner numbers them and the file ends anywhere up to `MaxQueries`. A
statistic is the query, whether it was warm and which part it measures; the groups are the set of
statistics pushed, `counter` is `i` of `process`. `conf` holds the flags of a run; its `statsFirst` says
whether the statistics goroutine is scheduled first, as it almost always is; with `FALSE` it makes its
channel (`MakeChannel`) and enters the wait group (`AddWait`) at any time, as Go allows.

### TagCache

A call of `processCSI` is five steps of a worker, cut where the code unlocks: `Check` (which rows have no
id, under the read lock), `Lock`, the insert, `Merge` (the returned ids, and `Unlock`) and `Assign` (look
the ids up under the read lock and store the rows). `cache[c]` is `syncCSI.m` of an index, `writer[c]` who
holds its mutex for writing; an index belongs to a process, or to a worker with `--hash-workers`. Steps
under the read lock are atomic, as a reader excludes writers and changes nothing. The two loaders differ in
their insert: PostgreSQL inserts the rows that do not conflict with the unique index on `tags` and returns
those alone (`Inserted`), with ids from a sequence that advances for refused rows too; for ClickHouse the
client numbers the rows. Tags are their first value (the host) and whether another value is empty, since
this decides what conflicts and what key a returned row has (`Conflict`, `KeyOf`). The databases are
modelled by the statements the code sends.

### CassandraPlans

Each run answers one query. `Init` takes any database of a small set and lists its series in any order;
then the plan is made and executed series by series, one action for each kind of plan:
`PlanWithServerAggregation`, `PlanWithoutServerAggregation`, `PlanNoAggregation` and `PlanForEvery`. Which of a
plan's series comes next is free: the client-side index hands them out by ranging over Go maps. Time is
in hours of a day of `Day` hours, values are small numbers and 0 is what the code answers for none. The
properties compare the finished result with the answer computed from the database directly.

### DataGeneration

One state machine for a run of `tsbs_generate_data`: the base simulator (`made`, `generator`, `measurement`, `epoch`,
`reporting` are its counters; the devops, cpu-only and IoT base simulators differ in the number of
measurements only), the IoT simulator on top of it, and `runSimulator`, which writes every
`groups`-th point returned. A point is named by the epoch, measurement and generator it was
made for. The IoT simulator works in `job`: one state per iteration of the loops of
`generateBatch`, `getNextEntry` and `flushBatch`; the calls of `simulateNextBatch` to itself are rounds.
A `batchConfig` is drawn slot by slot when it is looked at instead of before: its slots are visited once each, in
order, and `previous` keeps the count `newBatchConfig` keeps. `missing` and `emitted` are history.

The program never gets past `AskMaxPoints` with the IoT use case (below). The rest of the IoT simulator is
therefore modelled as its own tests drive it, without that call (`bar = FALSE`).

### QueryGeneration

A behaviour is a plan of runs of `tsbs_generate_queries`, one after the other with one seed. The seed is the `stream` of
numbers math/rand gives; what a run needs of it is fixed for those that follow, so runs can be compared. `run` is the one going
on, `used` its place in the stream, `filled` and `group` are the counters of the loop, `todo` is what the method of the database
still has to draw for its query (`Draws` has the order in which each draws), `drawn` the result. `DrawHost` is one turn of
the loop that looks for a host not drawn before. `QueryTexts` has one operator per method and database: the query's text
becomes a question, which rows it reads, how it groups and reduces them and which results it takes. `Same`
is when two questions differ only in a fraction of a second, in how MongoDB finds its documents, or in keeping one host
apart. `tags` are the flags `--timescale-use-tags` or `--clickhouse-use-tags` ("columns") and `--timescale-use-json` ("json"); the
database is taken to be loaded the way they say. A text the database would refuse is `Faulty`, one that no row passes is `OfNoRows`.

## Runs

| run | bounds | shows |
| --- | --- | --- |
| `load_shared` | 2 workers, 1 queue, batches of 1, 8 points | accounting, flow control, shutdown, refinement; 8 points fill both channels, both workers and the unsent queue |
| `load_queues` | 3 workers on 2 queues, batches of 2, limit 7 of 8 points | no starvation where a queue has more workers than its share, no point lost or repeated, order on the queue with one worker, partial last batch, the summary |
| `load_setup` | 8 systems, 2 clients with any flags, at once or in turn, with or without an older database, failures at any statement | rows are kept by those told to, a creator starts afresh, several clients load together, a client that gets to its load is prepared for it |
| `databases` | Redis: 2 workers, 1 or 2 connections, pipelines of 0 to 2, batches of 3 lines, 4 points; InfluxDB: 3 batches, a channel of 2 messages; MongoDB: 2 workers, batches of 2, hours of 4 seconds, files of 5 or 6 events; functors: responses of 1 to 3 series with points at 2 times | samples reach their series, what is taken is executed and counted, batches return; a counted batch is stored, backoffs are reported once, calls return; events are in their slots; functors return what the query means |
| `query_measure` | 2 workers, up to 3 queries, configurations of limit, burn-in, prewarming, partial statistics, start of the statistics goroutine | every query measured once (or, when Run overtakes the statistics goroutine, nothing measured), counts, limit, warm after cold, end of Run |
| `query_stats_unfinished` | 1 worker, 1 query | the disagreement below |
| `tags_shared` | 2 workers, 2 hosts, 3 calls of up to 2 rows, 8 configurations | rows refer to tags of their host, a host keeps its id, calls return |
| `tags_clickhouse_ids` | 1 worker, 2 hosts, 2 calls of up to 2 rows | the disagreement below |
| `cassandra_plans` | 2 hosts, 2 fields, databases of 1 or 2 rows, every kind of plan | results are the answers to the query |
| `generate_data` | 4 hosts, up to 4 epochs, 2 groups; 1 or 2 trucks, 4 to 6 points, batches of 2 | each point written once or dropped on purpose, the fleet grows to the scale, groups write their share, no panic |
| `generate_queries` | 9 formats, 19 query types as the use cases make them and 2 with more hosts than there are, 3 hosts, TimescaleDB and ClickHouse with any flags about tags, 2 queries of a run (3 in groups of 2), streams free for 4 numbers out of 3 | the databases get the same question about the same window and hosts, within the data; groups share the work; a type succeeds for all or none |
| `cassandra_client` | one query | the disagreement below |

`load_shared` and `query_measure` also check that the programs end, `tags_shared` and `databases` that calls return,
under fairness. In `load_queues` eight points with a limit of seven fill batches of two on both queues and leave one
that is partial.

In `load_setup` two clients are enough for one to disturb another; a third does nothing to a client that a second
could not do before or after. A table stands for all of its kind, since each is dropped and created like the others.

In `databases` batches of three lines cut the file between a TS.CREATE and its sample, and four points give each
connection more commands than its pipeline holds. Two messages are fewer than InfluxDB's three batches send, so
the channel fills; the capacity of the code, 100, only makes that rarer. Two documents for each worker, a second event in
one second and hours on both sides of a boundary are what the key and the slot of an event depend on. Three series in two columns
are the least that are reduced and merged at once.

In `tags_shared` two rows in a call are the least in which a host repeats, three calls the least in which a
later call meets an index that two calls have filled. A third row or host adds no new relation
between rows: what matters is whether two have the same tags, the same first tag, or neither.
For any sizes the argument is a proof (below). In `generate_data` six points in batches of two are enough for
more than a batch of entries to be pending at the end, for entries to be held twice and for a base that
finishes between the iterations for one entry; four hosts over three and four epochs grow by steps that
are even and that are rounded.

In `generate_queries` a second has eight instants, a long enough one for bounds between milliseconds, and the types that ask
for eight hosts ask for two; three hosts are enough for a host to be drawn twice in vain and for two queries to
differ. Of the three numbers one is the least, one gives a bound off every grid and one the last start of an hour.
The first four numbers of a stream are free, which is every choice for the first query of any type; the rest
of the stream is fixed.

Every property of a passing run has a mutant in PROJECT.json: an operator beside the
original (commented "Slip:") that makes the mistake, with which TLC finds the property violated.

Fairness is weak and per goroutine: the Go scheduler runs every goroutine that can
run, and a goroutine blocked on a channel is not enabled. No fairness is assumed between the
branches of a `select`. In `TagCache` a worker that waits for a mutex is fair in the same weak sense; as the
calls are bounded, a writer is not kept out by readers for ever (Go's `RWMutex` guarantees as much). `DataGeneration` and
`QueryGeneration` are one goroutine each, without fairness. In `databases` the goroutines of a Redis load and its server are
fair together, as nothing in it repeats; for InfluxDB the server answers every
write, and accepts a batch that it is sent over and over (strong fairness of `Accept`): the loader itself tries without end.
No worker need take a batch or close.

`databases` does not check deadlock, as its models stop when the load or the call is over, and so may Redis with a pipeline of 0
(below); `BatchReturns` and `CallsReturn` say what may not stop early. `query_measure` and `query_stats_unfinished` do not check it
either: a worker that sends on the channel before it
is made waits for ever, and so does Run.

## Disagreements found

* `CloseAndWait` may return before the statistics are handled, since `process` enters the wait group
  itself (`query/stat_processor.go:75`).
* The ClickHouse loader numbers new tags from the size of its index, but gives an id to each row of a new
  host in a batch: a later host gets an id that is taken (`cmd/tsbs_load_clickhouse/process.go:260`). With
  `--hash-workers` every worker counts from 0 for itself.
* The client-side aggregation plan of Cassandra looks its aggregators up by a pointer it has just made and
  so answers 0 (`cmd/tsbs_run_queries_cassandra/query_plan.go:184`).

Seen in the models, or in the code while modelling it, without a run of their own:

* with one seed the high-cpu queries differ between databases: four draw the hosts before the window, four after it
  (`cmd/tsbs_generate_queries/databases/cassandra/devops.go:148`), while README.md:69 promises identical queries
  (`SameDraws` names the exception);
* a batch size supplied by a loader is ignored: it is set in the argument after that was copied (`load/loader.go:110`);
  `--insert-intervals` is read before the flags are parsed and has no effect (`load/loader.go:119`);
* `--do-load=false` ends with a fatal error on files that begin with a header, which only the creator reads
  (`load/loader.go:77`, `cmd/tsbs_load_timescaledb/scan.go`; `ReadOnly`);
* "Disable on all but one client" (`load/loader.go:78`) does not work for ClickHouse, where only the creator learns the columns, nor for
  TimescaleDB, where a second client makes the tables again unless it has `--create-metrics-table=false` (`ProcedureFails`);
* an error of `PostCreateDB` is not looked at, and a Cassandra load goes on without a session (`load/loader.go:233`);
* neither is that of dropping a MongoDB collection (`cmd/tsbs_load_mongo/creator.go:44`): as `CreateDB` does not mind one that "already
  exists" (line 65), the load goes on over the old rows (`KeepsOlder`, the exception of `CreatorStartsAfresh`);
* when its server does not answer, `DBExists` of Cassandra and SiriDB says there is no database, so `--do-abort-on-exist` does not abort
  (`TakenForNone`; making the database then fails if it is there);
* the SiriDB creator cannot remove an older database and so refuses to replace one; the RedisTimeSeries creator removes
  none, so a second load ends at its first TS.CREATE (`Fatal`);
* the CrateDB processor gives its driver a table's name as a statement (`WriteFails`);
* a sample for a Redis series that does not exist is an error within the reply of TS.MADD, which the loader does not look into and
  counts (`ExecuteMadd`). It happens with `--single-queue` and several workers, and with measurements that share
  the name of a field, as disk and mem do, since `keysSoFar` leaves the measurement out
  (`cmd/tsbs_generate_data/serialize/redistimeseries.go:39`; `SamplesKept` names both);
* each reply counts as 10 metrics, TS.CREATE too; with `--pipeline 0` each connection sends two counts, the first of
  nothing, and they may not fit the channel: the batch then never returns (`InBatch` leaves this out);
* an InfluxDB write that timed out is sent again though it may have been done (`CountedIsStored`);
* MongoDB documents are "aggregated on a per-sensor, per-hour basis" (`cmd/tsbs_load_mongo/aggregate_loader.go:98`), but their
  key has the tag hostname only: trucks share documents, and their events replace each other (`EventsHaveTheirSlot`);
* `HighCpu` panics for a host without the series usage_user, and the columns of `GroupByTimeAndTagMax` have neither labels nor an
  order (`FunctorsRight`); the runner has its calls of the functors commented out;
* `MaxPoints` of the IoT simulator calls itself, and `runSimulator` asks for it before the first point: generating
  IoT data ends with an overflow of the stack (`cmd/tsbs_generate_data/iot/simulator.go:48`; `phase = "overflow"`);
* the Cassandra plan for the last row of every host keeps the day that happens to come first
  (`cmd/tsbs_run_queries_cassandra/query_plan.go:437`); `ForEveryRowIsWhole` (in `RowsRight`) has what holds: the last row within a day;
* high-cpu-all panics for Cassandra, CrateDB and MongoDB, which ask for 0 random hosts (`SucceedTogether` names the exception);
* queries that ask something else than those of the other databases (`AsksOtherwise`): Influx has cpu-max-all by the minute
  instead of the hour, the oldest five in groupby-orderby-limit and the oldest location in both location queries, filters
  low-fuel before it takes the last row, and looks at the first ten-minute bucket only for stationary trucks; SiriDB keeps hosts apart, has
  no limit and returns one metric for high-cpu (as its comments say); RedisTimeSeries limits each series; Cassandra's
  double-groupby averages over all hosts, as its query has no field to keep hosts apart (`query/cassandra.go:11`), though its comment
  says "GROUP BY hour, hostname" (`cmd/tsbs_generate_queries/databases/cassandra/devops.go:88`); MongoDB's lastpoint finds nothing: it looks up
  documents by a `$measurement` that two `$group` stages have dropped (`cmd/tsbs_generate_queries/databases/mongo/devops.go:391`). Without a table of
  tags ClickHouse returns every row for lastpoint, and the double-groupby of ClickHouse and TimescaleDB is refused, as it takes hostname from a
  subquery that does not have it (`clickhouse/devops.go:137`, `timescaledb/devops.go:158`). With `--timescale-use-json` TimescaleDB
  refuses double-groupby (`tags->>` asks the row and not its tagset), last-loc of single trucks (`t.tags_id`,
  `timescaledb/iot.go:76`), high-load (`d.current_load/t.tagset->>` divides by the document, line 147), and lastpoint unless
  `--timescale-use-tags=false` comes with it (`timescaledb/devops.go:224`);
* two of the IoT types that are not modelled: for TimescaleDB breakdown-frequency counts the rows with any status as broken down
  (`count(STATUS = 0)`), so every period is and no truck ever breaks down; avg-daily-driving-duration truncates hours for TimescaleDB, and
  counts every ten-minute period for Influx, driven or not;
* the last hour of a MongoDB groupby-orderby-limit may be missed if the data does not start on an hour (the run's does; `DocsCoverWindow` leaves it out);
* with `--prewarm-queries` the burn-in ignores half as many queries as it says (`query/stat_processor.go:94`);
* with fewer queries than the burn-in, the summary prints a wrapped unsigned difference (`query/stat_processor.go:162`);
* `--burn-in` without `--max-queries` panics although 0 is "no limit" (`query/benchmarker.go:142`);
* the IoT simulator takes points from its base after that has finished, when entries are skipped, so it may
  write more than `--max-data-points` (`cmd/tsbs_generate_data/iot/simulator.go:245`);
* an interleaved group of IoT data is only a share of the same data with the same `--seed`; the default is the time;
* the mean of a bucket over several series is the mean of their means, not of their rows;
* with server-side aggregation, a query for two fields looks for one field with a comma in its name;
* a TimescaleDB row whose first tag is NULL is stored with `tags_id` 0, as is a row whose tags another
  process has inserted first (`RowsReferToTheirHost` names both as its exceptions).

## Proofs

The theorems hold for every value of the constants that the named assumption of the module allows: `LoadAssumption`, `SetupAssumption`,
`QueryAssumption`, `TagAssumption`, `GenerationAssumption`, `CassandraAssumption`, `RedisAssumption`, `MongoAssumption`, and for the
queries `CalendarAssumption`, `NumbersAssumption` and `PlansAssumption`; `InfluxLoad` needs none. TLC evaluates each in the runs. They say what the
constants are (counts are numbers, files are sequences, command lines pass the program's own validation), nothing of how
large they are. Each theorem is `Spec => []P`, of an invariant `P` that a run checks too, unless said otherwise.

| module | theorems |
| --- | --- |
| `LoadPipelineProofs` | `TypeCorrect` (`TypeOK`); `OutstandingIsCounted` (`OutstandingCounted`); `ShutdownIsSafe` (`NoSendOnClosed`); `BackpressureHolds` (`Backpressure`); `IdleWorkersAreServed` (`IdleWorkerIsServed`); `PointsLoadedOnce` (`ExactlyOnce`); `StoredInReadOrder` (`ReadOrder`); `PipelineDelivers` (`Spec => ImplementsDelivery`, the refinement) |
| `LoadSetupProofs` | `CreatorsStartAfresh` (`CreatorStartsAfresh`); `ClientsAreSetUp` (`SetUpToRun`); `KeepersKeepRows` (the action property `RowsAreKept`); `ClientsHoldTheirRows` (`ClientsLoadTogether`) |
| `QueryRunnerProofs` | `TypeCorrect`; `EveryQueryIsMeasured` (`AllMeasured`); `WarmStatisticsFollowCold` (`WarmAfterCold`); `ReportedCountsAreRight` (`ReportedCountIsRight`) |
| `TagCacheProofs` | `TypesAndLocks` (`TypeOK`); `StoredRowsReferToTheirHost` (`RowsReferToTheirHost`); `HostsKeepTheirId` (`HostKeepsItsId`) |
| `DataGenerationProofs` | `PointsAreGeneratedOnce` (`EachPointOnce`); `InsertedEntriesAreThere` (`NeverPanics`); `GroupsWriteTheirShares` (`GroupWritesItsShare`); `FleetReachesScale` (`FleetGrowsToScale`) |
| `DatabaseLoadProofs` | MongoDB: `EventsAreInTheirSlots` (`EventsHaveTheirSlot`); InfluxDB: `CountedBatchesAreStored` (`CountedIsStored`), `EachBackoffIsReported` (`BackoffsReported`); RedisTimeSeries: `SamplesReachTheirSeries` (`SamplesKept`), `BatchesAreCounted` (`CountsWhatIsDone`) |
| `CassandraPlanProofs` | `OverlapIsSharing`, `BucketsDisjoint`, `BucketsCover`, about operators; `PlansReturnTheRows` (`RowsRight`) |
| `QueryGenerationProofs` | `OneSeedOneDraw` (`SameDraws`); `GroupsDivideTheWork` (`GroupsShareTheWork`); `TypesSucceedTogether` (`SucceedTogether`); `QueriesAskAboutData` (`AsksWithinData`); `QueriesAskWhatIsMeant` (`AsksWhatIsMeant`) |

### The insert pipeline

`OutstandingCounted` is not inductive: a cardinality of batches in four kinds of places changes by one
in a step only if the places are disjoint. The invariant `IInv` of `LoadPipelineProofs` therefore says that all lines (the queues, the
hands, the unsent batches) hold different batches (`Distinct`), that a
batch about to be made is new (`Fresh`), and ties the scanner's control to what is left outstanding
(`ShutdownOrder`). The lines form a family of finite sets; the lemmas `FamilyAdd`, `FamilyRemove` and
`FamilyMove` say what adding, removing and moving a batch does to its size.

`BackpressureHolds` rests on `FlowControl`: the default branch of the select needs room, and each turn of the flush adds one
batch. `IdleWorkersAreServed` rests on `SlotsInUse`: while a batch of a channel waits in `unsentBatches`, as many
batches as the channel has slots are in its directions, with its workers or promised by an acknowledgement. If a worker is idle, the others are
fewer than the slots, so an acknowledgement is on the way.

`PointsLoadedOnce` follows the points instead of the batches. The steps of the pipeline are first shown to be of five kinds (`Fills`,
`Dispatches`, `Takes`, `Works`, `Rests`), which only see the batches of a channel no worker has taken as one line
(`LineOf`: a batch passing from `unsentBatches` to the channel changes no line). `PointsOnce` says that pending batches share no
point with each other or with the database, and that every point read is somewhere; `BatchShape` keeps points ascending and full batches
moving; `CountExact` has the points stored but not added to the counter; `ScanProgress` that nothing is left at the end of the flush.

`StoredInReadOrder` needs that all points of a channel stored or in hand are before those of its line, and these in order
(`LineOrder`), and that the only worker of a queue has stored its batch before it takes the next (`StoreOrder`).
In the refinement `Read` is `Accept`, `Take` is `Take`, `Process` is `Deliver` and the summary is `Finish`; every other step is a
stutter. That `Take` takes the oldest points is `LineOrder`, that they are at most a batch is `BatchShape`, and that nothing is left
at the end is `ScanProgress`.

### The setup of a load

What a client will still do is in its script, so the invariants of `LoadSetupProofs` speak of the statements left: `Methods` says
which statements a method can contain, and with which flags it is called. The lemmas `RemovalSays`, `CreationSays` and
`PostSays` say for all eight systems what the methods contain.

* `OldRows`: while a creator removes, each table with old rows is one a statement left in its script will remove; afterwards there are
  none, or, where an unanswered check was taken for no database, the statement that makes the database is still to be refused. No other
  client brings old rows back (`OldOnlyLeave`). Once a MongoDB server has failed a statement nothing is claimed for it (`OlderStay`).
* `Preparation`: each table's columns are known, or a `learn` is left for them; the session is open, or a `connect` is left; a creator of a
  keyspace has it, or will create it, unless someone else may drop it. Only a client in `RemoveOldDB` drops a database (`BaseStays`).
* `Kept`: among clients that are all told to keep rows, one at most has created the database, as `CREATE DATABASE` is refused the second time. Only
  this one may drop tables, and until its last drop there is no table of metrics, so nobody can have
  written (`NoMetricsYet`, `NoRowsYet`). That the last drop comes before the table is made is a property of the script (`MetricsLast`).
* `Together`, for `ClientsHoldTheirRows`: on the course the procedure describes (one client creates, the others start once it loads, no failure
  of the server), the script of the first client can run as it is (`CanRun`: each statement is possible once those before it are done), clears what was
  there and leaves a database with its tables (`FirstLeads`). So the others find what they need, and no one who holds its rows loses them (`FollowsFirst`).
  The course is a condition on the past that a later step can only leave, so what it implies is kept by every step that stays on it.

### The query benchmark

`RunOrder` and `StatOrder` tie Run, its scanner, the workers and the statistics goroutine to each other: whose end waits for whose, and
what is closed by then. `QueryOnce` follows the queries through the job channel, in order and each to one worker; `OutputShape` has
the statistics a worker is sending as those of the run it made; `StatOnce` that each statistic is to be sent, in the channel, ignored or
recorded, at one of these. `ColdFirst` orders the channel, and `CountRight` says that the counter passes the burn-in before anything is
recorded.

### Data generation

The base simulator numbers its points: `BaseRuns` says that `madePoints` is the number of the next one, counted through epochs,
measurements and generators, so a point it makes is none it made before (`BaseGoesOn`; two points with one number are the same,
`PositionsDiffer`). The IoT simulator then only moves points. `Once` says that the places they can be in (returned, the current batch, the one being
made, the entries and batches held back, dropped) have none in common and hold all that was reported (`SplitUp`), none twice within one
(`NoneTwice`). For `NeverPanics` it adds that the entries the batch may still insert are there (`JobFits`), since only the batch being made takes
any. `GroupsWriteTheirShares` needs both: `currGroupID` is the number of points returned modulo the groups (`Shares`), and as no
point is returned twice, none is written in another's turn.

`FleetReachesScale` follows devops runs without a limit (`StraightOn`): what was returned are exactly the points before the next one
that report. At the end an epoch therefore has the hosts below its size, and the sizes are quotients of multiples of the growth by
the epochs; `SharesGrowEvenly` says that two steps of such quotients differ by one at most.

### Tags

That a stored row has an id rests on more than the indexes: a row refused by the unique index gets its id
from the index only if whoever inserted its tags has merged them. `IInv` of `TagCacheProofs` therefore adds that ids in
the indexes and in returned maps are of tags of their host (`IndexesTrue`); what each worker has learnt of
its rows at each step (`RowsLookedUp`: ids found are not lost, missing ones are returned or found); and that tags in
the table are in the index their host is looked up in, or with a worker about to merge them there
(`TagsKnown`), who then holds the lock, so no one else can be inserting. `RowsAtHome` says that with hashing
a host has one index. The two inserts are shown to be instances of one relation (`InsertOf`), and
`InsertStep` is proved for it once. `HostsKeepTheirId` adds that without empty tags the unique index keeps one row of the table per
host (`TagsUnique`); ids are of tags of their host, so two ids of one host are the same.

### Loaders

MongoDB: `DocInv` says that what waits at a worker is hashed to it (`EventsAtHome`); that the documents a worker remembers are of events of
its own, and on the server or in its queue, once (`DocsRemembered`); and that a document with a hostname that is on the server
was inserted by the one worker that remembers it (`OneDocument`). A second insert would need a second worker for the host.

InfluxDB: a batch that is stored and will be sent again has timed out (`Sent`). For the reports, batches turned away are
those printed, those whose backoff a message on the channel ends (`Ends`), and one if the last message sent says so (`Reports`). That
receiving a message moves an end from the channel to the count is the lemma `Receiving`, a bijection between positions.

RedisTimeSeries: the control (`CInv`) has the lines of a host on one queue and, within a batch, at one connection, and nothing left at a
connection that is done. `DInv` adds that a line is in one place until it is executed, and stored or dropped from then on. For
`SamplesReachTheirSeries` `Ordered` says that the line that creates a series is never behind a later line of its host: not in a later
queue, connection or pipeline. This needs one worker for each queue, which is the exception `SamplesKept` names. For
`BatchesAreCounted` the metrics counted, those in channels and ten for each command waiting or sent add up to ten for each row
taken (`Counted`); `Total` counts a sum over workers and connections as the cardinality of a set of units.

### Intervals and plans of Cassandra

The first theorems hold for all instants and windows: `Overlap` of non-empty intervals is having an instant in common, and the buckets of a query
do not overlap and cover its range. The arithmetic they need of `Truncate`, that a multiple of the window is at
most one window below its instant, is a lemma.

`PlansReturnTheRows` is about plans without aggregation. Each value in a row of the database is read by one query of the plan (`PlanOf`), which
is left or has been executed. `WhereSoFar` says that there is a result row for each match whose query has been executed, with the values read so
far, and that the first pass reads only the field of the clause; `EverySoFar` that what a host has so far is a part of
one row of it, the last of its day. When no query is left these are the answers, whatever the order in which the index lists the series.

### Query generation

What a run draws is decided by what its method draws and by the stream of numbers. The moments these lay down are the `Course`: the least set that holds
the beginning and goes on with each number (a least set, as the prover has no recursion). Each step counts one, so no two
moments of a course have the same number of steps (`MomentsDiffer`) and there is one query of each number (`QueriesDiffer`), whoever writes it.
A stream that is longer has the same course as far as it went (`CourseGrows`).

`RunInv` says that the run going on is at a moment of its course (`OnCourse`), that what each run has written are the queries of its turn on
its course (`WrittenInTurn`), what a run that goes on has got past (`GotPast`: a window that fits, hosts that are there) and how it has ended and why (`EndsRight`). Then
`SameDraws` and `GroupsShareTheWork` compare two courses of one task, and for `SucceedTogether` whether a run panics depends on its type and
data only.

Whatever is drawn for a query fits its type (`DrawnSoFar`). For `AsksWithinData` it remains that the hours MongoDB is asked for are all that
the window touches (`HoursCover`), from either end and past midnight. `QueriesAskWhatIsMeant` has a lemma for each format (`TimescaleMeans` to `NaiveMeans`), which
compares its questions with those meant, kind by kind; that bounds printed to the microsecond, millisecond or second agree to the second is
arithmetic of truncation (`Truncated`, `PrintedAgree`).

### Only model-checked

All liveness (`Termination`, `CallsReturn`, `BatchReturns`): the prover handles neither fairness nor `ENABLED`. Of the safety properties of
passing runs two: `BucketsRight` of `CassandraPlans` and `FunctorsRight` of `RedisFunctors`. Both compare what is computed by folding over a
sequence of any length with its meaning; for every input that would be induction over the sequence, out of the prover's reach.

## Not modelled

* Formats, texts and files: serializers (but the RedisTimeSeries one), decoders, the SQL and JSON of statements and queries. What they
  say is modelled where a property depends on it.
* Values: the random walks of measurements (`common/distribution.go`) are floats that nothing in the control depends on.
* Six IoT query types that draw nothing and are about all of the data (fuel, loads, durations, sessions, activity, breakdowns):
  their answers depend on the arithmetic of the two query languages, not on this program.
* Insert intervals: a sleep of a worker, which is indistinguishable from its not being scheduled; the flag has no effect (above).
* The loaders of Cassandra, CrateDB and SiriDB, MongoDB's processor of a document per event, and the runners of queries other
  than Cassandra's: one call of a client library per batch or query. They are the external processor of
  `LoadPipeline` and `QueryRunner`.
* In the query benchmark: the rate limiter, interval reports, profiles; that a query goes back to its pool without being reset,
  so fields gob leaves out may survive (`query/benchmarker.go:212`), is listed as a hazard without a property.
* That generating IoT data ends: each round of `simulateNextBatch` ends with a probability only.

## Plan

The modules planned are written, and the safety properties of the runs are proved but for the two above. What could be added are the loaders
and query runners listed as not modelled, if they come to keep state of their own.
