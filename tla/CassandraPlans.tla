--------------------------- MODULE CassandraPlans ---------------------------
(***************************************************************************)
(* The Cassandra query runner (cmd/tsbs_run_queries_cassandra): a query    *)
(* is planned with the client-side index of the series, each CQL query of  *)
(* the plan is executed, and its rows are put together on the client.      *)
(*                                                                         *)
(* A series is a host, a field and a day.  The database is external: a     *)
(* partial function from host and instant to the values of a row, one for  *)
(* each field, as the serializer writes them.  There is one measurement.   *)
(* The index lists the series in whatever order the database returned      *)
(* them, so the CQL queries of one field are executed in any order.        *)
(***************************************************************************)
EXTENDS TimeIntervals, Sequences, FiniteSets, SequencesExt

CONSTANTS
    Fields,        \* the fields of the measurement
    Day,           \* BucketDuration
    Databases,     \* the contents of the database: functions from <<host, instant>>
    HLQueries      \* the queries: [start, end, group, fields, tagSets, aggr, desc,
                   \*               limit, where, forEvery, plan]

\* A database has finitely many rows.  The fields of a query are distinct and among them is
\* that of a WHERE clause (HighCPUForHosts asks for all CPU metrics where usage_user is high);
\* NewTimeInterval refuses an end before the start.
ASSUME CassandraAssumption ==
    /\ Day \in Nat \ {0}
    /\ \A d \in Databases :
           /\ IsFiniteSet(DOMAIN d)
           /\ \A p \in DOMAIN d : p = <<p[1], p[2]>> /\ p[2] \in Nat
    /\ \A r \in HLQueries :
           /\ r.start \in Nat /\ r.end \in Nat /\ r.start <= r.end
           /\ r.fields \in Seq(Fields) /\ r.fields # <<>>
           /\ \A j, k \in 1..Len(r.fields) : r.fields[j] = r.fields[k] => j = k
           /\ r.forEvery \in BOOLEAN
           /\ r.aggr = "none" /\ ~r.forEvery => \E k \in 1..Len(r.fields) : r.where.field = r.fields[k]

VARIABLES
    db,        \* contents of the database
    q,         \* the query
    pc,
    todo,      \* CQL queries left of the plan
    aggrs,     \* aggregators of the plan, by time bucket
    rows,      \* rows put together from columns: by timestamp and series key
    latest,    \* rows of QueryPlanForEvery: by the value of the tag
    result

vars == <<db, q, pc, todo, aggrs, rows, latest, result>>

Init ==
    /\ db \in Databases
    /\ q \in HLQueries
    /\ pc = "plan"
    /\ todo = {}
    /\ aggrs = <<>>
    /\ rows = <<>>
    /\ latest = <<>>
    /\ result = {}
-----------------------------------------------------------------------------
(* The client-side index. *)

Series == {[host |-> p[1], field |-> f, day |-> p[2] \div Day] : p \in DOMAIN db, f \in Fields}

DayOf(s) == Interval(s.day * Day, (s.day + 1) * Day)

MatchesTimeInterval(s, i) == Overlap(DayOf(s), i)

\* Slip: one matching tag set is enough.
MatchesSomeTagSet(s, tagSets) == tagSets = {} \/ \E hs \in tagSets : s.host \in hs

\* Each tag set must have at least one match.
MatchesTagSets(s, tagSets) == \A hs \in tagSets : s.host \in hs

QueryInterval == Interval(q.start, q.end)

QueryFields == {q.fields[k] : k \in 1..Len(q.fields)}

FieldPos(f) == CHOOSE k \in 1..Len(q.fields) : q.fields[k] = f

\* The series of the query's fields, tags and time.
ApplicableSeries ==
    {s \in Series : /\ s.field \in QueryFields
                    /\ MatchesTagSets(s, q.tagSets)
                    /\ MatchesTimeInterval(s, QueryInterval)}

CQLQuery(s, bucket, from, to) == [series |-> s, bucket |-> bucket, from |-> from, to |-> to]

\* External: the rows a CQL query selects, as pairs of an instant and a value.
Selected(c) ==
    LET s == c.series
    IN  {<<p[2], db[p][s.field]>> :
            p \in {r \in DOMAIN db : r[1] = s.host /\ r[2] \div Day = s.day
                                     /\ c.from <= r[2] /\ r[2] < c.to}}
-----------------------------------------------------------------------------
(* Aggregators (query_plan_aggregators.go). *)

Zero == [value |-> 0, count |-> 0]

Put(a, n) ==
    [value |-> CASE q.aggr = "max" -> IF n > a.value \/ a.count = 0 THEN n ELSE a.value
                 [] q.aggr = "min" -> IF n < a.value \/ a.count = 0 THEN n ELSE a.value
                 [] q.aggr = "avg" -> a.value + n,
     count |-> a.count + 1]

\* The mean is cut to a whole number: the values are chosen for it to be one.
Get(a) == IF q.aggr = "avg" /\ a.count > 0 THEN a.value \div a.count ELSE a.value

\* The aggregate of a set of pairs of an instant and a value.
AggregateOf(pairs) == Get(FoldLeft(LAMBDA a, p : Put(a, p[2]), Zero, SetToSeq(pairs)))
-----------------------------------------------------------------------------
(* QueryPlanWithServerAggregation. *)

\* The part of a bucket inside the query's time range.
Clipped(i) ==
    Interval(IF i.start < q.start THEN q.start ELSE i.start,
             IF i.end > q.end THEN q.end ELSE i.end)

\* The index is asked for the whole field text, which names no series when the query
\* has several fields.
SeriesOfFieldText ==
    {s \in Series : Len(q.fields) = 1 /\ s.field = q.fields[1] /\ MatchesTagSets(s, q.tagSets)}

QueryBuckets == Buckets(q.start, q.end, q.group)

PlanWithServerAggregation ==
    /\ pc = "plan"
    /\ q.aggr # "none" /\ q.plan = "server"
    /\ pc' = "server"
    /\ aggrs' = [b \in QueryBuckets |-> Zero]
    /\ todo' = {CQLQuery(x[1], x[2], Clipped(x[2]).start, Clipped(x[2]).end) :
                    x \in {y \in SeriesOfFieldText \X QueryBuckets : MatchesTimeInterval(y[1], y[2])}}
    /\ UNCHANGED <<db, q, rows, latest, result>>

\* The buckets are executed in order of time, the queries of a bucket in any.
NextInServerPlan == {c \in todo : \A d \in todo : c.bucket.start <= d.bucket.start}

\* External: the server returns one row, 0 when there is nothing to aggregate.
ExecuteWithServerAggregation ==
    /\ pc = "server"
    /\ \E c \in NextInServerPlan :
        /\ aggrs' = [aggrs EXCEPT ![c.bucket] = Put(@, AggregateOf(Selected(c)))]
        /\ todo' = todo \ {c}
    /\ UNCHANGED <<db, q, pc, rows, latest, result>>

FinishWithServerAggregation ==
    /\ pc = "server"
    /\ todo = {}
    /\ result' = {[bucket |-> b, values |-> <<Get(aggrs[b])>>] : b \in DOMAIN aggrs}
    /\ pc' = "done"
    /\ UNCHANGED <<db, q, todo, aggrs, rows, latest>>
-----------------------------------------------------------------------------
(* QueryPlanWithoutServerAggregation.  Its map of aggregators has pointers *)
(* to intervals as keys: two intervals made by NewTimeInterval are         *)
(* different keys, whatever their boundaries.                              *)

Planned(i) == [object |-> "plan", interval |-> i]
FromRow(i) == [object |-> "row", interval |-> i]

\* The order in which the buckets are listed: latest first for ORDER BY ... DESC.
ListedUpTo(b) ==
    {c \in QueryBuckets : IF q.desc THEN c.start >= b.start ELSE c.start <= b.start}

\* The buckets that get aggregators before the limit is reached.
KeptBuckets == {b \in QueryBuckets : q.limit = 0 \/ Cardinality(ListedUpTo(b)) <= q.limit}

PlanWithoutServerAggregation ==
    /\ pc = "plan"
    /\ q.aggr # "none" /\ q.plan = "client"
    /\ pc' = "client"
    /\ aggrs' = [key \in {Planned(b) : b \in KeptBuckets} |-> [f \in QueryFields |-> Zero]]
    /\ todo' = {CQLQuery(s, QueryInterval, q.start, q.end) : s \in ApplicableSeries}
    /\ UNCHANGED <<db, q, rows, latest, result>>

NextByField == {c \in todo : \A d \in todo : FieldPos(c.series.field) <= FieldPos(d.series.field)}

\* Timestamps in the order in which a CQL query returns its rows.
NotAfter(t, u) == IF q.desc THEN t >= u ELSE t <= u

BucketOfRow(t) == Interval(Truncate(t, q.group), Truncate(t, q.group) + q.group)

\* The rows up to the first one whose bucket is not a key of the aggregators.
RowsTaken(pairs) ==
    {p \in pairs : \A r \in pairs :
        NotAfter(r[1], p[1]) => FromRow(BucketOfRow(r[1])) \in DOMAIN aggrs}

ExecuteWithoutServerAggregation ==
    /\ pc = "client"
    /\ \E c \in NextByField :
        /\ todo' = todo \ {c}
        /\ aggrs' = [key \in DOMAIN aggrs |->
              [aggrs[key] EXCEPT ![c.series.field] =
                  FoldLeft(LAMBDA a, p : Put(a, p[2]), @,
                           SetToSeq({p \in RowsTaken(Selected(c)) : key = FromRow(BucketOfRow(p[1]))}))]]
    /\ UNCHANGED <<db, q, pc, rows, latest, result>>

FinishWithoutServerAggregation ==
    /\ pc = "client"
    /\ todo = {}
    /\ result' = {[bucket |-> key.interval,
                   values |-> [k \in 1..Len(q.fields) |-> Get(aggrs[key][q.fields[k]])]] :
                      key \in DOMAIN aggrs}
    /\ pc' = "done"
    /\ UNCHANGED <<db, q, todo, aggrs, rows, latest>>
-----------------------------------------------------------------------------
(* QueryPlanNoAggregation: the queries of the field of the WHERE clause    *)
(* find the timestamps and series that match, the others fill their rows.  *)

\* getWhereFn.
Where(n) ==
    CASE q.where.op = ">" -> n > q.where.pred
      [] q.where.op = "<" -> n < q.where.pred
      [] q.where.op = ">=" -> n >= q.where.pred
      [] q.where.op = "<=" -> n <= q.where.pred

PlanNoAggregation ==
    /\ pc = "plan"
    /\ q.aggr = "none" /\ ~q.forEvery
    /\ pc' = "where"
    /\ todo' = {CQLQuery(s, QueryInterval, q.start, q.end) : s \in ApplicableSeries}
    /\ UNCHANGED <<db, q, aggrs, rows, latest, result>>

Blank == [f \in QueryFields |-> 0]

\* rows with the values of one CQL query put in their column.
Fill(c, pairs) ==
    [key \in DOMAIN rows \cup {<<p[1], c.series.host>> : p \in pairs} |->
        LET row == IF key \in DOMAIN rows THEN rows[key] ELSE Blank
            own == {p \in pairs : <<p[1], c.series.host>> = key}
        IN  IF own = {} THEN row
            ELSE [row EXCEPT ![c.series.field] = (CHOOSE p \in own : TRUE)[2]]]

FirstPass == {c \in todo : c.series.field = q.where.field}

ExecuteWhere ==
    /\ pc = "where"
    /\ \E c \in FirstPass :
        /\ rows' = Fill(c, {p \in Selected(c) : Where(p[2])})
        /\ todo' = todo \ {c}
    /\ UNCHANGED <<db, q, pc, aggrs, latest, result>>

EndFirstPass ==
    /\ pc = "where"
    /\ FirstPass = {}
    /\ pc' = "columns"
    /\ UNCHANGED <<db, q, todo, aggrs, rows, latest, result>>

\* The first pass added the only timestamps and series the second accepts.
Accepted(p, host) == <<p[1], host>> \in DOMAIN rows

ExecuteColumn ==
    /\ pc = "columns"
    /\ \E c \in NextByField :
        /\ rows' = Fill(c, {p \in Selected(c) : Accepted(p, c.series.host)})
        /\ todo' = todo \ {c}
    /\ UNCHANGED <<db, q, pc, aggrs, latest, result>>

FinishNoAggregation ==
    /\ pc = "columns"
    /\ todo = {}
    /\ result' = {[time |-> key[1], host |-> key[2],
                   values |-> [k \in 1..Len(q.fields) |-> rows[key][q.fields[k]]]] :
                      key \in DOMAIN rows}
    /\ pc' = "done"
    /\ UNCHANGED <<db, q, todo, aggrs, rows, latest>>
-----------------------------------------------------------------------------
(* QueryPlanForEvery, with the host as the tag and N = 1. *)

PlanForEvery ==
    /\ pc = "plan"
    /\ q.aggr = "none" /\ q.forEvery
    /\ pc' = "forEvery"
    /\ todo' = {CQLQuery(s, QueryInterval, q.start, q.end) : s \in ApplicableSeries}
    /\ UNCHANGED <<db, q, aggrs, rows, latest, result>>

\* A host whose row is complete needs no more queries.
Complete(host) == host \in DOMAIN latest /\ Len(latest[host].values) = Len(q.fields)

\* ORDER BY timestamp_ns DESC LIMIT 1.
LastSelected(c) == {p \in Selected(c) : \A r \in Selected(c) : r[1] <= p[1]}

\* Slip: a value is appended whatever its timestamp.
SameRowAlways(row, p) == TRUE

\* The first row seen of a host decides its timestamp; others are skipped.
SameRow(row, p) == row.values = <<>> \/ row.time = p[1]

ExecuteForEvery ==
    /\ pc = "forEvery"
    /\ \E c \in NextByField :
        LET host == c.series.host
            row == IF host \in DOMAIN latest THEN latest[host] ELSE [time |-> 0, values |-> <<>>]
            taken == {p \in LastSelected(c) : ~Complete(host) /\ SameRow(row, p)}
            next == IF taken = {} THEN row
                    ELSE LET p == CHOOSE p \in taken : TRUE
                         IN  [time |-> p[1], values |-> Append(row.values, p[2])]
        IN  /\ latest' = [h \in DOMAIN latest \cup {host} |-> IF h = host THEN next ELSE latest[h]]
            /\ todo' = todo \ {c}
    /\ UNCHANGED <<db, q, pc, aggrs, rows, result>>

FinishForEvery ==
    /\ pc = "forEvery"
    /\ todo = {}
    /\ result' = {[time |-> latest[h].time, host |-> h, values |-> latest[h].values] :
                      h \in {g \in DOMAIN latest : latest[g].values # <<>>}}
    /\ pc' = "done"
    /\ UNCHANGED <<db, q, todo, aggrs, rows, latest>>
-----------------------------------------------------------------------------
Done == pc = "done" /\ UNCHANGED vars

Next ==
    \/ PlanWithServerAggregation \/ ExecuteWithServerAggregation \/ FinishWithServerAggregation
    \/ PlanWithoutServerAggregation \/ ExecuteWithoutServerAggregation
    \/ FinishWithoutServerAggregation
    \/ PlanNoAggregation \/ ExecuteWhere \/ EndFirstPass \/ ExecuteColumn \/ FinishNoAggregation
    \/ PlanForEvery \/ ExecuteForEvery \/ FinishForEvery
    \/ Done

Spec == Init /\ [][Next]_vars
-----------------------------------------------------------------------------
(* The answers the queries ask for, read off the database. *)

\* The rows of the query's hosts within its time range.
Asked == {p \in DOMAIN db : (\A hs \in q.tagSets : p[1] \in hs) /\ Within(QueryInterval, p[2])}

RowOf(p) == [time |-> p[2], host |-> p[1], values |-> [k \in 1..Len(q.fields) |-> db[p][q.fields[k]]]]

\* The greatest value of a field in each bucket, 0 in empty ones.
MaxOf(ns) == IF ns = {} THEN 0 ELSE CHOOSE n \in ns : \A m \in ns : m <= n

SumOver(ps, f) == FoldLeft(LAMBDA a, p : a + db[p][f], 0, SetToSeq(ps))

AnswerOf(ps, f) ==
    CASE q.aggr = "max" -> MaxOf({db[p][f] : p \in ps})
      [] q.aggr = "avg" -> IF ps = {} THEN 0 ELSE SumOver(ps, f) \div Cardinality(ps)

Answer ==
    {[bucket |-> b, values |-> [k \in 1..Len(q.fields) |->
          AnswerOf({p \in Asked : Within(b, p[2])}, q.fields[k])]] : b \in QueryBuckets}

Finished(plan) == pc = "done" /\ q.aggr # "none" /\ q.plan = plan
-----------------------------------------------------------------------------
(* What must hold. *)

\* Client aggregation lists the buckets of the grid, or as many as the limit allows,
\* from the end the query orders by.
LimitedBuckets ==
    LET got == {r.bucket : r \in result}
    IN  /\ got \subseteq QueryBuckets
        /\ Cardinality(got) = IF q.limit > 0 /\ q.limit < Cardinality(QueryBuckets)
                              THEN q.limit ELSE Cardinality(QueryBuckets)
        /\ \A b \in got, c \in QueryBuckets \ got :
               IF q.desc THEN c.start < b.start ELSE b.start < c.start

\* Server aggregation: the aggregate of a field in every bucket of the grid, over the
\* hosts asked for, although a bucket's rows come from several series and the
\* first and last bucket reach over the query's time range: the client's aggregator "is
\* intended to match the aggregation that a CQLQuery performs on a Cassandra server".
\* Means are asked for one host, whose bucket is one series: over several series the
\* client takes the mean of their means.  Of the client's buckets only the list is right.
BucketsRight ==
    /\ Finished("server") => result = Answer
    /\ Finished("client") => LimitedBuckets

\* A WHERE clause: exactly the rows that satisfy it, each with the values
\* of all its fields, although they are read column by column from several series.
WhereRowsRight == result = {RowOf(p) : p \in {r \in Asked : Where(db[r][q.where.field])}}

\* "the last 1 row for every host".
LastRowForEveryHost ==
    result = {RowOf(p) : p \in {r \in Asked : \A o \in Asked : o[1] = r[1] => o[2] <= r[2]}}

OfOneDay == \A p, r \in Asked : p[1] = r[1] => p[2] \div Day = r[2] \div Day

\* For every host: one row, whose columns all come from the same row of the host. It is the
\* last one when the rows of each host asked for are all of one day.
ForEveryRowIsWhole ==
    /\ \A r \in result : \E p \in Asked : r = RowOf(p)
    /\ {r.host : r \in result} = {p[1] : p \in Asked}
    /\ Cardinality({r.host : r \in result}) = Cardinality(result)
    /\ OfOneDay => LastRowForEveryHost

\* Without aggregation, the rows asked for, whole, in whatever order the columns are read.
RowsRight ==
    pc = "done" /\ q.aggr = "none" =>
        IF q.forEvery THEN ForEveryRowIsWhole ELSE WhereRowsRight

\* "then put each result row into the client-side aggregator that matches its time
\* bucket": the client-side plan returns the aggregates.
ClientAggregatesRight == Finished("client") /\ q.limit = 0 => result = Answer
=============================================================================
