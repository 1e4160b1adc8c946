------------------------- MODULE CassandraPlanProofs -------------------------
(***************************************************************************)
(* The Cassandra query runner: theorems about the intervals and buckets of *)
(* TimeIntervals, and that a plan without aggregation returns the rows its *)
(* query asks for, for every database, query and order of the series.      *)
(*                                                                         *)
(* What has been read so far decides which rows there are: a row of the    *)
(* database, with a field, is one CQL query of the plan, left or executed. *)
(***************************************************************************)
EXTENDS CassandraPlans, FiniteSetTheorems, WellFoundedInduction, TLAPS

(* Overlap decides, by its three early returns, what an inclusive start and an
   exclusive end mean. *)
LEMMA OverlapByBoundaries ==
    ASSUME NEW i \in Intervals, NEW j \in Intervals
    PROVE  Overlap(i, j) <=> i.start < j.end /\ j.start < i.end
  BY DEF Overlap, Intervals

(* Two intervals that are not empty overlap exactly when they have an instant in
   common: TimeInterval.Overlap neither misses a series with data of the query's time
   range nor selects one for a shared boundary only. *)
THEOREM OverlapIsSharing ==
    ASSUME NEW i \in Intervals, NEW j \in Intervals, i.start < i.end, j.start < j.end
    PROVE  Overlap(i, j) <=> \E t \in Nat : Within(i, t) /\ Within(j, t)
<1>1. ASSUME Overlap(i, j)
      PROVE  \E t \in Nat : Within(i, t) /\ Within(j, t)
  <2>1. i.start < j.end /\ j.start < i.end
    BY <1>1, OverlapByBoundaries
  <2>2. CASE i.start <= j.start
    <3>1. j.start \in Nat /\ Within(i, j.start) /\ Within(j, j.start)
      BY <2>1, <2>2 DEF Within, Intervals
    <3> QED  BY <3>1
  <2>3. CASE j.start < i.start
    <3>1. i.start \in Nat /\ Within(i, i.start) /\ Within(j, i.start)
      BY <2>1, <2>3 DEF Within, Intervals
    <3> QED  BY <3>1
  <2> QED  BY <2>2, <2>3 DEF Intervals
<1>2. ASSUME NEW t \in Nat, Within(i, t), Within(j, t)
      PROVE  Overlap(i, j)
  BY <1>2, OverlapByBoundaries DEF Within, Intervals
<1> QED  BY <1>1, <1>2

(* Every window RandWindow may choose has the length asked for and lies inside the
   interval. *)
THEOREM RandWindowInside ==
    ASSUME NEW i \in Intervals, NEW window \in Nat, NEW x \in RandWindows(i, window)
    PROVE  x \in Intervals /\ x.end - x.start = window /\ i.start <= x.start /\ x.end < i.end
<1>1. PICK s \in i.start..(i.end - window - 1) : x = [start |-> s, end |-> s + window]
  BY DEF RandWindows, Interval
<1> QED  BY <1>1 DEF Intervals

(* Division with remainder. *)
LEMMA DivMod ==
    ASSUME NEW w \in Nat \ {0}, NEW n \in Nat
    PROVE  /\ n \div w \in Nat
           /\ n % w \in 0..(w - 1)
           /\ n = w * (n \div w) + (n % w)
           /\ w * (n \div w) \in Nat
<1> DEFINE m == w * (n \div w)
           r == n % w
<1>1. n \div w \in Nat
  OBVIOUS
<1>2. r \in 0..(w - 1)
  OBVIOUS
<1>3. n - m = r
  BY SMTT(30)
<1>4. m \in Nat
  BY <1>1
<1>5. n = m + r
  <2> HIDE DEF m, r
  <2> QED  BY <1>2, <1>3, <1>4
<1> QED  BY <1>1, <1>2, <1>4, <1>5

(* A multiple leaves no remainder. *)
LEMMA MultipleMod ==
    ASSUME NEW w \in Nat \ {0}, NEW k \in Nat
    PROVE  (w * k) % w = 0
<1> DEFINE a == w * k
           m == a \div w
           r == a % w
<1>1. a \in Nat
  OBVIOUS
<1>2. m \in Nat /\ r \in 0..(w - 1) /\ a = w * m + r
  BY <1>1, DivMod
<1> HIDE DEF m, r
<1>3. ~(k < m)
  <2>1. SUFFICES ASSUME k < m PROVE FALSE
    OBVIOUS
  <2>2. w * (k + 1) <= w * m
    BY <1>2, <2>1
  <2> QED  BY <1>2, <2>2
<1>4. ~(m < k)
  <2>1. SUFFICES ASSUME m < k PROVE FALSE
    OBVIOUS
  <2>2. w * (m + 1) <= w * k
    BY <1>2, <2>1
  <2> QED  BY <1>2, <2>2
<1>5. m = k
  BY <1>2, <1>3, <1>4
<1>6. r = 0
  BY <1>2, <1>5
<1> QED  BY <1>6 DEF r

(* Two multiples of a window are at least a window apart. *)
LEMMA MultiplesApart ==
    ASSUME NEW w \in Nat \ {0}, NEW a \in Nat, NEW b \in Nat,
           a % w = 0, b % w = 0, a < b
    PROVE  a + w <= b
<1> DEFINE j == a \div w
           k == b \div w
<1>1. a = w * j /\ b = w * k /\ j \in Nat /\ k \in Nat
  OBVIOUS
<1> HIDE DEF j, k
<1>2. j < k
  BY <1>1
<1>3. w * (j + 1) <= w * k
  BY <1>1, <1>2
<1>4. w * (j + 1) = a + w
  BY <1>1
<1> QED  BY <1>1, <1>3, <1>4

(* Truncating goes back, and never before time zero. *)
LEMMA TruncateDown ==
    ASSUME NEW t \in Nat, NEW w \in Nat \ {0}
    PROVE  Truncate(t, w) \in Nat /\ Truncate(t, w) <= t
<1> DEFINE m == w * (t \div w)
           r == t % w
<1>1. m \in Nat /\ r \in Nat /\ t = m + r
  BY DivMod
<1> HIDE DEF m, r
<1>2. Truncate(t, w) = t - r
  BY DEF Truncate, r
<1> QED  BY <1>1, <1>2

(* What the loop of bucketTimeIntervals leaves: buckets of the window's length whose
   starts are a multiple of the window from the truncated start. *)
LEMMA BucketShape ==
    ASSUME NEW start \in Nat, NEW end \in Nat, NEW w \in Nat \ {0},
           NEW b \in Buckets(start, end, w)
    PROVE  /\ b.start \in Nat /\ b.end = b.start + w /\ b \in Intervals
           /\ b = [start |-> b.start, end |-> b.end]
           /\ Truncate(start, w) \in Nat /\ Truncate(start, w) <= b.start /\ b.start < end
           /\ (b.start - Truncate(start, w)) % w = 0
<1> DEFINE first == Truncate(start, w)
<1>1. first \in Nat /\ first <= start
  BY TruncateDown
<1>2. PICK s \in first..(end - 1) : b = [start |-> s, end |-> s + w] /\ (s - first) % w = 0
  BY DEF Buckets, Interval
<1> HIDE DEF first
<1>3. b.start = s /\ b.end = s + w /\ s \in Nat /\ s < end /\ first <= s
  BY <1>1, <1>2
<1> QED  BY <1>1, <1>2, <1>3 DEF Intervals, first

(* The buckets of a query do not overlap, so no row counts in two of them. *)
THEOREM BucketsDisjoint ==
    ASSUME NEW start \in Nat, NEW end \in Nat, NEW w \in Nat \ {0},
           NEW b \in Buckets(start, end, w), NEW c \in Buckets(start, end, w), b # c
    PROVE  ~Overlap(b, c)
<1> DEFINE first == Truncate(start, w)
<1>1. /\ first \in Nat /\ b.start \in Nat /\ c.start \in Nat
      /\ b.end = b.start + w /\ c.end = c.start + w
      /\ first <= b.start /\ first <= c.start
      /\ (b.start - first) % w = 0 /\ (c.start - first) % w = 0
      /\ b \in Intervals /\ c \in Intervals
  BY BucketShape
<1>2. b.start # c.start
  BY <1>1, BucketShape
<1> HIDE DEF first
<1>3. CASE b.start < c.start
  <2>1. (b.start - first) + w <= c.start - first
    BY <1>1, <1>3, MultiplesApart
  <2> QED  BY <1>1, <2>1, OverlapByBoundaries
<1>4. CASE c.start < b.start
  <2>1. (c.start - first) + w <= b.start - first
    BY <1>1, <1>4, MultiplesApart
  <2> QED  BY <1>1, <2>1, OverlapByBoundaries
<1> QED  BY <1>1, <1>2, <1>3, <1>4

(* Every instant of the query's time range lies in a bucket, so no row is left out. *)
THEOREM BucketsCover ==
    ASSUME NEW start \in Nat, NEW end \in Nat, NEW w \in Nat \ {0}, NEW t \in start..(end - 1)
    PROVE  \E b \in Buckets(start, end, w) : Within(b, t)
<1> DEFINE first == Truncate(start, w)
           d == t - first
           s == first + w * (d \div w)
<1>1. first \in Nat /\ first <= start
  BY TruncateDown
<1> HIDE DEF first
<1>2. d \in Nat
  BY <1>1
<1>3. d = w * (d \div w) + (d % w) /\ d % w \in 0..(w - 1) /\ d \div w \in Nat
  BY <1>2, DivMod
<1>4. w * (d \div w) \in Nat
  BY <1>3
<1>5. s \in first..(end - 1) /\ s <= t /\ t < s + w
  BY <1>1, <1>3, <1>4
<1>6. (s - first) % w = 0
  <2>1. s - first = w * (d \div w)
    BY <1>1, <1>4
  <2>2. (w * (d \div w)) % w = 0
    BY <1>3, MultipleMod
  <2> QED  BY <2>1, <2>2
<1> HIDE DEF s
<1>7. Interval(s, s + w) \in Buckets(start, end, w)
  BY <1>5, <1>6 DEF Buckets, first
<1>8. Within(Interval(s, s + w), t)
  BY <1>5 DEF Within, Interval
<1> QED  BY <1>7, <1>8

-----------------------------------------------------------------------------
(* Plans without aggregation. *)

\* The set up of a run.
SetUp == db \in Databases /\ q \in HLQueries

\* The series with the value of a field in a row, and the CQL query for it, which is left or
\* has been executed.
SeriesAt(p, f) == [host |-> p[1], field |-> f, day |-> p[2] \div Day]
PlanOf(s) == CQLQuery(s, QueryInterval, q.start, q.end)
Plans == {PlanOf(s) : s \in ApplicableSeries}
Left(p, f) == PlanOf(SeriesAt(p, f)) \in todo

KeyOf(p) == <<p[2], p[1]>>
Matching == {p \in Asked : Where(db[p][q.where.field])}

\* WHERE: there is a row for each match found so far, with the values read so far.  The first
\* pass reads the field of the clause, and the second the others.
WhereSoFar ==
    /\ DOMAIN rows = {KeyOf(p) : p \in {m \in Matching : ~Left(m, q.where.field)}}
    /\ \A p \in Matching : ~Left(p, q.where.field) =>
           /\ DOMAIN rows[KeyOf(p)] = QueryFields
           /\ \A f \in QueryFields : ~Left(p, f) => rows[KeyOf(p)][f] = db[p][f]
    /\ pc = "where" => \A p \in Matching, f \in QueryFields : f # q.where.field => Left(p, f)
    /\ pc = "columns" => FirstPass = {}

\* The last of its host's rows on its day, which is what its series return.
LastOfDay(p) ==
    \A o \in Asked : o[1] = p[1] /\ o[2] \div Day = p[2] \div Day => o[2] <= p[2]

\* The first n values of a row.
Prefix(p, n) == [k \in 1..n |-> db[p][q.fields[k]]]

\* What a host has of one row: the fields whose query has been executed, which are the first.
PartOf(row, p, n) ==
    /\ row = [time |-> p[2], values |-> Prefix(p, n)]
    /\ \A k \in 1..Len(q.fields) : Left(p, q.fields[k]) <=> n < k

\* For every host: no value yet, and no query of its rows executed, or a part of one row.
EverySoFar ==
    /\ DOMAIN latest \subseteq {p[1] : p \in DOMAIN db}
    /\ \A h \in DOMAIN latest :
           latest[h].values # <<>> =>
               \E p \in Asked, n \in 1..Len(q.fields) :
                   p[1] = h /\ LastOfDay(p) /\ PartOf(latest[h], p, n)
    /\ \A p \in Asked :
           p[1] \notin DOMAIN latest \/ latest[p[1]].values = <<>> =>
               \A f \in QueryFields : Left(p, f)

RowsInv ==
    /\ SetUp
    /\ pc \in {"plan", "server", "client", "where", "columns", "forEvery", "done"}
    /\ pc = "plan" => rows = <<>> /\ latest = <<>>
    /\ pc \in {"server", "client"} => q.aggr # "none"
    /\ pc \in {"where", "columns"} =>
           q.aggr = "none" /\ ~q.forEvery /\ todo \subseteq Plans /\ WhereSoFar
    /\ pc = "forEvery" => q.aggr = "none" /\ q.forEvery /\ todo \subseteq Plans /\ EverySoFar
    /\ RowsRight

-----------------------------------------------------------------------------
(* What is fixed for a run, and the rows a CQL query selects. *)

LEMMA TheSetUp ==
    ASSUME SetUp
    PROVE  /\ Day \in Nat \ {0}
           /\ IsFiniteSet(DOMAIN db)
           /\ \A p \in DOMAIN db : p = <<p[1], p[2]>> /\ p[2] \in Nat
           /\ q.start \in Nat /\ q.end \in Nat /\ q.start <= q.end
           /\ q.fields \in Seq(Fields) /\ Len(q.fields) \in Nat \ {0}
           /\ \A j, k \in 1..Len(q.fields) : q.fields[j] = q.fields[k] => j = k
           /\ q.forEvery \in BOOLEAN
           /\ q.aggr = "none" /\ ~q.forEvery => q.where.field \in QueryFields
<1>1. q.fields \in Seq(Fields) /\ q.fields # <<>>
  BY CassandraAssumption DEF SetUp
<1>2. Len(q.fields) \in Nat \ {0}
  BY <1>1
<1> QED
  BY <1>1, <1>2, CassandraAssumption DEF SetUp, QueryFields

\* The place of a field in the query.
LEMMA PlaceOfField ==
    ASSUME SetUp, NEW k \in 1..Len(q.fields)
    PROVE  FieldPos(q.fields[k]) = k
BY TheSetUp DEF FieldPos

LEMMA FieldHasPlace ==
    ASSUME SetUp, NEW f \in QueryFields
    PROVE  FieldPos(f) \in 1..Len(q.fields) /\ q.fields[FieldPos(f)] = f
BY DEF FieldPos, QueryFields

LEMMA RowsAskedFor ==
    ASSUME SetUp, NEW p \in Asked
    PROVE  /\ p \in DOMAIN db /\ p = <<p[1], p[2]>> /\ p[2] \in Nat
           /\ q.start <= p[2] /\ p[2] < q.end
           /\ \A hs \in q.tagSets : p[1] \in hs
           /\ p[2] \div Day \in Nat
BY TheSetUp, DivMod DEF Asked, Within, QueryInterval, Interval

\* The client-side index finds the series of each row asked for.
LEMMA AskedHasSeries ==
    ASSUME SetUp, NEW p \in Asked, NEW f \in QueryFields
    PROVE  SeriesAt(p, f) \in ApplicableSeries
<1> DEFINE s == SeriesAt(p, f)
           d == p[2] \div Day
<1>1. f \in Fields
  BY TheSetUp DEF QueryFields
<1>2. s \in Series
  BY <1>1, RowsAskedFor DEF SeriesAt, Series
<1>3. /\ d \in Nat /\ p[2] \in Nat /\ q.start <= p[2] /\ p[2] < q.end /\ Day \in Nat \ {0}
      /\ q.start \in Nat /\ q.end \in Nat
  BY RowsAskedFor, TheSetUp
<1>4. Day * d \in Nat /\ Day * d <= p[2] /\ p[2] < Day * d + Day
  <2> DEFINE r == p[2] % Day
             m == Day * d
  <2>1. r \in 0..(Day - 1) /\ p[2] = m + r /\ m \in Nat
    BY <1>3, DivMod
  <2> HIDE DEF r, m
  <2>2. m <= p[2] /\ p[2] < m + Day
    BY <1>3, <2>1
  <2> QED
    BY <2>1, <2>2 DEF m
<1> HIDE DEF d
<1>5. d * Day = Day * d /\ (d + 1) * Day = Day * d + Day
  BY <1>3
<1>6. DayOf(s) = [start |-> Day * d, end |-> Day * d + Day]
  BY <1>5 DEF DayOf, Interval, SeriesAt, d
<1> DEFINE m == Day * d
<1>7. DayOf(s) \in Intervals /\ QueryInterval \in Intervals
  <2>1. m \in Nat /\ m + Day \in Nat /\ m <= m + Day
    BY <1>3, <1>4
  <2> HIDE DEF m
  <2>2. [start |-> m, end |-> m + Day] \in Intervals
    BY <2>1 DEF Intervals
  <2>3. QueryInterval \in Intervals
    BY TheSetUp DEF Intervals, QueryInterval, Interval
  <2> QED
    BY <1>6, <2>2, <2>3 DEF m
<1>8. QueryInterval.start < DayOf(s).end /\ DayOf(s).start < QueryInterval.end
  <2> HIDE DEF m
  <2>1. m <= p[2] /\ p[2] < m + Day /\ m \in Nat
    BY <1>4 DEF m
  <2>2. q.start < m + Day /\ m < q.end
    BY <1>3, <2>1
  <2> QED
    BY <1>6, <2>2 DEF QueryInterval, Interval, m
<1>9. MatchesTimeInterval(s, QueryInterval)
  BY <1>7, <1>8, OverlapByBoundaries DEF MatchesTimeInterval
<1> QED
  BY <1>2, <1>9, RowsAskedFor DEF ApplicableSeries, SeriesAt, MatchesTagSets

\* A plan for each series.
LEMMA PlanOfSeries ==
    ASSUME NEW s, NEW t
    PROVE  /\ PlanOf(s).series = s
           /\ PlanOf(s) = PlanOf(t) <=> s = t
BY DEF PlanOf, CQLQuery

LEMMA PlansApply ==
    ASSUME SetUp, NEW c \in Plans
    PROVE  /\ c.series \in ApplicableSeries /\ c = PlanOf(c.series)
           /\ c.series.field \in QueryFields
           /\ \A hs \in q.tagSets : c.series.host \in hs
           /\ c.series = [host |-> c.series.host, field |-> c.series.field, day |-> c.series.day]
<1>1. PICK s \in ApplicableSeries : c = PlanOf(s)
  BY DEF Plans
<1>2. c.series = s
  BY <1>1, PlanOfSeries
<1>3. s \in Series /\ s.field \in QueryFields /\ MatchesTagSets(s, q.tagSets)
  BY DEF ApplicableSeries
<1>4. s = [host |-> s.host, field |-> s.field, day |-> s.day]
  BY <1>3 DEF Series
<1> QED
  BY <1>1, <1>2, <1>3, <1>4 DEF MatchesTagSets

\* The rows of a CQL query's series.
RowsOfPlan(c) == {p \in Asked : SeriesAt(p, c.series.field) = c.series}

\* What a query returns of some of them.
ValuesOf(c, P) == {<<p[2], db[p][c.series.field]>> : p \in P}

LEMMA RowsOfOneHost ==
    ASSUME SetUp, NEW c, NEW p \in RowsOfPlan(c)
    PROVE  /\ p \in Asked /\ p[1] = c.series.host /\ p[2] \div Day = c.series.day
           /\ p = <<c.series.host, p[2]>> /\ KeyOf(p) = <<p[2], c.series.host>>
           /\ p[2] \in Nat /\ p[2] < q.end
BY RowsAskedFor DEF RowsOfPlan, SeriesAt, KeyOf

\* A CQL query selects the rows asked for of its series.
LEMMA WhatIsSelected ==
    ASSUME SetUp, NEW c \in Plans
    PROVE  Selected(c) = ValuesOf(c, RowsOfPlan(c))
<1> DEFINE s == c.series
           R == {r \in DOMAIN db : r[1] = s.host /\ r[2] \div Day = s.day
                                     /\ c.from <= r[2] /\ r[2] < c.to}
<1>1. c.from = q.start /\ c.to = q.end
  <2>1. PICK t : c = PlanOf(t)
    BY DEF Plans
  <2> QED
    BY <2>1 DEF PlanOf, CQLQuery
<1>2. ASSUME NEW p \in DOMAIN db
      PROVE  p \in R <=> p \in RowsOfPlan(c)
  <2>1. p \in RowsOfPlan(c) <=> p \in Asked /\ SeriesAt(p, s.field) = s
    BY DEF RowsOfPlan
  <2>2. p \in Asked <=> (\A hs \in q.tagSets : p[1] \in hs) /\ q.start <= p[2] /\ p[2] < q.end
    BY DEF Asked, Within, QueryInterval, Interval
  <2>3. SeriesAt(p, s.field) = s <=> p[1] = s.host /\ p[2] \div Day = s.day
    <3>1. s = [host |-> s.host, field |-> s.field, day |-> s.day]
      BY PlansApply
    <3> QED
      BY <3>1 DEF SeriesAt
  <2>4. p[1] = s.host => \A hs \in q.tagSets : p[1] \in hs
    BY PlansApply
  <2> QED
    BY <1>1, <2>1, <2>2, <2>3, <2>4
<1>3. R = RowsOfPlan(c)
  BY <1>2 DEF RowsOfPlan, Asked
<1> HIDE DEF R
<1> QED
  BY <1>3 DEF Selected, R, ValuesOf

\* A query of a row's other fields is another one, and so is that of another row's day or host.
LEMMA LeftAfter ==
    ASSUME SetUp, NEW c \in Plans, NEW p \in Asked, NEW f, todo' = todo \ {c}, q' = q
    PROVE  /\ c = PlanOf(SeriesAt(p, f)) <=> f = c.series.field /\ p \in RowsOfPlan(c)
           /\ Left(p, f)' <=> Left(p, f) /\ ~(f = c.series.field /\ p \in RowsOfPlan(c))
<1>1. c = PlanOf(c.series)
  BY PlansApply
<1>2. c = PlanOf(SeriesAt(p, f)) <=> c.series = SeriesAt(p, f)
  BY <1>1, PlanOfSeries
<1>3. SeriesAt(p, f).field = f
  BY DEF SeriesAt
<1>4. c.series = SeriesAt(p, f) <=> f = c.series.field /\ p \in RowsOfPlan(c)
  BY <1>3 DEF RowsOfPlan
<1>5. Left(p, f)' <=> PlanOf(SeriesAt(p, f)) \in todo'
  BY DEF Left, PlanOf, CQLQuery, QueryInterval
<1> QED
  BY <1>2, <1>4, <1>5 DEF Left
-----------------------------------------------------------------------------
(* Rows put together column by column. *)

\* Some of the values selected by a query, those of the rows P, put in their rows.
LEMMA WhatIsFilled ==
    ASSUME SetUp, NEW c \in Plans, NEW P \in SUBSET RowsOfPlan(c)
    PROVE  /\ DOMAIN Fill(c, ValuesOf(c, P)) = DOMAIN rows \cup {KeyOf(p) : p \in P}
           /\ \A p \in P : Fill(c, ValuesOf(c, P))[KeyOf(p)] =
                  [(IF KeyOf(p) \in DOMAIN rows THEN rows[KeyOf(p)] ELSE Blank)
                      EXCEPT ![c.series.field] = db[p][c.series.field]]
           /\ \A k \in DOMAIN rows : (\A p \in P : KeyOf(p) # k) => Fill(c, ValuesOf(c, P))[k] = rows[k]
<1> DEFINE pairs == ValuesOf(c, P)
           h == c.series.host
           f == c.series.field
           K == {<<p[1], h>> : p \in pairs}
           Own(k) == {p \in pairs : <<p[1], h>> = k}
           RowAt(k) == IF k \in DOMAIN rows THEN rows[k] ELSE Blank
           Filled(k) == IF Own(k) = {} THEN RowAt(k)
                        ELSE [RowAt(k) EXCEPT ![f] = (CHOOSE p \in Own(k) : TRUE)[2]]
<1>1. \A p \in P : KeyOf(p) = <<p[2], h>> /\ p = <<h, p[2]>>
  BY RowsOfOneHost
<1>2. K = {KeyOf(p) : p \in P}
  <2>1. \A p \in P : <<p[2], db[p][f]>> \in pairs
    BY DEF ValuesOf
  <2>2. \A o \in pairs : \E p \in P : o[1] = p[2]
    BY DEF ValuesOf
  <2>3. ASSUME NEW p \in P
        PROVE  <<p[2], h>> \in K
    <3>1. <<p[2], db[p][f]>>[1] = p[2]
      OBVIOUS
    <3> QED
      BY <2>1, <3>1
  <2> QED
    BY <1>1, <2>2, <2>3
<1>3. Fill(c, pairs) = [k \in DOMAIN rows \cup K |-> Filled(k)]
  BY DEF Fill
<1>4. ASSUME NEW p \in P
      PROVE  Filled(KeyOf(p)) = [RowAt(KeyOf(p)) EXCEPT ![f] = db[p][f]]
  <2>1. Own(KeyOf(p)) = {<<p[2], db[p][f]>>}
    <3>1. <<p[2], db[p][f]>> \in Own(KeyOf(p))
      BY <1>1 DEF ValuesOf
    <3>2. ASSUME NEW o \in Own(KeyOf(p))
          PROVE  o = <<p[2], db[p][f]>>
      <4>1. PICK r \in P : o = <<r[2], db[r][f]>>
        BY DEF ValuesOf
      <4>2. <<r[2], h>> = <<p[2], h>>
        BY <1>1, <4>1
      <4>3. r = p
        BY <1>1, <4>2
      <4> QED
        BY <4>1, <4>3
    <3> HIDE DEF Own
    <3> QED
      BY <3>1, <3>2
  <2> DEFINE o == CHOOSE r \in Own(KeyOf(p)) : TRUE
  <2>2. o = <<p[2], db[p][f]>>
    BY <2>1
  <2>3. o[2] = db[p][f]
    <3> HIDE DEF o
    <3> QED
      BY <2>2
  <2>4. Own(KeyOf(p)) # {}
    BY <2>1
  <2> HIDE DEF Own, RowAt
  <2> QED
    BY <2>3, <2>4
<1>5. ASSUME NEW k \in DOMAIN rows, \A p \in P : KeyOf(p) # k
      PROVE  Filled(k) = rows[k]
  <2>1. Own(k) = {}
    BY <1>1, <1>5 DEF ValuesOf
  <2> HIDE DEF Own
  <2> QED
    BY <2>1
<1> HIDE DEF Filled, K
<1>6. DOMAIN Fill(c, pairs) = DOMAIN rows \cup {KeyOf(p) : p \in P}
  BY <1>2, <1>3
<1>7. ASSUME NEW p \in P
      PROVE  Fill(c, pairs)[KeyOf(p)] = [RowAt(KeyOf(p)) EXCEPT ![f] = db[p][f]]
  BY <1>2, <1>3, <1>4
<1>8. ASSUME NEW k \in DOMAIN rows, \A p \in P : KeyOf(p) # k
      PROVE  Fill(c, pairs)[k] = rows[k]
  BY <1>3, <1>5, <1>8
<1> QED
  BY <1>6, <1>7, <1>8

\* Two rows have different keys.
LEMMA KeysDiffer ==
    ASSUME SetUp, NEW p \in Asked, NEW r \in Asked, KeyOf(p) = KeyOf(r)
    PROVE  p = r
<1>1. p = <<p[1], p[2]>> /\ r = <<r[1], r[2]>>
  BY RowsAskedFor
<1>2. p[1] = r[1] /\ p[2] = r[2]
  BY DEF KeyOf
<1> QED
  BY <1>1, <1>2

\* The first pass: a match gets its row with the field of the clause.
LEMMA WhereExecuted ==
    ASSUME RowsInv, ExecuteWhere
    PROVE  WhereSoFar'
<1>0. PICK wf : wf = q.where.field
  OBVIOUS
<1>1. /\ SetUp /\ pc = "where" /\ pc' = "where" /\ q' = q /\ db' = db
      /\ todo \subseteq Plans /\ WhereSoFar /\ wf \in QueryFields
  BY <1>0, TheSetUp DEF RowsInv, ExecuteWhere
<1>2. PICK c \in FirstPass :
         /\ rows' = Fill(c, {p \in Selected(c) : Where(p[2])})
         /\ todo' = todo \ {c}
  BY DEF ExecuteWhere
<1>3. c \in Plans /\ c \in todo /\ c.series.field = wf
  BY <1>0, <1>1, <1>2 DEF FirstPass
<1> DEFINE P == {p \in RowsOfPlan(c) : Where(db[p][wf])}
           pairs == {p \in Selected(c) : Where(p[2])}
<1>4. pairs = ValuesOf(c, P)
  <2>1. Selected(c) = ValuesOf(c, RowsOfPlan(c))
    BY <1>1, <1>3, WhatIsSelected
  <2> QED
    BY <1>3, <2>1 DEF ValuesOf
<1>5. P \in SUBSET RowsOfPlan(c) /\ P \subseteq Matching
  BY <1>0 DEF Matching, RowsOfPlan
<1>6. /\ DOMAIN rows' = DOMAIN rows \cup {KeyOf(p) : p \in P}
      /\ \A p \in P : rows'[KeyOf(p)] =
             [(IF KeyOf(p) \in DOMAIN rows THEN rows[KeyOf(p)] ELSE Blank) EXCEPT ![wf] = db[p][wf]]
      /\ \A k \in DOMAIN rows : (\A p \in P : KeyOf(p) # k) => rows'[k] = rows[k]
  <2>1. rows' = Fill(c, ValuesOf(c, P))
    BY <1>2, <1>4
  <2> HIDE DEF P
  <2>2. /\ DOMAIN Fill(c, ValuesOf(c, P)) = DOMAIN rows \cup {KeyOf(p) : p \in P}
        /\ \A p \in P : Fill(c, ValuesOf(c, P))[KeyOf(p)] =
               [(IF KeyOf(p) \in DOMAIN rows THEN rows[KeyOf(p)] ELSE Blank)
                   EXCEPT ![c.series.field] = db[p][c.series.field]]
        /\ \A k \in DOMAIN rows :
               (\A p \in P : KeyOf(p) # k) => Fill(c, ValuesOf(c, P))[k] = rows[k]
    BY <1>1, <1>3, <1>5, WhatIsFilled
  <2> QED
    BY <1>3, <2>1, <2>2
<1>7. /\ Matching' = Matching /\ QueryFields' = QueryFields /\ Asked' = Asked
      /\ \A p : KeyOf(p)' = KeyOf(p)
  BY <1>1 DEF Matching, QueryFields, Asked, KeyOf, Where, Within, QueryInterval, Interval
<1>8. \A f : \A p \in Asked : Left(p, f)' <=> Left(p, f) /\ ~(f = wf /\ p \in RowsOfPlan(c))
  BY <1>1, <1>2, <1>3, LeftAfter
<1>9. \A p \in RowsOfPlan(c) : Left(p, wf)
  <2>1. \A p \in RowsOfPlan(c) : p \in Asked
    BY DEF RowsOfPlan
  <2> QED
    BY <1>1, <1>2, <1>3, <2>1, LeftAfter DEF Left
<1>10. \A p \in Matching : p \in Asked /\ (p \in P <=> p \in RowsOfPlan(c))
  BY <1>0 DEF Matching
<1> HIDE DEF P
<1>11. DOMAIN rows' = {KeyOf(p) : p \in {m \in Matching : ~Left(m, wf)'}}
  <2>1. \A m \in Matching : ~Left(m, wf)' <=> ~Left(m, wf) \/ m \in P
    BY <1>8, <1>10
  <2>2. DOMAIN rows = {KeyOf(p) : p \in {m \in Matching : ~Left(m, wf)}}
    BY <1>0, <1>1 DEF WhereSoFar
  <2> QED
    BY <1>5, <1>6, <2>1, <2>2
<1>12. ASSUME NEW p \in Matching, ~Left(p, wf)'
       PROVE  /\ DOMAIN rows'[KeyOf(p)] = QueryFields
              /\ \A f \in QueryFields : ~Left(p, f)' => rows'[KeyOf(p)][f] = db[p][f]
  <2>1. \A f \in QueryFields : ~Left(p, f)' => f = wf
    BY <1>0, <1>1, <1>8, <1>10 DEF WhereSoFar
  <2>2. CASE p \in P
    <3>1. KeyOf(p) \notin DOMAIN rows
      <4> SUFFICES ASSUME KeyOf(p) \in DOMAIN rows PROVE FALSE
        OBVIOUS
      <4>1. PICK m \in Matching : ~Left(m, wf) /\ KeyOf(p) = KeyOf(m)
        BY <1>0, <1>1 DEF WhereSoFar
      <4>2. m = p
        BY <1>1, <1>10, <4>1, KeysDiffer
      <4> QED
        BY <1>9, <1>10, <2>2, <4>1, <4>2
    <3>2. rows'[KeyOf(p)] = [Blank EXCEPT ![wf] = db[p][wf]]
      BY <1>6, <2>2, <3>1
    <3>3. DOMAIN rows'[KeyOf(p)] = QueryFields /\ rows'[KeyOf(p)][wf] = db[p][wf]
      BY <1>1, <3>2 DEF Blank
    <3> QED
      BY <2>1, <3>3
  <2>3. CASE p \notin P
    <3>1. ~Left(p, wf)
      BY <1>8, <1>10, <1>12, <2>3
    <3>2. KeyOf(p) \in DOMAIN rows
      BY <1>0, <1>1, <3>1 DEF WhereSoFar
    <3>3. \A m \in P : KeyOf(m) # KeyOf(p)
      BY <1>1, <1>5, <1>10, <2>3, KeysDiffer
    <3>4. rows'[KeyOf(p)] = rows[KeyOf(p)]
      BY <1>6, <3>2, <3>3
    <3>5. DOMAIN rows[KeyOf(p)] = QueryFields /\ rows[KeyOf(p)][wf] = db[p][wf]
      BY <1>0, <1>1, <3>1 DEF WhereSoFar
    <3> QED
      BY <2>1, <3>4, <3>5
  <2> QED
    BY <2>2, <2>3
<1>13. \A p \in Matching, f \in QueryFields : f # wf => Left(p, f)'
  BY <1>0, <1>1, <1>8, <1>10 DEF WhereSoFar
<1> QED
  BY <1>0, <1>1, <1>7, <1>11, <1>12, <1>13 DEF WhereSoFar

\* What the steps of a plan leave as it was.
LEMMA SameQuery ==
    ASSUME db' = db, q' = q
    PROVE  /\ SetUp' = SetUp /\ Asked' = Asked /\ Matching' = Matching
           /\ QueryFields' = QueryFields /\ ApplicableSeries' = ApplicableSeries
           /\ Plans' = Plans
           /\ \A p : KeyOf(p)' = KeyOf(p)
           /\ \A p : RowOf(p)' = RowOf(p)
           /\ \A p \in Asked : LastOfDay(p)' <=> LastOfDay(p)
<1>1. /\ SetUp' = SetUp /\ Asked' = Asked /\ Matching' = Matching
      /\ QueryFields' = QueryFields
      /\ \A p : KeyOf(p)' = KeyOf(p)
      /\ \A p : RowOf(p)' = RowOf(p)
  BY DEF SetUp, Asked, Matching, QueryFields, KeyOf, RowOf, Where, Within, QueryInterval, Interval
<1>2. ApplicableSeries' = ApplicableSeries
  BY <1>1 DEF ApplicableSeries, Series, MatchesTagSets, MatchesTimeInterval, QueryInterval, DayOf,
              Interval, Overlap
<1>3. Plans' = Plans
  BY <1>2 DEF Plans, PlanOf, CQLQuery, QueryInterval
<1>4. \A p \in Asked : LastOfDay(p)' <=> LastOfDay(p)
  BY <1>1 DEF LastOfDay
<1> QED
  BY <1>1, <1>2, <1>3, <1>4

\* The first pass ends when the field of the clause is read.
LEMMA FirstPassEnded ==
    ASSUME RowsInv, EndFirstPass
    PROVE  WhereSoFar'
<1>1. /\ pc = "where" /\ q' = q /\ db' = db /\ rows' = rows /\ todo' = todo /\ pc' = "columns"
      /\ WhereSoFar /\ FirstPass = {}
  BY DEF RowsInv, EndFirstPass
<1>2. \A p, f : Left(p, f)' <=> Left(p, f)
  BY <1>1 DEF Left, PlanOf, CQLQuery, QueryInterval, SeriesAt
<1>3. FirstPass' = FirstPass
  BY <1>1 DEF FirstPass
<1>4. PICK wf : wf = q.where.field /\ wf = q'.where.field
  BY <1>1
<1>5. \A p : Left(p, q.where.field)' <=> Left(p, q.where.field)
  BY <1>2, <1>4
<1>6. DOMAIN rows = {KeyOf(p) : p \in {m \in Matching : ~Left(m, wf)}}
  BY <1>1, <1>4 DEF WhereSoFar
<1>7. DOMAIN rows' = {KeyOf(p) : p \in {m \in Matching : ~Left(m, wf)'}}
  BY <1>1, <1>2, <1>6
<1>8. \A p \in Matching : ~Left(p, wf)' =>
          /\ DOMAIN rows'[KeyOf(p)] = QueryFields
          /\ \A f \in QueryFields : ~Left(p, f)' => rows'[KeyOf(p)][f] = db[p][f]
  BY <1>1, <1>2, <1>4 DEF WhereSoFar
<1> QED
  BY <1>1, <1>3, <1>4, <1>7, <1>8, SameQuery DEF WhereSoFar

\* In the second pass the rows are those of the matches.
LEMMA AllMatchesFound ==
    ASSUME SetUp, q.where.field \in QueryFields, WhereSoFar, pc = "columns"
    PROVE  /\ \A p \in Asked : ~Left(p, q.where.field)
           /\ DOMAIN rows = {KeyOf(p) : p \in Matching}
<1>1. ASSUME NEW p \in Asked, Left(p, q.where.field)
      PROVE  FALSE
  <2>1. PlanOf(SeriesAt(p, q.where.field)).series.field = q.where.field
    BY PlanOfSeries DEF SeriesAt
  <2>2. PlanOf(SeriesAt(p, q.where.field)) \in FirstPass
    BY <1>1, <2>1 DEF FirstPass, Left
  <2> QED
    BY <2>2 DEF WhereSoFar
<1>2. {m \in Matching : ~Left(m, q.where.field)} = Matching
  BY <1>1 DEF Matching
<1> QED
  BY <1>1, <1>2 DEF WhereSoFar

\* The second pass: the other fields of the matches.
LEMMA ColumnExecuted ==
    ASSUME RowsInv, ExecuteColumn
    PROVE  WhereSoFar'
<1>0. PICK wf : wf = q.where.field
  OBVIOUS
<1>1. /\ SetUp /\ pc = "columns" /\ pc' = "columns" /\ q' = q /\ db' = db
      /\ todo \subseteq Plans /\ WhereSoFar /\ wf \in QueryFields
  BY <1>0, TheSetUp DEF RowsInv, ExecuteColumn
<1>2. PICK c \in NextByField :
         /\ rows' = Fill(c, {p \in Selected(c) : Accepted(p, c.series.host)})
         /\ todo' = todo \ {c}
  BY DEF ExecuteColumn
<1> DEFINE f == c.series.field
<1>3. c \in Plans /\ c \in todo /\ f # wf /\ f \in QueryFields
  <2>1. c \in todo /\ c \in Plans
    BY <1>1, <1>2 DEF NextByField
  <2>2. f # wf
    BY <1>0, <1>1, <2>1 DEF WhereSoFar, FirstPass
  <2> QED
    BY <1>1, <2>1, <2>2, PlansApply
<1>4. \A p \in Asked : ~Left(p, wf)
  BY <1>0, <1>1, AllMatchesFound
<1>5. DOMAIN rows = {KeyOf(p) : p \in Matching}
  BY <1>0, <1>1, AllMatchesFound
<1>6. \A p \in Matching : p \in Asked
  BY DEF Matching
<1>7. \A p \in Asked : KeyOf(p) \in DOMAIN rows <=> p \in Matching
  BY <1>1, <1>5, <1>6, KeysDiffer
<1> DEFINE P == {p \in RowsOfPlan(c) : p \in Matching}
           pairs == {p \in Selected(c) : Accepted(p, c.series.host)}
<1>8. pairs = ValuesOf(c, P)
  <2>1. Selected(c) = ValuesOf(c, RowsOfPlan(c))
    BY <1>1, <1>3, WhatIsSelected
  <2>2. ASSUME NEW p \in RowsOfPlan(c)
        PROVE  Accepted(<<p[2], db[p][f]>>, c.series.host) <=> p \in Matching
    <3>1. KeyOf(p) = <<p[2], c.series.host>> /\ p \in Asked
      BY <1>1, RowsOfOneHost
    <3>2. <<p[2], db[p][f]>>[1] = p[2]
      OBVIOUS
    <3> QED
      BY <1>7, <3>1, <3>2 DEF Accepted
  <2>3. pairs \subseteq ValuesOf(c, P)
    BY <2>1, <2>2 DEF ValuesOf
  <2>4. ValuesOf(c, P) \subseteq pairs
    BY <2>1, <2>2 DEF ValuesOf
  <2> QED
    BY <2>3, <2>4
<1>9. P \in SUBSET RowsOfPlan(c) /\ P \subseteq Matching /\ \A p \in RowsOfPlan(c) : p \in Asked
  BY DEF RowsOfPlan
<1>10. /\ DOMAIN rows' = DOMAIN rows \cup {KeyOf(p) : p \in P}
       /\ \A p \in P : rows'[KeyOf(p)] =
              [(IF KeyOf(p) \in DOMAIN rows THEN rows[KeyOf(p)] ELSE Blank) EXCEPT ![f] = db[p][f]]
       /\ \A k \in DOMAIN rows : (\A p \in P : KeyOf(p) # k) => rows'[k] = rows[k]
  <2>1. rows' = Fill(c, ValuesOf(c, P))
    BY <1>2, <1>8
  <2> HIDE DEF P
  <2>2. /\ DOMAIN Fill(c, ValuesOf(c, P)) = DOMAIN rows \cup {KeyOf(p) : p \in P}
        /\ \A p \in P : Fill(c, ValuesOf(c, P))[KeyOf(p)] =
               [(IF KeyOf(p) \in DOMAIN rows THEN rows[KeyOf(p)] ELSE Blank)
                   EXCEPT ![c.series.field] = db[p][c.series.field]]
        /\ \A k \in DOMAIN rows :
               (\A p \in P : KeyOf(p) # k) => Fill(c, ValuesOf(c, P))[k] = rows[k]
    BY <1>1, <1>3, <1>9, WhatIsFilled
  <2> QED
    BY <2>1, <2>2
<1>11. \A g : \A p \in Asked : Left(p, g)' <=> Left(p, g) /\ ~(g = f /\ p \in RowsOfPlan(c))
  BY <1>1, <1>2, <1>3, LeftAfter
<1>12. \A p \in Matching : p \in P <=> p \in RowsOfPlan(c)
  OBVIOUS
<1> HIDE DEF P, pairs
<1>13. DOMAIN rows' = {KeyOf(p) : p \in {m \in Matching : ~Left(m, wf)'}}
  <2>1. DOMAIN rows' = {KeyOf(p) : p \in Matching}
    BY <1>5, <1>9, <1>10
  <2>2. {m \in Matching : ~Left(m, wf)'} = Matching
    BY <1>4, <1>6, <1>11
  <2> QED
    BY <2>1, <2>2
<1>14. ASSUME NEW p \in Matching
       PROVE  /\ DOMAIN rows'[KeyOf(p)] = QueryFields
              /\ \A g \in QueryFields : ~Left(p, g)' => rows'[KeyOf(p)][g] = db[p][g]
  <2>1. /\ DOMAIN rows[KeyOf(p)] = QueryFields
        /\ \A g \in QueryFields : ~Left(p, g) => rows[KeyOf(p)][g] = db[p][g]
    BY <1>0, <1>1, <1>4, <1>6 DEF WhereSoFar
  <2>2. KeyOf(p) \in DOMAIN rows
    BY <1>5
  <2>3. CASE p \in P
    <3>1. rows'[KeyOf(p)] = [rows[KeyOf(p)] EXCEPT ![f] = db[p][f]]
      BY <1>10, <2>2, <2>3
    <3>2. DOMAIN rows'[KeyOf(p)] = QueryFields
      BY <2>1, <3>1
    <3>3. ASSUME NEW g \in QueryFields, ~Left(p, g)'
          PROVE  rows'[KeyOf(p)][g] = db[p][g]
      <4>1. g # f => ~Left(p, g)
        BY <1>6, <1>11, <3>3
      <4> QED
        BY <2>1, <3>1, <4>1
    <3> QED
      BY <3>2, <3>3
  <2>4. CASE p \notin P
    <3>1. \A m \in P : KeyOf(m) # KeyOf(p)
      BY <1>1, <1>6, <1>9, <2>4, KeysDiffer
    <3>2. rows'[KeyOf(p)] = rows[KeyOf(p)]
      BY <1>10, <2>2, <3>1
    <3>3. \A g : Left(p, g)' <=> Left(p, g)
      BY <1>6, <1>11, <1>12, <2>4
    <3> QED
      BY <2>1, <3>2, <3>3
  <2> QED
    BY <2>3, <2>4
<1>15. FirstPass' = {}
  BY <1>1, <1>2 DEF FirstPass, WhereSoFar
<1>16. q'.where.field = wf
  BY <1>0, <1>1
<1> QED
  BY <1>1, <1>13, <1>14, <1>15, <1>16, SameQuery DEF WhereSoFar

\* Nothing is read before the first query.
LEMMA AllLeftAtFirst ==
    ASSUME RowsInv, db' = db, q' = q, todo' = {PlanOf(s) : s \in ApplicableSeries}
    PROVE  /\ todo' \subseteq Plans'
           /\ \A p \in Asked, f \in QueryFields : Left(p, f)'
<1>1. SetUp
  BY DEF RowsInv
<1>2. todo' = Plans
  BY DEF Plans
<1>3. todo' = Plans'
  BY <1>2, SameQuery
<1>4. ASSUME NEW p \in Asked, NEW f \in QueryFields
      PROVE  Left(p, f)'
  <2>1. SeriesAt(p, f) \in ApplicableSeries
    BY <1>1, AskedHasSeries
  <2>2. PlanOf(SeriesAt(p, f)) \in todo'
    BY <2>1
  <2>3. PlanOf(SeriesAt(p, f))' = PlanOf(SeriesAt(p, f))
    BY DEF PlanOf, CQLQuery, QueryInterval, SeriesAt
  <2> QED
    BY <2>2, <2>3 DEF Left
<1> QED
  BY <1>3, <1>4

LEMMA WherePlanned ==
    ASSUME RowsInv, PlanNoAggregation
    PROVE  todo' \subseteq Plans' /\ WhereSoFar'
<1>0. PICK wf : wf = q.where.field
  OBVIOUS
<1>1. /\ SetUp /\ q' = q /\ db' = db /\ pc' = "where" /\ rows' = <<>> /\ wf \in QueryFields
      /\ todo' = {PlanOf(s) : s \in ApplicableSeries}
  BY <1>0, TheSetUp DEF RowsInv, PlanNoAggregation, PlanOf
<1>2. todo' \subseteq Plans' /\ \A p \in Asked, f \in QueryFields : Left(p, f)'
  BY <1>1, AllLeftAtFirst
<1>3. \A p \in Matching, f \in QueryFields : Left(p, f)'
  BY <1>2 DEF Matching
<1>4. {m \in Matching : ~Left(m, wf)'} = {}
  BY <1>1, <1>3
<1>5. DOMAIN rows' = {KeyOf(p) : p \in {m \in Matching : ~Left(m, wf)'}}
  BY <1>1, <1>4
<1>6. q'.where.field = wf
  BY <1>0, <1>1
<1> QED
  BY <1>1, <1>2, <1>3, <1>4, <1>5, <1>6, SameQuery DEF WhereSoFar

\* The result: the rows of all matches.
LEMMA WhereFinished ==
    ASSUME RowsInv, FinishNoAggregation
    PROVE  WhereRowsRight'
<1>1. /\ SetUp /\ pc = "columns" /\ q' = q /\ db' = db /\ WhereSoFar /\ todo = {}
      /\ q.where.field \in QueryFields
      /\ result' = {[time |-> key[1], host |-> key[2],
                     values |-> [k \in 1..Len(q.fields) |-> rows[key][q.fields[k]]]] :
                        key \in DOMAIN rows}
  BY TheSetUp DEF RowsInv, FinishNoAggregation
<1>2. DOMAIN rows = {KeyOf(p) : p \in Matching}
  BY <1>1, AllMatchesFound
<1> DEFINE Row(key) == [time |-> key[1], host |-> key[2],
                        values |-> [k \in 1..Len(q.fields) |-> rows[key][q.fields[k]]]]
<1>3. ASSUME NEW p \in Matching
      PROVE  Row(KeyOf(p)) = RowOf(p)
  <2>1. \A f \in QueryFields : rows[KeyOf(p)][f] = db[p][f]
    BY <1>1 DEF WhereSoFar, Left
  <2>2. \A k \in 1..Len(q.fields) : rows[KeyOf(p)][q.fields[k]] = db[p][q.fields[k]]
    BY <2>1 DEF QueryFields
  <2>3. KeyOf(p)[1] = p[2] /\ KeyOf(p)[2] = p[1]
    BY DEF KeyOf
  <2>4. [k \in 1..Len(q.fields) |-> rows[KeyOf(p)][q.fields[k]]] =
            [k \in 1..Len(q.fields) |-> db[p][q.fields[k]]]
    BY <2>2
  <2> QED
    BY <2>3, <2>4 DEF RowOf
<1>4. result' = {Row(key) : key \in DOMAIN rows}
  BY <1>1
<1>5. result' = {RowOf(p) : p \in Matching}
  <2> HIDE DEF Row
  <2> QED
    BY <1>2, <1>3, <1>4
<1>6. \A p \in Matching' : RowOf(p)' = RowOf(p)
  BY <1>1, SameQuery
<1>7. result' = {RowOf(p)' : p \in Matching'}
  BY <1>1, <1>5, <1>6, SameQuery
<1> QED
  BY <1>7 DEF WhereRowsRight, Matching
-----------------------------------------------------------------------------
(* The last row for every host. *)

\* Values are appended in the order of the fields.
LEMMA LongerPrefix ==
    ASSUME SetUp, NEW p \in Asked, NEW n \in 0..(Len(q.fields) - 1)
    PROVE  /\ Append(Prefix(p, n), db[p][q.fields[n + 1]]) = Prefix(p, n + 1)
           /\ Len(Prefix(p, n)) = n
           /\ Prefix(p, n + 1) # <<>>
<1> DEFINE V == {db[p][q.fields[k]] : k \in 1..Len(q.fields)}
<1>1. Len(q.fields) \in Nat \ {0}
  BY TheSetUp
<1>2. Prefix(p, n) \in [1..n -> V]
  BY <1>1 DEF Prefix
<1>3. n \in Nat /\ Prefix(p, n) \in Seq(V) /\ Len(Prefix(p, n)) = n
  BY <1>1, <1>2
<1>4. db[p][q.fields[n + 1]] \in V
  BY <1>1
<1>5. Append(Prefix(p, n), db[p][q.fields[n + 1]]) = Prefix(p, n + 1)
  <2> DEFINE a == Append(Prefix(p, n), db[p][q.fields[n + 1]])
  <2>1. /\ a \in Seq(V) /\ Len(a) = n + 1 /\ a[n + 1] = db[p][q.fields[n + 1]]
        /\ \A k \in 1..n : a[k] = Prefix(p, n)[k]
    BY <1>3, <1>4
  <2>2. a \in [1..(n + 1) -> V]
    <3> HIDE DEF a
    <3>1. \E m \in Nat : a \in [1..m -> V] /\ Len(a) = m
      <4> HIDE DEF V
      <4> QED
        BY <2>1
    <3> QED
      BY <2>1, <3>1
  <2>3. \A k \in 1..(n + 1) : a[k] = db[p][q.fields[k]]
    BY <1>3, <2>1 DEF Prefix
  <2>4. Prefix(p, n + 1) = [k \in 1..(n + 1) |-> db[p][q.fields[k]]]
    BY DEF Prefix
  <2> HIDE DEF a
  <2>5. a = Prefix(p, n + 1)
    BY <2>2, <2>3, <2>4
  <2> QED
    BY <2>5 DEF a
<1>6. 1 \in DOMAIN Prefix(p, n + 1)
  BY <1>3 DEF Prefix
<1> QED
  BY <1>3, <1>5, <1>6

\* A set of numbers that is not empty has a least one.
LEMMA LeastNumber ==
    ASSUME NEW T \in SUBSET Nat, T # {}
    PROVE  \E m \in T : \A k \in T : m <= k
<1> DEFINE R == OpToRel(<, Nat)
<1>1. IsWellFoundedOn(R, Nat)
  BY NatLessThanWellFounded
<1>2. \A y, x \in Nat : <<y, x>> \in R <=> y < x
  BY DEF OpToRel
<1> HIDE DEF R
<1>3. PICK x \in T : \A y \in T : ~ (<<y, x>> \in R)
  BY <1>1, WFMin
<1>4. ASSUME NEW y \in T
      PROVE  x <= y
  <2>1. x \in Nat /\ y \in Nat /\ ~ (y < x)
    BY <1>2, <1>3
  <2> QED  BY <2>1
<1> QED  BY <1>4

\* A series with rows asked for has a last one.
LEMMA SeriesHasLast ==
    ASSUME SetUp, NEW c, RowsOfPlan(c) # {}
    PROVE  \E p \in RowsOfPlan(c) : \A o \in RowsOfPlan(c) : o[2] <= p[2]
<1> DEFINE T == {q.end - p[2] : p \in RowsOfPlan(c)}
<1>1. q.end \in Nat /\ \A p \in RowsOfPlan(c) : p[2] \in Nat /\ p[2] < q.end
  BY RowsOfOneHost, TheSetUp
<1>2. T \in SUBSET Nat /\ T # {}
  BY <1>1
<1> HIDE DEF T
<1>3. PICK m \in T : \A k \in T : m <= k
  BY <1>2, LeastNumber
<1>4. PICK p \in RowsOfPlan(c) : m = q.end - p[2]
  BY DEF T
<1>5. ASSUME NEW o \in RowsOfPlan(c)
      PROVE  o[2] <= p[2]
  <2>1. q.end - o[2] \in T
    BY DEF T
  <2>2. q.end - p[2] <= q.end - o[2]
    BY <1>3, <1>4, <2>1
  <2> QED
    BY <1>1, <2>2
<1> QED
  BY <1>5

\* ORDER BY ... LIMIT 1 selects the value of the last row of its day, if there is one.
LEMMA WhatIsLast ==
    ASSUME SetUp, NEW c \in Plans
    PROVE  /\ RowsOfPlan(c) = {} => LastSelected(c) = {}
           /\ \A p \in RowsOfPlan(c) : LastOfDay(p) => LastSelected(c) = {<<p[2], db[p][c.series.field]>>}
           /\ RowsOfPlan(c) # {} => \E p \in RowsOfPlan(c) : LastOfDay(p)
<1> DEFINE f == c.series.field
<1>1. Selected(c) = ValuesOf(c, RowsOfPlan(c))
  BY WhatIsSelected
<1>2. \A p \in RowsOfPlan(c) :
          /\ p \in Asked /\ p[1] = c.series.host /\ p[2] \div Day = c.series.day
          /\ p = <<c.series.host, p[2]>> /\ p[2] \in Nat
  BY RowsOfOneHost
<1>3. \A p \in RowsOfPlan(c), o \in Asked :
          o[1] = p[1] /\ o[2] \div Day = p[2] \div Day <=> o \in RowsOfPlan(c)
  <2>1. c.series = [host |-> c.series.host, field |-> f, day |-> c.series.day]
    BY PlansApply
  <2>2. \A o \in Asked : o \in RowsOfPlan(c) <=> o[1] = c.series.host /\ o[2] \div Day = c.series.day
    BY <2>1 DEF RowsOfPlan, SeriesAt
  <2> QED
    BY <1>2, <2>2
<1>4. \A p \in RowsOfPlan(c) : LastOfDay(p) <=> \A o \in RowsOfPlan(c) : o[2] <= p[2]
  BY <1>2, <1>3 DEF LastOfDay
<1>5. RowsOfPlan(c) = {} => LastSelected(c) = {}
  BY <1>1 DEF LastSelected, ValuesOf
<1>6. ASSUME NEW p \in RowsOfPlan(c), LastOfDay(p)
      PROVE  LastSelected(c) = {<<p[2], db[p][f]>>}
  <2>1. \A o \in RowsOfPlan(c) : o[2] <= p[2]
    BY <1>4, <1>6
  <2>2. <<p[2], db[p][f]>> \in LastSelected(c)
    <3>1. <<p[2], db[p][f]>> \in Selected(c)
      BY <1>1 DEF ValuesOf
    <3>2. \A r \in Selected(c) : r[1] <= <<p[2], db[p][f]>>[1]
      BY <1>1, <2>1 DEF ValuesOf
    <3> QED
      BY <3>1, <3>2 DEF LastSelected
  <2>3. ASSUME NEW x \in LastSelected(c)
        PROVE  x = <<p[2], db[p][f]>>
    <3>1. PICK o \in RowsOfPlan(c) : x = <<o[2], db[o][f]>>
      BY <1>1 DEF LastSelected, ValuesOf
    <3>2. <<p[2], db[p][f]>> \in Selected(c)
      BY <1>1 DEF ValuesOf
    <3>3. <<p[2], db[p][f]>>[1] <= x[1]
      BY <3>2 DEF LastSelected
    <3>4. p[2] <= o[2] /\ o[2] <= p[2]
      BY <2>1, <3>1, <3>3
    <3>5. p[2] = o[2]
      BY <1>2, <3>4
    <3>6. p = o
      BY <1>2, <3>5
    <3> QED
      BY <3>1, <3>6
  <2> QED
    BY <2>2, <2>3
<1>7. RowsOfPlan(c) # {} => \E p \in RowsOfPlan(c) : LastOfDay(p)
  BY <1>4, SeriesHasLast
<1> QED
  BY <1>5, <1>6, <1>7

LEMMA EveryPlanned ==
    ASSUME RowsInv, PlanForEvery
    PROVE  todo' \subseteq Plans' /\ EverySoFar'
<1>1. /\ SetUp /\ q' = q /\ db' = db /\ latest' = <<>>
      /\ todo' = {PlanOf(s) : s \in ApplicableSeries}
  BY DEF RowsInv, PlanForEvery, PlanOf
<1>2. todo' \subseteq Plans' /\ \A p \in Asked, f \in QueryFields : Left(p, f)'
  BY <1>1, AllLeftAtFirst
<1>3. DOMAIN latest' = {}
  BY <1>1
<1> QED
  BY <1>1, <1>2, <1>3, SameQuery DEF EverySoFar

\* Which query a step executes, and what it leaves of the others.
LEMMA EveryStep ==
    ASSUME RowsInv, ExecuteForEvery
    PROVE  \E c \in Plans :
              LET row == IF c.series.host \in DOMAIN latest THEN latest[c.series.host]
                         ELSE [time |-> 0, values |-> <<>>]
                  taken == {p \in LastSelected(c) : ~Complete(c.series.host) /\ SameRow(row, p)}
                  next == IF taken = {} THEN row
                          ELSE LET p == CHOOSE p \in taken : TRUE
                               IN  [time |-> p[1], values |-> Append(row.values, p[2])]
              IN  /\ c \in todo /\ todo' = todo \ {c}
                  /\ \A d \in todo : FieldPos(c.series.field) <= FieldPos(d.series.field)
                  /\ latest' = [h \in DOMAIN latest \cup {c.series.host} |->
                                   IF h = c.series.host THEN next ELSE latest[h]]
<1>1. todo \subseteq Plans
  BY DEF RowsInv, ExecuteForEvery
<1>2. PICK c \in NextByField :
        LET host == c.series.host
            row == IF host \in DOMAIN latest THEN latest[host] ELSE [time |-> 0, values |-> <<>>]
            taken == {p \in LastSelected(c) : ~Complete(host) /\ SameRow(row, p)}
            next == IF taken = {} THEN row
                    ELSE LET p == CHOOSE p \in taken : TRUE
                         IN  [time |-> p[1], values |-> Append(row.values, p[2])]
        IN  /\ latest' = [h \in DOMAIN latest \cup {host} |-> IF h = host THEN next ELSE latest[h]]
            /\ todo' = todo \ {c}
  BY DEF ExecuteForEvery
<1>3. c \in Plans /\ c \in todo
  BY <1>1, <1>2 DEF NextByField
<1>4. \A d \in todo : FieldPos(c.series.field) <= FieldPos(d.series.field)
  BY <1>2 DEF NextByField
<1> QED
  BY <1>2, <1>3, <1>4

\* Other hosts: their rows and what is left of them stay.
LEMMA EveryKeeps ==
    ASSUME SetUp, EverySoFar, NEW c \in Plans, todo' = todo \ {c}, q' = q, db' = db, c \in todo,
           NEW next,
           latest' = [h \in DOMAIN latest \cup {c.series.host} |->
                         IF h = c.series.host THEN next ELSE latest[h]],
           next.values # <<>> =>
               \E p \in Asked, n \in 1..Len(q.fields) :
                   p[1] = c.series.host /\ LastOfDay(p) /\ PartOf(next, p, n)',
           next.values = <<>> => RowsOfPlan(c) = {} /\
               (c.series.host \notin DOMAIN latest \/ latest[c.series.host].values = <<>>)
    PROVE  EverySoFar'
<1> DEFINE host == c.series.host
           f == c.series.field
<1>1. \A g : \A p \in Asked : Left(p, g)' <=> Left(p, g) /\ ~(g = f /\ p \in RowsOfPlan(c))
  BY LeftAfter
<1>2. \A p \in RowsOfPlan(c) : p[1] = host
  BY RowsOfOneHost
<1>3. DOMAIN latest' \subseteq {p[1] : p \in DOMAIN db}
  <2>1. c.series \in Series
    BY PlansApply DEF ApplicableSeries
  <2>2. host \in {p[1] : p \in DOMAIN db}
    BY <2>1 DEF Series
  <2>3. DOMAIN latest' = DOMAIN latest \cup {host}
    OBVIOUS
  <2> QED
    BY <2>2, <2>3 DEF EverySoFar
<1>0. PICK F : F = q.fields
  OBVIOUS
<1>4. ASSUME NEW h \in DOMAIN latest', latest'[h].values # <<>>
      PROVE  \E p \in Asked, n \in 1..Len(F) :
                 /\ p[1] = h /\ LastOfDay(p)
                 /\ latest'[h] = [time |-> p[2], values |-> Prefix(p, n)']
                 /\ \A k \in 1..Len(F) : Left(p, F[k])' <=> n < k
  <2>1. CASE h = host
    <3>1. latest'[h] = next
      BY <2>1
    <3>2. PICK p \in Asked, n \in 1..Len(q.fields) :
             p[1] = host /\ LastOfDay(p) /\ PartOf(next, p, n)'
      BY <1>4, <3>1
    <3>3. /\ next = [time |-> p[2], values |-> Prefix(p, n)']
          /\ \A k \in 1..Len(F) : Left(p, F[k])' <=> n < k
      BY <1>0, <3>2 DEF PartOf
    <3> QED
      BY <1>0, <2>1, <3>1, <3>2, <3>3
  <2>2. CASE h # host
    <3>1. h \in DOMAIN latest /\ latest'[h] = latest[h]
      BY <2>2
    <3>2. PICK p \in Asked, n \in 1..Len(q.fields) :
             p[1] = h /\ LastOfDay(p) /\ PartOf(latest[h], p, n)
      BY <1>4, <3>1 DEF EverySoFar
    <3>3. \A g : Left(p, g)' <=> Left(p, g)
      BY <1>1, <1>2, <2>2, <3>2
    <3>4. Prefix(p, n)' = Prefix(p, n)
      BY DEF Prefix
    <3> QED
      BY <1>0, <3>1, <3>2, <3>3, <3>4 DEF PartOf
  <2> QED
    BY <2>1, <2>2
<1>5. ASSUME NEW p \in Asked, p[1] \notin DOMAIN latest' \/ latest'[p[1]].values = <<>>,
             NEW g \in QueryFields
      PROVE  Left(p, g)'
  <2>1. CASE p[1] = host
    <3>1. next.values = <<>>
      BY <1>5, <2>1
    <3>2. RowsOfPlan(c) = {} /\ Left(p, g)
      BY <2>1, <3>1 DEF EverySoFar
    <3> QED
      BY <1>1, <3>2
  <2>2. CASE p[1] # host
    <3>1. Left(p, g)
      BY <1>5, <2>2 DEF EverySoFar
    <3> QED
      BY <1>1, <1>2, <2>2, <3>1
  <2> QED
    BY <2>1, <2>2
<1>6. Asked' = Asked /\ QueryFields' = QueryFields /\ Len(q'.fields) = Len(q.fields)
  BY SameQuery
<1>7. \A p \in Asked : LastOfDay(p)' <=> LastOfDay(p)
  BY SameQuery
<1>8. ASSUME NEW h \in DOMAIN latest', latest'[h].values # <<>>
      PROVE  \E p \in Asked, n \in 1..Len(q.fields) :
                 p[1] = h /\ LastOfDay(p) /\ (PartOf(latest[h], p, n))'
  <2>1. PICK p \in Asked, n \in 1..Len(F) :
           /\ p[1] = h /\ LastOfDay(p)
           /\ latest'[h] = [time |-> p[2], values |-> Prefix(p, n)']
           /\ \A k \in 1..Len(F) : Left(p, F[k])' <=> n < k
    BY <1>4, <1>8
  <2>2. F = q'.fields
    BY <1>0
  <2>3. (PartOf(latest[h], p, n))'
    BY <2>1, <2>2 DEF PartOf
  <2> QED
    BY <1>0, <2>1, <2>3
<1> QED
  BY <1>3, <1>5, <1>6, <1>7, <1>8 DEF EverySoFar

\* A query for every host: the first value of a host, the next of its row, or one of a row that
\* is skipped.
LEMMA EveryExecuted ==
    ASSUME RowsInv, ExecuteForEvery
    PROVE  EverySoFar'
<1>1. /\ SetUp /\ q' = q /\ db' = db /\ EverySoFar /\ todo \subseteq Plans
  BY DEF RowsInv, ExecuteForEvery
<1>2. PICK c \in Plans :
         LET row == IF c.series.host \in DOMAIN latest THEN latest[c.series.host]
                    ELSE [time |-> 0, values |-> <<>>]
             taken == {p \in LastSelected(c) : ~Complete(c.series.host) /\ SameRow(row, p)}
             next == IF taken = {} THEN row
                     ELSE LET p == CHOOSE p \in taken : TRUE
                          IN  [time |-> p[1], values |-> Append(row.values, p[2])]
         IN  /\ c \in todo /\ todo' = todo \ {c}
             /\ \A d \in todo : FieldPos(c.series.field) <= FieldPos(d.series.field)
             /\ latest' = [h \in DOMAIN latest \cup {c.series.host} |->
                              IF h = c.series.host THEN next ELSE latest[h]]
  BY EveryStep
<1> DEFINE host == c.series.host
           f == c.series.field
           row == IF host \in DOMAIN latest THEN latest[host] ELSE [time |-> 0, values |-> <<>>]
           taken == {p \in LastSelected(c) : ~Complete(host) /\ SameRow(row, p)}
           next == IF taken = {} THEN row
                   ELSE LET p == CHOOSE p \in taken : TRUE
                        IN  [time |-> p[1], values |-> Append(row.values, p[2])]
<1>3. PICK nx : nx = next
  OBVIOUS
<1>4. /\ c \in todo /\ todo' = todo \ {c}
      /\ \A d \in todo : FieldPos(f) <= FieldPos(d.series.field)
      /\ latest' = [h \in DOMAIN latest \cup {host} |-> IF h = host THEN nx ELSE latest[h]]
  BY <1>2, <1>3
<1>5. PICK F : F = q.fields /\ F = q'.fields
  BY <1>1
<1>6. Len(F) \in Nat \ {0}
  BY <1>1, <1>5, TheSetUp
<1>7. \A p \in RowsOfPlan(c) : p \in Asked /\ p[1] = host /\ p = <<host, p[2]>>
  BY <1>1, RowsOfOneHost
<1>8. \A g : \A p \in Asked : Left(p, g)' <=> Left(p, g) /\ ~(g = f /\ p \in RowsOfPlan(c))
  BY <1>1, <1>4, LeftAfter
<1>9. \A p \in RowsOfPlan(c) : Left(p, f)
  BY <1>1, <1>4, <1>7, LeftAfter DEF Left
<1>10. \A p \in Asked, k \in 1..Len(F) : Left(p, F[k]) => FieldPos(f) <= k
  <2>1. SUFFICES ASSUME NEW p \in Asked, NEW k \in 1..Len(F), Left(p, F[k])
                 PROVE  FieldPos(f) <= k
    OBVIOUS
  <2>2. PlanOf(SeriesAt(p, F[k])).series.field = F[k]
    BY PlanOfSeries DEF SeriesAt
  <2>3. FieldPos(f) <= FieldPos(F[k])
    BY <1>4, <2>1, <2>2 DEF Left
  <2> QED
    BY <1>1, <1>5, <2>3, PlaceOfField
<1>11. FieldPos(f) \in 1..Len(F) /\ F[FieldPos(f)] = f
  BY <1>1, <1>5, PlansApply, FieldHasPlace
<1>12. \A j, k \in 1..Len(F) : F[j] = F[k] => j = k
  BY <1>1, <1>5, TheSetUp
<1>13. \A j \in 1..Len(F) : F[j] \in QueryFields
  BY <1>5 DEF QueryFields
<1>14. \A p : LastOfDay(p) /\ p \in RowsOfPlan(c) => LastSelected(c) = {<<p[2], db[p][f]>>}
  BY <1>1, WhatIsLast
<1>15. RowsOfPlan(c) # {} => \E p \in RowsOfPlan(c) : LastOfDay(p)
  BY <1>1, WhatIsLast
<1>16. RowsOfPlan(c) = {} => LastSelected(c) = {}
  BY <1>1, WhatIsLast
\* A value that is taken is appended.
<1>17. ASSUME NEW p \in RowsOfPlan(c), LastOfDay(p), ~Complete(host), SameRow(row, <<p[2], db[p][f]>>)
       PROVE  nx = [time |-> p[2], values |-> Append(row.values, db[p][f])]
  <2>1. taken = {<<p[2], db[p][f]>>}
    BY <1>14, <1>17
  <2> DEFINE o == CHOOSE o \in taken : TRUE
  <2>2. o = <<p[2], db[p][f]>>
    BY <2>1
  <2>3. o[1] = p[2] /\ o[2] = db[p][f]
    <3> HIDE DEF o
    <3> QED
      BY <2>2
  <2>4. next = [time |-> o[1], values |-> Append(row.values, o[2])]
    BY <2>1
  <2> HIDE DEF o, next
  <2> QED
    BY <1>3, <2>3, <2>4
<1>18. taken = {} => nx = row
  BY <1>3
<1> HIDE DEF next
<1>19. CASE row.values = <<>>
  <2>1. host \notin DOMAIN latest \/ latest[host].values = <<>>
    BY <1>19
  <2>2. CASE RowsOfPlan(c) = {}
    <3>1. nx.values = <<>>
      BY <1>16, <1>18, <1>19, <2>2
    <3> QED
      BY <1>1, <1>4, <2>1, <2>2, <3>1, EveryKeeps
  <2>3. CASE RowsOfPlan(c) # {}
    <3>1. PICK p \in RowsOfPlan(c) : LastOfDay(p)
      BY <1>15, <2>3
    <3>2. \A k \in 1..Len(F) : Left(p, F[k])
      BY <1>1, <1>7, <1>13, <2>1 DEF EverySoFar
    <3>3. FieldPos(f) = 1 /\ F[1] = f
      <4>1. FieldPos(f) <= 1
        BY <1>6, <1>7, <1>10, <3>2
      <4> QED
        BY <1>6, <1>11, <4>1
    <3>4. ~Complete(host)
      <4>1. Len(<<>>) = 0
        OBVIOUS
      <4> QED
        BY <1>5, <1>6, <2>1, <4>1 DEF Complete
    <3>5. SameRow(row, <<p[2], db[p][f]>>)
      BY <1>19 DEF SameRow
    <3>6. nx = [time |-> p[2], values |-> Append(<<>>, db[p][f])]
      BY <1>17, <1>19, <3>1, <3>4, <3>5
    <3>7. Prefix(p, 0) = <<>>
      BY DEF Prefix
    <3>8. Append(Prefix(p, 0), db[p][F[0 + 1]]) = Prefix(p, 0 + 1) /\ Prefix(p, 0 + 1) # <<>>
      BY <1>1, <1>5, <1>6, <1>7, LongerPrefix
    <3>9. nx = [time |-> p[2], values |-> Prefix(p, 1)] /\ nx.values # <<>>
      BY <3>3, <3>6, <3>7, <3>8
    <3>10. \A k \in 1..Len(F) : Left(p, F[k])' <=> 1 < k
      BY <1>6, <1>7, <1>8, <1>12, <3>2, <3>3
    <3>11. PartOf(nx, p, 1)'
      <4>1. Prefix(p, 1)' = Prefix(p, 1)
        BY <1>1 DEF Prefix
      <4> QED
        BY <1>5, <3>9, <3>10, <4>1 DEF PartOf
    <3>12. p \in Asked /\ 1 \in 1..Len(q.fields) /\ p[1] = host
      BY <1>5, <1>6, <1>7
    <3> QED
      BY <1>1, <1>4, <3>1, <3>9, <3>11, <3>12, EveryKeeps
  <2> QED
    BY <2>2, <2>3
<1>20. CASE row.values # <<>>
  <2>1. host \in DOMAIN latest /\ row = latest[host]
    <3>1. [time |-> 0, values |-> <<>>].values = <<>>
      OBVIOUS
    <3> QED
      BY <1>20, <3>1
  <2>2. PICK p \in Asked, n \in 1..Len(F) : p[1] = host /\ LastOfDay(p) /\ PartOf(row, p, n)
    BY <1>1, <1>5, <1>20, <2>1 DEF EverySoFar
  <2>3. /\ row.time = p[2] /\ row.values = Prefix(p, n) /\ row = [time |-> p[2], values |-> Prefix(p, n)]
        /\ \A k \in 1..Len(F) : Left(p, F[k]) <=> n < k
    BY <1>5, <2>2 DEF PartOf
  <2>4. \A m : Prefix(p, m)' = Prefix(p, m)
    BY <1>1 DEF Prefix
  <2>5. CASE p \in RowsOfPlan(c)
    <3>1. n < FieldPos(f)
      BY <1>9, <1>11, <2>3, <2>5
    <3>2. n \in Nat /\ n + 1 \in 1..Len(F) /\ n \in 0..(Len(F) - 1)
      BY <1>6, <1>11, <3>1
    <3>3. FieldPos(f) <= n + 1
      <4>1. Left(p, F[n + 1])
        BY <2>3, <3>2
      <4> QED
        BY <1>10, <3>2, <4>1
    <3>4. FieldPos(f) = n + 1 /\ F[n + 1] = f
      BY <1>11, <3>1, <3>2, <3>3
    <3>5. /\ Append(Prefix(p, n), db[p][F[n + 1]]) = Prefix(p, n + 1)
          /\ Len(Prefix(p, n)) = n /\ Prefix(p, n + 1) # <<>>
      BY <1>1, <1>5, <3>2, LongerPrefix
    <3>6. ~Complete(host)
      BY <1>5, <2>1, <2>3, <3>2, <3>5 DEF Complete
    <3>7. SameRow(row, <<p[2], db[p][f]>>)
      BY <2>3 DEF SameRow
    <3>8. nx = [time |-> p[2], values |-> Append(row.values, db[p][f])]
      BY <1>17, <2>2, <2>5, <3>6, <3>7
    <3>9. nx = [time |-> p[2], values |-> Prefix(p, n + 1)] /\ nx.values # <<>>
      BY <2>3, <3>4, <3>5, <3>8
    <3>10. \A k \in 1..Len(F) : Left(p, F[k])' <=> n + 1 < k
      <4> SUFFICES ASSUME NEW k \in 1..Len(F) PROVE Left(p, F[k])' <=> n + 1 < k
        OBVIOUS
      <4>1. Left(p, F[k])' <=> n < k /\ F[k] # F[n + 1]
        BY <1>8, <2>3, <2>5, <3>4
      <4>2. F[k] = F[n + 1] <=> k = n + 1
        BY <1>12, <3>2
      <4> QED
        BY <3>2, <4>1, <4>2
    <3>11. PartOf(nx, p, n + 1)'
      BY <1>5, <2>4, <3>9, <3>10 DEF PartOf
    <3> QED
      BY <1>1, <1>4, <1>5, <2>2, <3>2, <3>9, <3>11, EveryKeeps
  <2>6. CASE p \notin RowsOfPlan(c)
    <3>1. taken = {}
      <4> SUFFICES ASSUME NEW x \in taken PROVE FALSE
        OBVIOUS
      <4>1. x \in LastSelected(c) /\ SameRow(row, x)
        OBVIOUS
      <4>2. PICK r \in RowsOfPlan(c) : LastOfDay(r)
        BY <1>15, <1>16, <4>1
      <4>3. x = <<r[2], db[r][f]>>
        BY <1>14, <4>1, <4>2
      <4>4. p[2] = r[2]
        BY <1>20, <2>3, <4>1, <4>3 DEF SameRow
      <4>5. p = <<p[1], p[2]>>
        BY <1>1, RowsAskedFor
      <4> QED
        BY <1>7, <2>2, <2>6, <4>2, <4>4, <4>5
    <3>2. nx = row
      BY <1>18, <3>1
    <3>3. \A k \in 1..Len(F) : Left(p, F[k])' <=> n < k
      BY <1>8, <2>3, <2>6
    <3>4. PartOf(nx, p, n)'
      BY <1>5, <2>3, <2>4, <3>2, <3>3 DEF PartOf
    <3>5. nx.values # <<>>
      BY <1>20, <3>2
    <3> QED
      BY <1>1, <1>4, <1>5, <2>2, <3>4, <3>5, EveryKeeps
  <2> QED
    BY <2>5, <2>6
<1> QED
  BY <1>19, <1>20

\* The result: one whole row for every host with rows asked for.
LEMMA EveryFinished ==
    ASSUME RowsInv, FinishForEvery
    PROVE  ForEveryRowIsWhole'
<1>1. /\ SetUp /\ q' = q /\ db' = db /\ EverySoFar /\ todo = {}
      /\ result' = {[time |-> latest[h].time, host |-> h, values |-> latest[h].values] :
                        h \in {g \in DOMAIN latest : latest[g].values # <<>>}}
  BY DEF RowsInv, FinishForEvery
<1> DEFINE H == {g \in DOMAIN latest : latest[g].values # <<>>}
           Row(h) == [time |-> latest[h].time, host |-> h, values |-> latest[h].values]
<1>2. result' = {Row(h) : h \in H}
  BY <1>1
<1>3. Len(q.fields) \in Nat \ {0}
  BY <1>1, TheSetUp
<1>4. ASSUME NEW h \in H
      PROVE  \E p \in Asked : p[1] = h /\ LastOfDay(p) /\ Row(h) = RowOf(p)
  <2>1. PICK p \in Asked, n \in 1..Len(q.fields) :
           p[1] = h /\ LastOfDay(p) /\ PartOf(latest[h], p, n)
    BY <1>1 DEF EverySoFar
  <2>2. ~(n < Len(q.fields))
    BY <1>1, <1>3, <2>1 DEF PartOf, Left
  <2>3. n = Len(q.fields)
    BY <1>3, <2>2
  <2>4. latest[h].time = p[2] /\ latest[h].values = Prefix(p, Len(q.fields))
    BY <2>1, <2>3 DEF PartOf
  <2>5. Row(h) = RowOf(p)
    BY <2>1, <2>4 DEF RowOf, Prefix
  <2> QED
    BY <2>1, <2>5
<1>5. ASSUME NEW p \in Asked
      PROVE  p[1] \in H
  <2>1. q.fields[1] \in QueryFields
    BY <1>3 DEF QueryFields
  <2>2. ~Left(p, q.fields[1])
    BY <1>1 DEF Left
  <2> QED
    BY <1>1, <2>1, <2>2 DEF EverySoFar
<1>6. \A h \in H : Row(h).host = h
  OBVIOUS
<1>7. IsFiniteSet(H)
  <2> DEFINE hosts == {p[1] : p \in DOMAIN db}
             first == [p \in DOMAIN db |-> p[1]]
  <2>1. IsFiniteSet(hosts)
    <3>1. first \in Surjection(DOMAIN db, hosts)
      BY DEF Surjection
    <3> HIDE DEF first, hosts
    <3> QED
      BY <1>1, <3>1, TheSetUp, FS_Surjection
  <2>2. H \subseteq hosts
    BY <1>1 DEF EverySoFar
  <2> QED
    BY <2>1, <2>2, FS_Subset
<1> HIDE DEF Row, H
<1>8. {r.host : r \in result'} = H
  BY <1>2, <1>6
<1>9. Cardinality(result') = Cardinality(H)
  <2> DEFINE F == [h \in H |-> Row(h)]
  <2>1. F \in Bijection(H, result')
    <3>1. F \in [H -> result'] /\ \A h \in H : F[h] = Row(h)
      BY <1>2
    <3>2. \A g, h \in H : F[g] = F[h] => g = h
      BY <1>6, <3>1
    <3>3. \A r \in result' : \E h \in H : F[h] = r
      BY <1>2, <3>1
    <3> HIDE DEF F
    <3> QED
      BY <3>1, <3>2, <3>3 DEF Bijection, Injection, IsInjective, Surjection
  <2> HIDE DEF F
  <2> QED
    BY <1>7, <2>1, FS_Bijection DEF ExistsBijection
<1>10. \A r \in result' : \E p \in Asked : r = RowOf(p)
  BY <1>2, <1>4
<1>11. H = {p[1] : p \in Asked}
  BY <1>4, <1>5
<1>12. ASSUME OfOneDay
       PROVE  result' = {RowOf(p) : p \in {r \in Asked : \A o \in Asked : o[1] = r[1] => o[2] <= r[2]}}
  <2> DEFINE L == {r \in Asked : \A o \in Asked : o[1] = r[1] => o[2] <= r[2]}
  <2>1. ASSUME NEW p \in Asked, LastOfDay(p)
        PROVE  p \in L
    BY <1>12, <2>1 DEF OfOneDay, LastOfDay
  <2>2. result' \subseteq {RowOf(p) : p \in L}
    <3> HIDE DEF L
    <3> QED
      BY <1>2, <1>4, <2>1
  <2>3. ASSUME NEW p \in L
        PROVE  RowOf(p) \in result'
    <3>1. p \in Asked /\ p[1] \in H
      BY <1>5
    <3>2. PICK r \in Asked : r[1] = p[1] /\ LastOfDay(r) /\ Row(p[1]) = RowOf(r)
      BY <1>4, <3>1
    <3>3. r \in L
      BY <2>1, <3>2
    <3>4. p[2] <= r[2] /\ r[2] <= p[2]
      BY <3>1, <3>2, <3>3
    <3>5. p = <<p[1], p[2]>> /\ r = <<r[1], r[2]>> /\ p[2] \in Nat /\ r[2] \in Nat
      BY <1>1, <3>1, RowsAskedFor
    <3>6. p = r
      BY <3>2, <3>4, <3>5
    <3> QED
      BY <1>2, <3>1, <3>2, <3>6
  <2> QED
    BY <2>2, <2>3
<1>13. Asked' = Asked /\ (\A p \in Asked : RowOf(p)' = RowOf(p)) /\ OfOneDay' = OfOneDay
  BY <1>1, SameQuery DEF OfOneDay
<1>14. OfOneDay' => LastRowForEveryHost'
  <2> SUFFICES ASSUME OfOneDay PROVE LastRowForEveryHost'
    BY <1>13
  <2> DEFINE L == {r \in Asked : \A o \in Asked : o[1] = r[1] => o[2] <= r[2]}
  <2>1. \A p \in L : RowOf(p)' = RowOf(p)
    BY <1>13
  <2>2. result' = {RowOf(p) : p \in L}
    BY <1>12
  <2>3. result' = {RowOf(p)' : p \in L}
    BY <2>1, <2>2
  <2> QED
    BY <1>13, <2>3 DEF LastRowForEveryHost
<1>15. (\A r \in result : \E p \in Asked : r = RowOf(p))'
  BY <1>10, <1>13
<1> QED
  BY <1>8, <1>9, <1>11, <1>13, <1>14, <1>15 DEF ForEveryRowIsWhole
-----------------------------------------------------------------------------
LEMMA RowsInitially == Init => RowsInv
BY DEF Init, RowsInv, SetUp, RowsRight

\* The plans that aggregate say nothing about rows.
LEMMA AggregationIsApart ==
    ASSUME RowsInv,
           \/ PlanWithServerAggregation \/ ExecuteWithServerAggregation \/ FinishWithServerAggregation
           \/ PlanWithoutServerAggregation \/ ExecuteWithoutServerAggregation
           \/ FinishWithoutServerAggregation
    PROVE  RowsInv'
<1>1. /\ SetUp /\ q' = q /\ db' = db /\ q.aggr # "none"
      /\ pc' \in {"server", "client", "done"}
  BY DEF RowsInv, PlanWithServerAggregation, ExecuteWithServerAggregation,
         FinishWithServerAggregation, PlanWithoutServerAggregation,
         ExecuteWithoutServerAggregation, FinishWithoutServerAggregation
<1> QED
  BY <1>1, SameQuery DEF RowsInv, RowsRight

LEMMA RowsAreInvariant == RowsInv /\ [Next]_vars => RowsInv'
<1> SUFFICES ASSUME RowsInv, [Next]_vars PROVE RowsInv'
  OBVIOUS
<1>1. CASE PlanNoAggregation
  <2>1. SetUp /\ q' = q /\ db' = db /\ pc' = "where" /\ q.aggr = "none" /\ ~q.forEvery
    BY <1>1 DEF RowsInv, PlanNoAggregation
  <2> QED
    BY <1>1, <2>1, SameQuery, WherePlanned DEF RowsInv, RowsRight
<1>2. CASE ExecuteWhere
  <2>1. /\ SetUp /\ q' = q /\ db' = db /\ pc' = "where" /\ q.aggr = "none" /\ ~q.forEvery
        /\ todo' \subseteq todo /\ todo \subseteq Plans
    BY <1>2 DEF RowsInv, ExecuteWhere
  <2> QED
    BY <1>2, <2>1, SameQuery, WhereExecuted DEF RowsInv, RowsRight
<1>3. CASE EndFirstPass
  <2>1. /\ SetUp /\ q' = q /\ db' = db /\ pc' = "columns" /\ q.aggr = "none" /\ ~q.forEvery
        /\ todo' \subseteq todo /\ todo \subseteq Plans
    BY <1>3 DEF RowsInv, EndFirstPass
  <2> QED
    BY <1>3, <2>1, SameQuery, FirstPassEnded DEF RowsInv, RowsRight
<1>4. CASE ExecuteColumn
  <2>1. /\ SetUp /\ q' = q /\ db' = db /\ pc' = "columns" /\ q.aggr = "none" /\ ~q.forEvery
        /\ todo' \subseteq todo /\ todo \subseteq Plans
    BY <1>4 DEF RowsInv, ExecuteColumn
  <2> QED
    BY <1>4, <2>1, SameQuery, ColumnExecuted DEF RowsInv, RowsRight
<1>5. CASE FinishNoAggregation
  <2>1. /\ SetUp /\ q' = q /\ db' = db /\ pc' = "done" /\ ~q.forEvery
    BY <1>5 DEF RowsInv, FinishNoAggregation
  <2> QED
    BY <1>5, <2>1, SameQuery, WhereFinished DEF RowsInv, RowsRight
<1>6. CASE PlanForEvery
  <2>1. SetUp /\ q' = q /\ db' = db /\ pc' = "forEvery" /\ q.aggr = "none" /\ q.forEvery
    BY <1>6 DEF RowsInv, PlanForEvery
  <2> QED
    BY <1>6, <2>1, SameQuery, EveryPlanned DEF RowsInv, RowsRight
<1>7. CASE ExecuteForEvery
  <2>1. /\ SetUp /\ q' = q /\ db' = db /\ pc' = "forEvery" /\ q.aggr = "none" /\ q.forEvery
        /\ todo' \subseteq todo /\ todo \subseteq Plans
    BY <1>7 DEF RowsInv, ExecuteForEvery
  <2> QED
    BY <1>7, <2>1, SameQuery, EveryExecuted DEF RowsInv, RowsRight
<1>8. CASE FinishForEvery
  <2>1. /\ SetUp /\ q' = q /\ db' = db /\ pc' = "done" /\ q.forEvery
    BY <1>8 DEF RowsInv, FinishForEvery
  <2> QED
    BY <1>8, <2>1, SameQuery, EveryFinished DEF RowsInv, RowsRight
<1>9. CASE UNCHANGED vars
  <2>1. /\ db' = db /\ q' = q /\ pc' = pc /\ todo' = todo /\ rows' = rows /\ latest' = latest
        /\ result' = result
    BY <1>9 DEF vars
  <2>2. PICK F : F = q.fields /\ F = q'.fields
    BY <2>1
  <2>3. \A p, f : Left(p, f)' <=> Left(p, f)
    BY <2>1 DEF Left, PlanOf, CQLQuery, QueryInterval, SeriesAt
  <2>4. WhereSoFar' <=> WhereSoFar
    BY <2>1, SameQuery DEF WhereSoFar, FirstPass, Left, PlanOf, CQLQuery, QueryInterval, SeriesAt
  <2>5. EverySoFar' <=> EverySoFar
    BY <2>1, SameQuery DEF EverySoFar, PartOf, Prefix, Left, PlanOf, CQLQuery, QueryInterval, SeriesAt
  <2>6. RowsRight' <=> RowsRight
    BY <2>1 DEF RowsRight, WhereRowsRight, ForEveryRowIsWhole, LastRowForEveryHost, OfOneDay, RowOf,
                Asked, Where, Within, QueryInterval, Interval
  <2> QED
    BY <2>1, <2>4, <2>5, <2>6, SameQuery DEF RowsInv
<1> QED
  BY <1>1, <1>2, <1>3, <1>4, <1>5, <1>6, <1>7, <1>8, <1>9, AggregationIsApart DEF Next, Done

\* A query with a WHERE clause gets exactly the rows that satisfy it, and a query for every host
\* one whole row of each, whatever the database and the order in which the index lists the
\* series whose columns make up the rows.
THEOREM PlansReturnTheRows == Spec => []RowsRight
<1>1. RowsInv => RowsRight
  BY DEF RowsInv
<1> QED
  BY <1>1, RowsInitially, RowsAreInvariant, PTL DEF Spec
=============================================================================
