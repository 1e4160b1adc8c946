-------------------------- MODULE MCCassandraPlans --------------------------
(* Databases and queries for TLC: two hosts, days of four instants, buckets *)
(* of two.  Values are multiples of 12, so means of up to four are whole.  *)
EXTENDS CassandraPlans, TLC

CONSTANTS h1, h2, f1, f2

Hosts == {h1, h2}
TwoFields == {f1, f2}

\* Rows on both sides of a bucket boundary and of midnight.
Instants == {1, 2, 3, 4, 7}

Values == {12, 24}
RowValues == [TwoFields -> Values]

\* All databases of one to MaxRows rows.
DatabasesOf(max, instants) ==
    UNION {[ps -> RowValues] : ps \in {s \in SUBSET (Hosts \X instants) : Cardinality(s) \in 1..max}}

SmallDatabases == DatabasesOf(2, Instants)

\* Rows of two series in one bucket.
OneHourDatabases == DatabasesOf(3, {0, 1})

HLQuery(start, end, fields, tagSets, aggr, desc, limit, where, forEvery, plan) ==
    [start |-> start, end |-> end, group |-> 2, fields |-> fields, tagSets |-> tagSets,
     aggr |-> aggr, desc |-> desc, limit |-> limit, where |-> where,
     forEvery |-> forEvery, plan |-> plan]

NoWhere == [field |-> f1, op |-> ">", pred |-> 0]
Wheres == {[field |-> f1, op |-> o, pred |-> 12] : o \in {">", "<", ">=", "<="}}

\* The whole time, and a range that cuts the first and the last bucket.
Ranges == {<<0, 8>>, <<2, 7>>}
TagSetChoices == {{}, {{h1}}, {{h1, h2}, {h2}}}

MaxQueries == {HLQuery(r[1], r[2], <<f1>>, t, "max", FALSE, 0, NoWhere, FALSE, "server") :
                  r \in Ranges \cup {<<1, 4>>}, t \in TagSetChoices}
\* The means of one host: a bucket then has the rows of one series.
MeanQueries == {HLQuery(r[1], r[2], <<f1>>, {{h1}}, "avg", FALSE, 0, NoWhere, FALSE, "server") :
                   r \in Ranges}
LimitQueries == {HLQuery(r[1], r[2], fs, {}, "max", d, n, NoWhere, FALSE, "client") :
                    r \in Ranges, fs \in {<<f1>>}, d \in BOOLEAN, n \in {0, 2}}
WhereQueries == {HLQuery(1, 7, <<f2, f1>>, {}, "none", FALSE, 0, w, FALSE, "server") : w \in Wheres}
LastQueries == {HLQuery(r[1], r[2], <<f1, f2>>, {}, "none", FALSE, 0, NoWhere, TRUE, "server") :
                   r \in Ranges}
AllQueries == MaxQueries \cup MeanQueries \cup LimitQueries \cup WhereQueries \cup LastQueries

ClientQueries == {HLQuery(0, 2, <<f1>>, {}, "max", FALSE, 0, NoWhere, FALSE, "client")}
=============================================================================
